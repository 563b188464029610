------------------------------- MODULE Yqueue -------------------------------
(***************************************************************************)
(* yqueue_t: the memory of a ypipe, a list of chunks with ChunkSize        *)
(* elements each.  The writer's thread links a new chunk when it comes to  *)
(* the end of the last one, and frees one when it takes elements back; the *)
(* reader's thread leaves a chunk behind when it has read all of it and    *)
(* offers it to the writer as the spare, the only pointer both change,     *)
(* with an atomic exchange.                                                *)
(*                                                                         *)
(* Elements are numbered in the order of writing.  `flushed' stands for    *)
(* what Ypipe lets the threads do: the reader pops what was flushed, the   *)
(* writer takes back only what was not.                                    *)
(***************************************************************************)
EXTENDS Integers, FiniteSets

CONSTANTS Chunks,       \* addresses malloc may return
          NoChunk,      \* NULL
          ChunkSize,    \* N, elements of a chunk
          MaxElements   \* bound: elements in the order of writing

VARIABLES
    allocated,      \* chunks allocated and not freed
    next, prev,     \* chunk_t::next and prev
    value,          \* value[k][i]: chunk_t::values, numbers of elements
    begin, beginPos, back, backPos, end, endPos,
    spare,          \* yqueue_t::_spare_chunk
    writing,        \* "idle", "fetching" or "linking" a chunk
    reading,        \* "idle", "offering" or "freeing" a chunk
    fetched,        \* the spare the writer got
    left,           \* the chunk the reader offers or frees
    written,        \* elements in the queue or popped
    flushed,        \* elements the reader may pop
    popped          \* elements popped

listVars == <<allocated, next, prev, value>>

appendVars == <<back, backPos, end, endPos, writing, fetched, written>>

takeVars == <<begin, beginPos, reading, left, popped>>

yqueueVars == <<listVars, appendVars, takeVars, spare, flushed>>

(* The constructor, and ypipe_t's first push. *)
YqueueInit ==
    \E k \in Chunks :
        /\ allocated = {k}
        /\ next = [j \in Chunks |-> NoChunk] /\ prev = next
        /\ value = [j \in Chunks |-> [i \in 0..ChunkSize - 1 |-> -1]]
        /\ begin = k /\ back = k /\ end = k
        /\ beginPos = 0 /\ backPos = 0
        /\ endPos = 1
        /\ spare = NoChunk /\ fetched = NoChunk /\ left = NoChunk
        /\ writing = IF ChunkSize = 1 THEN "fetching" ELSE "idle"
        /\ reading = "idle"
        /\ written = 0 /\ flushed = 0 /\ popped = 0

(* What is in a freed chunk is not defined; it is reset. *)
FreeChunk(k) ==
    /\ allocated' = allocated \ {k}
    /\ next' = [j \in Chunks |-> IF k \in {j, next[j]} THEN NoChunk ELSE next[j]]
    /\ prev' = [prev EXCEPT ![k] = NoChunk]
    /\ value' = [value EXCEPT ![k] = [i \in 0..ChunkSize - 1 |-> -1]]

-----------------------------------------------------------------------------
(* The writer's thread. *)

(* ypipe_t::write puts the element into back() and pushes a new one. *)
Push ==
    /\ writing = "idle"
    /\ written < MaxElements
    /\ value' = [value EXCEPT ![back][backPos] = written]
    /\ back' = end /\ backPos' = endPos
    /\ endPos' = endPos + 1
    /\ writing' = IF endPos + 1 = ChunkSize THEN "fetching" ELSE "idle"
    /\ written' = written + 1
    /\ UNCHANGED <<allocated, next, prev, end, fetched, takeVars, spare, flushed>>

(* Mutant of FetchSpare: leaves the spare chunk there. *)
FetchSpareShared ==
    /\ writing = "fetching"
    /\ fetched' = spare /\ UNCHANGED spare
    /\ writing' = "linking"
    /\ UNCHANGED <<listVars, back, backPos, end, endPos, written, takeVars, flushed>>

FetchSpare ==
    /\ writing = "fetching"
    /\ fetched' = spare /\ spare' = NoChunk
    /\ writing' = "linking"
    /\ UNCHANGED <<listVars, back, backPos, end, endPos, written, takeVars, flushed>>

(* The chunk that comes next: the spare or a new one. *)
LinkChunk ==
    /\ writing = "linking"
    /\ \E k \in IF fetched # NoChunk THEN {fetched} ELSE Chunks \ allocated :
          /\ allocated' = allocated \cup {k}
          /\ next' = [next EXCEPT ![end] = k]
          /\ prev' = [prev EXCEPT ![k] = end]
          /\ end' = k
    /\ endPos' = 0
    /\ fetched' = NoChunk
    /\ writing' = "idle"
    /\ UNCHANGED <<value, back, backPos, written, takeVars, spare, flushed>>

(* Back and end go one position back; a chunk that is not needed any more  *)
(* is freed.                                                               *)
Unpush ==
    /\ writing = "idle"
    /\ written > flushed
    /\ IF backPos > 0 THEN backPos' = backPos - 1 /\ UNCHANGED back
       ELSE backPos' = ChunkSize - 1 /\ back' = prev[back]
    /\ IF endPos > 0
       THEN endPos' = endPos - 1 /\ UNCHANGED <<end, listVars>>
       ELSE endPos' = ChunkSize - 1 /\ end' = prev[end] /\ FreeChunk(next[prev[end]])
    /\ written' = written - 1
    /\ UNCHANGED <<writing, fetched, takeVars, spare, flushed>>

FlushItems ==
    /\ writing = "idle"
    /\ flushed' \in flushed + 1..written
    /\ UNCHANGED <<listVars, appendVars, takeVars, spare>>

-----------------------------------------------------------------------------
(* The reader's thread. *)

PopItem ==
    /\ reading = "idle"
    /\ popped < flushed
    /\ popped' = popped + 1
    /\ IF beginPos + 1 < ChunkSize
       THEN /\ beginPos' = beginPos + 1
            /\ UNCHANGED <<prev, begin, reading, left>>
       ELSE /\ left' = begin
            /\ begin' = next[begin]
            /\ prev' = [prev EXCEPT ![next[begin]] = NoChunk]
            /\ beginPos' = 0
            /\ reading' = "offering"
    /\ UNCHANGED <<allocated, next, value, appendVars, spare, flushed>>

(* The chunk is the spare now, and the one before it to be freed. *)
OfferSpare ==
    /\ reading = "offering"
    /\ spare' = left /\ left' = spare
    /\ reading' = "freeing"
    /\ UNCHANGED <<listVars, appendVars, begin, beginPos, popped, flushed>>

FreeSpare ==
    /\ reading = "freeing"
    /\ IF left = NoChunk THEN UNCHANGED listVars ELSE FreeChunk(left)
    /\ left' = NoChunk
    /\ reading' = "idle"
    /\ UNCHANGED <<appendVars, begin, beginPos, popped, spare, flushed>>

YqueueNext == \/ Push \/ FetchSpare \/ LinkChunk \/ Unpush \/ FlushItems
              \/ PopItem \/ OfferSpare \/ FreeSpare

YqueueSpec == YqueueInit /\ [][YqueueNext]_yqueueVars

-----------------------------------------------------------------------------
YqueueTypeOK ==
    /\ allocated \subseteq Chunks
    /\ {begin, back, end} \subseteq Chunks
    /\ {spare, fetched, left} \subseteq Chunks \cup {NoChunk}
    /\ {beginPos, backPos} \subseteq 0..ChunkSize - 1 /\ endPos \in 0..ChunkSize
    /\ written \in 0..MaxElements /\ flushed \in 0..MaxElements /\ popped \in 0..MaxElements

(* The list: chunk[0], ..., chunk[n] are what next leads to, from the one  *)
(* the reader is in to the last.  Where the last one leads does not matter: *)
(* a recycled chunk has its old successor until the writer links the next. *)
IsList(n, chunk) ==
    /\ chunk[0] = begin /\ chunk[n] = end
    /\ \A k \in 0..n - 1 : next[chunk[k]] = chunk[k + 1]
    /\ \A j, k \in 0..n : chunk[j] = chunk[k] => j = k

(* The element that position i of the k-th chunk in the list is for. *)
Element(k, i) == popped - beginPos + (k * ChunkSize + i)

(* Whatever chunks are linked, recycled and freed, the reader finds every  *)
(* element in its place, back() is the place behind the last one and the   *)
(* writer's end the place behind that.                                     *)
ContentsKept(n, chunk) ==
    /\ Element(n, endPos) = written + 1
    /\ \A k \in 0..n : \A i \in 0..ChunkSize - 1 :
          /\ Element(k, i) \in popped..written - 1 => value[chunk[k]][i] = Element(k, i)
          /\ Element(k, i) = written => back = chunk[k] /\ backPos = i

(* No chunk is lost, none is freed twice or used in two places: each one   *)
(* allocated is in the list, or the spare, or in the hands of one thread.  *)
EachOnce(n, chunk) ==
    LET list == {chunk[k] : k \in 0..n}
        owners == <<spare, fetched, left>>
    IN  /\ allocated = list \cup ({spare, fetched, left} \ {NoChunk})
        /\ \A i \in 1..3 : owners[i] # NoChunk =>
              owners[i] \notin list /\ \A j \in 1..3 : owners[j] = owners[i] => j = i

(* The queue does not hold on to memory: beyond the chunks its elements    *)
(* take up there are the two at its ends, the spare and one to be freed.   *)
MemoryBounded == (Cardinality(allocated) - 4) * ChunkSize <= written - popped

(* The memory of a ypipe is in order, with both threads in it (yqueue_t).  *)
ChunksAccounted ==
    /\ YqueueTypeOK /\ MemoryBounded
    /\ \E n \in 0..MaxElements + 1 : \E chunk \in [0..n -> Chunks] :
          IsList(n, chunk) /\ ContentsKept(n, chunk) /\ EachOnce(n, chunk)
=============================================================================
