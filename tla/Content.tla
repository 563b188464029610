------------------------------ MODULE Content ------------------------------
(***************************************************************************)
(* The bytes of a longer message are in one piece of memory, however many  *)
(* subscribers it goes to: a Publisher writes a copy of the message's head *)
(* (msg_t) to every matching pipe and counts references in the content.    *)
(* The I/O threads close their copies at any time, also while the          *)
(* publisher is still writing others, finds pipes full and takes the       *)
(* references of those back; whoever drops the last one frees the memory.  *)
(***************************************************************************)
EXTENDS Integers, Sequences, FiniteSets

CONSTANTS OutPipes,
          Contents,     \* addresses malloc may return
          NoContent,
          Cap           \* messages a pipe takes

VARIABLES
    alive,      \* contents allocated
    refcnt,     \* refcnt[c]: content_t::refcnt
    message,    \* the publisher's msg_t: its content and the flag `shared'
    todo,       \* matching pipes that dist_t::distribute has not come to
    failed,     \* its `failed'
    distributing, \* it is in the middle
    piped,      \* piped[p]: copies in the pipe
    taken,      \* taken[p]: the copy the I/O thread has in its hands
    freeing     \* freeing[p]: the content it found without references

contentVars == <<alive, refcnt, message, todo, failed, distributing, piped, taken, freeing>>

NoMessage == [content |-> NoContent, shared |-> FALSE]

ContentInit ==
    /\ alive = {} /\ refcnt = [c \in Contents |-> 0]
    /\ message = NoMessage
    /\ todo = {} /\ failed = 0 /\ distributing = FALSE
    /\ piped = [p \in OutPipes |-> <<>>]
    /\ taken = [p \in OutPipes |-> NoMessage]
    /\ freeing = [p \in OutPipes |-> NoContent]

-----------------------------------------------------------------------------
(* The publisher's thread.                                                 *)

(* The constructor of a message; one of few bytes has no content at all.   *)
Construct ==
    /\ message = NoMessage
    /\ \E c \in Contents \ alive :
          /\ alive' = alive \cup {c}
          /\ message' = [content |-> c, shared |-> FALSE]
    /\ UNCHANGED <<refcnt, todo, failed, distributing, piped, taken, freeing>>

(* A copy shares the content once there is a second. *)
AddRefs(n) ==
    IF n = 0 THEN UNCHANGED <<refcnt, message>>
    ELSE /\ refcnt' = [refcnt EXCEPT ![message.content] = n + 1]
         /\ message' = [message EXCEPT !.shared = TRUE]

(* send to the pipes that match, none of which: the message is closed. *)
Distribute ==
    /\ ~distributing /\ message # NoMessage
    /\ \E matching \in SUBSET OutPipes :
          IF matching = {}
          THEN /\ alive' = alive \ {message.content}
               /\ message' = NoMessage
               /\ UNCHANGED <<refcnt, todo, distributing>>
          ELSE /\ AddRefs(Cardinality(matching) - 1)
               /\ todo' = matching /\ distributing' = TRUE
               /\ UNCHANGED alive
    /\ failed' = 0
    /\ UNCHANGED <<piped, taken, freeing>>

WriteCopy(p) ==
    /\ p \in todo
    /\ todo' = todo \ {p}
    /\ IF Len(piped[p]) < Cap
       THEN piped' = [piped EXCEPT ![p] = Append(@, message)] /\ UNCHANGED failed
       ELSE failed' = failed + 1 /\ UNCHANGED piped
    /\ UNCHANGED <<alive, refcnt, message, distributing, taken, freeing>>

(* Mutant of RmRefs: frees what no pipe has taken, and counts otherwise,   *)
(* but takes the count for old.                                            *)
RmRefsOld ==
    IF ~message.shared \/ failed = refcnt[message.content] - 1
    THEN alive' = alive \ {message.content} /\ UNCHANGED refcnt
    ELSE refcnt' = [refcnt EXCEPT ![message.content] = @ - failed] /\ UNCHANGED alive

(* rm_refs, for the pipes that were full: it may be the last to let go.    *)
RmRefs ==
    IF failed = 0 THEN UNCHANGED <<alive, refcnt>>
    ELSE IF ~message.shared THEN alive' = alive \ {message.content} /\ UNCHANGED refcnt
    ELSE /\ refcnt' = [refcnt EXCEPT ![message.content] = @ - failed]
         /\ alive' = IF refcnt[message.content] = failed THEN alive \ {message.content} ELSE alive

(* The head is detached from the content, not closed. *)
Detach ==
    /\ distributing /\ todo = {}
    /\ RmRefs
    /\ message' = NoMessage
    /\ distributing' = FALSE
    /\ UNCHANGED <<todo, failed, piped, taken, freeing>>

-----------------------------------------------------------------------------
(* An I/O thread, whose engine takes a message out of a pipe, or the end   *)
(* of a pipe that is deallocated and drops what is in it.                  *)

Take(p) ==
    /\ taken[p] = NoMessage /\ freeing[p] = NoContent
    /\ piped[p] # <<>>
    /\ taken' = [taken EXCEPT ![p] = Head(piped[p])]
    /\ piped' = [piped EXCEPT ![p] = Tail(@)]
    /\ UNCHANGED <<alive, refcnt, message, todo, failed, distributing, freeing>>

(* msg_t::close: the atomic subtraction tells who is the last... *)
Release(p) ==
    /\ taken[p] # NoMessage
    /\ LET c == taken[p].content IN
       /\ freeing' = [freeing EXCEPT ![p] =
             IF ~taken[p].shared \/ refcnt[c] = 1 THEN c ELSE NoContent]
       /\ refcnt' = IF taken[p].shared THEN [refcnt EXCEPT ![c] = @ - 1] ELSE refcnt
    /\ taken' = [taken EXCEPT ![p] = NoMessage]
    /\ UNCHANGED <<alive, message, todo, failed, distributing, piped>>

(* ...and frees. *)
Free(p) ==
    /\ freeing[p] # NoContent
    /\ alive' = alive \ {freeing[p]}
    /\ freeing' = [freeing EXCEPT ![p] = NoContent]
    /\ UNCHANGED <<refcnt, message, todo, failed, distributing, piped, taken>>

ContentNext ==
    \/ Construct \/ Distribute \/ Detach
    \/ \E p \in OutPipes : WriteCopy(p) \/ Take(p) \/ Release(p) \/ Free(p)

ContentSpec == ContentInit /\ [][ContentNext]_contentVars

-----------------------------------------------------------------------------
ContentTypeOK ==
    LET Messages == [content : Contents, shared : BOOLEAN] \cup {NoMessage} IN
    /\ alive \subseteq Contents /\ refcnt \in [Contents -> Int]
    /\ message \in Messages /\ taken \in [OutPipes -> Messages]
    /\ todo \subseteq OutPipes /\ failed \in 0..Cardinality(OutPipes) /\ distributing \in BOOLEAN
    /\ piped \in [OutPipes -> Seq(Messages)]
    /\ freeing \in [OutPipes -> Contents \cup {NoContent}]

(* Whether there is a copy of content c in the hands of the I/O thread, at *)
(* 0, or at place i of pipe p.                                             *)
HasCopy(c, p, i) ==
    IF i = 0 THEN taken[p].content = c
    ELSE i <= Len(piped[p]) /\ piped[p][i].content = c

CopiesOf(c) == Cardinality({x \in OutPipes \X (0..Cap) : HasCopy(c, x[1], x[2])})

(* The references the publisher holds. *)
Owed(c) ==
    IF message.content # c THEN 0 ELSE IF distributing THEN Cardinality(todo) + failed ELSE 1

Freers(c) == {p \in OutPipes : freeing[p] = c}

(* A content is in memory exactly as long as somebody has a copy of the    *)
(* message or is about to free it, which is one thread and then only that; *)
(* a shared one counts its copies.  So no reader meets freed memory, none  *)
(* is freed twice, and none is forgotten, in whatever order pipes fill up, *)
(* are refused and are read (add_refs, rm_refs, close).                    *)
FreedOnceByTheLast ==
    /\ ContentTypeOK
    /\ \A c \in Contents :
          LET n == CopiesOf(c) + Owed(c) IN
          /\ c \in alive <=> n + Cardinality(Freers(c)) > 0
          /\ Freers(c) # {} => n = 0 /\ Cardinality(Freers(c)) = 1
          /\ n > 1 => refcnt[c] = n
=============================================================================
