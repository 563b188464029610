---------------------------- MODULE Ypipe_proofs -----------------------------
(***************************************************************************)
(* That a ypipe loses no wake-up and is a first-in-first-out queue, for    *)
(* any frames and any number of them.                                      *)
(***************************************************************************)
EXTENDS Ypipe, SequenceTheorems, TLAPS

(* What c says about the reader.  It is NULL only while the reader sleeps  *)
(* and has read all that was flushed; with c set, a sleeping reader has    *)
(* something to read and a wake-up on its way.                             *)
Sleeping ==
    /\ r # Null
    /\ c = Null => reader = "asleep"
    /\ reader = "asleep" => r = front
    /\ reader = "asleep" => (c = Null <=> front = w)

(* A flush that is under way has something to flush. *)
Flushing == writer = "flushing" => w < f

YInv == TypeOK /\ Ordered /\ FlushPoint /\ AloneWithC /\ NoLostWakeUp /\ Sleeping /\ Flushing

USE EntriesAssumption, MaxItemsAssumption DEF Null

LEMMA InitHolds == Init => YInv
<1> SUFFICES ASSUME Init PROVE YInv
    OBVIOUS
<1> cells = <<>> /\ Len(cells) = 0
    BY DEF Init
<1>1. TypeOK
    BY DEF Init, TypeOK
<1>2. Ordered /\ FlushPoint
    BY DEF Init, Ordered, FlushPoint, Back
<1>3. AloneWithC /\ NoLostWakeUp /\ Sleeping /\ Flushing
    BY DEF Init, AloneWithC, NoLostWakeUp, Sleeping, Flushing
<1> QED
    BY <1>1, <1>2, <1>3 DEF YInv

(* A frame is written. *)
LEMMA WriteKeeps == ASSUME YInv, NEW x \in Entries, Write(x) PROVE YInv'
<1> USE DEF YInv, Write, Place
<1>1. cells \in Seq(Entries) /\ Len(cells) \in Nat
    BY DEF TypeOK
<1>2. /\ cells' \in Seq(Entries)
      /\ Len(cells') = Len(cells) + 1
      /\ \A i \in 1..Len(cells) : cells'[i] = cells[i]
      /\ cells'[Len(cells) + 1] = x
    BY <1>1, AppendProperties
<1>3. f' = (IF x.more THEN f ELSE Len(cells) + 2) /\ UNCHANGED <<w, c, r, front, writer, reader, owed, wake>>
    BY DEF Back
<1>4. TypeOK'
    BY <1>1, <1>2, <1>3 DEF TypeOK
<1>5. Ordered'
    BY <1>1, <1>2, <1>3 DEF TypeOK, Ordered, Back
<1>6. FlushPoint'
  <2>1. CASE x.more
    <3>1. f' = f /\ w' = w
        BY <1>3, <2>1
    <3> QED
        BY <1>1, <1>2, <2>1, <3>1 DEF TypeOK, Ordered, FlushPoint, Back
  <2>2. CASE ~x.more
    <3>1. f' = Len(cells) + 2 /\ w' = w
        BY <1>3, <2>2
    <3> QED
        BY <1>1, <1>2, <2>2, <3>1 DEF TypeOK, Ordered, FlushPoint, Back
  <2> QED
      BY <2>1, <2>2
<1>7. AloneWithC' /\ NoLostWakeUp' /\ Sleeping' /\ Flushing'
    BY <1>3 DEF AloneWithC, NoLostWakeUp, Sleeping, Flushing
<1> QED
    BY <1>4, <1>5, <1>6, <1>7

(* The last frame of an unfinished message is taken back. *)
LEMMA RollbackKeeps == ASSUME YInv, Rollback PROVE YInv'
<1> USE DEF YInv, Rollback, Unplace
<1>1. cells \in Seq(Entries) /\ Len(cells) \in Nat /\ f \in 1..Len(cells)
    BY DEF TypeOK, Ordered, Back
<1>2. /\ cells' \in Seq(Entries)
      /\ Len(cells') = Len(cells) - 1
      /\ \A i \in 1..Len(cells) - 1 : cells'[i] = cells[i]
  <2> DEFINE n == Len(cells) - 1
  <2>1. n \in Nat /\ \A i \in 1..n : cells[i] \in Entries
      BY <1>1
  <2>2. cells' = SubSeq(cells, 1, n)
      OBVIOUS
  <2> HIDE DEF n
  <2>3. /\ SubSeq(cells, 1, n) \in Seq(Entries)
        /\ Len(SubSeq(cells, 1, n)) = n
        /\ \A i \in 1..n : SubSeq(cells, 1, n)[i] = cells[i]
      BY <2>1, SubSeqProperties
  <2> QED
      BY <2>2, <2>3 DEF n
<1>3. UNCHANGED <<w, f, c, r, front, writer, reader, owed, wake>>
    OBVIOUS
<1>4. TypeOK'
    BY <1>1, <1>2, <1>3 DEF TypeOK
<1>5. Ordered'
    BY <1>1, <1>2, <1>3 DEF TypeOK, Ordered, Back
<1>6. FlushPoint'
    BY <1>1, <1>2, <1>3 DEF TypeOK, Ordered, FlushPoint, Back
<1>7. AloneWithC' /\ NoLostWakeUp' /\ Sleeping' /\ Flushing'
    BY <1>3 DEF AloneWithC, NoLostWakeUp, Sleeping, Flushing
<1> QED
    BY <1>4, <1>5, <1>6, <1>7

(* The other steps leave the frames alone. *)
LEMMA RestKeeps ==
    ASSUME YInv, Flush \/ FinishFlush \/ Wake \/ CheckRead \/ Read \/ WakeUp
    PROVE  YInv'
<1> USE DEF YInv
<1>1. cells \in Seq(Entries) /\ Len(cells) \in Nat /\ UNCHANGED cells
    BY DEF TypeOK, Flush, FinishFlush, Wake, CheckRead, Read, WakeUp, FlushAwake, FlushAsleep,
           SetC, Prefetch, Pop, pipeVars, writerVars
<1>2. CASE Flush
    BY <1>1, <1>2 DEF Flush, FlushAwake, FlushAsleep, pipeVars, TypeOK, Ordered, FlushPoint,
                      AloneWithC, NoLostWakeUp, Sleeping, Flushing, Back
<1>3. CASE FinishFlush
    BY <1>1, <1>3 DEF FinishFlush, SetC, TypeOK, Ordered, FlushPoint,
                      AloneWithC, NoLostWakeUp, Sleeping, Flushing, Back
<1>4. CASE Wake
    BY <1>1, <1>4 DEF Wake, pipeVars, TypeOK, Ordered, FlushPoint,
                      AloneWithC, NoLostWakeUp, Sleeping, Flushing, Back
<1>5. CASE CheckRead
    BY <1>1, <1>5 DEF CheckRead, Prefetched, Prefetch, writerVars, TypeOK, Ordered, FlushPoint,
                      AloneWithC, NoLostWakeUp, Sleeping, Flushing, Back
<1>6. CASE Read
    BY <1>1, <1>6 DEF Read, Prefetched, Pop, writerVars, TypeOK, Ordered, FlushPoint,
                      AloneWithC, NoLostWakeUp, Sleeping, Flushing, Back
<1>7. CASE WakeUp
    BY <1>1, <1>7 DEF WakeUp, pipeVars, TypeOK, Ordered, FlushPoint,
                      AloneWithC, NoLostWakeUp, Sleeping, Flushing, Back
<1> QED
    BY <1>2, <1>3, <1>4, <1>5, <1>6, <1>7

(* Every step of a ypipe keeps its invariant. *)
LEMMA StepKeeps == YInv /\ [Next]_vars => YInv'
<1> SUFFICES ASSUME YInv, [Next]_vars PROVE YInv'
    OBVIOUS
<1>1. ASSUME NEW x \in Entries, Write(x) PROVE YInv'
    BY <1>1, WriteKeeps
<1>2. CASE Rollback
    BY <1>2, RollbackKeeps
<1>3. CASE Flush \/ FinishFlush \/ Wake \/ CheckRead \/ Read \/ WakeUp
    BY <1>3, RestKeeps
<1>4. CASE UNCHANGED vars
    BY <1>4 DEF vars, pipeVars, YInv, TypeOK, Ordered, FlushPoint, AloneWithC, NoLostWakeUp,
                Sleeping, Flushing, Back
<1> QED
    BY <1>1, <1>2, <1>3, <1>4 DEF Next

(* The invariant holds throughout. *)
THEOREM YpipeCorrect == Spec => []YInv
<1>1. Init => YInv
    BY InitHolds
<1>2. YInv /\ [Next]_vars => YInv'
    BY StepKeeps
<1> QED
    BY <1>1, <1>2, PTL DEF Spec

(* A wake-up is sent exactly when the reader sleeps over flushed frames,   *)
(* for any interleaving of the two threads (ypipe_t::flush, check_read).   *)
THEOREM NoWakeUpIsLost == Spec => []NoLostWakeUp
<1>1. YInv => NoLostWakeUp
    BY DEF YInv
<1> QED
    BY <1>1, YpipeCorrect, PTL

(* While the writer sets c without an atomic operation, the reader sleeps, *)
(* and no frame the reader holds is taken back (ypipe_t::flush, unwrite).  *)
THEOREM NoDataRace == Spec => [](AloneWithC /\ Ordered)
<1>1. YInv => AloneWithC /\ Ordered
    BY DEF YInv
<1> QED
    BY <1>1, YpipeCorrect, PTL

-----------------------------------------------------------------------------
(* A ypipe implements a queue.  First, what a piece of a sequence is.      *)

LEMMA Piece ==
    ASSUME NEW s \in Seq(Entries), NEW a \in 1..Len(s) + 1, NEW b \in a - 1..Len(s)
    PROVE  /\ SubSeq(s, a, b) \in Seq(Entries)
           /\ Len(SubSeq(s, a, b)) = b - a + 1
           /\ \A i \in 1..b - a + 1 : SubSeq(s, a, b)[i] = s[a + i - 1]
<1>1. Len(s) \in Nat /\ a \in Int /\ b \in Int
    OBVIOUS
<1>2. \A i \in a..b : s[i] \in Entries
    BY <1>1
<1> QED
    BY <1>1, <1>2, SubSeqProperties

LEMMA Same ==
    ASSUME NEW s \in Seq(Entries), NEW t \in Seq(Entries), Len(s) = Len(t),
           \A i \in 1..Len(s) : s[i] = t[i]
    PROVE  s = t
BY SeqEqual

(* A frame written lengthens the last piece and leaves the others. *)
LEMMA PieceOfAppend ==
    ASSUME NEW s \in Seq(Entries), NEW x \in Entries,
           NEW a \in 1..Len(s) + 1, NEW b \in a - 1..Len(s)
    PROVE  /\ SubSeq(Append(s, x), a, b) = SubSeq(s, a, b)
           /\ SubSeq(Append(s, x), a, Len(s) + 1) = Append(SubSeq(s, a, Len(s)), x)
<1> DEFINE n == Len(s)
           t == Append(s, x)
           d == SubSeq(s, a, n)
           e == SubSeq(t, a, n + 1)
<1>1. n \in Nat /\ a \in 1..n + 1 /\ b \in a - 1..n
    OBVIOUS
<1>2. /\ t \in Seq(Entries) /\ Len(t) = n + 1 /\ t[n + 1] = x
      /\ \A i \in 1..n : t[i] = s[i]
    BY AppendProperties
<1>3. /\ d \in Seq(Entries) /\ Len(d) = n - a + 1
      /\ \A i \in 1..n - a + 1 : d[i] = s[a + i - 1]
    BY <1>1, Piece
<1> HIDE DEF t
<1>4. /\ e \in Seq(Entries) /\ Len(e) = n - a + 2
      /\ \A i \in 1..n - a + 2 : e[i] = t[a + i - 1]
  <2>1. a \in 1..Len(t) + 1 /\ n + 1 \in a - 1..Len(t) /\ n + 1 - a + 1 = n - a + 2
      BY <1>1, <1>2
  <2> QED
      BY <1>2, <2>1, Piece
<1>5. SubSeq(t, a, b) = SubSeq(s, a, b)
  <2>1. /\ SubSeq(s, a, b) \in Seq(Entries) /\ Len(SubSeq(s, a, b)) = b - a + 1
        /\ \A i \in 1..b - a + 1 : SubSeq(s, a, b)[i] = s[a + i - 1]
      BY <1>1, Piece
  <2>2. a \in 1..Len(t) + 1 /\ b \in a - 1..Len(t)
      BY <1>1, <1>2
  <2>3. /\ SubSeq(t, a, b) \in Seq(Entries) /\ Len(SubSeq(t, a, b)) = b - a + 1
        /\ \A i \in 1..b - a + 1 : SubSeq(t, a, b)[i] = t[a + i - 1]
      BY <1>2, <2>2, Piece
  <2>4. \A i \in 1..b - a + 1 : t[a + i - 1] = s[a + i - 1]
      BY <1>1, <1>2
  <2> QED
      BY <2>1, <2>3, <2>4, Same
<1> HIDE DEF d, e, n
<1>6. /\ Append(d, x) \in Seq(Entries) /\ Len(Append(d, x)) = n - a + 2
      /\ \A i \in 1..n - a + 1 : Append(d, x)[i] = d[i]
      /\ Append(d, x)[n - a + 2] = x
  <2>1. /\ Append(d, x) \in Seq(Entries) /\ Len(Append(d, x)) = Len(d) + 1
        /\ \A i \in 1..Len(d) : Append(d, x)[i] = d[i]
        /\ Append(d, x)[Len(d) + 1] = x
      BY <1>3, AppendProperties
  <2> QED
      BY <1>1, <1>3, <2>1
<1>7. e = Append(d, x)
  <2>1. ASSUME NEW i \in 1..n - a + 2 PROVE e[i] = Append(d, x)[i]
    <3>1. CASE i = n - a + 2
        BY <1>1, <1>2, <1>4, <1>6, <3>1
    <3>2. CASE i \in 1..n - a + 1
        BY <1>1, <1>2, <1>3, <1>4, <1>6, <3>2
    <3>3. i = n - a + 2 \/ i \in 1..n - a + 1
      <4>1. n - a + 1 \in Nat
          BY <1>1
      <4> QED
          BY <4>1, <1>1
    <3> QED
        BY <3>1, <3>2, <3>3
  <2> QED
      BY <1>4, <1>6, <2>1, Same
<1> QED
    BY <1>5, <1>7 DEF t, d, e, n

(* A piece of a piece is a piece. *)
LEMMA PieceOfPiece ==
    ASSUME NEW s \in Seq(Entries), NEW a \in 1..Len(s) + 1, NEW b \in a - 1..Len(s),
           NEW i \in 1..b - a + 2, NEW j \in i - 1..b - a + 1
    PROVE  SubSeq(SubSeq(s, a, b), i, j) = SubSeq(s, a + i - 1, a + j - 1)
<1> DEFINE d == SubSeq(s, a, b)
           u == a + i - 1
           v == a + j - 1
<1>1. /\ d \in Seq(Entries) /\ Len(d) = b - a + 1
      /\ \A k \in 1..b - a + 1 : d[k] = s[a + k - 1]
    BY Piece
<1>2. u \in 1..Len(s) + 1 /\ v \in u - 1..Len(s) /\ v - u = j - i
    OBVIOUS
<1>3. i \in 1..Len(d) + 1 /\ j \in i - 1..Len(d)
    BY <1>1
<1> HIDE DEF d
<1>4. /\ SubSeq(d, i, j) \in Seq(Entries) /\ Len(SubSeq(d, i, j)) = j - i + 1
      /\ \A k \in 1..j - i + 1 : SubSeq(d, i, j)[k] = d[i + k - 1]
    BY <1>1, <1>3, Piece
<1> HIDE DEF u, v
<1>5. /\ SubSeq(s, u, v) \in Seq(Entries) /\ Len(SubSeq(s, u, v)) = j - i + 1
      /\ \A k \in 1..j - i + 1 : SubSeq(s, u, v)[k] = s[u + k - 1]
  <2>1. v - u + 1 = j - i + 1
      BY <1>2
  <2> QED
      BY <1>2, <2>1, Piece
<1>6. ASSUME NEW k \in 1..j - i + 1 PROVE SubSeq(d, i, j)[k] = SubSeq(s, u, v)[k]
  <2>1. i + k - 1 \in 1..b - a + 1 /\ a + (i + k - 1) - 1 = u + k - 1
      BY DEF u
  <2>2. d[i + k - 1] = s[u + k - 1]
      BY <1>1, <2>1
  <2> QED
      BY <1>4, <1>5, <2>2
<1> QED
    BY <1>4, <1>5, <1>6, Same DEF d, u, v

-----------------------------------------------------------------------------
(* The queue of a ypipe: the writer's draft, and what was flushed and not  *)
(* read, as the refinement mapping of Ypipe has them.                      *)

draft == SubSeq(cells, w, Len(cells))

queue == SubSeq(cells, front, w - 1)

LEMMA Positions ==
    ASSUME YInv
    PROVE  /\ cells \in Seq(Entries) /\ Len(cells) \in Nat
           /\ w \in 1..Len(cells) + 1 /\ f \in w..Len(cells) + 1 /\ front \in 1..w
           /\ Len(cells) \in w - 1..Len(cells) /\ w - 1 \in front - 1..Len(cells)
           /\ draft \in Seq(Entries) /\ Len(draft) = Len(cells) - w + 1
           /\ queue \in Seq(Entries) /\ Len(queue) = w - front
           /\ \A i \in 1..Len(cells) - w + 1 : draft[i] = cells[w + i - 1]
<1>1. /\ cells \in Seq(Entries) /\ Len(cells) \in Nat
      /\ w \in 1..Len(cells) + 1 /\ f \in w..Len(cells) + 1 /\ front \in 1..w
      /\ Len(cells) \in w - 1..Len(cells) /\ w - 1 \in front - 1..Len(cells)
    BY DEF YInv, TypeOK, Ordered, Back
<1>2. /\ draft \in Seq(Entries) /\ Len(draft) = Len(cells) - w + 1
      /\ \A i \in 1..Len(cells) - w + 1 : draft[i] = cells[w + i - 1]
    BY <1>1, Piece DEF draft
<1>3. front \in 1..Len(cells) + 1
    BY <1>1
<1>4. queue \in Seq(Entries) /\ Len(queue) = w - 1 - front + 1
    BY <1>1, <1>3, Piece DEF queue
<1> QED
    BY <1>1, <1>2, <1>4

(* write drafts a frame. *)
LEMMA WriteDrafts ==
    ASSUME YInv, NEW x \in Entries, Write(x)
    PROVE  F!Draft
<1>1. cells' = Append(cells, x) /\ w' = w /\ front' = front
    BY DEF Write, Place
<1>2. /\ cells \in Seq(Entries) /\ Len(cells) \in Nat
      /\ w \in 1..Len(cells) + 1 /\ front \in 1..Len(cells) + 1
      /\ Len(cells) \in w - 1..Len(cells) /\ w - 1 \in front - 1..Len(cells)
    BY Positions
<1>3. Len(cells') = Len(cells) + 1
    BY <1>1, <1>2, AppendProperties
<1>4. SubSeq(cells', w', Len(cells')) = Append(SubSeq(cells, w, Len(cells)), x)
    BY <1>1, <1>2, <1>3, PieceOfAppend
<1>5. SubSeq(cells', front', w' - 1) = SubSeq(cells, front, w - 1)
    BY <1>1, <1>2, PieceOfAppend
<1> QED
    BY <1>4, <1>5 DEF F!Draft

(* unwrite takes the last frame of the draft back. *)
LEMMA RollbackTakesBack ==
    ASSUME YInv, Rollback
    PROVE  F!TakeBack
<1> DEFINE n == Len(cells)
<1>1. cells' = SubSeq(cells, 1, n - 1) /\ w' = w /\ front' = front /\ f # n + 1
    BY DEF Rollback, Unplace, Back
<1>2. /\ cells \in Seq(Entries) /\ n \in Nat
      /\ w \in 1..n + 1 /\ f \in w..n + 1 /\ front \in 1..w
      /\ draft \in Seq(Entries) /\ Len(draft) = n - w + 1
      /\ \A i \in 1..n - w + 1 : draft[i] = cells[w + i - 1]
    BY Positions
<1>3. f \in w..n /\ n \in f..n /\ n \in Nat \ {0}
    BY <1>1, <1>2
<1>4. cells[n].more
    BY <1>3 DEF YInv, FlushPoint
<1> HIDE DEF n
<1>5. 1 \in 1..Len(cells) + 1 /\ n - 1 \in 1 - 1..Len(cells) /\ n - 1 - 1 + 1 = n - 1
    BY <1>2, <1>3 DEF n
<1>6. Len(cells') = n - 1
    BY <1>1, <1>2, <1>5, Piece
<1>7. draft # <<>> /\ draft[Len(draft)].more
  <2>1. Len(draft) \in 1..n - w + 1 /\ w + Len(draft) - 1 = n
      BY <1>2, <1>3
  <2>2. draft[Len(draft)] = cells[n]
      BY <1>2, <2>1
  <2>3. draft # <<>>
      BY <2>1
  <2> QED
      BY <1>4, <2>2, <2>3
<1>8. SubSeq(cells', w', Len(cells')) = SubSeq(draft, 1, Len(draft) - 1)
  <2>1. SubSeq(cells', w, n - 1) = SubSeq(cells, w, n - 1)
    <3>1. w \in 1..n - 1 - 1 + 2 /\ n - 1 \in w - 1..n - 1 - 1 + 1
        BY <1>2, <1>3
    <3>2. SubSeq(SubSeq(cells, 1, n - 1), w, n - 1) = SubSeq(cells, 1 + w - 1, 1 + (n - 1) - 1)
        BY <1>2, <1>5, <3>1, PieceOfPiece
    <3>3. 1 + w - 1 = w /\ 1 + (n - 1) - 1 = n - 1
        BY <1>2
    <3> QED
        BY <1>1, <3>2, <3>3
  <2>2. SubSeq(draft, 1, n - w) = SubSeq(cells, w, n - 1)
    <3>1. 1 \in 1..n - w + 2 /\ n - w \in 1 - 1..n - w + 1
        BY <1>2, <1>3
    <3>2. w \in 1..Len(cells) + 1 /\ n \in w - 1..Len(cells)
        BY <1>2, <1>3 DEF n
    <3>3. SubSeq(SubSeq(cells, w, n), 1, n - w) = SubSeq(cells, w + 1 - 1, w + (n - w) - 1)
        BY <1>2, <3>1, <3>2, PieceOfPiece
    <3>4. w + 1 - 1 = w /\ w + (n - w) - 1 = n - 1
        BY <1>2
    <3> QED
        BY <3>3, <3>4 DEF draft, n
  <2>3. Len(draft) - 1 = n - w
      BY <1>2
  <2> QED
      BY <1>1, <1>6, <2>1, <2>2, <2>3
<1>9. SubSeq(cells', front', w' - 1) = SubSeq(cells, front, w - 1)
  <2>1. front \in 1..n - 1 - 1 + 2 /\ w - 1 \in front - 1..n - 1 - 1 + 1
      BY <1>2, <1>3
  <2>2. SubSeq(SubSeq(cells, 1, n - 1), front, w - 1) = SubSeq(cells, 1 + front - 1, 1 + (w - 1) - 1)
      BY <1>2, <1>5, <2>1, PieceOfPiece
  <2>3. 1 + front - 1 = front /\ 1 + (w - 1) - 1 = w - 1
      BY <1>2
  <2> QED
      BY <1>1, <2>2, <2>3
<1> QED
    BY <1>7, <1>8, <1>9 DEF F!TakeBack, draft

(* A flush publishes every finished message. *)
LEMMA FlushPublishes ==
    ASSUME YInv, w # f, w' = f, UNCHANGED <<cells, front>>
    PROVE  F!Publish
<1> DEFINE n == Len(cells)
           m == f - w
<1>1. /\ cells \in Seq(Entries) /\ n \in Nat
      /\ w \in 1..n + 1 /\ f \in w..n + 1 /\ front \in 1..w
      /\ Len(draft) = n - w + 1
      /\ \A i \in 1..n - w + 1 : draft[i] = cells[w + i - 1]
    BY Positions
<1>2. m \in 1..Len(draft) /\ f > 1
    BY <1>1
<1>3. ~draft[m].more
  <2>1. m \in 1..n - w + 1 /\ w + m - 1 = f - 1
      BY <1>1, <1>2
  <2> QED
      BY <1>1, <1>2, <2>1 DEF YInv, FlushPoint
<1>4. \A i \in m + 1..Len(draft) : draft[i].more
  <2> TAKE i \in m + 1..Len(draft)
  <2>1. i \in 1..n - w + 1 /\ w + i - 1 \in f..n
      BY <1>1, <1>2
  <2> QED
      BY <1>1, <2>1 DEF YInv, FlushPoint
<1> HIDE DEF n, m
<1>5. SubSeq(draft, 1, m) = SubSeq(cells, w, f - 1)
  <2>1. w \in 1..Len(cells) + 1 /\ n \in w - 1..Len(cells)
      BY <1>1 DEF n
  <2>2. 1 \in 1..n - w + 2 /\ m \in 1 - 1..n - w + 1
      BY <1>1, <1>2
  <2>3. SubSeq(SubSeq(cells, w, n), 1, m) = SubSeq(cells, w + 1 - 1, w + m - 1)
      BY <1>1, <2>1, <2>2, PieceOfPiece
  <2>4. w + 1 - 1 = w /\ w + m - 1 = f - 1
      BY <1>1 DEF m
  <2> QED
      BY <2>3, <2>4 DEF draft, n
<1>6. SubSeq(draft, m + 1, Len(draft)) = SubSeq(cells, f, n)
  <2>1. w \in 1..Len(cells) + 1 /\ n \in w - 1..Len(cells)
      BY <1>1 DEF n
  <2> DEFINE p == m + 1
             q == n - w + 1
  <2>2. p \in 1..n - w + 2 /\ q \in p - 1..n - w + 1
      BY <1>1, <1>2
  <2> HIDE DEF p, q
  <2>3. SubSeq(SubSeq(cells, w, n), p, q) = SubSeq(cells, w + p - 1, w + q - 1)
      BY <1>1, <2>1, <2>2, PieceOfPiece
  <2>4. w + p - 1 = f /\ w + q - 1 = n
      BY <1>1 DEF m, p, q
  <2> QED
      BY <1>1, <2>3, <2>4 DEF draft, n, p, q
<1>7. SubSeq(cells, front, f - 1) = queue \o SubSeq(cells, w, f - 1)
  <2>1. front \in 1..Len(cells) + 1 /\ w - 1 \in front - 1..Len(cells) /\ f - 1 \in w - 1..Len(cells)
      BY <1>1 DEF n
  <2>2. SubSeq(cells, front, w - 1) \o SubSeq(cells, w - 1 + 1, f - 1) = SubSeq(cells, front, f - 1)
      BY <1>1, <2>1, ConcatAdjacentSubSeq
  <2>3. w - 1 + 1 = w
      BY <1>1
  <2> QED
      BY <2>2, <2>3 DEF queue
<1> QED
    BY <1>2, <1>3, <1>4, <1>5, <1>6, <1>7 DEF F!Publish, draft, queue, n

(* read takes the first frame. *)
LEMMA ReadTakes ==
    ASSUME YInv, Read
    PROVE  F!Take
<1>1. cells' = cells /\ w' = w /\ front' = front + 1 /\ front # r /\ r # Null
    BY DEF Read, Pop, Prefetched, writerVars
<1>2. /\ cells \in Seq(Entries) /\ Len(cells) \in Nat
      /\ w \in 1..Len(cells) + 1 /\ front \in 1..w
      /\ queue \in Seq(Entries) /\ Len(queue) = w - front
    BY Positions
<1>3. front <= r /\ r <= w /\ r \in Nat
    BY <1>1 DEF YInv, Ordered, TypeOK
<1>4. front < w
    BY <1>1, <1>2, <1>3
<1>5. queue # <<>>
    BY <1>2, <1>4
<1>6. Tail(queue) = SubSeq(queue, 2, Len(queue))
    BY <1>2, <1>5, TailIsSubSeq
<1>7. SubSeq(queue, 2, w - front) = SubSeq(cells, front + 1, w - 1)
  <2>1. front \in 1..Len(cells) + 1 /\ w - 1 \in front - 1..Len(cells)
      BY <1>2, <1>4
  <2>2. 2 \in 1..w - 1 - front + 2 /\ w - front \in 2 - 1..w - 1 - front + 1
      BY <1>2, <1>4
  <2>3. SubSeq(SubSeq(cells, front, w - 1), 2, w - front)
            = SubSeq(cells, front + 2 - 1, front + (w - front) - 1)
      BY <1>2, <2>1, <2>2, PieceOfPiece
  <2>4. front + 2 - 1 = front + 1 /\ front + (w - front) - 1 = w - 1
      BY <1>2
  <2> QED
      BY <2>3, <2>4 DEF queue
<1> QED
    BY <1>1, <1>2, <1>5, <1>6, <1>7 DEF F!Take, queue

(* Every step of a ypipe is a step of the queue or changes nothing in it.  *)
LEMMA StepRefines == YInv /\ [Next]_vars => [F!FifoNext]_(F!fifoVars)
<1> SUFFICES ASSUME YInv, [Next]_vars PROVE [F!FifoNext]_(F!fifoVars)
    OBVIOUS
<1>1. ASSUME NEW x \in Entries, Write(x) PROVE F!FifoNext
    BY <1>1, WriteDrafts DEF F!FifoNext
<1>2. CASE Rollback
    BY <1>2, RollbackTakesBack DEF F!FifoNext
<1>3. CASE Flush
  <2>1. CASE FlushAwake
      BY <2>1, FlushPublishes DEF FlushAwake, F!FifoNext
  <2>2. CASE FlushAsleep
      BY <2>2 DEF FlushAsleep, pipeVars, F!fifoVars
  <2> QED
      BY <1>3, <2>1, <2>2 DEF Flush
<1>4. CASE FinishFlush
  <2>1. w # f
      BY <1>4 DEF FinishFlush, YInv, Flushing, TypeOK
  <2> QED
      BY <1>4, <2>1, FlushPublishes DEF FinishFlush, SetC, F!FifoNext
<1>5. CASE Read
    BY <1>5, ReadTakes DEF F!FifoNext
<1>6. CASE CheckRead \/ Wake \/ WakeUp \/ UNCHANGED vars
  <2>1. UNCHANGED <<cells, w, front>>
      BY <1>6 DEF CheckRead, Prefetch, Wake, WakeUp, vars, pipeVars, writerVars
  <2> QED
      BY <2>1 DEF F!fifoVars
<1> QED
    BY <1>1, <1>2, <1>3, <1>4, <1>5, <1>6 DEF Next

LEMMA InitRefines == Init => F!FifoInit
<1> SUFFICES ASSUME Init PROVE F!FifoInit
    OBVIOUS
<1>1. cells = <<>> /\ Len(cells) = 0 /\ w = 1 /\ front = 1
    BY DEF Init
<1>2. SubSeq(cells, 1, 0) = <<>>
    BY SubSeqEmpty
<1> QED
    BY <1>1, <1>2 DEF F!FifoInit

(* Over any interleaving of the two threads the frames arrive once, in     *)
(* order, a message only as a whole (ypipe_t).  That each arrives at last  *)
(* is the rest of ImplementsFifo.                                          *)
THEOREM YpipeIsFifo == Spec => F!FifoInit /\ [][F!FifoNext]_(F!fifoVars)
<1>1. Init => F!FifoInit
    BY InitRefines
<1>2. YInv /\ [Next]_vars => [F!FifoNext]_(F!fifoVars)
    BY StepRefines
<1> QED
    BY <1>1, <1>2, YpipeCorrect, PTL DEF Spec
=============================================================================
