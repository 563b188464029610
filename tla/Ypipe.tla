-------------------------------- MODULE Ypipe --------------------------------
(***************************************************************************)
(* ypipe_t: the lock-free queue under every pipe and mailbox.  One thread  *)
(* writes, one reads.  They share a single pointer, c, which they touch    *)
(* with compare-and-swap: it points past the last flushed frame, and the   *)
(* reader sets it to NULL when it goes to sleep, which the writer's next   *)
(* flush finds out.                                                        *)
(*                                                                         *)
(* A pointer into the queue is modelled by the position of its frame in    *)
(* the history `cells', counted from 1; back() is the position after it.   *)
(***************************************************************************)
EXTENDS Integers, Sequences

CONSTANTS Entries,  \* frames, records with a field "more"
          MaxItems  \* bound: frames ever written

ASSUME EntriesAssumption == \A x \in Entries : x.more \in BOOLEAN

ASSUME MaxItemsAssumption == MaxItems \in Nat

Null == 0

VARIABLES
    cells,      \* all frames written and not taken back
    w,          \* ypipe_t::_w, the first frame not flushed
    f,          \* ypipe_t::_f, up to where to flush
    c,          \* ypipe_t::_c, shared
    r,          \* ypipe_t::_r, the first frame not prefetched
    front,      \* the reader's position, _queue.front()
    writer,     \* "idle" or "flushing": its compare-and-swap failed
    reader,     \* "awake" or "asleep": check_read said no
    owed,       \* wake-ups the writer has to send, as flush told it
    wake        \* wake-ups sent and not noticed

writerVars == <<cells, w, f>>

pipeVars == <<cells, w, f, c, r, front>>

vars == <<pipeVars, writer, reader, owed, wake>>

Back == Len(cells) + 1

(* A pipe starts awake; a mailbox calls check_read at once and starts      *)
(* asleep.                                                                 *)
Init ==
    /\ cells = <<>>
    /\ w = 1 /\ f = 1 /\ r = 1 /\ front = 1
    /\ \/ reader = "awake" /\ c = 1
       \/ reader = "asleep" /\ c = Null
    /\ writer = "idle"
    /\ owed = 0 /\ wake = 0

-----------------------------------------------------------------------------
(* The writer's thread. *)

(* write: a frame that has successors moves no flush pointer. *)
Place(x) ==
    /\ cells' = Append(cells, x)
    /\ f' = IF x.more THEN f ELSE Back + 1
    /\ UNCHANGED <<w, c, r, front>>

(* unwrite: the last frame, if it belongs to an unfinished message. *)
Unplace ==
    /\ f # Back
    /\ cells' = SubSeq(cells, 1, Len(cells) - 1)
    /\ UNCHANGED <<w, f, c, r, front>>

(* flush, the compare-and-swap that finds the reader awake... *)
FlushAwake ==
    /\ w # f
    /\ c = w
    /\ c' = f /\ w' = f
    /\ UNCHANGED <<cells, f, r, front>>

(* ...or asleep; then c belongs to the writer alone. *)
FlushAsleep ==
    /\ w # f
    /\ c # w
    /\ UNCHANGED pipeVars

SetC ==
    /\ c' = f /\ w' = f
    /\ UNCHANGED <<cells, f, r, front>>

-----------------------------------------------------------------------------
(* The reader's thread. *)

(* check_read says yes without looking at c... *)
Prefetched == front # r /\ r # Null

(* Mutant of Prefetch: goes to sleep without telling the writer. *)
PrefetchSilently ==
    /\ r' = c
    /\ c' = c
    /\ UNCHANGED <<writerVars, front>>

(* ...or fetches c, and leaves NULL there if there is nothing. *)
Prefetch ==
    /\ r' = c
    /\ c' = IF c = front THEN Null ELSE c
    /\ UNCHANGED <<writerVars, front>>

Pop ==
    /\ front' = front + 1
    /\ UNCHANGED <<writerVars, c, r>>

-----------------------------------------------------------------------------
(* The writer writes, rolls back and flushes, and when flush says that the *)
(* reader sleeps it owes it a wake-up: activate_read of a pipe, the signal *)
(* of a mailbox.                                                           *)
Write(x) ==
    /\ writer = "idle"
    /\ Len(cells) < MaxItems
    /\ Place(x)
    /\ UNCHANGED <<writer, reader, owed, wake>>

Rollback ==
    /\ writer = "idle"
    /\ Unplace
    /\ UNCHANGED <<writer, reader, owed, wake>>

Flush ==
    /\ writer = "idle"
    /\ \/ FlushAwake /\ UNCHANGED writer
       \/ FlushAsleep /\ writer' = "flushing"
    /\ UNCHANGED <<reader, owed, wake>>

FinishFlush ==
    /\ writer = "flushing"
    /\ SetC
    /\ writer' = "idle"
    /\ owed' = owed + 1
    /\ UNCHANGED <<reader, wake>>

Wake ==
    /\ owed > 0
    /\ owed' = owed - 1
    /\ wake' = wake + 1
    /\ UNCHANGED <<pipeVars, writer, reader>>

CheckRead ==
    /\ reader = "awake"
    /\ ~Prefetched
    /\ Prefetch
    /\ reader' = IF front = r' \/ r' = Null THEN "asleep" ELSE "awake"
    /\ UNCHANGED <<writer, owed, wake>>

Read ==
    /\ reader = "awake"
    /\ Prefetched
    /\ Pop
    /\ UNCHANGED <<writer, reader, owed, wake>>

WakeUp ==
    /\ wake > 0
    /\ wake' = wake - 1
    /\ reader' = "awake"
    /\ UNCHANGED <<pipeVars, writer, owed>>

Next ==
    \/ \E x \in Entries : Write(x)
    \/ Rollback \/ Flush \/ FinishFlush \/ Wake
    \/ CheckRead \/ Read \/ WakeUp

(* A flush that was begun ends with the wake-up; a reader that is awake    *)
(* reads on until there is nothing.                                        *)
Fairness == /\ WF_vars(FinishFlush) /\ WF_vars(Wake)
            /\ WF_vars(CheckRead \/ Read \/ WakeUp)

Spec == Init /\ [][Next]_vars /\ Fairness

-----------------------------------------------------------------------------
TypeOK ==
    /\ cells \in Seq(Entries)
    /\ w \in Nat \ {0} /\ f \in Nat \ {0} /\ front \in Nat \ {0}
    /\ c \in Nat /\ r \in Nat
    /\ writer \in {"idle", "flushing"}
    /\ reader \in {"awake", "asleep"}
    /\ owed \in Nat /\ wake \in Nat

(* The positions stay in their order, over any interleaving: the reader    *)
(* never holds a frame that the writer may still take back or overwrite.   *)
Ordered ==
    /\ front <= w /\ w <= f /\ f <= Back
    /\ r # Null => front <= r /\ r <= w
    /\ c # Null => c = w

(* "We don't care about thread-safeness and update c in non-atomic         *)
(* manner" (flush): while the writer does, the reader is not near c.       *)
AloneWithC == writer = "flushing" => reader = "asleep" /\ owed + wake = 0 /\ c = Null

(* A wake-up is sent exactly when the reader sleeps over flushed frames:   *)
(* none is lost and none comes twice.                                      *)
NoLostWakeUp == owed + wake = IF reader = "asleep" /\ front < w THEN 1 ELSE 0

(* Up to where messages are finished is what may be flushed. *)
FlushPoint ==
    /\ \A i \in f..Len(cells) : cells[i].more
    /\ f > 1 => ~cells[f - 1].more
    /\ w > 1 => ~cells[w - 1].more

(* The lock-free queue is a queue. *)
F == INSTANCE Fifo WITH draft <- SubSeq(cells, w, Len(cells)),
                        queue <- SubSeq(cells, front, w - 1)

ImplementsFifo == F!FifoSpec
=============================================================================
