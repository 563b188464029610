-------------------------------- MODULE Fifo --------------------------------
(***************************************************************************)
(* What the pipe between two threads promises: the writer drafts frames    *)
(* and may take back those of a message it has not finished; publishing    *)
(* makes all finished messages visible at once; the reader gets the        *)
(* published frames once, in order, and a frame does not stay for ever.    *)
(***************************************************************************)
EXTENDS Integers, Sequences

CONSTANT Entries     \* frames: records with a field "more"

VARIABLES draft,    \* frames written and not published
          queue     \* frames published and not read

fifoVars == <<draft, queue>>

FifoInit == draft = <<>> /\ queue = <<>>

Draft == /\ \E x \in Entries : draft' = Append(draft, x)
         /\ UNCHANGED queue

TakeBack == /\ draft # <<>>
            /\ draft[Len(draft)].more
            /\ draft' = SubSeq(draft, 1, Len(draft) - 1)
            /\ UNCHANGED queue

(* Everything up to the last frame that ends a message. *)
Publish == \E n \in 1..Len(draft) :
              /\ ~draft[n].more
              /\ \A i \in n + 1..Len(draft) : draft[i].more
              /\ queue' = queue \o SubSeq(draft, 1, n)
              /\ draft' = SubSeq(draft, n + 1, Len(draft))

Take == /\ queue # <<>>
        /\ queue' = Tail(queue)
        /\ UNCHANGED draft

FifoNext == Draft \/ TakeBack \/ Publish \/ Take

FifoSpec == FifoInit /\ [][FifoNext]_fifoVars /\ WF_fifoVars(Take)
=============================================================================
