---------------------------- MODULE Calls_proofs ----------------------------
(***************************************************************************)
(* That a mailbox, with its mutex and its signaler, uses its ypipe as one  *)
(* writer and one reader do, for any number of senders.  So what is proved *)
(* of a ypipe is true of the commands: none is lost, they are received in  *)
(* their order, and there is a signal exactly if the receiver needs one.   *)
(*                                                                         *)
(* And that a call that looks at those commands and answers "nothing" was  *)
(* right when it began, that the mailbox is left passive for who waits on  *)
(* its descriptor, and that a reader who will not look is told, for any    *)
(* capacity, high water mark and poll rate.                                *)
(***************************************************************************)
EXTENDS Waiting, Mailbox, FiniteSetTheorems, TLAPS

-----------------------------------------------------------------------------
(* The mailbox.                                                            *)

(* The ypipe, as in Mailbox, with what is proved of it. *)
Proved == INSTANCE Ypipe_proofs WITH
             writer <- IF InSend("setting") # {} THEN "flushing" ELSE "idle",
             reader <- IF boxActive THEN "awake" ELSE "asleep",
             owed <- Cardinality(InSend("owing") \cup InSend("signalling")),
             wake <- efd

Population ==
    /\ IsFiniteSet(Senders)
    /\ \A x \in Entries : x.more \in BOOLEAN
    /\ MaxItems \in Nat

Holding == {"placed", "flushed", "setting", "owing"}

(* The mutex is held by the one sender between its lock and its unlock. *)
MutexOK ==
    /\ \A s \in Senders : s \in lock <=> inSend[s] \in Holding
    /\ \A s, t \in lock : s = t

(* What the receiver is doing agrees with _active; one that was woken has  *)
(* a command to read.                                                      *)
ReceiverOK ==
    /\ recv \in {"reading", "woken"} => boxActive
    /\ recv = "waiting" => ~boxActive
    /\ recv = "woken" => front < w
    /\ recv # "aborted"

Types ==
    /\ lock \subseteq Senders
    /\ inSend \in [Senders -> {"idle", "placed", "flushed", "setting", "owing", "signalling"}]
    /\ boxActive \in BOOLEAN
    /\ efd \in Nat
    /\ recv \in {"idle", "reading", "waiting", "woken", "aborted"}

MInv == Types /\ MutexOK /\ ReceiverOK /\ Proved!YInv

-----------------------------------------------------------------------------
(* The two instances of Ypipe are one. *)

LEMMA SameVars == UNCHANGED P!vars <=> UNCHANGED Proved!vars
BY DEF P!vars, P!pipeVars, Proved!vars, Proved!pipeVars

LEMMA SameInit == P!Init <=> Proved!Init
BY DEF P!Init, Proved!Init, P!Null, Proved!Null

LEMMA SameNext == P!Next <=> Proved!Next
<1>1. \A x \in Entries : P!Write(x) <=> Proved!Write(x)
  BY DEF P!Write, P!Place, P!Back, Proved!Write, Proved!Place, Proved!Back
<1>2. P!Rollback <=> Proved!Rollback
  BY DEF P!Rollback, P!Unplace, P!Back, Proved!Rollback, Proved!Unplace, Proved!Back
<1>3. P!Flush <=> Proved!Flush
  BY DEF P!Flush, P!FlushAwake, P!FlushAsleep, P!pipeVars,
         Proved!Flush, Proved!FlushAwake, Proved!FlushAsleep, Proved!pipeVars
<1>4. P!FinishFlush <=> Proved!FinishFlush
  BY DEF P!FinishFlush, P!SetC, Proved!FinishFlush, Proved!SetC
<1>5. (P!Wake <=> Proved!Wake) /\ (P!WakeUp <=> Proved!WakeUp)
  BY DEF P!Wake, P!WakeUp, P!pipeVars, Proved!Wake, Proved!WakeUp, Proved!pipeVars
<1>6. P!CheckRead <=> Proved!CheckRead
  BY DEF P!CheckRead, P!Prefetched, P!Prefetch, P!Null, P!writerVars,
         Proved!CheckRead, Proved!Prefetched, Proved!Prefetch, Proved!Null, Proved!writerVars
<1>7. P!Read <=> Proved!Read
  BY DEF P!Read, P!Prefetched, P!Pop, P!Null, P!writerVars,
         Proved!Read, Proved!Prefetched, Proved!Pop, Proved!Null, Proved!writerVars
<1>8. QED
  BY <1>1, <1>2, <1>3, <1>4, <1>5, <1>6, <1>7 DEF P!Next, Proved!Next

-----------------------------------------------------------------------------
(* Every step of a mailbox is one of its ypipe, or none for it.            *)

LEMMA AtFinite ==
    ASSUME Population, NEW p
    PROVE  IsFiniteSet(InSend(p))
BY FS_Subset DEF Population, InSend

Places == {"idle", "placed", "flushed", "setting", "owing", "signalling"}

LEMMA SendSteps ==
    ASSUME Population, MInv, NEW s \in Senders, NEW x \in Entries, SendCommand(s, x)
    PROVE  P!Write(x) /\ Types' /\ MutexOK' /\ ReceiverOK'
<1>1. /\ inSend[s] = "idle" /\ Len(cells) < MaxItems /\ lock = {} /\ lock' = {s}
      /\ P!Place(x) /\ UNCHANGED <<boxActive, efd, recv>>
      /\ inSend' = [inSend EXCEPT ![s] = "placed"]
  BY DEF SendCommand, Lock, Go
<1>2. inSend \in [Senders -> {"idle", "placed", "flushed", "setting", "owing", "signalling"}]
  BY DEF MInv, Types
<1>3. /\ inSend'[s] = "placed" /\ \A t \in Senders : t # s => inSend'[t] = inSend[t]
      /\ inSend' \in [Senders -> {"idle", "placed", "flushed", "setting", "owing", "signalling"}]
  BY <1>1, <1>2
<1>4. InSend("setting") = {}
  BY <1>1 DEF MInv, MutexOK, Holding, InSend
<1>5. /\ InSend("setting")' = InSend("setting")
      /\ (InSend("owing") \cup InSend("signalling"))' = InSend("owing") \cup InSend("signalling")
  BY <1>1, <1>3 DEF InSend
<1>6. P!Write(x)
  BY <1>1, <1>4, <1>5 DEF P!Write
<1>7. UNCHANGED <<w, front>>
  BY <1>1 DEF P!Place
<1>8. Types'
  BY <1>1, <1>3 DEF MInv, Types
<1>9. MutexOK'
  BY <1>1, <1>3 DEF MInv, MutexOK, Holding
<1>10. ReceiverOK'
  BY <1>1, <1>7 DEF MInv, ReceiverOK
<1>11. QED
  BY <1>6, <1>8, <1>9, <1>10

LEMMA FlushSteps ==
    ASSUME Population, MInv, NEW s \in Senders, Flush(s)
    PROVE  P!Flush /\ Types' /\ MutexOK' /\ ReceiverOK'
<1>1. /\ inSend[s] = "placed" /\ UNCHANGED <<lock, boxActive, efd, recv>>
      /\ \/ P!FlushAwake /\ inSend' = [inSend EXCEPT ![s] = "flushed"]
         \/ P!FlushAsleep /\ inSend' = [inSend EXCEPT ![s] = "setting"]
  BY DEF Flush, Go
<1>2. inSend \in [Senders -> Places]
  BY DEF MInv, Types, Places
<1>3. /\ s \in lock /\ \A t \in Senders : inSend[t] \in Holding => t = s
  BY <1>1 DEF MInv, MutexOK, Holding
<1>4. InSend("setting") = {}
  BY <1>1, <1>3 DEF Holding, InSend
<1>5. /\ inSend' \in [Senders -> Places]
      /\ inSend'[s] \in {"flushed", "setting"} /\ \A t \in Senders : t # s => inSend'[t] = inSend[t]
  BY <1>1, <1>2 DEF Places
<1>6. (InSend("owing") \cup InSend("signalling"))' = InSend("owing") \cup InSend("signalling")
  BY <1>1, <1>5 DEF InSend
<1>7. P!Flush /\ (front < w => front' < w')
  <2>1. CASE P!FlushAwake /\ inSend' = [inSend EXCEPT ![s] = "flushed"]
    <3>1. inSend'[s] = "flushed"
      BY <1>2, <2>1
    <3>2. InSend("setting")' = InSend("setting")
      BY <1>1, <1>5, <3>1 DEF InSend
    <3>3. P!Flush
      BY <1>1, <1>4, <1>6, <2>1, <3>2 DEF P!Flush
    <3>4. front' = front /\ w' = f /\ w <= f /\ front \in Nat /\ w \in Nat /\ f \in Nat
      BY <2>1 DEF P!FlushAwake, MInv, Proved!YInv, Proved!Ordered, Proved!TypeOK
    <3>5. QED
      BY <3>3, <3>4
  <2>2. CASE P!FlushAsleep /\ inSend' = [inSend EXCEPT ![s] = "setting"]
    <3>1. InSend("setting")' # {}
      BY <1>2, <2>2 DEF InSend
    <3>2. P!Flush
      BY <1>1, <1>4, <1>6, <2>2, <3>1 DEF P!Flush
    <3>3. QED
      BY <2>2, <3>2 DEF P!FlushAsleep, P!pipeVars
  <2>3. QED
    BY <1>1, <2>1, <2>2
<1>8. Types'
  BY <1>1, <1>5 DEF MInv, Types, Places
<1>9. MutexOK'
  BY <1>1, <1>3, <1>5 DEF MInv, MutexOK, Holding
<1>10. ReceiverOK'
  BY <1>1, <1>7 DEF MInv, ReceiverOK
<1>11. QED
  BY <1>7, <1>8, <1>9, <1>10

LEMMA FinishFlushSteps ==
    ASSUME Population, MInv, NEW s \in Senders, FinishFlush(s)
    PROVE  P!FinishFlush /\ Types' /\ MutexOK' /\ ReceiverOK'
<1>1. /\ inSend[s] = "setting" /\ P!SetC /\ inSend' = [inSend EXCEPT ![s] = "owing"]
      /\ UNCHANGED <<lock, boxActive, efd, recv>>
  BY DEF FinishFlush, Go
<1>2. inSend \in [Senders -> Places]
  BY DEF MInv, Types, Places
<1>3. /\ s \in lock /\ \A t \in Senders : inSend[t] \in Holding => t = s
  BY <1>1 DEF MInv, MutexOK, Holding
<1>4. /\ inSend' \in [Senders -> Places]
      /\ inSend'[s] = "owing" /\ \A t \in Senders : t # s => inSend'[t] = inSend[t]
  BY <1>1, <1>2 DEF Places
<1>5. InSend("setting") # {} /\ InSend("setting")' = {}
  BY <1>1, <1>3, <1>4 DEF InSend, Holding
<1> DEFINE O == InSend("owing") \cup InSend("signalling")
<1>6. O' = O \cup {s} /\ s \notin O
  BY <1>1, <1>3, <1>4 DEF InSend
<1>7. Cardinality(O)' = Cardinality(O) + 1
  <2>1. IsFiniteSet(O)
    BY AtFinite, FS_Union
  <2>2. Cardinality(O \cup {s}) = Cardinality(O) + 1
    BY <1>6, <2>1, FS_AddElement
  <2>3. QED
    BY <1>6, <2>2
<1>8. P!FinishFlush
  BY <1>1, <1>5, <1>7 DEF P!FinishFlush
<1>9. Types'
  BY <1>1, <1>4 DEF MInv, Types, Places
<1>10. MutexOK'
  BY <1>1, <1>3, <1>4 DEF MInv, MutexOK, Holding
<1>11. front < w => front' < w'
  <2>1. front' = front /\ w' = f /\ w <= f /\ front \in Nat /\ w \in Nat /\ f \in Nat
    BY <1>1 DEF P!SetC, MInv, Proved!YInv, Proved!Ordered, Proved!TypeOK
  <2>2. QED
    BY <2>1
<1>12. ReceiverOK'
  BY <1>1, <1>11 DEF MInv, ReceiverOK
<1>13. QED
  BY <1>8, <1>9, <1>10, <1>12

LEMMA UnlockSteps ==
    ASSUME Population, MInv, NEW s \in Senders, Unlock(s)
    PROVE  UNCHANGED P!vars /\ Types' /\ MutexOK' /\ ReceiverOK'
<1>1. /\ lock = {s} /\ lock' = {} /\ UNCHANGED <<cells, w, f, c, r, front, boxActive, efd, recv>>
      /\ \/ inSend[s] = "flushed" /\ inSend' = [inSend EXCEPT ![s] = "idle"]
         \/ inSend[s] = "owing" /\ inSend' = [inSend EXCEPT ![s] = "signalling"]
  BY DEF Unlock, Go, cpipeVars
<1>2. inSend \in [Senders -> Places]
  BY DEF MInv, Types, Places
<1>3. /\ inSend' \in [Senders -> Places] /\ \A t \in Senders : t # s => inSend'[t] = inSend[t]
      /\ \/ inSend[s] = "flushed" /\ inSend'[s] = "idle"
         \/ inSend[s] = "owing" /\ inSend'[s] = "signalling"
  BY <1>1, <1>2 DEF Places
<1>4. /\ InSend("setting")' = InSend("setting")
      /\ (InSend("owing") \cup InSend("signalling"))' = InSend("owing") \cup InSend("signalling")
  BY <1>3 DEF InSend
<1>5. UNCHANGED P!vars
  BY <1>1, <1>4 DEF P!vars, P!pipeVars
<1>6. Types'
  BY <1>1, <1>3 DEF MInv, Types, Places
<1>7. MutexOK'
  BY <1>1, <1>3 DEF MInv, MutexOK, Holding
<1>8. ReceiverOK'
  BY <1>1 DEF MInv, ReceiverOK
<1>9. QED
  BY <1>5, <1>6, <1>7, <1>8

LEMMA SignalSteps ==
    ASSUME Population, MInv, NEW s \in Senders, Signal(s)
    PROVE  P!Wake /\ Types' /\ MutexOK' /\ ReceiverOK'
<1>1. /\ inSend[s] = "signalling" /\ efd' = efd + 1 /\ inSend' = [inSend EXCEPT ![s] = "idle"]
      /\ UNCHANGED <<cells, w, f, c, r, front, lock, boxActive, recv>>
  BY DEF Signal, Go, cpipeVars
<1>2. inSend \in [Senders -> Places] /\ efd \in Nat
  BY DEF MInv, Types, Places
<1>3. /\ inSend' \in [Senders -> Places]
      /\ inSend'[s] = "idle" /\ \A t \in Senders : t # s => inSend'[t] = inSend[t]
  BY <1>1, <1>2 DEF Places
<1> DEFINE O == InSend("owing") \cup InSend("signalling")
<1>4. InSend("setting")' = InSend("setting") /\ O' = O \ {s} /\ s \in O
  BY <1>1, <1>3 DEF InSend
<1>5. Cardinality(O)' = Cardinality(O) - 1 /\ Cardinality(O) > 0
  <2>1. IsFiniteSet(O)
    BY AtFinite, FS_Union
  <2>2. Cardinality(O \ {s}) = Cardinality(O) - 1 /\ Cardinality(O) \in Nat
    BY <1>4, <2>1, FS_RemoveElement, FS_CardinalityType
  <2>3. Cardinality(O) # 0
    BY <1>4, <2>1, FS_EmptySet
  <2>4. Cardinality(O)' = Cardinality(O \ {s})
    BY <1>4
  <2> HIDE DEF O
  <2>5. QED
    BY <2>2, <2>3, <2>4
<1>6. P!Wake
  BY <1>1, <1>4, <1>5 DEF P!Wake, P!pipeVars
<1>7. Types'
  BY <1>1, <1>2, <1>3 DEF MInv, Types, Places
<1>8. MutexOK'
  BY <1>1, <1>3 DEF MInv, MutexOK, Holding
<1>9. ReceiverOK'
  BY <1>1 DEF MInv, ReceiverOK
<1>10. QED
  BY <1>6, <1>7, <1>8, <1>9

LEMMA ReceiveSteps ==
    ASSUME Population, MInv, Receive
    PROVE  UNCHANGED P!vars /\ Types' /\ MutexOK' /\ ReceiverOK'
<1>1. /\ recv' = IF boxActive THEN "reading" ELSE "waiting"
      /\ UNCHANGED <<cells, w, f, c, r, front, lock, inSend, boxActive, efd>>
  BY DEF Receive, cpipeVars
<1>2. UNCHANGED P!vars
  BY <1>1 DEF P!vars, P!pipeVars, InSend
<1>3. Types' /\ MutexOK' /\ ReceiverOK'
  BY <1>1 DEF MInv, Types, MutexOK, ReceiverOK
<1>4. QED
  BY <1>2, <1>3

LEMMA ReadSteps ==
    ASSUME Population, MInv, Read
    PROVE  P!Read /\ Types' /\ MutexOK' /\ ReceiverOK'
<1>1. /\ recv \in {"reading", "woken"} /\ recv' = "idle" /\ P!Prefetched /\ P!Pop
      /\ UNCHANGED <<lock, inSend, boxActive, efd>>
  BY DEF Read
<1>2. boxActive
  BY <1>1 DEF MInv, ReceiverOK
<1>3. P!Read
  BY <1>1, <1>2 DEF P!Read, InSend
<1>4. Types' /\ MutexOK' /\ ReceiverOK'
  BY <1>1 DEF MInv, Types, MutexOK, ReceiverOK
<1>5. QED
  BY <1>3, <1>4

(* After a signal there is a command. *)
LEMMA PrefetchSteps ==
    ASSUME Population, MInv, Prefetch
    PROVE  P!CheckRead /\ Types' /\ MutexOK' /\ ReceiverOK'
<1> DEFINE found == front # r' /\ r' # P!Null
<1>1. /\ recv \in {"reading", "woken"} /\ ~P!Prefetched /\ P!Prefetch
      /\ UNCHANGED <<lock, inSend, efd>>
      /\ found => UNCHANGED <<recv, boxActive>>
      /\ ~found /\ recv = "reading" => recv' = "waiting" /\ boxActive' = FALSE
  BY DEF Prefetch, Deactivate
<1>2. boxActive
  BY <1>1 DEF MInv, ReceiverOK
<1>3. ~found => recv = "reading"
  <2> SUFFICES ASSUME recv = "woken" PROVE found
    BY <1>1
  <2>1. front < w /\ front \in Nat /\ w \in Nat \ {0}
    BY DEF MInv, ReceiverOK, Proved!YInv, Proved!TypeOK
  <2>2. r' = c /\ c = w
    BY <1>1, <1>2 DEF P!Prefetch, MInv, Proved!YInv, Proved!Ordered, Proved!Sleeping, Proved!Null
  <2>3. QED
    BY <2>1, <2>2 DEF P!Null
<1>4. UNCHANGED <<cells, w, f, front>>
  BY <1>1 DEF P!Prefetch, P!writerVars
<1>5. P!CheckRead
  <2>1. UNCHANGED <<IF InSend("setting") # {} THEN "flushing" ELSE "idle",
                    Cardinality(InSend("owing") \cup InSend("signalling"))>>
    BY <1>1 DEF InSend
  <2>2. boxActive' <=> found
    BY <1>1, <1>2, <1>3
  <2>3. QED
    BY <1>1, <1>2, <2>1, <2>2 DEF P!CheckRead
<1>6. Types'
  BY <1>1, <1>3 DEF MInv, Types
<1>7. MutexOK'
  BY <1>1 DEF MInv, MutexOK
<1>8. ReceiverOK'
  BY <1>1, <1>3, <1>4 DEF MInv, ReceiverOK
<1>9. QED
  BY <1>5, <1>6, <1>7, <1>8

LEMMA WaitSteps ==
    ASSUME Population, MInv, Wait
    PROVE  (P!WakeUp \/ UNCHANGED P!vars) /\ Types' /\ MutexOK' /\ ReceiverOK'
<1>1. /\ recv = "waiting" /\ UNCHANGED <<cells, w, f, c, r, front, lock, inSend>>
      /\ \/ Woken
         \/ efd = 0 /\ recv' = "idle" /\ boxActive' = boxActive /\ efd' = efd
  BY DEF Wait, cpipeVars
<1>2. UNCHANGED <<IF InSend("setting") # {} THEN "flushing" ELSE "idle",
                  Cardinality(InSend("owing") \cup InSend("signalling"))>>
  BY <1>1 DEF InSend
<1>3. MutexOK'
  BY <1>1 DEF MInv, MutexOK
<1>4. CASE Woken
  <2>1. efd > 0 /\ efd' = efd - 1 /\ recv' = "woken" /\ boxActive' = TRUE /\ efd \in Nat
    BY <1>4 DEF Woken, MInv, Types
  <2>2. P!WakeUp
    BY <1>1, <1>2, <2>1 DEF P!WakeUp, P!pipeVars
  <2>3. front < w
    <3>1. Cardinality(InSend("owing") \cup InSend("signalling")) \in Nat
      BY AtFinite, FS_Union, FS_CardinalityType
    <3>2. QED
      BY <2>1, <3>1 DEF MInv, Proved!YInv, Proved!NoLostWakeUp
  <2>4. Types' /\ ReceiverOK'
    BY <1>1, <2>1, <2>3 DEF MInv, Types, ReceiverOK
  <2>5. QED
    BY <1>3, <2>2, <2>4
<1>5. CASE efd = 0 /\ recv' = "idle" /\ boxActive' = boxActive /\ efd' = efd
  <2>1. UNCHANGED P!vars
    BY <1>1, <1>2, <1>5 DEF P!vars, P!pipeVars
  <2>2. Types' /\ ReceiverOK'
    BY <1>1, <1>5 DEF MInv, Types, ReceiverOK
  <2>3. QED
    BY <1>3, <2>1, <2>2
<1>6. QED
  BY <1>1, <1>4, <1>5

LEMMA StepSteps ==
    ASSUME Population, MInv, [MailNext]_mailVars
    PROVE  [P!Next]_(P!vars) /\ Types' /\ MutexOK' /\ ReceiverOK'
<1>1. ASSUME NEW s \in Senders, NEW x \in Entries, SendCommand(s, x)
      PROVE  [P!Next]_(P!vars) /\ Types' /\ MutexOK' /\ ReceiverOK'
  BY <1>1, SendSteps DEF P!Next
<1>2. ASSUME NEW s \in Senders, Flush(s) \/ FinishFlush(s) \/ Unlock(s) \/ Signal(s)
      PROVE  [P!Next]_(P!vars) /\ Types' /\ MutexOK' /\ ReceiverOK'
  BY <1>2, FlushSteps, FinishFlushSteps, UnlockSteps, SignalSteps DEF P!Next
<1>3. CASE Receive \/ Read \/ Prefetch \/ Wait
  BY <1>3, ReceiveSteps, ReadSteps, PrefetchSteps, WaitSteps DEF P!Next
<1>4. CASE UNCHANGED mailVars
  <2>1. UNCHANGED <<cells, w, f, c, r, front, lock, inSend, boxActive, efd, recv>>
    BY <1>4 DEF mailVars, cpipeVars
  <2>2. UNCHANGED P!vars
    BY <2>1 DEF P!vars, P!pipeVars, InSend
  <2>3. Types' /\ MutexOK' /\ ReceiverOK'
    BY <2>1 DEF MInv, Types, MutexOK, ReceiverOK
  <2>4. QED
    BY <2>2, <2>3
<1>5. QED
  BY <1>1, <1>2, <1>3, <1>4 DEF MailNext

LEMMA InitInit ==
    ASSUME Population, MailInit
    PROVE  P!Init /\ MInv
<1>1. /\ cells = <<>> /\ w = 1 /\ f = 1 /\ r = 1 /\ front = 1 /\ c = P!Null
      /\ lock = {} /\ inSend = [s \in Senders |-> "idle"] /\ boxActive = FALSE /\ efd = 0
      /\ recv = "idle"
  BY DEF MailInit
<1>2. InSend("setting") = {} /\ InSend("owing") \cup InSend("signalling") = {}
  BY <1>1 DEF InSend
<1>3. Cardinality(InSend("owing") \cup InSend("signalling")) = 0
  BY <1>2, FS_EmptySet
<1>4. P!Init
  BY <1>1, <1>2, <1>3 DEF P!Init
<1>5. Proved!YInv
  BY <1>4, SameInit, Proved!InitHolds DEF Population, Proved!EntriesAssumption, Proved!MaxItemsAssumption
<1>6. Types /\ MutexOK /\ ReceiverOK
  BY <1>1 DEF Types, MutexOK, ReceiverOK, Holding
<1>7. QED
  BY <1>4, <1>5, <1>6 DEF MInv

LEMMA StepKeeps == Population /\ MInv /\ [MailNext]_mailVars => MInv'
<1> SUFFICES ASSUME Population, MInv, [MailNext]_mailVars PROVE MInv'
  OBVIOUS
<1>1. [P!Next]_(P!vars) /\ Types' /\ MutexOK' /\ ReceiverOK'
  BY StepSteps
<1>2. [Proved!Next]_(Proved!vars)
  BY <1>1, SameNext, SameVars
<1>3. Proved!YInv'
  BY <1>2, Proved!StepKeeps
     DEF Population, Proved!EntriesAssumption, Proved!MaxItemsAssumption, MInv
<1>4. QED
  BY <1>1, <1>3 DEF MInv

-----------------------------------------------------------------------------
(* Mutex, _active and signaler agree with the ypipe throughout. *)
THEOREM MailboxInvariant == Population => (MailSpec => []MInv)
<1> SUFFICES ASSUME Population PROVE MailSpec => []MInv
  OBVIOUS
<1>1. MailInit => MInv
  BY InitInit
<1>2. MInv /\ [MailNext]_mailVars => MInv'
  BY StepKeeps
<1>3. QED
  BY <1>1, <1>2, PTL DEF MailSpec

(* Any number of senders and a receiver use the ypipe of commands as one   *)
(* writer and one reader, who sleeps until it is woken (mailbox_t::send,   *)
(* recv).                                                                  *)
THEOREM MailboxIsYpipe == Population => (MailSpec => ImplementsYpipe)
<1> SUFFICES ASSUME Population PROVE MailSpec => ImplementsYpipe
  OBVIOUS
<1>1. MailInit => P!Init
  BY InitInit
<1>2. MInv /\ [MailNext]_mailVars => [P!Next]_(P!vars)
  BY StepSteps
<1>3. MailSpec => []MInv
  BY MailboxInvariant
<1>4. QED
  BY <1>1, <1>2, <1>3, PTL DEF MailSpec, ImplementsYpipe

(* There is one signal at most, and one exactly if the passive receiver    *)
(* has a command and no sender owes it the signal; and after a signal      *)
(* there is a command (mailbox_t::recv, signaler_t::recv_failable).        *)
THEOREM SignalsAreRight == Population => (MailSpec => []OneSignal)
<1> SUFFICES ASSUME Population PROVE MailSpec => []OneSignal
  OBVIOUS
<1>1. MInv => OneSignal
  <2> SUFFICES ASSUME MInv PROVE OneSignal
    OBVIOUS
  <2>1. Cardinality(InSend("owing") \cup InSend("signalling")) \in Nat /\ efd \in Nat
    BY AtFinite, FS_Union, FS_CardinalityType DEF MInv, Types
  <2>2. Cardinality(InSend("owing") \cup InSend("signalling")) + efd
           = IF ~boxActive /\ front < w THEN 1 ELSE 0
    BY DEF MInv, Proved!YInv, Proved!NoLostWakeUp
  <2>3. efd <= 1
    BY <2>1, <2>2
  <2>4. SignalMeansCommand
    BY DEF MInv, ReceiverOK, SignalMeansCommand
  <2>5. MailTypeOK
    <3>1. P!TypeOK
      BY DEF MInv, Proved!YInv, Proved!TypeOK, P!TypeOK
    <3>2. QED
      BY <3>1 DEF MInv, Types, MailTypeOK
  <2>6. QED
    BY <2>1, <2>2, <2>3, <2>4, <2>5 DEF OneSignal
<1>2. MailSpec => []MInv
  BY MailboxInvariant
<1>3. QED
  BY <1>1, <1>2, PTL

(* Commands are received once and in the order in which their senders held *)
(* the mutex (mailbox_t).                                                  *)
THEOREM MailboxIsFifo ==
    Population => (MailSpec => Proved!F!FifoInit /\ [][Proved!F!FifoNext]_(Proved!F!fifoVars))
<1> SUFFICES ASSUME Population
             PROVE  MailSpec => Proved!F!FifoInit /\ [][Proved!F!FifoNext]_(Proved!F!fifoVars)
  OBVIOUS
<1>1. MailInit => Proved!F!FifoInit
  BY InitInit, SameInit, Proved!InitRefines
     DEF Population, Proved!EntriesAssumption, Proved!MaxItemsAssumption
<1>2. MInv /\ [MailNext]_mailVars => [Proved!F!FifoNext]_(Proved!F!fifoVars)
  <2> SUFFICES ASSUME MInv, [MailNext]_mailVars PROVE [Proved!F!FifoNext]_(Proved!F!fifoVars)
    OBVIOUS
  <2>1. [Proved!Next]_(Proved!vars)
    BY StepSteps, SameNext, SameVars
  <2>2. QED
    BY <2>1, Proved!StepRefines
       DEF Population, Proved!EntriesAssumption, Proved!MaxItemsAssumption, MInv
<1>3. MailSpec => []MInv
  BY MailboxInvariant
<1>4. QED
  BY <1>1, <1>2, <1>3, PTL DEF MailSpec

-----------------------------------------------------------------------------
(* Calls.                                                                  *)

Sizes == Cap \in Nat /\ Hwm \in Nat \ {0} /\ PollRate \in Nat \ {0}

Commands == {"activate_read", "activate_write", "stop"}

Count(q, k) == Cardinality({i \in DOMAIN q : q[i] = k})

(* The types, in parts. *)
Numbers ==
    /\ inbound \in 0..Cap /\ outbound \in 0..unread /\ unread \in 0..Hwm
    /\ owed \in 0..Lwm - 1 /\ ticks \in 0..PollRate

Flags ==
    /\ asleep \in BOOLEAN /\ inActive \in BOOLEAN /\ outActive \in BOOLEAN
    /\ active \in BOOLEAN /\ stopping \in BOOLEAN /\ terminated \in BOOLEAN
    /\ recent \in BOOLEAN /\ block \in BOOLEAN /\ expired \in BOOLEAN /\ there \in BOOLEAN

Names ==
    /\ telling \in {"none", "activate_read", "activate_write"}
    /\ op \in {"send", "recv", "poll", "none"} /\ wait \in {"dont", "until", "ever"}
    /\ at \in {"idle", "first", "last", "again", "events", "fd", "lookFirst", "lookLast",
               "lookAgain", "lookEvents"}
    /\ answer \in {"none", "done", "nothing", "terminated", "interrupted"}

MailboxOK == mailbox \in Seq(Commands)

(* Where each call can be; only in a look at the commands is the mailbox   *)
(* active; the ticks of recv are over only until that look is.             *)
PlaceOK ==
    /\ at = "idle" <=> op = "none"
    /\ op = "send" => at \in {"lookFirst", "first", "lookAgain", "again"}
    /\ op = "recv" => at \in {"lookFirst", "first", "lookLast", "last", "lookAgain", "again"}
    /\ op = "poll" => at \in {"lookEvents", "events", "fd"}
    /\ active => Looking
    /\ ticks = PollRate => terminated \/ (op = "recv" /\ at = "lookFirst" /\ ~block)

(* One activate_read is under way exactly if the reader neither sleeps nor *)
(* looks.                                                                  *)
ReaderOK ==
    /\ asleep => ~inActive /\ inbound = 0
    /\ Count(mailbox, "activate_read") + (IF telling = "activate_read" THEN 1 ELSE 0)
           = IF asleep \/ inActive THEN 0 ELSE 1

(* One activate_write is under way for each Lwm messages read of which the *)
(* writer does not know, but for those owed; a writer that is refused had  *)
(* no room.                                                                *)
WriterOK ==
    /\ unread = outbound + owed + Lwm * Count(mailbox, "activate_write")
                  + (IF telling = "activate_write" THEN Lwm ELSE 0)
    /\ ~outActive => unread = Hwm

(* What was there when the call began stays in its reach: room is made by  *)
(* the commands it looks at before it tries; a message is behind a reader  *)
(* that looks, or the command that makes it look has yet to be taken.      *)
ThereOK ==
    there =>
        /\ answer # "nothing"
        /\ op = "send" => /\ at \in {"lookFirst", "first"}
                          /\ unread < Hwm + Lwm * Count(mailbox, "activate_write")
                          /\ at = "first" => unread < Hwm
        /\ op \in {"recv", "poll"} =>
              /\ inbound > 0 /\ at # "fd"
              /\ \/ inActive
                 \/ /\ Count(mailbox, "activate_read") > 0
                    /\ at \in {"first", "lookFirst", "lookLast", "lookAgain", "lookEvents"}

WInv == Numbers /\ Flags /\ Names /\ MailboxOK /\ PlaceOK /\ ReaderOK /\ WriterOK /\ ThereOK

-----------------------------------------------------------------------------
(* Commands in the mailbox, counted. *)

LEMMA CountFacts ==
    ASSUME NEW q \in Seq(Commands), NEW k
    PROVE  /\ Count(q, k) \in Nat
           /\ q = <<>> => Count(q, k) = 0
           /\ Count(q, k) > 0 => \E i \in DOMAIN q : q[i] = k
<1> DEFINE S == {i \in DOMAIN q : q[i] = k}
<1>1. IsFiniteSet(S)
  <2>1. DOMAIN q = 1..Len(q) /\ Len(q) \in Nat
    OBVIOUS
  <2>2. IsFiniteSet(1..Len(q))
    BY <2>1, FS_Interval
  <2>3. QED
    BY <2>1, <2>2, FS_Subset
<1>2. Cardinality(S) \in Nat
  BY <1>1, FS_CardinalityType
<1>3. S = {} => Cardinality(S) = 0
  BY FS_EmptySet
<1>4. QED
  BY <1>2, <1>3 DEF Count

LEMMA CountAppend ==
    ASSUME NEW q \in Seq(Commands), NEW x \in Commands, NEW k
    PROVE  Count(Append(q, x), k) = IF x = k THEN Count(q, k) + 1 ELSE Count(q, k)
<1> DEFINE n == Len(q)
           a == Append(q, x)
           S == {i \in DOMAIN q : q[i] = k}
           T == {i \in DOMAIN a : a[i] = k}
<1>1. n \in Nat /\ DOMAIN q = 1..n /\ DOMAIN a = 1..n + 1 /\ a[n + 1] = x
      /\ \A i \in 1..n : a[i] = q[i]
  OBVIOUS
<1>2. IsFiniteSet(S)
  <2>1. IsFiniteSet(1..n)
    BY <1>1, FS_Interval
  <2>2. QED
    BY <1>1, <2>1, FS_Subset
<1> HIDE DEF a, n
<1>3. CASE x = k
  <2>1. T = S \cup {n + 1} /\ n + 1 \notin S
    BY <1>1, <1>3
  <2>2. Cardinality(T) = Cardinality(S) + 1
    BY <1>2, <2>1, FS_AddElement
  <2>3. QED
    BY <1>3, <2>2 DEF Count, a
<1>4. CASE x # k
  <2>1. T = S
    BY <1>1, <1>4
  <2>2. Cardinality(S) \in Nat
    BY <1>2, FS_CardinalityType
  <2>3. Count(Append(q, x), k) = Cardinality(S) /\ Count(q, k) = Cardinality(S)
    BY <2>1 DEF Count, a
  <2> HIDE DEF S
  <2>4. QED
    BY <1>4, <2>3
<1>5. QED
  BY <1>3, <1>4

LEMMA CountTail ==
    ASSUME NEW q \in Seq(Commands), q # <<>>, NEW k
    PROVE  Count(q, k) = IF Head(q) = k THEN Count(Tail(q), k) + 1 ELSE Count(Tail(q), k)
<1> DEFINE n == Len(q)
           t == Tail(q)
           S == {i \in DOMAIN t : t[i] = k}
           T == {i \in DOMAIN q : q[i] = k}
           U == T \ {1}
           shift == [i \in S |-> i + 1]
<1>1. n \in Nat \ {0} /\ DOMAIN q = 1..n /\ DOMAIN t = 1..n - 1 /\ Head(q) = q[1]
      /\ \A i \in 1..n - 1 : t[i] = q[i + 1]
  OBVIOUS
<1> HIDE DEF t, n
<1>2. IsFiniteSet(S) /\ IsFiniteSet(T)
  <2>1. IsFiniteSet(1..n - 1) /\ IsFiniteSet(1..n)
    BY <1>1, FS_Interval
  <2>2. QED
    BY <1>1, <2>1, FS_Subset
<1>3. shift \in Bijection(S, U)
  <2>1. shift \in [S -> U]
    BY <1>1
  <2>2. \A i, j \in S : shift[i] = shift[j] => i = j
    BY <1>1
  <2>3. ASSUME NEW j \in U PROVE \E i \in S : shift[i] = j
    <3>1. j \in 2..n /\ j - 1 \in 1..n - 1 /\ (j - 1) + 1 = j /\ q[j] = k
      BY <1>1
    <3>2. j - 1 \in S
      BY <1>1, <3>1
    <3>3. QED
      BY <3>1, <3>2
  <2>4. QED
    BY <2>1, <2>2, <2>3 DEF Bijection, Injection, Surjection, IsInjective
<1>4. Cardinality(U) = Cardinality(S)
  <2>1. ExistsBijection(S, U)
    BY <1>3 DEF ExistsBijection
  <2>2. QED
    BY <1>2, <2>1, FS_Bijection
<1>5. Cardinality(U) = (IF q[1] = k THEN Cardinality(T) - 1 ELSE Cardinality(T))
  <2>1. 1 \in T <=> q[1] = k
    BY <1>1
  <2>2. QED
    BY <1>2, <2>1, FS_RemoveElement
<1>6. Cardinality(T) \in Nat
  BY <1>2, FS_CardinalityType
<1>7. Count(q, k) = Cardinality(T) /\ Count(Tail(q), k) = Cardinality(S)
  BY DEF Count, t
<1> HIDE DEF S, T, U
<1>8. QED
  BY <1>1, <1>4, <1>5, <1>6, <1>7

-----------------------------------------------------------------------------
(* The invariant. *)

USE DEF Commands

Reads == Count(mailbox, "activate_read")

Writes == Lwm * Count(mailbox, "activate_write")

LEMMA LwmFacts == Sizes => Lwm \in Nat \ {0} /\ Lwm <= Hwm
BY DEF Sizes, Lwm

(* One command more acknowledges Lwm messages more. *)
LEMMA Acknowledges ==
    ASSUME Sizes, NEW n \in Nat
    PROVE  Lwm * n \in Nat /\ Lwm * (n + 1) = Lwm * n + Lwm /\ Lwm * 0 = 0
<1>1. Lwm \in Nat
  BY LwmFacts
<1> HIDE DEF Lwm
<1>2. QED
  BY <1>1

LEMMA Counts ==
    ASSUME Sizes, MailboxOK
    PROVE  /\ Reads \in Nat /\ Writes \in Nat
           /\ mailbox = <<>> => Reads = 0 /\ Writes = 0
<1>1. Count(mailbox, "activate_write") \in Nat /\ Reads \in Nat
  BY CountFacts DEF MailboxOK, Reads
<1>2. Writes \in Nat
  BY <1>1, Acknowledges DEF Writes
<1>3. mailbox = <<>> => Reads = 0 /\ Writes = 0
  BY Acknowledges, CountFacts DEF MailboxOK, Reads, Writes
<1>4. QED
  BY <1>1, <1>2, <1>3

LEMMA InitInvariant == Sizes /\ Init => WInv
<1> SUFFICES ASSUME Sizes, Init PROVE WInv
  OBVIOUS
<1>1. Numbers /\ Names
  BY LwmFacts DEF Init, Sizes, Numbers, Names
<1>2. Flags
  BY DEF Init, Flags
<1>3. MailboxOK
  BY DEF Init, MailboxOK
<1>4. Reads = 0 /\ Writes = 0
  BY <1>3, Counts DEF Init
<1>5. PlaceOK /\ ReaderOK /\ WriterOK /\ ThereOK
  BY <1>4 DEF Init, Sizes, PlaceOK, ReaderOK, WriterOK, ThereOK, Looking, Reads, Writes
<1>6. QED
  BY <1>1, <1>2, <1>3, <1>5 DEF WInv

LEMMA TakeCommandKeeps == ASSUME Sizes, WInv, TakeCommand PROVE WInv'
<1> DEFINE k == Head(mailbox)
<1>1. /\ Looking /\ mailbox # <<>> /\ active' = TRUE /\ mailbox' = Tail(mailbox)
      /\ unread' = IF k = "activate_write" THEN unread - Lwm ELSE unread
      /\ block' = FALSE
      /\ UNCHANGED <<inbound, asleep, outbound, owed, telling, stopping, op, wait, there, ticks,
                     recent, at, expired, answer>>
  BY DEF TakeCommand, peerVars, callVars
<1>2. /\ inActive' <=> inActive \/ k = "activate_read"
      /\ outActive' <=> outActive \/ k = "activate_write"
      /\ terminated' <=> terminated \/ k = "stop"
      /\ inActive' \in BOOLEAN /\ outActive' \in BOOLEAN /\ terminated' \in BOOLEAN
  BY DEF TakeCommand
<1>3. mailbox \in Seq(Commands) /\ k \in Commands /\ mailbox' \in Seq(Commands)
  BY <1>1 DEF WInv, MailboxOK
<1>4. /\ Reads = IF k = "activate_read" THEN Reads' + 1 ELSE Reads'
      /\ Writes = IF k = "activate_write" THEN Writes' + Lwm ELSE Writes'
      /\ Reads' \in Nat /\ Writes' \in Nat
  <2> DEFINE m == Count(Tail(mailbox), "activate_write")
  <2>1. /\ Reads = IF k = "activate_read" THEN Reads' + 1 ELSE Reads'
        /\ Count(mailbox, "activate_write") = IF k = "activate_write" THEN m + 1 ELSE m
        /\ m \in Nat /\ Reads' \in Nat
    BY <1>1, <1>3, CountTail, CountFacts DEF Reads
  <2>2. Writes' = Lwm * m
    BY <1>1 DEF Writes
  <2> HIDE DEF m
  <2>3. Lwm * m \in Nat /\ Lwm * (m + 1) = Lwm * m + Lwm
    BY <2>1, Acknowledges
  <2>4. QED
    BY <2>1, <2>2, <2>3 DEF Writes
<1> HIDE DEF k
<1>5. Numbers' /\ Names'
  <2>1. Names'
    BY <1>1 DEF WInv, Names
  <2>2. /\ inbound \in 0..Cap /\ ticks \in 0..PollRate /\ outbound \in Nat /\ unread \in 0..Hwm
        /\ owed \in Nat /\ owed \in 0..Lwm - 1 /\ Lwm \in Nat
        /\ unread = outbound + owed + Writes + (IF telling = "activate_write" THEN Lwm ELSE 0)
    BY LwmFacts DEF WInv, Numbers, WriterOK, Sizes, Writes
  <2>3. outbound \in 0..unread' /\ unread' \in 0..Hwm
    <3>1. CASE k = "activate_write"
      <4>1. unread' = unread - Lwm /\ Writes >= Lwm /\ Writes \in Nat
        <5>1. PICK n \in Nat : n = Writes'
          BY <1>4
        <5>2. Writes = n + Lwm
          BY <1>4, <3>1, <5>1
        <5>3. QED
          BY <1>1, <2>2, <3>1, <5>2
      <4>2. unread >= outbound + Lwm
        BY <2>2, <4>1
      <4>3. Hwm \in Nat
        BY DEF Sizes
      <4>4. QED
        BY <2>2, <4>1, <4>2, <4>3
    <3>2. CASE k # "activate_write"
      BY <1>1, <2>2, <3>2 DEF WInv, Numbers
    <3>3. QED
      BY <3>1, <3>2
  <2>4. QED
    BY <1>1, <2>1, <2>2, <2>3 DEF Numbers, Lwm
<1>6. Flags'
  BY <1>1, <1>2 DEF WInv, Flags
<1>7. PlaceOK'
  BY <1>1, <1>2 DEF WInv, PlaceOK, Looking
<1>8. ReaderOK'
  BY <1>1, <1>2, <1>4 DEF WInv, ReaderOK, Reads
<1>9. WriterOK'
  <2>1. outbound \in Int /\ owed \in Int /\ unread \in Int /\ Lwm \in Nat \ {0}
    BY LwmFacts DEF WInv, Numbers, Sizes
  <2>2. unread = outbound + owed + Writes + (IF telling = "activate_write" THEN Lwm ELSE 0)
    BY DEF WInv, WriterOK, Writes
  <2>3. unread' = outbound' + owed' + Writes' + (IF telling' = "activate_write" THEN Lwm ELSE 0)
    <3>1. PICK n \in Nat : n = Writes'
      BY <1>4
    <3>2. Writes = IF k = "activate_write" THEN n + Lwm ELSE n
      BY <1>4, <3>1
    <3>3. unread' = outbound + owed + n + (IF telling = "activate_write" THEN Lwm ELSE 0)
      BY <1>1, <2>1, <2>2, <3>1, <3>2
    <3>4. QED
      BY <1>1, <3>1, <3>3
  <2>4. ~outActive' => unread' = Hwm
    BY <1>1, <1>2 DEF WInv, WriterOK
  <2>5. QED
    BY <2>3, <2>4 DEF WriterOK, Writes
<1>10. ThereOK'
  <2> SUFFICES ASSUME there PROVE ThereOK'
    BY <1>1 DEF ThereOK
  <2>1. answer' # "nothing"
    BY <1>1 DEF WInv, ThereOK
  <2>2. CASE op = "send"
    <3>1. at = "lookFirst" /\ unread < Hwm + Writes
      BY <1>1, <2>2 DEF WInv, ThereOK, Looking, Writes
    <3>2. unread' < Hwm + Writes'
      <4>1. unread \in Int /\ Hwm \in Nat /\ Lwm \in Nat
        BY LwmFacts DEF WInv, Numbers, Sizes
      <4>2. CASE k = "activate_write"
        <5>1. PICK n \in Nat : n = Writes'
          BY <1>4
        <5>2. unread' = unread - Lwm /\ Writes = n + Lwm
          BY <1>1, <1>4, <4>2, <5>1
        <5>3. unread - Lwm < Hwm + n
          BY <3>1, <4>1, <5>2
        <5>4. QED
          BY <5>1, <5>2, <5>3
      <4>3. CASE k # "activate_write"
        <5>1. unread' = unread /\ Writes = Writes'
          BY <1>1, <1>4, <4>3
        <5>2. QED
          BY <3>1, <5>1
      <4>4. QED
        BY <4>2, <4>3
    <3>3. QED
      BY <1>1, <2>1, <2>2, <3>1, <3>2 DEF ThereOK, Writes
  <2>3. CASE op \in {"recv", "poll"}
    <3>1. /\ inbound > 0 /\ at # "fd"
          /\ inActive \/ Reads > 0
      BY <2>3 DEF WInv, ThereOK, Reads
    <3>2. at \in {"lookFirst", "lookLast", "lookAgain", "lookEvents"}
      BY <1>1, <2>3 DEF Looking
    <3>3. inActive' \/ Reads' > 0
      BY <1>2, <1>4, <3>1 
    <3>4. QED
      BY <1>1, <2>1, <2>3, <3>1, <3>2, <3>3 DEF ThereOK, Reads
  <2>4. CASE op = "none"
    BY <1>1, <2>1, <2>4 DEF ThereOK
  <2>5. QED
    BY <2>2, <2>3, <2>4 DEF WInv, Names
<1>11. QED
  BY <1>3, <1>5, <1>6, <1>7, <1>8, <1>9, <1>10 DEF WInv, MailboxOK

LEMMA SleepKeeps == ASSUME Sizes, WInv, Sleep PROVE WInv'
<1>1. /\ active' = FALSE
      /\ UNCHANGED <<inbound, asleep, inActive, outbound, unread, owed, outActive, telling,
                     stopping, op, wait, there, mailbox, terminated, ticks, recent, at, block,
                     expired, answer>>
  BY DEF Sleep, pipeVars, peerVars, callVars
<1>2. Numbers' /\ Names' /\ MailboxOK'
  BY <1>1 DEF WInv, Numbers, Names, MailboxOK
<1>3. Flags'
  BY <1>1 DEF WInv, Flags
<1>4. PlaceOK'
  BY <1>1 DEF WInv, PlaceOK, Looking
<1>5. ReaderOK' /\ WriterOK' /\ ThereOK'
  BY <1>1 DEF WInv, ReaderOK, WriterOK, ThereOK
<1>6. QED
  BY <1>2, <1>3, <1>4, <1>5 DEF WInv

LEMMA LookedKeeps == ASSUME Sizes, WInv, Looked PROVE WInv'
<1>1. /\ Looking /\ mailbox = <<>> /\ active' = FALSE
      /\ ticks' = IF op = "recv" /\ Then # "again" /\ ~terminated THEN 0 ELSE ticks
      /\ block' = FALSE
      /\ UNCHANGED <<inbound, asleep, inActive, outbound, unread, owed, outActive, telling,
                     stopping, mailbox, terminated, recent, there>>
  BY DEF Looked, Return, Proceed, pipeVars, peerVars, callVars
<1>2. \/ /\ terminated /\ answer' = "terminated"
         /\ at' = "idle" /\ op' = "none" /\ wait' = "dont" /\ expired' = FALSE
      \/ ~terminated /\ at' = Then /\ UNCHANGED <<answer, op, wait, expired>>
  BY DEF Looked, Return, Proceed, callVars
<1>3. /\ at = "lookFirst" => Then = "first"
      /\ at = "lookLast" => Then = "last"
      /\ at = "lookAgain" => Then = "again"
      /\ at = "lookEvents" => Then = "events"
  BY DEF Then
<1>4. at \in {"lookFirst", "lookLast", "lookAgain", "lookEvents"}
  BY <1>1 DEF Looking
<1>5. Reads = 0 /\ Writes = 0
  BY <1>1, Counts DEF WInv
<1> HIDE DEF Then
<1>6. Numbers' /\ MailboxOK'
  BY <1>1 DEF WInv, Numbers, MailboxOK, Sizes
<1>7. Flags'
  BY <1>1, <1>2 DEF WInv, Flags
<1>8. Names'
  BY <1>1, <1>2, <1>3, <1>4 DEF WInv, Names
<1>9. PlaceOK'
  BY <1>1, <1>2, <1>3, <1>4 DEF WInv, PlaceOK, Sizes, Looking
<1>10. ReaderOK' /\ WriterOK'
  BY <1>1 DEF WInv, ReaderOK, WriterOK
<1>11. ThereOK'
  <2>1. CASE terminated
    BY <1>1, <1>2, <2>1 DEF ThereOK
  <2>2. CASE ~terminated
    <3>1. at' = Then /\ answer' = answer /\ op' = op
      BY <1>2, <2>2
    <3> SUFFICES ASSUME there PROVE ThereOK'
      BY <1>1 DEF ThereOK
    <3>2. answer' # "nothing"
      BY <3>1 DEF WInv, ThereOK
    <3>3. CASE op = "send"
      <4>1. at = "lookFirst" /\ unread < Hwm + Writes
        BY <1>4, <3>3 DEF WInv, ThereOK, Writes
      <4>2. unread < Hwm
        BY <1>5, <4>1 DEF Sizes
      <4>3. Writes' = 0
        BY <1>1, <1>5 DEF Writes
      <4>4. unread' < Hwm + Writes' /\ unread' < Hwm
        BY <1>1, <4>2, <4>3 DEF Sizes
      <4>5. QED
        BY <1>3, <3>1, <3>2, <3>3, <4>1, <4>4 DEF ThereOK, Writes
    <3>4. CASE op \in {"recv", "poll"}
      <4>1. inbound > 0 /\ inActive
        BY <1>5, <3>4 DEF WInv, ThereOK, Reads
      <4>2. Then # "fd"
        BY <1>3, <1>4
      <4>3. QED
        BY <1>1, <3>1, <3>2, <3>4, <4>1, <4>2 DEF ThereOK
    <3>5. CASE op = "none"
      BY <3>1, <3>2, <3>5 DEF ThereOK
    <3>6. QED
      BY <3>3, <3>4, <3>5 DEF WInv, Names
  <2>3. QED
    BY <2>1, <2>2
<1>12. QED
  BY <1>6, <1>7, <1>8, <1>9, <1>10, <1>11 DEF WInv

LEMMA InterruptKeeps == ASSUME Sizes, WInv, Interrupt PROVE WInv'
<1>1. /\ at = "fd" \/ (Looking /\ block)
      /\ ~active /\ answer' = "interrupted"
      /\ at' = "idle" /\ op' = "none" /\ wait' = "dont" /\ block' = FALSE /\ expired' = FALSE
      /\ UNCHANGED <<inbound, asleep, inActive, outbound, unread, owed, outActive, telling,
                     stopping, mailbox, active, terminated, ticks, recent, there>>
  BY DEF Interrupt, Return, pipeVars, peerVars
<1>2. Numbers' /\ Flags' /\ Names' /\ MailboxOK'
  BY <1>1 DEF WInv, Numbers, Flags, Names, MailboxOK
<1>3. PlaceOK'
  BY <1>1 DEF WInv, PlaceOK, Looking
<1>4. ReaderOK' /\ WriterOK' /\ ThereOK'
  BY <1>1 DEF WInv, ReaderOK, WriterOK, ThereOK
<1>5. QED
  BY <1>2, <1>3, <1>4 DEF WInv

LEMMA RefuseKeeps ==
    ASSUME Sizes, WInv, NEW d \in Calls, NEW u \in Waits, Refuse(d, u) PROVE WInv'
<1>1. /\ at = "idle" /\ answer' = "terminated"
      /\ UNCHANGED <<inbound, asleep, inActive, outbound, unread, owed, outActive, telling,
                     stopping, op, wait, there, mailbox, active, terminated, ticks, recent, at,
                     block, expired>>
  BY DEF Refuse, pipeVars, peerVars, callVars
<1>2. Numbers' /\ Flags' /\ Names' /\ MailboxOK' /\ PlaceOK'
  BY <1>1 DEF WInv, Numbers, Flags, Names, MailboxOK, PlaceOK, Looking
<1>3. ReaderOK' /\ WriterOK' /\ ThereOK'
  BY <1>1 DEF WInv, ReaderOK, WriterOK, ThereOK
<1>4. QED
  BY <1>2, <1>3 DEF WInv

-----------------------------------------------------------------------------
(* Calls begin. *)

LEMMA SendKeeps == ASSUME Sizes, WInv, NEW u \in Waits, Send(u) PROVE WInv'
<1>1. /\ ~terminated /\ at = "idle" /\ op' = "send" /\ wait' = u
      /\ expired' = FALSE /\ answer' = "none" /\ block' = FALSE
      /\ UNCHANGED <<inbound, asleep, inActive, outbound, unread, owed, outActive, telling,
                     stopping, mailbox, active, terminated, ticks>>
  BY DEF Send, Begin, pipeVars, peerVars
<1>2. there' <=> ~recent /\ unread < Hwm + Writes
  BY DEF Send, Begin, Acknowledged, Writes, Count
<1>3. there' \in BOOLEAN
  BY DEF Send, Begin
<1>4. /\ recent => at' = "first" /\ recent' = recent
      /\ ~recent => at' = "lookFirst" /\ recent' \in BOOLEAN
  BY DEF Send
<1>5. recent \in BOOLEAN
  BY DEF WInv, Flags
<1>6. Numbers' /\ MailboxOK'
  BY <1>1 DEF WInv, Numbers, MailboxOK
<1>7. Flags'
  BY <1>1, <1>3, <1>4, <1>5 DEF WInv, Flags
<1>8. at' = "first" \/ at' = "lookFirst"
  BY <1>4
<1>9. Names'
  BY <1>1, <1>8 DEF WInv, Names, Waits
<1>10. PlaceOK'
  BY <1>1, <1>8 DEF WInv, PlaceOK, Looking
<1>11. ReaderOK' /\ WriterOK'
  BY <1>1 DEF WInv, ReaderOK, WriterOK
<1>12. ThereOK'
  BY <1>1, <1>2, <1>4 DEF ThereOK, Writes
<1>13. QED
  BY <1>6, <1>7, <1>9, <1>10, <1>11, <1>12 DEF WInv

LEMMA RecvKeeps == ASSUME Sizes, WInv, NEW u \in Waits, Recv(u) PROVE WInv'
<1>1. /\ ~terminated /\ at = "idle" /\ op' = "recv" /\ wait' = u
      /\ expired' = FALSE /\ answer' = "none" /\ block' = FALSE
      /\ ticks' = ticks + 1
      /\ at' = IF ticks + 1 = PollRate THEN "lookFirst" ELSE "first"
      /\ UNCHANGED <<inbound, asleep, inActive, outbound, unread, owed, outActive, telling,
                     stopping, mailbox, active, terminated, recent>>
  BY DEF Recv, Begin, pipeVars, peerVars
<1>2. there' <=> inbound > 0 /\ telling # "activate_read"
  BY DEF Recv, Begin
<1>3. there' \in BOOLEAN
  BY DEF Recv, Begin
<1>4. op = "none" /\ ~active /\ ticks # PollRate
  BY <1>1 DEF WInv, PlaceOK, Looking
<1>5. Numbers' /\ MailboxOK'
  BY <1>1, <1>4 DEF WInv, Numbers, MailboxOK, Sizes
<1>6. Flags'
  BY <1>1, <1>3 DEF WInv, Flags
<1>7. at' = "first" \/ at' = "lookFirst"
  BY <1>1
<1>8. Names'
  BY <1>1, <1>7 DEF WInv, Names, Waits
<1>9. PlaceOK'
  BY <1>1, <1>4, <1>7 DEF WInv, PlaceOK, Looking
<1>10. ReaderOK' /\ WriterOK'
  BY <1>1 DEF WInv, ReaderOK, WriterOK
<1>11. inbound > 0 /\ telling # "activate_read" => inActive \/ Reads > 0
  <2> SUFFICES ASSUME inbound > 0, telling # "activate_read", ~inActive PROVE Reads > 0
    OBVIOUS
  <2>1. ~asleep
    BY DEF WInv, ReaderOK, Numbers, Sizes
  <2>2. Reads + 0 = 1
    BY <2>1 DEF WInv, ReaderOK, Reads
  <2>3. Reads \in Nat
    BY Counts DEF WInv
  <2>4. QED
    BY <2>2, <2>3
<1>12. ThereOK'
  BY <1>1, <1>2, <1>7, <1>11 DEF ThereOK, Reads
<1>13. QED
  BY <1>5, <1>6, <1>8, <1>9, <1>10, <1>12 DEF WInv

LEMMA PollKeeps == ASSUME Sizes, WInv, NEW u \in Waits, Poll(u) PROVE WInv'
<1>1. /\ ~terminated /\ at = "idle" /\ op' = "poll" /\ wait' = u
      /\ expired' = FALSE /\ answer' = "none" /\ block' = FALSE /\ at' = "lookEvents"
      /\ UNCHANGED <<inbound, asleep, inActive, outbound, unread, owed, outActive, telling,
                     stopping, mailbox, active, terminated, ticks, recent>>
  BY DEF Poll, FirstPass, Begin, pipeVars, peerVars
<1>2. there' <=> inbound > 0 /\ telling # "activate_read"
  BY DEF Poll, Begin
<1>3. there' \in BOOLEAN
  BY DEF Poll, Begin
<1>4. op = "none" /\ ticks # PollRate
  BY <1>1 DEF WInv, PlaceOK
<1>5. Numbers' /\ MailboxOK'
  BY <1>1 DEF WInv, Numbers, MailboxOK
<1>6. Flags'
  BY <1>1, <1>3 DEF WInv, Flags
<1>7. Names'
  BY <1>1 DEF WInv, Names, Waits
<1>8. PlaceOK'
  BY <1>1, <1>4 DEF WInv, PlaceOK, Looking
<1>9. ReaderOK' /\ WriterOK'
  BY <1>1 DEF WInv, ReaderOK, WriterOK
<1>10. inbound > 0 /\ telling # "activate_read" => inActive \/ Reads > 0
  <2> SUFFICES ASSUME inbound > 0, telling # "activate_read", ~inActive PROVE Reads > 0
    OBVIOUS
  <2>1. ~asleep
    BY DEF WInv, ReaderOK, Numbers, Sizes
  <2>2. Reads + 0 = 1
    BY <2>1 DEF WInv, ReaderOK, Reads
  <2>3. Reads \in Nat
    BY Counts DEF WInv
  <2>4. QED
    BY <2>2, <2>3
<1>11. ThereOK'
  BY <1>1, <1>2, <1>10 DEF ThereOK, Reads
<1>12. QED
  BY <1>5, <1>6, <1>7, <1>8, <1>9, <1>11 DEF WInv

-----------------------------------------------------------------------------
(* Calls try. *)

(* Who knows of room has it, and who is refused had none. *)
LEMMA WritableIsRoom == ASSUME Sizes, WInv PROVE Writable <=> unread < Hwm
BY DEF Sizes, WInv, Numbers, Flags, WriterOK, Writable

(* A call that has looked finds what was there. *)
LEMMA ThereIsTried ==
    ASSUME Sizes, WInv, there
    PROVE  /\ op = "send" => at \in {"lookFirst", "first"} /\ (at = "first" => Writable)
           /\ op \in {"recv", "poll"} =>
                 at # "fd" /\ (at \in {"last", "again", "events"} => Readable)
BY WritableIsRoom DEF WInv, ThereOK, Readable

LEMMA TryKeeps == ASSUME Sizes, WInv, Try PROVE WInv'
<1>1. /\ at \in {"first", "last", "again"}
      /\ answer' = "done" /\ at' = "idle" /\ op' = "none" /\ wait' = "dont"
      /\ block' = FALSE /\ expired' = FALSE
      /\ UNCHANGED <<there, telling, stopping, mailbox, active, terminated, recent>>
  BY DEF Try, Return, peerVars
<1>2. \/ /\ op = "send" /\ Writable
         /\ outbound' = outbound + 1 /\ unread' = unread + 1
         /\ UNCHANGED <<inbound, asleep, inActive, owed, outActive, ticks>>
      \/ /\ op = "recv" /\ Readable
         /\ inbound' = inbound - 1
         /\ ticks' = IF at = "again" THEN 0 ELSE ticks
         /\ UNCHANGED <<asleep, inActive, outbound, unread, owed, outActive>>
  BY DEF Try
<1>3. UNCHANGED <<asleep, inActive, outActive>>
  BY <1>2
<1>4. ~active
  BY <1>1 DEF WInv, PlaceOK, Looking
<1>5. ticks' = ticks \/ ticks' = 0
  BY <1>2
<1>6. Flags' /\ Names' /\ MailboxOK'
  BY <1>1, <1>3 DEF WInv, Flags, Names, MailboxOK
<1>7. Numbers'
  <2>1. CASE op = "send"
    <3>1. unread < Hwm
      BY <1>2, <2>1, WritableIsRoom
    <3>2. QED
      BY <1>2, <2>1, <3>1 DEF WInv, Numbers, Sizes
  <2>2. CASE op = "recv"
    <3>1. inbound > 0
      BY <1>2, <2>2 DEF Readable
    <3>2. QED
      BY <1>2, <2>2, <3>1 DEF WInv, Numbers, Sizes
  <2>3. QED
    BY <1>2, <2>1, <2>2
<1>8. PlaceOK'
  BY <1>1, <1>4, <1>5 DEF WInv, PlaceOK, Looking, Sizes
<1>9. ReaderOK'
  <2>1. asleep => ~inActive /\ inbound' = 0
    BY <1>2 DEF WInv, ReaderOK, Readable
  <2>2. QED
    BY <1>1, <1>3, <2>1 DEF WInv, ReaderOK
<1>10. WriterOK'
  <2>1. CASE op = "send"
    <3>1. outActive
      BY <1>2, <2>1 DEF Writable
    <3>2. Writes \in Nat /\ unread \in Int /\ outbound \in Int /\ owed \in Int /\ Lwm \in Nat
      BY Counts, LwmFacts DEF WInv, Numbers
    <3>3. unread = outbound + owed + Writes + (IF telling = "activate_write" THEN Lwm ELSE 0)
      BY DEF WInv, WriterOK, Writes
    <3>4. unread + 1
            = (outbound + 1) + owed + Writes + (IF telling = "activate_write" THEN Lwm ELSE 0)
      BY <3>2, <3>3
    <3>5. /\ unread' = unread + 1 /\ outbound' = outbound + 1 /\ owed' = owed
          /\ Writes' = Writes /\ telling' = telling
      BY <1>1, <1>2, <2>1 DEF Writes
    <3>6. unread' = outbound' + owed' + Writes' + (IF telling' = "activate_write" THEN Lwm ELSE 0)
      BY <3>4, <3>5
    <3>7. QED
      BY <1>3, <3>1, <3>6 DEF WriterOK, Writes
  <2>2. CASE op = "recv"
    BY <1>1, <1>2, <2>2 DEF WInv, WriterOK
  <2>3. QED
    BY <1>2, <2>1, <2>2
<1>11. ThereOK'
  BY <1>1 DEF ThereOK
<1>12. QED
  BY <1>6, <1>7, <1>8, <1>9, <1>10, <1>11 DEF WInv

(* What a vain try leaves agrees with the pipe. *)
LEMMA FoundNothingKeeps ==
    ASSUME Sizes, WInv, FoundNothing, UNCHANGED <<mailbox, telling>>,
           ~(IF op = "send" THEN Writable ELSE Readable)
    PROVE  /\ ReaderOK' /\ WriterOK'
           /\ inActive' \in BOOLEAN /\ outActive' \in BOOLEAN /\ asleep' \in BOOLEAN
           /\ UNCHANGED <<inbound, outbound, unread, owed>>
<1>1. UNCHANGED <<inbound, outbound, unread, owed>>
  BY DEF FoundNothing
<1>2. CASE op = "send"
  <2>1. outActive' = FALSE /\ inActive' = inActive /\ asleep' = asleep
    BY <1>2 DEF FoundNothing
  <2>2. unread = Hwm
    BY <1>2, WritableIsRoom DEF WInv, Numbers, Sizes
  <2>3. WriterOK'
    BY <1>1, <2>2 DEF WInv, WriterOK
  <2>4. QED
    BY <1>1, <2>1, <2>3 DEF WInv, ReaderOK, Flags
<1>3. CASE op # "send"
  <2>1. /\ inActive' = FALSE /\ outActive' = outActive
        /\ asleep' <=> asleep \/ inActive
        /\ asleep' \in BOOLEAN
    BY <1>3 DEF FoundNothing
  <2>2. inActive => inbound = 0
    BY <1>3 DEF Readable, WInv, Numbers, Sizes
  <2>3. ReaderOK'
    BY <1>1, <2>1, <2>2 DEF WInv, ReaderOK
  <2>4. QED
    BY <1>1, <2>1, <2>3 DEF WInv, WriterOK, Flags
<1>4. QED
  BY <1>2, <1>3

LEMMA TryInVainKeeps == ASSUME Sizes, WInv, TryInVain PROVE WInv'
<1>1. /\ at \in {"first", "last", "again"}
      /\ ~(IF op = "send" THEN Writable ELSE Readable)
      /\ FoundNothing
      /\ UNCHANGED <<telling, stopping, mailbox, active, terminated, ticks, recent>>
  BY DEF TryInVain, peerVars
<1>2. \/ /\ answer' = "nothing" /\ at' = "idle" /\ op' = "none" /\ wait' = "dont"
         /\ block' = FALSE /\ expired' = FALSE
         /\ at \in {"last", "again"} \/ op # "recv"
      \/ /\ at' = "lookLast" /\ at = "first" /\ op = "recv"
         /\ block' = FALSE /\ UNCHANGED <<answer, op, wait, expired>>
      \/ /\ at' = "lookAgain" /\ at \in {"first", "again"}
         /\ block' \in BOOLEAN /\ UNCHANGED <<answer, op, wait, expired>>
  BY <1>1 DEF TryInVain, SecondLook, Look, Proceed, Return, callVars
<1>3. there' = there
  BY <1>1 DEF TryInVain, SecondLook, Look, Proceed, Return, callVars
<1>4. ~active /\ op \in {"send", "recv"}
  BY <1>1 DEF WInv, PlaceOK, Looking, Names
<1>5. /\ ReaderOK' /\ WriterOK'
      /\ inActive' \in BOOLEAN /\ outActive' \in BOOLEAN /\ asleep' \in BOOLEAN
      /\ UNCHANGED <<inbound, outbound, unread, owed>>
  BY <1>1, FoundNothingKeeps
<1>6. Numbers' /\ MailboxOK'
  BY <1>1, <1>5 DEF WInv, Numbers, MailboxOK
<1>7. block' \in BOOLEAN /\ expired' \in BOOLEAN
  BY <1>2 DEF WInv, Flags
<1>8. Flags'
  BY <1>1, <1>3, <1>5, <1>7 DEF WInv, Flags
<1>9. Names'
  BY <1>1, <1>2 DEF WInv, Names
<1>10. ticks = PollRate => terminated
  BY <1>1 DEF WInv, PlaceOK
<1>11. PlaceOK'
  BY <1>1, <1>2, <1>4, <1>10 DEF PlaceOK, Looking
<1>12. ThereOK'
  <2> SUFFICES ASSUME there PROVE ThereOK'
    BY <1>3 DEF ThereOK
  <2>1. op = "recv" /\ at = "first"
    BY <1>1, <1>4, ThereIsTried
  <2>2. op' = "recv" /\ at' \in {"lookLast", "lookAgain"} /\ answer' = answer
    BY <1>2, <2>1
  <2>3. inbound > 0 /\ Reads > 0 /\ answer # "nothing"
    BY <1>1, <2>1 DEF WInv, ThereOK, Readable, Reads
  <2>4. Reads' > 0
    BY <1>1, <2>3 DEF Reads
  <2>5. QED
    BY <1>5, <2>2, <2>3, <2>4 DEF ThereOK, Reads
<1>13. QED
  BY <1>5, <1>6, <1>8, <1>9, <1>11, <1>12 DEF WInv

LEMMA EventsKeeps == ASSUME Sizes, WInv, Events PROVE WInv'
<1>1. /\ at = "events" /\ there' = there
      /\ UNCHANGED <<telling, stopping, mailbox, active, terminated, ticks, recent>>
  BY DEF Events, Return, Proceed, peerVars, callVars
<1>2. /\ op = "poll" /\ ~active
      /\ ticks = PollRate => terminated
  BY <1>1 DEF WInv, PlaceOK, Looking, Names
<1>3. CASE Readable
  <2>1. /\ answer' = "done" /\ at' = "idle" /\ op' = "none" /\ wait' = "dont"
        /\ block' = FALSE /\ expired' = FALSE
        /\ UNCHANGED <<inbound, asleep, inActive, outbound, unread, owed, outActive>>
    BY <1>3 DEF Events, Return, pipeVars
  <2>2. Numbers' /\ MailboxOK' /\ Names'
    BY <1>1, <2>1 DEF WInv, Numbers, MailboxOK, Names
  <2>3. Flags'
    BY <1>1, <2>1 DEF WInv, Flags
  <2>4. PlaceOK'
    BY <1>1, <1>2, <2>1 DEF PlaceOK, Looking
  <2>5. ReaderOK' /\ WriterOK'
    BY <1>1, <2>1 DEF WInv, ReaderOK, WriterOK
  <2>6. ThereOK'
    BY <2>1 DEF ThereOK
  <2>7. QED
    BY <2>2, <2>3, <2>4, <2>5, <2>6 DEF WInv
<1>4. CASE ~Readable
  <2>1. FoundNothing
    BY <1>4 DEF Events
  <2>2. \/ /\ answer' = "nothing" /\ at' = "idle" /\ op' = "none" /\ wait' = "dont"
           /\ block' = FALSE /\ expired' = FALSE
        \/ at' = "fd" /\ block' = FALSE /\ UNCHANGED <<answer, op, wait, expired>>
    BY <1>4 DEF Events, Return, Proceed, callVars
  <2>3. /\ ReaderOK' /\ WriterOK'
        /\ inActive' \in BOOLEAN /\ outActive' \in BOOLEAN /\ asleep' \in BOOLEAN
        /\ UNCHANGED <<inbound, outbound, unread, owed>>
    BY <1>1, <1>2, <1>4, <2>1, FoundNothingKeeps
  <2>4. Numbers' /\ MailboxOK' /\ Names'
    BY <1>1, <2>2, <2>3 DEF WInv, Numbers, MailboxOK, Names
  <2>5. block' \in BOOLEAN /\ expired' \in BOOLEAN
    BY <2>2 DEF WInv, Flags
  <2>6. Flags'
    BY <1>1, <2>3, <2>5 DEF WInv, Flags
  <2>7. PlaceOK'
    BY <1>1, <1>2, <2>2 DEF PlaceOK, Looking
  <2>8. ~there
    BY <1>1, <1>2, <1>4, ThereIsTried
  <2>9. ThereOK'
    BY <1>1, <2>8 DEF ThereOK
  <2>10. QED
    BY <2>3, <2>4, <2>6, <2>7, <2>9 DEF WInv
<1>5. QED
  BY <1>3, <1>4

LEMMA WaitForFdKeeps == ASSUME Sizes, WInv, WaitForFd PROVE WInv'
<1>1. /\ at = "fd" /\ at' = "lookEvents" /\ block' = FALSE
      /\ UNCHANGED <<inbound, asleep, inActive, outbound, unread, owed, outActive, telling,
                     stopping, op, wait, there, mailbox, active, terminated, ticks, recent,
                     expired, answer>>
  BY DEF WaitForFd, Look, Proceed, pipeVars, peerVars, callVars
<1>2. op = "poll"
  BY <1>1 DEF WInv, PlaceOK, Names
<1>3. Numbers' /\ MailboxOK' /\ Names'
  BY <1>1 DEF WInv, Numbers, MailboxOK, Names
<1>4. Flags'
  BY <1>1 DEF WInv, Flags
<1>5. PlaceOK'
  BY <1>1, <1>2 DEF WInv, PlaceOK, Looking
<1>6. ReaderOK' /\ WriterOK'
  BY <1>1 DEF WInv, ReaderOK, WriterOK
<1>7. ~there
  BY <1>1, <1>2, ThereIsTried
<1>8. ThereOK'
  BY <1>1, <1>7 DEF ThereOK
<1>9. QED
  BY <1>3, <1>4, <1>5, <1>6, <1>8 DEF WInv

-----------------------------------------------------------------------------
(* Around the call. *)

LEMMA ExpireKeeps == ASSUME Sizes, WInv, Expire PROVE WInv'
<1>1. /\ expired' = TRUE
      /\ UNCHANGED <<inbound, asleep, inActive, outbound, unread, owed, outActive, telling,
                     stopping, op, wait, there, mailbox, active, terminated, ticks, recent, at,
                     block, answer>>
  BY DEF Expire, pipeVars, peerVars, callVars
<1>2. Numbers' /\ Names' /\ MailboxOK'
  BY <1>1 DEF WInv, Numbers, Names, MailboxOK
<1>3. Flags'
  BY <1>1 DEF WInv, Flags
<1>4. PlaceOK'
  BY <1>1 DEF WInv, PlaceOK, Looking
<1>5. ReaderOK' /\ WriterOK' /\ ThereOK'
  BY <1>1 DEF WInv, ReaderOK, WriterOK, ThereOK
<1>6. QED
  BY <1>2, <1>3, <1>4, <1>5 DEF WInv

LEMMA ElapseKeeps == ASSUME Sizes, WInv, Elapse PROVE WInv'
<1>1. /\ recent' = FALSE
      /\ UNCHANGED <<inbound, asleep, inActive, outbound, unread, owed, outActive, telling,
                     stopping, op, wait, there, mailbox, active, terminated, ticks, at, block,
                     expired, answer>>
  BY DEF Elapse, pipeVars, peerVars, callVars
<1>2. Numbers' /\ Names' /\ MailboxOK'
  BY <1>1 DEF WInv, Numbers, Names, MailboxOK
<1>3. Flags'
  BY <1>1 DEF WInv, Flags
<1>4. PlaceOK'
  BY <1>1 DEF WInv, PlaceOK, Looking
<1>5. ReaderOK' /\ WriterOK' /\ ThereOK'
  BY <1>1 DEF WInv, ReaderOK, WriterOK, ThereOK
<1>6. QED
  BY <1>2, <1>3, <1>4, <1>5 DEF WInv

LEMMA ArriveKeeps == ASSUME Sizes, WInv, Arrive PROVE WInv'
<1>1. /\ telling = "none" /\ inbound < Cap
      /\ inbound' = inbound + 1 /\ asleep' = FALSE
      /\ asleep => telling' = "activate_read"
      /\ ~asleep => telling' = "none"
      /\ UNCHANGED <<inActive, outbound, unread, owed, outActive, stopping, op, wait, there,
                     mailbox, active, terminated, ticks, recent, at, block, expired, answer>>
  BY DEF Arrive, callVars
<1>2. asleep \in BOOLEAN /\ inActive \in BOOLEAN /\ inbound \in 0..Cap
  BY DEF WInv, Flags, Numbers
<1>3. telling' \in {"none", "activate_read"}
  BY <1>1, <1>2
<1>4. Numbers' /\ MailboxOK'
  BY <1>1 DEF WInv, Numbers, MailboxOK, Sizes
<1>5. Flags' /\ Names'
  <2>1. Flags'
    BY <1>1 DEF WInv, Flags
  <2>2. telling' = "none" \/ telling' = "activate_read"
    BY <1>3
  <2>3. Names'
    BY <1>1, <2>2 DEF WInv, Names
  <2>4. QED
    BY <2>1, <2>3
<1>6. PlaceOK'
  BY <1>1 DEF WInv, PlaceOK, Looking
<1>7. ReaderOK'
  <2>1. Reads \in Nat /\ Reads' = Reads
    BY <1>1, Counts DEF WInv, Reads
  <2>2. Reads + 0 = IF asleep \/ inActive THEN 0 ELSE 1
    BY <1>1 DEF WInv, ReaderOK, Reads
  <2>3. CASE asleep
    <3>1. ~inActive /\ Reads = 0
      BY <2>1, <2>2, <2>3 DEF WInv, ReaderOK
    <3>2. QED
      BY <1>1, <2>1, <2>3, <3>1 DEF ReaderOK, Reads
  <2>4. CASE ~asleep
    BY <1>1, <2>1, <2>2, <2>4 DEF ReaderOK, Reads
  <2>5. QED
    BY <2>3, <2>4
<1>8. WriterOK'
  BY <1>1, <1>3 DEF WInv, WriterOK
<1>9. ThereOK'
  <2>1. inbound' > 0
    BY <1>1, <1>2 DEF Sizes
  <2>2. QED
    BY <1>1, <2>1 DEF WInv, ThereOK
<1>10. QED
  BY <1>4, <1>5, <1>6, <1>7, <1>8, <1>9 DEF WInv

LEMMA DrainKeeps == ASSUME Sizes, WInv, Drain PROVE WInv'
<1>1. /\ telling = "none" /\ outbound > 0 /\ outbound' = outbound - 1
      /\ owed' = IF owed + 1 = Lwm THEN 0 ELSE owed + 1
      /\ telling' = IF owed + 1 = Lwm THEN "activate_write" ELSE "none"
      /\ UNCHANGED <<inbound, asleep, inActive, unread, outActive, stopping, op, wait, there,
                     mailbox, active, terminated, ticks, recent, at, block, expired, answer>>
  BY DEF Drain, callVars
<1>2. /\ Lwm \in Nat \ {0} /\ owed \in 0..Lwm - 1 /\ outbound \in 0..unread /\ unread \in 0..Hwm
      /\ Hwm \in Nat
  BY LwmFacts DEF WInv, Numbers, Sizes
<1>3. outbound' \in 0..unread /\ owed' \in 0..Lwm - 1
  BY <1>1, <1>2
<1>4. telling' = "none" \/ telling' = "activate_write"
  BY <1>1
<1>5. Numbers' /\ MailboxOK'
  BY <1>1, <1>3 DEF WInv, Numbers, MailboxOK
<1>6. Flags' /\ Names'
  <2>1. Flags'
    BY <1>1 DEF WInv, Flags
  <2>2. Names'
    BY <1>1, <1>4 DEF WInv, Names
  <2>3. QED
    BY <2>1, <2>2
<1>7. PlaceOK'
  BY <1>1 DEF WInv, PlaceOK, Looking
<1>8. ReaderOK'
  BY <1>1, <1>4 DEF WInv, ReaderOK
<1>9. WriterOK'
  <2>1. Writes \in Nat /\ Writes' = Writes
    BY <1>1, Counts DEF WInv, Writes
  <2>2. unread = outbound + owed + Writes + 0
    BY <1>1 DEF WInv, WriterOK, Writes
  <2>3. unread' = outbound' + owed' + Writes' + (IF telling' = "activate_write" THEN Lwm ELSE 0)
    <3>1. CASE owed + 1 = Lwm
      <4>1. unread = (outbound - 1) + 0 + Writes + Lwm
        BY <1>2, <2>1, <2>2, <3>1
      <4>2. QED
        BY <1>1, <2>1, <3>1, <4>1
    <3>2. CASE owed + 1 # Lwm
      <4>1. unread = (outbound - 1) + (owed + 1) + Writes + 0
        BY <1>2, <2>1, <2>2
      <4>2. QED
        BY <1>1, <2>1, <3>2, <4>1
    <3>3. QED
      BY <3>1, <3>2
  <2>4. ~outActive' => unread' = Hwm
    BY <1>1 DEF WInv, WriterOK
  <2>5. QED
    BY <2>3, <2>4 DEF WriterOK, Writes
<1>10. ThereOK'
  BY <1>1 DEF WInv, ThereOK
<1>11. QED
  BY <1>5, <1>6, <1>7, <1>8, <1>9, <1>10 DEF WInv

(* More commands in the mailbox take nothing from a call's reach. *)
LEMMA MoreCommands ==
    ASSUME Sizes, WInv, Reads' \in Nat, Writes' \in Nat, Reads' >= Reads, Writes' >= Writes,
           UNCHANGED <<there, answer, op, at, unread, inbound, inActive>>
    PROVE  ThereOK'
<1>1. Reads \in Nat /\ Writes \in Nat /\ unread \in Int /\ Hwm \in Nat
  BY Counts DEF WInv, Numbers, Sizes
<1>2. unread < Hwm + Writes => unread' < Hwm + Writes'
  <2>1. PICK n \in Nat : n = Writes'
    OBVIOUS
  <2>2. n >= Writes
    BY <2>1
  <2>3. unread < Hwm + Writes => unread < Hwm + n
    BY <1>1, <2>2
  <2>4. QED
    BY <2>1, <2>3
<1>3. Reads > 0 => Reads' > 0
  <2>1. PICK n \in Nat : n = Reads'
    OBVIOUS
  <2>2. n >= Reads
    BY <2>1
  <2>3. QED
    BY <1>1, <2>1, <2>2
<1>4. QED
  BY <1>2, <1>3 DEF WInv, ThereOK, Reads, Writes

LEMMA TellKeeps == ASSUME Sizes, WInv, Tell PROVE WInv'
<1>1. /\ telling # "none" /\ telling' = "none" /\ mailbox' = Append(mailbox, telling)
      /\ UNCHANGED <<inbound, asleep, inActive, outbound, unread, owed, outActive, stopping, op,
                     wait, there, active, terminated, ticks, recent, at, block, expired,
                     answer>>
  BY DEF Tell, pipeVars, callVars
<1>2. telling \in {"activate_read", "activate_write"}
  BY <1>1 DEF WInv, Names
<1>3. mailbox \in Seq(Commands) /\ mailbox' \in Seq(Commands)
  BY <1>1, <1>2 DEF WInv, MailboxOK
<1>4. /\ Reads' = IF telling = "activate_read" THEN Reads + 1 ELSE Reads
      /\ Writes' = IF telling = "activate_write" THEN Writes + Lwm ELSE Writes
  <2> DEFINE m == Count(mailbox, "activate_write")
  <2>1. /\ Reads' = IF telling = "activate_read" THEN Reads + 1 ELSE Reads
        /\ Count(mailbox', "activate_write") = IF telling = "activate_write" THEN m + 1 ELSE m
        /\ m \in Nat
    BY <1>1, <1>2, <1>3, CountAppend, CountFacts DEF Reads
  <2>2. Writes = Lwm * m /\ Writes' = Lwm * Count(mailbox', "activate_write")
    BY DEF Writes
  <2> HIDE DEF m
  <2>3. Lwm * (m + 1) = Lwm * m + Lwm
    BY <2>1, Acknowledges
  <2>4. QED
    BY <2>1, <2>2, <2>3
<1>5. Reads \in Nat /\ Writes \in Nat /\ Lwm \in Nat
  BY Counts, LwmFacts DEF WInv
<1>6. Reads' \in Nat /\ Writes' \in Nat /\ Reads' >= Reads /\ Writes' >= Writes
  BY <1>4, <1>5
<1>7. Numbers'
  BY <1>1 DEF WInv, Numbers
<1>8. Flags' /\ Names'
  BY <1>1 DEF WInv, Flags, Names
<1>9. PlaceOK'
  BY <1>1 DEF WInv, PlaceOK, Looking
<1>10. ReaderOK'
  <2>1. Reads' + 0 = Reads + (IF telling = "activate_read" THEN 1 ELSE 0)
    BY <1>4, <1>5
  <2>2. QED
    BY <1>1, <2>1 DEF WInv, ReaderOK, Reads
<1>11. WriterOK'
  <2>1. outbound \in Int /\ owed \in Int
    BY LwmFacts DEF WInv, Numbers
  <2>2. outbound + owed + Writes' + 0
          = outbound + owed + Writes + (IF telling = "activate_write" THEN Lwm ELSE 0)
    BY <1>4, <1>5, <2>1
  <2>3. unread = outbound + owed + Writes + (IF telling = "activate_write" THEN Lwm ELSE 0)
    BY DEF WInv, WriterOK, Writes
  <2>4. unread' = outbound' + owed' + Writes' + 0
    BY <1>1, <2>2, <2>3
  <2>5. QED
    BY <1>1, <2>4 DEF WInv, WriterOK, Writes
<1>12. ThereOK'
  BY <1>1, <1>6, MoreCommands
<1>13. QED
  BY <1>3, <1>7, <1>8, <1>9, <1>10, <1>11, <1>12 DEF WInv, MailboxOK

LEMMA StopKeeps == ASSUME Sizes, WInv, Stop PROVE WInv'
<1>1. /\ stopping' = TRUE /\ mailbox' = Append(mailbox, "stop")
      /\ UNCHANGED <<inbound, asleep, inActive, outbound, unread, owed, outActive, telling, op,
                     wait, there, active, terminated, ticks, recent, at, block, expired,
                     answer>>
  BY DEF Stop, pipeVars, callVars
<1>2. mailbox \in Seq(Commands) /\ mailbox' \in Seq(Commands)
  BY <1>1 DEF WInv, MailboxOK
<1>3. Reads' = Reads /\ Writes' = Writes
  BY <1>1, <1>2, CountAppend DEF Reads, Writes
<1>4. Numbers' /\ Names'
  BY <1>1 DEF WInv, Numbers, Names
<1>5. Flags'
  BY <1>1 DEF WInv, Flags
<1>6. PlaceOK'
  BY <1>1 DEF WInv, PlaceOK, Looking
<1>7. ReaderOK' /\ WriterOK'
  BY <1>1, <1>3 DEF WInv, ReaderOK, WriterOK, Reads, Writes
<1>8. ThereOK'
  BY <1>1, <1>3 DEF WInv, ThereOK, Reads, Writes
<1>9. QED
  BY <1>2, <1>4, <1>5, <1>6, <1>7, <1>8 DEF WInv, MailboxOK

-----------------------------------------------------------------------------
LEMMA StutterKeeps == ASSUME WInv, UNCHANGED vars PROVE WInv'
<1>1. UNCHANGED <<inbound, asleep, inActive, outbound, unread, owed, outActive, telling,
                  stopping, op, wait, there, mailbox, active, terminated, ticks, recent, at,
                  block, expired, answer>>
  BY DEF vars, pipeVars, peerVars, callVars
<1>2. Numbers' /\ Flags' /\ Names' /\ MailboxOK' /\ PlaceOK'
  BY <1>1 DEF WInv, Numbers, Flags, Names, MailboxOK, PlaceOK, Looking
<1>3. ReaderOK' /\ WriterOK' /\ ThereOK'
  BY <1>1 DEF WInv, ReaderOK, WriterOK, ThereOK
<1>4. QED
  BY <1>2, <1>3 DEF WInv

LEMMA NextKeeps == ASSUME Sizes, WInv, [Next]_vars PROVE WInv'
<1>1. CASE Step
  BY <1>1, TakeCommandKeeps, SleepKeeps, LookedKeeps, TryKeeps, TryInVainKeeps, EventsKeeps,
     WaitForFdKeeps DEF Step
<1>2. CASE Interrupt
  BY <1>2, InterruptKeeps
<1>3. CASE \E how \in Waits : Send(how) \/ Recv(how) \/ Poll(how)
  BY <1>3, SendKeeps, RecvKeeps, PollKeeps
<1>4. CASE \E k \in Calls, how \in Waits : Refuse(k, how)
  BY <1>4, RefuseKeeps
<1>5. CASE Expire \/ Elapse
  BY <1>5, ExpireKeeps, ElapseKeeps
<1>6. CASE Arrive \/ Drain \/ Tell \/ Stop
  BY <1>6, ArriveKeeps, DrainKeeps, TellKeeps, StopKeeps
<1>7. CASE UNCHANGED vars
  BY <1>7, StutterKeeps
<1>8. QED
  BY <1>1, <1>2, <1>3, <1>4, <1>5, <1>6, <1>7 DEF Next

(* The invariant holds, whatever the capacity, the mark and the rate. *)
THEOREM WaitingInvariant == Sizes => (Spec => []WInv)
<1> SUFFICES ASSUME Sizes PROVE Spec => []WInv
  OBVIOUS
<1>1. Init => WInv
  BY InitInvariant
<1>2. WInv /\ [Next]_vars => WInv'
  BY NextKeeps
<1>3. QED
  BY <1>1, <1>2, PTL DEF Spec

LEMMA InvariantTypes == WInv => TypeOK
<1> SUFFICES ASSUME WInv PROVE TypeOK
  OBVIOUS
<1>1. op \in Calls \cup {"none"} /\ wait \in Waits
  BY DEF WInv, Names, Calls, Waits
<1>2. at \in {"idle", "first", "last", "again", "events", "fd"} \/ Looking
  BY DEF WInv, Names, Looking
<1>3. QED
  BY <1>1, <1>2 DEF WInv, Numbers, Flags, Names, MailboxOK, TypeOK

(* Every variable keeps its type: the writer never knows of more room than *)
(* there is, recv looks at its commands every PollRate calls.              *)
THEOREM WaitingTypes == Sizes => (Spec => []TypeOK)
<1> SUFFICES ASSUME Sizes PROVE Spec => []TypeOK
  OBVIOUS
<1>1. QED
  BY InvariantTypes, WaitingInvariant, PTL

(* What a call may rely on: zmq_send, zmq_recv and zmq_poll answer that    *)
(* there is nothing only if there was nothing; the mailbox is passive for  *)
(* who waits on its descriptor; a reader that will not look is told.       *)
THEOREM CallsAreTold == Sizes => (Spec => []CallsTold)
<1> SUFFICES ASSUME Sizes PROVE Spec => []CallsTold
  OBVIOUS
<1>1. WInv => CallsTold
  <2> SUFFICES ASSUME WInv PROVE CallsTold
    OBVIOUS
  <2>1. NothingIsTrue
    BY DEF WInv, ThereOK, NothingIsTrue
  <2>2. RestsPassive
    BY DEF WInv, PlaceOK, Looking, RestsPassive
  <2>3. Told
    <3> SUFFICES ASSUME inbound > 0, ~inActive, telling # "activate_read"
                 PROVE  \E i \in DOMAIN mailbox : mailbox[i] = "activate_read"
      BY DEF Told
    <3>1. ~asleep
      BY DEF WInv, ReaderOK, Numbers, Sizes
    <3>2. Reads + 0 = 1 /\ Reads \in Nat
      BY <3>1, Counts DEF WInv, ReaderOK, Reads
    <3>3. Count(mailbox, "activate_read") > 0 /\ mailbox \in Seq(Commands)
      BY <3>2 DEF Reads, WInv, MailboxOK
    <3>4. QED
      BY <3>3, CountFacts
  <2>4. QED
    BY <2>1, <2>2, <2>3, InvariantTypes DEF CallsTold
<1>2. QED
  BY <1>1, WaitingInvariant, PTL
=============================================================================
