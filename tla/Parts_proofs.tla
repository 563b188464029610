---------------------------- MODULE Parts_proofs -----------------------------
(***************************************************************************)
(* Six parts that do not meet in their models, each with its variables.    *)
(*                                                                         *)
(* That the reaper says once that it is done, when the last socket is gone *)
(* and nothing more is on its way to it, for any number of slots, sockets  *)
(* and signals that interrupt the wait: so the context can be deleted when *)
(* zmq_ctx_term returns.                                                   *)
(*                                                                         *)
(* CtxInv says what the reaper has counted (Taken), that a socket is asked *)
(* to be reaped once (Asked), that the reaper is told to stop once, when   *)
(* the context terminates and has no socket any more (Told), and when it   *)
(* has said that it is done (Done).                                        *)
(*                                                                         *)
(* That with up to two connections every peer of a Push, Request or Dealer *)
(* can read only whole messages, for any high water mark and any sizes of  *)
(* messages, although connections come, fill up and go between the frames. *)
(* With three this is not so: lb_t::pipe_terminated loses the place of the *)
(* pipe in turn, as Receiver shows of the same code in fq_t.               *)
(*                                                                         *)
(* That the content of a message is there as long as a pipe or an I/O      *)
(* thread has a copy of it, and is freed once, by the last, for any number *)
(* of pipes, any length of a pipe and any addresses.                       *)
(*                                                                         *)
(* That what a multipart message is asked for as the types it was made of  *)
(* is what was put in, for any number of arguments.                        *)
(*                                                                         *)
(* That the chunks of a queue's memory are in order, for any size of a     *)
(* chunk, any addresses and any number of elements: YqueueInv says how the *)
(* list is linked, what each position in it is for, and who has each chunk *)
(* in hand.                                                                *)
(*                                                                         *)
(* That a PUB socket's message goes to the pipes whose peers asked for it, *)
(* whole, and a SUB socket's subscription to all of them, for any number   *)
(* of pipes, any high water mark and any length of a message, whichever of *)
(* them fill up, are read, come or end between the parts: DistInv says     *)
(* that the array and the pipes' places in it agree, that its marks are in *)
(* order, and that while a message is under way the pipes before the first *)
(* mark are the ones that began it and can take the rest of it.            *)
(***************************************************************************)
EXTENDS Context, Balancer, Content, Codec, Yqueue, Dist, FiniteSetTheorems,
        WellFoundedInduction, TLAPS

-----------------------------------------------------------------------------
(* The context.                                                            *)

Bounds == MaxSockets \in Nat /\ MaxInterrupts \in Nat

Commands == [type : {"stop", "reaped"}] \cup [type : {"reap"}, socket : Slots]

Box == reaper.mailbox

(* How many commands of a type there are in a mailbox. *)
Number(q, t) == Cardinality({i \in 1..Len(q) : q[i].type = t})

-----------------------------------------------------------------------------
(* Counting. *)

(* What is counted is finite. *)
LEMMA NumberFacts ==
    ASSUME NEW q \in Seq(Commands), NEW t
    PROVE  /\ Number(q, t) \in Nat
           /\ Number(q, t) = 0 <=> \A i \in 1..Len(q) : q[i].type # t
<1> DEFINE S == {i \in 1..Len(q) : q[i].type = t}
<1>1. IsFiniteSet(S)
  <2>1. IsFiniteSet(1..Len(q))
    BY FS_Interval
  <2>2. QED
    BY <2>1, FS_Subset
<1>2. Cardinality(S) \in Nat
  BY <1>1, FS_CardinalityType
<1>3. Cardinality(S) = 0 <=> S = {}
  BY <1>1, FS_EmptySet
<1>4. QED
  BY <1>2, <1>3 DEF Number

(* One more is sent. *)
LEMMA NumberAppend ==
    ASSUME NEW q \in Seq(Commands), NEW c \in Commands, NEW t
    PROVE  Number(Append(q, c), t) = IF c.type = t THEN Number(q, t) + 1 ELSE Number(q, t)
<1> DEFINE n == Len(q)
           a == Append(q, c)
           S == {i \in 1..n : q[i].type = t}
           T == {i \in 1..Len(a) : a[i].type = t}
<1>1. n \in Nat /\ Len(a) = n + 1 /\ a[n + 1] = c /\ \A i \in 1..n : a[i] = q[i]
  OBVIOUS
<1>2. IsFiniteSet(S) /\ Number(q, t) = Cardinality(S) /\ Number(a, t) = Cardinality(T)
  <2>1. IsFiniteSet(1..n)
    <3>1. n \in Int /\ 1 \in Int
      BY <1>1
    <3> HIDE DEF n
    <3>2. QED
      BY <3>1, FS_Interval
  <2>2. QED
    BY <2>1, FS_Subset DEF Number
<1> HIDE DEF a, n
<1>3. CASE c.type = t
  <2>1. T = S \cup {n + 1} /\ n + 1 \notin S
    BY <1>1, <1>3
  <2>2. Cardinality(T) = Cardinality(S) + 1
    BY <1>2, <2>1, FS_AddElement
  <2>3. QED
    BY <1>2, <1>3, <2>2 DEF a
<1>4. CASE c.type # t
  <2>1. T = S
    BY <1>1, <1>4
  <2> HIDE DEF S, T
  <2>2. QED
    BY <1>2, <1>4, <2>1 DEF a
<1>5. QED
  BY <1>3, <1>4

(* The first is taken. *)
LEMMA NumberTail ==
    ASSUME NEW q \in Seq(Commands), q # <<>>, NEW t
    PROVE  Number(q, t) = IF Head(q).type = t THEN Number(Tail(q), t) + 1 ELSE Number(Tail(q), t)
<1> DEFINE n == Len(q)
           r == Tail(q)
           S == {i \in 1..Len(r) : r[i].type = t}
           T == {i \in 1..n : q[i].type = t}
           U == T \ {1}
           shift == [i \in S |-> i + 1]
<1>1. n \in Nat \ {0} /\ Len(r) = n - 1 /\ Head(q) = q[1]
      /\ \A i \in 1..n - 1 : r[i] = q[i + 1]
  OBVIOUS
<1>2. Number(q, t) = Cardinality(T) /\ Number(r, t) = Cardinality(S)
  BY DEF Number
<1> HIDE DEF r, n
<1>3. IsFiniteSet(S) /\ IsFiniteSet(T)
  <2>1. IsFiniteSet(1..Len(r)) /\ IsFiniteSet(1..n)
    BY <1>1, FS_Interval
  <2>2. QED
    BY <2>1, FS_Subset
<1>4. shift \in Bijection(S, U)
  <2>1. shift \in [S -> U]
    BY <1>1
  <2>2. \A i, j \in S : shift[i] = shift[j] => i = j
    BY <1>1
  <2>3. ASSUME NEW j \in U PROVE \E i \in S : shift[i] = j
    <3>1. j \in 2..n /\ j - 1 \in 1..n - 1 /\ (j - 1) + 1 = j /\ q[j].type = t
      BY <1>1
    <3>2. j - 1 \in S
      BY <1>1, <3>1
    <3>3. QED
      BY <3>1, <3>2
  <2>4. QED
    BY <2>1, <2>2, <2>3 DEF Bijection, Injection, Surjection, IsInjective
<1>5. Cardinality(U) = Cardinality(S)
  <2>1. ExistsBijection(S, U)
    BY <1>4 DEF ExistsBijection
  <2>2. QED
    BY <1>3, <2>1, FS_Bijection
<1>6. Cardinality(U) = (IF q[1].type = t THEN Cardinality(T) - 1 ELSE Cardinality(T))
  <2>1. 1 \in T <=> q[1].type = t
    BY <1>1
  <2>2. QED
    BY <1>3, <2>1, FS_RemoveElement
<1>7. Cardinality(T) \in Nat
  BY <1>3, FS_CardinalityType
<1> HIDE DEF S, T, U
<1>8. QED
  BY <1>1, <1>2, <1>5, <1>6, <1>7 DEF r

-----------------------------------------------------------------------------
(* The invariant. *)

Types ==
    /\ TypeOK
    /\ reaper \in [terminating : BOOLEAN, sockets : Nat, mailbox : Seq(Commands)]
    /\ IsFiniteSet(reaping)

(* A closed socket is on its way to the reaper, once, or the reaper has it.*)
Asked ==
    /\ reaping \subseteq closed /\ closed \subseteq sockets
    /\ \A i \in 1..Len(Box) : Box[i].type = "reap" => Box[i].socket \in closed \ reaping
    /\ \A i, j \in 1..Len(Box) : Box[i].type = "reap" /\ Box[i] = Box[j] => i = j

(* What it has taken over and not yet counted off. *)
Taken ==
    reaper.sockets =
        Cardinality(reaping) + Number(Box, "reaped") + (IF finishing THEN 1 ELSE 0)

(* The reaper is told to stop when there is no socket and will be none. *)
Told ==
    /\ reaper.terminating \/ Number(Box, "stop") > 0 => terminating /\ sockets = {}
    /\ Number(Box, "stop") + (IF reaper.terminating THEN 1 ELSE 0) <= 1

(* It is done from then on, until the destructor takes notice. *)
Done ==
    done + (IF closer = "returned" THEN 1 ELSE 0) =
        IF reaper.terminating /\ reaper.sockets = 0 THEN 1 ELSE 0

CtxInv == Types /\ Asked /\ Taken /\ Told /\ Done

-----------------------------------------------------------------------------
(* Every step keeps it.                                                    *)

(* The reaper is sent a command. *)
LEMMA Sent ==
    ASSUME Types, NEW c \in Commands, Tell(c)
    PROVE  /\ reaper' \in [terminating : BOOLEAN, sockets : Nat, mailbox : Seq(Commands)]
           /\ reaper'.terminating = reaper.terminating /\ reaper'.sockets = reaper.sockets
           /\ Box' = Append(Box, c) /\ Len(Box) \in Nat /\ Len(Box') = Len(Box) + 1
           /\ Box'[Len(Box) + 1] = c /\ \A i \in 1..Len(Box) : Box'[i] = Box[i]
           /\ \A t : Number(Box', t) = IF c.type = t THEN Number(Box, t) + 1 ELSE Number(Box, t)
           /\ \A t : Number(Box, t) \in Nat
<1>1. /\ reaper' = [reaper EXCEPT !.mailbox = Append(@, c)] /\ Box \in Seq(Commands)
      /\ reaper \in [terminating : BOOLEAN, sockets : Nat, mailbox : Seq(Commands)]
  BY DEF Tell, Types, Box
<1>2. Box' = Append(Box, c)
  BY <1>1 DEF Box
<1>3. \A t : /\ Number(Box', t) = IF c.type = t THEN Number(Box, t) + 1 ELSE Number(Box, t)
             /\ Number(Box, t) \in Nat
  BY <1>1, <1>2, NumberAppend, NumberFacts
<1>4. /\ Len(Box) \in Nat /\ Len(Box') = Len(Box) + 1
      /\ Box'[Len(Box) + 1] = c /\ \A i \in 1..Len(Box) : Box'[i] = Box[i]
  BY <1>1, <1>2
<1>5. /\ reaper' \in [terminating : BOOLEAN, sockets : Nat, mailbox : Seq(Commands)]
      /\ reaper'.terminating = reaper.terminating /\ reaper'.sockets = reaper.sockets
  <2>1. reaper.mailbox \in Seq(Commands) /\ Append(reaper.mailbox, c) \in Seq(Commands)
    BY <1>1 DEF Box
  <2> HIDE DEF Commands
  <2>2. QED
    BY <1>1, <2>1
<1>6. QED
  BY <1>2, <1>3, <1>4, <1>5

(* The reaper takes its first command. *)
LEMMA Received ==
    ASSUME Types, NEW t, Heads(t), Box' = Tail(Box)
    PROVE  /\ Box' \in Seq(Commands) /\ Len(Box) \in Nat \ {0} /\ Len(Box') = Len(Box) - 1
           /\ Head(Box) = Box[1] /\ Head(Box).type = t /\ Head(Box) \in Commands
           /\ \A i \in 1..Len(Box') : Box'[i] = Box[i + 1]
           /\ \A u : /\ Number(Box, u) = IF u = t THEN Number(Box', u) + 1 ELSE Number(Box', u)
                     /\ Number(Box', u) \in Nat
<1>1. Box \in Seq(Commands) /\ Box # <<>> /\ Head(Box).type = t
  BY DEF Types, Heads, Box
<1>2. /\ Box' \in Seq(Commands) /\ Len(Box) \in Nat \ {0} /\ Len(Box') = Len(Box) - 1
      /\ Head(Box) = Box[1] /\ Head(Box) \in Commands
      /\ \A i \in 1..Len(Box') : Box'[i] = Box[i + 1]
  BY <1>1
<1>3. ASSUME NEW u
      PROVE  /\ Number(Box, u) = IF u = t THEN Number(Box', u) + 1 ELSE Number(Box', u)
             /\ Number(Box', u) \in Nat
  BY <1>1, <1>2, NumberTail, NumberFacts
<1>4. QED
  BY <1>1, <1>2, <1>3

(* What is not asked of the reaper changes nothing that it counts. *)
LEMMA Apart ==
    ASSUME CtxInv, TypeOK',
           UNCHANGED <<sockets, terminating, closed, reaping, finishing, reaper, done>>,
           closer' = "returned" <=> closer = "returned"
    PROVE  CtxInv'
<1>1. Box' = Box
  BY DEF Box
<1>2. Types' /\ Asked'
  BY <1>1 DEF CtxInv, Types, Asked
<1>3. Taken' /\ Told' /\ Done'
  BY <1>1 DEF CtxInv, Taken, Told, Done
<1>4. QED
  BY <1>2, <1>3 DEF CtxInv

(* zmq_socket: not while the context terminates *)
LEMMA CreateSocketKeeps ==
    ASSUME Bounds, CtxInv, NEW s \in Slots, CreateSocket(s)
    PROVE  CtxInv'
<1>1. /\ ~terminating /\ made < MaxSockets /\ sockets' = sockets \cup {s} /\ made' = made + 1
      /\ UNCHANGED <<terminating, closer, done, call, stops, stopped, closed, reaping,
                     finishing, reaper, interrupts, Box>>
  BY DEF CreateSocket, socketVars, Box
<1>2. Types'
  BY <1>1 DEF Bounds, CtxInv, Types, TypeOK
<1>3. Asked' /\ Taken' /\ Done'
  BY <1>1 DEF CtxInv, Asked, Taken, Done
<1>4. Told'
  BY <1>1 DEF CtxInv, Told
<1>5. QED
  BY <1>2, <1>3, <1>4 DEF CtxInv

(* A call begins, ends, or is interrupted. *)
LEMMA CallKeeps ==
    ASSUME CtxInv, NEW s \in Slots, Call(s) \/ Return(s) \/ ProcessStop(s)
    PROVE  CtxInv'
<1>1. TypeOK'
  <2>1. stops' \subseteq Slots /\ stopped' \subseteq Slots
    BY DEF Call, Return, ProcessStop, CtxInv, Types, TypeOK
  <2>2. call' \in [Slots -> {"idle", "blocked"}]
    BY DEF Call, Return, ProcessStop, CtxInv, Types, TypeOK
  <2>3. QED
    BY <2>1, <2>2 DEF Call, Return, ProcessStop, CtxInv, Types, TypeOK, ctxVars
<1>2. UNCHANGED <<sockets, terminating, closed, reaping, finishing, reaper, done, closer>>
  BY DEF Call, Return, ProcessStop, ctxVars
<1>3. QED
  BY <1>1, <1>2, Apart

(* zmq_close: a socket that was not closed is not on its way yet. *)
LEMMA CloseKeeps ==
    ASSUME CtxInv, NEW s \in Slots, Close(s)
    PROVE  CtxInv'
<1> DEFINE c == [type |-> "reap", socket |-> s]
<1>1. /\ s \in sockets \ closed /\ closed' = closed \cup {s} /\ Tell(c)
      /\ UNCHANGED <<sockets, terminating, closer, done, call, stops, stopped, reaping,
                     finishing, made, interrupts>>
  BY DEF Close, ctxVars
<1>2. c \in Commands /\ c.type = "reap" /\ c.socket = s
  BY DEF Commands
<1> HIDE DEF c
<1>3. /\ reaper' \in [terminating : BOOLEAN, sockets : Nat, mailbox : Seq(Commands)]
      /\ reaper'.terminating = reaper.terminating /\ reaper'.sockets = reaper.sockets
      /\ Len(Box) \in Nat /\ Len(Box') = Len(Box) + 1
      /\ Box'[Len(Box) + 1] = c /\ \A i \in 1..Len(Box) : Box'[i] = Box[i]
      /\ Number(Box', "reaped") = Number(Box, "reaped") /\ Number(Box', "stop") = Number(Box, "stop")
  BY <1>1, <1>2, Sent DEF CtxInv
<1>4. Types'
  BY <1>1, <1>3 DEF CtxInv, Types, TypeOK
<1>5. Asked'
  <2>1. reaping' \subseteq closed' /\ closed' \subseteq sockets'
    BY <1>1 DEF CtxInv, Asked
  <2>2. \A i \in 1..Len(Box') : i = Len(Box) + 1 \/ i \in 1..Len(Box)
    BY <1>3
  <2>3. ASSUME NEW i \in 1..Len(Box'), Box'[i].type = "reap"
        PROVE  Box'[i].socket \in closed' \ reaping'
    BY <1>1, <1>2, <1>3, <2>2, <2>3 DEF CtxInv, Asked
  <2>4. \A i \in 1..Len(Box) : Box[i].type = "reap" => Box[i] # c
    BY <1>1, <1>2 DEF CtxInv, Asked
  <2>5. ASSUME NEW i \in 1..Len(Box'), NEW j \in 1..Len(Box'), Box'[i].type = "reap", Box'[i] = Box'[j]
        PROVE  i = j
    BY <1>2, <1>3, <2>2, <2>4, <2>5 DEF CtxInv, Asked
  <2>6. QED
    BY <2>1, <2>3, <2>5 DEF Asked
<1>6. Taken' /\ Told' /\ Done'
  BY <1>1, <1>3 DEF CtxInv, Taken, Told, Done
<1>7. QED
  BY <1>4, <1>5, <1>6 DEF CtxInv

(* The reaper is told to stop. *)
LEMMA StopSent ==
    ASSUME Types, Tell([type |-> "stop"])
    PROVE  /\ reaper' \in [terminating : BOOLEAN, sockets : Nat, mailbox : Seq(Commands)]
           /\ reaper'.terminating = reaper.terminating /\ reaper'.sockets = reaper.sockets
           /\ Number(Box', "stop") = Number(Box, "stop") + 1
           /\ Number(Box', "reaped") = Number(Box, "reaped")
           /\ Len(Box') = Len(Box) + 1 /\ Len(Box) \in Nat
           /\ Box'[Len(Box) + 1].type = "stop" /\ \A i \in 1..Len(Box) : Box'[i] = Box[i]
<1> DEFINE c == [type |-> "stop"]
<1>1. c \in Commands /\ c.type = "stop"
  BY DEF Commands
<1> HIDE DEF c
<1>2. Tell(c)
  BY DEF c
<1>3. QED
  BY <1>1, <1>2, Sent

(* ...and has not been, as long as there is a socket. *)
LEMMA NotYetTold ==
    ASSUME CtxInv, ~terminating \/ sockets # {}
    PROVE  ~reaper.terminating /\ Number(Box, "stop") = 0
<1>1. Number(Box, "stop") \in Nat
  BY NumberFacts DEF CtxInv, Types, Box
<1>2. QED
  BY <1>1 DEF CtxInv, Told

(* zmq_ctx_term, for the first time or after a signal *)
LEMMA TerminateKeeps ==
    ASSUME CtxInv, Terminate
    PROVE  CtxInv'
<1>1. /\ closer = "idle" /\ closer' = "waiting" /\ terminating' = TRUE
      /\ stops' = IF terminating THEN stops ELSE sockets
      /\ UNCHANGED <<sockets, done, call, stopped, closed, reaping, finishing, made, interrupts>>
  BY DEF Terminate
<1>2. CASE ~terminating /\ sockets = {}
  <2>1. Tell([type |-> "stop"])
    BY <1>2 DEF Terminate
  <2>2. /\ reaper' \in [terminating : BOOLEAN, sockets : Nat, mailbox : Seq(Commands)]
        /\ reaper'.terminating = reaper.terminating /\ reaper'.sockets = reaper.sockets
        /\ Number(Box', "stop") = Number(Box, "stop") + 1
        /\ Number(Box', "reaped") = Number(Box, "reaped")
        /\ Len(Box') = Len(Box) + 1 /\ Len(Box) \in Nat
        /\ Box'[Len(Box) + 1].type = "stop" /\ \A i \in 1..Len(Box) : Box'[i] = Box[i]
    BY <2>1, StopSent DEF CtxInv
  <2>3. ~reaper.terminating /\ Number(Box, "stop") = 0
    BY <1>2, NotYetTold
  <2>4. Types'
    BY <1>1, <2>2 DEF CtxInv, Types, TypeOK
  <2>5. \A i \in 1..Len(Box') : i = Len(Box) + 1 \/ i \in 1..Len(Box)
    BY <2>2
  <2>6. Asked'
    BY <1>1, <2>2, <2>5 DEF CtxInv, Asked
  <2>7. Taken' /\ Told' /\ Done'
    BY <1>1, <1>2, <2>2, <2>3 DEF CtxInv, Taken, Told, Done
  <2>8. QED
    BY <2>4, <2>6, <2>7 DEF CtxInv
<1>3. CASE ~(~terminating /\ sockets = {})
  <2>1. reaper' = reaper /\ Box' = Box
    BY <1>3 DEF Terminate, Box
  <2>2. Types'
    BY <1>1, <2>1 DEF CtxInv, Types, TypeOK
  <2>3. Asked' /\ Taken' /\ Done'
    BY <1>1, <2>1 DEF CtxInv, Asked, Taken, Done
  <2>4. Told'
    BY <1>1, <2>1 DEF CtxInv, Told
  <2>5. QED
    BY <2>2, <2>3, <2>4 DEF CtxInv
<1>4. QED
  BY <1>2, <1>3

(* The wait is interrupted; *)
LEMMA InterruptedKeeps ==
    ASSUME Bounds, CtxInv, Interrupted
    PROVE  CtxInv'
<1>1. /\ closer = "waiting" /\ closer' = "idle"
      /\ interrupts < MaxInterrupts /\ interrupts' = interrupts + 1
      /\ UNCHANGED <<sockets, terminating, done, call, stops, stopped, closed, reaping,
                     finishing, reaper, made>>
  BY DEF Interrupted, ctxVars, socketVars
<1>2. TypeOK'
  BY <1>1 DEF Bounds, CtxInv, Types, TypeOK
<1>3. QED
  BY <1>1, <1>2, Apart

(* or the reaper is done. *)
LEMMA TerminatedKeeps ==
    ASSUME CtxInv, Terminated
    PROVE  CtxInv'
<1>1. /\ closer = "waiting" /\ closer' = "returned" /\ done > 0 /\ done' = done - 1
      /\ UNCHANGED <<sockets, terminating, call, stops, stopped, closed, reaping,
                     finishing, reaper, made, interrupts, Box>>
  BY DEF Terminated, ctxVars, socketVars, Box
<1>2. Types'
  BY <1>1 DEF CtxInv, Types, TypeOK
<1>3. Asked' /\ Taken' /\ Told'
  BY <1>1 DEF CtxInv, Asked, Taken, Told
<1>4. Done'
  <2>1. done \in Nat
    BY DEF CtxInv, Types, TypeOK
  <2>2. QED
    BY <1>1, <2>1 DEF CtxInv, Done
<1>5. QED
  BY <1>2, <1>3, <1>4 DEF CtxInv

(* reap: there is a socket, so that the reaper was not told to stop.       *)
LEMMA ProcessReapKeeps ==
    ASSUME CtxInv, ProcessReap
    PROVE  CtxInv'
<1> DEFINE s == Head(Box).socket
<1>1. /\ Heads("reap") /\ reaping' = reaping \cup {s}
      /\ stopped' = (IF s \in stops THEN stopped \cup {s} ELSE stopped) /\ stops' = stops \ {s}
      /\ reaper' = [reaper EXCEPT !.mailbox = Tail(@), !.sockets = @ + 1]
      /\ UNCHANGED <<sockets, terminating, closer, done, call, closed, finishing, made, interrupts>>
  BY DEF ProcessReap, ctxVars, Box
<1>2. reaper \in [terminating : BOOLEAN, sockets : Nat, mailbox : Seq(Commands)]
  BY DEF CtxInv, Types
<1>3. Box' = Tail(Box)
  BY <1>1, <1>2 DEF Box
<1>4. /\ Box' \in Seq(Commands) /\ Len(Box) \in Nat \ {0} /\ Len(Box') = Len(Box) - 1
      /\ Head(Box) = Box[1] /\ Head(Box).type = "reap" /\ Head(Box) \in Commands
      /\ \A i \in 1..Len(Box') : Box'[i] = Box[i + 1]
      /\ Number(Box', "reaped") = Number(Box, "reaped") /\ Number(Box', "stop") = Number(Box, "stop")
      /\ Number(Box, "reaped") \in Nat
  BY <1>1, <1>3, Received DEF CtxInv
<1>5. s \in closed \ reaping /\ s \in sockets /\ s \in Slots
  BY <1>4 DEF CtxInv, Asked, Types, TypeOK
<1>6. /\ IsFiniteSet(reaping') /\ Cardinality(reaping') = Cardinality(reaping) + 1
      /\ Cardinality(reaping) \in Nat
  <2>1. IsFiniteSet(reaping)
    BY DEF CtxInv, Types
  <2>2. QED
    BY <1>1, <1>5, <2>1, FS_AddElement, FS_CardinalityType
<1>7. /\ reaper' \in [terminating : BOOLEAN, sockets : Nat, mailbox : Seq(Commands)]
      /\ reaper'.terminating = reaper.terminating /\ reaper'.sockets = reaper.sockets + 1
  <2>1. Tail(reaper.mailbox) \in Seq(Commands) /\ reaper.sockets + 1 \in Nat
    BY <1>2, <1>3, <1>4 DEF Box
  <2>2. QED
    BY <1>1, <1>2, <2>1
<1> HIDE DEF s
<1>8. Types'
  BY <1>1, <1>5, <1>6, <1>7 DEF CtxInv, Types, TypeOK
<1>9. Asked'
  <2>1. \A i \in 1..Len(Box') : i + 1 \in 1..Len(Box) /\ i + 1 # 1 /\ 1 \in 1..Len(Box)
    BY <1>4
  <2>2. ASSUME NEW i \in 1..Len(Box'), Box'[i].type = "reap"
        PROVE  Box'[i].socket \in closed' \ reaping'
    <3>1. Box[i + 1].type = "reap" /\ Box[i + 1] \in Commands /\ Box[1] \in Commands
      BY <1>2, <1>4, <2>1, <2>2 DEF Box
    <3>2. Box[i + 1] # Box[1]
      BY <2>1, <3>1 DEF CtxInv, Asked
    <3>3. \A c, d \in Commands : c.type = "reap" /\ d.type = "reap" /\ c.socket = d.socket => c = d
      BY DEF Commands
    <3>4. Box[i + 1].socket # s
      BY <1>4, <3>1, <3>2, <3>3 DEF s
    <3>5. Box[i + 1].socket \in closed \ reaping
      BY <2>1, <3>1 DEF CtxInv, Asked
    <3>6. QED
      BY <1>1, <1>4, <2>2, <3>4, <3>5
  <2>3. ASSUME NEW i \in 1..Len(Box'), NEW j \in 1..Len(Box'), Box'[i].type = "reap", Box'[i] = Box'[j]
        PROVE  i = j
    <3>1. Box[i + 1].type = "reap" /\ Box[i + 1] = Box[j + 1]
      BY <1>4, <2>3
    <3>2. i + 1 = j + 1
      BY <2>1, <3>1 DEF CtxInv, Asked
    <3>3. i \in Int /\ j \in Int
      OBVIOUS
    <3>4. QED
      BY <3>2, <3>3
  <2>4. reaping' \subseteq closed' /\ closed' \subseteq sockets'
    BY <1>1, <1>5 DEF CtxInv, Asked
  <2>5. QED
    BY <2>2, <2>3, <2>4 DEF Asked
<1>10. Taken'
  BY <1>1, <1>4, <1>6, <1>7 DEF CtxInv, Taken
<1>11. ~reaper.terminating /\ Number(Box, "stop") = 0
  BY <1>5, NotYetTold
<1>12. Told' /\ Done'
  BY <1>1, <1>4, <1>7, <1>11 DEF CtxInv, Told, Done
<1>13. QED
  BY <1>8, <1>9, <1>10, <1>12 DEF CtxInv

(* What is left in the mailbox is asked as before. *)
LEMMA StillAsked ==
    ASSUME Asked, UNCHANGED <<sockets, closed, reaping>>,
           Len(Box) \in Nat, Len(Box') = Len(Box) - 1,
           \A i \in 1..Len(Box') : Box'[i] = Box[i + 1]
    PROVE  Asked'
<1>1. \A i \in 1..Len(Box') : i + 1 \in 1..Len(Box)
  OBVIOUS
<1>2. ASSUME NEW i \in 1..Len(Box'), NEW j \in 1..Len(Box'), Box'[i].type = "reap", Box'[i] = Box'[j]
      PROVE  i = j
  <2>1. Box[i + 1].type = "reap" /\ Box[i + 1] = Box[j + 1]
    BY <1>2
  <2>2. i + 1 = j + 1
    BY <1>1, <2>1 DEF Asked
  <2>3. i \in Int /\ j \in Int
    OBVIOUS
  <2>4. QED
    BY <2>2, <2>3
<1>3. ASSUME NEW i \in 1..Len(Box'), Box'[i].type = "reap"
      PROVE  Box'[i].socket \in closed' \ reaping'
  BY <1>1, <1>3 DEF Asked
<1>4. QED
  BY <1>2, <1>3 DEF Asked

(* stop: the reaper is done if it has counted off every socket. *)
LEMMA ProcessReaperStopKeeps ==
    ASSUME CtxInv, ProcessReaperStop
    PROVE  CtxInv'
<1>1. /\ Heads("stop") /\ reaper' = [reaper EXCEPT !.mailbox = Tail(@), !.terminating = TRUE]
      /\ done' = IF reaper.sockets = 0 THEN done + 1 ELSE done
      /\ UNCHANGED <<sockets, terminating, closer, call, stops, stopped, closed, reaping,
                     finishing, made, interrupts>>
  BY DEF ProcessReaperStop, ctxVars, socketVars
<1>2. reaper \in [terminating : BOOLEAN, sockets : Nat, mailbox : Seq(Commands)] /\ done \in Nat
  BY DEF CtxInv, Types, TypeOK
<1>3. Box' = Tail(Box)
  BY <1>1, <1>2 DEF Box
<1>4. /\ Box' \in Seq(Commands) /\ Len(Box) \in Nat \ {0} /\ Len(Box') = Len(Box) - 1
      /\ \A i \in 1..Len(Box') : Box'[i] = Box[i + 1]
      /\ Number(Box', "reaped") = Number(Box, "reaped")
      /\ Number(Box, "stop") = Number(Box', "stop") + 1
      /\ Number(Box', "reaped") \in Nat /\ Number(Box', "stop") \in Nat
  BY <1>1, <1>3, Received DEF CtxInv
<1>5. /\ reaper' \in [terminating : BOOLEAN, sockets : Nat, mailbox : Seq(Commands)]
      /\ reaper'.terminating = TRUE /\ reaper'.sockets = reaper.sockets
  BY <1>1, <1>2, <1>3, <1>4 DEF Box
<1>6. ~reaper.terminating /\ Number(Box', "stop") = 0 /\ terminating /\ sockets = {}
  BY <1>2, <1>4 DEF CtxInv, Told
<1>7. Types'
  BY <1>1, <1>2, <1>5 DEF CtxInv, Types, TypeOK
<1>8. Asked'
  BY <1>1, <1>4, StillAsked DEF CtxInv
<1>9. Taken' /\ Told' /\ Done'
  BY <1>1, <1>2, <1>4, <1>5, <1>6 DEF CtxInv, Taken, Told, Done
<1>10. QED
  BY <1>7, <1>8, <1>9 DEF CtxInv

(* reaped: the last one ends the reaper that was told to stop. *)
LEMMA ProcessReapedKeeps ==
    ASSUME CtxInv, ProcessReaped
    PROVE  CtxInv'
<1>1. /\ Heads("reaped") /\ reaper' = [reaper EXCEPT !.mailbox = Tail(@), !.sockets = @ - 1]
      /\ done' = IF reaper.sockets = 1 /\ reaper.terminating THEN done + 1 ELSE done
      /\ UNCHANGED <<sockets, terminating, closer, call, stops, stopped, closed, reaping,
                     finishing, made, interrupts>>
  BY DEF ProcessReaped, ctxVars, socketVars
<1>2. /\ reaper \in [terminating : BOOLEAN, sockets : Nat, mailbox : Seq(Commands)]
      /\ done \in Nat /\ IsFiniteSet(reaping) /\ finishing \in BOOLEAN
  BY DEF CtxInv, Types, TypeOK
<1>3. Box' = Tail(Box)
  BY <1>1, <1>2 DEF Box
<1>4. /\ Box' \in Seq(Commands) /\ Len(Box) \in Nat \ {0} /\ Len(Box') = Len(Box) - 1
      /\ \A i \in 1..Len(Box') : Box'[i] = Box[i + 1]
      /\ Number(Box, "reaped") = Number(Box', "reaped") + 1
      /\ Number(Box, "stop") = Number(Box', "stop")
      /\ Number(Box', "reaped") \in Nat /\ Number(Box', "stop") \in Nat
  BY <1>1, <1>3, Received DEF CtxInv
<1>5. reaper.sockets \in Nat \ {0}
  <2>1. Cardinality(reaping) \in Nat
    BY <1>2, FS_CardinalityType
  <2>2. QED
    BY <1>2, <1>4, <2>1 DEF CtxInv, Taken
<1>6. /\ reaper' \in [terminating : BOOLEAN, sockets : Nat, mailbox : Seq(Commands)]
      /\ reaper'.terminating = reaper.terminating /\ reaper'.sockets = reaper.sockets - 1
  <2>1. reaper.sockets - 1 \in Nat
    BY <1>5
  <2>2. QED
    BY <1>1, <1>2, <1>3, <1>4, <2>1 DEF Box
<1>7. Types'
  <2>1. TypeOK
    BY DEF CtxInv, Types
  <2>2. done' \in Nat
    BY <1>1, <1>2
  <2>3. reaper'.terminating \in BOOLEAN /\ reaper'.sockets \in Nat
    BY <1>2, <1>5, <1>6
  <2>4. TypeOK'
    BY <1>1, <2>1, <2>2, <2>3 DEF TypeOK
  <2>5. QED
    BY <1>1, <1>2, <1>6, <2>4 DEF Types
<1>8. Asked'
  BY <1>1, <1>4, StillAsked DEF CtxInv
<1>9. Taken'
  <2>1. Cardinality(reaping) \in Nat
    BY <1>2, FS_CardinalityType
  <2>2. QED
    BY <1>1, <1>4, <1>6, <2>1 DEF CtxInv, Taken
<1>10. Told' /\ Done'
  BY <1>1, <1>2, <1>4, <1>5, <1>6 DEF CtxInv, Told, Done
<1>11. QED
  BY <1>7, <1>8, <1>9, <1>10 DEF CtxInv

(* A socket is destroyed: the last one, of a context that terminates, has  *)
(* the reaper told to stop.                                                *)
LEMMA DestroySocketKeeps ==
    ASSUME CtxInv, NEW s \in Slots, DestroySocket(s)
    PROVE  CtxInv'
<1>1. /\ ~finishing /\ s \in reaping /\ sockets' = sockets \ {s} /\ finishing' = TRUE
      /\ stops' = stops \ {s} /\ stopped' = stopped \ {s}
      /\ closed' = closed \ {s} /\ reaping' = reaping \ {s}
      /\ UNCHANGED <<terminating, closer, done, call, made, interrupts>>
  BY DEF DestroySocket
<1>2. sockets # {} /\ ~reaper.terminating /\ Number(Box, "stop") = 0
  <2>1. sockets # {}
    BY <1>1 DEF CtxInv, Asked
  <2>2. QED
    BY <2>1, NotYetTold
<1>3. /\ IsFiniteSet(reaping') /\ Cardinality(reaping') = Cardinality(reaping) - 1
      /\ Cardinality(reaping) \in Nat
  <2>1. IsFiniteSet(reaping)
    BY DEF CtxInv, Types
  <2>2. QED
    BY <1>1, <2>1, FS_RemoveElement, FS_CardinalityType
<1>4. Number(Box, "reaped") \in Nat
  BY NumberFacts DEF CtxInv, Types, Box
<1>5. \A i \in 1..Len(Box) : Box[i].type = "reap" => Box[i].socket \in closed' \ reaping'
  BY <1>1 DEF CtxInv, Asked
<1>6. reaping' \subseteq closed' /\ closed' \subseteq sockets'
  BY <1>1 DEF CtxInv, Asked
<1>7. CASE terminating /\ sockets' = {}
  <2>1. Tell([type |-> "stop"])
    BY <1>7 DEF DestroySocket
  <2>2. /\ reaper' \in [terminating : BOOLEAN, sockets : Nat, mailbox : Seq(Commands)]
        /\ reaper'.terminating = reaper.terminating /\ reaper'.sockets = reaper.sockets
        /\ Number(Box', "stop") = Number(Box, "stop") + 1
        /\ Number(Box', "reaped") = Number(Box, "reaped")
        /\ Len(Box') = Len(Box) + 1 /\ Len(Box) \in Nat
        /\ Box'[Len(Box) + 1].type = "stop" /\ \A i \in 1..Len(Box) : Box'[i] = Box[i]
    BY <2>1, StopSent DEF CtxInv
  <2>3. Types'
    BY <1>1, <1>3, <2>2 DEF CtxInv, Types, TypeOK
  <2>4. \A i \in 1..Len(Box') : i = Len(Box) + 1 \/ i \in 1..Len(Box)
    BY <2>2
  <2>5. Asked'
    BY <1>5, <1>6, <2>2, <2>4, SMTT(30) DEF CtxInv, Asked
  <2>6. Taken' /\ Told' /\ Done'
    BY <1>1, <1>2, <1>3, <1>4, <1>7, <2>2 DEF CtxInv, Taken, Told, Done
  <2>7. QED
    BY <2>3, <2>5, <2>6 DEF CtxInv
<1>8. CASE ~(terminating /\ sockets' = {})
  <2>1. reaper' = reaper /\ Box' = Box
    BY <1>8 DEF DestroySocket, Box
  <2>2. Types'
    BY <1>1, <1>3, <2>1 DEF CtxInv, Types, TypeOK
  <2>3. Asked'
    BY <1>5, <1>6, <2>1 DEF CtxInv, Asked
  <2>4. Taken' /\ Told' /\ Done'
    BY <1>1, <1>2, <1>3, <1>4, <2>1 DEF CtxInv, Taken, Told, Done
  <2>5. QED
    BY <2>2, <2>3, <2>4 DEF CtxInv
<1>9. QED
  BY <1>7, <1>8

(* ...and the reaper sends itself word of it. *)
LEMMA SendReapedKeeps ==
    ASSUME CtxInv, SendReaped
    PROVE  CtxInv'
<1> DEFINE c == [type |-> "reaped"]
<1>1. /\ finishing /\ Tell(c) /\ finishing' = FALSE
      /\ UNCHANGED <<sockets, terminating, closer, done, call, stops, stopped, closed, reaping,
                     made, interrupts>>
  BY DEF SendReaped, ctxVars, socketVars
<1>2. c \in Commands /\ c.type = "reaped"
  BY DEF Commands
<1> HIDE DEF c
<1>3. /\ reaper' \in [terminating : BOOLEAN, sockets : Nat, mailbox : Seq(Commands)]
      /\ reaper'.terminating = reaper.terminating /\ reaper'.sockets = reaper.sockets
      /\ Len(Box) \in Nat /\ Len(Box') = Len(Box) + 1
      /\ Box'[Len(Box) + 1] = c /\ \A i \in 1..Len(Box) : Box'[i] = Box[i]
      /\ Number(Box', "reaped") = Number(Box, "reaped") + 1
      /\ Number(Box', "stop") = Number(Box, "stop") /\ Number(Box, "reaped") \in Nat
  BY <1>1, <1>2, Sent DEF CtxInv
<1>4. Types'
  BY <1>1, <1>3 DEF CtxInv, Types, TypeOK
<1>5. \A i \in 1..Len(Box') : i = Len(Box) + 1 \/ i \in 1..Len(Box)
  BY <1>3
<1>6. Asked'
  BY <1>1, <1>2, <1>3, <1>5, SMTT(30) DEF CtxInv, Asked
<1>7. Taken' /\ Told' /\ Done'
  <2>1. Cardinality(reaping) \in Nat
    BY FS_CardinalityType DEF CtxInv, Types
  <2>2. QED
    BY <1>1, <1>3, <2>1 DEF CtxInv, Taken, Told, Done
<1>8. QED
  BY <1>4, <1>6, <1>7 DEF CtxInv

(* Initially there is no socket. *)
LEMMA InitHolds ==
    ASSUME Bounds, Init
    PROVE  CtxInv
<1> DEFINE z == <<>>
<1>1. /\ sockets = {} /\ terminating = FALSE /\ closer = "idle" /\ done = 0
      /\ call = [s \in Slots |-> "idle"] /\ stops = {} /\ stopped = {} /\ closed = {}
      /\ reaping = {} /\ finishing = FALSE /\ made = 0 /\ interrupts = 0
      /\ reaper = [terminating |-> FALSE, sockets |-> 0, mailbox |-> z]
  BY DEF Init
<1>2. z \in Seq(Commands) /\ Len(z) = 0
  OBVIOUS
<1> HIDE DEF z
<1>3. Box = z /\ \A t : Number(z, t) = 0
  <2>1. Box = z
    BY <1>1 DEF Box
  <2>2. ASSUME NEW t PROVE Number(z, t) = 0
    <3>1. \A i \in 1..Len(z) : z[i].type # t
      BY <1>2
    <3>2. QED
      BY <1>2, <3>1, NumberFacts
  <2>3. QED
    BY <2>1, <2>2
<1>4. IsFiniteSet(reaping) /\ Cardinality(reaping) = 0
  BY <1>1, FS_EmptySet
<1>5. Types
  <2>1. TypeOK
    <3>1. {sockets, stops, stopped, closed, reaping} \subseteq SUBSET Slots
      BY <1>1
    <3>2. call \in [Slots -> {"idle", "blocked"}]
      BY <1>1
    <3>3. reaper.terminating \in BOOLEAN /\ reaper.sockets \in Nat
      BY <1>1
    <3>4. made \in 0..MaxSockets /\ interrupts \in 0..MaxInterrupts
      BY <1>1 DEF Bounds
    <3>5. QED
      BY <1>1, <3>1, <3>2, <3>3, <3>4 DEF TypeOK
  <2>2. reaper \in [terminating : BOOLEAN, sockets : Nat, mailbox : Seq(Commands)]
    BY <1>1, <1>2
  <2>3. QED
    BY <1>4, <2>1, <2>2 DEF Types
<1>6. Asked
  BY <1>1, <1>2, <1>3 DEF Asked
<1>7. Taken /\ Told /\ Done
  BY <1>1, <1>3, <1>4 DEF Taken, Told, Done
<1>8. QED
  BY <1>5, <1>6, <1>7 DEF CtxInv

-----------------------------------------------------------------------------
(* What follows.                                                           *)

(* The invariant holds in every reachable state: the reaper's count is     *)
(* right while sockets are closed by other threads, and it is told to stop *)
(* once, when there is no socket and will be none.                         *)
THEOREM ContextInvariant == Bounds => (Spec => []CtxInv)
<1> SUFFICES ASSUME Bounds PROVE Spec => []CtxInv
  OBVIOUS
<1>1. Init => CtxInv
  BY InitHolds
<1>2. CtxInv /\ [Next]_vars => CtxInv'
  <2> SUFFICES ASSUME CtxInv, [Next]_vars PROVE CtxInv'
    OBVIOUS
  <2>1. CASE \E s \in Slots : CreateSocket(s)
    BY <2>1, CreateSocketKeeps
  <2>2. CASE \E s \in Slots : Call(s) \/ Return(s) \/ ProcessStop(s)
    BY <2>2, CallKeeps
  <2>3. CASE \E s \in Slots : Close(s)
    BY <2>3, CloseKeeps
  <2>4. CASE Terminate
    BY <2>4, TerminateKeeps
  <2>5. CASE Interrupted
    BY <2>5, InterruptedKeeps
  <2>6. CASE Terminated
    BY <2>6, TerminatedKeeps
  <2>7. CASE ProcessReap
    BY <2>7, ProcessReapKeeps
  <2>8. CASE ProcessReaperStop
    BY <2>8, ProcessReaperStopKeeps
  <2>9. CASE ProcessReaped
    BY <2>9, ProcessReapedKeeps
  <2>10. CASE SendReaped
    BY <2>10, SendReapedKeeps
  <2>11. CASE \E s \in Slots : DestroySocket(s)
    BY <2>11, DestroySocketKeeps
  <2>12. CASE UNCHANGED vars
    <3>1. UNCHANGED <<sockets, terminating, closer, done, call, stops, stopped, closed, reaping,
                      finishing, reaper, made, interrupts>>
      BY <2>12 DEF vars, ctxVars, socketVars
    <3>2. TypeOK'
      BY <3>1 DEF CtxInv, Types, TypeOK
    <3>3. QED
      BY <3>1, <3>2, Apart
  <2>13. QED
    BY <2>1, <2>2, <2>3, <2>4, <2>5, <2>6, <2>7, <2>8, <2>9, <2>10, <2>11, <2>12 DEF Next, Reap
<1>3. QED
  BY <1>1, <1>2, PTL DEF Spec

(* The reaper says that it is done once, when the last socket is gone and  *)
(* nothing more is on its way to it, however the wait was interrupted: the *)
(* assertion in ctx_t::terminate holds, and the context and the reaper's   *)
(* mailbox can be deleted.                                                 *)
THEOREM DoneOnce == Bounds => (Spec => [](TypeOK /\ DoneOnceAndLast))
<1> SUFFICES ASSUME Bounds PROVE Spec => [](TypeOK /\ DoneOnceAndLast)
  OBVIOUS
<1>1. CtxInv => TypeOK /\ DoneOnceAndLast
  <2> SUFFICES ASSUME CtxInv PROVE TypeOK /\ DoneOnceAndLast
    OBVIOUS
  <2>1. /\ TypeOK /\ done \in Nat /\ reaper.sockets \in Nat /\ finishing \in BOOLEAN
        /\ Box \in Seq(Commands) /\ IsFiniteSet(reaping) /\ Cardinality(reaping) \in Nat
    BY FS_CardinalityType DEF CtxInv, Types, TypeOK, Box
  <2>2. done + (IF closer = "returned" THEN 1 ELSE 0) <= 1
    BY <2>1 DEF CtxInv, Done
  <2>3. ASSUME done > 0 \/ closer = "returned"
        PROVE  /\ sockets = {} /\ reaping = {} /\ ~finishing
               /\ reaper.mailbox = <<>> /\ reaper.sockets = 0
    <3>1. reaper.terminating /\ reaper.sockets = 0
      BY <2>1, <2>3 DEF CtxInv, Done
    <3>2. sockets = {} /\ closed = {} /\ reaping = {}
      BY <3>1 DEF CtxInv, Told, Asked
    <3>3. Number(Box, "stop") \in Nat /\ Number(Box, "reaped") \in Nat
      BY <2>1, NumberFacts
    <3>4. Number(Box, "stop") = 0 /\ Number(Box, "reaped") = 0 /\ ~finishing
      BY <2>1, <3>1, <3>3 DEF CtxInv, Told, Taken
    <3>5. \A i \in 1..Len(Box) : Box[i].type \notin {"stop", "reaped", "reap"}
      <4>1. \A i \in 1..Len(Box) : Box[i].type # "stop"
        BY <2>1, <3>4, NumberFacts
      <4>2. \A i \in 1..Len(Box) : Box[i].type # "reaped"
        BY <2>1, <3>4, NumberFacts
      <4>3. \A i \in 1..Len(Box) : Box[i].type # "reap"
        BY <3>2 DEF CtxInv, Asked
      <4>4. QED
        BY <4>1, <4>2, <4>3
    <3>6. \A i \in 1..Len(Box) : Box[i].type \in {"stop", "reaped", "reap"}
      <4>1. \A c \in Commands : c.type \in {"stop", "reaped", "reap"}
        BY DEF Commands
      <4>2. QED
        BY <2>1, <4>1
    <3>7. Box = <<>>
      <4>1. Len(Box) \in Nat /\ (Len(Box) # 0 => 1 \in 1..Len(Box))
        BY <2>1
      <4>2. Len(Box) = 0
        BY <3>5, <3>6, <4>1
      <4>3. QED
        BY <2>1, <4>2
    <3>8. QED
      BY <3>1, <3>2, <3>4, <3>7 DEF Box
  <2>4. QED
    BY <2>1, <2>2, <2>3 DEF DoneOnceAndLast
<1>2. QED
  BY <1>1, ContextInvariant, PTL

-----------------------------------------------------------------------------
(* The load balancer.                                                      *)

AtMostTwo == \A p, q, r \in LbPipes : p = q \/ q = r \/ p = r

(* A sequence of whole messages. *)
Whole(s) ==
    /\ s # <<>> => s[1].part = 1 /\ ~s[Len(s)].more
    /\ \A i \in 1..Len(s) - 1 : Follows(s[i], s[i + 1])

(* The frames so far of m, the message that the application sends. *)
Begun(s, m) ==
    /\ Len(s) = m.next - 1
    /\ \A i \in 1..Len(s) : s[i].id = m.id /\ s[i].part = i /\ s[i].more

QueuesOK == \A p \in LbPipes : Whole(queue[p])

(* A message that has begun is in the pipe in turn, and nowhere else. *)
DraftsOK ==
    /\ \A p \in LbPipes : draft[p] # <<>> => more /\ ~dropping /\ p = active[current]
    /\ ~dropping /\ active # <<>> => Begun(draft[active[current]], sending)

TurnOK ==
    /\ more /\ ~dropping => active # <<>>
    /\ ~more /\ ~dropping => sending.next = 1
    /\ \A i \in 1..Len(active) : state[active[i]] # "none"

BInv == LbTypeOK /\ QueuesOK /\ DraftsOK /\ TurnOK

LbBounds == MaxParts \in Nat \ {0} /\ LbIds \in Nat \ {0}

-----------------------------------------------------------------------------
(* Sequences of frames. *)

LEMMA ConcatFacts ==
    ASSUME NEW S, NEW q \in Seq(S), NEW s \in Seq(S)
    PROVE  /\ q \o s \in Seq(S) /\ Len(q \o s) = Len(q) + Len(s)
           /\ Len(q) \in Nat /\ Len(s) \in Nat
           /\ \A i \in 1..Len(q) : (q \o s)[i] = q[i]
           /\ \A i \in 1..Len(s) : (q \o s)[Len(q) + i] = s[i]
OBVIOUS

LEMMA AppendFacts ==
    ASSUME NEW S, NEW q \in Seq(S), NEW x \in S
    PROVE  /\ Append(q, x) \in Seq(S) /\ Len(Append(q, x)) = Len(q) + 1 /\ Len(q) \in Nat
           /\ \A i \in 1..Len(q) : Append(q, x)[i] = q[i]
           /\ Append(q, x)[Len(q) + 1] = x
OBVIOUS

(* Whole messages, and behind them frames that begin a message and go on. *)
LEMMA WholeThen ==
    ASSUME NEW q \in Seq(Frames), NEW s \in Seq(Frames), Whole(q),
           s # <<>> => s[1].part = 1,
           \A i \in 1..Len(s) - 1 : Follows(s[i], s[i + 1])
    PROVE  LET r == q \o s IN
           /\ r # <<>> => r[1].part = 1
           /\ \A i \in 1..Len(r) - 1 : Follows(r[i], r[i + 1])
<1> DEFINE r == q \o s
<1>1. /\ r \in Seq(Frames) /\ Len(r) = Len(q) + Len(s) /\ Len(q) \in Nat /\ Len(s) \in Nat
      /\ \A i \in 1..Len(q) : r[i] = q[i]
      /\ \A i \in 1..Len(s) : r[Len(q) + i] = s[i]
  BY ConcatFacts
<1> HIDE DEF r
<1>2. r # <<>> => r[1].part = 1
  <2>1. CASE q = <<>>
    <3>1. r # <<>> => s # <<>> /\ r[1] = s[1]
      BY <1>1, <2>1
    <3>2. QED
      BY <3>1
  <2>2. CASE q # <<>>
    <3>1. r[1] = q[1]
      BY <1>1, <2>2
    <3>2. QED
      BY <2>2, <3>1 DEF Whole
  <2>3. QED
    BY <2>1, <2>2
<1>3. ASSUME NEW i \in 1..Len(r) - 1
      PROVE  Follows(r[i], r[i + 1])
  <2>1. CASE i < Len(q)
    <3>1. i \in 1..Len(q) - 1 /\ r[i] = q[i] /\ r[i + 1] = q[i + 1]
      <4>1. Len(q) \in Nat /\ i \in Nat /\ i >= 1
        BY <1>1
      <4>2. i \in 1..Len(q) - 1 /\ i \in 1..Len(q) /\ i + 1 \in 1..Len(q)
        BY <2>1, <4>1
      <4>3. \A h \in 1..Len(q) : r[h] = q[h]
        BY <1>1
      <4>4. QED
        BY <4>2, <4>3
    <3>2. QED
      BY <3>1 DEF Whole
  <2>2. CASE i = Len(q)
    <3>1. q # <<>> /\ s # <<>> /\ r[i] = q[Len(q)] /\ r[i + 1] = s[1]
      BY <2>2, <1>1
    <3>2. ~q[Len(q)].more
      BY <3>1 DEF Whole
    <3>3. QED
      BY <3>1, <3>2 DEF Follows
  <2>3. CASE i > Len(q)
    <3>1. PICK j \in 1..Len(s) - 1 : i = Len(q) + j
      <4>1. i - Len(q) \in 1..Len(s) - 1 /\ i = Len(q) + (i - Len(q))
        BY <2>3, <1>1
      <4>2. QED
        BY <4>1
    <3>2. j \in 1..Len(s) /\ j + 1 \in 1..Len(s) /\ i + 1 = Len(q) + (j + 1)
      BY <1>1, <3>1
    <3>3. r[i] = s[j] /\ r[i + 1] = s[j + 1]
      BY <1>1, <3>1, <3>2
    <3>4. QED
      BY <3>3
  <2>4. QED
    BY <2>1, <2>2, <2>3, <1>1
<1>4. QED
  BY <1>2, <1>3 DEF r

LEMMA WholeConcat ==
    ASSUME NEW q \in Seq(Frames), NEW s \in Seq(Frames), Whole(q), Whole(s)
    PROVE  q \o s \in Seq(Frames) /\ Whole(q \o s)
<1> DEFINE r == q \o s
<1>1. /\ r \in Seq(Frames) /\ Len(r) = Len(q) + Len(s) /\ Len(q) \in Nat /\ Len(s) \in Nat
      /\ \A i \in 1..Len(q) : r[i] = q[i]
      /\ \A i \in 1..Len(s) : r[Len(q) + i] = s[i]
  BY ConcatFacts
<1>2. /\ r # <<>> => r[1].part = 1
      /\ \A i \in 1..Len(r) - 1 : Follows(r[i], r[i + 1])
  BY WholeThen DEF Whole
<1> HIDE DEF r
<1>3. r # <<>> => ~r[Len(r)].more
  <2>1. CASE s = <<>>
    <3>1. r # <<>> => q # <<>> /\ r[Len(r)] = q[Len(q)]
      BY <1>1, <2>1
    <3>2. QED
      BY <3>1 DEF Whole
  <2>2. CASE s # <<>>
    <3>1. r[Len(r)] = s[Len(s)]
      BY <1>1, <2>2
    <3>2. QED
      BY <2>2, <3>1 DEF Whole
  <2>3. QED
    BY <2>1, <2>2
<1>4. Whole(r)
  BY <1>2, <1>3 DEF Whole
<1>5. QED
  BY <1>1, <1>4 DEF r

(* What is left when the messages up to the n-th frame are read. *)
LEMMA WholeRest ==
    ASSUME NEW q \in Seq(Frames), Whole(q), NEW n \in 1..Len(q), ~q[n].more
    PROVE  SubSeq(q, n + 1, Len(q)) \in Seq(Frames) /\ Whole(SubSeq(q, n + 1, Len(q)))
<1> DEFINE r == SubSeq(q, n + 1, Len(q))
<1>1. /\ r \in Seq(Frames) /\ Len(q) \in Nat /\ n \in Nat \ {0} /\ n <= Len(q)
      /\ Len(r) = Len(q) - n
      /\ \A i \in 1..Len(q) - n : r[i] = q[n + i]
  OBVIOUS
<1> HIDE DEF r
<1>2. ASSUME r # <<>>
      PROVE  r[1].part = 1 /\ ~r[Len(r)].more
  <2>1. Len(r) > 0
    BY <1>1, <1>2
  <2>2. n \in 1..Len(q) - 1 /\ r[1] = q[n + 1] /\ r[Len(r)] = q[Len(q)] /\ q # <<>>
    BY <1>1, <2>1
  <2>3. Follows(q[n], q[n + 1]) /\ ~q[Len(q)].more
    BY <2>2 DEF Whole
  <2>4. QED
    BY <2>2, <2>3 DEF Follows
<1>3. ASSUME NEW i \in 1..Len(r) - 1
      PROVE  Follows(r[i], r[i + 1])
  <2>1. n + i \in 1..Len(q) - 1 /\ i \in 1..Len(q) - n /\ i + 1 \in 1..Len(q) - n
        /\ n + (i + 1) = (n + i) + 1
    BY <1>1
  <2>2. r[i] = q[n + i]
    BY <1>1, <2>1
  <2>3. r[i + 1] = q[(n + i) + 1]
    BY <1>1, <2>1
  <2>4. QED
    BY <2>1, <2>2, <2>3 DEF Whole
<1>4. Whole(r)
  BY <1>2, <1>3 DEF Whole
<1>5. QED
  BY <1>1, <1>4 DEF r

LEMMA WithoutFacts ==
    ASSUME NEW q \in Seq(LbPipes), IsInjective(q), NEW i \in 1..Len(q)
    PROVE  /\ Without(q, i) \in Seq(LbPipes)
           /\ Len(Without(q, i)) = Len(q) - 1
           /\ IsInjective(Without(q, i))
           /\ \A j \in 1..Len(Without(q, i)) :
                 /\ Without(q, i)[j] # q[i]
                 /\ \E k \in 1..Len(q) : Without(q, i)[j] = q[k]
<1> DEFINE r == Without(q, i)
<1>1. Len(q) \in Nat \ {0} /\ i \in Nat /\ \A j \in 1..Len(q) : q[j] \in LbPipes
  OBVIOUS
<1>2. r \in [1..Len(q) - 1 -> LbPipes]
  BY <1>1 DEF Without
<1>3. r \in Seq(LbPipes) /\ Len(r) = Len(q) - 1
  BY <1>1, <1>2
<1>4. \A j \in 1..Len(q) - 1 : r[j] = IF j = i THEN q[Len(q)] ELSE q[j]
  BY DEF Without
<1>5. \A a, b \in 1..Len(q) : q[a] = q[b] => a = b
  BY DEF IsInjective
<1> HIDE DEF r
<1>6. IsInjective(r)
  <2> SUFFICES ASSUME NEW a \in 1..Len(q) - 1, NEW b \in 1..Len(q) - 1, r[a] = r[b]
               PROVE  a = b
    BY <1>3 DEF IsInjective
  <2>1. a \in 1..Len(q) /\ b \in 1..Len(q) /\ Len(q) \in 1..Len(q) /\ a < Len(q) /\ b < Len(q)
    BY <1>1
  <2>2. QED
    BY <2>1, <1>4, <1>5
<1>7. ASSUME NEW j \in 1..Len(r)
      PROVE  r[j] # q[i] /\ \E k \in 1..Len(q) : r[j] = q[k]
  <2>1. j \in 1..Len(q) - 1 /\ j \in 1..Len(q) /\ Len(q) \in 1..Len(q) /\ j < Len(q)
    BY <1>1, <1>3
  <2>2. r[j] # q[i]
    BY <2>1, <1>4, <1>5
  <2>3. r[j] = q[Len(q)] \/ r[j] = q[j]
    BY <2>1, <1>4
  <2>4. QED
    BY <2>1, <2>2, <2>3
<1>8. QED
  BY <1>3, <1>6, <1>7 DEF r

LEMMA AnotherPipe ==
    ASSUME NEW q \in Seq(LbPipes), IsInjective(q), NEW p \in LbPipes,
           \A i \in 1..Len(q) : q[i] # p
    PROVE  IsInjective(Append(q, p))
<1> DEFINE r == Append(q, p)
<1>1. /\ r \in Seq(LbPipes) /\ Len(r) = Len(q) + 1 /\ Len(q) \in Nat
      /\ \A i \in 1..Len(q) : r[i] = q[i]
      /\ r[Len(q) + 1] = p
  BY AppendFacts
<1>2. \A a, b \in 1..Len(q) : q[a] = q[b] => a = b
  BY DEF IsInjective
<1> HIDE DEF r
<1>3. ASSUME NEW a \in 1..Len(q) + 1, NEW b \in 1..Len(q) + 1, r[a] = r[b]
      PROVE  a = b
  <2>1. (a \in 1..Len(q) \/ a = Len(q) + 1) /\ (b \in 1..Len(q) \/ b = Len(q) + 1)
    BY <1>1
  <2>2. QED
    BY <2>1, <1>1, <1>2, <1>3
<1>4. QED
  BY <1>1, <1>3 DEF IsInjective, r

-----------------------------------------------------------------------------
(* The invariant. *)

LEMMA InitInvariant == LbBounds /\ LbInit => BInv
<1> SUFFICES ASSUME LbBounds, LbInit PROVE BInv
  OBVIOUS
<1>1. LbTypeOK
  <2>1. IsInjective(active)
    BY DEF LbInit, IsInjective
  <2>2. sending \in [id : 0..LbIds - 1, size : 1..MaxParts, next : 1..MaxParts, waits : BOOLEAN]
        /\ sending.next <= sending.size
    BY DEF LbInit, LbBounds
  <2>3. <<>> \in Seq(Frames)
    OBVIOUS
  <2>4. queue \in [LbPipes -> Seq(Frames)] /\ draft \in [LbPipes -> Seq(Frames)]
    BY <2>3 DEF LbInit
  <2>5. state \in [LbPipes -> {"none", "open", "ending"}]
    BY DEF LbInit
  <2>6. active = <<>> /\ current = 1 /\ more = FALSE /\ dropping = FALSE
    BY DEF LbInit
  <2>7. active \in Seq(LbPipes)
    BY <2>6
  <2>8. QED
    BY <2>1, <2>2, <2>4, <2>5, <2>6, <2>7 DEF LbTypeOK
<1>2. QueuesOK /\ DraftsOK /\ TurnOK
  BY DEF LbInit, QueuesOK, DraftsOK, TurnOK, Whole
<1>3. QED
  BY <1>1, <1>2 DEF BInv

(* The pipes, and that the turn is one of theirs. *)
LEMMA Turn ==
    ASSUME LbTypeOK
    PROVE  /\ active \in Seq(LbPipes) /\ IsInjective(active) /\ Len(active) \in Nat
           /\ \A i \in 1..Len(active) : active[i] \in LbPipes
           /\ active # <<>> => current \in 1..Len(active) /\ active[current] \in LbPipes
           /\ active = <<>> => current = 1
           /\ \A p \in LbPipes : queue[p] \in Seq(Frames) /\ draft[p] \in Seq(Frames)
<1>1. /\ active \in Seq(LbPipes) /\ IsInjective(active) /\ Len(active) \in Nat
      /\ \A i \in 1..Len(active) : active[i] \in LbPipes
  BY DEF LbTypeOK
<1>2. active # <<>> => Len(active) > 0
  BY <1>1
<1>3. active # <<>> => current \in 1..Len(active)
  BY <1>1, <1>2 DEF LbTypeOK
<1>4. active = <<>> => current = 1
  BY DEF LbTypeOK
<1>5. QED
  BY <1>1, <1>3, <1>4 DEF LbTypeOK

SendingOK(s) ==
    /\ s \in [id : 0..LbIds - 1, size : 1..MaxParts, next : 1..MaxParts, waits : BOOLEAN]
    /\ s.next <= s.size

LEMMA NewMessageFacts ==
    ASSUME LbBounds, LbTypeOK, NewMessage
    PROVE  SendingOK(sending') /\ sending'.next = 1
<1>1. PICK size \in 1..MaxParts, waits \in BOOLEAN :
         sending' = [id |-> (sending.id + 1) % LbIds, size |-> size, next |-> 1, waits |-> waits]
  BY DEF NewMessage
<1>2. (sending.id + 1) % LbIds \in 0..LbIds - 1 /\ 1 \in 1..MaxParts /\ 1 <= size
  BY DEF LbTypeOK, LbBounds
<1>3. QED
  BY <1>1, <1>2 DEF SendingOK

LEMMA FrameSentFacts ==
    ASSUME LbBounds, LbTypeOK, FrameSent
    PROVE  /\ SendingOK(sending')
           /\ Frame.more => sending' = [sending EXCEPT !.next = sending.next + 1]
           /\ ~Frame.more => sending'.next = 1
           /\ Frame \in Frames /\ Frame.more \in BOOLEAN
<1>1. Frame \in Frames /\ Frame.more \in BOOLEAN /\ (Frame.more <=> sending.next < sending.size)
  <2>1. sending.id \in 0..LbIds - 1 /\ sending.next \in 1..MaxParts
    BY DEF LbTypeOK
  <2>2. (sending.next < sending.size) \in BOOLEAN
    OBVIOUS
  <2>3. QED
    BY <2>1, <2>2 DEF Frame, Frames
<1>2. CASE Frame.more
  <2>1. sending' = [sending EXCEPT !.next = @ + 1]
    BY <1>2 DEF FrameSent
  <2>2. sending.next + 1 \in 1..MaxParts /\ sending.next + 1 <= sending.size
    BY <1>1, <1>2 DEF LbTypeOK, LbBounds
  <2>3. QED
    BY <1>1, <1>2, <2>1, <2>2 DEF SendingOK, LbTypeOK
<1>3. CASE ~Frame.more
  BY <1>1, <1>3, NewMessageFacts DEF FrameSent
<1>4. QED
  BY <1>2, <1>3

(* Nothing is written of a message that has not begun. *)
LEMMA NothingBegun ==
    ASSUME sending.next = 1
    PROVE  Begun(<<>>, sending)
BY DEF Begun

LEMMA SendDroppedKeeps ==
    ASSUME LbBounds, BInv, SendDropped
    PROVE  BInv'
<1>1. /\ dropping /\ more' = Frame.more /\ dropping' = Frame.more /\ FrameSent
      /\ UNCHANGED <<state, active, current, queue, draft>>
  BY DEF SendDropped
<1>2. /\ SendingOK(sending') /\ Frame.more \in BOOLEAN
      /\ ~Frame.more => sending'.next = 1
  BY <1>1, FrameSentFacts DEF BInv
<1>3. \A p \in LbPipes : draft[p] = <<>>
  BY <1>1 DEF BInv, DraftsOK
<1>4. LbTypeOK'
  BY <1>1, <1>2 DEF BInv, LbTypeOK, SendingOK
<1>5. QueuesOK'
  BY <1>1 DEF BInv, QueuesOK
<1>6. DraftsOK'
  <2>1. ASSUME ~dropping', active' # <<>>
        PROVE  Begun(draft'[active'[current']], sending')
    <3>1. draft'[active'[current']] = <<>>
      BY <1>1, <1>3, <2>1, Turn DEF BInv
    <3>2. Begun(<<>>, sending')
      BY <1>1, <1>2, <2>1 DEF Begun
    <3>3. QED
      BY <3>1, <3>2
  <2>2. QED
    BY <1>1, <1>3, <2>1 DEF DraftsOK
<1>7. TurnOK'
  BY <1>1, <1>2 DEF BInv, TurnOK
<1>8. QED
  BY <1>4, <1>5, <1>6, <1>7 DEF BInv

LEMMA WriteKeeps ==
    ASSUME LbBounds, BInv, SendPipe
    PROVE  BInv'
<1> DEFINE p == active[current]
           f == Frame
           d == Append(draft[p], f)
<1>1. /\ ~dropping /\ active # <<>> /\ more' = f.more /\ FrameSent
      /\ UNCHANGED <<state, active, dropping>>
  BY DEF SendPipe
<1>2. /\ current \in 1..Len(active) /\ Len(active) \in Nat /\ p \in LbPipes
      /\ queue \in [LbPipes -> Seq(Frames)] /\ draft \in [LbPipes -> Seq(Frames)]
  BY <1>1, Turn DEF BInv, LbTypeOK
<1>3. /\ SendingOK(sending') /\ f \in Frames /\ f.more \in BOOLEAN
      /\ f.more => sending' = [sending EXCEPT !.next = sending.next + 1]
      /\ ~f.more => sending'.next = 1
  BY <1>1, FrameSentFacts DEF BInv
<1>4. /\ Len(draft[p]) = sending.next - 1
      /\ \A i \in 1..Len(draft[p]) :
            draft[p][i].id = sending.id /\ draft[p][i].part = i /\ draft[p][i].more
  BY <1>1 DEF BInv, DraftsOK, Begun
<1>5. f.id = sending.id /\ f.part = sending.next
  BY DEF Frame
<1>6. /\ sending.next \in Nat \ {0} /\ sending.id \in Nat
      /\ sending \in [id : 0..LbIds - 1, size : 1..MaxParts, next : 1..MaxParts, waits : BOOLEAN]
  BY DEF BInv, LbTypeOK, LbBounds
<1>7. \A q \in LbPipes : q # p => draft[q] = <<>>
  BY DEF BInv, DraftsOK
<1> HIDE DEF f
<1>8. /\ d \in Seq(Frames) /\ Len(d) = sending.next
      /\ \A i \in 1..Len(draft[p]) : d[i] = draft[p][i]
      /\ d[sending.next] = f
  <2>1. draft[p] \in Seq(Frames)
    BY <1>2
  <2>2. /\ d \in Seq(Frames) /\ Len(d) = Len(draft[p]) + 1
        /\ \A i \in 1..Len(draft[p]) : d[i] = draft[p][i]
        /\ d[Len(draft[p]) + 1] = f
    BY <1>3, <2>1, AppendFacts
  <2>3. Len(draft[p]) + 1 = sending.next
    BY <1>4, <1>6
  <2>4. QED
    BY <2>2, <2>3
<1>9. \A i \in 1..sending.next - 1 : d[i].id = sending.id /\ d[i].part = i /\ d[i].more
  BY <1>4, <1>8
<1> HIDE DEF d, p
<1>10. CASE f.more
  <2>1. draft' = [draft EXCEPT ![p] = d] /\ UNCHANGED <<queue, current>>
    BY <1>10 DEF SendPipe, d, p, f
  <2>2. /\ draft' \in [LbPipes -> Seq(Frames)] /\ draft'[p] = d
        /\ \A q \in LbPipes : q # p => draft'[q] = <<>>
    BY <1>2, <1>7, <1>8, <2>1
  <2>3. LbTypeOK'
    BY <1>1, <1>3, <2>1, <2>2 DEF BInv, LbTypeOK, SendingOK
  <2>4. QueuesOK'
    BY <2>1 DEF BInv, QueuesOK
  <2>5. sending'.next = sending.next + 1 /\ sending'.id = sending.id
    BY <1>3, <1>6, <1>10
  <2>6. Begun(d, sending')
    <3> SUFFICES /\ Len(d) = sending'.next - 1
                 /\ \A i \in 1..Len(d) :
                       d[i].id = sending'.id /\ d[i].part = i /\ d[i].more
      BY DEF Begun
    <3>1. Len(d) = sending'.next - 1
      BY <1>6, <1>8, <2>5
    <3>2. ASSUME NEW i \in 1..Len(d)
          PROVE  d[i].id = sending.id /\ d[i].part = i /\ d[i].more
      <4>1. i \in 1..sending.next - 1 \/ i = sending.next
        BY <1>6, <1>8
      <4>2. QED
        BY <1>5, <1>8, <1>9, <1>10, <4>1
    <3>3. QED
      BY <2>5, <3>1, <3>2
  <2>7. DraftsOK'
    BY <1>1, <1>2, <1>10, <2>1, <2>2, <2>6 DEF DraftsOK, p
  <2>8. TurnOK'
    BY <1>1, <1>10 DEF BInv, TurnOK
  <2>9. QED
    BY <2>3, <2>4, <2>7, <2>8 DEF BInv
<1>11. CASE ~f.more
  <2>1. /\ queue' = [queue EXCEPT ![p] = @ \o d] /\ draft' = [draft EXCEPT ![p] = <<>>]
        /\ current' = IF current = Len(active) THEN 1 ELSE current + 1
    BY <1>11 DEF SendPipe, d, p, f
  <2>2. Whole(d)
    <3>1. d # <<>> /\ ~d[Len(d)].more
      BY <1>6, <1>8, <1>11
    <3>2. d[1].part = 1
      <4>1. CASE sending.next = 1
        BY <1>5, <1>8, <4>1
      <4>2. CASE sending.next # 1
        <5>1. 1 \in 1..sending.next - 1
          BY <1>6, <4>2
        <5>2. QED
          BY <1>9, <5>1
      <4>3. QED
        BY <4>1, <4>2
    <3>3. ASSUME NEW i \in 1..Len(d) - 1
          PROVE  Follows(d[i], d[i + 1])
      <4>1. i \in 1..sending.next - 1 /\ i \in Nat
        BY <1>6, <1>8
      <4>2. d[i].id = sending.id /\ d[i].part = i /\ d[i].more
        BY <1>9, <4>1
      <4>3. d[i + 1].id = sending.id /\ d[i + 1].part = i + 1
        <5>1. CASE i + 1 = sending.next
          BY <1>5, <1>8, <5>1
        <5>2. CASE i + 1 # sending.next
          <6>1. i + 1 \in 1..sending.next - 1
            BY <1>6, <4>1, <5>2
          <6>2. QED
            BY <1>9, <6>1
        <5>3. QED
          BY <5>1, <5>2
      <4>4. QED
        BY <4>2, <4>3 DEF Follows
    <3>4. QED
      BY <3>1, <3>2, <3>3 DEF Whole
  <2>3. queue[p] \o d \in Seq(Frames) /\ Whole(queue[p] \o d)
    BY <1>2, <1>8, <2>2, WholeConcat DEF BInv, QueuesOK
  <2>4. /\ queue' \in [LbPipes -> Seq(Frames)] /\ queue'[p] = queue[p] \o d
        /\ \A q \in LbPipes : q # p => queue'[q] = queue[q]
    BY <1>2, <2>1, <2>3
  <2>5. draft' \in [LbPipes -> Seq(Frames)] /\ \A q \in LbPipes : draft'[q] = <<>>
    BY <1>2, <1>7, <2>1
  <2>6. current' \in 1..Len(active)
    BY <1>2, <2>1
  <2>7. LbTypeOK'
    BY <1>1, <1>3, <2>4, <2>5, <2>6 DEF BInv, LbTypeOK, SendingOK
  <2>8. QueuesOK'
    BY <2>3, <2>4 DEF BInv, QueuesOK
  <2>9. DraftsOK'
    <3>1. Begun(<<>>, sending')
      BY <1>3, <1>11 DEF Begun
    <3>2. active'[current'] \in LbPipes
      BY <1>1, <2>6, Turn DEF BInv
    <3>3. draft'[active'[current']] = <<>>
      BY <2>5, <3>2
    <3>4. Begun(draft'[active'[current']], sending')
      BY <3>1, <3>3
    <3>5. QED
      BY <2>5, <3>4 DEF DraftsOK
  <2>10. TurnOK'
    BY <1>1, <1>3, <1>11 DEF BInv, TurnOK
  <2>11. QED
    BY <2>7, <2>8, <2>9, <2>10 DEF BInv
<1>12. QED
  BY <1>10, <1>11

(* The array of pipes without one, and the turn after that. *)
LEMMA OneLess ==
    ASSUME LbTypeOK, NEW i \in 1..Len(active), active' = Without(active, i),
           current' = IF current = Len(active) THEN 1 ELSE current
    PROVE  /\ active' \in Seq(LbPipes) /\ IsInjective(active') /\ Len(active') = Len(active) - 1
           /\ current' \in 1..Len(active') \/ current' = 1
           /\ active' # <<>> => current' \in 1..Len(active') /\ active'[current'] \in LbPipes
           /\ \A j \in 1..Len(active') :
                 /\ active'[j] # active[i]
                 /\ \E k \in 1..Len(active) : active'[j] = active[k]
<1>1. /\ active \in Seq(LbPipes) /\ IsInjective(active) /\ Len(active) \in Nat
      /\ active # <<>> /\ current \in 1..Len(active)
  BY Turn
<1>2. /\ active' \in Seq(LbPipes) /\ IsInjective(active') /\ Len(active') = Len(active) - 1
      /\ \A j \in 1..Len(active') :
            /\ active'[j] # active[i]
            /\ \E k \in 1..Len(active) : active'[j] = active[k]
  <2> DEFINE r == Without(active, i)
  <2>1. /\ r \in Seq(LbPipes) /\ Len(r) = Len(active) - 1 /\ IsInjective(r)
        /\ \A j \in 1..Len(r) : r[j] # active[i] /\ \E k \in 1..Len(active) : r[j] = active[k]
    BY <1>1, WithoutFacts
  <2>2. active' = r
    OBVIOUS
  <2> HIDE DEF r
  <2>3. QED
    BY <2>1, <2>2
<1>3. current' \in 1..Len(active') \/ current' = 1
  <2>1. CASE current = Len(active)
    BY <2>1
  <2>2. CASE current # Len(active)
    <3>1. current' = current /\ current \in 1..Len(active) - 1
      BY <1>1, <2>2
    <3>2. QED
      BY <1>2, <3>1
  <2>3. QED
    BY <2>1, <2>2
<1>4. ASSUME active' # <<>>
      PROVE  current' \in 1..Len(active') /\ active'[current'] \in LbPipes
  <2>1. Len(active') \in Nat \ {0}
    BY <1>2, <1>4
  <2>2. current' \in 1..Len(active')
    BY <1>3, <2>1
  <2>3. QED
    BY <1>2, <2>2
<1>5. QED
  BY <1>2, <1>3, <1>4

LEMMA PassOverKeeps ==
    ASSUME LbBounds, BInv, PassOver
    PROVE  BInv'
<1>1. /\ ~dropping /\ ~more /\ active # <<>>
      /\ active' = Without(active, current)
      /\ current' = IF current = Len(active) THEN 1 ELSE current
      /\ UNCHANGED <<state, more, dropping, queue, draft, sending>>
  BY DEF PassOver
<1>2. current \in 1..Len(active)
  BY <1>1, Turn DEF BInv
<1>3. /\ active' \in Seq(LbPipes) /\ IsInjective(active')
      /\ current' \in 1..Len(active') \/ current' = 1
      /\ active' # <<>> => active'[current'] \in LbPipes
      /\ \A j \in 1..Len(active') : \E k \in 1..Len(active) : active'[j] = active[k]
  BY <1>1, <1>2, OneLess DEF BInv
<1>4. \A p \in LbPipes : draft[p] = <<>>
  BY <1>1 DEF BInv, DraftsOK
<1>5. sending.next = 1
  BY <1>1 DEF BInv, TurnOK
<1>6. LbTypeOK'
  BY <1>1, <1>3 DEF BInv, LbTypeOK
<1>7. QueuesOK'
  BY <1>1 DEF BInv, QueuesOK
<1>8. DraftsOK'
  <2>1. ASSUME active' # <<>>
        PROVE  Begun(draft'[active'[current']], sending')
    <3>1. draft'[active'[current']] = <<>>
      BY <1>1, <1>3, <1>4, <2>1
    <3>2. Begun(<<>>, sending')
      BY <1>1, <1>5 DEF Begun
    <3>3. QED
      BY <3>1, <3>2
  <2>2. QED
    BY <1>1, <1>4, <2>1 DEF DraftsOK
<1>9. TurnOK'
  BY <1>1, <1>3 DEF BInv, TurnOK
<1>10. QED
  BY <1>6, <1>7, <1>8, <1>9 DEF BInv

LEMMA BreakKeeps ==
    ASSUME LbBounds, BInv, Break
    PROVE  BInv'
<1>1. /\ ~dropping /\ more /\ active # <<>>
      /\ draft' = [draft EXCEPT ![active[current]] = <<>>]
      /\ dropping' = Frame.more /\ more' = FALSE
      /\ FrameSent \/ NewMessage
      /\ UNCHANGED <<state, active, current, queue>>
  BY DEF Break
<1>2. /\ SendingOK(sending') /\ Frame.more \in BOOLEAN
      /\ ~Frame.more => sending'.next = 1
  <2>1. CASE FrameSent
    BY <2>1, FrameSentFacts DEF BInv
  <2>2. CASE NewMessage
    <3>1. Frame.more \in BOOLEAN
      BY DEF Frame
    <3>2. QED
      BY <2>2, <3>1, NewMessageFacts DEF BInv
  <2>3. QED
    BY <1>1, <2>1, <2>2
<1>3. draft \in [LbPipes -> Seq(Frames)] /\ active[current] \in LbPipes
  BY <1>1, Turn DEF BInv, LbTypeOK
<1>4. draft' \in [LbPipes -> Seq(Frames)] /\ \A p \in LbPipes : draft'[p] = <<>>
  BY <1>1, <1>3 DEF BInv, DraftsOK
<1>5. LbTypeOK'
  BY <1>1, <1>2, <1>4 DEF BInv, LbTypeOK, SendingOK
<1>6. QueuesOK'
  BY <1>1 DEF BInv, QueuesOK
<1>7. DraftsOK'
  <2>1. ASSUME ~dropping'
        PROVE  Begun(draft'[active'[current']], sending')
    <3>1. draft'[active'[current']] = <<>>
      BY <1>1, <1>3, <1>4
    <3>2. Begun(<<>>, sending')
      BY <1>1, <1>2, <2>1 DEF Begun
    <3>3. QED
      BY <3>1, <3>2
  <2>2. QED
    BY <1>4, <2>1 DEF DraftsOK
<1>8. TurnOK'
  BY <1>1, <1>2 DEF BInv, TurnOK
<1>9. QED
  BY <1>5, <1>6, <1>7, <1>8 DEF BInv

LEMMA RefuseKeeps ==
    ASSUME LbBounds, BInv, Refuse
    PROVE  BInv'
<1>1. /\ ~dropping /\ active = <<>> /\ NewMessage
      /\ UNCHANGED <<state, active, current, more, dropping, queue, draft>>
  BY DEF Refuse, turnVars
<1>2. SendingOK(sending') /\ sending'.next = 1
  BY <1>1, NewMessageFacts DEF BInv
<1>3. LbTypeOK'
  BY <1>1, <1>2 DEF BInv, LbTypeOK, SendingOK
<1>4. QueuesOK' /\ DraftsOK'
  BY <1>1 DEF BInv, QueuesOK, DraftsOK
<1>5. TurnOK'
  BY <1>1, <1>2 DEF BInv, TurnOK
<1>6. QED
  BY <1>3, <1>4, <1>5 DEF BInv

-----------------------------------------------------------------------------
(* The commands. *)

(* The array of pipes with another one. *)
LEMMA OneMore ==
    ASSUME LbTypeOK, NEW p \in LbPipes, \A i \in 1..Len(active) : active[i] # p,
           active' = Append(active, p), current' = current
    PROVE  /\ active' \in Seq(LbPipes) /\ IsInjective(active') /\ active' # <<>>
           /\ current' \in 1..Len(active')
           /\ active # <<>> => active'[current'] = active[current]
           /\ active = <<>> => active'[current'] = p
           /\ \A j \in 1..Len(active') :
                 active'[j] = p \/ \E k \in 1..Len(active) : active'[j] = active[k]
<1>1. /\ active \in Seq(LbPipes) /\ IsInjective(active)
      /\ active # <<>> => current \in 1..Len(active)
      /\ active = <<>> => current = 1
  BY Turn
<1>2. /\ active' \in Seq(LbPipes) /\ Len(active') = Len(active) + 1 /\ Len(active) \in Nat
      /\ \A i \in 1..Len(active) : active'[i] = active[i]
      /\ active'[Len(active) + 1] = p
  BY <1>1, AppendFacts
<1>3. IsInjective(active')
  BY <1>1, AnotherPipe
<1>4. active' # <<>>
  BY <1>2
<1>5. CASE active # <<>>
  BY <1>1, <1>2, <1>3, <1>4, <1>5
<1>6. CASE active = <<>>
  <2>1. Len(active) = 0
    BY <1>6
  <2>2. QED
    BY <1>1, <1>2, <1>3, <1>4, <1>6, <2>1
<1>7. QED
  BY <1>5, <1>6

LEMMA AttachKeeps ==
    ASSUME LbBounds, BInv, NEW p \in LbPipes, Attach(p)
    PROVE  BInv'
<1>1. /\ state[p] = "none"
      /\ state' = [state EXCEPT ![p] = "open"]
      /\ queue' = [queue EXCEPT ![p] = <<>>] /\ draft' = [draft EXCEPT ![p] = <<>>]
      /\ active' = Append(active, p)
      /\ UNCHANGED <<current, more, dropping, sending>>
  BY DEF Attach
<1>2. \A i \in 1..Len(active) : active[i] # p
  BY <1>1 DEF BInv, TurnOK
<1>3. /\ active' \in Seq(LbPipes) /\ IsInjective(active') /\ active' # <<>>
      /\ current' \in 1..Len(active')
      /\ active # <<>> => active'[current'] = active[current]
      /\ active = <<>> => active'[current'] = p
      /\ \A j \in 1..Len(active') :
            active'[j] = p \/ \E k \in 1..Len(active) : active'[j] = active[k]
  BY <1>1, <1>2, OneMore DEF BInv
<1>4. /\ state' \in [LbPipes -> {"none", "open", "ending"}]
      /\ state'[p] = "open" /\ \A q \in LbPipes : q # p => state'[q] = state[q]
  BY <1>1 DEF BInv, LbTypeOK
<1>5. /\ queue' \in [LbPipes -> Seq(Frames)] /\ queue'[p] = <<>>
      /\ \A q \in LbPipes : q # p => queue'[q] = queue[q]
  BY <1>1 DEF BInv, LbTypeOK
<1>6. /\ draft' \in [LbPipes -> Seq(Frames)] /\ draft'[p] = <<>>
      /\ \A q \in LbPipes : q # p => draft'[q] = draft[q]
  BY <1>1 DEF BInv, LbTypeOK
<1>7. LbTypeOK'
  BY <1>1, <1>3, <1>4, <1>5, <1>6 DEF BInv, LbTypeOK
<1>8. QueuesOK'
  <2>1. Whole(<<>>)
    BY DEF Whole
  <2>2. QED
    BY <1>5, <2>1 DEF BInv, QueuesOK
<1>9. DraftsOK'
  <2>1. ASSUME NEW q \in LbPipes, draft'[q] # <<>>
        PROVE  more' /\ ~dropping' /\ q = active'[current']
    <3>1. q # p /\ draft[q] # <<>>
      BY <1>6, <2>1
    <3>2. more /\ ~dropping /\ q = active[current] /\ active # <<>>
      BY <3>1 DEF BInv, DraftsOK, TurnOK
    <3>3. QED
      BY <1>1, <1>3, <3>2
  <2>2. ASSUME ~dropping'
        PROVE  Begun(draft'[active'[current']], sending')
    <3>1. CASE active # <<>>
      <4>1. active[current] \in LbPipes /\ active[current] # p
        BY <1>2, <3>1, Turn DEF BInv
      <4>2. draft'[active'[current']] = draft[active[current]]
        BY <1>3, <1>6, <3>1, <4>1
      <4>3. Begun(draft[active[current]], sending)
        BY <1>1, <2>2, <3>1 DEF BInv, DraftsOK
      <4>4. QED
        BY <1>1, <4>2, <4>3
    <3>2. CASE active = <<>>
      <4>1. draft'[active'[current']] = <<>>
        BY <1>3, <1>6, <3>2
      <4>2. sending.next = 1
        BY <1>1, <2>2, <3>2 DEF BInv, TurnOK
      <4>3. Begun(<<>>, sending)
        BY <4>2, NothingBegun
      <4>4. QED
        BY <1>1, <4>1, <4>3
    <3>3. QED
      BY <3>1, <3>2
  <2>3. QED
    BY <2>1, <2>2 DEF DraftsOK
<1>10. TurnOK'
  <2>1. ASSUME NEW j \in 1..Len(active')
        PROVE  state'[active'[j]] # "none"
    <3>1. CASE active'[j] = p
      BY <1>4, <3>1
    <3>2. CASE \E k \in 1..Len(active) : active'[j] = active[k]
      <4>1. PICK k \in 1..Len(active) : active'[j] = active[k]
        BY <3>2
      <4>2. active[k] \in LbPipes /\ state[active[k]] # "none" /\ active[k] # p
        BY <1>2, Turn DEF BInv, TurnOK
      <4>3. QED
        BY <1>4, <4>1, <4>2
    <3>3. QED
      BY <1>3, <3>1, <3>2
  <2>2. QED
    BY <1>1, <1>3, <2>1 DEF BInv, TurnOK
<1>11. QED
  BY <1>7, <1>8, <1>9, <1>10 DEF BInv

LEMMA ActivatedKeeps ==
    ASSUME LbBounds, BInv, NEW p \in LbPipes, Activated(p)
    PROVE  BInv'
<1>1. /\ state[p] = "open" /\ p \notin Range(active)
      /\ active' = Append(active, p)
      /\ UNCHANGED <<state, current, more, dropping, queue, draft, sending>>
  BY DEF Activated
<1>2. \A i \in 1..Len(active) : active[i] # p
  <2>1. active \in Seq(LbPipes)
    BY DEF BInv, LbTypeOK
  <2>2. DOMAIN active = 1..Len(active)
    BY <2>1
  <2>3. QED
    BY <1>1, <2>2 DEF Range
<1>3. /\ active' \in Seq(LbPipes) /\ IsInjective(active') /\ active' # <<>>
      /\ current' \in 1..Len(active')
      /\ active # <<>> => active'[current'] = active[current]
      /\ active = <<>> => active'[current'] = p
      /\ \A j \in 1..Len(active') :
            active'[j] = p \/ \E k \in 1..Len(active) : active'[j] = active[k]
  BY <1>1, <1>2, OneMore DEF BInv
<1>4. LbTypeOK'
  BY <1>1, <1>3 DEF BInv, LbTypeOK
<1>5. QueuesOK'
  BY <1>1 DEF BInv, QueuesOK
<1>6. DraftsOK'
  <2>1. ASSUME NEW q \in LbPipes, draft[q] # <<>>
        PROVE  more /\ ~dropping /\ q = active[current] /\ active # <<>>
    BY <2>1 DEF BInv, DraftsOK, TurnOK
  <2>2. ASSUME ~dropping
        PROVE  Begun(draft[active'[current']], sending)
    <3>1. CASE active # <<>>
      BY <1>3, <2>2, <3>1 DEF BInv, DraftsOK
    <3>2. CASE active = <<>>
      <4>1. draft[active'[current']] = <<>>
        BY <1>3, <2>1, <3>2
      <4>2. sending.next = 1
        BY <2>2, <3>2 DEF BInv, TurnOK
      <4>3. QED
        BY <4>1, <4>2, NothingBegun
    <3>3. QED
      BY <3>1, <3>2
  <2>3. QED
    BY <1>1, <1>3, <2>1, <2>2 DEF DraftsOK
<1>7. TurnOK'
  BY <1>1, <1>3 DEF BInv, TurnOK
<1>8. QED
  BY <1>4, <1>5, <1>6, <1>7 DEF BInv

LEMMA PeerGoneKeeps ==
    ASSUME LbBounds, BInv, NEW p \in LbPipes, PeerGone(p)
    PROVE  BInv'
<1>1. /\ state' = [state EXCEPT ![p] = "ending"]
      /\ UNCHANGED <<active, current, more, dropping, queue, draft, sending>>
  BY DEF PeerGone, turnVars
<1>2. /\ state' \in [LbPipes -> {"none", "open", "ending"}]
      /\ \A q \in LbPipes : state[q] # "none" => state'[q] # "none"
  BY <1>1 DEF BInv, LbTypeOK
<1>3. LbTypeOK'
  BY <1>1, <1>2 DEF BInv, LbTypeOK
<1>4. QueuesOK' /\ DraftsOK'
  BY <1>1 DEF BInv, QueuesOK, DraftsOK
<1>5. TurnOK'
  BY <1>1, <1>2, Turn DEF BInv, TurnOK
<1>6. QED
  BY <1>3, <1>4, <1>5 DEF BInv

LEMMA DrainKeeps ==
    ASSUME LbBounds, BInv, NEW p \in LbPipes, Drain(p)
    PROVE  BInv'
<1>1. PICK last \in DOMAIN queue[p] :
         /\ ~queue[p][last].more
         /\ queue' = [queue EXCEPT ![p] = SubSeq(queue[p], last + 1, Len(queue[p]))]
  BY DEF Drain
<1>2. UNCHANGED <<active, current, more, dropping, state, draft, sending>>
  BY DEF Drain, turnVars
<1>3. queue[p] \in Seq(Frames) /\ Whole(queue[p])
  BY DEF BInv, LbTypeOK, QueuesOK
<1>4. last \in 1..Len(queue[p])
  BY <1>1, <1>3
<1>5. LET r == SubSeq(queue[p], last + 1, Len(queue[p])) IN r \in Seq(Frames) /\ Whole(r)
  BY <1>1, <1>3, <1>4, WholeRest
<1>6. queue' \in [LbPipes -> Seq(Frames)] /\ \A q \in LbPipes : Whole(queue'[q])
  BY <1>1, <1>5 DEF BInv, LbTypeOK, QueuesOK
<1>7. LbTypeOK'
  BY <1>2, <1>6 DEF BInv, LbTypeOK
<1>8. QueuesOK' /\ DraftsOK' /\ TurnOK'
  BY <1>2, <1>6 DEF BInv, QueuesOK, DraftsOK, TurnOK
<1>9. QED
  BY <1>7, <1>8 DEF BInv

-----------------------------------------------------------------------------
(* A connection ends. *)

(* The one of two pipes that stays is in turn. *)
LEMMA TheOtherStays ==
    ASSUME AtMostTwo, LbTypeOK, NEW i \in 1..Len(active), i # current,
           active' = Without(active, i),
           current' = IF current = Len(active) THEN 1 ELSE current
    PROVE  active' # <<>> /\ active'[current'] = active[current]
<1>1. /\ active \in Seq(LbPipes) /\ Len(active) \in Nat /\ active # <<>>
      /\ current \in 1..Len(active)
      /\ \A j \in 1..Len(active) : active[j] \in LbPipes
      /\ \A a, b \in 1..Len(active) : active[a] = active[b] => a = b
  BY Turn DEF IsInjective
<1>2. Len(active) = 2
  <2>1. Len(active) >= 2
    BY <1>1
  <2>2. ~(Len(active) >= 3)
    <3> SUFFICES ASSUME Len(active) >= 3 PROVE FALSE
      OBVIOUS
    <3>1. 1 \in 1..Len(active) /\ 2 \in 1..Len(active) /\ 3 \in 1..Len(active)
      BY <1>1
    <3>2. active[1] # active[2] /\ active[2] # active[3] /\ active[1] # active[3]
      BY <1>1, <3>1
    <3>3. active[1] \in LbPipes /\ active[2] \in LbPipes /\ active[3] \in LbPipes
      BY <1>1, <3>1
    <3>4. QED
      BY <3>2, <3>3 DEF AtMostTwo
  <2>3. \A n \in Nat : n >= 2 /\ ~(n >= 3) => n = 2
    OBVIOUS
  <2>4. Len(active) \in Nat
    BY <1>1
  <2>5. QED
    BY <2>1, <2>2, <2>3, <2>4
<1>3. active' = [j \in 1..1 |-> IF j = i THEN active[2] ELSE active[j]]
  BY <1>2 DEF Without
<1>4. active'[1] = IF i = 1 THEN active[2] ELSE active[1]
  BY <1>3
<1>5. (i = 1 /\ current = 2) \/ (i = 2 /\ current = 1)
  BY <1>1, <1>2
<1>6. current' = 1 /\ active'[1] = active[current]
  BY <1>2, <1>4, <1>5
<1>7. active' # <<>>
  <2>1. 1 \in DOMAIN active'
    BY <1>3
  <2>2. QED
    BY <2>1
<1>8. QED
  BY <1>6, <1>7

LEMMA PipeTerminatedKeeps ==
    ASSUME LbBounds, AtMostTwo, BInv, NEW p \in LbPipes, PipeTerminated(p)
    PROVE  BInv'
<1>1. /\ state' = [state EXCEPT ![p] = "none"]
      /\ draft' = [draft EXCEPT ![p] = <<>>]
      /\ UNCHANGED <<more, queue, sending>>
  BY DEF PipeTerminated
<1>2. /\ state' \in [LbPipes -> {"none", "open", "ending"}]
      /\ \A q \in LbPipes : q # p => state'[q] = state[q]
  BY <1>1 DEF BInv, LbTypeOK
<1>3. /\ draft' \in [LbPipes -> Seq(Frames)] /\ draft'[p] = <<>>
      /\ \A q \in LbPipes : q # p => draft'[q] = draft[q]
  BY <1>1 DEF BInv, LbTypeOK
<1>4. /\ active \in Seq(LbPipes) /\ IsInjective(active) /\ DOMAIN active = 1..Len(active)
      /\ \A j \in 1..Len(active) : active[j] \in LbPipes
      /\ active # <<>> => current \in 1..Len(active) /\ active[current] \in LbPipes
  BY Turn DEF BInv
<1>5. QueuesOK'
  BY <1>1 DEF BInv, QueuesOK
<1>6. more \in BOOLEAN /\ dropping \in BOOLEAN
  BY DEF BInv, LbTypeOK
<1>7. CASE p \in Range(active)
  <2>1. PICK i \in 1..Len(active) :
          /\ active[i] = p
          /\ dropping' = (dropping \/ (i = current /\ more))
          /\ active' = Without(active, i)
          /\ current' = IF current = Len(active) THEN 1 ELSE current
    BY <1>7 DEF PipeTerminated
  <2>2. /\ active' \in Seq(LbPipes) /\ IsInjective(active')
        /\ current' \in 1..Len(active') \/ current' = 1
        /\ active' # <<>> => active'[current'] \in LbPipes
        /\ \A j \in 1..Len(active') :
              /\ active'[j] # p
              /\ \E k \in 1..Len(active) : active'[j] = active[k]
    BY <2>1, OneLess DEF BInv
  <2>3. dropping' <=> dropping \/ (i = current /\ more)
    BY <2>1
  <2>4. LbTypeOK'
    <3>1. dropping' \in BOOLEAN
      BY <2>1
    <3>2. QED
      BY <1>1, <1>2, <1>3, <2>2, <3>1 DEF BInv, LbTypeOK
  <2>5. \A j \in 1..Len(active') : state'[active'[j]] # "none"
    <3> SUFFICES ASSUME NEW j \in 1..Len(active')
                 PROVE  state'[active'[j]] # "none"
      OBVIOUS
    <3>1. PICK k \in 1..Len(active) : active'[j] = active[k] /\ active[k] # p
      BY <2>2
    <3>2. state[active[k]] # "none"
      BY DEF BInv, TurnOK
    <3>3. QED
      BY <1>2, <1>4, <3>1, <3>2
  <2>6. CASE i = current
    <3>1. \A q \in LbPipes : draft'[q] = <<>>
      BY <1>3, <2>1, <2>6 DEF BInv, DraftsOK
    <3>2. ~dropping' => ~dropping /\ ~more /\ sending.next = 1
      BY <2>3, <2>6 DEF BInv, TurnOK
    <3>3. DraftsOK'
      <4>1. ASSUME ~dropping', active' # <<>>
            PROVE  Begun(draft'[active'[current']], sending')
        <5>1. draft'[active'[current']] = <<>>
          BY <2>2, <3>1, <4>1
        <5>2. Begun(<<>>, sending)
          BY <3>2, <4>1, NothingBegun
        <5>3. QED
          BY <1>1, <5>1, <5>2
      <4>2. QED
        BY <3>1, <4>1 DEF DraftsOK
    <3>4. TurnOK'
      BY <1>1, <2>5, <3>2 DEF TurnOK
    <3>5. QED
      BY <1>5, <2>4, <3>3, <3>4 DEF BInv
  <2>7. CASE i # current
    <3>1. active' # <<>> /\ active'[current'] = active[current] /\ active # <<>>
      BY <2>1, <2>7, TheOtherStays, <1>4 DEF BInv
    <3>2. dropping' <=> dropping
      BY <2>3, <2>7
    <3>3. active[current] # p
      BY <1>4, <2>1, <2>7, <3>1 DEF IsInjective
    <3>4. draft'[active[current]] = draft[active[current]]
      BY <1>3, <1>4, <3>1, <3>3
    <3>5. DraftsOK'
      <4>1. ASSUME NEW q \in LbPipes, draft'[q] # <<>>
            PROVE  more' /\ ~dropping' /\ q = active'[current']
        <5>1. draft[q] # <<>>
          BY <1>3, <4>1
        <5>2. QED
          BY <1>1, <3>1, <3>2, <5>1 DEF BInv, DraftsOK
      <4>2. ASSUME ~dropping'
            PROVE  Begun(draft'[active'[current']], sending')
        <5>1. Begun(draft[active[current]], sending)
          BY <3>1, <3>2, <4>2 DEF BInv, DraftsOK
        <5>2. QED
          BY <1>1, <3>1, <3>4, <5>1
      <4>3. QED
        BY <4>1, <4>2 DEF DraftsOK
    <3>6. TurnOK'
      BY <1>1, <2>5, <3>1, <3>2 DEF BInv, TurnOK
    <3>7. QED
      BY <1>5, <2>4, <3>5, <3>6 DEF BInv
  <2>8. QED
    BY <2>6, <2>7
<1>8. CASE p \notin Range(active)
  <2>1. UNCHANGED <<active, current, dropping>>
    BY <1>8 DEF PipeTerminated
  <2>2. \A j \in 1..Len(active) : active[j] # p
    BY <1>4, <1>8 DEF Range
  <2>3. LbTypeOK'
    BY <1>1, <1>2, <1>3, <2>1 DEF BInv, LbTypeOK
  <2>4. DraftsOK'
    <3>1. ASSUME NEW q \in LbPipes, draft'[q] # <<>>
          PROVE  more' /\ ~dropping' /\ q = active'[current']
      <4>1. draft[q] # <<>>
        BY <1>3, <3>1
      <4>2. QED
        BY <1>1, <2>1, <4>1 DEF BInv, DraftsOK
    <3>2. ASSUME ~dropping', active' # <<>>
          PROVE  Begun(draft'[active'[current']], sending')
      <4>1. Begun(draft[active[current]], sending) /\ active # <<>>
        BY <2>1, <3>2 DEF BInv, DraftsOK
      <4>2. draft'[active[current]] = draft[active[current]]
        BY <1>3, <1>4, <2>2, <4>1
      <4>3. QED
        BY <1>1, <2>1, <4>1, <4>2
    <3>3. QED
      BY <3>1, <3>2 DEF DraftsOK
  <2>5. TurnOK'
    BY <1>1, <1>2, <1>4, <2>1, <2>2 DEF BInv, TurnOK
  <2>6. QED
    BY <1>5, <2>3, <2>4, <2>5 DEF BInv
<1>9. QED
  BY <1>7, <1>8

LEMMA NextKeeps == LbBounds /\ AtMostTwo /\ BInv /\ [LbNext]_balancerVars => BInv'
<1> SUFFICES ASSUME LbBounds, AtMostTwo, BInv, [LbNext]_balancerVars PROVE BInv'
  OBVIOUS
<1>1. CASE SendDropped
  BY <1>1, SendDroppedKeeps
<1>2. CASE SendPipe
  BY <1>2, WriteKeeps
<1>3. CASE PassOver
  BY <1>3, PassOverKeeps
<1>4. CASE Break
  BY <1>4, BreakKeeps
<1>5. CASE Refuse
  BY <1>5, RefuseKeeps
<1>6. ASSUME NEW p \in LbPipes,
             Attach(p) \/ Activated(p) \/ PeerGone(p) \/ PipeTerminated(p) \/ Drain(p)
      PROVE  BInv'
  BY <1>6, AttachKeeps, ActivatedKeeps, PeerGoneKeeps, PipeTerminatedKeeps, DrainKeeps
<1>7. CASE UNCHANGED balancerVars
  <2>1. UNCHANGED <<active, current, more, dropping, state, queue, draft, sending>>
    BY <1>7 DEF balancerVars, turnVars
  <2>2. QED
    BY <2>1 DEF BInv, LbTypeOK, QueuesOK, DraftsOK, TurnOK
<1>8. QED
  BY <1>1, <1>2, <1>3, <1>4, <1>5, <1>6, <1>7 DEF LbNext

-----------------------------------------------------------------------------
(* With up to two connections: what is flushed to a connection is whole    *)
(* messages; frames not flushed are all of one message, are in the pipe in *)
(* turn, and are just the frames of it that have been sent (lb_t::_more,   *)
(* _dropping and _current agree with the pipes).                           *)
THEOREM BalancerInvariant == LbBounds /\ AtMostTwo => (LbSpec => []BInv)
<1> SUFFICES ASSUME LbBounds, AtMostTwo PROVE LbSpec => []BInv
  OBVIOUS
<1>1. LbInit => BInv
  BY InitInvariant
<1>2. BInv /\ [LbNext]_balancerVars => BInv'
  BY NextKeeps
<1>3. QED
  BY <1>1, <1>2, PTL DEF LbSpec

LEMMA InvariantIsWhole == BInv => FramesInTurn
<1> SUFFICES ASSUME BInv, NEW p \in LbPipes
             PROVE  LET s == queue[p] \o draft[p] IN
                    /\ s # <<>> => s[1].part = 1
                    /\ \A i \in 1..Len(s) - 1 : Follows(s[i], s[i + 1])
  BY DEF FramesInTurn
<1> DEFINE d == draft[p]
<1>1. queue[p] \in Seq(Frames) /\ d \in Seq(Frames) /\ Whole(queue[p])
  BY DEF BInv, LbTypeOK, QueuesOK
<1>2. CASE d = <<>>
  <2>1. \A i \in 1..Len(d) - 1 : Follows(d[i], d[i + 1])
    BY <1>2
  <2>2. d # <<>> => d[1].part = 1
    BY <1>2
  <2>3. QED
    BY <1>1, <2>1, <2>2, WholeThen
<1>3. CASE d # <<>>
  <2>1. Begun(d, sending)
    BY <1>3 DEF BInv, DraftsOK, TurnOK
  <2>2. Len(d) \in Nat \ {0}
    BY <1>1, <1>3
  <2> HIDE DEF d
  <2>3. d[1].part = 1
    <3>1. 1 \in 1..Len(d)
      BY <2>2
    <3>2. QED
      BY <2>1, <3>1 DEF Begun
  <2>4. ASSUME NEW i \in 1..Len(d) - 1
        PROVE  Follows(d[i], d[i + 1])
    <3>1. i \in 1..Len(d) /\ i + 1 \in 1..Len(d)
      BY <2>2
    <3>2. d[i].id = sending.id /\ d[i].part = i
      BY <2>1, <3>1 DEF Begun
    <3>3. d[i + 1].id = sending.id /\ d[i + 1].part = i + 1
      BY <2>1, <3>1 DEF Begun
    <3>4. d[i].more
      BY <2>1, <3>1 DEF Begun
    <3>5. QED
      BY <3>2, <3>3, <3>4 DEF Follows
  <2>5. QED
    BY <1>1, <2>3, <2>4, WholeThen DEF d
<1>4. QED
  BY <1>2, <1>3

(* With up to two connections every peer of a Push, Request or Dealer can  *)
(* read only whole messages, in the order of their frames, although the    *)
(* array of pipes changes between two frames (lb_t::sendpipe,              *)
(* lb_t::pipe_terminated).                                                 *)
THEOREM PeersReadWholeMessages == LbBounds /\ AtMostTwo => (LbSpec => []WholePerPeer)
<1> SUFFICES ASSUME LbBounds, AtMostTwo PROVE LbSpec => []WholePerPeer
  OBVIOUS
<1>1. LbSpec => []BInv
  BY BalancerInvariant
<1>2. BInv => WholePerPeer
  BY InvariantIsWhole DEF BInv, WholePerPeer
<1>3. QED
  BY <1>1, <1>2, PTL

-----------------------------------------------------------------------------
(* The contents of messages.                                               *)

ContentSizes == IsFiniteSet(OutPipes) /\ Cap \in Nat /\ NoContent \notin Contents

Copied == [content : Contents, shared : BOOLEAN] \cup {NoMessage}

Places == 0..Cap

(* What is at a place of a pipe, the hands of its thread being at 0. *)
At(p, i) == IF i = 0 THEN taken[p]
            ELSE IF i <= Len(piped[p]) THEN piped[p][i] ELSE NoMessage

Having(c) == {p \in OutPipes : \E i \in Places : At(p, i).content = c}

(* The references there should be. *)
Refs(c) == Cardinality(Having(c)) + Owed(c)

(* All who have the content agree whether it is shared. *)
Flag(m) == IF m.shared THEN 1 ELSE 0

Flagged(c, b) ==
    /\ message.content = c => Flag(message) = b
    /\ \A p \in OutPipes : \A i \in Places : At(p, i).content = c => Flag(At(p, i)) = b

(* The types; a thread frees what it had before it takes the next. *)
ContentTypes ==
    /\ alive \subseteq Contents /\ refcnt \in [Contents -> Int]
    /\ message \in Copied /\ taken \in [OutPipes -> Copied]
    /\ todo \subseteq OutPipes /\ failed \in Nat /\ distributing \in BOOLEAN
    /\ Cardinality(todo) + failed <= Cardinality(OutPipes)
    /\ piped \in [OutPipes -> Seq(Copied)]
    /\ \A p \in OutPipes : Len(piped[p]) <= Cap /\ \A i \in 1..Len(piped[p]) : piped[p][i] # NoMessage
    /\ freeing \in [OutPipes -> Contents \cup {NoContent}]
    /\ \A p \in OutPipes : taken[p] = NoMessage \/ freeing[p] = NoContent

(* A pipe has a content once. *)
OncePerPipe ==
    \A p \in OutPipes : \A i, j \in Places :
        At(p, i).content # NoContent /\ At(p, i).content = At(p, j).content => i = j

(* A message that is not on its way is the publisher's alone; one that is, *)
(* is not where it has still to go.                                        *)
OnItsWay ==
    IF distributing THEN message # NoMessage /\ todo \cap Having(message.content) = {}
    ELSE /\ todo = {}
         /\ message # NoMessage => ~message.shared /\ Having(message.content) = {}

(* A content is there while somebody has it or will free it, and counts    *)
(* those who have it if it is shared.                                      *)
CountOK(c) ==
    /\ \A p, q \in Freers(c) : p = q
    /\ Freers(c) # {} => Refs(c) = 0
    /\ c \in alive <=> Refs(c) > 0 \/ Freers(c) # {}
    /\ Refs(c) > 0 => \/ Flagged(c, 1) /\ refcnt[c] = Refs(c)
                      \/ Flagged(c, 0) /\ Refs(c) = 1

ContentInv ==
    /\ ContentTypes /\ OncePerPipe /\ OnItsWay
    /\ \A c \in Contents : CountOK(c)

-----------------------------------------------------------------------------
(* Sets of pipes are finite. *)
LEMMA PipeSets ==
    ASSUME ContentSizes, NEW S \in SUBSET OutPipes
    PROVE  /\ IsFiniteSet(S) /\ Cardinality(S) \in Nat /\ (Cardinality(S) = 0 <=> S = {})
           /\ Cardinality(S) <= Cardinality(OutPipes) /\ Cardinality(OutPipes) \in Nat
           /\ \A p \in OutPipes \ S : Cardinality(S \cup {p}) = Cardinality(S) + 1
           /\ \A p \in S : Cardinality(S \ {p}) = Cardinality(S) - 1
<1>1. IsFiniteSet(OutPipes) /\ IsFiniteSet(S)
  BY FS_Subset DEF ContentSizes
<1>2. Cardinality(S) \in Nat /\ (Cardinality(S) = 0 <=> S = {}) /\ Cardinality(OutPipes) \in Nat
  BY <1>1, FS_CardinalityType, FS_EmptySet
<1>3. Cardinality(S) <= Cardinality(OutPipes)
  BY <1>1, FS_Subset
<1>4. \A p \in OutPipes \ S : Cardinality(S \cup {p}) = Cardinality(S) + 1
  BY <1>1, FS_AddElement
<1>5. \A p \in S : Cardinality(S \ {p}) = Cardinality(S) - 1
  BY <1>1, FS_RemoveElement
<1>6. QED
  BY <1>1, <1>2, <1>3, <1>4, <1>5

(* What a message is. *)
LEMMA CopiedFacts ==
    ASSUME ContentSizes
    PROVE  /\ NoMessage \in Copied /\ NoMessage.content = NoContent
           /\ \A m \in Copied : IF m = NoMessage THEN m.content = NoContent
                                ELSE m.content \in Contents /\ m.content # NoContent
<1>1. NoMessage \in Copied /\ NoMessage.content = NoContent
  BY DEF Copied, NoMessage
<1>2. ASSUME NEW m \in Copied, m # NoMessage
      PROVE  m.content \in Contents /\ m.content # NoContent
  <2>1. m \in [content : Contents, shared : BOOLEAN]
    BY <1>2 DEF Copied
  <2>2. QED
    BY <2>1 DEF ContentSizes
<1>3. QED
  BY <1>1, <1>2

LEMMA FlagFacts ==
    /\ \A m \in Copied : m.shared \in BOOLEAN
    /\ \A m : IF m.shared THEN Flag(m) = 1 ELSE Flag(m) = 0
<1>1. ASSUME NEW m \in Copied PROVE m.shared \in BOOLEAN
  <2>1. CASE m \in [content : Contents, shared : BOOLEAN]
    BY <2>1
  <2>2. CASE m = NoMessage
    BY <2>2 DEF NoMessage
  <2>3. QED
    BY <2>1, <2>2 DEF Copied
<1>2. \A m : IF m.shared THEN Flag(m) = 1 ELSE Flag(m) = 0
  BY DEF Flag
<1>3. QED
  BY <1>1, <1>2

(* What the types say of a place. *)
LEMMA AtFacts ==
    ASSUME ContentSizes, ContentTypes
    PROVE  /\ \A p \in OutPipes : \A i \in Places : At(p, i) \in Copied
           /\ \A p \in OutPipes : At(p, 0) = taken[p]
           /\ \A p \in OutPipes : \A i \in 1..Len(piped[p]) :
                 /\ i \in Places /\ i # 0 /\ At(p, i) = piped[p][i] /\ At(p, i) # NoMessage
           /\ \A c \in Contents : Having(c) \in SUBSET OutPipes /\ c # NoContent
<1>2. ASSUME NEW p \in OutPipes, NEW i \in Places PROVE At(p, i) \in Copied
  <2>1. taken[p] \in Copied /\ piped[p] \in Seq(Copied) /\ i \in Nat
    BY DEF ContentTypes, Places, ContentSizes
  <2>2. CASE i = 0
    BY <2>1, <2>2 DEF At
  <2>3. CASE i # 0 /\ i <= Len(piped[p])
    <3>1. piped[p][i] \in Copied
      BY <2>1, <2>3
    <3>2. QED
      BY <2>3, <3>1 DEF At
  <2>4. CASE i # 0 /\ ~(i <= Len(piped[p]))
    BY CopiedFacts, <2>4 DEF At
  <2>5. QED
    BY <2>2, <2>3, <2>4
<1>3. ASSUME NEW p \in OutPipes, NEW i \in 1..Len(piped[p])
      PROVE  i \in Places /\ i # 0 /\ At(p, i) = piped[p][i] /\ At(p, i) # NoMessage
  <2>1. Len(piped[p]) <= Cap /\ Len(piped[p]) \in Nat /\ piped[p][i] # NoMessage
    BY DEF ContentTypes
  <2>2. QED
    BY <2>1 DEF At, Places, ContentSizes
<1>4. QED
  BY <1>2, <1>3 DEF At, Having, ContentSizes

(* The references are counted by numbers. *)
LEMMA RefsAre ==
    ASSUME ContentSizes, ContentTypes, NEW c \in Contents
    PROVE  /\ Cardinality(Having(c)) \in Nat /\ Owed(c) \in Nat /\ Refs(c) \in Nat
           /\ Refs(c) = Cardinality(Having(c)) + Owed(c)
           /\ Having(c) = {} <=> Cardinality(Having(c)) = 0
           /\ \A p \in Having(c) : Cardinality(Having(c) \ {p}) = Cardinality(Having(c)) - 1
           /\ \A p \in OutPipes \ Having(c) : Cardinality(Having(c) \cup {p}) = Cardinality(Having(c)) + 1
<1>1. Having(c) \in SUBSET OutPipes /\ todo \in SUBSET OutPipes
  BY AtFacts DEF ContentTypes
<1>2. Cardinality(todo) \in Nat
  BY <1>1, PipeSets
<1>3. Owed(c) \in Nat
  BY <1>2 DEF Owed, ContentTypes
<1>4. QED
  BY <1>1, <1>3, PipeSets DEF Refs

(* A step that leaves the counts of a content alone. *)
LEMMA Unchanged ==
    ASSUME NEW c, CountOK(c), Having(c)' = Having(c), Owed(c)' = Owed(c), refcnt'[c] = refcnt[c],
           c \in alive' <=> c \in alive, Freers(c)' = Freers(c),
           \A b \in {0, 1} : Flagged(c, b) => Flagged(c, b)'
    PROVE  CountOK(c)'
<1>1. Refs(c)' = Refs(c)
  BY DEF Refs
<1>2. QED
  BY <1>1 DEF CountOK

(* The places of pipes that are not touched. *)
LEMMA SamePlaces ==
    ASSUME piped' = piped, taken' = taken
    PROVE  /\ \A p, i : At(p, i)' = At(p, i)
           /\ \A c : Having(c)' = Having(c)
           /\ OncePerPipe => OncePerPipe'
           /\ \A c, b : message' = message => Flagged(c, b)' = Flagged(c, b)
<1>1. \A p, i : At(p, i)' = At(p, i)
  BY DEF At
<1>2. QED
  BY <1>1 DEF Having, OncePerPipe, Flagged

-----------------------------------------------------------------------------
(* The publisher.                                                          *)

LEMMA ContentInitInvariant ==
    ASSUME ContentSizes, ContentInit
    PROVE  ContentInv
<1>1. ContentTypes
  <2>1. NoMessage \in Copied /\ Cardinality({}) = 0 /\ Cardinality(OutPipes) \in Nat
    BY PipeSets, FS_EmptySet DEF Copied
  <2>2. alive \subseteq Contents /\ refcnt \in [Contents -> Int]
    BY DEF ContentInit
  <2>3. message \in Copied /\ taken \in [OutPipes -> Copied] /\ freeing \in [OutPipes -> Contents \cup {NoContent}]
    BY <2>1 DEF ContentInit
  <2>4. Cardinality(todo) + failed <= Cardinality(OutPipes) /\ failed \in Nat /\ todo \subseteq OutPipes
    BY <2>1 DEF ContentInit
  <2>5. ASSUME NEW p \in OutPipes PROVE piped[p] = <<>>
    BY DEF ContentInit
  <2>6. piped \in [OutPipes -> Seq(Copied)]
    BY DEF ContentInit
  <2>7. Len(<<>>) <= Cap /\ 1..Len(<<>>) = {}
    BY DEF ContentSizes
  <2>8. QED
    BY <2>2, <2>3, <2>4, <2>5, <2>6, <2>7 DEF ContentTypes, ContentInit
<1>2. \A p \in OutPipes : \A i \in Places : At(p, i) = NoMessage
  BY DEF At, ContentInit, Places, ContentSizes
<1>3. NoMessage.content = NoContent
  BY DEF NoMessage
<1>4. \A c \in Contents : Having(c) = {}
  BY <1>2, <1>3 DEF Having, ContentSizes
<1>5. OncePerPipe
  BY <1>2, <1>3 DEF OncePerPipe
<1>6. OnItsWay
  BY DEF OnItsWay, ContentInit
<1>7. ASSUME NEW c \in Contents PROVE CountOK(c)
  <2>1. Owed(c) = 0
    BY <1>3 DEF Owed, ContentInit, ContentSizes
  <2>2. Refs(c) = 0
    BY <1>1, <1>4, <2>1, RefsAre
  <2>3. Freers(c) = {} /\ c \notin alive
    BY DEF Freers, ContentInit, ContentSizes
  <2>4. QED
    BY <2>2, <2>3 DEF CountOK
<1>8. QED
  BY <1>1, <1>5, <1>6, <1>7 DEF ContentInv

LEMMA ConstructKeeps ==
    ASSUME ContentSizes, ContentInv, Construct
    PROVE  ContentInv'
<1>0. ContentTypes /\ OncePerPipe /\ OnItsWay /\ \A c \in Contents : CountOK(c)
  BY DEF ContentInv
<1>1. PICK c \in Contents \ alive : /\ alive' = alive \cup {c}
                                   /\ message' = [content |-> c, shared |-> FALSE]
  BY DEF Construct
<1>2. /\ message = NoMessage /\ piped' = piped /\ taken' = taken
      /\ UNCHANGED <<refcnt, todo, failed, distributing, freeing>>
  BY DEF Construct
<1>3. ContentTypes'
  BY <1>0, <1>1, <1>2 DEF ContentTypes, Copied
<1>4. /\ ~distributing /\ todo = {}
  BY <1>0, <1>2 DEF OnItsWay
<1>5. Refs(c) = 0 /\ Freers(c) = {} /\ Having(c) = {} /\ Owed(c) = 0
  <2>1. Refs(c) = 0 /\ Freers(c) = {}
    BY <1>0, <1>1, RefsAre DEF CountOK
  <2>2. QED
    BY <1>0, <1>1, <2>1, RefsAre
<1>6. OncePerPipe' /\ Having(c)' = {}
  BY <1>0, <1>2, <1>5, SamePlaces
<1>7. OnItsWay'
  BY <1>1, <1>2, <1>4, <1>6 DEF OnItsWay
<1>8. ASSUME NEW d \in Contents PROVE CountOK(d)'
  <2>1. CASE d = c
    <3>1. Refs(c)' = 1
      <4>1. Owed(c)' = 1
        BY <1>1, <1>2, <1>4 DEF Owed
      <4>2. Cardinality(Having(c)') = 0
        BY <1>6, FS_EmptySet
      <4>3. QED
        BY <4>1, <4>2 DEF Refs
    <3>2. Flagged(c, 0)'
      <4>1. \A p \in OutPipes : \A i \in Places : At(p, i)'.content # c
        BY <1>6 DEF Having
      <4>2. QED
        BY <1>1, <4>1 DEF Flagged, Flag
    <3>3. Freers(c)' = {}
      BY <1>2, <1>5 DEF Freers
    <3>4. QED
      BY <1>1, <2>1, <3>1, <3>2, <3>3 DEF CountOK
  <2>2. CASE d # c
    <3>1. Owed(d)' = Owed(d)
      BY <1>1, <1>2, <2>2 DEF Owed, NoMessage, ContentSizes
    <3>2. \A b \in {0, 1} : Flagged(d, b) => Flagged(d, b)'
      BY <1>1, <1>2, <2>2, SamePlaces DEF Flagged, Flag
    <3>3. Having(d)' = Having(d)
      BY <1>2, SamePlaces
    <3>4. Freers(d)' = Freers(d)
      BY <1>2 DEF Freers
    <3>5. QED
      BY <1>0, <1>1, <1>2, <2>2, <3>1, <3>2, <3>3, <3>4, Unchanged
  <2>3. QED
    BY <2>1, <2>2
<1>9. QED
  BY <1>3, <1>6, <1>7, <1>8 DEF ContentInv

(* The contents that a step of the publisher with another one leaves alone. *)
LEMMA OtherContents ==
    ASSUME ContentSizes, ContentTypes, NEW d \in Contents, CountOK(d),
           message.content # d, message'.content # d, refcnt'[d] = refcnt[d],
           d \in alive' <=> d \in alive, piped' = piped, taken' = taken, freeing' = freeing
    PROVE  CountOK(d)'
<1>1. Owed(d) = 0 /\ Owed(d)' = 0
  BY DEF Owed
<1>2. \A b \in {0, 1} : Flagged(d, b) => Flagged(d, b)'
  BY SamePlaces DEF Flagged, Flag
<1>3. Having(d)' = Having(d)
  BY SamePlaces
<1>4. Freers(d)' = Freers(d)
  BY DEF Freers
<1>5. QED
  BY <1>1, <1>2, <1>3, <1>4, Unchanged

LEMMA DistributeKeeps ==
    ASSUME ContentSizes, ContentInv, Distribute
    PROVE  ContentInv'
<1>0. ContentTypes /\ OncePerPipe /\ OnItsWay /\ \A c \in Contents : CountOK(c)
  BY DEF ContentInv
<1>1. /\ ~distributing /\ message # NoMessage /\ failed' = 0
      /\ piped' = piped /\ taken' = taken /\ freeing' = freeing
  BY DEF Distribute
<1>m. PICK c : c = message.content
  OBVIOUS
<1> USE <1>m
<1>2. /\ c \in Contents /\ message \in Copied /\ ~message.shared /\ Having(c) = {} /\ todo = {}
  <2>1. message \in Copied
    BY <1>0 DEF ContentTypes
  <2>2. QED
    BY <1>0, <1>1, <2>1, CopiedFacts DEF OnItsWay
<1>3. /\ Cardinality(Having(c)) = 0 /\ Owed(c) = 1 /\ Refs(c) = 1 /\ c \in alive /\ Freers(c) = {}
  <2>1. Owed(c) = 1 /\ Cardinality(Having(c)) = 0
    BY <1>0, <1>1, <1>2, RefsAre DEF Owed
  <2>2. Refs(c) = 1
    BY <1>0, <1>2, <2>1, RefsAre
  <2>3. QED
    BY <1>0, <1>2, <2>1, <2>2 DEF CountOK
<1>4. OncePerPipe' /\ Having(c)' = {}
  BY <1>0, <1>1, <1>2, SamePlaces
<1>5. Freers(c)' = {}
  BY <1>1, <1>3 DEF Freers
<1>6. NoMessage \in Copied /\ c # NoContent /\ NoMessage.content = NoContent
  BY <1>2, CopiedFacts DEF ContentSizes
<1>7. CASE alive' = alive \ {c} /\ message' = NoMessage /\ UNCHANGED <<refcnt, todo, distributing>>
  <2>1. ContentTypes'
    <3>1. Cardinality(todo) + 0 <= Cardinality(OutPipes)
      BY <1>2, PipeSets
    <3>2. QED
      BY <1>0, <1>1, <1>6, <1>7, <3>1 DEF ContentTypes
  <2>2. OnItsWay'
    BY <1>1, <1>2, <1>7 DEF OnItsWay
  <2>3. ASSUME NEW d \in Contents PROVE CountOK(d)'
    <3>1. CASE d = c
      <4>1. Owed(c)' = 0
        BY <1>6, <1>7 DEF Owed
      <4>2. Cardinality(Having(c)') = 0
        BY <1>4, FS_EmptySet
      <4>3. Refs(c)' = 0
        BY <4>1, <4>2 DEF Refs
      <4>4. c \notin alive'
        BY <1>7
      <4>5. QED
        BY <1>5, <3>1, <4>3, <4>4 DEF CountOK
    <3>2. CASE d # c
      <4>1. message'.content # d /\ CountOK(d)
        BY <1>0, <1>6, <1>7 DEF ContentSizes
      <4>2. QED
        BY <1>0, <1>1, <1>7, <3>2, <4>1, OtherContents
    <3>3. QED
      BY <3>1, <3>2
  <2>4. QED
    BY <1>4, <2>1, <2>2, <2>3 DEF ContentInv
<1>8. ASSUME NEW matching \in SUBSET OutPipes, matching # {}, AddRefs(Cardinality(matching) - 1),
             todo' = matching, distributing' = TRUE, alive' = alive
      PROVE  ContentInv'
  <2> DEFINE n == Cardinality(matching)
  <2>1. n \in Nat \ {0} /\ n <= Cardinality(OutPipes) /\ Cardinality(OutPipes) \in Nat
    BY <1>8, PipeSets
  <2>2. \/ n = 1 /\ UNCHANGED <<refcnt, message>>
        \/ /\ n # 1 /\ refcnt' = [refcnt EXCEPT ![c] = n]
           /\ message' = [message EXCEPT !.shared = TRUE]
    BY <1>8, <2>1 DEF AddRefs
  <2> HIDE DEF n
  <2>3. message'.content = c /\ message' \in Copied /\ message' # NoMessage
    BY <1>2, <1>6, <2>2 DEF Copied, NoMessage
  <2>4. /\ refcnt' \in [Contents -> Int] /\ \A d \in Contents : d # c => refcnt'[d] = refcnt[d]
    BY <1>0, <1>2, <2>1, <2>2 DEF ContentTypes
  <2>5. ContentTypes'
    <3>1. Cardinality(todo') + failed' <= Cardinality(OutPipes) /\ failed' \in Nat
      BY <1>1, <1>8, <2>1 DEF n
    <3>2. QED
      BY <1>0, <1>1, <1>8, <2>3, <2>4, <3>1 DEF ContentTypes
  <2>6. OnItsWay'
    BY <1>4, <1>8, <2>3 DEF OnItsWay
  <2>7. Refs(c)' = n
    <3>1. Owed(c)' = n
      BY <1>1, <1>8, <2>1, <2>3 DEF Owed, n
    <3>2. Cardinality(Having(c)') = 0
      BY <1>4, FS_EmptySet
    <3>3. QED
      BY <2>1, <3>1, <3>2 DEF Refs
  <2>8. CountOK(c)'
    <3>1. CASE n = 1 /\ UNCHANGED <<refcnt, message>>
      <4>1. Flagged(c, 0)'
        <5>1. \A p \in OutPipes : \A i \in Places : At(p, i)'.content # c
          BY <1>4 DEF Having
        <5>2. message'.shared = FALSE
          BY <1>2, <3>1 DEF Copied, NoMessage
        <5>3. QED
          BY <5>1, <5>2 DEF Flagged, Flag
      <4>2. QED
        BY <1>3, <1>5, <1>8, <2>7, <3>1, <4>1 DEF CountOK
    <3>2. CASE n # 1 /\ refcnt' = [refcnt EXCEPT ![c] = n] /\ message' = [message EXCEPT !.shared = TRUE]
      <4>1. Flagged(c, 1)'
        <5>1. \A p \in OutPipes : \A i \in Places : At(p, i)'.content # c
          BY <1>4 DEF Having
        <5>2. message'.shared = TRUE
          BY <1>2, <3>2 DEF Copied, NoMessage
        <5>3. QED
          BY <5>1, <5>2 DEF Flagged, Flag
      <4>2. refcnt'[c] = n
        BY <1>0, <1>2, <3>2 DEF ContentTypes
      <4>3. QED
        BY <1>3, <1>5, <1>8, <2>1, <2>7, <4>1, <4>2 DEF CountOK
    <3>3. QED
      BY <2>2, <3>1, <3>2
  <2>10. ASSUME NEW d \in Contents PROVE CountOK(d)'
    <3>1. CASE d = c
      BY <2>8, <3>1
    <3>2. CASE d # c
      BY <1>0, <1>1, <1>8, <2>3, <2>4, <3>2, OtherContents
    <3>3. QED
      BY <3>1, <3>2
  <2>11. QED
    BY <1>4, <2>5, <2>6, <2>10 DEF ContentInv
<1>9. QED
  BY <1>7, <1>8 DEF Distribute

(* A pipe takes a copy, or is full. *)
LEMMA WriteCopyKeeps ==
    ASSUME ContentSizes, ContentInv, NEW p \in OutPipes, WriteCopy(p)
    PROVE  ContentInv'
<1>0. ContentTypes /\ OncePerPipe /\ OnItsWay /\ \A c \in Contents : CountOK(c)
  BY DEF ContentInv
<1>1. /\ p \in todo /\ todo' = todo \ {p}
      /\ UNCHANGED <<alive, refcnt, message, distributing, taken, freeing>>
  BY DEF WriteCopy
<1>m. PICK c : c = message.content
  OBVIOUS
<1> USE <1>m
<1>2. /\ distributing /\ message # NoMessage /\ message \in Copied /\ p \notin Having(c)
      /\ todo \cap Having(c) = {}
  BY <1>0, <1>1 DEF OnItsWay, ContentTypes
<1>3. c \in Contents /\ c # NoContent
  BY <1>2, CopiedFacts DEF ContentSizes
<1>4. /\ Cardinality(todo') = Cardinality(todo) - 1 /\ Cardinality(todo) \in Nat
      /\ todo' \subseteq OutPipes /\ Cardinality(OutPipes) \in Nat
  BY <1>0, <1>1, PipeSets DEF ContentTypes
<1>5. failed \in Nat /\ Cardinality(todo) + failed <= Cardinality(OutPipes)
  BY <1>0 DEF ContentTypes
<1>6. Owed(c) = Cardinality(todo) + failed /\ Owed(c)' = Cardinality(todo)' + failed'
  BY <1>1, <1>2 DEF Owed
<1>7. \A d : Freers(d)' = Freers(d)
  BY <1>1 DEF Freers
<1>8. CASE failed' = failed + 1 /\ piped' = piped
  <2>1. ContentTypes'
    <3>1. Cardinality(todo)' + failed' <= Cardinality(OutPipes) /\ failed' \in Nat
      BY <1>4, <1>5, <1>8
    <3>2. QED
      BY <1>0, <1>1, <1>4, <1>8, <3>1 DEF ContentTypes
  <2>2. OncePerPipe' /\ \A d : Having(d)' = Having(d)
    BY <1>0, <1>1, <1>8, SamePlaces
  <2>3. OnItsWay'
    BY <1>1, <1>2, <2>2 DEF OnItsWay
  <2>4. ASSUME NEW d \in Contents PROVE CountOK(d)'
    <3>1. Owed(d)' = Owed(d)
      <4>1. CASE d = c
        BY <1>4, <1>5, <1>6, <1>8, <4>1
      <4>2. CASE d # c
        BY <1>1, <4>2 DEF Owed
      <4>3. QED
        BY <4>1, <4>2
    <3>2. \A b \in {0, 1} : Flagged(d, b) => Flagged(d, b)'
      BY <1>1, <1>8, SamePlaces
    <3>3. CountOK(d)
      BY <1>0
    <3>4. QED
      BY <1>1, <1>7, <2>2, <3>1, <3>2, <3>3, Unchanged
  <2>5. QED
    BY <2>1, <2>2, <2>3, <2>4 DEF ContentInv
<1>9. CASE Len(piped[p]) < Cap /\ piped' = [piped EXCEPT ![p] = Append(@, message)] /\ failed' = failed
  <2>n. PICK n : n = Len(piped[p])
    OBVIOUS
  <2> USE <2>n
  <2>1. /\ n \in Nat /\ n + 1 <= Cap /\ Cap \in Nat
        /\ piped'[p] \in Seq(Copied) /\ Len(piped'[p]) = n + 1 /\ piped'[p][n + 1] = message
        /\ \A i \in 1..n : piped'[p][i] = piped[p][i]
        /\ \A q \in OutPipes : q # p => piped'[q] = piped[q]
    BY <1>0, <1>2, <1>9 DEF ContentTypes, ContentSizes
  <2>2. ContentTypes'
    <3>1. \A i \in 1..n : piped[p][i] # NoMessage
      BY <1>0 DEF ContentTypes
    <3>2. \A i \in 1..Len(piped'[p]) : piped'[p][i] # NoMessage
      BY <1>2, <2>1, <3>1
    <3>3. piped' \in [OutPipes -> Seq(Copied)]
      BY <1>0, <1>9, <2>1 DEF ContentTypes
    <3>4. Cardinality(todo)' + failed' <= Cardinality(OutPipes) /\ failed' \in Nat
      BY <1>4, <1>5, <1>9
    <3>5. QED
      BY <1>0, <1>1, <1>4, <2>1, <3>2, <3>3, <3>4 DEF ContentTypes
  <2>3. n + 1 \in Places /\ n + 1 # 0
    BY <2>1 DEF Places
  <2>4. /\ At(p, n + 1)' = message
        /\ \A i \in Places : i # n + 1 => At(p, i)' = At(p, i)
        /\ \A q \in OutPipes, i \in Places : q # p => At(q, i)' = At(q, i)
    <3>1. At(p, n + 1)' = message
      BY <2>1, <2>3 DEF At
    <3>2. ASSUME NEW i \in Places, i # n + 1 PROVE At(p, i)' = At(p, i)
      <4>1. i \in Nat
        BY DEF Places, ContentSizes
      <4>2. CASE i = 0
        BY <1>1, <4>2 DEF At
      <4>3. CASE i # 0 /\ i <= n
        BY <2>1, <4>1, <4>3 DEF At
      <4>4. CASE i # 0 /\ ~(i <= n)
        BY <2>1, <3>2, <4>1, <4>4 DEF At
      <4>5. QED
        BY <4>2, <4>3, <4>4
    <3>3. ASSUME NEW q \in OutPipes, NEW i \in Places, q # p PROVE At(q, i)' = At(q, i)
      BY <1>1, <2>1, <3>3 DEF At
    <3>4. QED
      BY <3>1, <3>2, <3>3
  <2>5. At(p, n + 1) = NoMessage
    BY <2>1, <2>3 DEF At
  <2>6. NoMessage.content = NoContent
    BY DEF NoMessage
  <2>7. OncePerPipe'
    <3>1. \A i \in Places : At(p, i).content # c
      BY <1>2 DEF Having
    <3>2. ASSUME NEW q \in OutPipes, NEW i \in Places, NEW j \in Places, At(q, i)'.content # NoContent,
                 At(q, i)'.content = At(q, j)'.content
          PROVE  i = j
      <4>1. CASE q # p
        BY <1>0, <2>4, <3>2, <4>1 DEF OncePerPipe
      <4>2. CASE q = p /\ i # n + 1 /\ j # n + 1
        BY <1>0, <2>4, <3>2, <4>2 DEF OncePerPipe
      <4>3. CASE q = p /\ (i = n + 1 \/ j = n + 1)
        BY <2>4, <3>1, <3>2, <4>3
      <4>4. QED
        BY <4>1, <4>2, <4>3
    <3>3. QED
      BY <3>2 DEF OncePerPipe
  <2>8. Having(c)' = Having(c) \cup {p}
    <3>1. p \in Having(c)'
      BY <2>3, <2>4 DEF Having
    <3>2. ASSUME NEW q \in OutPipes, q # p PROVE q \in Having(c)' <=> q \in Having(c)
      BY <2>4, <3>2 DEF Having
    <3>3. Having(c)' \subseteq OutPipes /\ Having(c) \subseteq OutPipes
      BY DEF Having
    <3>4. QED
      BY <3>1, <3>2, <3>3
  <2>9. OnItsWay'
    <3>1. todo' \cap Having(c)' = {}
      BY <1>1, <1>2, <2>8
    <3>2. QED
      BY <1>1, <1>2, <3>1 DEF OnItsWay
  <2>10. ASSUME NEW d \in Contents PROVE CountOK(d)'
    <3>0. CountOK(d)
      BY <1>0
    <3>1. CASE d # c
      <4>1. Having(d)' = Having(d)
        <5>1. ASSUME NEW q \in OutPipes PROVE q \in Having(d)' <=> q \in Having(d)
          <6>1. CASE q # p
            BY <2>4, <6>1 DEF Having
          <6>2. CASE q = p
            BY <1>3, <2>3, <2>4, <2>5, <2>6, <3>1, <6>2 DEF Having, ContentSizes
          <6>3. QED
            BY <6>1, <6>2
        <5>2. QED
          BY <5>1 DEF Having
      <4>2. Owed(d)' = Owed(d)
        BY <1>1, <3>1 DEF Owed
      <4>3. \A b \in {0, 1} : Flagged(d, b) => Flagged(d, b)'
        <5>1. ASSUME NEW b \in {0, 1}, Flagged(d, b), NEW q \in OutPipes, NEW i \in Places,
                     At(q, i)'.content = d
              PROVE  Flag(At(q, i))' = b
          BY <2>4, <3>1, <5>1 DEF Flagged, Flag
        <5>2. QED
          BY <1>1, <3>1, <5>1 DEF Flagged, Flag
      <4>4. QED
        BY <1>1, <1>7, <3>0, <4>1, <4>2, <4>3, Unchanged
    <3>2. CASE d = c
      <4>1. Cardinality(Having(c)') = Cardinality(Having(c)) + 1 /\ Cardinality(Having(c)) \in Nat
        BY <1>0, <1>2, <1>3, <2>8, RefsAre
      <4>2. Owed(c)' = Owed(c) - 1 /\ Owed(c) \in Nat
        BY <1>4, <1>5, <1>6, <1>9
      <4>3. Refs(c)' = Refs(c)
        BY <4>1, <4>2 DEF Refs
      <4>4. \A b \in {0, 1} : Flagged(c, b) => Flagged(c, b)'
        <5>1. ASSUME NEW b \in {0, 1}, Flagged(c, b), NEW q \in OutPipes, NEW i \in Places,
                     At(q, i)'.content = c
              PROVE  Flag(At(q, i))' = b
          <6>1. CASE q = p /\ i = n + 1
            BY <2>4, <5>1, <6>1 DEF Flagged, Flag
          <6>2. CASE ~(q = p /\ i = n + 1)
            BY <2>4, <5>1, <6>2 DEF Flagged, Flag
          <6>3. QED
            BY <6>1, <6>2
        <5>2. QED
          BY <1>1, <5>1 DEF Flagged, Flag
      <4>5. QED
        BY <1>1, <1>7, <3>0, <3>2, <4>3, <4>4 DEF CountOK
    <3>3. QED
      BY <3>1, <3>2
  <2>11. QED
    BY <2>2, <2>7, <2>9, <2>10 DEF ContentInv
<1>10. QED
  BY <1>8, <1>9 DEF WriteCopy

(* The references of pipes that were full are taken back. *)
LEMMA DetachKeeps ==
    ASSUME ContentSizes, ContentInv, Detach
    PROVE  ContentInv'
<1>0. ContentTypes /\ OncePerPipe /\ OnItsWay /\ \A c \in Contents : CountOK(c)
  BY DEF ContentInv
<1>1. /\ distributing /\ todo = {} /\ RmRefs /\ message' = NoMessage /\ distributing' = FALSE
      /\ UNCHANGED <<todo, failed, piped, taken, freeing>>
  BY DEF Detach
<1>m. PICK c : c = message.content
  OBVIOUS
<1> USE <1>m
<1> DEFINE h == Cardinality(Having(c))
<1>2. message # NoMessage /\ message \in Copied
  BY <1>0, <1>1 DEF OnItsWay, ContentTypes
<1>3. c \in Contents /\ c # NoContent /\ NoMessage.content = NoContent /\ NoMessage \in Copied
  BY <1>2, CopiedFacts DEF ContentSizes
<1>4. message.shared \in BOOLEAN
  BY <1>2, FlagFacts
<1>5. Owed(c) = failed /\ Owed(c)' = 0 /\ failed \in Nat
  <2>1. Cardinality(todo) = 0
    BY <1>1, FS_EmptySet
  <2>2. QED
    BY <1>0, <1>1, <1>3, <2>1 DEF Owed, ContentTypes
<1>6. h \in Nat /\ Refs(c) = h + failed
  BY <1>0, <1>3, <1>5, RefsAre
<1>7. OncePerPipe' /\ \A d : Having(d)' = Having(d)
  BY <1>0, <1>1, SamePlaces
<1>8. Refs(c)' = h
  BY <1>5, <1>6, <1>7 DEF Refs
<1>9. \A d \in Contents, b \in {0, 1} : Flagged(d, b) => Flagged(d, b)'
  BY <1>1, <1>3, SamePlaces DEF Flagged, ContentSizes
<1>10. \A d : Freers(d)' = Freers(d)
  BY <1>1 DEF Freers
<1>11. OnItsWay'
  BY <1>1 DEF OnItsWay
<1> HIDE DEF h
<1>12. /\ refcnt' \in [Contents -> Int] /\ alive' \subseteq Contents
       /\ \A d \in Contents : d # c => refcnt'[d] = refcnt[d] /\ (d \in alive' <=> d \in alive)
  BY <1>0, <1>1, <1>3, <1>5 DEF RmRefs, ContentTypes
<1>13. ContentTypes'
  BY <1>0, <1>1, <1>3, <1>12 DEF ContentTypes
<1>14. CountOK(c)'
  <2>1. CountOK(c)
    BY <1>0, <1>3
  <2>2. CASE failed = 0
    <3>1. UNCHANGED <<alive, refcnt>> /\ Refs(c)' = Refs(c)
      BY <1>1, <1>6, <1>8, <2>2 DEF RmRefs
    <3>2. QED
      BY <1>3, <1>9, <1>10, <2>1, <3>1 DEF CountOK
  <2>3. CASE failed # 0 /\ ~message.shared
    <3>1. Refs(c) > 0 /\ ~Flagged(c, 1)
      BY <1>5, <1>6, <2>3 DEF Flagged, Flag
    <3>2. Refs(c) = 1 /\ Freers(c) = {}
      BY <1>6, <2>1, <3>1 DEF CountOK
    <3>3. Refs(c)' = 0
      BY <1>5, <1>6, <1>8, <2>3, <3>2
    <3>4. c \notin alive'
      BY <1>1, <2>3 DEF RmRefs
    <3>5. QED
      BY <1>10, <3>2, <3>3, <3>4 DEF CountOK
  <2>4. CASE failed # 0 /\ message.shared
    <3>1. Refs(c) > 0 /\ ~Flagged(c, 0)
      BY <1>5, <1>6, <2>4 DEF Flagged, Flag
    <3>2. Flagged(c, 1) /\ refcnt[c] = Refs(c) /\ Freers(c) = {} /\ c \in alive
      BY <1>6, <2>1, <3>1 DEF CountOK
    <3>3. refcnt'[c] = refcnt[c] - failed
      BY <1>0, <1>1, <1>3, <2>4 DEF RmRefs, ContentTypes
    <3>4. alive' = IF refcnt[c] = failed THEN alive \ {c} ELSE alive
      BY <1>1, <2>4 DEF RmRefs
    <3>5. refcnt'[c] = Refs(c)' /\ (refcnt[c] = failed <=> Refs(c)' = 0) /\ Refs(c)' \in Nat
      BY <1>5, <1>6, <1>8, <3>2, <3>3
    <3>6. c \in alive' <=> Refs(c)' > 0
      BY <3>2, <3>4, <3>5
    <3>7. Flagged(c, 1)' /\ Freers(c)' = {}
      BY <1>3, <1>9, <1>10, <3>2
    <3>8. QED
      BY <3>5, <3>6, <3>7 DEF CountOK
  <2>5. QED
    BY <1>4, <2>2, <2>3, <2>4
<1>15. ASSUME NEW d \in Contents, d # c PROVE CountOK(d)'
  <2>1. message'.content # d /\ CountOK(d) /\ message.content # d
    BY <1>0, <1>1, <1>3, <1>15 DEF ContentSizes
  <2>2. QED
    BY <1>0, <1>1, <1>12, <1>15, <2>1, OtherContents
<1>16. QED
  BY <1>7, <1>11, <1>13, <1>14, <1>15 DEF ContentInv

-----------------------------------------------------------------------------
(* The threads.                                                            *)

LEMMA TakeKeeps ==
    ASSUME ContentSizes, ContentInv, NEW p \in OutPipes, Take(p)
    PROVE  ContentInv'
<1>0. ContentTypes /\ OncePerPipe /\ OnItsWay /\ \A c \in Contents : CountOK(c)
  BY DEF ContentInv
<1>1. /\ taken[p] = NoMessage /\ piped[p] # <<>>
      /\ taken' = [taken EXCEPT ![p] = Head(piped[p])]
      /\ piped' = [piped EXCEPT ![p] = Tail(@)]
      /\ UNCHANGED <<alive, refcnt, message, todo, failed, distributing, freeing>>
  BY DEF Take
<1>n. PICK n : n = Len(piped[p])
  OBVIOUS
<1> USE <1>n
<1>2. /\ n \in Nat \ {0} /\ n <= Cap /\ Cap \in Nat /\ Head(piped[p]) = piped[p][1]
      /\ piped[p][1] \in Copied
      /\ piped'[p] \in Seq(Copied) /\ Len(piped'[p]) = n - 1
      /\ \A i \in 1..n - 1 : piped'[p][i] = piped[p][i + 1]
      /\ taken'[p] = piped[p][1]
      /\ \A q \in OutPipes : q # p => piped'[q] = piped[q] /\ taken'[q] = taken[q]
  BY <1>0, <1>1 DEF ContentTypes, ContentSizes
<1>3. ContentTypes'
  <2>1. \A i \in 1..n : piped[p][i] # NoMessage
    BY <1>0 DEF ContentTypes
  <2>2. ASSUME NEW i \in 1..Len(piped'[p]) PROVE piped'[p][i] # NoMessage
    <3>1. i \in 1..n - 1 /\ i + 1 \in 1..n
      BY <1>2
    <3>2. piped'[p][i] = piped[p][i + 1]
      BY <1>2, <3>1
    <3>3. QED
      BY <2>1, <3>1, <3>2
  <2>3. piped' \in [OutPipes -> Seq(Copied)] /\ taken' \in [OutPipes -> Copied]
    BY <1>0, <1>1, <1>2 DEF ContentTypes
  <2>4. Len(piped'[p]) <= Cap
    BY <1>2
  <2>5. \A q \in OutPipes : taken'[q] = NoMessage \/ freeing[q] = NoContent
    <3>1. freeing[p] = NoContent
      BY DEF Take
    <3>2. \A q \in OutPipes : taken[q] = NoMessage \/ freeing[q] = NoContent
      BY <1>0 DEF ContentTypes
    <3>3. QED
      BY <1>2, <3>1, <3>2
  <2>6. \A q \in OutPipes : q # p => /\ Len(piped'[q]) <= Cap
                                 /\ \A i \in 1..Len(piped'[q]) : piped'[q][i] # NoMessage
    BY <1>0, <1>2 DEF ContentTypes
  <2>7. QED
    BY <1>0, <1>1, <2>2, <2>3, <2>4, <2>5, <2>6 DEF ContentTypes
<1>4. /\ \A q \in OutPipes, i \in Places : q # p => At(q, i)' = At(q, i)
      /\ \A i \in 0..n - 1 : At(p, i)' = At(p, i + 1)
      /\ \A i \in Places : i >= n => At(p, i)' = NoMessage
      /\ \A i \in Places : i > n => At(p, i) = NoMessage
      /\ At(p, 0) = NoMessage
  <2>1. ASSUME NEW q \in OutPipes, NEW i \in Places, q # p PROVE At(q, i)' = At(q, i)
    BY <1>2, <2>1 DEF At
  <2>2. ASSUME NEW i \in 0..n - 1 PROVE At(p, i)' = At(p, i + 1)
    <3>1. CASE i = 0
      BY <1>2, <3>1 DEF At
    <3>2. CASE i # 0
      BY <1>2, <3>2 DEF At
    <3>3. QED
      BY <3>1, <3>2
  <2>3. ASSUME NEW i \in Places, i >= n PROVE At(p, i)' = NoMessage
    BY <1>2, <2>3 DEF At, Places
  <2>4. ASSUME NEW i \in Places, i > n PROVE At(p, i) = NoMessage
    BY <1>2, <2>4 DEF At, Places
  <2>5. At(p, 0) = NoMessage
    BY <1>1 DEF At
  <2>6. QED
    BY <2>1, <2>2, <2>3, <2>4, <2>5
<1>5. Places = 0..Cap /\ NoMessage.content = NoContent
  BY DEF Places, NoMessage
<1>6. OncePerPipe'
  <2>1. ASSUME NEW q \in OutPipes, NEW i \in Places, NEW j \in Places, At(q, i)'.content # NoContent,
               At(q, i)'.content = At(q, j)'.content
        PROVE  i = j
    <3>1. CASE q # p
      BY <1>0, <1>4, <2>1, <3>1 DEF OncePerPipe
    <3>2. CASE q = p
      <4>1. i < n /\ j < n /\ i \in Nat /\ j \in Nat
        BY <1>2, <1>4, <1>5, <2>1, <3>2
      <4>2. i + 1 \in Places /\ j + 1 \in Places /\ i \in 0..n - 1 /\ j \in 0..n - 1
        BY <1>2, <1>5, <4>1
      <4>3. At(p, i + 1).content # NoContent /\ At(p, i + 1).content = At(p, j + 1).content
        BY <1>4, <2>1, <3>2, <4>2
      <4>4. i + 1 = j + 1
        BY <1>0, <4>2, <4>3 DEF OncePerPipe
      <4>5. QED
        BY <4>1, <4>4
    <3>3. QED
      BY <3>1, <3>2
  <2>2. QED
    BY <2>1 DEF OncePerPipe
<1>7. ASSUME NEW c \in Contents
      PROVE  Having(c)' = Having(c) /\ \A b \in {0, 1} : Flagged(c, b) => Flagged(c, b)'
  <2>0. c # NoContent
    BY DEF ContentSizes
  <2>1. ASSUME NEW i \in Places, At(p, i)'.content = c
        PROVE  i + 1 \in Places /\ At(p, i)' = At(p, i + 1)
    <3>1. i < n /\ i \in Nat
      BY <1>2, <1>4, <1>5, <2>0, <2>1
    <3>2. i \in 0..n - 1 /\ i + 1 \in Places
      BY <1>2, <1>5, <3>1
    <3>3. QED
      BY <1>4, <3>2
  <2>2. ASSUME NEW i \in Places, At(p, i).content = c
        PROVE  i - 1 \in Places /\ At(p, i - 1)' = At(p, i)
    <3>1. i \in 1..n
      BY <1>2, <1>4, <1>5, <2>0, <2>2
    <3>2. i - 1 \in 0..n - 1 /\ i - 1 \in Places /\ (i - 1) + 1 = i
      BY <1>2, <1>5, <3>1
    <3>3. QED
      BY <1>4, <3>2
  <2>3. ASSUME NEW q \in OutPipes PROVE q \in Having(c)' <=> q \in Having(c)
    <3>1. CASE q # p
      BY <1>4, <3>1 DEF Having
    <3>2. CASE q = p
      BY <2>1, <2>2, <3>2 DEF Having
    <3>3. QED
      BY <3>1, <3>2
  <2>4. ASSUME NEW b \in {0, 1}, Flagged(c, b), NEW q \in OutPipes, NEW i \in Places,
               At(q, i)'.content = c
        PROVE  Flag(At(q, i))' = b
    <3>1. CASE q # p
      BY <1>4, <2>4, <3>1 DEF Flagged, Flag
    <3>2. CASE q = p
      BY <2>1, <2>4, <3>2 DEF Flagged, Flag
    <3>3. QED
      BY <3>1, <3>2
  <2>5. Having(c)' = Having(c)
    BY <2>3 DEF Having
  <2>6. QED
    BY <1>1, <2>4, <2>5 DEF Flagged, Flag
<1>8. OnItsWay'
  <2>1. message # NoMessage => message.content \in Contents
    BY <1>0, CopiedFacts DEF ContentTypes
  <2>2. QED
    BY <1>0, <1>1, <1>7, <2>1 DEF OnItsWay
<1>9. ASSUME NEW c \in Contents PROVE CountOK(c)'
  <2>1. Owed(c)' = Owed(c) /\ Freers(c)' = Freers(c)
    BY <1>1 DEF Owed, Freers
  <2>2. CountOK(c)
    BY <1>0
  <2>3. QED
    BY <1>1, <1>7, <2>1, <2>2, Unchanged
<1>10. QED
  BY <1>3, <1>6, <1>8, <1>9 DEF ContentInv

LEMMA ReleaseKeeps ==
    ASSUME ContentSizes, ContentInv, NEW p \in OutPipes, Release(p)
    PROVE  ContentInv'
<1>0. ContentTypes /\ OncePerPipe /\ OnItsWay /\ \A c \in Contents : CountOK(c)
  BY DEF ContentInv
<1>m. PICK c : c = taken[p].content
  OBVIOUS
<1> USE <1>m
<1>1. /\ taken[p] # NoMessage
      /\ freeing' = [freeing EXCEPT ![p] = IF ~taken[p].shared \/ refcnt[c] = 1 THEN c ELSE NoContent]
      /\ refcnt' = IF taken[p].shared THEN [refcnt EXCEPT ![c] = @ - 1] ELSE refcnt
      /\ taken' = [taken EXCEPT ![p] = NoMessage]
      /\ UNCHANGED <<alive, message, todo, failed, distributing, piped>>
  BY DEF Release
<1>2. /\ taken[p] \in Copied /\ c \in Contents /\ c # NoContent /\ taken[p].shared \in BOOLEAN
      /\ NoMessage \in Copied /\ NoMessage.content = NoContent /\ At(p, 0) = taken[p] /\ 0 \in Places
  <2>1. taken[p] \in Copied
    BY <1>0 DEF ContentTypes
  <2>2. QED
    <3>1. c \in Contents /\ c # NoContent /\ NoMessage \in Copied /\ NoMessage.content = NoContent
      BY <1>1, <2>1, CopiedFacts
    <3>2. taken[p].shared \in BOOLEAN
      BY <2>1, FlagFacts
    <3>3. At(p, 0) = taken[p] /\ 0 \in Places
      BY DEF At, Places, ContentSizes
    <3>4. QED
      BY <2>1, <3>1, <3>2, <3>3
<1>3. /\ \A q \in OutPipes, i \in Places : q # p \/ i # 0 => At(q, i)' = At(q, i)
      /\ At(p, 0)' = NoMessage
  <2>1. taken'[p] = NoMessage /\ \A q \in OutPipes : q # p => taken'[q] = taken[q]
    BY <1>0, <1>1 DEF ContentTypes
  <2>2. QED
    BY <1>1, <2>1 DEF At
<1>4. /\ refcnt' \in [Contents -> Int] /\ \A d \in Contents : d # c => refcnt'[d] = refcnt[d]
      /\ refcnt'[c] = IF taken[p].shared THEN refcnt[c] - 1 ELSE refcnt[c]
  BY <1>0, <1>1, <1>2 DEF ContentTypes
<1>5. p \in Having(c) /\ Refs(c) > 0 /\ Refs(c) \in Nat
  <2>1. p \in Having(c)
    BY <1>2 DEF Having
  <2>2. QED
    BY <1>0, <1>2, <2>1, RefsAre
<1>6. /\ Freers(c) = {} /\ c \in alive
      /\ \/ taken[p].shared /\ Flagged(c, 1) /\ refcnt[c] = Refs(c)
         \/ ~taken[p].shared /\ Refs(c) = 1
  <2>1. CountOK(c)
    BY <1>0, <1>2
  <2>2. \A b : Flagged(c, b) => Flag(taken[p]) = b
    BY <1>2 DEF Flagged
  <2>3. /\ Freers(c) = {} /\ c \in alive
        /\ \/ Flagged(c, 1) /\ refcnt[c] = Refs(c)
           \/ Flagged(c, 0) /\ Refs(c) = 1
    BY <1>5, <2>1 DEF CountOK
  <2>4. Flag(taken[p]) = IF taken[p].shared THEN 1 ELSE 0
    BY DEF Flag
  <2>5. QED
    BY <2>2, <2>3, <2>4
<1>7. /\ freeing'[p] = IF Refs(c) = 1 THEN c ELSE NoContent
      /\ freeing' \in [OutPipes -> Contents \cup {NoContent}]
      /\ \A q \in OutPipes : q # p => freeing'[q] = freeing[q]
  <2>1. (~taken[p].shared \/ refcnt[c] = 1) <=> Refs(c) = 1
    BY <1>6
  <2>2. QED
    BY <1>0, <1>1, <1>2, <2>1 DEF ContentTypes
<1>8. ContentTypes'
  <2>1. taken' \in [OutPipes -> Copied]
    BY <1>0, <1>1, <1>2 DEF ContentTypes
  <2>2. /\ alive' \subseteq Contents /\ refcnt' \in [Contents -> Int] /\ message' \in Copied
        /\ todo' \subseteq OutPipes /\ failed' \in Nat /\ distributing' \in BOOLEAN
        /\ Cardinality(todo') + failed' <= Cardinality(OutPipes)
    BY <1>0, <1>1, <1>4 DEF ContentTypes
  <2>3. /\ piped' \in [OutPipes -> Seq(Copied)]
        /\ \A q \in OutPipes : /\ Len(piped'[q]) <= Cap
                               /\ \A i \in 1..Len(piped'[q]) : piped'[q][i] # NoMessage
    BY <1>0, <1>1 DEF ContentTypes
  <2>4. \A q \in OutPipes : taken'[q] = NoMessage \/ freeing'[q] = NoContent
    <3>1. /\ \A q \in OutPipes : taken[q] = NoMessage \/ freeing[q] = NoContent
          /\ taken' = [taken EXCEPT ![p] = NoMessage] /\ taken \in [OutPipes -> Copied]
      BY <1>0, <1>1 DEF ContentTypes
    <3>2. QED
      BY <3>1, <1>7
  <2>5. QED
    BY <1>7, <2>1, <2>2, <2>3, <2>4 DEF ContentTypes
<1>9. OncePerPipe'
  <2>1. ASSUME NEW q \in OutPipes, NEW i \in Places, NEW j \in Places, At(q, i)'.content # NoContent,
               At(q, i)'.content = At(q, j)'.content
        PROVE  i = j
    <3>1. ~(q = p /\ (i = 0 \/ j = 0))
      BY <1>2, <1>3, <2>1
    <3>2. QED
      BY <1>0, <1>3, <2>1, <3>1 DEF OncePerPipe
  <2>2. QED
    BY <2>1 DEF OncePerPipe
<1>10. Having(c)' = Having(c) \ {p}
  <2>1. ASSUME NEW q \in OutPipes PROVE q \in Having(c)' <=> q \in Having(c) /\ q # p
    <3>1. CASE q # p
      BY <1>3, <3>1 DEF Having
    <3>2. CASE q = p
      <4>1. \A i \in Places : i # 0 => At(p, i).content # c
        BY <1>0, <1>2 DEF OncePerPipe
      <4>2. QED
        BY <1>2, <1>3, <3>2, <4>1 DEF Having
    <3>3. QED
      BY <3>1, <3>2
  <2>2. QED
    BY <2>1 DEF Having
<1>11. ASSUME NEW d \in Contents, d # c PROVE Having(d)' = Having(d)
  <2>1. ASSUME NEW q \in OutPipes PROVE q \in Having(d)' <=> q \in Having(d)
    <3>1. CASE q # p
      BY <1>3, <3>1 DEF Having
    <3>2. CASE q = p
      <4>1. At(p, 0).content # d /\ At(p, 0)'.content # d
        BY <1>2, <1>3, <1>11 DEF ContentSizes
      <4>2. \A i \in Places : i # 0 => At(p, i)' = At(p, i)
        BY <1>3
      <4>3. QED
        BY <3>2, <4>1, <4>2 DEF Having
    <3>3. QED
      BY <3>1, <3>2
  <2>2. QED
    BY <2>1 DEF Having
<1>12. \A d \in Contents : \A b \in {0, 1} : Flagged(d, b) => Flagged(d, b)'
  <2>1. ASSUME NEW d \in Contents, NEW b \in {0, 1}, Flagged(d, b), NEW q \in OutPipes, NEW i \in Places,
               At(q, i)'.content = d
        PROVE  Flag(At(q, i))' = b
    <3>1. ~(q = p /\ i = 0)
      BY <1>2, <1>3, <2>1 DEF ContentSizes
    <3>2. QED
      BY <1>3, <2>1, <3>1 DEF Flagged, Flag
  <2>2. QED
    BY <1>1, <2>1 DEF Flagged, Flag
<1>13. \A d : Owed(d)' = Owed(d)
  BY <1>1 DEF Owed
<1>14. OnItsWay'
  <2>1. message # NoMessage => message.content \in Contents
    BY <1>0, CopiedFacts DEF ContentTypes
  <2>2. message # NoMessage => Having(message.content)' \subseteq Having(message.content)
    BY <1>1, <1>10, <1>11, <2>1
  <2>3. CASE distributing
    BY <1>0, <1>1, <2>2, <2>3 DEF OnItsWay
  <2>4. CASE ~distributing
    BY <1>0, <1>1, <2>2, <2>4 DEF OnItsWay
  <2>5. QED
    BY <2>3, <2>4
<1>15. ASSUME NEW d \in Contents, d # c PROVE CountOK(d)'
  <2>1. Freers(d)' = Freers(d)
    <3>1. p \notin Freers(d)'
      BY <1>7, <1>15 DEF Freers, ContentSizes
    <3>2. p \notin Freers(d)
      BY <1>0, <1>1 DEF Freers, ContentTypes, ContentSizes
    <3>3. QED
      BY <1>7, <3>1, <3>2 DEF Freers
  <2>2. CountOK(d)
    BY <1>0
  <2>3. QED
    BY <1>1, <1>4, <1>11, <1>12, <1>13, <1>15, <2>1, <2>2, Unchanged
<1>16. CountOK(c)'
  <2>1. Refs(c)' = Refs(c) - 1
    <3>1. Cardinality(Having(c)') = Cardinality(Having(c)) - 1
      BY <1>0, <1>2, <1>5, <1>10, RefsAre
    <3>2. /\ Refs(c) = Cardinality(Having(c)) + Owed(c) /\ Cardinality(Having(c)) \in Nat
          /\ Owed(c) \in Nat
      BY <1>0, <1>2, RefsAre
    <3>3. Refs(c)' = Cardinality(Having(c)') + Owed(c)
      BY <1>13 DEF Refs
    <3>4. QED
      BY <3>1, <3>2, <3>3
  <2>2. CASE Refs(c) = 1
    <3>1. Freers(c)' = {p}
      BY <1>6, <1>7, <2>2 DEF Freers
    <3>2. QED
      BY <1>1, <1>6, <2>1, <2>2, <3>1 DEF CountOK
  <2>3. CASE Refs(c) # 1
    <3>1. Freers(c)' = {}
      BY <1>2, <1>6, <1>7, <2>3 DEF Freers
    <3>2. refcnt'[c] = Refs(c)' /\ Refs(c)' > 0 /\ Flagged(c, 1)'
      BY <1>2, <1>4, <1>5, <1>6, <1>12, <2>1, <2>3
    <3>3. QED
      BY <1>1, <1>6, <3>1, <3>2 DEF CountOK
  <2>4. QED
    BY <2>2, <2>3
<1>17. QED
  BY <1>8, <1>9, <1>14, <1>15, <1>16 DEF ContentInv

LEMMA FreeKeeps ==
    ASSUME ContentSizes, ContentInv, NEW p \in OutPipes, Free(p)
    PROVE  ContentInv'
<1>0. ContentTypes /\ OncePerPipe /\ OnItsWay /\ \A c \in Contents : CountOK(c)
  BY DEF ContentInv
<1>m. PICK c : c = freeing[p]
  OBVIOUS
<1> USE <1>m
<1>1. /\ c # NoContent /\ alive' = alive \ {c} /\ freeing' = [freeing EXCEPT ![p] = NoContent]
      /\ UNCHANGED <<refcnt, message, todo, failed, distributing, piped, taken>>
  BY DEF Free
<1>2. c \in Contents /\ p \in Freers(c)
  BY <1>0, <1>1 DEF ContentTypes, Freers
<1>3. /\ freeing'[p] = NoContent /\ \A q \in OutPipes : q # p => freeing'[q] = freeing[q]
      /\ freeing' \in [OutPipes -> Contents \cup {NoContent}]
  BY <1>0, <1>1 DEF ContentTypes
<1>4. ContentTypes'
  BY <1>0, <1>1, <1>3 DEF ContentTypes
<1>5. OncePerPipe' /\ \A d : Having(d)' = Having(d)
  BY <1>0, <1>1, SamePlaces
<1>6. OnItsWay'
  BY <1>0, <1>1, <1>5 DEF OnItsWay
<1>7. \A d : Owed(d)' = Owed(d)
  BY <1>1 DEF Owed
<1>8. \A d : \A b \in {0, 1} : Flagged(d, b) => Flagged(d, b)'
  BY <1>1, SamePlaces
<1>9. CountOK(c) /\ Refs(c) = 0 /\ Freers(c) = {p}
  BY <1>0, <1>2 DEF CountOK
<1>10. CountOK(c)'
  <2>1. Refs(c)' = 0
    BY <1>5, <1>7, <1>9 DEF Refs
  <2>2. Freers(c)' = {}
    <3>1. ASSUME NEW q \in OutPipes PROVE freeing'[q] # c
      BY <1>1, <1>3, <1>9 DEF Freers
    <3>2. QED
      BY <3>1 DEF Freers
  <2>3. QED
    BY <1>1, <2>1, <2>2 DEF CountOK
<1>11. ASSUME NEW d \in Contents, d # c PROVE CountOK(d)'
  <2>1. Freers(d)' = Freers(d)
    <3>1. ASSUME NEW q \in OutPipes PROVE freeing'[q] = d <=> freeing[q] = d
      BY <1>3, <1>11 DEF ContentSizes
    <3>2. QED
      BY <3>1 DEF Freers
  <2>2. CountOK(d)
    BY <1>0
  <2>3. QED
    BY <1>1, <1>5, <1>7, <1>8, <1>11, <2>1, <2>2, Unchanged
<1>12. QED
  BY <1>4, <1>5, <1>6, <1>10, <1>11 DEF ContentInv

-----------------------------------------------------------------------------
LEMMA ContentStepKeeps == ContentSizes /\ ContentInv /\ [ContentNext]_contentVars => ContentInv'
<1> SUFFICES ASSUME ContentSizes, ContentInv, [ContentNext]_contentVars PROVE ContentInv'
  OBVIOUS
<1>1. CASE UNCHANGED contentVars
  <2>1. UNCHANGED <<alive, refcnt, message, todo, failed, distributing, piped, taken, freeing>>
    BY <1>1 DEF contentVars
  <2>2. OncePerPipe' /\ \A d : Having(d)' = Having(d)
    BY <2>1, SamePlaces DEF ContentInv
  <2>3. ContentTypes' /\ OnItsWay'
    BY <2>1, <2>2 DEF ContentInv, ContentTypes, OnItsWay
  <2>4. ASSUME NEW c \in Contents PROVE CountOK(c)'
    <3>1. Owed(c)' = Owed(c) /\ Freers(c)' = Freers(c) /\ CountOK(c)
      BY <2>1 DEF Owed, Freers, ContentInv
    <3>2. \A b \in {0, 1} : Flagged(c, b) => Flagged(c, b)'
      BY <2>1, SamePlaces
    <3>3. QED
      BY <2>1, <2>2, <3>1, <3>2, Unchanged
  <2>5. QED
    BY <2>2, <2>3, <2>4 DEF ContentInv
<1>2. CASE Construct
  BY <1>2, ConstructKeeps
<1>3. CASE Distribute
  BY <1>3, DistributeKeeps
<1>4. CASE Detach
  BY <1>4, DetachKeeps
<1>5. CASE \E p \in OutPipes : WriteCopy(p)
  BY <1>5, WriteCopyKeeps
<1>6. CASE \E p \in OutPipes : Take(p)
  BY <1>6, TakeKeeps
<1>7. CASE \E p \in OutPipes : Release(p)
  BY <1>7, ReleaseKeeps
<1>8. CASE \E p \in OutPipes : Free(p)
  BY <1>8, FreeKeeps
<1>9. QED
  BY <1>1, <1>2, <1>3, <1>4, <1>5, <1>6, <1>7, <1>8 DEF ContentNext

(* The inductive invariant: a pipe has a content once, the publisher has   *)
(* to itself what is not on its way, and a content is in memory while      *)
(* somebody has it or is about to free it, and counts those who have it as *)
(* soon as it is shared.                                                   *)
THEOREM ContentInvariant == ContentSizes => (ContentSpec => []ContentInv)
<1> SUFFICES ASSUME ContentSizes PROVE ContentSpec => []ContentInv
  OBVIOUS
<1>1. ContentInit => ContentInv
  BY ContentInitInvariant
<1>2. ContentInv /\ [ContentNext]_contentVars => ContentInv'
  BY ContentStepKeeps
<1>3. QED
  BY <1>1, <1>2, PTL DEF ContentSpec

(* A pipe that has a content has it in one place. *)
LEMMA CopiesAre ==
    ASSUME ContentSizes, ContentTypes, OncePerPipe, NEW c \in Contents
    PROVE  CopiesOf(c) = Cardinality(Having(c))
<1> DEFINE S == {x \in OutPipes \X (0..Cap) : HasCopy(c, x[1], x[2])}
           f == [x \in S |-> x[1]]
<1>0. c # NoContent
  BY DEF ContentSizes
<1>1. ASSUME NEW p \in OutPipes, NEW i \in Places PROVE HasCopy(c, p, i) <=> At(p, i).content = c
  BY <1>0 DEF HasCopy, At, NoMessage
<1>2. Places = 0..Cap
  BY DEF Places
<1>3. f \in Bijection(S, Having(c))
  <2>1. ASSUME NEW x \in S PROVE f[x] \in Having(c)
    BY <1>1, <1>2 DEF Having
  <2>2. ASSUME NEW x \in S, NEW y \in S, f[x] = f[y] PROVE x = y
    <3>1. /\ x[1] = y[1] /\ x[1] \in OutPipes /\ x[2] \in Places /\ y[2] \in Places
          /\ x = <<x[1], x[2]>> /\ y = <<y[1], y[2]>>
      BY <1>2, <2>2
    <3>2. At(x[1], x[2]).content = c /\ At(x[1], y[2]).content = c
      BY <1>1, <3>1
    <3>3. x[2] = y[2]
      BY <1>0, <3>1, <3>2 DEF OncePerPipe
    <3>4. QED
      BY <3>1, <3>3
  <2>3. ASSUME NEW p \in Having(c) PROVE \E x \in S : f[x] = p
    <3>1. PICK i \in Places : p \in OutPipes /\ At(p, i).content = c
      BY DEF Having
    <3>2. <<p, i>> \in S /\ f[<<p, i>>] = p
      BY <1>1, <1>2, <3>1
    <3>3. QED
      BY <3>2
  <2>4. QED
    BY <2>1, <2>2, <2>3 DEF Bijection, Injection, Surjection, IsInjective
<1>4. IsFiniteSet(S)
  <2>1. IsFiniteSet(0..Cap)
    BY FS_Interval DEF ContentSizes
  <2>2. IsFiniteSet(OutPipes \X (0..Cap))
    BY <2>1, FS_Product DEF ContentSizes
  <2>3. QED
    BY <2>2, FS_Subset
<1>5. Cardinality(S) = Cardinality(Having(c))
  <2>1. ExistsBijection(S, Having(c))
    BY <1>3 DEF ExistsBijection
  <2>2. QED
    BY <1>4, <2>1, FS_Bijection
<1>6. QED
  BY <1>5 DEF CopiesOf

(* However pipes fill up, are refused and are read meanwhile: a content is *)
(* in memory exactly as long as somebody has a copy or is about to free    *)
(* it, which is one thread and then nobody else, and a shared one counts   *)
(* its copies (msg_t::add_refs, rm_refs, close, dist_t::distribute).       *)
THEOREM ReferencesAreRight == ContentSizes => (ContentSpec => []FreedOnceByTheLast)
<1> SUFFICES ASSUME ContentSizes PROVE ContentSpec => []FreedOnceByTheLast
  OBVIOUS
<1>1. ContentInv => ContentTypeOK
  <2> SUFFICES ASSUME ContentInv PROVE ContentTypeOK
    OBVIOUS
  <2>1. ContentTypes
    BY DEF ContentInv
  <2>2. failed \in 0..Cardinality(OutPipes)
    <3>1. Cardinality(todo) \in Nat /\ Cardinality(OutPipes) \in Nat
      BY <2>1, PipeSets DEF ContentTypes
    <3>2. QED
      BY <2>1, <3>1 DEF ContentTypes
  <2>3. QED
    BY <2>1, <2>2 DEF ContentTypes, ContentTypeOK, Copied
<1>2. ContentInv => FreedOnceByTheLast
  <2> SUFFICES ASSUME ContentInv, NEW c \in Contents
               PROVE  LET n == CopiesOf(c) + Owed(c) IN
                      /\ c \in alive <=> n + Cardinality(Freers(c)) > 0
                      /\ Freers(c) # {} => n = 0 /\ Cardinality(Freers(c)) = 1
                      /\ n > 1 => refcnt[c] = n
    BY <1>1 DEF FreedOnceByTheLast
  <2>1. ContentTypes /\ OncePerPipe /\ CountOK(c)
    BY DEF ContentInv
  <2>2. CopiesOf(c) + Owed(c) = Refs(c) /\ Refs(c) \in Nat
    BY <2>1, CopiesAre, RefsAre
  <2>3. /\ Cardinality(Freers(c)) \in Nat /\ (Cardinality(Freers(c)) = 0 <=> Freers(c) = {})
    BY PipeSets DEF Freers
  <2>4. ASSUME NEW p \in Freers(c) PROVE Cardinality(Freers(c)) = 1
    <3>1. Freers(c) = {p}
      BY <2>1 DEF CountOK
    <3>2. QED
      BY <3>1, FS_Singleton
  <2>5. c \in alive <=> Refs(c) + Cardinality(Freers(c)) > 0
    BY <2>1, <2>2, <2>3 DEF CountOK
  <2>6. Freers(c) # {} => Refs(c) = 0 /\ Cardinality(Freers(c)) = 1
    BY <2>1, <2>4 DEF CountOK
  <2>7. Refs(c) > 1 => refcnt[c] = Refs(c)
    BY <2>1, <2>2 DEF CountOK
  <2>8. QED
    BY <2>2, <2>5, <2>6, <2>7
<1>3. QED
  BY <1>2, ContentInvariant, PTL

-----------------------------------------------------------------------------
(* Values and frames.                                                      *)

AllKinds == {"int", "long", "rectangle", "string", "vector", "pixels", "literal", "count"}

CodecBounds == ArgKinds \subseteq AllKinds /\ MaxLength \in Nat /\ MaxArgs \in Nat

Argument(v) == v.kind \in ArgKinds /\ \E n \in Lengths(v.kind) : v.cells \in [1..n -> Cells]

(* What the sender and the receiver bring. *)
Given ==
    /\ Len(sent) \in Nat \ {0} /\ DOMAIN sent = 1..Len(sent)
    /\ \A i \in 1..Len(sent) : Argument(sent[i])
    /\ Len(targets) \in Nat \ {0} /\ DOMAIN targets = 1..Len(targets)

(* One frame for each argument that was sent. *)
Framed ==
    \/ frames = <<>> /\ converting = 0
    \/ /\ Len(frames) = Len(sent)
       /\ \A i \in 1..Len(sent) : frames[i] \in Encodings(sent[i])

(* The arguments up to the next have been converted, if the kinds agree to *)
(* what was sent, and the others have not been touched.                    *)
Converted ==
    \A i \in 1..Len(targets) :
        IF i < converting
        THEN i <= Len(sent) /\ (sent[i].kind = targets[i].kind => Same(targets[i], sent[i]))
        ELSE targets[i].kind \in Targets /\ targets[i] = Fresh(targets[i].kind)

Answers ==
    /\ converting \in Nat /\ answer \in {"none", "true", "false"}
    /\ answer = "none" => converting <= Len(targets) /\ converting <= Len(sent)

CodecInv == Given /\ Framed /\ Converted /\ Answers /\ AnswerIsArity

-----------------------------------------------------------------------------
(* The elements of Values. *)
LEMMA ValueFacts ==
    ASSUME NEW v \in Values
    PROVE  Argument(v)
<1>1. PICK kind \in ArgKinds : v \in ValuesOf(kind)
  BY DEF Values
<1>2. PICK n \in Lengths(kind) : \E s \in [1..n -> Cells] : v = [kind |-> kind, cells |-> s]
  BY <1>1 DEF ValuesOf
<1>3. QED
  BY <1>2 DEF Argument

(* How many cells a value has. *)
LEMMA LengthFacts ==
    ASSUME CodecBounds, NEW v, Argument(v)
    PROVE  \E n \in Nat : /\ v.cells \in [1..n -> Cells] /\ Len(v.cells) = n /\ v.cells \in Seq(Cells)
                          /\ v.kind = "int" => n = 1
                          /\ v.kind \in {"long", "rectangle"} => n = 2
                          /\ v.kind = "vector" => n % 2 = 0
                          /\ v.kind = "pixels" => n >= 1
<1>1. PICK n \in Lengths(v.kind) : v.cells \in [1..n -> Cells]
  BY DEF Argument
<1>2. /\ n \in Nat
      /\ v.kind = "int" => n = 1
      /\ v.kind \in {"long", "rectangle"} => n = 2
      /\ v.kind = "vector" => n % 2 = 0
      /\ v.kind = "pixels" => n >= 1
  <2>1. CASE v.kind = "int"
    BY <2>1 DEF Lengths, SizeOf
  <2>2. CASE v.kind \in {"long", "rectangle"}
    BY <2>2 DEF Lengths, SizeOf
  <2>3. CASE v.kind = "vector"
    <3>1. n \in {ElementSize * k : k \in 0..MaxLength}
      BY <2>3 DEF Lengths, SizeOf
    <3>2. QED
      BY <2>3, <3>1 DEF ElementSize, CodecBounds
  <2>4. CASE v.kind = "pixels"
    <3>1. n \in {HeaderSize + k : k \in 0..MaxLength}
      BY <2>4 DEF Lengths, SizeOf
    <3>2. QED
      BY <2>4, <3>1 DEF HeaderSize, CodecBounds
  <2>5. CASE v.kind \in {"string", "literal"}
    BY <2>5 DEF Lengths, SizeOf, CodecBounds
  <2>6. CASE v.kind = "count"
    BY <2>6 DEF Lengths, SizeOf, CodecBounds
  <2>7. v.kind \in AllKinds
    BY DEF Argument, CodecBounds
  <2>8. QED
    BY <2>1, <2>2, <2>3, <2>4, <2>5, <2>6, <2>7 DEF AllKinds
<1>3. Len(v.cells) = n /\ v.cells \in Seq(Cells)
  BY <1>1, <1>2
<1>4. QED
  BY <1>1, <1>2, <1>3

(* What is decoded as the kind it was encoded as is what was encoded. *)
LEMMA RoundTrip ==
    ASSUME CodecBounds, NEW v, Argument(v), v.kind \in Targets, NEW f \in Encodings(v), NEW old
    PROVE  Same(Decode(v.kind, f, old), v)
<1>1. PICK n \in Nat : /\ v.cells \in [1..n -> Cells] /\ Len(v.cells) = n /\ v.cells \in Seq(Cells)
                       /\ v.kind = "int" => n = 1
                       /\ v.kind \in {"long", "rectangle"} => n = 2
                       /\ v.kind = "vector" => n % 2 = 0
                       /\ v.kind = "pixels" => n >= 1
  BY LengthFacts
<1>2. v.kind \in {"int", "long", "rectangle", "string", "vector", "pixels"}
  BY DEF CodecBounds, AllKinds, Targets
<1>3. f = v.cells
  BY <1>2 DEF Encodings
<1>4. CASE v.kind \in {"int", "long"}
  <2>1. n = SizeOf[v.kind]
    BY <1>1, <1>4 DEF SizeOf
  <2>2. SubSeq(f, 1, n) = v.cells
    BY <1>1, <1>3
  <2>3. Decode(v.kind, f, old) = [kind |-> v.kind, cells |-> SubSeq(f, 1, n)]
    <3>1. ~(n < SizeOf[v.kind]) /\ Len(f) = n
      BY <1>1, <1>3, <2>1
    <3>2. QED
      BY <1>4, <2>1, <3>1 DEF Decode
  <2>4. QED
    BY <2>2, <2>3 DEF Same
<1>5. CASE v.kind = "rectangle"
  <2>1. n = SizeOf["rectangle"] /\ n = 2
    BY <1>1, <1>5 DEF SizeOf
  <2>2. Decode(v.kind, f, old) = [kind |-> v.kind, cells |-> [i \in 1..n |->
            IF i * PartSize <= n THEN f[i] ELSE old.cells[i]]]
    BY <1>1, <1>3, <1>5, <2>1 DEF Decode
  <2>3. [i \in 1..n |-> IF i * PartSize <= n THEN f[i] ELSE old.cells[i]] = v.cells
    BY <1>1, <1>3, <2>1 DEF PartSize
  <2>4. QED
    BY <2>2, <2>3 DEF Same
<1>6. CASE v.kind = "string"
  BY <1>3, <1>6 DEF Decode, Same
<1>7. CASE v.kind = "vector"
  BY <1>1, <1>3, <1>7 DEF Decode, Same, ElementSize
<1>8. CASE v.kind = "pixels"
  BY <1>1, <1>3, <1>8 DEF Decode, Same, HeaderSize
<1>9. QED
  BY <1>2, <1>4, <1>5, <1>6, <1>7, <1>8

(* What is decoded is of the kind asked for, or undefined. *)
LEMMA DecodedKind ==
    ASSUME CodecBounds, NEW kind \in Targets, NEW f, NEW old
    PROVE  Decode(kind, f, old).kind \in {kind, "undefined"}
<1>1. kind \in {"int", "long", "rectangle", "string", "vector", "pixels"}
  BY DEF CodecBounds, AllKinds, Targets
<1>2. QED
  BY <1>1 DEF Decode, Undefined

-----------------------------------------------------------------------------
LEMMA CodecInitInvariant == CodecBounds /\ CodecInit => CodecInv
<1> SUFFICES ASSUME CodecBounds, CodecInit PROVE CodecInv
  OBVIOUS
<1>1. PICK n \in 0..MaxArgs : sent \in [1..n -> Values] /\ sent # <<>>
  BY DEF CodecInit, BoundedSeq, SeqOf
<1>2. n \in Nat \ {0} /\ Len(sent) = n /\ DOMAIN sent = 1..n
  BY <1>1 DEF CodecBounds
<1>3. PICK kinds \in BoundedSeq(Targets, MaxArgs) :
          kinds # <<>> /\ targets = [i \in DOMAIN kinds |-> Fresh(kinds[i])]
  BY DEF CodecInit
<1>4. PICK k \in 0..MaxArgs : kinds \in [1..k -> Targets]
  BY DEF BoundedSeq, SeqOf
<1>5. k \in Nat \ {0} /\ Len(targets) = k /\ DOMAIN targets = 1..k
  BY <1>3, <1>4 DEF CodecBounds
<1>6. Given
  BY <1>1, <1>2, <1>5, ValueFacts DEF Given
<1>7. Framed
  BY DEF CodecInit, Framed
<1>8. Converted
  <2>1. ASSUME NEW i \in 1..k PROVE targets[i].kind \in Targets /\ targets[i] = Fresh(targets[i].kind)
    BY <1>3, <1>4 DEF Fresh
  <2>2. QED
    BY <1>5, <2>1 DEF CodecInit, Converted
<1>9. Answers /\ AnswerIsArity
  BY <1>2, <1>5 DEF CodecInit, Answers, AnswerIsArity
<1>10. QED
  BY <1>6, <1>7, <1>8, <1>9 DEF CodecInv

LEMMA SendKeeps == CodecBounds /\ CodecInv /\ Send => CodecInv'
<1> SUFFICES ASSUME CodecBounds, CodecInv, Send PROVE CodecInv'
  OBVIOUS
<1>1. /\ frames = <<>> /\ UNCHANGED <<sent, converting, targets, answer>>
      /\ frames' \in UNION {[DOMAIN sent -> UNION {Encodings(sent[i]) : i \in DOMAIN sent}]}
      /\ \A i \in DOMAIN sent : frames'[i] \in Encodings(sent[i])
  BY DEF Send
<1>2. DOMAIN frames' = 1..Len(sent) /\ Len(sent) \in Nat
  BY <1>1 DEF CodecInv, Given
<1>3. Len(frames') = Len(sent)
  BY <1>2
<1>4. Framed'
  BY <1>1, <1>3 DEF Framed, CodecInv, Given
<1>5. QED
  BY <1>1, <1>4 DEF CodecInv, Given, Converted, Answers, AnswerIsArity

LEMMA ReceiveKeeps == CodecBounds /\ CodecInv /\ Receive => CodecInv'
<1> SUFFICES ASSUME CodecBounds, CodecInv, Receive PROVE CodecInv'
  OBVIOUS
<1>1. /\ frames # <<>> /\ converting = 0 /\ converting' = 1
      /\ UNCHANGED <<sent, frames, targets, answer>>
  BY DEF Receive
<1>2. Given' /\ Framed'
  BY <1>1 DEF CodecInv, Given, Framed
<1>3. Converted'
  BY <1>1 DEF CodecInv, Given, Converted
<1>4. answer = "none"
  BY <1>1 DEF CodecInv, Given, Answers, AnswerIsArity
<1>5. Answers' /\ AnswerIsArity'
  BY <1>1, <1>4 DEF CodecInv, Given, Answers, AnswerIsArity
<1>6. QED
  BY <1>2, <1>3, <1>5 DEF CodecInv

LEMMA ConvertKeeps == CodecBounds /\ CodecInv /\ Convert => CodecInv'
<1> SUFFICES ASSUME CodecBounds, CodecInv, Convert PROVE CodecInv'
  OBVIOUS
<1> DEFINE d == Decode(targets[converting].kind, frames[converting], targets[converting])
<1>1. /\ converting > 0 /\ answer = "none" /\ converting' = converting + 1
      /\ targets' = [targets EXCEPT ![converting] = d]
      /\ answer' = IF converting = Len(targets) THEN "true"
                   ELSE IF converting = Len(frames) THEN "false" ELSE "none"
      /\ UNCHANGED <<sent, frames>>
  BY DEF Convert
<1>2. /\ converting \in 1..Len(targets) /\ converting \in 1..Len(sent)
      /\ Len(targets) \in Nat /\ Len(sent) \in Nat
      /\ Len(frames) = Len(sent) /\ frames[converting] \in Encodings(sent[converting])
      /\ Argument(sent[converting])
  <2>1. /\ Len(targets) \in Nat /\ Len(sent) \in Nat
        /\ \A i \in 1..Len(sent) : Argument(sent[i])
    BY DEF CodecInv, Given
  <2>2. converting \in Nat /\ converting <= Len(targets) /\ converting <= Len(sent)
    BY <1>1 DEF CodecInv, Answers
  <2>3. Len(frames) = Len(sent) /\ \A i \in 1..Len(sent) : frames[i] \in Encodings(sent[i])
    BY <1>1 DEF CodecInv, Framed
  <2>4. QED
    BY <1>1, <2>1, <2>2, <2>3
<1>3. targets[converting].kind \in Targets
  BY <1>2 DEF CodecInv, Converted
<1>4. sent[converting].kind = d.kind => Same(d, sent[converting])
  <2>1. sent[converting].kind # "undefined"
    BY <1>2 DEF Argument, CodecBounds, AllKinds
  <2>2. d.kind \in {targets[converting].kind, "undefined"}
    BY <1>3, DecodedKind
  <2>3. CASE sent[converting].kind = targets[converting].kind
    BY <1>2, <1>3, <2>3, RoundTrip
  <2>4. QED
    BY <2>1, <2>2, <2>3
<1> HIDE DEF d
<1>5. /\ DOMAIN targets' = 1..Len(targets) /\ Len(targets') = Len(targets)
      /\ targets'[converting] = d
      /\ \A i \in 1..Len(targets) : i # converting => targets'[i] = targets[i]
  <2>1. DOMAIN targets = 1..Len(targets)
    BY DEF CodecInv, Given
  <2>2. DOMAIN targets' = 1..Len(targets)
    BY <1>1, <2>1
  <2>3. Len(targets') = Len(targets)
    BY <1>2, <2>2
  <2>4. QED
    BY <1>1, <1>2, <2>1, <2>2, <2>3
<1>6. Given' /\ Framed'
  BY <1>1, <1>2, <1>5 DEF CodecInv, Given, Framed
<1>7. Converted'
  <2>1. ASSUME NEW i \in 1..Len(targets), i < converting + 1
        PROVE  i <= Len(sent) /\ (sent[i].kind = targets'[i].kind => Same(targets'[i], sent[i]))
    <3>1. CASE i = converting
      BY <1>2, <1>4, <1>5, <3>1
    <3>2. CASE i # converting
      BY <1>2, <1>5, <2>1, <3>2 DEF CodecInv, Converted
    <3>3. QED
      BY <3>1, <3>2
  <2>2. ASSUME NEW i \in 1..Len(targets), ~(i < converting + 1)
        PROVE  targets'[i].kind \in Targets /\ targets'[i] = Fresh(targets'[i].kind)
    BY <1>2, <1>5, <2>2 DEF CodecInv, Converted
  <2>3. QED
    BY <1>1, <1>5, <2>1, <2>2 DEF Converted
<1>8. Answers' /\ AnswerIsArity'
  <2>1. converting \in Nat /\ converting <= Len(targets) /\ converting <= Len(sent)
    BY <1>2
  <2>2. Len(targets') = Len(targets) /\ Len(sent') = Len(sent) /\ Len(frames) = Len(sent)
    BY <1>1, <1>2, <1>5
  <2>3. /\ converting' = converting + 1 /\ Len(targets) \in Nat /\ Len(sent) \in Nat
        /\ answer' = IF converting = Len(targets) THEN "true"
                     ELSE IF converting = Len(sent) THEN "false" ELSE "none"
    BY <1>1, <1>2, <2>2
  <2>4. CASE converting = Len(targets)
    BY <2>1, <2>2, <2>3, <2>4 DEF Answers, AnswerIsArity
  <2>5. CASE converting # Len(targets) /\ converting = Len(sent)
    BY <2>1, <2>2, <2>3, <2>5 DEF Answers, AnswerIsArity
  <2>6. CASE converting # Len(targets) /\ converting # Len(sent)
    BY <2>1, <2>2, <2>3, <2>6 DEF Answers, AnswerIsArity
  <2>7. QED
    BY <2>4, <2>5, <2>6
<1>9. QED
  BY <1>6, <1>7, <1>8 DEF CodecInv

LEMMA CodecStepKeeps == CodecBounds /\ CodecInv /\ [CodecNext]_codecVars => CodecInv'
<1> SUFFICES ASSUME CodecBounds, CodecInv, [CodecNext]_codecVars PROVE CodecInv'
  OBVIOUS
<1>1. CASE UNCHANGED codecVars
  BY <1>1 DEF codecVars, CodecInv, Given, Framed, Converted, Answers, AnswerIsArity
<1>2. QED
  BY <1>1, SendKeeps, ReceiveKeeps, ConvertKeeps DEF CodecNext

(* The inductive invariant: frames are those of the arguments sent, and    *)
(* convertTo has set the arguments before the next (addArguments,          *)
(* convertTo, the converters).                                             *)
THEOREM CodecInvariant == CodecBounds => (CodecSpec => []CodecInv)
<1> SUFFICES ASSUME CodecBounds PROVE CodecSpec => []CodecInv
  OBVIOUS
<1>1. QED
  BY CodecInitInvariant, CodecStepKeeps, PTL DEF CodecSpec

(* What is asked for as the type it was sent as is what was sent, and the  *)
(* answer says whether there was a frame for every argument, for any       *)
(* number of arguments of the kinds there are and any lengths (convertTo,  *)
(* to_zmq_message, from_zmq_message).                                      *)
THEOREM ValuesReadBack == CodecBounds => (CodecSpec => []ReadsBack)
<1> SUFFICES ASSUME CodecBounds PROVE CodecSpec => []ReadsBack
  OBVIOUS
<1>1. CodecInv => ReadsBack
  BY DEF CodecInv, Given, Converted, ReadsBack
<1>2. QED
  BY <1>1, CodecInvariant, PTL

-----------------------------------------------------------------------------
(* The memory of the queue (Yqueue). *)

YqueueSizes ==
    NoChunk \notin Chunks /\ ChunkSize \in Nat \ {0} /\ MaxElements \in Nat

(* The types; what the threads have in their hands is there only between   *)
(* their steps, and a chunk is fetched when the last one is full.          *)
ListTypes ==
    /\ allocated \subseteq Chunks /\ begin \in Chunks /\ back \in Chunks /\ end \in Chunks
    /\ spare \in Chunks \cup {NoChunk} /\ fetched \in Chunks \cup {NoChunk}
    /\ left \in Chunks \cup {NoChunk}
    /\ next \in [Chunks -> Chunks \cup {NoChunk}] /\ prev \in [Chunks -> Chunks \cup {NoChunk}]
    /\ value \in [Chunks -> [0..ChunkSize - 1 -> Int]]
    /\ beginPos \in 0..ChunkSize - 1 /\ backPos \in 0..ChunkSize - 1 /\ endPos \in 0..ChunkSize

ThreadsOK ==
    /\ writing \in {"idle", "fetching", "linking"} /\ (writing = "idle" <=> endPos < ChunkSize)
    /\ writing # "linking" => fetched = NoChunk
    /\ reading \in {"idle", "offering", "freeing"} /\ (reading = "idle" => left = NoChunk)

InTurn ==
    /\ written \in Nat /\ flushed \in Nat /\ popped \in Nat
    /\ popped <= flushed /\ flushed <= written /\ written <= MaxElements

(* The list, linked both ways. *)
Linked(n, chunk) ==
    /\ n \in Nat /\ chunk \in [0..n -> Chunks]
    /\ chunk[0] = begin /\ chunk[n] = end
    /\ \A k \in 0..n - 1 : next[chunk[k]] = chunk[k + 1] /\ prev[chunk[k + 1]] = chunk[k]
    /\ \A j, k \in 0..n : chunk[j] = chunk[k] => j = k

(* Where the elements are, and where the writer is. *)
Placed(n, chunk) ==
    \A k \in 0..n : \A i \in 0..ChunkSize - 1 :
        Element(k, i) \in popped..written - 1 => value[chunk[k]][i] = Element(k, i)

BackAt(k, chunk) == back = chunk[k] /\ Element(k, backPos) = written

Owned(n, chunk) ==
    /\ \A k \in Chunks : k \in allocated <=> (\E j \in 0..n : chunk[j] = k) \/ k \in {spare, fetched, left}
    /\ \A j \in 0..n : chunk[j] \notin {spare, fetched, left}
    /\ spare # NoChunk => spare # fetched /\ spare # left
    /\ fetched # NoChunk => fetched # left

ListInv(n, chunk) ==
    /\ Linked(n, chunk) /\ Placed(n, chunk) /\ Owned(n, chunk)
    /\ Element(n, endPos) = written + 1
    /\ \E k \in 0..n : BackAt(k, chunk)

YqueueInv ==
    /\ ListTypes /\ ThreadsOK /\ InTurn
    /\ \E n \in Nat : \E chunk \in [0..n -> Chunks] : ListInv(n, chunk)

-----------------------------------------------------------------------------
(* Positions in chunks. *)
LEMMA Chunkwise ==
    ASSUME YqueueSizes, NEW j \in Int, NEW k \in Int
    PROVE  /\ k * ChunkSize \in Int /\ (k + 1) * ChunkSize = k * ChunkSize + ChunkSize
           /\ (k - 1) * ChunkSize = k * ChunkSize - ChunkSize
           /\ 0 * ChunkSize = 0
           /\ j < k => j * ChunkSize + ChunkSize <= k * ChunkSize
<1> DEFINE S == ChunkSize
<1>1. S \in Nat /\ S > 0
  BY DEF YqueueSizes
<1> HIDE DEF S
<1>2. k * S \in Int /\ (k + 1) * S = k * S + S /\ (k - 1) * S = k * S - S /\ 0 * S = 0
  BY <1>1
<1>3. ASSUME j < k PROVE j * S + S <= k * S
  <2> DEFINE d == k - j - 1
  <2>1. d \in Nat /\ k = d + (j + 1)
    BY <1>3
  <2> HIDE DEF d
  <2>2. d * S \in Nat
    BY <1>1, <2>1
  <2>3. k * S = d * S + (j * S + S)
    BY <1>1, <2>1
  <2>4. j * S \in Int
    BY <1>1
  <2>5. QED
    BY <1>1, <2>2, <2>3, <2>4
<1>4. QED
  BY <1>2, <1>3 DEF S

LEMMA OnePlace ==
    ASSUME YqueueSizes, NEW j \in Int, NEW k \in Int,
           NEW h \in 0..ChunkSize - 1, NEW i \in 0..ChunkSize - 1
    PROVE  Element(j, h) = Element(k, i) /\ popped \in Int /\ beginPos \in Int => j = k /\ h = i
<1> DEFINE x == j * ChunkSize
           y == k * ChunkSize
<1>1. /\ x \in Int /\ y \in Int /\ (j < k => x + ChunkSize <= y) /\ (k < j => y + ChunkSize <= x)
      /\ (j = k => x = y)
  BY Chunkwise
<1>2. ChunkSize \in Nat
  BY DEF YqueueSizes
<1>3. SUFFICES ASSUME popped - beginPos + (x + h) = popped - beginPos + (y + i),
                      popped \in Int, beginPos \in Int
               PROVE  j = k /\ h = i
  BY DEF Element
<1> HIDE DEF x, y
<1>4. QED
  BY <1>1, <1>2, <1>3

(* The parts of the invariant. *)
LEMMA ListFacts ==
    ASSUME YqueueSizes, YqueueInv
    PROVE  /\ ListTypes /\ ThreadsOK /\ InTurn
           /\ ChunkSize \in Nat \ {0} /\ popped \in Int /\ beginPos \in Int
           /\ \A k, i \in Int : Element(k, i) \in Int
<1>1. ListTypes /\ ThreadsOK /\ InTurn
  BY DEF YqueueInv
<1>2. ChunkSize \in Nat \ {0} /\ popped \in Int
  BY <1>1 DEF YqueueSizes, InTurn
<1>3. beginPos \in Int
  BY <1>1 DEF ListTypes
<1>4. ASSUME NEW k \in Int, NEW i \in Int PROVE Element(k, i) \in Int
  <2>1. k * ChunkSize \in Int
    BY Chunkwise
  <2>2. QED
    BY <1>2, <1>3, <2>1 DEF Element
<1>5. QED
  BY <1>1, <1>2, <1>3, <1>4

-----------------------------------------------------------------------------
LEMMA YqueueInitInvariant == YqueueSizes /\ YqueueInit => YqueueInv
<1> SUFFICES ASSUME YqueueSizes, YqueueInit PROVE YqueueInv
  OBVIOUS
<1>1. PICK k \in Chunks :
        /\ allocated = {k}
        /\ next = [j \in Chunks |-> NoChunk] /\ prev = next
        /\ value = [j \in Chunks |-> [i \in 0..ChunkSize - 1 |-> -1]]
        /\ begin = k /\ back = k /\ end = k
        /\ beginPos = 0 /\ backPos = 0 /\ endPos = 1
        /\ spare = NoChunk /\ fetched = NoChunk /\ left = NoChunk
        /\ writing = IF ChunkSize = 1 THEN "fetching" ELSE "idle"
        /\ reading = "idle"
        /\ written = 0 /\ flushed = 0 /\ popped = 0
  BY DEF YqueueInit
<1>2. ListTypes /\ ThreadsOK /\ InTurn
  BY <1>1 DEF YqueueSizes, ListTypes, ThreadsOK, InTurn
<1> DEFINE chunk == [j \in 0..0 |-> k]
<1>3. chunk \in [0..0 -> Chunks] /\ chunk[0] = k
  OBVIOUS
<1> HIDE DEF chunk
<1>4. Linked(0, chunk)
  BY <1>1, <1>3 DEF Linked
<1>5. \A i \in Int : Element(0, i) = i
  BY <1>1, Chunkwise DEF Element
<1>6. Placed(0, chunk)
  BY <1>1 DEF Placed
<1>7. Owned(0, chunk)
  BY <1>1, <1>3 DEF Owned, YqueueSizes
<1>8. Element(0, endPos) = written + 1 /\ BackAt(0, chunk)
  BY <1>1, <1>3, <1>5 DEF BackAt
<1>9. ListInv(0, chunk)
  BY <1>4, <1>6, <1>7, <1>8 DEF ListInv
<1>10. QED
  BY <1>2, <1>3, <1>9 DEF YqueueInv

LEMMA PushKeeps == YqueueSizes /\ YqueueInv /\ Push => YqueueInv'
<1> SUFFICES ASSUME YqueueSizes, YqueueInv, Push PROVE YqueueInv'
  OBVIOUS
<1>1. /\ writing = "idle" /\ written < MaxElements
      /\ value' = [value EXCEPT ![back][backPos] = written]
      /\ back' = end /\ backPos' = endPos /\ endPos' = endPos + 1
      /\ writing' = IF endPos + 1 = ChunkSize THEN "fetching" ELSE "idle"
      /\ written' = written + 1
      /\ UNCHANGED <<allocated, next, prev, end, fetched, begin, beginPos, reading, left, popped, spare, flushed>>
  BY DEF Push, takeVars
<1>2. /\ ListTypes /\ ThreadsOK /\ InTurn
      /\ ChunkSize \in Nat \ {0} /\ popped \in Int /\ beginPos \in Int
      /\ \A k, i \in Int : Element(k, i) \in Int
  BY ListFacts
<1>3. PICK n \in Nat : \E chunk \in [0..n -> Chunks] : ListInv(n, chunk)
  BY DEF YqueueInv
<1>4. PICK chunk \in [0..n -> Chunks] : ListInv(n, chunk)
  BY <1>3
<1>5. PICK b \in 0..n : BackAt(b, chunk)
  BY <1>4 DEF ListInv
<1>6. endPos < ChunkSize /\ fetched = NoChunk /\ endPos \in Nat
  BY <1>1, <1>2 DEF ThreadsOK, ListTypes
<1>7. /\ \A k \in Chunks : \A i \in 0..ChunkSize - 1 :
            value'[k][i] = IF k = back /\ i = backPos THEN written ELSE value[k][i]
      /\ value' \in [Chunks -> [0..ChunkSize - 1 -> Int]]
  <2> DEFINE row == [value[back] EXCEPT ![backPos] = written]
  <2>1. /\ value \in [Chunks -> [0..ChunkSize - 1 -> Int]] /\ back \in Chunks
        /\ backPos \in 0..ChunkSize - 1 /\ written \in Int
    BY <1>2 DEF ListTypes, InTurn
  <2>2. /\ row \in [0..ChunkSize - 1 -> Int]
        /\ \A i \in 0..ChunkSize - 1 : row[i] = IF i = backPos THEN written ELSE value[back][i]
    BY <2>1
  <2>3. value' = [value EXCEPT ![back] = row]
    BY <1>1
  <2> HIDE DEF row
  <2>4. value' \in [Chunks -> [0..ChunkSize - 1 -> Int]]
    BY <2>1, <2>2, <2>3
  <2>5. \A k \in Chunks : value'[k] = IF k = back THEN row ELSE value[k]
    BY <2>1, <2>3
  <2>6. QED
    BY <2>2, <2>4, <2>5
<1>8. \A k, i : Element(k, i)' = Element(k, i)
  BY <1>1 DEF Element
<1>9. ListTypes' /\ ThreadsOK' /\ InTurn'
  <2>1. ListTypes'
    <3>1. backPos' \in 0..ChunkSize - 1 /\ endPos' \in 0..ChunkSize
      BY <1>1, <1>2, <1>6
    <3>2. value' \in [Chunks -> [0..ChunkSize - 1 -> Int]]
      BY <1>7
    <3>3. QED
      BY <1>1, <1>2, <3>1, <3>2 DEF ListTypes
  <2>2. ThreadsOK'
    BY <1>1, <1>2, <1>6 DEF ThreadsOK
  <2>3. InTurn'
    BY <1>1, <1>2 DEF InTurn, YqueueSizes
  <2>4. QED
    BY <2>1, <2>2, <2>3
<1>10. Linked(n, chunk)' /\ Owned(n, chunk)'
  BY <1>1, <1>4 DEF ListInv, Linked, Owned
<1>11. Placed(n, chunk)'
  <2>1. ASSUME NEW k \in 0..n, NEW i \in 0..ChunkSize - 1, Element(k, i) \in popped..written
        PROVE  value'[chunk[k]][i] = Element(k, i)
    <3>1. chunk[k] \in Chunks
      OBVIOUS
    <3>2. CASE Element(k, i) = written
      <4>1. Element(b, backPos) = Element(k, i) /\ back = chunk[b] /\ backPos \in 0..ChunkSize - 1
        BY <1>2, <1>5, <3>2 DEF BackAt, ListTypes
      <4>2. b = k /\ backPos = i
        BY <1>2, <4>1, OnePlace
      <4>3. QED
        BY <1>7, <3>1, <3>2, <4>1, <4>2
    <3>3. CASE Element(k, i) # written
      <4>1. Element(k, i) \in popped..written - 1
        BY <1>2, <2>1, <3>3 DEF InTurn
      <4>2. value[chunk[k]][i] = Element(k, i)
        BY <1>4, <4>1 DEF ListInv, Placed
      <4>3. chunk[k] = back => b = k
        BY <1>4, <1>5 DEF ListInv, Linked, BackAt
      <4>4. ~(chunk[k] = back /\ i = backPos)
        BY <1>5, <3>3, <4>3 DEF BackAt
      <4>5. QED
        BY <1>7, <3>1, <4>2, <4>4
    <3>4. QED
      BY <3>2, <3>3
  <2>2. written' - 1 = written /\ popped' = popped
    BY <1>1, <1>2 DEF InTurn
  <2>3. QED
    BY <1>8, <2>1, <2>2 DEF Placed
<1>12. Element(n, endPos)' = written' + 1 /\ BackAt(n, chunk)'
  <2>1. Element(n, endPos) = written + 1 /\ chunk[n] = end
    BY <1>4 DEF ListInv, Linked
  <2>2. Element(n, endPos + 1) = Element(n, endPos) + 1
    BY <1>2, <1>6, Chunkwise DEF Element
  <2>3. written + 1 \in Nat
    BY <1>2 DEF InTurn
  <2>4. Element(n, endPos)' = Element(n, endPos + 1) /\ Element(n, backPos)' = Element(n, endPos)
    BY <1>1 DEF Element
  <2>5. QED
    BY <1>1, <2>1, <2>2, <2>3, <2>4 DEF BackAt
<1>13. ListInv(n, chunk)'
  BY <1>10, <1>11, <1>12 DEF ListInv
<1>14. QED
  BY <1>9, <1>13 DEF YqueueInv

LEMMA FetchSpareKeeps == YqueueSizes /\ YqueueInv /\ FetchSpare => YqueueInv'
<1> SUFFICES ASSUME YqueueSizes, YqueueInv, FetchSpare PROVE YqueueInv'
  OBVIOUS
<1>1. /\ writing = "fetching" /\ fetched' = spare /\ spare' = NoChunk /\ writing' = "linking"
      /\ UNCHANGED <<allocated, next, prev, value, back, backPos, end, endPos, written, begin, beginPos,
                     reading, left, popped, flushed>>
  BY DEF FetchSpare, takeVars, listVars
<1>2. ListTypes /\ ThreadsOK /\ InTurn
  BY ListFacts
<1>3. PICK n \in Nat : \E chunk \in [0..n -> Chunks] : ListInv(n, chunk)
  BY DEF YqueueInv
<1>4. PICK chunk \in [0..n -> Chunks] : ListInv(n, chunk)
  BY <1>3
<1>5. ListTypes' /\ ThreadsOK' /\ InTurn'
  BY <1>1, <1>2 DEF ListTypes, ThreadsOK, InTurn
<1>6. fetched = NoChunk
  BY <1>1, <1>2 DEF ThreadsOK
<1>7. \A k, i : Element(k, i)' = Element(k, i)
  BY <1>1 DEF Element
<1>8. Linked(n, chunk)' /\ Placed(n, chunk)'
  BY <1>1, <1>4, <1>7 DEF ListInv, Linked, Placed
<1>9. Owned(n, chunk)'
  BY <1>1, <1>4, <1>6 DEF ListInv, Owned, YqueueSizes
<1>10. Element(n, endPos)' = written' + 1 /\ \E k \in 0..n : BackAt(k, chunk)'
  BY <1>1, <1>4 DEF ListInv, BackAt, Element
<1>11. ListInv(n, chunk)'
  BY <1>8, <1>9, <1>10 DEF ListInv
<1>12. QED
  BY <1>5, <1>11 DEF YqueueInv

LEMMA FlushItemsKeeps == YqueueSizes /\ YqueueInv /\ FlushItems => YqueueInv'
<1> SUFFICES ASSUME YqueueSizes, YqueueInv, FlushItems PROVE YqueueInv'
  OBVIOUS
<1>1. /\ flushed' \in flushed + 1..written
      /\ UNCHANGED <<allocated, next, prev, value, back, backPos, end, endPos, writing, fetched, written,
                     begin, beginPos, reading, left, popped, spare>>
  BY DEF FlushItems, takeVars, listVars, appendVars
<1>2. ListTypes /\ ThreadsOK /\ InTurn
  BY ListFacts
<1>3. PICK n \in Nat : \E chunk \in [0..n -> Chunks] : ListInv(n, chunk)
  BY DEF YqueueInv
<1>4. PICK chunk \in [0..n -> Chunks] : ListInv(n, chunk)
  BY <1>3
<1>5. ListTypes' /\ ThreadsOK' /\ InTurn'
  BY <1>1, <1>2 DEF ListTypes, ThreadsOK, InTurn
<1>6. ListInv(n, chunk)'
  BY <1>1, <1>4 DEF ListInv, Linked, Placed, Owned, BackAt, Element
<1>7. QED
  BY <1>5, <1>6 DEF YqueueInv

LEMMA OfferSpareKeeps == YqueueSizes /\ YqueueInv /\ OfferSpare => YqueueInv'
<1> SUFFICES ASSUME YqueueSizes, YqueueInv, OfferSpare PROVE YqueueInv'
  OBVIOUS
<1>1. /\ reading = "offering" /\ spare' = left /\ left' = spare /\ reading' = "freeing"
      /\ UNCHANGED <<allocated, next, prev, value, back, backPos, end, endPos, writing, fetched, written,
                     begin, beginPos, popped, flushed>>
  BY DEF OfferSpare, listVars, appendVars
<1>2. ListTypes /\ ThreadsOK /\ InTurn
  BY ListFacts
<1>3. PICK n \in Nat : \E chunk \in [0..n -> Chunks] : ListInv(n, chunk)
  BY DEF YqueueInv
<1>4. PICK chunk \in [0..n -> Chunks] : ListInv(n, chunk)
  BY <1>3
<1>5. ListTypes' /\ ThreadsOK' /\ InTurn'
  BY <1>1, <1>2 DEF ListTypes, ThreadsOK, InTurn
<1>6. Linked(n, chunk)' /\ Placed(n, chunk)' /\ Element(n, endPos)' = written' + 1
      /\ \E k \in 0..n : BackAt(k, chunk)'
  BY <1>1, <1>4 DEF ListInv, Linked, Placed, BackAt, Element
<1>7. Owned(n, chunk)'
  BY <1>1, <1>4 DEF ListInv, Owned
<1>8. ListInv(n, chunk)'
  BY <1>6, <1>7 DEF ListInv
<1>9. QED
  BY <1>5, <1>8 DEF YqueueInv

(* Nothing in the list knows a chunk that is not in it. *)
LEMMA FreeChunkFacts ==
    ASSUME YqueueSizes, YqueueInv, NEW k \in Chunks, FreeChunk(k)
    PROVE  /\ allocated' = allocated \ {k}
           /\ \A j \in Chunks : j # k /\ next[j] # k => next'[j] = next[j]
           /\ \A j \in Chunks : j # k => prev'[j] = prev[j] /\ value'[j] = value[j]
           /\ next' \in [Chunks -> Chunks \cup {NoChunk}] /\ prev' \in [Chunks -> Chunks \cup {NoChunk}]
           /\ value' \in [Chunks -> [0..ChunkSize - 1 -> Int]]
<1>1. /\ next \in [Chunks -> Chunks \cup {NoChunk}] /\ prev \in [Chunks -> Chunks \cup {NoChunk}]
      /\ value \in [Chunks -> [0..ChunkSize - 1 -> Int]]
  BY DEF YqueueInv, ListTypes
<1>2. /\ allocated' = allocated \ {k}
      /\ next' = [j \in Chunks |-> IF k \in {j, next[j]} THEN NoChunk ELSE next[j]]
      /\ prev' = [prev EXCEPT ![k] = NoChunk]
      /\ value' = [value EXCEPT ![k] = [i \in 0..ChunkSize - 1 |-> -1]]
  BY DEF FreeChunk
<1>3. /\ \A j \in Chunks : j # k /\ next[j] # k => next'[j] = next[j]
      /\ next' \in [Chunks -> Chunks \cup {NoChunk}]
  BY <1>1, <1>2
<1>4. /\ \A j \in Chunks : j # k => prev'[j] = prev[j]
      /\ prev' \in [Chunks -> Chunks \cup {NoChunk}]
  BY <1>1, <1>2
<1>5. /\ \A j \in Chunks : j # k => value'[j] = value[j]
      /\ value' \in [Chunks -> [0..ChunkSize - 1 -> Int]]
  <2>1. [i \in 0..ChunkSize - 1 |-> -1] \in [0..ChunkSize - 1 -> Int]
    OBVIOUS
  <2>2. QED
    BY <1>1, <1>2, <2>1
<1>6. QED
  BY <1>2, <1>3, <1>4, <1>5

LEMMA FreeSpareKeeps == YqueueSizes /\ YqueueInv /\ FreeSpare => YqueueInv'
<1> SUFFICES ASSUME YqueueSizes, YqueueInv, FreeSpare PROVE YqueueInv'
  OBVIOUS
<1>1. /\ reading = "freeing" /\ left' = NoChunk /\ reading' = "idle"
      /\ IF left = NoChunk THEN UNCHANGED <<allocated, next, prev, value>> ELSE FreeChunk(left)
      /\ UNCHANGED <<back, backPos, end, endPos, writing, fetched, written,
                     begin, beginPos, popped, spare, flushed>>
  BY DEF FreeSpare, listVars, appendVars
<1>2. ListTypes /\ ThreadsOK /\ InTurn
  BY ListFacts
<1>3. PICK n \in Nat : \E chunk \in [0..n -> Chunks] : ListInv(n, chunk)
  BY DEF YqueueInv
<1>4. PICK chunk \in [0..n -> Chunks] : ListInv(n, chunk)
  BY <1>3
<1>5. Linked(n, chunk) /\ Placed(n, chunk) /\ Owned(n, chunk)
  BY <1>4 DEF ListInv
<1>6. /\ allocated' = allocated \ {left}
      /\ \A j \in Chunks : j # left /\ next[j] # left => next'[j] = next[j]
      /\ \A j \in Chunks : j # left => prev'[j] = prev[j] /\ value'[j] = value[j]
      /\ next' \in [Chunks -> Chunks \cup {NoChunk}] /\ prev' \in [Chunks -> Chunks \cup {NoChunk}]
      /\ value' \in [Chunks -> [0..ChunkSize - 1 -> Int]]
  <2>1. CASE left = NoChunk
    BY <1>1, <1>2, <2>1 DEF ListTypes, YqueueSizes
  <2>2. CASE left # NoChunk
    <3>1. left \in Chunks /\ FreeChunk(left)
      BY <1>1, <1>2, <2>2 DEF ListTypes
    <3>2. QED
      BY <3>1, FreeChunkFacts
  <2>3. QED
    BY <2>1, <2>2
<1>7. ListTypes' /\ ThreadsOK' /\ InTurn'
  <2>1. ListTypes'
    BY <1>1, <1>2, <1>6 DEF ListTypes
  <2>2. QED
    BY <1>1, <1>2, <2>1 DEF ThreadsOK, InTurn
<1>8. \A j \in 0..n : chunk[j] \in Chunks /\ chunk[j] # left
  BY <1>5 DEF Owned
<1>9. Linked(n, chunk)'
  <2>1. ASSUME NEW k \in 0..n - 1
        PROVE  next'[chunk[k]] = chunk[k + 1] /\ prev'[chunk[k + 1]] = chunk[k]
    <3>1. k \in 0..n /\ k + 1 \in 0..n
      OBVIOUS
    <3>2. next[chunk[k]] = chunk[k + 1] /\ prev[chunk[k + 1]] = chunk[k]
      BY <1>5 DEF Linked
    <3>3. QED
      BY <1>6, <1>8, <3>1, <3>2
  <2>2. QED
    BY <1>1, <1>5, <2>1 DEF Linked
<1>10. Placed(n, chunk)'
  BY <1>1, <1>5, <1>6, <1>8 DEF Placed, Element
<1>11. Owned(n, chunk)'
  BY <1>1, <1>5, <1>6, <1>8 DEF Owned, YqueueSizes
<1>12. Element(n, endPos)' = written' + 1 /\ \E k \in 0..n : BackAt(k, chunk)'
  BY <1>1, <1>4 DEF ListInv, BackAt, Element
<1>13. ListInv(n, chunk)'
  BY <1>9, <1>10, <1>11, <1>12 DEF ListInv
<1>14. QED
  BY <1>7, <1>13 DEF YqueueInv

LEMMA LinkChunkKeeps == YqueueSizes /\ YqueueInv /\ LinkChunk => YqueueInv'
<1> SUFFICES ASSUME YqueueSizes, YqueueInv, LinkChunk PROVE YqueueInv'
  OBVIOUS
<1>1. PICK new \in IF fetched # NoChunk THEN {fetched} ELSE Chunks \ allocated :
        /\ allocated' = allocated \cup {new}
        /\ next' = [next EXCEPT ![end] = new]
        /\ prev' = [prev EXCEPT ![new] = end]
        /\ end' = new
  BY DEF LinkChunk
<1>2. /\ writing = "linking" /\ endPos' = 0 /\ fetched' = NoChunk /\ writing' = "idle"
      /\ UNCHANGED <<value, back, backPos, written, begin, beginPos, reading, left, popped, spare, flushed>>
  BY DEF LinkChunk, takeVars
<1>3. /\ ListTypes /\ ThreadsOK /\ InTurn
      /\ ChunkSize \in Nat \ {0} /\ popped \in Int /\ beginPos \in Int
      /\ \A k, i \in Int : Element(k, i) \in Int
  BY ListFacts
<1>4. PICK n \in Nat : \E chunk \in [0..n -> Chunks] : ListInv(n, chunk)
  BY DEF YqueueInv
<1>5. PICK chunk \in [0..n -> Chunks] : ListInv(n, chunk)
  BY <1>4
<1>6. Linked(n, chunk) /\ Placed(n, chunk) /\ Owned(n, chunk) /\ Element(n, endPos) = written + 1
  BY <1>5 DEF ListInv
<1>7. endPos = ChunkSize
  BY <1>2, <1>3 DEF ThreadsOK, ListTypes
<1>8. new \in Chunks /\ new # NoChunk /\ \A j \in 0..n : chunk[j] # new /\ chunk[j] \in Chunks
  <2>1. CASE fetched # NoChunk
    BY <1>1, <1>3, <1>6, <2>1 DEF Owned, ListTypes
  <2>2. CASE fetched = NoChunk
    BY <1>1, <1>6, <2>2 DEF Owned, YqueueSizes
  <2>3. QED
    BY <2>1, <2>2
<1>9. new # spare /\ new # left
  <2>1. CASE fetched # NoChunk
    BY <1>1, <1>6, <2>1 DEF Owned
  <2>2. CASE fetched = NoChunk
    BY <1>1, <1>6, <2>2 DEF Owned, YqueueSizes
  <2>3. QED
    BY <2>1, <2>2
<1> DEFINE m == n + 1
           list == [j \in 0..m |-> IF j = m THEN new ELSE chunk[j]]
<1>10. /\ m \in Nat /\ m = n + 1 /\ list \in [0..m -> Chunks]
       /\ list[m] = new /\ \A j \in 0..n : j \in 0..m /\ list[j] = chunk[j]
       /\ \A j \in 0..m : j = m \/ j \in 0..n
  <2>1. \A j \in 0..m : j = m \/ j \in 0..n
    OBVIOUS
  <2>2. QED
    BY <1>8, <2>1
<1> HIDE DEF m, list
<1>11. /\ end = chunk[n] /\ end \in Chunks /\ n \in 0..n
       /\ \A j \in 0..n - 1 : chunk[j] # end
  <2>1. \A j \in 0..n - 1 : j \in 0..n /\ j # n
    OBVIOUS
  <2>2. QED
    BY <1>3, <1>6, <2>1 DEF Linked, ListTypes
<1>12. ListTypes' /\ ThreadsOK' /\ InTurn'
  <2>1. ListTypes'
    <3>1. next' \in [Chunks -> Chunks \cup {NoChunk}] /\ prev' \in [Chunks -> Chunks \cup {NoChunk}]
      BY <1>1, <1>3, <1>8 DEF ListTypes
    <3>2. allocated' \subseteq Chunks /\ end' \in Chunks /\ endPos' \in 0..ChunkSize
      BY <1>1, <1>2, <1>3, <1>8 DEF ListTypes
    <3>3. QED
      BY <1>2, <1>3, <3>1, <3>2 DEF ListTypes
  <2>2. QED
    BY <1>2, <1>3, <2>1 DEF ThreadsOK, InTurn
<1>13. Linked(m, list)'
  <2>1. ASSUME NEW k \in 0..m - 1
        PROVE  next'[list[k]] = list[k + 1] /\ prev'[list[k + 1]] = list[k]
    <3>1. CASE k = n
      BY <1>1, <1>3, <1>8, <1>10, <1>11, <3>1 DEF ListTypes
    <3>2. CASE k # n
      <4>1. k \in 0..n - 1 /\ k \in 0..n /\ k + 1 \in 0..n
        BY <1>10, <3>2
      <4>2. next[chunk[k]] = chunk[k + 1] /\ prev[chunk[k + 1]] = chunk[k]
        BY <1>6, <4>1 DEF Linked
      <4>3. chunk[k] # end /\ chunk[k + 1] # new
        BY <1>8, <1>11, <4>1
      <4>4. QED
        BY <1>1, <1>3, <1>8, <1>10, <4>1, <4>2, <4>3 DEF ListTypes
    <3>3. QED
      BY <3>1, <3>2
  <2>2. ASSUME NEW j \in 0..m, NEW k \in 0..m, list[j] = list[k]
        PROVE  j = k
    BY <1>6, <1>8, <1>10, <2>2 DEF Linked
  <2>3. list[0] = begin /\ list[m] = new
    <3>1. 0 \in 0..n
      OBVIOUS
    <3>2. QED
      BY <1>6, <1>10, <3>1 DEF Linked
  <2>4. QED
    BY <1>1, <1>2, <1>10, <2>1, <2>2, <2>3 DEF Linked
<1>14. \A k, i : Element(k, i)' = Element(k, i)
  BY <1>2 DEF Element
<1>15. Element(m, 0) = written + 1 /\ \A i \in Nat : Element(m, i) = written + 1 + i
  <2>1. n * ChunkSize \in Int /\ m * ChunkSize = n * ChunkSize + ChunkSize
    BY <1>10, Chunkwise
  <2>2. popped - beginPos + (n * ChunkSize + ChunkSize) = written + 1
    BY <1>6, <1>7 DEF Element
  <2>3. QED
    BY <1>3, <2>1, <2>2 DEF Element, InTurn
<1>16. Placed(m, list)'
  <2>1. ASSUME NEW k \in 0..m, NEW i \in 0..ChunkSize - 1, Element(k, i) \in popped..written - 1
        PROVE  value[list[k]][i] = Element(k, i)
    <3>1. k # m
      <4>1. i \in Nat
        OBVIOUS
      <4>2. QED
        BY <1>3, <1>15, <2>1, <4>1 DEF InTurn
    <3>2. QED
      BY <1>6, <1>10, <2>1, <3>1 DEF Placed
  <2>2. QED
    BY <1>2, <1>14, <2>1 DEF Placed
<1>17. Owned(m, list)'
  <2>1. ASSUME NEW k \in Chunks
        PROVE  (\E j \in 0..m : list[j] = k) <=> k = new \/ \E j \in 0..n : chunk[j] = k
    <3>1. m \in 0..m
      BY <1>10
    <3>2. QED
      BY <1>10, <3>1
  <2>2. ASSUME NEW k \in Chunks
        PROVE  k \in allocated' <=> (\E j \in 0..m : list[j] = k) \/ k \in {spare, NoChunk, left}
    <3>1. k # NoChunk
      BY DEF YqueueSizes
    <3>2. k \in allocated <=> (\E j \in 0..n : chunk[j] = k) \/ k \in {spare, fetched, left}
      BY <1>6 DEF Owned
    <3>3. k = fetched => k = new
      BY <1>1, <3>1
    <3>4. QED
      BY <1>1, <2>1, <3>1, <3>2, <3>3
  <2>3. ASSUME NEW j \in 0..m PROVE list[j] \notin {spare, NoChunk, left}
    <3>1. list[j] # NoChunk
      BY <1>10 DEF YqueueSizes
    <3>2. QED
      BY <1>6, <1>9, <1>10, <3>1 DEF Owned
  <2>4. spare # NoChunk => spare # left
    BY <1>6 DEF Owned
  <2>5. QED
    BY <1>2, <2>2, <2>3, <2>4 DEF Owned
<1>18. Element(m, endPos)' = written' + 1
  BY <1>2, <1>15 DEF Element
<1>19. PICK b \in 0..n : BackAt(b, chunk)
  BY <1>5 DEF ListInv
<1>20. b \in 0..m /\ BackAt(b, list)'
  BY <1>2, <1>10, <1>14, <1>19 DEF BackAt
<1>21. ListInv(m, list)'
  BY <1>13, <1>16, <1>17, <1>18, <1>20 DEF ListInv
<1>22. QED
  BY <1>10, <1>12, <1>21 DEF YqueueInv

(* The reader has read all of its chunk only if there is another. *)
LEMMA PopItemKeeps == YqueueSizes /\ YqueueInv /\ PopItem => YqueueInv'
<1> SUFFICES ASSUME YqueueSizes, YqueueInv, PopItem PROVE YqueueInv'
  OBVIOUS
<1>1. /\ reading = "idle" /\ popped < flushed /\ popped' = popped + 1
      /\ UNCHANGED <<allocated, next, value, back, backPos, end, endPos, writing, fetched, written, spare, flushed>>
  BY DEF PopItem, appendVars
<1>2. /\ ListTypes /\ ThreadsOK /\ InTurn
      /\ ChunkSize \in Nat \ {0} /\ popped \in Int /\ beginPos \in Int
      /\ \A k, i \in Int : Element(k, i) \in Int
  BY ListFacts
<1>3. PICK n \in Nat : \E chunk \in [0..n -> Chunks] : ListInv(n, chunk)
  BY DEF YqueueInv
<1>4. PICK chunk \in [0..n -> Chunks] : ListInv(n, chunk)
  BY <1>3
<1>5. Linked(n, chunk) /\ Placed(n, chunk) /\ Owned(n, chunk) /\ Element(n, endPos) = written + 1
  BY <1>4 DEF ListInv
<1>6. PICK b \in 0..n : BackAt(b, chunk)
  BY <1>4 DEF ListInv
<1>7. left = NoChunk
  BY <1>1, <1>2 DEF ThreadsOK
<1>8. InTurn'
  BY <1>1, <1>2 DEF InTurn
<1>9. CASE beginPos + 1 < ChunkSize
  <2>1. beginPos' = beginPos + 1 /\ UNCHANGED <<prev, begin, reading, left>>
    BY <1>9 DEF PopItem
  <2>2. \A k, i : Element(k, i)' = Element(k, i)
    BY <1>1, <1>2, <2>1 DEF Element
  <2>3. ListTypes' /\ ThreadsOK'
    <3>1. beginPos' \in 0..ChunkSize - 1
      BY <1>2, <1>9, <2>1 DEF ListTypes
    <3>2. ListTypes'
      BY <1>1, <1>2, <2>1, <3>1 DEF ListTypes
    <3>3. QED
      BY <1>1, <1>2, <2>1, <3>2 DEF ThreadsOK
  <2>4. Linked(n, chunk)' /\ Owned(n, chunk)'
    BY <1>1, <1>5, <2>1 DEF Linked, Owned
  <2>5. Placed(n, chunk)'
    <3>1. ASSUME NEW k \in 0..n, NEW i \in 0..ChunkSize - 1,
                 Element(k, i) \in popped + 1..written - 1
          PROVE  value[chunk[k]][i] = Element(k, i)
      <4>1. Element(k, i) \in popped..written - 1
        BY <1>2, <3>1
      <4>2. QED
        BY <1>5, <4>1 DEF Placed
    <3>2. QED
      BY <1>1, <2>2, <3>1 DEF Placed
  <2>6. Element(n, endPos)' = written' + 1 /\ BackAt(b, chunk)'
    BY <1>1, <1>5, <1>6, <2>2 DEF BackAt
  <2>7. ListInv(n, chunk)'
    BY <2>4, <2>5, <2>6 DEF ListInv
  <2>8. QED
    BY <1>8, <2>3, <2>7 DEF YqueueInv
<1>10. CASE ~(beginPos + 1 < ChunkSize)
  <2>1. /\ left' = begin /\ begin' = next[begin] /\ beginPos' = 0 /\ reading' = "offering"
        /\ prev' = [prev EXCEPT ![next[begin]] = NoChunk]
    BY <1>10 DEF PopItem
  <2>2. beginPos = ChunkSize - 1
    BY <1>2, <1>10 DEF ListTypes
  <2>3. n > 0
    <3>1. SUFFICES ASSUME n = 0 PROVE FALSE
      OBVIOUS
    <3>2. popped - beginPos + endPos = written + 1
      BY <1>2, <1>5, <3>1, Chunkwise DEF Element, ListTypes
    <3>3. QED
      BY <1>1, <1>2, <2>2, <3>2 DEF ListTypes, InTurn
  <2> DEFINE m == n - 1
             list == [j \in 0..m |-> chunk[j + 1]]
  <2>4. /\ m \in Nat /\ m + 1 = n /\ list \in [0..m -> Chunks]
        /\ \A j \in 0..m : j + 1 \in 0..n /\ j \in Int /\ j + 1 # 0 /\ list[j] = chunk[j + 1]
        /\ \A j \in 0..n : j = 0 \/ (j - 1 \in 0..m /\ list[j - 1] = chunk[j])
    <3>1. m \in Nat /\ m + 1 = n
      BY <2>3
    <3>2. \A j \in 0..m : j + 1 \in 0..n /\ j \in Int /\ j + 1 # 0
      BY <3>1
    <3>3. list \in [0..m -> Chunks]
      BY <3>2
    <3>4. \A j \in 0..n : j = 0 \/ (j - 1 \in 0..m /\ j - 1 + 1 = j)
      BY <3>1
    <3>5. QED
      BY <3>1, <3>2, <3>3, <3>4
  <2> HIDE DEF m, list
  <2>5. 0 \in 0..n /\ 0 \in 0..n - 1 /\ n \in 0..n /\ chunk[0] = begin /\ next[begin] = chunk[1] /\ 1 \in 0..n
    BY <1>5, <2>3 DEF Linked
  <2>6. chunk[1] \in Chunks /\ begin \in Chunks
    BY <2>5
  <2>7. ListTypes' /\ ThreadsOK'
    <3>1. prev' \in [Chunks -> Chunks \cup {NoChunk}]
      BY <1>2, <2>1, <2>5, <2>6 DEF ListTypes
    <3>2. begin' \in Chunks /\ left' \in Chunks /\ beginPos' \in 0..ChunkSize - 1
      BY <1>2, <2>1, <2>5, <2>6
    <3>3. QED
      BY <1>1, <1>2, <2>1, <3>1, <3>2 DEF ListTypes, ThreadsOK
  <2>8. \A k, i \in Int : Element(k, i)' = Element(k + 1, i)
    <3>1. ASSUME NEW k \in Int, NEW i \in Int PROVE Element(k, i)' = Element(k + 1, i)
      <4>1. k * ChunkSize \in Int /\ (k + 1) * ChunkSize = k * ChunkSize + ChunkSize
        BY Chunkwise
      <4>2. Element(k, i)' = popped + 1 - 0 + (k * ChunkSize + i)
        BY <1>1, <2>1 DEF Element
      <4>3. QED
        BY <1>2, <2>2, <4>1, <4>2 DEF Element
    <3>2. QED
      BY <3>1
  <2>9. Linked(m, list)'
    <3>1. ASSUME NEW k \in 0..m - 1
          PROVE  next'[list[k]] = list[k + 1] /\ prev'[list[k + 1]] = list[k]
      <4>1. k \in 0..m /\ k + 1 \in 0..m /\ k + 1 \in 0..n - 1 /\ k + 1 + 1 \in 0..n /\ k + 1 + 1 # 1
        BY <2>4
      <4>2. list[k] = chunk[k + 1] /\ list[k + 1] = chunk[k + 1 + 1]
        BY <2>4, <4>1
      <4>3. next[chunk[k + 1]] = chunk[k + 1 + 1] /\ prev[chunk[k + 1 + 1]] = chunk[k + 1]
        BY <1>5, <4>1 DEF Linked
      <4>4. chunk[k + 1 + 1] # chunk[1] /\ chunk[k + 1 + 1] \in Chunks
        BY <1>5, <2>5, <4>1 DEF Linked
      <4>5. prev'[chunk[k + 1 + 1]] = prev[chunk[k + 1 + 1]]
        BY <1>2, <2>1, <2>5, <4>4 DEF ListTypes
      <4>6. QED
        BY <1>1, <4>2, <4>3, <4>5
    <3>2. ASSUME NEW j \in 0..m, NEW k \in 0..m, list[j] = list[k]
          PROVE  j = k
      <4>1. j + 1 \in 0..n /\ k + 1 \in 0..n /\ chunk[j + 1] = chunk[k + 1] /\ j \in Int /\ k \in Int
        BY <2>4, <3>2
      <4>2. j + 1 = k + 1
        BY <1>5, <4>1 DEF Linked
      <4>3. QED
        BY <4>1, <4>2
    <3>3. list[0] = begin' /\ list[m] = end'
      <4>1. 0 \in 0..m /\ m \in 0..m
        BY <2>4
      <4>2. list[0] = chunk[1] /\ list[m] = chunk[n]
        BY <2>4, <4>1
      <4>3. QED
        BY <1>1, <1>5, <2>1, <2>5, <4>2 DEF Linked
    <3>4. QED
      BY <2>4, <3>1, <3>2, <3>3 DEF Linked
  <2>10. Placed(m, list)'
    <3>1. ASSUME NEW k \in 0..m, NEW i \in 0..ChunkSize - 1,
                 Element(k + 1, i) \in popped + 1..written - 1
          PROVE  value[list[k]][i] = Element(k + 1, i)
      <4>1. Element(k + 1, i) \in popped..written - 1
        BY <1>2, <3>1
      <4>2. QED
        BY <1>5, <2>4, <4>1 DEF Placed
    <3>2. QED
      <4>1. ASSUME NEW k \in 0..m, NEW i \in 0..ChunkSize - 1
            PROVE  Element(k, i)' = Element(k + 1, i)
        <5>1. k \in Int /\ i \in Int
          OBVIOUS
        <5>2. QED
          BY <2>8, <5>1
      <4>2. popped' = popped + 1 /\ written' = written /\ value' = value
        BY <1>1
      <4>3. QED
        BY <3>1, <4>1, <4>2 DEF Placed
  <2>11. Owned(m, list)'
    <3>1. ASSUME NEW k \in Chunks
          PROVE  (\E j \in 0..n : chunk[j] = k) <=> k = begin \/ \E j \in 0..m : list[j] = k
      <4>1. ASSUME NEW j \in 0..n, chunk[j] = k
            PROVE  k = begin \/ \E h \in 0..m : list[h] = k
        <5>1. CASE j = 0
          BY <2>5, <4>1, <5>1
        <5>2. CASE j # 0
          <6>1. j - 1 \in 0..m /\ j - 1 + 1 = j
            BY <2>4, <5>2
          <6>2. list[j - 1] = chunk[j - 1 + 1]
            BY <2>4, <6>1
          <6>3. QED
            BY <4>1, <6>1, <6>2
        <5>3. QED
          BY <5>1, <5>2
      <4>2. ASSUME NEW j \in 0..m, list[j] = k
            PROVE  \E h \in 0..n : chunk[h] = k
        <5>1. j + 1 \in 0..n /\ list[j] = chunk[j + 1]
          BY <2>4
        <5>2. QED
          BY <4>2, <5>1
      <4>3. k = begin => \E h \in 0..n : chunk[h] = k
        BY <2>5
      <4>4. QED
        BY <4>1, <4>2, <4>3
    <3>2. ASSUME NEW k \in Chunks
          PROVE  k \in allocated <=> (\E j \in 0..m : list[j] = k) \/ k \in {spare, fetched, begin}
      <4>1. k \in allocated <=> (\E j \in 0..n : chunk[j] = k) \/ k \in {spare, fetched, left}
        BY <1>5 DEF Owned
      <4>2. k # left
        BY <1>7 DEF YqueueSizes
      <4>3. QED
        BY <3>1, <4>1, <4>2
    <3>3. ASSUME NEW j \in 0..m PROVE list[j] \notin {spare, fetched, begin}
      <4>1. chunk[j + 1] # chunk[0]
        BY <1>5, <2>4, <2>5 DEF Linked
      <4>2. QED
        <5>1. chunk[j + 1] \notin {spare, fetched, left}
          BY <1>5, <2>4 DEF Owned
        <5>2. list[j] = chunk[j + 1] /\ chunk[0] = begin
          BY <2>4, <2>5
        <5>3. QED
          BY <4>1, <5>1, <5>2
    <3>4. begin # spare /\ begin # fetched
      BY <1>5, <2>5 DEF Owned
    <3>5. spare # NoChunk => spare # fetched
      BY <1>5 DEF Owned
    <3>6. QED
      BY <1>1, <2>1, <3>2, <3>3, <3>4, <3>5 DEF Owned
  <2>12. Element(m, endPos)' = written' + 1
    <3>1. endPos' \in Int /\ m \in Int
      BY <1>1, <1>2, <2>4 DEF ListTypes
    <3>2. Element(m, endPos') = Element(m, endPos)
      BY <1>1
    <3>3. Element(m, endPos)' = Element(n, endPos)
      BY <1>1, <2>4, <2>8, <3>1
    <3>4. QED
      BY <1>1, <1>5, <3>3
  <2>13. b # 0
    <3>1. SUFFICES ASSUME b = 0 PROVE FALSE
      OBVIOUS
    <3>2. popped - beginPos + backPos = written
      BY <1>2, <1>6, <3>1, Chunkwise DEF Element, BackAt, ListTypes
    <3>3. QED
      BY <1>1, <1>2, <2>2, <3>2 DEF ListTypes, InTurn
  <2>14. b - 1 \in 0..m /\ BackAt(b - 1, list)'
    <3>1. b - 1 \in 0..m /\ list[b - 1] = chunk[b] /\ b - 1 \in Int /\ b - 1 + 1 = b /\ backPos \in Int
      <4>1. b - 1 \in 0..m /\ list[b - 1] = chunk[b]
        BY <2>4, <2>13
      <4>2. b \in Int /\ b - 1 \in Int /\ b - 1 + 1 = b
        OBVIOUS
      <4>3. backPos \in Int
        BY <1>2 DEF ListTypes
      <4>4. QED
        BY <4>1, <4>2, <4>3
    <3>2. Element(b - 1, backPos)' = Element(b, backPos)
      BY <1>1, <2>8, <3>1
    <3>3. QED
      BY <1>1, <1>6, <3>1, <3>2 DEF BackAt
  <2>15. ListInv(m, list)'
    BY <2>9, <2>10, <2>11, <2>12, <2>14 DEF ListInv
  <2>16. QED
    BY <1>8, <2>4, <2>7, <2>15 DEF YqueueInv
<1>11. QED
  BY <1>9, <1>10

(* The writer takes back what was not flushed: its end is never before the *)
(* reader's chunk, nor the element before its end in another's.            *)
LEMMA UnpushKeeps == YqueueSizes /\ YqueueInv /\ Unpush => YqueueInv'
<1> SUFFICES ASSUME YqueueSizes, YqueueInv, Unpush PROVE YqueueInv'
  OBVIOUS
<1>1. /\ writing = "idle" /\ written > flushed /\ written' = written - 1
      /\ UNCHANGED <<writing, fetched, begin, beginPos, reading, left, popped, spare, flushed>>
  BY DEF Unpush, takeVars
<1>2. /\ ListTypes /\ ThreadsOK /\ InTurn
      /\ ChunkSize \in Nat \ {0} /\ popped \in Int /\ beginPos \in Int
      /\ \A k, i \in Int : Element(k, i) \in Int
  BY ListFacts
<1>3. PICK n \in Nat : \E chunk \in [0..n -> Chunks] : ListInv(n, chunk)
  BY DEF YqueueInv
<1>4. PICK chunk \in [0..n -> Chunks] : ListInv(n, chunk)
  BY <1>3
<1>5. Linked(n, chunk) /\ Placed(n, chunk) /\ Owned(n, chunk) /\ Element(n, endPos) = written + 1
  BY <1>4 DEF ListInv
<1>6. PICK b \in 0..n : BackAt(b, chunk)
  BY <1>4 DEF ListInv
<1>7. endPos \in 0..ChunkSize - 1 /\ backPos \in 0..ChunkSize - 1 /\ beginPos \in 0..ChunkSize - 1
  BY <1>1, <1>2 DEF ThreadsOK, ListTypes
<1>8. InTurn' /\ written > popped /\ written \in Int
  <2>1. /\ written \in Nat /\ flushed \in Nat /\ popped \in Nat /\ MaxElements \in Nat
        /\ popped <= flushed /\ flushed <= written /\ written <= MaxElements
    BY <1>2 DEF InTurn, YqueueSizes
  <2>2. /\ written - 1 \in Nat /\ flushed <= written - 1 /\ written - 1 <= MaxElements
        /\ written > popped /\ written \in Int
    BY <1>1, <2>1
  <2>3. QED
    BY <1>1, <2>1, <2>2 DEF InTurn
<1>9. \A k, i : Element(k, i)' = Element(k, i)
  BY <1>1 DEF Element
<1>10. \A k \in Int : /\ k * ChunkSize \in Int /\ (k - 1) * ChunkSize = k * ChunkSize - ChunkSize
                      /\ 0 * ChunkSize = 0
  BY Chunkwise
<1>11. backPos' \in 0..ChunkSize - 1 /\ \E k \in 0..n : back' = chunk[k] /\ Element(k, backPos') = written - 1
  <2>1. CASE backPos > 0
    <3>1. backPos' = backPos - 1 /\ back' = back
      BY <2>1 DEF Unpush
    <3>2. Element(b, backPos - 1) = Element(b, backPos) - 1
      BY <1>2, <1>7, <1>10 DEF Element
    <3>3. backPos - 1 \in 0..ChunkSize - 1
      BY <1>2, <1>7, <2>1
    <3>4. back' = chunk[b] /\ Element(b, backPos') = written - 1
      BY <1>6, <3>1, <3>2 DEF BackAt
    <3>5. QED
      BY <3>1, <3>3, <3>4
  <2>2. CASE ~(backPos > 0)
    <3>1. backPos' = ChunkSize - 1 /\ back' = prev[back] /\ backPos = 0
      BY <1>7, <2>2 DEF Unpush
    <3>2. popped - beginPos + b * ChunkSize = written
      BY <1>2, <1>6, <1>10, <3>1 DEF Element, BackAt
    <3>3. b # 0
      BY <1>2, <1>7, <1>8, <1>10, <3>2
    <3>4. b - 1 \in 0..n - 1 /\ b - 1 \in 0..n /\ b - 1 + 1 = b
      BY <3>3
    <3>5. back' = chunk[b - 1]
      BY <1>5, <1>6, <3>1, <3>4 DEF Linked, BackAt
    <3>6. Element(b - 1, ChunkSize - 1) = written - 1
      BY <1>2, <1>8, <1>10, <3>2 DEF Element
    <3>7. QED
      BY <1>2, <3>1, <3>4, <3>5, <3>6
  <2>3. QED
    BY <2>1, <2>2
<1>12. PICK p \in 0..n : back' = chunk[p] /\ Element(p, backPos') = written - 1
  BY <1>11
<1>13. CASE endPos > 0
  <2>1. endPos' = endPos - 1 /\ UNCHANGED <<end, allocated, next, prev, value>>
    BY <1>13 DEF Unpush, listVars
  <2>2. ListTypes' /\ ThreadsOK'
    <3>1. back' \in Chunks /\ endPos' \in 0..ChunkSize - 1
      <4>1. chunk[p] \in Chunks
        BY <1>12
      <4>2. endPos - 1 \in 0..ChunkSize - 1
        BY <1>2, <1>7, <1>13
      <4>3. QED
        BY <1>12, <2>1, <4>1, <4>2
    <3>2. endPos' \in 0..ChunkSize /\ endPos' < ChunkSize
      BY <1>2, <3>1
    <3>3. backPos' \in 0..ChunkSize - 1
      BY <1>11
    <3>4. ListTypes'
      BY <1>1, <1>2, <2>1, <3>1, <3>2, <3>3 DEF ListTypes
    <3>5. QED
      BY <1>1, <1>2, <3>2, <3>4 DEF ThreadsOK
  <2>3. Linked(n, chunk)' /\ Owned(n, chunk)'
    BY <1>1, <1>5, <2>1 DEF Linked, Owned
  <2>4. Placed(n, chunk)'
    <3>1. ASSUME NEW k \in 0..n, NEW i \in 0..ChunkSize - 1,
                 Element(k, i) \in popped..written - 1 - 1
          PROVE  value[chunk[k]][i] = Element(k, i)
      <4>1. Element(k, i) \in popped..written - 1
        BY <1>2, <1>8, <3>1
      <4>2. QED
        BY <1>5, <4>1 DEF Placed
    <3>2. QED
      BY <1>1, <1>9, <2>1, <3>1 DEF Placed
  <2>5. Element(n, endPos)' = written' + 1
    <3>1. Element(n, endPos - 1) = Element(n, endPos) - 1
      BY <1>2, <1>7, <1>10 DEF Element
    <3>2. Element(n, endPos)' = Element(n, endPos - 1)
      BY <1>1, <2>1 DEF Element
    <3>3. QED
      BY <1>1, <1>5, <1>8, <3>1, <3>2
  <2>6. BackAt(p, chunk)'
    BY <1>1, <1>12 DEF BackAt, Element
  <2>7. ListInv(n, chunk)'
    BY <2>3, <2>4, <2>5, <2>6 DEF ListInv
  <2>8. QED
    BY <1>8, <2>2, <2>7 DEF YqueueInv
<1>14. CASE ~(endPos > 0)
  <2>1. endPos' = ChunkSize - 1 /\ end' = prev[end] /\ FreeChunk(next[prev[end]]) /\ endPos = 0
    BY <1>7, <1>14 DEF Unpush
  <2>2. popped - beginPos + n * ChunkSize = written + 1
    BY <1>2, <1>5, <1>10, <2>1 DEF Element
  <2>3. n # 0
    BY <1>2, <1>7, <1>8, <1>10, <2>2
  <2> DEFINE m == n - 1
             list == [j \in 0..m |-> chunk[j]]
  <2>4. /\ m \in Nat /\ m + 1 = n /\ m = n - 1 /\ list \in [0..m -> Chunks]
        /\ \A j \in 0..m : j \in 0..n /\ list[j] = chunk[j] /\ j # n
        /\ \A j \in 0..n : j = n \/ j \in 0..m
    <3>1. m \in Nat /\ m + 1 = n
      BY <2>3
    <3>2. \A j \in 0..m : j \in 0..n /\ j # n
      BY <3>1
    <3>3. \A j \in 0..n : j = n \/ j \in 0..m
      BY <3>1
    <3>4. QED
      BY <3>1, <3>2, <3>3
  <2> HIDE DEF m, list
  <2>5. end = chunk[n] /\ prev[end] = chunk[m] /\ next[chunk[m]] = end /\ end \in Chunks
    <3>1. m \in 0..n - 1
      BY <2>4
    <3>2. QED
      BY <1>5, <2>4, <3>1 DEF Linked
  <2>6. FreeChunk(end) /\ end' = chunk[m]
    BY <2>1, <2>5
  <2>7. /\ allocated' = allocated \ {end}
        /\ \A j \in Chunks : j # end /\ next[j] # end => next'[j] = next[j]
        /\ \A j \in Chunks : j # end => prev'[j] = prev[j] /\ value'[j] = value[j]
        /\ next' \in [Chunks -> Chunks \cup {NoChunk}] /\ prev' \in [Chunks -> Chunks \cup {NoChunk}]
        /\ value' \in [Chunks -> [0..ChunkSize - 1 -> Int]]
    BY <2>5, <2>6, FreeChunkFacts
  <2>8. \A j \in 0..m : chunk[j] \in Chunks /\ chunk[j] # end
    <3>1. n \in 0..n
      OBVIOUS
    <3>2. QED
      BY <1>5, <2>4, <2>5, <3>1 DEF Linked
  <2>9. ListTypes' /\ ThreadsOK'
    <3>1. m \in 0..m
      BY <2>4
    <3>2. back' \in Chunks /\ end' \in Chunks /\ endPos' \in 0..ChunkSize - 1
      <4>1. chunk[p] \in Chunks /\ chunk[m] \in Chunks
        BY <1>12, <2>8, <3>1
      <4>2. ChunkSize - 1 \in 0..ChunkSize - 1
        BY <1>2
      <4>3. QED
        BY <1>12, <2>1, <2>6, <4>1, <4>2
    <3>3. allocated' \subseteq Chunks
      BY <1>2, <2>7 DEF ListTypes
    <3>4. endPos' \in 0..ChunkSize /\ endPos' < ChunkSize
      BY <1>2, <3>2
    <3>5. backPos' \in 0..ChunkSize - 1
      BY <1>11
    <3>6. ListTypes'
      BY <1>1, <1>2, <2>7, <3>2, <3>3, <3>4, <3>5 DEF ListTypes
    <3>7. QED
      BY <1>1, <1>2, <3>4, <3>6 DEF ThreadsOK
  <2>10. Linked(m, list)'
    <3>1. ASSUME NEW k \in 0..m - 1
          PROVE  next'[list[k]] = list[k + 1] /\ prev'[list[k + 1]] = list[k]
      <4>1. k \in 0..m /\ k + 1 \in 0..m /\ k \in 0..n - 1
        BY <2>4
      <4>2. next[chunk[k]] = chunk[k + 1] /\ prev[chunk[k + 1]] = chunk[k]
        BY <1>5, <4>1 DEF Linked
      <4>3. QED
        BY <2>4, <2>7, <2>8, <4>1, <4>2
    <3>2. ASSUME NEW j \in 0..m, NEW k \in 0..m, list[j] = list[k]
          PROVE  j = k
      BY <1>5, <2>4, <3>2 DEF Linked
    <3>3. list[0] = begin' /\ list[m] = end'
      <4>1. 0 \in 0..m /\ m \in 0..m
        BY <2>4
      <4>2. list[0] = chunk[0] /\ list[m] = chunk[m]
        BY <2>4, <4>1
      <4>3. QED
        BY <1>1, <1>5, <2>6, <4>2 DEF Linked
    <3>4. QED
      BY <2>4, <3>1, <3>2, <3>3 DEF Linked
  <2>11. Placed(m, list)'
    <3>1. ASSUME NEW k \in 0..m, NEW i \in 0..ChunkSize - 1,
                 Element(k, i) \in popped..written - 1 - 1
          PROVE  value'[list[k]][i] = Element(k, i)
      <4>1. Element(k, i) \in popped..written - 1
        BY <1>2, <1>8, <3>1
      <4>2. value[chunk[k]][i] = Element(k, i)
        BY <1>5, <2>4, <4>1 DEF Placed
      <4>3. value'[chunk[k]] = value[chunk[k]]
        BY <2>7, <2>8
      <4>4. QED
        BY <2>4, <4>2, <4>3
    <3>2. QED
      BY <1>1, <1>9, <3>1 DEF Placed
  <2>12. Owned(m, list)'
    <3>1. ASSUME NEW k \in Chunks
          PROVE  (\E j \in 0..n : chunk[j] = k) <=> k = end \/ \E j \in 0..m : list[j] = k
      <4>1. n \in 0..n
        OBVIOUS
      <4>2. QED
        BY <2>4, <2>5, <4>1
    <3>2. end \notin {spare, fetched, left}
      <4>1. n \in 0..n
        OBVIOUS
      <4>2. QED
        BY <1>5, <2>5, <4>1 DEF Owned
    <3>3. ASSUME NEW k \in Chunks
          PROVE  k \in allocated' <=> (\E j \in 0..m : list[j] = k) \/ k \in {spare, fetched, left}
      <4>1. k \in allocated <=> (\E j \in 0..n : chunk[j] = k) \/ k \in {spare, fetched, left}
        BY <1>5 DEF Owned
      <4>2. \A j \in 0..m : list[j] # end
        BY <2>4, <2>8
      <4>3. QED
        BY <2>7, <3>1, <3>2, <4>1, <4>2
    <3>4. ASSUME NEW j \in 0..m PROVE list[j] \notin {spare, fetched, left}
      BY <1>5, <2>4 DEF Owned
    <3>5. /\ spare # NoChunk => spare # fetched /\ spare # left
          /\ fetched # NoChunk => fetched # left
      BY <1>5 DEF Owned
    <3>6. QED
      BY <1>1, <3>3, <3>4, <3>5 DEF Owned
  <2>13. Element(m, endPos)' = written' + 1
    <3>1. Element(m, ChunkSize - 1) = written
      BY <1>2, <1>8, <1>10, <2>2, <2>4 DEF Element
    <3>2. Element(m, endPos)' = Element(m, ChunkSize - 1)
      BY <1>1, <2>1 DEF Element
    <3>3. QED
      BY <1>1, <1>8, <3>1, <3>2
  <2>14. p \in 0..m /\ BackAt(p, list)'
    <3>1. p # n
      <4>1. SUFFICES ASSUME p = n PROVE FALSE
        OBVIOUS
      <4>2. popped - beginPos + (n * ChunkSize + backPos') = written - 1
        BY <1>12, <4>1 DEF Element
      <4>3. n * ChunkSize \in Int /\ backPos' \in Nat
        BY <1>10, <1>11
      <4> DEFINE x == n * ChunkSize
                 q == backPos'
      <4>4. x \in Int /\ q \in Nat /\ popped \in Int /\ beginPos \in Int /\ written \in Int
        BY <1>2, <1>8, <4>3
      <4>5. popped - beginPos + x = written + 1 /\ popped - beginPos + (x + q) = written - 1
        BY <2>2, <4>2
      <4> HIDE DEF x, q
      <4>6. QED
        BY <4>4, <4>5
    <3>2. p \in 0..m /\ list[p] = chunk[p]
      BY <2>4, <3>1
    <3>3. QED
      BY <1>1, <1>12, <3>2 DEF BackAt, Element
  <2>15. ListInv(m, list)'
    BY <2>10, <2>11, <2>12, <2>13, <2>14 DEF ListInv
  <2>16. QED
    BY <1>8, <2>4, <2>9, <2>15 DEF YqueueInv
<1>15. QED
  BY <1>7, <1>13, <1>14

LEMMA YqueueStepKeeps == YqueueSizes /\ YqueueInv /\ [YqueueNext]_yqueueVars => YqueueInv'
<1> SUFFICES ASSUME YqueueSizes, YqueueInv, [YqueueNext]_yqueueVars PROVE YqueueInv'
  OBVIOUS
<1>1. CASE UNCHANGED yqueueVars
  <2>1. UNCHANGED <<allocated, next, prev, value, begin, beginPos, back, backPos, end, endPos, spare,
                    writing, reading, fetched, left, written, flushed, popped>>
    BY <1>1 DEF yqueueVars, listVars, appendVars, takeVars
  <2>2. PICK n \in Nat : \E chunk \in [0..n -> Chunks] : ListInv(n, chunk)
    BY DEF YqueueInv
  <2>3. PICK chunk \in [0..n -> Chunks] : ListInv(n, chunk)
    BY <2>2
  <2>4. ListInv(n, chunk)'
    BY <2>1, <2>3 DEF ListInv, Linked, Placed, Owned, BackAt, Element
  <2>5. ListTypes' /\ ThreadsOK' /\ InTurn'
    BY <2>1 DEF YqueueInv, ListTypes, ThreadsOK, InTurn
  <2>6. QED
    BY <2>4, <2>5 DEF YqueueInv
<1>2. QED
  BY <1>1, PushKeeps, FetchSpareKeeps, LinkChunkKeeps, UnpushKeeps, FlushItemsKeeps, PopItemKeeps,
     OfferSpareKeeps, FreeSpareKeeps DEF YqueueNext

(* The inductive invariant: the chunks are linked both ways from the       *)
(* reader's to the end, positions and numbers of elements agree, and each  *)
(* other chunk is the spare or in the hands of one thread (yqueue_t).      *)
THEOREM YqueueInvariant == YqueueSizes => (YqueueSpec => []YqueueInv)
<1> SUFFICES ASSUME YqueueSizes PROVE YqueueSpec => []YqueueInv
  OBVIOUS
<1>1. QED
  BY YqueueInitInvariant, YqueueStepKeeps, PTL DEF YqueueSpec

(* The chunks allocated, as a set. *)
LEMMA AllocatedChunks ==
    ASSUME YqueueSizes, ListTypes, NEW n \in Nat, NEW chunk \in [0..n -> Chunks], Owned(n, chunk)
    PROVE  allocated = {chunk[k] : k \in 0..n} \cup ({spare, fetched, left} \ {NoChunk})
<1> DEFINE list == {chunk[k] : k \in 0..n}
           others == {spare, fetched, left} \ {NoChunk}
<1>1. \A k \in Chunks : k \in allocated <=> (\E j \in 0..n : chunk[j] = k) \/ k \in {spare, fetched, left}
  BY DEF Owned
<1>2. \A k \in Chunks : k # NoChunk
  BY DEF YqueueSizes
<1>3. allocated \subseteq Chunks /\ {spare, fetched, left} \subseteq Chunks \cup {NoChunk}
  BY DEF ListTypes
<1>4. list \subseteq Chunks /\ others \subseteq Chunks
  BY <1>3
<1>5. \A k : k \in list <=> \E j \in 0..n : chunk[j] = k
  OBVIOUS
<1>6. \A k : k \in others <=> k \in {spare, fetched, left} /\ k # NoChunk
  OBVIOUS
<1> HIDE DEF list, others
<1>7. ASSUME NEW k PROVE k \in allocated <=> k \in list \/ k \in others
  <2>1. CASE k \in Chunks
    BY <1>1, <1>2, <1>5, <1>6, <2>1
  <2>2. CASE k \notin Chunks
    BY <1>3, <1>4, <2>2
  <2>3. QED
    BY <2>1, <2>2
<1>8. allocated = list \cup others
  BY <1>7
<1>9. QED
  BY <1>8 DEF list, others

LEMMA WithOneMore ==
    ASSUME NEW S, NEW x, IsFiniteSet(S)
    PROVE  /\ IsFiniteSet(S \cup {x}) /\ Cardinality(S \cup {x}) \in Nat
           /\ Cardinality(S \cup {x}) <= Cardinality(S) + 1
<1>1. Cardinality(S) \in Nat
  BY FS_CardinalityType
<1>2. /\ IsFiniteSet(S \cup {x})
      /\ Cardinality(S \cup {x}) = IF x \in S THEN Cardinality(S) ELSE Cardinality(S) + 1
  BY FS_AddElement
<1>3. QED
  BY <1>1, <1>2

(* What the writer has fetched it has not linked, and then its last chunk  *)
(* is full: so there are never all three chunks beside a list that is as   *)
(* long as it can be.                                                      *)
LEMMA FewChunks ==
    ASSUME YqueueSizes, YqueueInv
    PROVE  MemoryBounded
<1>1. /\ ListTypes /\ ThreadsOK /\ InTurn /\ ChunkSize \in Nat \ {0}
  BY ListFacts
<1>2. PICK n \in Nat : \E chunk \in [0..n -> Chunks] : ListInv(n, chunk)
  BY DEF YqueueInv
<1>3. PICK chunk \in [0..n -> Chunks] : ListInv(n, chunk)
  BY <1>2
<1> DEFINE list == {chunk[k] : k \in 0..n}
           others == {spare, fetched, left} \ {NoChunk}
<1>4. IsFiniteSet(list) /\ Cardinality(list) <= n + 1 /\ Cardinality(list) \in Nat
  <2>1. IsFiniteSet(0..n) /\ Cardinality(0..n) = n + 1
    <3>1. 0 \in Int /\ n \in Int /\ ~(0 > n)
      OBVIOUS
    <3>2. IsFiniteSet(0..n) /\ Cardinality(0..n) = n - 0 + 1
      BY <3>1, FS_Interval
    <3>3. QED
      BY <3>2
  <2>2. chunk \in Surjection(0..n, list)
    BY DEF Surjection
  <2>3. IsFiniteSet(list) /\ Cardinality(list) <= Cardinality(0..n)
    <3> HIDE DEF list
    <3>1. QED
      BY <2>1, <2>2, FS_Surjection
  <2>4. Cardinality(list) \in Nat
    <3> HIDE DEF list
    <3>1. QED
      BY <2>3, FS_CardinalityType
  <2>5. QED
    BY <2>1, <2>3, <2>4
<1>5. /\ IsFiniteSet(others) /\ Cardinality(others) \in Nat
      /\ Cardinality(others) <= 3 /\ (fetched = NoChunk => Cardinality(others) <= 2)
  <2> DEFINE one == {spare}
             two == one \cup {left}
             three == two \cup {fetched}
  <2>1. IsFiniteSet(one) /\ Cardinality(one) = 1
    BY FS_Singleton
  <2>2. /\ others \subseteq three
        /\ fetched = NoChunk => others \subseteq two
    OBVIOUS
  <2> HIDE DEF one, others
  <2>3. IsFiniteSet(two) /\ Cardinality(two) \in Nat /\ Cardinality(two) <= 2
    <3>1. /\ IsFiniteSet(one \cup {left}) /\ Cardinality(one \cup {left}) \in Nat
          /\ Cardinality(one \cup {left}) <= Cardinality(one) + 1
      BY <2>1, WithOneMore
    <3>2. QED
      BY <2>1, <3>1
  <2> HIDE DEF two
  <2>4. IsFiniteSet(three) /\ Cardinality(three) \in Nat /\ Cardinality(three) <= 3
    <3>1. /\ IsFiniteSet(two \cup {fetched}) /\ Cardinality(two \cup {fetched}) \in Nat
          /\ Cardinality(two \cup {fetched}) <= Cardinality(two) + 1
      BY <2>3, WithOneMore
    <3>2. QED
      BY <2>3, <3>1
  <2> HIDE DEF three
  <2>5. IsFiniteSet(others) /\ Cardinality(others) <= Cardinality(three)
    BY <2>2, <2>4, FS_Subset
  <2>6. ASSUME fetched = NoChunk PROVE Cardinality(others) <= Cardinality(two)
    BY <2>2, <2>3, <2>6, FS_Subset
  <2>7. Cardinality(others) \in Nat
    BY <2>5, FS_CardinalityType
  <2>8. QED
    BY <2>3, <2>4, <2>5, <2>6, <2>7
<1>6. allocated = list \cup others
  <2>1. Owned(n, chunk)
    BY <1>3 DEF ListInv
  <2>2. QED
    BY <1>1, <2>1, AllocatedChunks
<1>7. Cardinality(allocated) <= Cardinality(list) + Cardinality(others) /\ Cardinality(allocated) \in Nat
  <2>1. IsFiniteSet(list \cup others)
        /\ Cardinality(list \cup others)
             = Cardinality(list) + Cardinality(others) - Cardinality(list \cap others)
    BY <1>4, <1>5, FS_Union
  <2>2. IsFiniteSet(list \cap others) /\ Cardinality(list \cap others) \in Nat
    BY <1>4, FS_Intersection, FS_CardinalityType
  <2>3. Cardinality(list \cup others) \in Nat
    BY <2>1, FS_CardinalityType
  <2>4. QED
    BY <1>4, <1>5, <1>6, <2>1, <2>2, <2>3
<1> HIDE DEF list, others
<1> DEFINE size == Cardinality(allocated)
           x == n * ChunkSize
           y == (size - 4) * ChunkSize
<1>8. /\ x \in Int /\ popped - beginPos + (x + endPos) = written + 1
      /\ size - 4 <= n /\ (fetched = NoChunk => size - 4 <= n - 1) /\ size - 4 \in Int
  <2>1. x \in Int
    <3>1. n \in Int
      OBVIOUS
    <3>2. QED
      BY <3>1, Chunkwise
  <2>2. popped - beginPos + (x + endPos) = written + 1
    BY <1>3 DEF ListInv, Element
  <2> HIDE DEF x
  <2>3. /\ size - 4 <= n /\ (fetched = NoChunk => size - 4 <= n - 1) /\ size - 4 \in Int
    BY <1>4, <1>5, <1>7
  <2>4. QED
    BY <2>1, <2>2, <2>3
<1>9. y \in Int /\ y <= x /\ (fetched = NoChunk => y + ChunkSize <= x)
  <2> DEFINE d == size - 4
  <2>1. d \in Int /\ n \in Int /\ d <= n /\ (fetched = NoChunk => d < n)
    BY <1>8
  <2> HIDE DEF size, d
  <2>2. d * ChunkSize \in Int /\ (d < n => d * ChunkSize + ChunkSize <= n * ChunkSize)
    BY <2>1, Chunkwise
  <2>3. d = n => d * ChunkSize = n * ChunkSize
    OBVIOUS
  <2>4. y = d * ChunkSize
    BY DEF d
  <2> HIDE DEF x, y
  <2>5. y \in Int /\ (d < n => y + ChunkSize <= x) /\ (d = n => y = x)
    BY <2>2, <2>3, <2>4 DEF x
  <2>6. QED
    BY <1>1, <1>8, <2>1, <2>5
<1>10. fetched # NoChunk => endPos = ChunkSize
  BY <1>1 DEF ThreadsOK, ListTypes
<1>11. /\ beginPos \in Int /\ beginPos <= ChunkSize - 1 /\ endPos \in Nat
       /\ written \in Int /\ popped \in Int
  BY <1>1 DEF ListTypes, InTurn
<1> HIDE DEF size, x, y
<1>12. y <= written - popped
  BY <1>1, <1>8, <1>9, <1>10, <1>11
<1>13. QED
  BY <1>12 DEF MemoryBounded, y, size

(* Whatever chunks are linked, recycled, taken back and freed by the two   *)
(* threads: every element is in its place, in memory that is allocated;    *)
(* no chunk is lost, freed twice or used in two places; and there are at   *)
(* most four more than the elements need (yqueue_t, atomic_ptr_t::xchg).   *)
THEOREM ChunksInOrder == YqueueSizes => (YqueueSpec => []ChunksAccounted)
<1> SUFFICES ASSUME YqueueSizes PROVE YqueueSpec => []ChunksAccounted
  OBVIOUS
<1>1. YqueueInv => ChunksAccounted
  <2> SUFFICES ASSUME YqueueInv PROVE ChunksAccounted
    OBVIOUS
  <2>1. /\ ListTypes /\ ThreadsOK /\ InTurn
        /\ ChunkSize \in Nat \ {0} /\ popped \in Int /\ beginPos \in Int
        /\ \A k, i \in Int : Element(k, i) \in Int
    BY ListFacts
  <2>2. PICK n \in Nat : \E chunk \in [0..n -> Chunks] : ListInv(n, chunk)
    BY DEF YqueueInv
  <2>3. PICK chunk \in [0..n -> Chunks] : ListInv(n, chunk)
    BY <2>2
  <2>4. n \in 0..MaxElements + 1
    <3> DEFINE x == n * ChunkSize
               y == (MaxElements + 1) * ChunkSize
               z == MaxElements * ChunkSize
    <3>1. SUFFICES ASSUME MaxElements + 1 < n PROVE FALSE
      BY DEF YqueueSizes
    <3>2. popped - beginPos + (x + endPos) = written + 1
      BY <2>3 DEF ListInv, Element
    <3>3. MaxElements \in Nat
      BY DEF YqueueSizes
    <3>4. x \in Int /\ y + ChunkSize <= x /\ y = z + ChunkSize /\ y \in Int /\ z \in Int
      <4>1. MaxElements \in Int /\ MaxElements + 1 \in Int /\ n \in Int /\ MaxElements + 1 < n
        BY <3>1, <3>3
      <4>2. x \in Int /\ y + ChunkSize <= x
        BY <4>1, Chunkwise
      <4>3. z \in Int /\ y = z + ChunkSize
        BY <4>1, Chunkwise
      <4>4. y \in Int
        BY <4>1, Chunkwise
      <4>5. QED
        BY <4>2, <4>3, <4>4
    <3>5. z >= MaxElements
      <4> DEFINE S == ChunkSize
                 m == MaxElements
      <4>1. S \in Nat /\ S >= 1 /\ m \in Nat
        BY <2>1, <3>3
      <4> HIDE DEF S, m
      <4>2. m * S >= m
        <5>1. PICK q \in Nat : S = q + 1
          <6>1. S - 1 \in Nat /\ S = (S - 1) + 1
            BY <4>1
          <6>2. QED
            BY <6>1
        <5>2. m * q \in Nat /\ m * S = m * q + m
          BY <4>1, <5>1
        <5>3. QED
          BY <4>1, <5>2
      <4>3. QED
        BY <4>2 DEF S, m
    <3>6. /\ beginPos <= ChunkSize - 1 /\ endPos \in Nat /\ written \in Int /\ written <= MaxElements
          /\ popped >= 0
      BY <2>1 DEF ListTypes, InTurn
    <3> HIDE DEF x, y, z
    <3>7. QED
      BY <2>1, <3>2, <3>3, <3>4, <3>5, <3>6
  <2>5. YqueueTypeOK
    <3>1. written \in 0..MaxElements /\ flushed \in 0..MaxElements /\ popped \in 0..MaxElements
      <4>1. /\ written \in Nat /\ flushed \in Nat /\ popped \in Nat /\ MaxElements \in Nat
            /\ popped <= flushed /\ flushed <= written /\ written <= MaxElements
        BY <2>1 DEF InTurn, YqueueSizes
      <4>2. QED
        BY <4>1
    <3>2. {begin, back, end} \subseteq Chunks /\ {spare, fetched, left} \subseteq Chunks \cup {NoChunk}
      BY <2>1 DEF ListTypes
    <3>3. {beginPos, backPos} \subseteq 0..ChunkSize - 1
      BY <2>1 DEF ListTypes
    <3>4. QED
      BY <2>1, <3>1, <3>2, <3>3 DEF ListTypes, YqueueTypeOK
  <2>6. IsList(n, chunk)
    BY <2>3 DEF ListInv, Linked, IsList
  <2>7. ContentsKept(n, chunk)
    <3>1. ASSUME NEW k \in 0..n, NEW i \in 0..ChunkSize - 1, Element(k, i) = written
          PROVE  back = chunk[k] /\ backPos = i
      <4>1. PICK b \in 0..n : BackAt(b, chunk)
        BY <2>3 DEF ListInv
      <4>2. Element(b, backPos) = Element(k, i) /\ backPos \in 0..ChunkSize - 1 /\ back = chunk[b]
        BY <2>1, <3>1, <4>1 DEF BackAt, ListTypes
      <4>3. b = k /\ backPos = i
        <5>1. b \in Int /\ k \in Int
          OBVIOUS
        <5>2. QED
          BY <2>1, <4>2, <5>1, OnePlace
      <4>4. QED
        BY <4>2, <4>3
    <3>2. Placed(n, chunk) /\ Element(n, endPos) = written + 1
      BY <2>3 DEF ListInv
    <3>3. QED
      BY <3>1, <3>2 DEF Placed, ContentsKept
  <2>8. EachOnce(n, chunk)
    <3> DEFINE list == {chunk[k] : k \in 0..n}
               owners == <<spare, fetched, left>>
    <3>1. Owned(n, chunk)
      BY <2>3 DEF ListInv
    <3>2. allocated = list \cup ({spare, fetched, left} \ {NoChunk})
      BY <2>1, <3>1, AllocatedChunks
    <3>3. /\ owners[1] = spare /\ owners[2] = fetched /\ owners[3] = left
          /\ \A i \in 1..3 : i = 1 \/ i = 2 \/ i = 3
      OBVIOUS
    <3>4. \A i \in 1..3 : owners[i] \notin list
      BY <3>1, <3>3 DEF Owned
    <3>5. ASSUME NEW i \in 1..3, owners[i] # NoChunk, NEW j \in 1..3, owners[j] = owners[i]
          PROVE  j = i
      <4> HIDE DEF owners
      <4>1. QED
        BY <3>1, <3>3, <3>5 DEF Owned
    <3>6. QED
      BY <3>2, <3>4, <3>5 DEF EachOnce
  <2>9. MemoryBounded
    BY FewChunks
  <2>10. QED
    BY <2>4, <2>5, <2>6, <2>7, <2>8, <2>9 DEF ChunksAccounted
<1>2. QED
  BY <1>1, YqueueInvariant, PTL

-----------------------------------------------------------------------------
(* The array of outbound pipes.                                            *)

DistSizes == IsFiniteSet(DistPipes) /\ DistHwm \in Nat \ {0} /\ DistParts \in Nat

Arrays == [arr : Seq(DistPipes), idx : [DistPipes -> Nat], matching : Nat, active : Nat,
           eligible : Nat, more : BOOLEAN]

DistEnds == [state : {"none", "active", "closing"}, out : BOOLEAN, inflight : 0..DistHwm]

(* Positions and entries of the array agree. *)
Indexed(d) ==
    /\ d \in Arrays
    /\ \A i \in 1..Len(d.arr) : d.idx[d.arr[i]] = i
    /\ \A p \in DistPipes : d.idx[p] <= Len(d.arr) /\ (d.idx[p] # 0 => d.arr[d.idx[p]] = p)

InOrder(d) == d.matching <= d.active /\ d.active <= d.eligible /\ d.eligible <= Len(d.arr)

(* Between the parts of a message of a PUB socket *)
Marks(d) ==
    /\ Indexed(d) /\ InOrder(d)
    /\ ~d.more => d.active = d.eligible /\ (role = "pub" => d.matching = 0)
    /\ d.more => role = "pub"

DistTypes ==
    /\ role \in {"pub", "sub"} /\ ends \in [DistPipes -> DistEnds] /\ took \in [DistPipes -> Nat]
    /\ due \subseteq DistPipes /\ parts \in Nat /\ forgotten \subseteq DistPipes

(* The array has the pipes that there are; one that is gone took nothing. *)
Listed ==
    \A p \in DistPipes : /\ dist.idx[p] = 0 <=> ends[p].state = "none"
                         /\ ends[p].state = "none" => took[p] = 0 /\ p \notin due

(* Within a message the matching pipes are those that began it, and they   *)
(* have room for the rest.                                                 *)
Going ==
    \A p \in DistPipes : ends[p].state = "active" =>
        /\ took[p] = IF p \in due THEN parts ELSE 0
        /\ dist.more => (dist.idx[p] <= dist.matching <=> p \in due)
        /\ dist.more /\ p \in due => ends[p].out /\ ends[p].inflight < DistHwm

LeftOut ==
    /\ \A p \in DistPipes : ends[p].state = "active" =>
        /\ dist.idx[p] > dist.eligible /\ p \notin forgotten => ~ends[p].out
        /\ ~ends[p].out => ends[p].inflight = DistHwm
        /\ role = "pub" /\ dist.idx[p] <= dist.eligible => ends[p].out
    /\ \A p \in forgotten : dist.idx[p] > dist.eligible
    /\ role = "pub" => forgotten = {}

DistInv == DistTypes /\ Marks(dist) /\ Listed /\ Going /\ LeftOut

-----------------------------------------------------------------------------
(* array_t. *)

(* What an array's entries and positions are.                               *)
LEMMA ArrayTypes ==
    ASSUME NEW d, Indexed(d)
    PROVE  /\ d.arr \in Seq(DistPipes) /\ d.arr \in [1..Len(d.arr) -> DistPipes]
           /\ Len(d.arr) \in Nat /\ d.idx \in [DistPipes -> Nat]
           /\ d.matching \in Nat /\ d.active \in Nat /\ d.eligible \in Nat /\ d.more \in BOOLEAN
           /\ d = [arr |-> d.arr, idx |-> d.idx, matching |-> d.matching, active |-> d.active,
                   eligible |-> d.eligible, more |-> d.more]
           /\ \A i \in 1..Len(d.arr) : d.arr[i] \in DistPipes /\ d.idx[d.arr[i]] = i
           /\ \A p \in DistPipes : /\ d.idx[p] \in 0..Len(d.arr)
                                   /\ d.idx[p] # 0 => d.arr[d.idx[p]] = p
BY DEF Indexed, Arrays

(* Entries change, and it is still a sequence.                              *)
LEMMA SeqExcept ==
    ASSUME NEW S, NEW s \in Seq(S), NEW t \in [1..Len(s) -> S]
    PROVE  t \in Seq(S) /\ Len(t) = Len(s)
OBVIOUS

(* Two entries change places, and nothing else moves. *)
Exchanged(d, r, i, j) ==
    /\ Indexed(r) /\ Len(r.arr) = Len(d.arr)
    /\ r.matching = d.matching /\ r.active = d.active /\ r.eligible = d.eligible /\ r.more = d.more
    /\ \A p \in DistPipes :
          r.idx[p] = IF d.idx[p] = i THEN j ELSE IF d.idx[p] = j THEN i ELSE d.idx[p]

(* array_t::swap changes the places of two entries.                         *)
LEMMA SwapFacts ==
    ASSUME NEW d, Indexed(d), NEW i \in 1..Len(d.arr), NEW j \in 1..Len(d.arr)
    PROVE  Exchanged(d, Swap(d, i, j), i, j)
<1> DEFINE p == d.arr[i]
           q == d.arr[j]
           r == Swap(d, i, j)
           arr == [d.arr EXCEPT ![i] = q, ![j] = p]
           idx == [d.idx EXCEPT ![p] = j, ![q] = i]
<1>1. /\ d.arr \in Seq(DistPipes) /\ d.arr \in [1..Len(d.arr) -> DistPipes]
      /\ Len(d.arr) \in Nat /\ d.idx \in [DistPipes -> Nat]
      /\ \A n \in 1..Len(d.arr) : d.arr[n] \in DistPipes /\ d.idx[d.arr[n]] = n
      /\ \A x \in DistPipes : /\ d.idx[x] \in 0..Len(d.arr)
                              /\ d.idx[x] # 0 => d.arr[d.idx[x]] = x
  BY ArrayTypes
<1>2. /\ r = [d EXCEPT !.arr = arr, !.idx = idx]
      /\ d \in Arrays
  BY DEF Swap, Indexed
<1>3. p \in DistPipes /\ q \in DistPipes /\ d.idx[p] = i /\ d.idx[q] = j
  BY <1>1
<1> HIDE DEF r, p, q
<1>4. arr \in [1..Len(d.arr) -> DistPipes] /\ idx \in [DistPipes -> Nat]
  BY <1>1, <1>3
<1>5. arr \in Seq(DistPipes) /\ Len(arr) = Len(d.arr)
  <2> HIDE DEF arr
  <2>1. QED
    BY <1>1, <1>4, SeqExcept
<1>6. \A x \in DistPipes :
         idx[x] = IF d.idx[x] = i THEN j ELSE IF d.idx[x] = j THEN i ELSE d.idx[x]
  <2> SUFFICES ASSUME NEW x \in DistPipes
               PROVE  idx[x] = IF d.idx[x] = i THEN j ELSE IF d.idx[x] = j THEN i ELSE d.idx[x]
    OBVIOUS
  <2>1. d.idx[x] = i <=> x = p
    BY <1>1, <1>3 DEF p
  <2>2. d.idx[x] = j <=> x = q
    BY <1>1, <1>3 DEF q
  <2>3. QED
    BY <1>1, <1>3, <2>1, <2>2
<1>7. \A n \in 1..Len(d.arr) : idx[arr[n]] = n
  BY <1>1, <1>3 DEF p, q
<1>8. \A x \in DistPipes : idx[x] <= Len(d.arr) /\ (idx[x] # 0 => arr[idx[x]] = x)
  <2> SUFFICES ASSUME NEW x \in DistPipes
               PROVE  idx[x] <= Len(d.arr) /\ (idx[x] # 0 => arr[idx[x]] = x)
    OBVIOUS
  <2>1. CASE x = p
    BY <2>1, <1>1, <1>3 DEF p, q
  <2>2. CASE x = q
    BY <2>2, <1>1, <1>3 DEF p, q
  <2>3. CASE x # p /\ x # q
    <3>1. idx[x] = d.idx[x] /\ idx[x] \in 0..Len(d.arr)
      BY <2>3, <1>1, <1>3
    <3>2. idx[x] # 0 => d.arr[idx[x]] = x /\ idx[x] # i /\ idx[x] # j
      BY <2>3, <3>1, <1>1 DEF p, q
    <3>3. idx[x] # 0 => arr[idx[x]] = d.arr[idx[x]]
      <4> HIDE DEF idx
      <4>1. QED
        BY <3>1, <3>2, <1>1, <1>3
    <3>4. QED
      BY <3>1, <3>2, <3>3
  <2>4. QED
    BY <2>1, <2>2, <2>3
<1> HIDE DEF arr, idx
<1>9. /\ r.arr = arr /\ r.idx = idx /\ r.matching = d.matching /\ r.active = d.active
      /\ r.eligible = d.eligible /\ r.more = d.more /\ r \in Arrays
  BY <1>2, <1>4, <1>5 DEF Arrays
<1>10. Indexed(r)
  BY <1>5, <1>7, <1>8, <1>9 DEF Indexed
<1>11. QED
  BY <1>5, <1>6, <1>9, <1>10 DEF Exchanged, r

(* An entry at the end. *)
LEMMA PushBackFacts ==
    ASSUME NEW d, Indexed(d), NEW p \in DistPipes, d.idx[p] = 0
    PROVE  LET r == PushBack(d, p) IN
           /\ Indexed(r) /\ Len(r.arr) = Len(d.arr) + 1
           /\ r.matching = d.matching /\ r.active = d.active /\ r.eligible = d.eligible
           /\ r.more = d.more
           /\ \A q \in DistPipes : r.idx[q] = IF q = p THEN Len(d.arr) + 1 ELSE d.idx[q]
<1> DEFINE r == PushBack(d, p)
           arr == Append(d.arr, p)
           idx == [d.idx EXCEPT ![p] = Len(d.arr) + 1]
<1>1. /\ d.arr \in Seq(DistPipes) /\ d.arr \in [1..Len(d.arr) -> DistPipes]
      /\ Len(d.arr) \in Nat /\ d.idx \in [DistPipes -> Nat]
      /\ \A n \in 1..Len(d.arr) : d.arr[n] \in DistPipes /\ d.idx[d.arr[n]] = n
      /\ \A x \in DistPipes : /\ d.idx[x] \in 0..Len(d.arr)
                              /\ d.idx[x] # 0 => d.arr[d.idx[x]] = x
  BY ArrayTypes
<1>2. /\ r = [d EXCEPT !.arr = arr, !.idx = idx]
      /\ d \in Arrays
  BY DEF PushBack, Indexed
<1>3. /\ arr \in Seq(DistPipes) /\ Len(arr) = Len(d.arr) + 1
      /\ arr[Len(d.arr) + 1] = p /\ \A n \in 1..Len(d.arr) : arr[n] = d.arr[n]
  BY <1>1
<1>4. /\ idx \in [DistPipes -> Nat]
      /\ \A q \in DistPipes : idx[q] = IF q = p THEN Len(d.arr) + 1 ELSE d.idx[q]
  BY <1>1
<1> HIDE DEF arr, idx, r
<1>5. \A n \in 1..Len(arr) : idx[arr[n]] = n
  <2> SUFFICES ASSUME NEW n \in 1..Len(arr) PROVE idx[arr[n]] = n
    OBVIOUS
  <2>1. CASE n = Len(d.arr) + 1
    BY <2>1, <1>3, <1>4
  <2>2. CASE n \in 1..Len(d.arr)
    <3>1. arr[n] = d.arr[n] /\ d.arr[n] \in DistPipes /\ d.idx[d.arr[n]] = n /\ n # 0
      BY <2>2, <1>1, <1>3
    <3>2. QED
      BY <3>1, <1>4
  <2>3. QED
    BY <2>1, <2>2, <1>1, <1>3
<1>6. \A x \in DistPipes : idx[x] <= Len(arr) /\ (idx[x] # 0 => arr[idx[x]] = x)
  <2> SUFFICES ASSUME NEW x \in DistPipes
               PROVE  idx[x] <= Len(arr) /\ (idx[x] # 0 => arr[idx[x]] = x)
    OBVIOUS
  <2>1. CASE x = p
    BY <2>1, <1>1, <1>3, <1>4
  <2>2. CASE x # p
    <3>1. idx[x] = d.idx[x] /\ d.idx[x] \in 0..Len(d.arr)
      BY <2>2, <1>1, <1>4
    <3>2. d.idx[x] # 0 => d.arr[d.idx[x]] = x /\ d.idx[x] \in 1..Len(d.arr)
      BY <3>1, <1>1
    <3>3. QED
      BY <3>1, <3>2, <1>1, <1>3, SMTT(30)
  <2>3. QED
    BY <2>1, <2>2
<1>7. /\ r.arr = arr /\ r.idx = idx /\ r.matching = d.matching /\ r.active = d.active
      /\ r.eligible = d.eligible /\ r.more = d.more /\ r \in Arrays
  BY <1>2, <1>3, <1>4 DEF Arrays
<1>8. Indexed(r)
  BY <1>5, <1>6, <1>7 DEF Indexed
<1>9. QED
  BY <1>3, <1>4, <1>7, <1>8 DEF r

(* The last entry takes the place of the one that goes. *)
LEMMA EraseFacts ==
    ASSUME NEW d, Indexed(d), NEW p \in DistPipes, d.idx[p] # 0
    PROVE  LET r == Erase(d, p) IN
           /\ Indexed(r) /\ Len(r.arr) = Len(d.arr) - 1
           /\ r.matching = d.matching /\ r.active = d.active /\ r.eligible = d.eligible
           /\ r.more = d.more
           /\ \A q \in DistPipes :
                 r.idx[q] = IF q = p THEN 0
                            ELSE IF d.idx[q] = Len(d.arr) THEN d.idx[p] ELSE d.idx[q]
<1> DEFINE r == Erase(d, p)
           fin == Last(d.arr)
           moved == [d.arr EXCEPT ![d.idx[p]] = fin]
           arr == Front(moved)
           idx == [[d.idx EXCEPT ![fin] = d.idx[p]] EXCEPT ![p] = 0]
<1>1. /\ d.arr \in Seq(DistPipes) /\ d.arr \in [1..Len(d.arr) -> DistPipes]
      /\ Len(d.arr) \in Nat /\ d.idx \in [DistPipes -> Nat]
      /\ \A n \in 1..Len(d.arr) : d.arr[n] \in DistPipes /\ d.idx[d.arr[n]] = n
      /\ \A x \in DistPipes : /\ d.idx[x] \in 0..Len(d.arr)
                              /\ d.idx[x] # 0 => d.arr[d.idx[x]] = x
  BY ArrayTypes
<1>2. /\ r = [d EXCEPT !.arr = arr, !.idx = idx]
      /\ d \in Arrays
  BY DEF Erase, Indexed
<1>3. /\ d.idx[p] \in 1..Len(d.arr) /\ Len(d.arr) \in Nat \ {0}
      /\ d.arr[d.idx[p]] = p /\ fin = d.arr[Len(d.arr)]
      /\ fin \in DistPipes /\ d.idx[fin] = Len(d.arr)
  BY <1>1 DEF Last
<1> HIDE DEF fin
<1>4. /\ moved \in [1..Len(d.arr) -> DistPipes]
      /\ moved \in Seq(DistPipes) /\ Len(moved) = Len(d.arr)
      /\ \A n \in 1..Len(d.arr) : moved[n] = IF n = d.idx[p] THEN fin ELSE d.arr[n]
  <2>1. /\ moved \in [1..Len(d.arr) -> DistPipes]
        /\ \A n \in 1..Len(d.arr) : moved[n] = IF n = d.idx[p] THEN fin ELSE d.arr[n]
    BY <1>1, <1>3
  <2> HIDE DEF moved
  <2>2. QED
    BY <1>1, <2>1, SeqExcept
<1> HIDE DEF moved
<1>5. /\ arr \in Seq(DistPipes) /\ Len(arr) = Len(d.arr) - 1
      /\ \A n \in 1..Len(d.arr) - 1 : arr[n] = moved[n]
  BY <1>3, <1>4 DEF Front
<1>6. /\ idx \in [DistPipes -> Nat]
      /\ \A q \in DistPipes :
            idx[q] = IF q = p THEN 0 ELSE IF q = fin THEN d.idx[p] ELSE d.idx[q]
  BY <1>1, <1>3
<1> HIDE DEF arr, idx, r
<1>7. \A q \in DistPipes : q = fin <=> d.idx[q] = Len(d.arr)
  BY <1>1, <1>3
<1>8. \A n \in 1..Len(arr) : idx[arr[n]] = n
  <2> SUFFICES ASSUME NEW n \in 1..Len(arr) PROVE idx[arr[n]] = n
    OBVIOUS
  <2>0. n \in 1..Len(d.arr) /\ n # Len(d.arr) /\ arr[n] = moved[n]
    BY <1>3, <1>5
  <2>1. CASE n = d.idx[p]
    <3>1. arr[n] = fin /\ fin # p
      BY <2>0, <2>1, <1>3, <1>4
    <3>2. QED
      BY <3>1, <2>1, <1>3, <1>6
  <2>2. CASE n # d.idx[p]
    <3>1. arr[n] = d.arr[n] /\ d.arr[n] # p /\ d.arr[n] # fin /\ d.arr[n] \in DistPipes
      BY <2>0, <2>2, <1>1, <1>3, <1>4
    <3>2. QED
      BY <3>1, <2>0, <1>1, <1>6
  <2>3. QED
    BY <2>1, <2>2
<1>9. \A x \in DistPipes : idx[x] <= Len(arr) /\ (idx[x] # 0 => arr[idx[x]] = x)
  <2> SUFFICES ASSUME NEW x \in DistPipes
               PROVE  idx[x] <= Len(arr) /\ (idx[x] # 0 => arr[idx[x]] = x)
    OBVIOUS
  <2>1. CASE x = p
    BY <2>1, <1>3, <1>5, <1>6
  <2>2. CASE x # p /\ x = fin
    <3>1. idx[x] = d.idx[p] /\ d.idx[p] # Len(d.arr) /\ d.idx[p] \in 1..Len(d.arr) - 1
      BY <2>2, <1>3, <1>6
    <3>2. QED
      BY <3>1, <2>2, <1>3, <1>4, <1>5
  <2>3. CASE x # p /\ x # fin
    <3>1. idx[x] = d.idx[x] /\ d.idx[x] # Len(d.arr) /\ d.idx[x] \in 0..Len(d.arr) - 1
      BY <2>3, <1>1, <1>3, <1>6, <1>7, SMTT(30)
    <3>2. d.idx[x] # 0 => d.arr[d.idx[x]] = x
      BY <1>1
    <3>3. d.idx[x] # 0 => d.idx[x] # d.idx[p]
      BY <3>2, <2>3, <1>3
    <3>4. QED
      BY <3>1, <3>2, <3>3, <1>3, <1>4, <1>5, SMTT(30)
  <2>4. QED
    BY <2>1, <2>2, <2>3
<1>10. /\ r.arr = arr /\ r.idx = idx /\ r.matching = d.matching /\ r.active = d.active
       /\ r.eligible = d.eligible /\ r.more = d.more /\ r \in Arrays
  BY <1>2, <1>5, <1>6 DEF Arrays
<1>11. Indexed(r)
  BY <1>8, <1>9, <1>10 DEF Indexed
<1>12. QED
  BY <1>5, <1>6, <1>7, <1>10, <1>11 DEF r

-----------------------------------------------------------------------------
(* dist_t. *)

(* Marks move, and entries and positions still agree.                       *)
LEMMA Remarked ==
    ASSUME NEW d, Indexed(d), NEW r,
           r.arr = d.arr, r.idx = d.idx, r.more = d.more, r \in Arrays
    PROVE  Indexed(r)
BY DEF Indexed

(* The pipe is in both arrays or in neither. *)
Listing(d, r, q) == r.idx[q] = 0 <=> d.idx[q] = 0

(* The pipe stays on its side of the marks. *)
StaysMatching(d, r, q) == d.idx[q] # 0 => (r.idx[q] <= r.matching <=> d.idx[q] <= d.matching)
StaysEligible(d, r, q) == d.idx[q] # 0 => (r.idx[q] <= r.eligible <=> d.idx[q] <= d.eligible)

(* dist_t::attach: the pipe is eligible and matches nothing yet.            *)
LEMMA AttachFacts ==
    ASSUME NEW d, Indexed(d), InOrder(d), ~d.more => d.active = d.eligible,
           NEW p \in DistPipes, d.idx[p] = 0, NEW r, r = AttachPipe(d, p)
    PROVE  /\ Indexed(r) /\ InOrder(r) /\ r.more = d.more /\ r.matching = d.matching
           /\ ~r.more => r.active = r.eligible
           /\ r.idx[p] > r.matching /\ r.idx[p] <= r.eligible
           /\ \A q \in DistPipes \ {p} :
                 Listing(d, r, q) /\ StaysMatching(d, r, q) /\ StaysEligible(d, r, q)
<1> DEFINE e == PushBack(d, p)
           s == Swap(e, d.eligible + 1, Len(e.arr))
<1>1. /\ Indexed(e) /\ Len(e.arr) = Len(d.arr) + 1
      /\ e.matching = d.matching /\ e.active = d.active /\ e.eligible = d.eligible
      /\ e.more = d.more
      /\ \A q \in DistPipes : e.idx[q] = IF q = p THEN Len(d.arr) + 1 ELSE d.idx[q]
  BY PushBackFacts
<1>2. /\ Len(d.arr) \in Nat /\ d.idx \in [DistPipes -> Nat]
      /\ d.matching \in Nat /\ d.active \in Nat /\ d.eligible \in Nat /\ d.more \in BOOLEAN
      /\ \A q \in DistPipes : d.idx[q] \in 0..Len(d.arr)
  BY ArrayTypes
<1>3. d.matching <= d.active /\ d.active <= d.eligible /\ d.eligible <= Len(d.arr)
  BY DEF InOrder
<1>4. r = IF d.more THEN [s EXCEPT !.eligible = @ + 1]
          ELSE [s EXCEPT !.active = @ + 1, !.eligible = @ + 1]
  BY DEF AttachPipe
<1> HIDE DEF e
<1>5. Exchanged(e, s, d.eligible + 1, Len(e.arr))
  BY <1>1, <1>2, <1>3, SwapFacts
<1> HIDE DEF s
<1>6. /\ Indexed(s) /\ Len(s.arr) = Len(d.arr) + 1
      /\ s.matching = d.matching /\ s.active = d.active /\ s.eligible = d.eligible
      /\ s.more = d.more
      /\ \A q \in DistPipes :
            s.idx[q] = IF e.idx[q] = d.eligible + 1 THEN Len(e.arr)
                       ELSE IF e.idx[q] = Len(e.arr) THEN d.eligible + 1 ELSE e.idx[q]
  BY <1>1, <1>5 DEF Exchanged
<1>7. s \in Arrays
  BY <1>6 DEF Indexed
<1>8. /\ r.arr = s.arr /\ r.idx = s.idx /\ r.more = d.more /\ r.matching = d.matching
      /\ r.eligible = d.eligible + 1 /\ r.active = (IF d.more THEN d.active ELSE d.active + 1)
      /\ r \in Arrays
  <2>1. CASE d.more
    <3>1. r = [s EXCEPT !.eligible = @ + 1]
      BY <1>4, <2>1
    <3>2. /\ r \in Arrays /\ r.arr = s.arr /\ r.idx = s.idx /\ r.more = s.more
          /\ r.matching = s.matching /\ r.eligible = s.eligible + 1
          /\ r.active = s.active
      BY <3>1, <1>7, SMTT(30) DEF Arrays
    <3>3. QED
      BY <3>2, <2>1, <1>6
  <2>2. CASE ~d.more
    <3>1. /\ r = [s EXCEPT !.active = s.active + 1, !.eligible = s.eligible + 1]
          /\ s.active + 1 \in Nat /\ s.eligible + 1 \in Nat
      BY <1>4, <1>7, <2>2 DEF Arrays
    <3>2. /\ r \in Arrays /\ r.arr = s.arr /\ r.idx = s.idx /\ r.more = s.more
          /\ r.matching = s.matching /\ r.eligible = s.eligible + 1
          /\ r.active = s.active + 1
      BY <3>1, <1>7 DEF Arrays
    <3>3. QED
      BY <3>2, <2>2, <1>6
  <2>3. QED
    BY <2>1, <2>2
<1>9. Indexed(r)
  BY <1>6, <1>8, Remarked
<1>10. InOrder(r) /\ (~r.more => r.active = r.eligible)
  BY <1>2, <1>3, <1>6, <1>8 DEF InOrder
<1>11. r.idx[p] = d.eligible + 1
  BY <1>1, <1>2, <1>3, <1>6, <1>8
<1>12. ASSUME NEW q \in DistPipes \ {p}
       PROVE  Listing(d, r, q) /\ StaysMatching(d, r, q) /\ StaysEligible(d, r, q)
  <2>1. r.idx[q] = IF d.idx[q] = d.eligible + 1 THEN Len(d.arr) + 1 ELSE d.idx[q]
    BY <1>1, <1>2, <1>3, <1>6, <1>8
  <2>2. d.idx[q] \in 0..Len(d.arr)
    BY <1>2
  <2>3. QED
    BY <2>1, <2>2, <1>2, <1>3, <1>8 DEF Listing, StaysMatching, StaysEligible
<1>13. QED
  BY <1>2, <1>3, <1>8, <1>9, <1>10, <1>11, <1>12

(* dist_t::match: the pipe is before the first mark if it is eligible.      *)
LEMMA MatchFacts ==
    ASSUME NEW d, Indexed(d), InOrder(d), d.active = d.eligible,
           NEW p \in DistPipes, NEW r, r = Match(d, p)
    PROVE  /\ Indexed(r) /\ InOrder(r) /\ r.more = d.more /\ r.active = d.active
           /\ r.eligible = d.eligible
           /\ \A q \in DistPipes : /\ Listing(d, r, q) /\ StaysEligible(d, r, q)
                                   /\ q # p => StaysMatching(d, r, q)
           /\ d.idx[p] # 0 => (r.idx[p] <= r.matching <=> d.idx[p] <= d.eligible)
<1>1. /\ Len(d.arr) \in Nat /\ d.idx \in [DistPipes -> Nat]
      /\ d.matching \in Nat /\ d.active \in Nat /\ d.eligible \in Nat /\ d.more \in BOOLEAN
      /\ \A q \in DistPipes : /\ d.idx[q] \in 0..Len(d.arr)
                              /\ d.idx[q] # 0 => d.arr[d.idx[q]] = q
  BY ArrayTypes
<1>2. d.matching <= d.active /\ d.active <= d.eligible /\ d.eligible <= Len(d.arr)
  BY DEF InOrder
<1>3. CASE d.idx[p] <= d.matching \/ d.idx[p] > d.eligible
  <2>1. r = d
    BY <1>3 DEF Match
  <2>2. d.idx[p] # 0 => (d.idx[p] <= d.matching <=> d.idx[p] <= d.eligible)
    BY <1>1, <1>2, <1>3
  <2>3. QED
    BY <2>1, <2>2 DEF Listing, StaysMatching, StaysEligible
<1>4. CASE ~(d.idx[p] <= d.matching \/ d.idx[p] > d.eligible)
  <2> DEFINE s == Swap(d, d.idx[p], d.matching + 1)
  <2>1. r = [s EXCEPT !.matching = @ + 1]
    BY <1>4 DEF Match
  <2>2. d.idx[p] \in 1..Len(d.arr) /\ d.matching + 1 \in 1..Len(d.arr)
    BY <1>1, <1>2, <1>4
  <2>3. Exchanged(d, s, d.idx[p], d.matching + 1)
    BY <2>2, SwapFacts
  <2> HIDE DEF s
  <2>4. s \in Arrays
    BY <2>3 DEF Exchanged, Indexed
  <2>5. /\ r.arr = s.arr /\ r.idx = s.idx /\ r.more = s.more /\ r.matching = d.matching + 1
        /\ r.eligible = d.eligible /\ r.active = d.active /\ r \in Arrays
    <3>1. /\ s.matching = d.matching /\ s.active = d.active /\ s.eligible = d.eligible
          /\ s.more = d.more
      BY <2>3 DEF Exchanged
    <3>2. /\ r \in Arrays /\ r.arr = s.arr /\ r.idx = s.idx /\ r.more = s.more
          /\ r.matching = s.matching + 1 /\ r.eligible = s.eligible /\ r.active = s.active
      BY <2>1, <2>4, SMTT(30) DEF Arrays
    <3>3. QED
      BY <3>1, <3>2
  <2>6. Indexed(r)
    BY <2>3, <2>5, Remarked DEF Exchanged
  <2>7. InOrder(r) /\ r.more = d.more
    BY <1>1, <1>2, <1>4, <2>3, <2>5 DEF InOrder, Exchanged
  <2>8. \A q \in DistPipes :
           /\ d.idx[q] \in Nat
           /\ r.idx[q] = IF q = p THEN d.matching + 1
                         ELSE IF d.idx[q] = d.matching + 1 THEN d.idx[p] ELSE d.idx[q]
    <3>1. \A q \in DistPipes : d.idx[q] = d.idx[p] <=> q = p
      BY <1>1, <2>2
    <3>2. QED
      BY <2>3, <2>5, <3>1, <1>1 DEF Exchanged
  <2>9. ASSUME NEW q \in DistPipes
        PROVE  /\ Listing(d, r, q) /\ StaysEligible(d, r, q)
               /\ q # p => StaysMatching(d, r, q)
    BY <2>5, <2>8, <1>1, <1>2, <1>4 DEF Listing, StaysMatching, StaysEligible
  <2>10. r.idx[p] <= r.matching /\ d.idx[p] <= d.eligible
    BY <1>1, <1>4, <2>5, <2>8
  <2>11. QED
    BY <2>5, <2>6, <2>7, <2>9, <2>10
<1>5. QED
  BY <1>3, <1>4

(* A pipe that refuses goes behind the marks (dist_t::write).               *)
LEMMA LeaveOutFacts ==
    ASSUME NEW d, Indexed(d), InOrder(d), NEW p \in DistPipes, d.idx[p] \in 1..d.matching,
           NEW r, r = LeaveOut(d, p)
    PROVE  /\ Indexed(r) /\ InOrder(r) /\ r.more = d.more /\ Len(r.arr) = Len(d.arr)
           /\ r.matching = d.matching - 1 /\ r.active = d.active - 1
           /\ r.eligible = d.eligible - 1 /\ r.idx[p] = d.eligible
           /\ \A q \in DistPipes \ {p} :
                 /\ Listing(d, r, q) /\ StaysMatching(d, r, q) /\ StaysEligible(d, r, q)
                 /\ d.idx[q] < d.idx[p] => r.idx[q] = d.idx[q]
                 /\ d.idx[q] > d.idx[p] => r.idx[q] >= d.idx[p]
<1> DEFINE x == d.idx[p]
           a == Swap(d, x, d.matching)
           b == Swap(a, a.idx[p], d.active)
           c == Swap(b, d.active, d.eligible)
<1>1. /\ Len(d.arr) \in Nat /\ d.idx \in [DistPipes -> Nat]
      /\ d.matching \in Nat /\ d.active \in Nat /\ d.eligible \in Nat /\ d.more \in BOOLEAN
      /\ \A q \in DistPipes : /\ d.idx[q] \in 0..Len(d.arr)
                              /\ d.idx[q] # 0 => d.arr[d.idx[q]] = q
  BY ArrayTypes
<1>2. d.matching <= d.active /\ d.active <= d.eligible /\ d.eligible <= Len(d.arr)
  BY DEF InOrder
<1>3. r = [c EXCEPT !.matching = @ - 1, !.active = @ - 1, !.eligible = @ - 1]
  BY DEF LeaveOut
<1>4. \A q \in DistPipes : d.idx[q] = x <=> q = p
  BY <1>1
<1>5. /\ x \in 1..Len(d.arr) /\ d.matching \in 1..Len(d.arr) /\ d.active \in 1..Len(d.arr)
      /\ d.eligible \in 1..Len(d.arr)
  BY <1>1, <1>2
<1> HIDE DEF x
<1>6. Exchanged(d, a, x, d.matching)
  BY <1>5, SwapFacts
<1> HIDE DEF a
<1>7. a.idx[p] = d.matching
  BY <1>6 DEF Exchanged, x
<1>8. Exchanged(a, b, d.matching, d.active)
  <2>1. Indexed(a) /\ Len(a.arr) = Len(d.arr)
    BY <1>6 DEF Exchanged
  <2>2. b = Swap(a, d.matching, d.active)
    BY <1>7
  <2> HIDE DEF b
  <2>3. QED
    BY <1>5, <2>1, <2>2, SwapFacts
<1> HIDE DEF b
<1>9. Exchanged(b, c, d.active, d.eligible)
  <2>1. Indexed(b) /\ Len(b.arr) = Len(d.arr)
    BY <1>6, <1>8 DEF Exchanged
  <2>2. QED
    BY <1>5, <2>1, SwapFacts
<1> HIDE DEF c
<1>10. /\ Indexed(c) /\ Len(c.arr) = Len(d.arr) /\ c.more = d.more
       /\ c.matching = d.matching /\ c.active = d.active /\ c.eligible = d.eligible
  BY <1>6, <1>8, <1>9 DEF Exchanged
<1>11. c \in Arrays
  BY <1>10 DEF Indexed
<1>12. /\ r \in Arrays /\ r.arr = c.arr /\ r.idx = c.idx /\ r.more = c.more
       /\ r.matching = c.matching - 1 /\ r.active = c.active - 1 /\ r.eligible = c.eligible - 1
  <2>1. /\ c.matching - 1 \in Nat /\ c.active - 1 \in Nat /\ c.eligible - 1 \in Nat
    BY <1>1, <1>5, <1>10
  <2>2. r = [c EXCEPT !.matching = c.matching - 1, !.active = c.active - 1,
                      !.eligible = c.eligible - 1]
    BY <1>3
  <2>3. QED
    BY <1>11, <2>1, <2>2 DEF Arrays
<1>13. Indexed(r)
  BY <1>10, <1>12, Remarked
<1>14. InOrder(r)
  BY <1>1, <1>2, <1>5, <1>10, <1>12 DEF InOrder
<1>15. ASSUME NEW q \in DistPipes
       PROVE  /\ a.idx[q] = IF q = p THEN d.matching
                            ELSE IF d.idx[q] = d.matching THEN x ELSE d.idx[q]
              /\ b.idx[q] = IF a.idx[q] = d.matching THEN d.active
                            ELSE IF a.idx[q] = d.active THEN d.matching ELSE a.idx[q]
              /\ r.idx[q] = IF b.idx[q] = d.active THEN d.eligible
                            ELSE IF b.idx[q] = d.eligible THEN d.active ELSE b.idx[q]
  BY <1>4, <1>6, <1>8, <1>9, <1>12 DEF Exchanged
<1>16. r.idx[p] = d.eligible
  BY <1>15
<1>17. ASSUME NEW q \in DistPipes \ {p}
       PROVE  /\ Listing(d, r, q) /\ StaysMatching(d, r, q) /\ StaysEligible(d, r, q)
              /\ d.idx[q] < x => r.idx[q] = d.idx[q]
              /\ d.idx[q] > x => r.idx[q] >= x
  <2>1. d.idx[q] \in 0..Len(d.arr) /\ d.idx[q] # x
    BY <1>1, <1>4
  <2>2. x <= d.matching
    BY DEF x
  <2>3. QED
    BY <2>1, <2>2, <1>1, <1>2, <1>5, <1>10, <1>12, <1>15, SMTT(30)
    DEF Listing, StaysMatching, StaysEligible
<1>18. QED
  BY <1>10, <1>12, <1>13, <1>14, <1>16, <1>17 DEF x

(* dist_t::activated: the pipe is eligible, and the others that are stay so. *)
LEMMA ActivateFacts ==
    ASSUME NEW d, Indexed(d), InOrder(d), ~d.more => d.active = d.eligible,
           NEW p \in DistPipes, d.idx[p] # 0, NEW r, r = ActivatePipe(d, p)
    PROVE  /\ Indexed(r) /\ InOrder(r) /\ r.more = d.more /\ r.matching = d.matching
           /\ ~r.more => r.active = r.eligible
           /\ r.idx[p] <= r.eligible
           /\ \A q \in DistPipes :
                 /\ Listing(d, r, q)
                 /\ d.idx[q] # 0 /\ d.idx[q] <= d.eligible => r.idx[q] <= r.eligible
                 /\ d.idx[p] > d.eligible => StaysMatching(d, r, q)
                 /\ d.idx[p] > d.eligible /\ q # p => StaysEligible(d, r, q)
<1> DEFINE x == d.idx[p]
           s == Swap(d, x, d.eligible + 1)
           e == [s EXCEPT !.eligible = @ + 1]
           t == Swap(e, e.eligible, d.active + 1)
<1>1. /\ Len(d.arr) \in Nat /\ d.idx \in [DistPipes -> Nat]
      /\ d.matching \in Nat /\ d.active \in Nat /\ d.eligible \in Nat /\ d.more \in BOOLEAN
      /\ \A q \in DistPipes : /\ d.idx[q] \in 0..Len(d.arr)
                              /\ d.idx[q] # 0 => d.arr[d.idx[q]] = q
  BY ArrayTypes
<1>2. d.matching <= d.active /\ d.active <= d.eligible /\ d.eligible <= Len(d.arr)
  BY DEF InOrder
<1>3. \A q \in DistPipes : d.idx[q] = x <=> q = p
  BY <1>1
<1>4. CASE d.eligible = Len(d.arr)
  <2>1. r = d
    BY <1>1, <1>2, <1>4 DEF ActivatePipe
  <2>2. QED
    BY <1>1, <1>4, <2>1 DEF Listing, StaysMatching, StaysEligible
<1>5. CASE d.eligible < Len(d.arr)
  <2>1. r = IF ~d.more /\ d.active < Len(d.arr) THEN [t EXCEPT !.active = @ + 1] ELSE e
    BY <1>5 DEF ActivatePipe
  <2>2. x \in 1..Len(d.arr) /\ d.eligible + 1 \in 1..Len(d.arr)
    BY <1>1, <1>5
  <2> HIDE DEF x
  <2>3. Exchanged(d, s, x, d.eligible + 1)
    BY <2>2, SwapFacts
  <2> HIDE DEF s
  <2>4. s \in Arrays
    BY <2>3 DEF Exchanged, Indexed
  <2>5. /\ e \in Arrays /\ e.arr = s.arr /\ e.idx = s.idx /\ e.more = s.more
        /\ e.matching = s.matching /\ e.active = s.active /\ e.eligible = s.eligible + 1
    <3>1. e = [s EXCEPT !.eligible = s.eligible + 1] /\ s.eligible + 1 \in Nat
      BY <2>4 DEF Arrays
    <3> HIDE DEF e
    <3>2. QED
      BY <2>4, <3>1 DEF Arrays
  <2> HIDE DEF e
  <2>6. /\ Indexed(e) /\ Len(e.arr) = Len(d.arr) /\ e.more = d.more
        /\ e.matching = d.matching /\ e.active = d.active /\ e.eligible = d.eligible + 1
    BY <2>3, <2>5, Remarked DEF Exchanged
  <2>7. \A q \in DistPipes :
           /\ d.idx[q] \in 0..Len(d.arr)
           /\ e.idx[q] = IF q = p THEN d.eligible + 1
                         ELSE IF d.idx[q] = d.eligible + 1 THEN x ELSE d.idx[q]
    BY <1>1, <1>3, <2>3, <2>5 DEF Exchanged
  <2>8. CASE d.more
    <3>1. r = e
      BY <2>1, <2>8
    <3>2. InOrder(r)
      BY <1>1, <1>2, <1>5, <2>6, <3>1 DEF InOrder
    <3>3. ASSUME NEW q \in DistPipes
          PROVE  /\ Listing(d, r, q)
                 /\ d.idx[q] # 0 /\ d.idx[q] <= d.eligible => r.idx[q] <= r.eligible
                 /\ d.idx[p] > d.eligible => StaysMatching(d, r, q)
                 /\ d.idx[p] > d.eligible /\ q # p => StaysEligible(d, r, q)
      BY <1>1, <1>2, <2>2, <2>6, <2>7, <3>1
      DEF Listing, StaysMatching, StaysEligible, x
    <3>4. r.idx[p] <= r.eligible
      BY <1>1, <2>6, <2>7, <3>1
    <3>5. QED
      BY <2>6, <2>8, <3>1, <3>2, <3>3, <3>4
  <2>9. CASE ~d.more
    <3>1. d.active = d.eligible /\ d.active < Len(d.arr) /\ e.eligible = d.active + 1
      BY <1>5, <2>6, <2>9
    <3>2. r = [t EXCEPT !.active = @ + 1]
      BY <2>1, <2>9, <3>1
    <3>3. Exchanged(e, t, d.active + 1, d.active + 1)
      BY <2>2, <2>6, <3>1, SwapFacts
    <3> HIDE DEF t
    <3>4. t \in Arrays
      BY <3>3 DEF Exchanged, Indexed
    <3>5. /\ r \in Arrays /\ r.arr = t.arr /\ r.idx = t.idx /\ r.more = t.more
          /\ r.matching = t.matching /\ r.active = t.active + 1 /\ r.eligible = t.eligible
      <4>1. r = [t EXCEPT !.active = t.active + 1] /\ t.active + 1 \in Nat
        BY <3>2, <3>4 DEF Arrays
      <4>2. QED
        BY <3>4, <4>1 DEF Arrays
    <3>6. /\ Indexed(r) /\ Len(r.arr) = Len(d.arr) /\ r.more = d.more
          /\ r.matching = d.matching /\ r.active = d.active + 1 /\ r.eligible = d.eligible + 1
      BY <2>6, <3>3, <3>5, Remarked DEF Exchanged
    <3>7. \A q \in DistPipes : r.idx[q] = e.idx[q]
      BY <3>3, <3>5 DEF Exchanged
    <3>8. InOrder(r)
      BY <1>1, <1>2, <1>5, <3>1, <3>6 DEF InOrder
    <3>9. ASSUME NEW q \in DistPipes
          PROVE  /\ Listing(d, r, q)
                 /\ d.idx[q] # 0 /\ d.idx[q] <= d.eligible => r.idx[q] <= r.eligible
                 /\ d.idx[p] > d.eligible => StaysMatching(d, r, q)
                 /\ d.idx[p] > d.eligible /\ q # p => StaysEligible(d, r, q)
      BY <1>1, <1>2, <2>2, <2>7, <3>6, <3>7, SMTT(30)
      DEF Listing, StaysMatching, StaysEligible, x
    <3>10. r.idx[p] <= r.eligible
      BY <1>1, <2>7, <3>6, <3>7
    <3>11. QED
      BY <3>1, <3>6, <3>8, <3>9, <3>10
  <2>10. QED
    BY <2>8, <2>9
<1>6. QED
  BY <1>1, <1>2, <1>4, <1>5

(* A pipe that goes crosses the marks one by one. *)
LEMMA RemoveFacts ==
    ASSUME NEW d, Indexed(d), InOrder(d), NEW p \in DistPipes, d.idx[p] # 0,
           NEW r, r = RemovePipe(d, p)
    PROVE  /\ Indexed(r) /\ InOrder(r) /\ r.more = d.more /\ r.idx[p] = 0
           /\ d.active = d.eligible => r.active = r.eligible
           /\ d.matching = 0 => r.matching = 0
           /\ \A q \in DistPipes \ {p} :
                 Listing(d, r, q) /\ StaysMatching(d, r, q) /\ StaysEligible(d, r, q)
<1> DEFINE a == IF d.idx[p] <= d.matching
                THEN [Swap(d, d.idx[p], d.matching) EXCEPT !.matching = @ - 1] ELSE d
           b == IF a.idx[p] <= a.active
                THEN [Swap(a, a.idx[p], a.active) EXCEPT !.active = @ - 1] ELSE a
           c == IF b.idx[p] <= b.eligible
                THEN [Swap(b, b.idx[p], b.eligible) EXCEPT !.eligible = @ - 1] ELSE b
<1>1. /\ Len(d.arr) \in Nat /\ d.idx \in [DistPipes -> Nat]
      /\ d.matching \in Nat /\ d.active \in Nat /\ d.eligible \in Nat /\ d.more \in BOOLEAN
      /\ \A q \in DistPipes : /\ d.idx[q] \in 0..Len(d.arr)
                              /\ d.idx[q] # 0 => d.arr[d.idx[q]] = q
  BY ArrayTypes
<1>2. d.matching <= d.active /\ d.active <= d.eligible /\ d.eligible <= Len(d.arr)
  BY DEF InOrder
<1>3. \A q \in DistPipes : d.idx[q] = d.idx[p] <=> q = p
  BY <1>1
<1>4. r = Erase(c, p)
  BY DEF RemovePipe
<1>5. /\ Indexed(a) /\ Len(a.arr) = Len(d.arr) /\ a.more = d.more
      /\ a.active = d.active /\ a.eligible = d.eligible
      /\ a.matching = IF d.idx[p] <= d.matching THEN d.matching - 1 ELSE d.matching
      /\ \A q \in DistPipes :
            a.idx[q] = IF d.idx[p] > d.matching THEN d.idx[q]
                       ELSE IF q = p THEN d.matching
                       ELSE IF d.idx[q] = d.matching THEN d.idx[p] ELSE d.idx[q]
  <2>0. d.idx[p] \in 1..Len(d.arr) /\ d.matching \in 0..Len(d.arr)
        /\ Len(d.arr) \in Nat /\ Indexed(d)
        /\ \A q \in DistPipes : d.idx[q] = d.idx[p] <=> q = p
    BY <1>1, <1>2, <1>3
  <2>1. CASE d.idx[p] <= d.matching
    <3> DEFINE s == Swap(d, d.idx[p], d.matching)
    <3>1. a = [s EXCEPT !.matching = @ - 1]
      BY <2>1
    <3>2. d.idx[p] \in 1..Len(d.arr) /\ d.matching \in 1..Len(d.arr)
      BY <2>0, <2>1
    <3> HIDE DEF a
    <3>3. Exchanged(d, s, d.idx[p], d.matching)
      BY <2>0, <3>2, SwapFacts
    <3> HIDE DEF s
    <3>4. s \in Arrays /\ s.matching = d.matching
      BY <3>3 DEF Exchanged, Indexed
    <3>5. a = [s EXCEPT !.matching = s.matching - 1] /\ s.matching - 1 \in Nat
      BY <2>0, <3>1, <3>2, <3>4
    <3>6. /\ a \in Arrays /\ a.arr = s.arr /\ a.idx = s.idx /\ a.more = s.more
          /\ a.matching = s.matching - 1 /\ a.active = s.active /\ a.eligible = s.eligible
      BY <3>4, <3>5 DEF Arrays
    <3>7. /\ Indexed(a) /\ Len(a.arr) = Len(d.arr) /\ a.more = d.more
          /\ a.active = d.active /\ a.eligible = d.eligible /\ a.matching = d.matching - 1
      BY <3>3, <3>6, Remarked DEF Exchanged
    <3>8. \A q \in DistPipes :
             a.idx[q] = IF q = p THEN d.matching
                        ELSE IF d.idx[q] = d.matching THEN d.idx[p] ELSE d.idx[q]
      BY <2>0, <3>3, <3>6 DEF Exchanged
    <3>9. QED
      BY <2>0, <2>1, <3>7, <3>8
  <2>2. CASE ~(d.idx[p] <= d.matching)
    <3>1. a = d
      BY <2>2
    <3>2. ~(d.idx[p] <= d.matching) /\ d.idx[p] > d.matching
      BY <2>0, <2>2
    <3> HIDE DEF a
    <3>3. QED
      BY <2>0, <3>1, <3>2
  <2>3. QED
    BY <2>1, <2>2
<1> HIDE DEF a
<1>6. /\ Len(a.arr) = Len(d.arr)
      /\ \A q \in DistPipes : a.idx[q] \in 0..Len(d.arr) /\ (q # p => a.idx[q] # a.idx[p])
      /\ a.idx[p] # 0 /\ a.idx[p] >= d.idx[p]
  <2>1. Len(a.arr) = Len(d.arr) /\ a.idx[p] # 0 /\ a.idx[p] >= d.idx[p]
    BY <1>1, <1>5
  <2>2. \A q \in DistPipes : /\ a.idx[q] \in 0..Len(a.arr)
                             /\ a.idx[q] # 0 => a.arr[a.idx[q]] = q
    BY <1>5, ArrayTypes
  <2>3. QED
    BY <2>1, <2>2
<1>7. /\ Indexed(b) /\ Len(b.arr) = Len(a.arr) /\ b.more = a.more
      /\ b.matching = a.matching /\ b.eligible = a.eligible
      /\ b.active = IF a.idx[p] <= a.active THEN a.active - 1 ELSE a.active
      /\ \A q \in DistPipes :
            b.idx[q] = IF a.idx[p] > a.active THEN a.idx[q]
                       ELSE IF q = p THEN a.active
                       ELSE IF a.idx[q] = a.active THEN a.idx[p] ELSE a.idx[q]
  <2>0. a.idx[p] \in 1..Len(a.arr) /\ a.active \in 0..Len(a.arr)
        /\ Len(a.arr) \in Nat /\ Indexed(a)
        /\ \A q \in DistPipes : a.idx[q] = a.idx[p] <=> q = p
    BY <1>1, <1>2, <1>5, <1>6
  <2>1. CASE a.idx[p] <= a.active
    <3> DEFINE s == Swap(a, a.idx[p], a.active)
    <3>1. b = [s EXCEPT !.active = @ - 1]
      BY <2>1
    <3>2. a.idx[p] \in 1..Len(a.arr) /\ a.active \in 1..Len(a.arr)
      BY <2>0, <2>1
    <3> HIDE DEF b
    <3>3. Exchanged(a, s, a.idx[p], a.active)
      BY <2>0, <3>2, SwapFacts
    <3> HIDE DEF s
    <3>4. s \in Arrays /\ s.active = a.active
      BY <3>3 DEF Exchanged, Indexed
    <3>5. b = [s EXCEPT !.active = s.active - 1] /\ s.active - 1 \in Nat
      BY <2>0, <3>1, <3>2, <3>4
    <3>6. /\ b \in Arrays /\ b.arr = s.arr /\ b.idx = s.idx /\ b.more = s.more
          /\ b.active = s.active - 1 /\ b.matching = s.matching /\ b.eligible = s.eligible
      BY <3>4, <3>5 DEF Arrays
    <3>7. /\ Indexed(b) /\ Len(b.arr) = Len(a.arr) /\ b.more = a.more
          /\ b.matching = a.matching /\ b.eligible = a.eligible /\ b.active = a.active - 1
      BY <3>3, <3>6, Remarked DEF Exchanged
    <3>8. \A q \in DistPipes :
             b.idx[q] = IF q = p THEN a.active
                        ELSE IF a.idx[q] = a.active THEN a.idx[p] ELSE a.idx[q]
      BY <2>0, <3>3, <3>6 DEF Exchanged
    <3>9. QED
      BY <2>0, <2>1, <3>7, <3>8
  <2>2. CASE ~(a.idx[p] <= a.active)
    <3>1. b = a
      BY <2>2
    <3>2. ~(a.idx[p] <= a.active) /\ a.idx[p] > a.active
      BY <2>0, <2>2
    <3> HIDE DEF b
    <3>3. QED
      BY <2>0, <3>1, <3>2
  <2>3. QED
    BY <2>1, <2>2
<1> HIDE DEF b
<1>8. /\ Len(b.arr) = Len(d.arr)
      /\ \A q \in DistPipes : b.idx[q] \in 0..Len(d.arr) /\ (q # p => b.idx[q] # b.idx[p])
      /\ b.idx[p] # 0 /\ b.idx[p] >= a.idx[p]
  <2>1. Len(b.arr) = Len(d.arr) /\ b.idx[p] # 0 /\ b.idx[p] >= a.idx[p]
    BY <1>1, <1>5, <1>6, <1>7
  <2>2. \A q \in DistPipes : /\ b.idx[q] \in 0..Len(b.arr)
                             /\ b.idx[q] # 0 => b.arr[b.idx[q]] = q
    BY <1>7, ArrayTypes
  <2>3. QED
    BY <2>1, <2>2
<1>9. /\ Indexed(c) /\ Len(c.arr) = Len(b.arr) /\ c.more = b.more
      /\ c.matching = b.matching /\ c.active = b.active
      /\ c.eligible = IF b.idx[p] <= b.eligible THEN b.eligible - 1 ELSE b.eligible
      /\ \A q \in DistPipes :
            c.idx[q] = IF b.idx[p] > b.eligible THEN b.idx[q]
                       ELSE IF q = p THEN b.eligible
                       ELSE IF b.idx[q] = b.eligible THEN b.idx[p] ELSE b.idx[q]
  <2>0. b.idx[p] \in 1..Len(b.arr) /\ b.eligible \in 0..Len(b.arr)
        /\ Len(b.arr) \in Nat /\ Indexed(b)
        /\ \A q \in DistPipes : b.idx[q] = b.idx[p] <=> q = p
    BY <1>1, <1>2, <1>5, <1>6, <1>7, <1>8
  <2>1. CASE b.idx[p] <= b.eligible
    <3> DEFINE s == Swap(b, b.idx[p], b.eligible)
    <3>1. c = [s EXCEPT !.eligible = @ - 1]
      BY <2>1
    <3>2. b.idx[p] \in 1..Len(b.arr) /\ b.eligible \in 1..Len(b.arr)
      BY <2>0, <2>1
    <3> HIDE DEF c
    <3>3. Exchanged(b, s, b.idx[p], b.eligible)
      BY <2>0, <3>2, SwapFacts
    <3> HIDE DEF s
    <3>4. s \in Arrays /\ s.eligible = b.eligible
      BY <3>3 DEF Exchanged, Indexed
    <3>5. c = [s EXCEPT !.eligible = s.eligible - 1] /\ s.eligible - 1 \in Nat
      BY <2>0, <3>1, <3>2, <3>4
    <3>6. /\ c \in Arrays /\ c.arr = s.arr /\ c.idx = s.idx /\ c.more = s.more
          /\ c.eligible = s.eligible - 1 /\ c.matching = s.matching /\ c.active = s.active
      BY <3>4, <3>5 DEF Arrays
    <3>7. /\ Indexed(c) /\ Len(c.arr) = Len(b.arr) /\ c.more = b.more
          /\ c.matching = b.matching /\ c.active = b.active /\ c.eligible = b.eligible - 1
      BY <3>3, <3>6, Remarked DEF Exchanged
    <3>8. \A q \in DistPipes :
             c.idx[q] = IF q = p THEN b.eligible
                        ELSE IF b.idx[q] = b.eligible THEN b.idx[p] ELSE b.idx[q]
      BY <2>0, <3>3, <3>6 DEF Exchanged
    <3>9. QED
      BY <2>0, <2>1, <3>7, <3>8
  <2>2. CASE ~(b.idx[p] <= b.eligible)
    <3>1. c = b
      BY <2>2
    <3>2. ~(b.idx[p] <= b.eligible) /\ b.idx[p] > b.eligible
      BY <2>0, <2>2
    <3> HIDE DEF c
    <3>3. QED
      BY <2>0, <3>1, <3>2
  <2>3. QED
    BY <2>1, <2>2
<1> HIDE DEF c
<1>10. c.idx[p] # 0 /\ Len(c.arr) = Len(d.arr) /\ c.idx[p] > c.eligible
  BY <1>1, <1>2, <1>5, <1>6, <1>7, <1>8, <1>9, SMTT(30)
<1>11. /\ Indexed(r) /\ Len(r.arr) = Len(c.arr) - 1
       /\ r.matching = c.matching /\ r.active = c.active /\ r.eligible = c.eligible
       /\ r.more = c.more
       /\ \A q \in DistPipes :
             r.idx[q] = IF q = p THEN 0
                        ELSE IF c.idx[q] = Len(c.arr) THEN c.idx[p] ELSE c.idx[q]
  BY <1>4, <1>9, <1>10, EraseFacts
<1>12. /\ r.matching = IF d.idx[p] <= d.matching THEN d.matching - 1 ELSE d.matching
       /\ r.active = IF d.idx[p] <= d.active THEN d.active - 1 ELSE d.active
       /\ r.eligible = IF d.idx[p] <= d.eligible THEN d.eligible - 1 ELSE d.eligible
  BY <1>1, <1>2, <1>5, <1>7, <1>9, <1>11
<1>13. InOrder(r)
  BY <1>1, <1>2, <1>10, <1>11, <1>12, SMTT(30) DEF InOrder
<1>14. ASSUME NEW q \in DistPipes \ {p}
       PROVE  Listing(d, r, q) /\ StaysMatching(d, r, q) /\ StaysEligible(d, r, q)
  <2>1. d.idx[q] \in 0..Len(d.arr) /\ d.idx[q] # d.idx[p] /\ d.idx[p] \in 1..Len(d.arr)
    BY <1>1, <1>3
  <2>2. /\ a.idx[q] \in Nat /\ a.idx[q] # a.idx[p]
        /\ a.idx[q] = 0 <=> d.idx[q] = 0
        /\ d.idx[q] # 0 => /\ a.idx[q] <= a.matching <=> d.idx[q] <= d.matching
                           /\ a.idx[q] <= d.eligible <=> d.idx[q] <= d.eligible
    BY <1>1, <1>2, <1>5, <1>6, <2>1, SMTT(30)
  <2>3. /\ b.idx[q] \in Nat /\ b.idx[q] # b.idx[p]
        /\ b.idx[q] = 0 <=> a.idx[q] = 0
        /\ a.idx[q] # 0 => /\ b.idx[q] <= a.matching <=> a.idx[q] <= a.matching
                           /\ b.idx[q] <= d.eligible <=> a.idx[q] <= d.eligible
    BY <1>1, <1>2, <1>5, <1>6, <1>7, <1>8, <2>2
  <2>4. /\ c.idx[q] \in Nat /\ c.idx[q] <= Len(c.arr)
        /\ c.idx[q] = 0 <=> b.idx[q] = 0
        /\ b.idx[q] # 0 => /\ c.idx[q] <= a.matching <=> b.idx[q] <= a.matching
                           /\ c.idx[q] <= c.eligible <=> b.idx[q] <= d.eligible
    BY <1>1, <1>2, <1>5, <1>6, <1>7, <1>8, <1>9, <2>3, SMTT(30)
  <2>5. /\ r.idx[q] = 0 <=> c.idx[q] = 0
        /\ c.idx[q] # 0 => /\ r.idx[q] <= a.matching <=> c.idx[q] <= a.matching
                           /\ r.idx[q] <= c.eligible <=> c.idx[q] <= c.eligible
    <3>1. /\ c.idx[p] \in Nat /\ c.idx[p] <= Len(c.arr) /\ c.eligible \in Nat
          /\ a.matching \in Nat /\ a.matching <= c.eligible /\ Len(c.arr) \in Nat
      <4>1. /\ a.matching = IF d.idx[p] <= d.matching THEN d.matching - 1 ELSE d.matching
            /\ c.eligible = IF b.idx[p] <= d.eligible THEN d.eligible - 1 ELSE d.eligible
            /\ Len(c.arr) = Len(d.arr)
        BY <1>5, <1>7, <1>9, <1>10
      <4>2. d.idx[p] \in Nat /\ b.idx[p] \in Nat /\ d.idx[p] <= b.idx[p] /\ d.idx[p] # 0
        BY <1>1, <1>6, <1>8
      <4>3. c.idx[p] \in Nat /\ c.idx[p] <= Len(c.arr)
        BY <1>9, ArrayTypes
      <4>4. QED
        BY <1>1, <1>2, <4>1, <4>2, <4>3, SMTT(30)
    <3>2. r.idx[q] = IF c.idx[q] = Len(c.arr) THEN c.idx[p] ELSE c.idx[q]
      BY <1>11
    <3>3. QED
      BY <1>10, <2>4, <3>1, <3>2
  <2>6. r.matching = a.matching /\ r.eligible = c.eligible
    BY <1>7, <1>9, <1>11
  <2>7. QED
    BY <2>2, <2>3, <2>4, <2>5, <2>6 DEF Listing, StaysMatching, StaysEligible
<1>15. QED
  BY <1>1, <1>5, <1>7, <1>9, <1>11, <1>12, <1>13, <1>14

-----------------------------------------------------------------------------
(* One pipe after the other. *)

(* Induction, for a set of numbers. *)
LEMMA SetInduction ==
    ASSUME NEW P, 0 \in P, \A n \in Nat : n \in P => n + 1 \in P
    PROVE  \A n \in Nat : n \in P
<1> DEFINE R == {ss \in Nat \X Nat : ss[1] < ss[2]}
           T == Nat \ P
<1>1. IsWellFoundedOn(R, Nat)
  BY NatLessThanWellFounded DEF OpToRel
<1>2. SUFFICES ASSUME T # {} PROVE FALSE
  OBVIOUS
<1>3. \A x, y \in Nat : x < y => <<x, y>> \in R
  OBVIOUS
<1>4. T \subseteq Nat
  OBVIOUS
<1> HIDE DEF R
<1>5. PICK x \in T : \A y \in T : ~ (<<y, x>> \in R)
  <2> HIDE DEF T
  <2>1. QED
    BY <1>1, <1>2, <1>4, WFMin
<1>6. x \in Nat /\ x # 0 /\ x \notin P
  OBVIOUS
<1>7. x - 1 \in Nat /\ x - 1 < x /\ (x - 1) + 1 = x
  BY <1>6
<1>8. x - 1 \in T
  BY <1>6, <1>7
<1>9. QED
  BY <1>3, <1>5, <1>6, <1>7, <1>8

(* AllMatched is what Match makes of the pipes in turn. *)
LEMMA MatchedInTurn ==
    ASSUME NEW d, NEW named \in Seq(DistPipes)
    PROVE  \E f : /\ f[0] = d /\ AllMatched(d, named) = f[Len(named)]
                  /\ \A n \in 1..Len(named) : f[n] = Match(f[n - 1], named[n])
<1> DEFINE Turns(f, m) == f = [n \in 0..m |-> IF n = 0 THEN d ELSE Match(f[n - 1], named[n])]
           P == {m \in Nat : \E f : Turns(f, m)}
<1>1. 0 \in P
  <2> DEFINE f == [n \in 0..0 |-> d]
  <2>1. f = [n \in 0..0 |-> IF n = 0 THEN d ELSE Match(f[n - 1], named[n])]
    OBVIOUS
  <2> HIDE DEF f
  <2>2. QED
    BY <2>1
<1>2. \A m \in Nat : m \in P => m + 1 \in P
  <2> SUFFICES ASSUME NEW m \in Nat, NEW f, Turns(f, m) PROVE \E g : Turns(g, m + 1)
    OBVIOUS
  <2> DEFINE g == [n \in 0..m + 1 |-> IF n <= m THEN f[n] ELSE Match(f[m], named[m + 1])]
  <2>1. \A n \in 0..m + 1 : g[n] = IF n = 0 THEN d ELSE Match(g[n - 1], named[n])
    <3> SUFFICES ASSUME NEW n \in 0..m + 1
                 PROVE  g[n] = IF n = 0 THEN d ELSE Match(g[n - 1], named[n])
      OBVIOUS
    <3>1. CASE n = 0
      <4>1. g[n] = f[n] /\ n \in 0..m
        BY <3>1
      <4>2. f[n] = d
        BY <4>1, <3>1
      <4>3. QED
        BY <3>1, <4>1, <4>2
    <3>2. CASE n # 0 /\ n <= m
      <4>1. g[n] = f[n] /\ g[n - 1] = f[n - 1] /\ n \in 0..m
        BY <3>2
      <4>2. f[n] = Match(f[n - 1], named[n])
        BY <4>1, <3>2
      <4>3. QED
        BY <3>2, <4>1, <4>2
    <3>3. CASE n = m + 1
      <4>1. g[n] = Match(f[m], named[m + 1]) /\ g[n - 1] = f[m] /\ n # 0
        BY <3>3
      <4>2. QED
        BY <3>3, <4>1
    <3>4. QED
      BY <3>1, <3>2, <3>3
  <2>2. g = [n \in 0..m + 1 |-> g[n]]
    OBVIOUS
  <2> HIDE DEF g
  <2>3. Turns(g, m + 1)
    BY <2>1, <2>2
  <2>4. QED
    BY <2>3
<1>3. \A m \in Nat : m \in P
  <2> HIDE DEF P
  <2>1. QED
    BY <1>1, <1>2, SetInduction
<1>4. Len(named) \in Nat
  OBVIOUS
<1>5. PICK f : Turns(f, Len(named))
  BY <1>3, <1>4
<1> DEFINE g == CHOOSE h : Turns(h, Len(named))
<1>6. Turns(g, Len(named))
  BY <1>5
<1>7. AllMatched(d, named) = g[Len(named)]
  BY Zenon DEF AllMatched
<1> HIDE DEF g
<1>8. g[0] = d /\ \A n \in 1..Len(named) : g[n] = Match(g[n - 1], named[n])
  BY <1>4, <1>6
<1>9. QED
  BY <1>7, <1>8

(* Distributed is what TryNext makes of as many pipes as match. *)
LEMMA DistributedInTurn ==
    ASSUME NEW s, NEW rest, s.dist.matching \in Nat
    PROVE  \E f : /\ f[0] = s /\ Distributed(s, rest) = f[s.dist.matching]
                  /\ \A n \in 1..s.dist.matching : f[n] = TryNext(f[n - 1], rest)
<1> DEFINE Turns(f, m) == f = [n \in 0..m |-> IF n = 0 THEN s ELSE TryNext(f[n - 1], rest)]
           P == {m \in Nat : \E f : Turns(f, m)}
<1>1. 0 \in P
  <2> DEFINE f == [n \in 0..0 |-> s]
  <2>1. f = [n \in 0..0 |-> IF n = 0 THEN s ELSE TryNext(f[n - 1], rest)]
    OBVIOUS
  <2> HIDE DEF f
  <2>2. QED
    BY <2>1
<1>2. \A m \in Nat : m \in P => m + 1 \in P
  <2> SUFFICES ASSUME NEW m \in Nat, NEW f, Turns(f, m) PROVE \E g : Turns(g, m + 1)
    OBVIOUS
  <2> DEFINE g == [n \in 0..m + 1 |-> IF n <= m THEN f[n] ELSE TryNext(f[m], rest)]
  <2>1. \A n \in 0..m + 1 : g[n] = IF n = 0 THEN s ELSE TryNext(g[n - 1], rest)
    <3> SUFFICES ASSUME NEW n \in 0..m + 1
                 PROVE  g[n] = IF n = 0 THEN s ELSE TryNext(g[n - 1], rest)
      OBVIOUS
    <3>1. CASE n = 0
      <4>1. g[n] = f[n] /\ n \in 0..m
        BY <3>1
      <4>2. f[n] = s
        BY <4>1, <3>1
      <4>3. QED
        BY <3>1, <4>1, <4>2
    <3>2. CASE n # 0 /\ n <= m
      <4>1. g[n] = f[n] /\ g[n - 1] = f[n - 1] /\ n \in 0..m
        BY <3>2
      <4>2. f[n] = TryNext(f[n - 1], rest)
        BY <4>1, <3>2
      <4>3. QED
        BY <3>2, <4>1, <4>2
    <3>3. CASE n = m + 1
      <4>1. g[n] = TryNext(f[m], rest) /\ g[n - 1] = f[m] /\ n # 0
        BY <3>3
      <4>2. QED
        BY <3>3, <4>1
    <3>4. QED
      BY <3>1, <3>2, <3>3
  <2>2. g = [n \in 0..m + 1 |-> g[n]]
    OBVIOUS
  <2> HIDE DEF g
  <2>3. Turns(g, m + 1)
    BY <2>1, <2>2
  <2>4. QED
    BY <2>3
<1>3. \A m \in Nat : m \in P
  <2> HIDE DEF P
  <2>1. QED
    BY <1>1, <1>2, SetInduction
<1>4. s.dist.matching \in Nat
  OBVIOUS
<1>5. PICK f : Turns(f, s.dist.matching)
  BY <1>3, <1>4
<1> DEFINE g == CHOOSE h : Turns(h, s.dist.matching)
<1>6. Turns(g, s.dist.matching)
  BY <1>5
<1>7. Distributed(s, rest) = g[s.dist.matching]
  BY Zenon DEF Distributed
<1> HIDE DEF g
<1>8. g[0] = s /\ \A n \in 1..s.dist.matching : g[n] = TryNext(g[n - 1], rest)
  BY <1>4, <1>6
<1>9. QED
  BY <1>7, <1>8

-----------------------------------------------------------------------------
(* What matching and distributing come to. *)

(* After a match those named that are eligible are before the first mark.   *)
LEMMA MatchedFacts ==
    ASSUME NEW d, Indexed(d), InOrder(d), d.active = d.eligible, d.matching = 0,
           NEW named \in Seq(DistPipes), NEW r, r = AllMatched(d, named)
    PROVE  /\ Indexed(r) /\ InOrder(r) /\ r.more = d.more /\ r.active = r.eligible
           /\ \A q \in DistPipes :
                 /\ Listing(d, r, q) /\ StaysEligible(d, r, q)
                 /\ d.idx[q] # 0 => (r.idx[q] <= r.matching <=>
                       d.idx[q] <= d.eligible /\ \E i \in 1..Len(named) : named[i] = q)
<1>1. PICK f : /\ f[0] = d /\ r = f[Len(named)]
               /\ \A n \in 1..Len(named) : f[n] = Match(f[n - 1], named[n])
  BY MatchedInTurn
<1> DEFINE DoneTo(n) ==
        /\ Indexed(f[n]) /\ InOrder(f[n]) /\ f[n].more = d.more /\ f[n].active = d.eligible
        /\ f[n].eligible = d.eligible
        /\ \A q \in DistPipes :
              /\ Listing(d, f[n], q) /\ StaysEligible(d, f[n], q)
              /\ d.idx[q] # 0 => (f[n].idx[q] <= f[n].matching <=>
                    d.idx[q] <= d.eligible /\ \E i \in 1..n : named[i] = q)
           P == {n \in Nat : n <= Len(named) => DoneTo(n)}
<1>2. Len(named) \in Nat /\ \A i \in 1..Len(named) : named[i] \in DistPipes
  OBVIOUS
<1>3. /\ d.idx \in [DistPipes -> Nat] /\ d.eligible \in Nat
  BY ArrayTypes
<1>4. DoneTo(0)
  <2>1. ASSUME NEW q \in DistPipes, d.idx[q] # 0
        PROVE  ~(d.idx[q] <= d.matching) /\ ~ \E i \in 1..0 : named[i] = q
    BY <2>1, <1>3
  <2>2. QED
    BY <1>1, <2>1 DEF Listing, StaysEligible
<1>5. ASSUME NEW n \in Nat, n + 1 <= Len(named), DoneTo(n) PROVE DoneTo(n + 1)
  <2> DEFINE a == f[n]
             b == f[n + 1]
             p == named[n + 1]
  <2>1. n + 1 \in 1..Len(named) /\ (n + 1) - 1 = n
    BY <1>2, <1>5
  <2>2. b = Match(a, p) /\ p \in DistPipes
    BY <1>1, <1>2, <2>1
  <2>3. \A i \in Nat : i \in 1..n + 1 <=> i \in 1..n \/ i = n + 1
    OBVIOUS
  <2>4. /\ Indexed(a) /\ InOrder(a) /\ a.more = d.more /\ a.active = d.eligible
        /\ a.eligible = d.eligible
        /\ \A q \in DistPipes :
              /\ Listing(d, a, q) /\ StaysEligible(d, a, q)
              /\ d.idx[q] # 0 => (a.idx[q] <= a.matching <=>
                    d.idx[q] <= d.eligible /\ \E i \in 1..n : named[i] = q)
    BY <1>5
  <2> HIDE DEF a, b
  <2>5. /\ Indexed(b) /\ InOrder(b) /\ b.more = a.more /\ b.active = a.active
        /\ b.eligible = a.eligible
        /\ \A q \in DistPipes : /\ Listing(a, b, q) /\ StaysEligible(a, b, q)
                                /\ q # p => StaysMatching(a, b, q)
        /\ a.idx[p] # 0 => (b.idx[p] <= b.matching <=> a.idx[p] <= a.eligible)
    <3> HIDE DEF p
    <3>1. QED
      BY <2>2, <2>4, MatchFacts
  <2>6. ASSUME NEW q \in DistPipes
        PROVE  /\ Listing(d, b, q) /\ StaysEligible(d, b, q)
               /\ d.idx[q] # 0 => (b.idx[q] <= b.matching <=>
                     d.idx[q] <= d.eligible /\ \E i \in 1..n + 1 : named[i] = q)
    <3>1. Listing(d, b, q) /\ StaysEligible(d, b, q)
      BY <2>4, <2>5 DEF Listing, StaysEligible
    <3>2. (\E i \in 1..n + 1 : named[i] = q) <=> (q = p \/ \E i \in 1..n : named[i] = q)
      BY <2>3
    <3> HIDE DEF p
    <3>3. CASE q = p
      BY <3>2, <3>3, <2>4, <2>5 DEF Listing, StaysEligible
    <3>4. CASE q # p
      <4>1. d.idx[q] # 0 => (b.idx[q] <= b.matching <=> a.idx[q] <= a.matching)
        BY <3>4, <2>4, <2>5 DEF Listing, StaysMatching
      <4>2. d.idx[q] # 0 => (a.idx[q] <= a.matching <=>
               d.idx[q] <= d.eligible /\ \E i \in 1..n : named[i] = q)
        BY <2>4
      <4>3. (\E i \in 1..n + 1 : named[i] = q) <=> (\E i \in 1..n : named[i] = q)
        BY <3>2, <3>4
      <4>4. QED
        BY <3>1, <4>1, <4>2, <4>3
    <3>5. QED
      BY <3>1, <3>3, <3>4
  <2>7. QED
    BY <2>4, <2>5, <2>6 DEF b
<1> HIDE DEF DoneTo
<1>6. \A n \in Nat : n \in P
  <2>1. 0 \in P
    BY <1>4
  <2>2. \A n \in Nat : n \in P => n + 1 \in P
    BY <1>2, <1>5
  <2> HIDE DEF P
  <2>3. QED
    BY <2>1, <2>2, SetInduction
<1>7. DoneTo(Len(named))
  BY <1>2, <1>6
<1>8. QED
  BY <1>1, <1>7 DEF DoneTo

(* Of the pipes that match, one takes the frame if it accepts, and is left *)
(* out otherwise; the others keep what they have.                          *)
Keeps(s, d, fate, before, q) ==
    /\ s.ends[q] = fate[q] /\ s.took[q] = before[q] /\ StaysEligible(d, s.dist, q)
    /\ d.idx[q] # 0 => s.dist.idx[q] > s.dist.matching
Takes(s, fate, before, rest, q) ==
    /\ s.ends[q] = Written(fate[q], rest) /\ s.took[q] = before[q] + 1
    /\ s.dist.idx[q] <= s.dist.matching
IsLeftOut(s, fate, before, q) ==
    /\ s.ends[q] = Refused(fate[q]) /\ s.took[q] = before[q]
    /\ s.dist.idx[q] > s.dist.eligible

Matching(d, q) == d.idx[q] # 0 /\ d.idx[q] <= d.matching

(* After n of them *)
Underway(s, d, fate, before, rest, n) ==
    /\ Indexed(s.dist) /\ InOrder(s.dist) /\ s.dist.more = d.more
    /\ s.dist.eligible - s.dist.active = d.eligible - d.active
    /\ s.ends \in [DistPipes -> DistEnds] /\ s.took \in [DistPipes -> Nat]
    /\ s.at \in Nat \ {0} /\ n + 1 = s.at + (d.matching - s.dist.matching)
    /\ \A q \in DistPipes :
          /\ Listing(d, s.dist, q)
          /\ ~Matching(d, q) => Keeps(s, d, fate, before, q)
          /\ Matching(d, q) =>
                \/ /\ Accepts(fate[q]) /\ Takes(s, fate, before, rest, q)
                   /\ s.dist.idx[q] < s.at
                \/ ~Accepts(fate[q]) /\ IsLeftOut(s, fate, before, q)
                \/ /\ s.ends[q] = fate[q] /\ s.took[q] = before[q]
                   /\ s.at <= s.dist.idx[q] /\ s.dist.idx[q] <= s.dist.matching

(* An end stays one, refused or written to.                                 *)
LEMMA EndFacts ==
    ASSUME DistSizes, NEW e \in DistEnds, NEW rest \in BOOLEAN
    PROVE  /\ Refused(e) \in DistEnds
           /\ Accepts(e) => Written(e, rest) \in DistEnds
<1>1. /\ e.out \in BOOLEAN /\ e.inflight \in 0..DistHwm /\ DistHwm \in Nat
      /\ e.state \in {"none", "active", "closing"}
  BY DEF DistSizes, DistEnds
<1>2. \A b \in BOOLEAN, n \in 0..DistHwm :
         [e EXCEPT !.out = b] \in DistEnds /\ [e EXCEPT !.inflight = n] \in DistEnds
  BY DEF DistEnds
<1>3. Refused(e) \in DistEnds
  <2> DEFINE b == e.out /\ e.state # "active"
  <2>1. b \in BOOLEAN
    BY <1>1
  <2>2. Refused(e) = [e EXCEPT !.out = b]
    BY Zenon DEF Refused
  <2> HIDE DEF b
  <2>3. QED
    BY <2>1, <2>2 DEF DistEnds
<1>4. CASE Accepts(e) /\ rest
  <2>1. Written(e, rest) = e
    BY <1>4 DEF Written
  <2>2. QED
    BY <1>3, <2>1
<1>5. CASE Accepts(e) /\ ~rest
  <2>1. e.inflight + 1 \in 0..DistHwm
    BY <1>1, <1>5 DEF Accepts
  <2>2. QED
    <3>1. Written(e, rest) = [e EXCEPT !.inflight = e.inflight + 1]
      BY <1>5 DEF Written
    <3>2. QED
      BY <1>2, <1>3, <2>1, <3>1
<1>6. QED
  BY <1>3, <1>4, <1>5

(* One more pipe is done (dist_t::distribute, dist_t::write).               *)
LEMMA TryNextFacts ==
    ASSUME DistSizes, NEW d, Indexed(d), InOrder(d), NEW fate \in [DistPipes -> DistEnds],
           NEW before \in [DistPipes -> Nat], NEW rest \in BOOLEAN, NEW n \in Nat,
           n < d.matching, NEW s, Underway(s, d, fate, before, rest, n),
           NEW r, r = TryNext(s, rest),
           s = [dist |-> s.dist, ends |-> s.ends, took |-> s.took, at |-> s.at]
    PROVE  /\ Underway(r, d, fate, before, rest, n + 1)
           /\ r = [dist |-> r.dist, ends |-> r.ends, took |-> r.took, at |-> r.at]
<1> DEFINE c == s.dist
           p == c.arr[s.at]
<1>1. /\ Len(c.arr) \in Nat /\ c.idx \in [DistPipes -> Nat]
      /\ c.matching \in Nat /\ c.active \in Nat /\ c.eligible \in Nat /\ c.more \in BOOLEAN
      /\ \A i \in 1..Len(c.arr) : c.arr[i] \in DistPipes /\ c.idx[c.arr[i]] = i
      /\ \A q \in DistPipes : /\ c.idx[q] \in 0..Len(c.arr)
                              /\ c.idx[q] # 0 => c.arr[c.idx[q]] = q
  <2>1. Indexed(c)
    BY DEF Underway
  <2> HIDE DEF c
  <2>2. QED
    BY <2>1, ArrayTypes
<1>2. /\ Indexed(c) /\ InOrder(c) /\ c.more = d.more
      /\ c.eligible - c.active = d.eligible - d.active
      /\ s.ends \in [DistPipes -> DistEnds] /\ s.took \in [DistPipes -> Nat]
      /\ s.at \in Nat \ {0} /\ n + 1 = s.at + (d.matching - c.matching)
  BY DEF Underway
<1>3. /\ d.idx \in [DistPipes -> Nat] /\ d.matching \in Nat /\ d.active \in Nat
      /\ d.eligible \in Nat
  BY ArrayTypes
<1>4. ASSUME NEW q \in DistPipes
      PROVE  /\ Listing(d, c, q)
             /\ ~Matching(d, q) => Keeps(s, d, fate, before, q)
             /\ Matching(d, q) =>
                   \/ /\ Accepts(fate[q]) /\ Takes(s, fate, before, rest, q)
                      /\ c.idx[q] < s.at
                   \/ ~Accepts(fate[q]) /\ IsLeftOut(s, fate, before, q)
                   \/ /\ s.ends[q] = fate[q] /\ s.took[q] = before[q]
                      /\ s.at <= c.idx[q] /\ c.idx[q] <= c.matching
  BY DEF Underway
<1>5. c.matching <= c.active /\ c.active <= c.eligible /\ c.eligible <= Len(c.arr)
  BY <1>2 DEF InOrder
<1>6. s.at <= c.matching /\ s.at \in 1..Len(c.arr)
  BY <1>1, <1>2, <1>3, <1>5, SMTT(30)
<1>7. p \in DistPipes /\ c.idx[p] = s.at
  BY <1>1, <1>6
<1>8. \A q \in DistPipes : c.idx[q] = s.at <=> q = p
  BY <1>1, <1>6, <1>7
<1>9. r = IF Accepts(s.ends[p])
          THEN [s EXCEPT !.ends[p] = Written(@, rest), !.took[p] = @ + 1, !.at = @ + 1]
          ELSE [s EXCEPT !.dist = LeaveOut(@, p), !.ends[p] = Refused(@)]
  BY DEF TryNext
<1> HIDE DEF c, p
<1>10. /\ Matching(d, p) /\ s.ends[p] = fate[p] /\ s.took[p] = before[p]
  <2>1. ~(c.idx[p] < s.at) /\ ~(c.idx[p] > c.eligible) /\ ~(c.idx[p] > c.matching)
        /\ c.idx[p] # 0
    BY <1>1, <1>2, <1>5, <1>6, <1>7
  <2>2. d.idx[p] # 0
    BY <1>4, <1>7, <2>1 DEF Listing
  <2>3. Matching(d, p)
    BY <1>4, <1>7, <2>1, <2>2 DEF Keeps, c
  <2>4. QED
    BY <1>4, <1>7, <2>1, <2>3 DEF IsLeftOut, c
<1>11. Refused(fate[p]) \in DistEnds /\ (Accepts(fate[p]) => Written(fate[p], rest) \in DistEnds)
  BY <1>7, EndFacts
<1>12. CASE Accepts(fate[p])
  <2>1. r = [s EXCEPT !.ends = [s.ends EXCEPT ![p] = Written(fate[p], rest)],
                      !.took = [s.took EXCEPT ![p] = before[p] + 1], !.at = s.at + 1]
    BY <1>9, <1>10, <1>12
  <2>2. /\ r.dist = c /\ r.at = s.at + 1
        /\ r.ends = [s.ends EXCEPT ![p] = Written(fate[p], rest)]
        /\ r.took = [s.took EXCEPT ![p] = before[p] + 1]
        /\ r = [dist |-> r.dist, ends |-> r.ends, took |-> r.took, at |-> r.at]
    BY <2>1 DEF c
  <2>3. /\ r.ends \in [DistPipes -> DistEnds] /\ r.took \in [DistPipes -> Nat]
        /\ r.ends[p] = Written(fate[p], rest) /\ r.took[p] = before[p] + 1
        /\ \A q \in DistPipes \ {p} : r.ends[q] = s.ends[q] /\ r.took[q] = s.took[q]
    BY <1>2, <1>7, <1>11, <1>12, <2>2
  <2>4. /\ r.at \in Nat \ {0} /\ (n + 1) + 1 = r.at + (d.matching - r.dist.matching)
    BY <1>1, <1>2, <1>3, <2>2, SMTT(30)
  <2>5. /\ Listing(d, r.dist, p) /\ Takes(r, fate, before, rest, p) /\ r.dist.idx[p] < r.at
    BY <1>1, <1>2, <1>4, <1>6, <1>7, <2>2, <2>3 DEF Takes
  <2>6. ASSUME NEW q \in DistPipes \ {p}
        PROVE  /\ Listing(d, r.dist, q)
               /\ ~Matching(d, q) => Keeps(r, d, fate, before, q)
               /\ Matching(d, q) =>
                     \/ /\ Accepts(fate[q]) /\ Takes(r, fate, before, rest, q)
                        /\ r.dist.idx[q] < r.at
                     \/ ~Accepts(fate[q]) /\ IsLeftOut(r, fate, before, q)
                     \/ /\ r.ends[q] = fate[q] /\ r.took[q] = before[q]
                        /\ r.at <= r.dist.idx[q] /\ r.dist.idx[q] <= r.dist.matching
    <3>1. /\ c.idx[q] \in Nat /\ c.idx[q] # s.at /\ s.at \in Nat
          /\ r.ends[q] = s.ends[q] /\ r.took[q] = s.took[q]
      BY <1>1, <1>2, <1>8, <2>3
    <3>2. /\ Listing(d, c, q)
          /\ ~Matching(d, q) => Keeps(s, d, fate, before, q)
          /\ Matching(d, q) =>
                \/ /\ Accepts(fate[q]) /\ Takes(s, fate, before, rest, q)
                   /\ c.idx[q] < s.at
                \/ ~Accepts(fate[q]) /\ IsLeftOut(s, fate, before, q)
                \/ /\ s.ends[q] = fate[q] /\ s.took[q] = before[q]
                   /\ s.at <= c.idx[q] /\ c.idx[q] <= c.matching
      BY <1>4
    <3>3. /\ Keeps(s, d, fate, before, q) => Keeps(r, d, fate, before, q)
          /\ Takes(s, fate, before, rest, q) => Takes(r, fate, before, rest, q)
          /\ IsLeftOut(s, fate, before, q) => IsLeftOut(r, fate, before, q)
      BY <2>2, <3>1 DEF Keeps, Takes, IsLeftOut, c
    <3>4. s.at <= c.idx[q] => r.at <= c.idx[q]
      BY <2>2, <3>1
    <3>5. c.idx[q] < s.at => c.idx[q] < r.at
      BY <2>2, <3>1
    <3>6. QED
      BY <2>2, <3>1, <3>2, <3>3, <3>4, <3>5
  <2>7. Underway(r, d, fate, before, rest, n + 1)
    BY <1>2, <1>10, <1>12, <2>2, <2>3, <2>4, <2>5, <2>6 DEF Underway
  <2>8. QED
    BY <2>2, <2>7
<1>13. CASE ~Accepts(fate[p])
  <2> DEFINE b == LeaveOut(c, p)
  <2>1. r = [s EXCEPT !.dist = b, !.ends = [s.ends EXCEPT ![p] = Refused(fate[p])]]
    BY <1>9, <1>10, <1>13 DEF c
  <2>2. /\ Indexed(b) /\ InOrder(b) /\ b.more = c.more /\ Len(b.arr) = Len(c.arr)
        /\ b.matching = c.matching - 1 /\ b.active = c.active - 1
        /\ b.eligible = c.eligible - 1 /\ b.idx[p] = c.eligible
        /\ \A q \in DistPipes \ {p} :
              /\ Listing(c, b, q) /\ StaysMatching(c, b, q) /\ StaysEligible(c, b, q)
              /\ c.idx[q] < c.idx[p] => b.idx[q] = c.idx[q]
              /\ c.idx[q] > c.idx[p] => b.idx[q] >= c.idx[p]
    <3>1. c.idx[p] \in 1..c.matching
      BY <1>1, <1>6, <1>7
    <3> HIDE DEF b
    <3>2. b = LeaveOut(c, p)
      BY DEF b
    <3>3. Indexed(c) /\ InOrder(c) /\ p \in DistPipes
      BY <1>2, <1>7
    <3>4. QED
      BY <3>1, <3>2, <3>3, LeaveOutFacts
  <2> HIDE DEF b
  <2>3. /\ r.dist = b /\ r.at = s.at
        /\ r.ends = [s.ends EXCEPT ![p] = Refused(fate[p])] /\ r.took = s.took
        /\ r = [dist |-> r.dist, ends |-> r.ends, took |-> r.took, at |-> r.at]
    BY <2>1
  <2>4. /\ r.ends \in [DistPipes -> DistEnds] /\ r.took \in [DistPipes -> Nat]
        /\ r.ends[p] = Refused(fate[p]) /\ r.took[p] = before[p]
        /\ \A q \in DistPipes \ {p} : r.ends[q] = s.ends[q] /\ r.took[q] = s.took[q]
    BY <1>2, <1>7, <1>10, <1>11, <2>3
  <2>5. /\ (n + 1) + 1 = r.at + (d.matching - r.dist.matching)
        /\ r.dist.eligible - r.dist.active = d.eligible - d.active
    <3>1. (n + 1) + 1 = s.at + (d.matching - (c.matching - 1))
      <4>1. s.at \in Nat /\ n + 1 = s.at + (d.matching - c.matching)
        BY <1>2
      <4>2. c.matching \in Nat /\ d.matching \in Nat
        BY <1>1, <1>3
      <4>3. QED
        BY <4>1, <4>2
    <3>2. (c.eligible - 1) - (c.active - 1) = d.eligible - d.active
      <4>1. c.eligible - c.active = d.eligible - d.active
        BY <1>2
      <4>2. c.active \in Nat /\ c.eligible \in Nat
        BY <1>1
      <4>3. QED
        BY <4>1, <4>2
    <3>3. QED
      BY <2>2, <2>3, <3>1, <3>2
  <2>6. /\ Listing(d, r.dist, p) /\ IsLeftOut(r, fate, before, p)
    BY <1>1, <1>5, <1>6, <1>10, <2>2, <2>3, <2>4, SMTT(30) DEF IsLeftOut, Listing, Matching
  <2>7. ASSUME NEW q \in DistPipes \ {p}
        PROVE  /\ Listing(d, r.dist, q)
               /\ ~Matching(d, q) => Keeps(r, d, fate, before, q)
               /\ Matching(d, q) =>
                     \/ /\ Accepts(fate[q]) /\ Takes(r, fate, before, rest, q)
                        /\ r.dist.idx[q] < r.at
                     \/ ~Accepts(fate[q]) /\ IsLeftOut(r, fate, before, q)
                     \/ /\ r.ends[q] = fate[q] /\ r.took[q] = before[q]
                        /\ r.at <= r.dist.idx[q] /\ r.dist.idx[q] <= r.dist.matching
    <3>1. /\ c.idx[q] \in Nat /\ c.idx[q] # s.at /\ s.at \in Nat
          /\ r.ends[q] = s.ends[q] /\ r.took[q] = s.took[q]
      BY <1>1, <1>2, <1>8, <2>4
    <3>2. /\ Listing(d, c, q)
          /\ ~Matching(d, q) => Keeps(s, d, fate, before, q)
          /\ Matching(d, q) =>
                \/ /\ Accepts(fate[q]) /\ Takes(s, fate, before, rest, q)
                   /\ c.idx[q] < s.at
                \/ ~Accepts(fate[q]) /\ IsLeftOut(s, fate, before, q)
                \/ /\ s.ends[q] = fate[q] /\ s.took[q] = before[q]
                   /\ s.at <= c.idx[q] /\ c.idx[q] <= c.matching
      BY <1>4
    <3>3. /\ Listing(c, b, q) /\ StaysMatching(c, b, q) /\ StaysEligible(c, b, q)
          /\ c.idx[q] < s.at => b.idx[q] = c.idx[q]
          /\ c.idx[q] > s.at => b.idx[q] >= s.at
      BY <1>7, <2>2
    <3>4. b.idx[q] \in Nat /\ b.matching \in Nat /\ b.eligible \in Nat
      BY <2>2, ArrayTypes
    <3>5. Listing(d, b, q)
      BY <3>2, <3>3 DEF Listing
    <3>6. Keeps(s, d, fate, before, q) => Keeps(r, d, fate, before, q)
      BY <1>1, <2>3, <3>1, <3>2, <3>3, <3>4 DEF Keeps, c, StaysMatching, StaysEligible, Listing
    <3>7. c.idx[q] # 0 /\ IsLeftOut(s, fate, before, q) => IsLeftOut(r, fate, before, q)
      BY <1>1, <2>3, <3>1, <3>3, <3>4 DEF IsLeftOut, c, StaysEligible
    <3>8. c.idx[q] # 0 /\ Takes(s, fate, before, rest, q) => Takes(r, fate, before, rest, q)
      BY <2>3, <3>1, <3>3 DEF Takes, c, StaysMatching
    <3>9. Matching(d, q) => c.idx[q] # 0
      BY <3>2 DEF Matching, Listing
    <3>10. c.idx[q] < s.at => b.idx[q] < s.at
      BY <3>3
    <3>11. c.idx[q] # 0 /\ s.at <= c.idx[q] /\ c.idx[q] <= c.matching
           => s.at <= b.idx[q] /\ b.idx[q] <= b.matching
      BY <3>1, <3>3, <3>4 DEF StaysMatching
    <3>12. QED
      BY <2>3, <3>1, <3>2, <3>5, <3>6, <3>7, <3>8, <3>9, <3>10, <3>11
  <2>8. Underway(r, d, fate, before, rest, n + 1)
    BY <1>2, <1>10, <1>13, <2>2, <2>3, <2>4, <2>5, <2>6, <2>7 DEF Underway
  <2>9. QED
    BY <2>3, <2>8
<1>14. QED
  BY <1>12, <1>13

(* All that match are done, once each (dist_t::distribute).                 *)
LEMMA DistributedFacts ==
    ASSUME DistSizes, NEW d, Indexed(d), InOrder(d), NEW fate \in [DistPipes -> DistEnds],
           NEW before \in [DistPipes -> Nat], NEW rest \in BOOLEAN,
           NEW r, r = Distributed([dist |-> d, ends |-> fate, took |-> before, at |-> 1], rest)
    PROVE  /\ Indexed(r.dist) /\ InOrder(r.dist) /\ r.dist.more = d.more
           /\ d.active = d.eligible => r.dist.active = r.dist.eligible
           /\ r.ends \in [DistPipes -> DistEnds] /\ r.took \in [DistPipes -> Nat]
           /\ \A q \in DistPipes :
                 /\ Listing(d, r.dist, q)
                 /\ ~Matching(d, q) => Keeps(r, d, fate, before, q)
                 /\ Matching(d, q) /\ Accepts(fate[q]) => Takes(r, fate, before, rest, q)
                 /\ Matching(d, q) /\ ~Accepts(fate[q]) => IsLeftOut(r, fate, before, q)
<1> DEFINE s == [dist |-> d, ends |-> fate, took |-> before, at |-> 1]
           IsState(x) == x = [dist |-> x.dist, ends |-> x.ends, took |-> x.took, at |-> x.at]
<1>1. /\ d.idx \in [DistPipes -> Nat] /\ d.matching \in Nat /\ d.active \in Nat
      /\ d.eligible \in Nat
  BY ArrayTypes
<1>2. PICK f : /\ f[0] = s /\ r = f[d.matching]
               /\ \A n \in 1..d.matching : f[n] = TryNext(f[n - 1], rest)
  <2>1. s.dist.matching = d.matching
    OBVIOUS
  <2>2. r = Distributed(s, rest)
    OBVIOUS
  <2> HIDE DEF s
  <2>3. \E f : /\ f[0] = s /\ Distributed(s, rest) = f[s.dist.matching]
               /\ \A n \in 1..s.dist.matching : f[n] = TryNext(f[n - 1], rest)
    BY <1>1, <2>1, DistributedInTurn
  <2>4. QED
    BY <2>1, <2>2, <2>3
<1> DEFINE P == {n \in Nat : n <= d.matching =>
                    Underway(f[n], d, fate, before, rest, n) /\ IsState(f[n])}
<1>3. Underway(s, d, fate, before, rest, 0) /\ IsState(s)
  <2>1. s.dist = d /\ s.ends = fate /\ s.took = before /\ s.at = 1 /\ IsState(s)
    OBVIOUS
  <2> HIDE DEF s
  <2>2. ASSUME NEW q \in DistPipes
        PROVE  /\ Listing(d, s.dist, q)
               /\ ~Matching(d, q) => Keeps(s, d, fate, before, q)
               /\ Matching(d, q) =>
                     \/ /\ Accepts(fate[q]) /\ Takes(s, fate, before, rest, q)
                        /\ s.dist.idx[q] < s.at
                     \/ ~Accepts(fate[q]) /\ IsLeftOut(s, fate, before, q)
                     \/ /\ s.ends[q] = fate[q] /\ s.took[q] = before[q]
                        /\ s.at <= s.dist.idx[q] /\ s.dist.idx[q] <= s.dist.matching
    BY <1>1, <2>1 DEF Listing, Matching, Keeps, StaysEligible
  <2>3. 0 + 1 = s.at + (d.matching - s.dist.matching) /\ s.at \in Nat \ {0}
    BY <1>1, <2>1
  <2>4. QED
    BY <2>1, <2>2, <2>3 DEF Underway
<1>4. \A n \in Nat : n \in P
  <2>1. 0 \in P
    BY <1>2, <1>3
  <2>2. ASSUME NEW n \in Nat, n \in P PROVE n + 1 \in P
    <3> SUFFICES ASSUME n + 1 <= d.matching
                 PROVE  Underway(f[n + 1], d, fate, before, rest, n + 1) /\ IsState(f[n + 1])
      OBVIOUS
    <3>1. n < d.matching /\ n <= d.matching /\ n + 1 \in 1..d.matching /\ (n + 1) - 1 = n
      BY <1>1
    <3>2. Underway(f[n], d, fate, before, rest, n) /\ IsState(f[n])
      BY <2>2, <3>1
    <3>3. f[n + 1] = TryNext(f[n], rest)
      BY <1>2, <3>1
    <3>4. QED
      BY <3>1, <3>2, <3>3, TryNextFacts
  <2> HIDE DEF P
  <2>3. QED
    BY <2>1, <2>2, SetInduction
<1>5. Underway(r, d, fate, before, rest, d.matching)
  <2>1. d.matching \in P /\ d.matching <= d.matching
    BY <1>1, <1>4
  <2>2. Underway(f[d.matching], d, fate, before, rest, d.matching)
    BY <2>1
  <2>3. QED
    BY <1>2, <2>2
<1>6. /\ Indexed(r.dist) /\ InOrder(r.dist) /\ r.dist.more = d.more
      /\ r.dist.eligible - r.dist.active = d.eligible - d.active
      /\ r.ends \in [DistPipes -> DistEnds] /\ r.took \in [DistPipes -> Nat]
      /\ r.at \in Nat \ {0} /\ d.matching + 1 = r.at + (d.matching - r.dist.matching)
  BY <1>5 DEF Underway
<1>7. /\ r.dist.matching \in Nat /\ r.dist.active \in Nat /\ r.dist.eligible \in Nat
      /\ r.dist.idx \in [DistPipes -> Nat]
  BY <1>6, ArrayTypes
<1>8. r.at = r.dist.matching + 1
  BY <1>1, <1>6, <1>7
<1>9. d.active = d.eligible => r.dist.active = r.dist.eligible
  BY <1>1, <1>6, <1>7
<1>10. ASSUME NEW q \in DistPipes
       PROVE  /\ Listing(d, r.dist, q)
              /\ ~Matching(d, q) => Keeps(r, d, fate, before, q)
              /\ Matching(d, q) /\ Accepts(fate[q]) => Takes(r, fate, before, rest, q)
              /\ Matching(d, q) /\ ~Accepts(fate[q]) => IsLeftOut(r, fate, before, q)
  <2>1. ~(r.at <= r.dist.idx[q] /\ r.dist.idx[q] <= r.dist.matching)
    BY <1>7, <1>8
  <2>2. QED
    BY <1>5, <2>1 DEF Underway
<1>11. QED
  BY <1>6, <1>9, <1>10

(* What send_to_matching writes, and what it leaves. *)
LEMMA SendFacts ==
    ASSUME DistSizes, DistTypes, NEW d, Indexed(d), InOrder(d),
           NEW before \in [DistPipes -> Nat], NEW rest \in BOOLEAN,
           SendToMatching(d, before, rest)
    PROVE  /\ Indexed(dist') /\ InOrder(dist') /\ dist'.more = rest
           /\ ~rest => dist'.active = dist'.eligible /\ (role = "pub" => dist'.matching = 0)
           /\ ends' \in [DistPipes -> DistEnds] /\ took' \in [DistPipes -> Nat]
           /\ \A q \in DistPipes :
                 /\ Listing(d, dist', q)
                 /\ ~Matching(d, q) =>
                       /\ ends'[q] = ends[q] /\ took'[q] = before[q]
                       /\ StaysEligible(d, dist', q)
                       /\ rest /\ d.idx[q] # 0 => dist'.idx[q] > dist'.matching
                 /\ Matching(d, q) /\ Accepts(ends[q]) =>
                       /\ ends'[q] = Written(ends[q], rest) /\ took'[q] = before[q] + 1
                       /\ dist'.idx[q] <= dist'.eligible
                       /\ rest => dist'.idx[q] <= dist'.matching
                 /\ Matching(d, q) /\ ~Accepts(ends[q]) =>
                       /\ ends'[q] = Refused(ends[q]) /\ took'[q] = before[q]
                       /\ dist'.idx[q] > dist'.eligible
                       /\ rest => dist'.idx[q] > dist'.matching
<1>1. PICK s : s = Distributed([dist |-> d, ends |-> ends, took |-> before, at |-> 1], rest)
  OBVIOUS
<1>2. /\ dist' = [s.dist EXCEPT !.active = IF rest THEN @ ELSE s.dist.eligible,
                                !.matching = IF rest \/ role = "sub" THEN @ ELSE 0,
                                !.more = rest]
      /\ ends' = s.ends /\ took' = s.took
  BY <1>1 DEF SendToMatching
<1>3. ends \in [DistPipes -> DistEnds] /\ role \in {"pub", "sub"}
  BY DEF DistTypes
<1>4. PICK fate \in [DistPipes -> DistEnds] : fate = ends
  BY <1>3
<1>5. /\ Indexed(s.dist) /\ InOrder(s.dist) /\ s.dist.more = d.more
      /\ d.active = d.eligible => s.dist.active = s.dist.eligible
      /\ s.ends \in [DistPipes -> DistEnds] /\ s.took \in [DistPipes -> Nat]
      /\ \A q \in DistPipes :
            /\ Listing(d, s.dist, q)
            /\ ~Matching(d, q) => Keeps(s, d, fate, before, q)
            /\ Matching(d, q) /\ Accepts(fate[q]) => Takes(s, fate, before, rest, q)
            /\ Matching(d, q) /\ ~Accepts(fate[q]) => IsLeftOut(s, fate, before, q)
  BY <1>1, <1>4, DistributedFacts
<1>6. PICK c : c = s.dist
  OBVIOUS
<1>7. /\ c.idx \in [DistPipes -> Nat] /\ c.matching \in Nat /\ c.active \in Nat
      /\ c.eligible \in Nat /\ c \in Arrays
      /\ c.matching <= c.active /\ c.active <= c.eligible /\ c.eligible <= Len(c.arr)
  BY <1>5, <1>6, ArrayTypes DEF InOrder, Indexed
<1>8. PICK a \in Nat : a = IF rest THEN c.active ELSE c.eligible
  BY <1>7
<1>9. PICK m \in Nat : m = IF rest \/ role = "sub" THEN c.matching ELSE 0
  BY <1>7
<1>10. dist' = [c EXCEPT !.active = a, !.matching = m, !.more = rest]
  BY <1>2, <1>6, <1>8, <1>9
<1>11. /\ dist' \in Arrays /\ dist'.arr = c.arr /\ dist'.idx = c.idx
       /\ dist'.matching = m /\ dist'.active = a /\ dist'.eligible = c.eligible
       /\ dist'.more = rest
  BY <1>7, <1>10 DEF Arrays
<1>12. Indexed(dist')
  BY <1>5, <1>6, <1>11 DEF Indexed
<1>13. InOrder(dist')
  BY <1>7, <1>8, <1>9, <1>11 DEF InOrder
<1>14. ~rest => dist'.active = dist'.eligible /\ (role = "pub" => dist'.matching = 0)
  BY <1>8, <1>9, <1>11
<1>15. rest => m = c.matching
  BY <1>9
<1>16. ASSUME NEW q \in DistPipes
       PROVE  /\ Listing(d, dist', q)
              /\ ~Matching(d, q) =>
                    /\ ends'[q] = ends[q] /\ took'[q] = before[q]
                    /\ StaysEligible(d, dist', q)
                    /\ rest /\ d.idx[q] # 0 => dist'.idx[q] > dist'.matching
              /\ Matching(d, q) /\ Accepts(ends[q]) =>
                    /\ ends'[q] = Written(ends[q], rest) /\ took'[q] = before[q] + 1
                    /\ dist'.idx[q] <= dist'.eligible
                    /\ rest => dist'.idx[q] <= dist'.matching
              /\ Matching(d, q) /\ ~Accepts(ends[q]) =>
                    /\ ends'[q] = Refused(ends[q]) /\ took'[q] = before[q]
                    /\ dist'.idx[q] > dist'.eligible
                    /\ rest => dist'.idx[q] > dist'.matching
  <2>1. Listing(d, dist', q)
    BY <1>5, <1>6, <1>11 DEF Listing
  <2>2. c.idx[q] \in Nat
    BY <1>7
  <2>3. ASSUME ~Matching(d, q)
        PROVE  /\ ends'[q] = ends[q] /\ took'[q] = before[q]
               /\ StaysEligible(d, dist', q)
               /\ rest /\ d.idx[q] # 0 => dist'.idx[q] > dist'.matching
    <3>1. Keeps(s, d, fate, before, q)
      BY <2>3, <1>5
    <3>2. QED
      BY <3>1, <1>2, <1>4, <1>6, <1>11, <1>15 DEF Keeps, StaysEligible
  <2>4. ASSUME Matching(d, q), Accepts(ends[q])
        PROVE  /\ ends'[q] = Written(ends[q], rest) /\ took'[q] = before[q] + 1
               /\ dist'.idx[q] <= dist'.eligible
               /\ rest => dist'.idx[q] <= dist'.matching
    <3>1. Takes(s, fate, before, rest, q)
      BY <2>4, <1>4, <1>5
    <3>2. c.idx[q] <= c.matching /\ c.idx[q] <= c.eligible
      BY <3>1, <2>2, <1>6, <1>7 DEF Takes
    <3>3. QED
      BY <3>1, <3>2, <1>2, <1>4, <1>11, <1>15 DEF Takes
  <2>5. ASSUME Matching(d, q), ~Accepts(ends[q])
        PROVE  /\ ends'[q] = Refused(ends[q]) /\ took'[q] = before[q]
               /\ dist'.idx[q] > dist'.eligible
               /\ rest => dist'.idx[q] > dist'.matching
    <3>1. IsLeftOut(s, fate, before, q)
      BY <2>5, <1>4, <1>5
    <3>2. c.idx[q] > c.eligible /\ c.idx[q] > c.matching
      BY <3>1, <2>2, <1>6, <1>7 DEF IsLeftOut
    <3>3. QED
      BY <3>1, <3>2, <1>2, <1>4, <1>11, <1>15 DEF IsLeftOut
  <2>6. QED
    BY <2>1, <2>3, <2>4, <2>5
<1>17. QED
  BY <1>2, <1>5, <1>11, <1>12, <1>13, <1>14, <1>16

-----------------------------------------------------------------------------
(* The steps. *)

(* Types, as facts of their own.                                            *)
LEMMA InvFacts ==
    ASSUME DistInv
    PROVE  /\ Indexed(dist) /\ InOrder(dist)
           /\ dist.idx \in [DistPipes -> Nat] /\ dist.matching \in Nat /\ dist.active \in Nat
           /\ dist.eligible \in Nat /\ dist.more \in BOOLEAN
           /\ dist.matching <= dist.eligible
           /\ ends \in [DistPipes -> DistEnds] /\ role \in {"pub", "sub"}
           /\ \A p \in DistPipes : ends[p] \in DistEnds
<1>1. Indexed(dist) /\ InOrder(dist) /\ ends \in [DistPipes -> DistEnds] /\ role \in {"pub", "sub"}
  BY DEF DistInv, Marks, DistTypes
<1>2. /\ dist.idx \in [DistPipes -> Nat] /\ dist.matching \in Nat /\ dist.active \in Nat
      /\ dist.eligible \in Nat /\ dist.more \in BOOLEAN
  BY <1>1, ArrayTypes
<1>3. dist.matching <= dist.eligible
  BY <1>1, <1>2 DEF InOrder
<1>4. QED
  BY <1>1, <1>2, <1>3

(* No pipe yet.                                                             *)
LEMMA DistInitInvariant == DistSizes /\ DistInit => DistInv
<1> SUFFICES ASSUME DistSizes, DistInit PROVE DistInv
  OBVIOUS
<1>1. /\ dist.arr = <<>> /\ dist.idx = [p \in DistPipes |-> 0] /\ dist.matching = 0
      /\ dist.active = 0 /\ dist.eligible = 0 /\ dist.more = FALSE
      /\ dist = [arr |-> dist.arr, idx |-> dist.idx, matching |-> dist.matching,
                 active |-> dist.active, eligible |-> dist.eligible, more |-> dist.more]
  BY DEF DistInit
<1>2. /\ role \in {"pub", "sub"} /\ ends = [p \in DistPipes |-> NoEnd]
      /\ took = [p \in DistPipes |-> 0] /\ due = {} /\ parts = 0 /\ forgotten = {}
  BY DEF DistInit
<1>3. NoEnd \in DistEnds /\ NoEnd.state = "none"
  BY DEF DistSizes, DistEnds, NoEnd
<1>4. DistTypes
  BY <1>2, <1>3 DEF DistTypes
<1>5. Indexed(dist)
  <2>1. dist.arr \in Seq(DistPipes) /\ Len(dist.arr) = 0 /\ dist.idx \in [DistPipes -> Nat]
    BY <1>1
  <2>2. dist \in Arrays
    <3>1. /\ dist.matching \in Nat /\ dist.active \in Nat /\ dist.eligible \in Nat
          /\ dist.more \in BOOLEAN
      <4>1. dist.matching = 0 /\ dist.active = 0 /\ dist.eligible = 0
        BY <1>1
      <4>2. dist.more = FALSE
        BY <1>1
      <4>3. dist.more \in BOOLEAN
        BY <4>2
      <4>4. QED
        BY <4>1, <4>3
    <3>2. dist = [arr |-> dist.arr, idx |-> dist.idx, matching |-> dist.matching,
                  active |-> dist.active, eligible |-> dist.eligible, more |-> dist.more]
      BY <1>1
    <3>3. QED
      BY <2>1, <3>1, <3>2 DEF Arrays
  <2>3. QED
    BY <1>1, <2>1, <2>2 DEF Indexed
<1>6. Marks(dist)
  <2>1. Len(dist.arr) = 0
    BY <1>1
  <2>2. QED
    BY <1>1, <1>5, <2>1 DEF Marks, InOrder
<1>7. Listed /\ Going /\ LeftOut
  <2>1. \A p \in DistPipes : ends[p].state = "none" /\ dist.idx[p] = 0 /\ took[p] = 0
    BY <1>1, <1>2, <1>3
  <2>2. QED
    BY <1>2, <2>1 DEF Listed, Going, LeftOut
<1>8. QED
  BY <1>4, <1>6, <1>7 DEF DistInv

(* All of a set, in any order, are all of it. *)
LEMMA NamesAll ==
    ASSUME NEW S \in SUBSET DistPipes, IsFiniteSet(DistPipes), NEW named \in SetToSeqs(S)
    PROVE  /\ named \o named \in Seq(DistPipes)
           /\ \A q \in DistPipes : (\E i \in 1..Len(named \o named) : (named \o named)[i] = q)
                                   <=> q \in S
<1> DEFINE n == Cardinality(S)
<1>1. IsFiniteSet(S) /\ n \in Nat
  BY FS_Subset, FS_CardinalityType
<1> HIDE DEF n
<1>2. named \in [1..n -> S] /\ \A i, j \in 1..n : i # j => named[i] # named[j]
  BY DEF SetToSeqs, n
<1>3. \A q \in S : \E i \in 1..n : named[i] = q
  <2> SUFFICES ASSUME NEW q \in S, \A i \in 1..n : named[i] # q PROVE FALSE
    OBVIOUS
  <2>1. named \in [1..n -> S \ {q}]
    BY <1>2
  <2>2. IsFiniteSet(S \ {q}) /\ Cardinality(S \ {q}) = n - 1
    BY <1>1, FS_RemoveElement DEF n
  <2>3. IsFiniteSet(1..n) /\ Cardinality(1..n) = n
    BY <1>1, FS_Interval
  <2>4. Cardinality(S \ {q}) < Cardinality(1..n)
    BY <1>1, <2>2, <2>3
  <2>5. \E i, j \in 1..n : i # j /\ named[i] = named[j]
    <3> DEFINE D == 1..n
               T == S \ {q}
    <3>1. /\ IsFiniteSet(D) /\ IsFiniteSet(T) /\ Cardinality(T) < Cardinality(D)
          /\ named \in [D -> T]
      BY <2>1, <2>2, <2>3, <2>4
    <3> HIDE DEF D, T
    <3>2. \E i, j \in D : i # j /\ named[i] = named[j]
      BY <3>1, FS_PigeonHole
    <3>3. QED
      BY <3>2 DEF D
  <2>6. QED
    BY <1>2, <2>5
<1>4. /\ named \in Seq(DistPipes) /\ Len(named) = n
      /\ \A i \in 1..n : named[i] \in S
  BY <1>1, <1>2
<1> DEFINE both == named \o named
<1>5. /\ both \in Seq(DistPipes) /\ Len(both) = n + n
      /\ \A i \in 1..n + n : both[i] = IF i <= n THEN named[i] ELSE named[i - n]
  BY <1>1, <1>4
<1> HIDE DEF both
<1>6. ASSUME NEW q \in DistPipes
      PROVE  (\E i \in 1..Len(both) : both[i] = q) <=> q \in S
  <2>1. ASSUME NEW i \in 1..Len(both) PROVE both[i] \in S
    <3>1. CASE i <= n
      BY <3>1, <1>1, <1>4, <1>5
    <3>2. CASE i > n
      <4>1. i - n \in 1..n
        BY <3>2, <1>1, <1>5
      <4>2. QED
        BY <3>2, <4>1, <1>1, <1>4, <1>5
    <3>3. QED
      BY <3>1, <3>2, <1>1, <1>5
  <2>2. ASSUME q \in S PROVE \E i \in 1..Len(both) : both[i] = q
    <3>1. PICK i \in 1..n : named[i] = q
      BY <1>3, <2>2
    <3>2. i \in 1..n + n /\ both[i] = q
      BY <3>1, <1>1, <1>5
    <3>3. QED
      BY <3>2, <1>5
  <2>3. QED
    BY <2>1, <2>2
<1>7. QED
  BY <1>5, <1>6 DEF both

(* What a refused or a written part changes of an end.                      *)
LEMMA EndEffects ==
    ASSUME DistSizes, NEW e \in DistEnds, NEW rest \in BOOLEAN
    PROVE  /\ Written(e, rest).state = e.state /\ Written(e, rest).out = e.out
           /\ rest => Written(e, rest) = e
           /\ Refused(e).state = e.state /\ Refused(e).inflight = e.inflight
           /\ e.state = "active" => ~Refused(e).out
           /\ Accepts(e) => e.state = "active" /\ e.out /\ e.inflight < DistHwm
           /\ ~Accepts(e) /\ e.state = "active" /\ e.out => e.inflight = DistHwm
<1>1. /\ e.out \in BOOLEAN /\ e.inflight \in 0..DistHwm /\ DistHwm \in Nat
      /\ e = [state |-> e.state, out |-> e.out, inflight |-> e.inflight]
  BY DEF DistSizes, DistEnds
<1>2. /\ Written(e, rest).state = e.state /\ Written(e, rest).out = e.out
      /\ rest => Written(e, rest) = e
  BY <1>1 DEF Written
<1>3. Refused(e).state = e.state /\ Refused(e).inflight = e.inflight
  BY <1>1 DEF Refused
<1>4. e.state = "active" => ~Refused(e).out
  BY <1>1 DEF Refused
<1>5. /\ Accepts(e) => e.state = "active" /\ e.out /\ e.inflight < DistHwm
      /\ ~Accepts(e) /\ e.state = "active" /\ e.out => e.inflight = DistHwm
  BY <1>1 DEF Accepts
<1>6. QED
  BY <1>2, <1>3, <1>4, <1>5

(* A message, or the next part of one, to the pipes that match: that it is *)
(* due to those that match and accept is what each send has to show.       *)
LEMMA SentKeeps ==
    ASSUME DistSizes, DistInv, NEW d, Indexed(d), InOrder(d),
           NEW before \in [DistPipes -> Nat], NEW rest \in BOOLEAN,
           SendToMatching(d, before, rest), rest => role = "pub",
           role' = role, forgotten' = forgotten, due' \subseteq DistPipes, parts' \in Nat,
           \A q \in DistPipes : Listing(dist, d, q) /\ StaysEligible(dist, d, q),
           \A q \in DistPipes : ends[q].state = "none" => before[q] = 0 /\ q \notin due',
           \A q \in DistPipes : ends[q].state = "active" =>
               /\ q \in due' <=> Matching(d, q) /\ Accepts(ends[q])
               /\ IF q \in due' THEN before[q] + 1 = parts' ELSE before[q] = 0
    PROVE  DistInv'
<1>1. /\ Indexed(dist) /\ InOrder(dist)
      /\ dist.idx \in [DistPipes -> Nat] /\ dist.matching \in Nat /\ dist.active \in Nat
      /\ dist.eligible \in Nat /\ dist.more \in BOOLEAN
      /\ dist.matching <= dist.eligible
      /\ ends \in [DistPipes -> DistEnds] /\ role \in {"pub", "sub"}
      /\ \A p \in DistPipes : ends[p] \in DistEnds
  BY InvFacts
<1>2. /\ d.idx \in [DistPipes -> Nat] /\ d.matching \in Nat /\ d.active \in Nat
      /\ d.eligible \in Nat
  BY ArrayTypes
<1>3. d.matching <= d.eligible
  BY <1>2 DEF InOrder
<1>4. /\ Indexed(dist') /\ InOrder(dist') /\ dist'.more = rest
      /\ ~rest => dist'.active = dist'.eligible /\ (role = "pub" => dist'.matching = 0)
      /\ ends' \in [DistPipes -> DistEnds] /\ took' \in [DistPipes -> Nat]
      /\ \A q \in DistPipes :
            /\ Listing(d, dist', q)
            /\ ~Matching(d, q) =>
                  /\ ends'[q] = ends[q] /\ took'[q] = before[q]
                  /\ StaysEligible(d, dist', q)
                  /\ rest /\ d.idx[q] # 0 => dist'.idx[q] > dist'.matching
            /\ Matching(d, q) /\ Accepts(ends[q]) =>
                  /\ ends'[q] = Written(ends[q], rest) /\ took'[q] = before[q] + 1
                  /\ dist'.idx[q] <= dist'.eligible
                  /\ rest => dist'.idx[q] <= dist'.matching
            /\ Matching(d, q) /\ ~Accepts(ends[q]) =>
                  /\ ends'[q] = Refused(ends[q]) /\ took'[q] = before[q]
                  /\ dist'.idx[q] > dist'.eligible
                  /\ rest => dist'.idx[q] > dist'.matching
  <2>1. DistTypes
    BY DEF DistInv
  <2>2. QED
    BY <2>1, SendFacts
<1>5. /\ dist'.idx \in [DistPipes -> Nat] /\ dist'.matching \in Nat /\ dist'.active \in Nat
      /\ dist'.eligible \in Nat
  BY <1>4, ArrayTypes
<1>6. DistTypes'
  BY <1>1, <1>4 DEF DistInv, DistTypes
<1>7. Marks(dist)'
  BY <1>4 DEF Marks
<1>8. \A q \in DistPipes : ends'[q].state = ends[q].state
  <2> SUFFICES ASSUME NEW q \in DistPipes PROVE ends'[q].state = ends[q].state
    OBVIOUS
  <2>1. CASE ~Matching(d, q)
    BY <2>1, <1>4
  <2>2. CASE Matching(d, q) /\ Accepts(ends[q])
    BY <2>2, <1>1, <1>4, EndEffects
  <2>3. CASE Matching(d, q) /\ ~Accepts(ends[q])
    BY <2>3, <1>1, <1>4, EndEffects
  <2>4. QED
    BY <2>1, <2>2, <2>3
<1>9. Listed'
  <2> SUFFICES ASSUME NEW q \in DistPipes
               PROVE  /\ dist'.idx[q] = 0 <=> ends'[q].state = "none"
                      /\ ends'[q].state = "none" => took'[q] = 0 /\ q \notin due'
    BY DEF Listed
  <2>1. dist.idx[q] = 0 <=> ends[q].state = "none"
    BY DEF DistInv, Listed
  <2>2. dist'.idx[q] = 0 <=> ends'[q].state = "none"
    BY <2>1, <1>4, <1>8 DEF Listing
  <2>3. ASSUME ends'[q].state = "none" PROVE took'[q] = 0 /\ q \notin due'
    <3>1. d.idx[q] = 0 /\ ends[q].state = "none"
      BY <2>1, <2>3, <1>8 DEF Listing
    <3>2. ~Matching(d, q)
      BY <3>1 DEF Matching
    <3>3. QED
      BY <3>1, <3>2, <1>4
  <2>4. QED
    BY <2>2, <2>3
<1>10. Going'
  <2> SUFFICES ASSUME NEW q \in DistPipes, ends'[q].state = "active"
               PROVE  /\ took'[q] = IF q \in due' THEN parts' ELSE 0
                      /\ rest => (dist'.idx[q] <= dist'.matching <=> q \in due')
                      /\ rest /\ q \in due' => ends'[q].out /\ ends'[q].inflight < DistHwm
    BY <1>4 DEF Going
  <2>1. /\ ends[q].state = "active" /\ ends[q] \in DistEnds
        /\ q \in due' <=> Matching(d, q) /\ Accepts(ends[q])
        /\ IF q \in due' THEN before[q] + 1 = parts' ELSE before[q] = 0
    BY <1>1, <1>8
  <2>2. d.idx[q] # 0
    <3>1. dist.idx[q] # 0
      BY <2>1 DEF DistInv, Listed
    <3>2. QED
      BY <3>1 DEF Listing
  <2>3. dist'.idx[q] \in Nat
    BY <1>5
  <2>4. CASE ~Matching(d, q)
    BY <2>1, <2>2, <2>3, <2>4, <1>4, <1>5
  <2>5. CASE Matching(d, q) /\ Accepts(ends[q])
    <3>1. /\ q \in due' /\ ends'[q] = Written(ends[q], rest) /\ took'[q] = before[q] + 1
          /\ rest => dist'.idx[q] <= dist'.matching
      BY <2>1, <2>5, <1>4
    <3>2. /\ rest => Written(ends[q], rest) = ends[q]
          /\ ends[q].out /\ ends[q].inflight < DistHwm
      BY <2>1, <2>5, EndEffects
    <3>3. QED
      BY <2>1, <3>1, <3>2
  <2>6. CASE Matching(d, q) /\ ~Accepts(ends[q])
    <3>1. /\ q \notin due' /\ took'[q] = before[q] /\ before[q] = 0
          /\ rest => dist'.idx[q] > dist'.matching
      BY <2>1, <2>6, <1>4
    <3>2. QED
      BY <2>3, <3>1, <1>5
  <2>7. QED
    BY <2>4, <2>5, <2>6
<1>11. ASSUME NEW q \in DistPipes, ends'[q].state = "active"
       PROVE  /\ dist'.idx[q] > dist'.eligible /\ q \notin forgotten => ~ends'[q].out
              /\ ~ends'[q].out => ends'[q].inflight = DistHwm
              /\ role = "pub" /\ dist'.idx[q] <= dist'.eligible => ends'[q].out
  <2>1. /\ ends[q].state = "active" /\ ends[q] \in DistEnds
        /\ dist.idx[q] > dist.eligible /\ q \notin forgotten => ~ends[q].out
        /\ ~ends[q].out => ends[q].inflight = DistHwm
        /\ role = "pub" /\ dist.idx[q] <= dist.eligible => ends[q].out
    BY <1>1, <1>8, <1>11 DEF DistInv, LeftOut
  <2>2. dist.idx[q] # 0 /\ d.idx[q] # 0
    <3>1. dist.idx[q] # 0
      BY <2>1 DEF DistInv, Listed
    <3>2. QED
      BY <3>1 DEF Listing
  <2>3. dist'.idx[q] \in Nat /\ d.idx[q] \in Nat /\ dist.idx[q] \in Nat
    BY <1>1, <1>2, <1>5
  <2>4. CASE ~Matching(d, q)
    <3>1. ends'[q] = ends[q] /\ StaysEligible(d, dist', q) /\ StaysEligible(dist, d, q)
      BY <2>4, <1>4
    <3>2. dist'.idx[q] <= dist'.eligible <=> dist.idx[q] <= dist.eligible
      BY <2>2, <3>1 DEF StaysEligible
    <3>3. QED
      BY <2>1, <2>3, <3>1, <3>2, <1>1, <1>5
  <2>5. CASE Matching(d, q) /\ Accepts(ends[q])
    <3>1. ends'[q] = Written(ends[q], rest) /\ dist'.idx[q] <= dist'.eligible
      BY <2>5, <1>4
    <3>2. Written(ends[q], rest).out = ends[q].out /\ ends[q].out
      BY <2>1, <2>5, EndEffects
    <3>3. QED
      BY <2>3, <3>1, <3>2, <1>5
  <2>6. CASE Matching(d, q) /\ ~Accepts(ends[q])
    <3>1. ends'[q] = Refused(ends[q]) /\ dist'.idx[q] > dist'.eligible
      BY <2>6, <1>4
    <3>2. /\ Refused(ends[q]).inflight = ends[q].inflight /\ ~Refused(ends[q]).out
          /\ ends[q].inflight = DistHwm
      BY <2>1, <2>6, EndEffects
    <3>3. QED
      BY <2>3, <3>1, <3>2, <1>5
  <2>7. QED
    BY <2>4, <2>5, <2>6
<1>12. \A q \in forgotten : dist'.idx[q] > dist'.eligible
  <2> SUFFICES ASSUME NEW q \in forgotten PROVE dist'.idx[q] > dist'.eligible
    OBVIOUS
  <2>1. q \in DistPipes /\ dist.idx[q] > dist.eligible
    BY DEF DistInv, DistTypes, LeftOut
  <2>2. dist'.idx[q] \in Nat /\ d.idx[q] \in Nat /\ dist.idx[q] \in Nat
    BY <2>1, <1>1, <1>2, <1>5
  <2>3. dist.idx[q] # 0 /\ ~(dist.idx[q] <= dist.eligible)
    BY <2>1, <2>2, <1>1
  <2>4. d.idx[q] # 0 /\ ~(d.idx[q] <= d.eligible)
    BY <2>1, <2>3 DEF Listing, StaysEligible
  <2>5. ~Matching(d, q)
    BY <2>2, <2>4, <1>2, <1>3 DEF Matching
  <2>6. ~(dist'.idx[q] <= dist'.eligible)
    BY <2>1, <2>4, <2>5, <1>4 DEF StaysEligible
  <2>7. QED
    BY <2>2, <2>6, <1>5
<1>13. LeftOut'
  <2>1. role = "pub" => forgotten = {}
    BY DEF DistInv, LeftOut
  <2>2. QED
    BY <2>1, <1>11, <1>12 DEF LeftOut
<1>14. QED
  BY <1>6, <1>7, <1>9, <1>10, <1>13 DEF DistInv

(* The first part of a message of a PUB socket.                             *)
LEMMA SendFirstKeeps == DistSizes /\ DistInv /\ SendFirst => DistInv'
<1> SUFFICES ASSUME DistSizes, DistInv, SendFirst PROVE DistInv'
  OBVIOUS
<1>0. PICK wanted \in SUBSET Attached, rest \in BOOLEAN :
         /\ \E named \in SetToSeqs(wanted) :
               SendToMatching(AllMatched(dist, named \o named), NoParts, rest)
         /\ due' = {p \in wanted : Accepts(ends[p])}
  BY DEF SendFirst
<1>1. PICK named \in SetToSeqs(wanted) :
         /\ SendToMatching(AllMatched(dist, named \o named), NoParts, rest)
         /\ due' = {p \in wanted : Accepts(ends[p])}
  BY <1>0
<1>2. /\ role = "pub" /\ ~dist.more /\ parts' = 1 /\ role' = role /\ forgotten' = forgotten
  BY DEF SendFirst
<1>3. /\ Indexed(dist) /\ InOrder(dist)
      /\ dist.idx \in [DistPipes -> Nat] /\ dist.matching \in Nat /\ dist.active \in Nat
      /\ dist.eligible \in Nat /\ dist.more \in BOOLEAN
      /\ dist.matching <= dist.eligible
      /\ ends \in [DistPipes -> DistEnds] /\ role \in {"pub", "sub"}
      /\ \A p \in DistPipes : ends[p] \in DistEnds
  BY InvFacts
<1>4. wanted \in SUBSET DistPipes
  BY <1>1 DEF Attached
<1>5. /\ named \o named \in Seq(DistPipes)
      /\ \A q \in DistPipes :
            (\E i \in 1..Len(named \o named) : (named \o named)[i] = q) <=> q \in wanted
  BY <1>1, <1>4, NamesAll DEF DistSizes
<1>6. dist.active = dist.eligible /\ dist.matching = 0
  BY <1>2 DEF DistInv, Marks
<1>7. PICK d : d = AllMatched(dist, named \o named)
  OBVIOUS
<1>8. /\ Indexed(d) /\ InOrder(d)
      /\ \A q \in DistPipes :
            /\ Listing(dist, d, q) /\ StaysEligible(dist, d, q)
            /\ dist.idx[q] # 0 =>
                  (d.idx[q] <= d.matching <=> dist.idx[q] <= dist.eligible /\ q \in wanted)
  <2> DEFINE both == named \o named
  <2>1. both \in Seq(DistPipes) /\ d = AllMatched(dist, both)
    BY <1>5, <1>7
  <2>2. \A q \in DistPipes : (\E i \in 1..Len(both) : both[i] = q) <=> q \in wanted
    BY <1>5
  <2> HIDE DEF both
  <2>3. /\ Indexed(d) /\ InOrder(d)
        /\ \A q \in DistPipes :
              /\ Listing(dist, d, q) /\ StaysEligible(dist, d, q)
              /\ dist.idx[q] # 0 => (d.idx[q] <= d.matching <=>
                    dist.idx[q] <= dist.eligible /\ \E i \in 1..Len(both) : both[i] = q)
    BY <1>3, <1>6, <2>1, MatchedFacts
  <2>4. QED
    BY <2>2, <2>3
<1>9. /\ NoParts \in [DistPipes -> Nat] /\ \A q \in DistPipes : NoParts[q] = 0
  BY DEF NoParts
<1>10. ASSUME NEW q \in DistPipes, ends[q].state = "none"
       PROVE  NoParts[q] = 0 /\ q \notin due'
  BY <1>1, <1>9, <1>10 DEF Accepts
<1>11. ASSUME NEW q \in DistPipes, ends[q].state = "active"
       PROVE  /\ q \in due' <=> Matching(d, q) /\ Accepts(ends[q])
              /\ IF q \in due' THEN NoParts[q] + 1 = parts' ELSE NoParts[q] = 0
  <2>1. dist.idx[q] # 0 /\ d.idx[q] # 0
    BY <1>8, <1>11 DEF DistInv, Listed, Listing
  <2>2. Accepts(ends[q]) => dist.idx[q] <= dist.eligible
    <3>1. ~(dist.idx[q] > dist.eligible) \/ ~ends[q].out
      BY <1>2, <1>11 DEF DistInv, LeftOut
    <3>2. QED
      BY <3>1, <1>3 DEF Accepts
  <2>3. q \in due' <=> Matching(d, q) /\ Accepts(ends[q])
    BY <1>1, <1>8, <2>1, <2>2 DEF Matching
  <2>4. QED
    BY <2>3, <1>2, <1>9
<1>12. due' \subseteq DistPipes /\ parts' \in Nat
  BY <1>1, <1>2, <1>4
<1>13. SendToMatching(d, NoParts, rest)
  BY <1>1, <1>7
<1>14. QED
  BY <1>1, <1>2, <1>8, <1>9, <1>10, <1>11, <1>12, <1>13, SentKeeps

(* The next part of it, to those that match.                                *)
LEMMA SendNextKeeps == DistSizes /\ DistInv /\ SendNext => DistInv'
<1> SUFFICES ASSUME DistSizes, DistInv, SendNext PROVE DistInv'
  OBVIOUS
<1>1. PICK rest \in BOOLEAN : SendToMatching(dist, took, rest)
  <2> DEFINE b == parts + 1 < DistParts
  <2>1. b \in BOOLEAN
    OBVIOUS
  <2>2. \E rest \in {FALSE} \cup {b} : SendToMatching(dist, took, rest)
    BY DEF SendNext
  <2> HIDE DEF b
  <2>3. PICK rest \in {FALSE} \cup {b} : SendToMatching(dist, took, rest)
    BY <2>2
  <2>4. rest \in BOOLEAN
    BY <2>1
  <2>5. QED
    BY <2>3, <2>4
<1>2. /\ dist.more /\ parts' = parts + 1 /\ role' = role /\ due' = due
      /\ forgotten' = forgotten
  BY DEF SendNext
<1>3. /\ Indexed(dist) /\ InOrder(dist)
      /\ dist.idx \in [DistPipes -> Nat] /\ dist.matching \in Nat
  BY InvFacts
<1>4. role = "pub"
  BY <1>2 DEF DistInv, Marks
<1>5. took \in [DistPipes -> Nat] /\ parts \in Nat /\ due \subseteq DistPipes
  BY DEF DistInv, DistTypes
<1>6. \A q \in DistPipes : Listing(dist, dist, q) /\ StaysEligible(dist, dist, q)
  BY DEF Listing, StaysEligible
<1>7. \A q \in DistPipes : ends[q].state = "none" => took[q] = 0 /\ q \notin due'
  BY <1>2 DEF DistInv, Listed
<1>8. ASSUME NEW q \in DistPipes, ends[q].state = "active"
      PROVE  /\ q \in due' <=> Matching(dist, q) /\ Accepts(ends[q])
             /\ IF q \in due' THEN took[q] + 1 = parts' ELSE took[q] = 0
  <2>1. dist.idx[q] # 0
    BY <1>8 DEF DistInv, Listed
  <2>2. /\ took[q] = IF q \in due THEN parts ELSE 0
        /\ dist.idx[q] <= dist.matching <=> q \in due
        /\ q \in due => ends[q].out /\ ends[q].inflight < DistHwm
    BY <1>2, <1>8 DEF DistInv, Going
  <2>3. q \in due => Accepts(ends[q])
    BY <2>2, <1>8 DEF Accepts
  <2>4. QED
    BY <2>1, <2>2, <2>3, <1>2 DEF Matching
<1>9. due' \subseteq DistPipes /\ parts' \in Nat
  BY <1>2, <1>5
<1>10. QED
  BY <1>1, <1>2, <1>3, <1>4, <1>5, <1>6, <1>7, <1>8, <1>9, SentKeeps

(* A SUB socket's subscription, to all pipes.                               *)
LEMMA SendToAllKeeps == DistSizes /\ DistInv /\ SendToAll => DistInv'
<1> SUFFICES ASSUME DistSizes, DistInv, SendToAll PROVE DistInv'
  OBVIOUS
<1>0. PICK d : d = [dist EXCEPT !.matching = dist.active]
  OBVIOUS
<1>1. PICK rest \in BOOLEAN : ~rest /\ SendToMatching(d, NoParts, rest)
  BY <1>0 DEF SendToAll
<1>2. /\ role = "sub" /\ parts' = 1 /\ role' = role /\ forgotten' = forgotten
      /\ due' = {p \in DistPipes : Accepts(ends[p])} \ forgotten
  BY DEF SendToAll
<1>3. /\ Indexed(dist) /\ InOrder(dist)
      /\ dist.idx \in [DistPipes -> Nat] /\ dist.matching \in Nat /\ dist.active \in Nat
      /\ dist.eligible \in Nat /\ dist \in Arrays
  BY InvFacts DEF Indexed
<1>4. dist.active = dist.eligible
  BY <1>2 DEF DistInv, Marks
<1>5. /\ d \in Arrays /\ d.arr = dist.arr /\ d.idx = dist.idx /\ d.more = dist.more
      /\ d.matching = dist.active /\ d.active = dist.active /\ d.eligible = dist.eligible
  BY <1>0, <1>3 DEF Arrays
<1>6. Indexed(d) /\ InOrder(d)
  BY <1>3, <1>5 DEF Indexed, InOrder
<1>7. NoParts \in [DistPipes -> Nat] /\ \A q \in DistPipes : NoParts[q] = 0
  BY DEF NoParts
<1>8. \A q \in DistPipes : Listing(dist, d, q) /\ StaysEligible(dist, d, q)
  BY <1>5 DEF Listing, StaysEligible
<1>9. \A q \in DistPipes : ends[q].state = "none" => NoParts[q] = 0 /\ q \notin due'
  BY <1>2, <1>7 DEF Accepts
<1>10. ASSUME NEW q \in DistPipes, ends[q].state = "active"
       PROVE  /\ q \in due' <=> Matching(d, q) /\ Accepts(ends[q])
              /\ IF q \in due' THEN NoParts[q] + 1 = parts' ELSE NoParts[q] = 0
  <2>1. dist.idx[q] # 0 /\ dist.idx[q] \in Nat
    BY <1>3, <1>10 DEF DistInv, Listed
  <2>2. /\ dist.idx[q] > dist.eligible /\ q \notin forgotten => ~ends[q].out
        /\ q \in forgotten => dist.idx[q] > dist.eligible
    BY <1>10 DEF DistInv, LeftOut
  <2>3. Matching(d, q) <=> dist.idx[q] <= dist.eligible
    BY <2>1, <1>4, <1>5 DEF Matching
  <2>4. Accepts(ends[q]) => ends[q].out
    BY DEF Accepts
  <2>5. q \in due' <=> Matching(d, q) /\ Accepts(ends[q])
    BY <1>2, <1>3, <2>1, <2>2, <2>3, <2>4
  <2>6. QED
    BY <1>2, <1>7, <2>5
<1>11. due' \subseteq DistPipes /\ parts' \in Nat
  BY <1>2
<1>12. QED
  BY <1>1, <1>2, <1>6, <1>7, <1>8, <1>9, <1>10, <1>11, SentKeeps

(* A step of one pipe: what its end and its place come to is left to the   *)
(* step; of the others dist_t may only let more be eligible.               *)
LEMMA OnePipeKeeps ==
    ASSUME DistSizes, DistInv, NEW p \in DistPipes, NEW kept \in SUBSET DistPipes,
           Remember(kept), role' = role, DistPipes \ {p} \subseteq kept,
           Indexed(dist'), InOrder(dist'), dist'.more = dist.more,
           ~dist'.more => dist'.active = dist'.eligible /\ (role = "pub" => dist'.matching = 0),
           ends' \in [DistPipes -> DistEnds],
           \A q \in DistPipes \ {p} : ends'[q] = ends[q],
           forgotten' \subseteq DistPipes, role = "pub" => forgotten' = {},
           \A q \in forgotten' : dist'.idx[q] > dist'.eligible,
           \A q \in DistPipes \ {p} :
               /\ Listing(dist, dist', q) /\ (dist.more => StaysMatching(dist, dist', q))
               /\ role = "pub" => StaysEligible(dist, dist', q)
               /\ dist.idx[q] # 0 /\ dist'.idx[q] > dist'.eligible /\ q \notin forgotten' =>
                     dist.idx[q] > dist.eligible /\ q \notin forgotten,
           dist'.idx[p] = 0 <=> ends'[p].state = "none",
           p \in kept <=> ends'[p].state # "none",
           ends'[p].state = "active" =>
               /\ ends[p].state # "closing"
               /\ dist.more => (dist'.idx[p] <= dist'.matching <=> p \in due)
               /\ dist.more /\ p \in due => ends'[p].out /\ ends'[p].inflight < DistHwm
               /\ dist'.idx[p] > dist'.eligible /\ p \notin forgotten' => ~ends'[p].out
               /\ ~ends'[p].out => ends'[p].inflight = DistHwm
               /\ role = "pub" /\ dist'.idx[p] <= dist'.eligible => ends'[p].out
    PROVE  DistInv'
<1>1. /\ dist.more \in BOOLEAN /\ role \in {"pub", "sub"}
      /\ \A q \in DistPipes : ends[q] \in DistEnds
  BY InvFacts
<1>2. /\ took \in [DistPipes -> Nat] /\ parts \in Nat /\ due \subseteq DistPipes
      /\ took' = [q \in DistPipes |-> IF dist.more /\ q \in kept THEN took[q] ELSE 0]
      /\ due' = (IF dist.more THEN due \cap kept ELSE {})
      /\ parts' = IF dist.more THEN parts ELSE 0
  BY DEF DistInv, DistTypes, Remember
<1>3. /\ took' \in [DistPipes -> Nat] /\ due' \subseteq DistPipes /\ parts' \in Nat
      /\ \A q \in DistPipes : took'[q] = IF dist.more /\ q \in kept THEN took[q] ELSE 0
  BY <1>2
<1>4. DistTypes'
  BY <1>1, <1>3 DEF DistTypes
<1>5. Marks(dist)'
  <2>1. dist.more => role = "pub"
    BY DEF DistInv, Marks
  <2>2. QED
    BY <2>1 DEF Marks
<1>6. ASSUME NEW q \in DistPipes
      PROVE  ends[q].state = "none" => took[q] = 0 /\ q \notin due
  BY DEF DistInv, Listed
<1>7. Listed'
  <2> SUFFICES ASSUME NEW q \in DistPipes
               PROVE  /\ dist'.idx[q] = 0 <=> ends'[q].state = "none"
                      /\ ends'[q].state = "none" => took'[q] = 0 /\ q \notin due'
    BY DEF Listed
  <2>1. CASE q = p
    BY <2>1, <1>2, <1>3
  <2>2. CASE q # p
    <3>1. /\ Listing(dist, dist', q) /\ ends'[q] = ends[q]
          /\ dist.idx[q] = 0 <=> ends[q].state = "none"
      BY <2>2 DEF DistInv, Listed
    <3>2. QED
      BY <3>1, <1>2, <1>3, <1>6 DEF Listing
  <2>3. QED
    BY <2>1, <2>2
<1>8. ASSUME NEW q \in DistPipes, ends'[q].state = "active"
      PROVE  /\ q \in kept
             /\ took'[q] = IF q \in due' THEN parts' ELSE 0
  <2>1. q \in kept
    BY <1>8
  <2>2. ends[q].state = "active" \/ ends[q].state = "none"
    <3>1. ends[q].state # "closing"
      BY <1>8
    <3>2. ends[q].state \in {"none", "active", "closing"}
      BY <1>1 DEF DistEnds
    <3>3. QED
      BY <3>1, <3>2
  <2>3. took[q] = IF q \in due THEN parts ELSE 0
    <3>1. CASE ends[q].state = "active"
      BY <3>1 DEF DistInv, Going
    <3>2. CASE ends[q].state = "none"
      BY <3>2, <1>6
    <3>3. QED
      BY <2>2, <3>1, <3>2
  <2>4. CASE dist.more
    BY <2>1, <2>3, <2>4, <1>2, <1>3
  <2>5. CASE ~dist.more
    BY <2>1, <2>5, <1>2, <1>3
  <2>6. QED
    BY <2>1, <2>4, <2>5
<1>9. Going'
  <2> SUFFICES ASSUME NEW q \in DistPipes, ends'[q].state = "active"
               PROVE  /\ dist.more => (dist'.idx[q] <= dist'.matching <=> q \in due')
                      /\ dist.more /\ q \in due' => ends'[q].out /\ ends'[q].inflight < DistHwm
    BY <1>8 DEF Going
  <2>1. dist.more => (q \in due' <=> q \in due)
    BY <1>2, <1>8
  <2>2. CASE q = p
    BY <2>1, <2>2
  <2>3. CASE q # p
    <3>1. ends'[q] = ends[q] /\ ends[q].state = "active"
      BY <2>3
    <3>2. /\ dist.more => (dist.idx[q] <= dist.matching <=> q \in due)
          /\ dist.more /\ q \in due => ends[q].out /\ ends[q].inflight < DistHwm
          /\ dist.idx[q] # 0
      BY <3>1 DEF DistInv, Going, Listed
    <3>3. dist.more => StaysMatching(dist, dist', q)
      BY <2>3
    <3>4. dist.more => (dist'.idx[q] <= dist'.matching <=> dist.idx[q] <= dist.matching)
      BY <3>2, <3>3 DEF StaysMatching
    <3>5. QED
      BY <2>1, <3>1, <3>2, <3>4
  <2>4. QED
    BY <2>2, <2>3
<1>10. ASSUME NEW q \in DistPipes, ends'[q].state = "active"
       PROVE  /\ dist'.idx[q] > dist'.eligible /\ q \notin forgotten' => ~ends'[q].out
              /\ ~ends'[q].out => ends'[q].inflight = DistHwm
              /\ role = "pub" /\ dist'.idx[q] <= dist'.eligible => ends'[q].out
  <2>1. CASE q = p
    BY <2>1, <1>10
  <2>2. CASE q # p
    <3>1. ends'[q] = ends[q] /\ ends[q].state = "active"
      BY <2>2, <1>10
    <3>2. /\ dist.idx[q] > dist.eligible /\ q \notin forgotten => ~ends[q].out
          /\ ~ends[q].out => ends[q].inflight = DistHwm
          /\ role = "pub" /\ dist.idx[q] <= dist.eligible => ends[q].out
          /\ dist.idx[q] # 0
      BY <3>1 DEF DistInv, LeftOut, Listed
    <3>3. /\ role = "pub" => StaysEligible(dist, dist', q)
          /\ dist.idx[q] # 0 /\ dist'.idx[q] > dist'.eligible /\ q \notin forgotten' =>
                dist.idx[q] > dist.eligible /\ q \notin forgotten
      BY <2>2
    <3>4. role = "pub" => (dist'.idx[q] <= dist'.eligible <=> dist.idx[q] <= dist.eligible)
      BY <3>2, <3>3 DEF StaysEligible
    <3>5. QED
      BY <3>1, <3>2, <3>3, <3>4
  <2>3. QED
    BY <2>1, <2>2
<1>11. LeftOut'
  BY <1>10 DEF LeftOut
<1>12. QED
  BY <1>4, <1>5, <1>7, <1>9, <1>11 DEF DistInv

(* A SUB socket sends its subscriptions to one pipe.                        *)
LEMMA AppliedFacts ==
    ASSUME DistSizes, ends \in [DistPipes -> DistEnds], NEW p \in DistPipes,
           NEW e \in DistEnds, e.state = "active", e.out, Applied(e, p)
    PROVE  /\ ends' \in [DistPipes -> DistEnds]
           /\ \A q \in DistPipes \ {p} : ends'[q] = ends[q]
           /\ ends'[p].state = "active"
           /\ ~ends'[p].out => ends'[p].inflight = DistHwm
           /\ role = "pub" => ends'[p].out
<1>1. CASE role = "pub"
  <2>1. ends' = [ends EXCEPT ![p] = e]
    BY <1>1 DEF Applied
  <2>2. QED
    BY <1>1, <2>1
<1>2. CASE role # "pub"
  <2>1. PICK n \in 0..DistHwm + 1 : ends' = [ends EXCEPT ![p] = Apply(e, n)]
    BY <1>2 DEF Applied
  <2>2. /\ DistHwm \in Nat /\ e.inflight \in 0..DistHwm /\ n \in Nat
        /\ e = [state |-> "active", out |-> TRUE, inflight |-> e.inflight]
    BY DEF DistSizes, DistEnds
  <2>3. /\ Apply(e, n) \in DistEnds /\ Apply(e, n).state = "active"
        /\ ~Apply(e, n).out => Apply(e, n).inflight = DistHwm
    <3>1. CASE e.inflight + n <= DistHwm
      <4>1. Apply(e, n) = [e EXCEPT !.inflight = e.inflight + n]
        BY <3>1 DEF Apply
      <4>2. e.inflight + n \in 0..DistHwm
        BY <2>2, <3>1
      <4>3. QED
        BY <2>2, <4>1, <4>2 DEF DistEnds
    <3>2. CASE ~(e.inflight + n <= DistHwm)
      <4>1. Apply(e, n) = [e EXCEPT !.inflight = DistHwm, !.out = FALSE]
        BY <3>2 DEF Apply
      <4>2. Apply(e, n) = [state |-> "active", out |-> FALSE, inflight |-> DistHwm]
        BY <2>2, <4>1
      <4>3. DistHwm \in 0..DistHwm
        BY <2>2
      <4>4. QED
        BY <4>2, <4>3 DEF DistEnds
    <3>3. QED
      BY <3>1, <3>2
  <2>4. QED
    BY <1>2, <2>1, <2>3
<1>3. QED
  BY <1>1, <1>2

(* A pipe comes.                                                            *)
LEMMA XAttachPipeKeeps ==
    ASSUME DistSizes, DistInv, NEW p \in DistPipes, XAttachPipe(p)
    PROVE  DistInv'
<1>1. /\ ends[p].state = "none" /\ dist' = AttachPipe(dist, p) /\ Applied(FreshEnd, p)
      /\ Remember(DistPipes) /\ role' = role /\ forgotten' = forgotten
  BY DEF XAttachPipe
<1>2. /\ Indexed(dist) /\ InOrder(dist)
      /\ dist.idx \in [DistPipes -> Nat] /\ dist.matching \in Nat /\ dist.active \in Nat
      /\ dist.eligible \in Nat /\ ends \in [DistPipes -> DistEnds]
  BY InvFacts
<1>3. /\ dist.idx[p] = 0 /\ p \notin due
      /\ ~dist.more => dist.active = dist.eligible /\ (role = "pub" => dist.matching = 0)
      /\ forgotten \subseteq DistPipes /\ (role = "pub" => forgotten = {})
      /\ \A q \in forgotten : dist.idx[q] > dist.eligible
  BY <1>1 DEF DistInv, Marks, Listed, DistTypes, LeftOut
<1>4. PICK r : r = AttachPipe(dist, p)
  OBVIOUS
<1>5. /\ Indexed(r) /\ InOrder(r) /\ r.more = dist.more /\ r.matching = dist.matching
      /\ ~r.more => r.active = r.eligible
      /\ r.idx[p] > r.matching /\ r.idx[p] <= r.eligible
      /\ \A q \in DistPipes \ {p} :
            Listing(dist, r, q) /\ StaysMatching(dist, r, q) /\ StaysEligible(dist, r, q)
  BY <1>2, <1>3, <1>4, AttachFacts
<1>6. dist' = r
  BY <1>1, <1>4
<1>7. r.idx \in [DistPipes -> Nat] /\ r.matching \in Nat /\ r.eligible \in Nat
  BY <1>5, ArrayTypes
<1>8. /\ ends' \in [DistPipes -> DistEnds]
      /\ \A q \in DistPipes \ {p} : ends'[q] = ends[q]
      /\ ends'[p].state = "active"
      /\ ~ends'[p].out => ends'[p].inflight = DistHwm
      /\ role = "pub" => ends'[p].out
  <2>1. FreshEnd \in DistEnds /\ FreshEnd.state = "active" /\ FreshEnd.out
    BY DEF FreshEnd, DistEnds, DistSizes
  <2>2. QED
    BY <1>1, <1>2, <2>1, AppliedFacts
<1>9. ASSUME NEW q \in forgotten PROVE dist'.idx[q] > dist'.eligible
  <2>1. q # p /\ q \in DistPipes /\ dist.idx[q] # 0 /\ ~(dist.idx[q] <= dist.eligible)
    BY <1>2, <1>3
  <2>2. ~(r.idx[q] <= r.eligible)
    BY <1>5, <2>1 DEF StaysEligible
  <2>3. QED
    BY <1>6, <1>7, <2>1, <2>2
<1>10. ASSUME NEW q \in DistPipes \ {p}
       PROVE  /\ Listing(dist, dist', q) /\ (dist.more => StaysMatching(dist, dist', q))
              /\ role = "pub" => StaysEligible(dist, dist', q)
              /\ dist.idx[q] # 0 /\ dist'.idx[q] > dist'.eligible /\ q \notin forgotten' =>
                    dist.idx[q] > dist.eligible /\ q \notin forgotten
  BY <1>1, <1>2, <1>5, <1>6, <1>7 DEF StaysEligible
<1>11. /\ ~(dist'.idx[p] <= dist'.matching) /\ ~(dist'.idx[p] > dist'.eligible)
       /\ dist'.idx[p] # 0
  BY <1>5, <1>6, <1>7
<1>12. DistPipes \in SUBSET DistPipes /\ DistPipes \ {p} \subseteq DistPipes
  OBVIOUS
<1>13. ~dist'.more => dist'.active = dist'.eligible /\ (role = "pub" => dist'.matching = 0)
  BY <1>3, <1>5, <1>6
<1>14. /\ Indexed(dist') /\ InOrder(dist') /\ dist'.more = dist.more
  BY <1>5, <1>6
<1>15. /\ dist'.idx[p] = 0 <=> ends'[p].state = "none"
       /\ p \in DistPipes <=> ends'[p].state # "none"
       /\ ends'[p].state = "active" =>
               /\ ends[p].state # "closing"
               /\ dist.more => (dist'.idx[p] <= dist'.matching <=> p \in due)
               /\ dist.more /\ p \in due => ends'[p].out /\ ends'[p].inflight < DistHwm
               /\ dist'.idx[p] > dist'.eligible /\ p \notin forgotten' => ~ends'[p].out
               /\ ~ends'[p].out => ends'[p].inflight = DistHwm
               /\ role = "pub" /\ dist'.idx[p] <= dist'.eligible => ends'[p].out
  BY <1>1, <1>3, <1>8, <1>11
<1>16. QED
  BY <1>1, <1>3, <1>8, <1>9, <1>10, <1>12, <1>13, <1>14, <1>15, OnePipeKeeps

(* The peer has read.                                                       *)
LEMMA ProcessActivateWriteKeeps ==
    ASSUME DistSizes, DistInv, NEW p \in DistPipes, ProcessActivateWrite(p)
    PROVE  DistInv'
<1>1. /\ ends[p].state = "active" /\ Remember(DistPipes) /\ role' = role
      /\ dist' = (IF ends[p].out THEN dist ELSE ActivatePipe(dist, p))
      /\ forgotten' = {f \in forgotten : dist'.idx[f] > dist'.eligible}
  BY DEF ProcessActivateWrite
<1>2. PICK n \in 0..ends[p].inflight - 1 :
         ends' = [ends EXCEPT ![p].inflight = n, ![p].out = TRUE]
  BY DEF ProcessActivateWrite
<1>3. /\ Indexed(dist) /\ InOrder(dist)
      /\ dist.idx \in [DistPipes -> Nat] /\ dist.matching \in Nat /\ dist.active \in Nat
      /\ dist.eligible \in Nat /\ dist.more \in BOOLEAN /\ dist.matching <= dist.eligible
      /\ ends \in [DistPipes -> DistEnds] /\ ends[p] \in DistEnds
  BY InvFacts
<1>4. /\ ~dist.more => dist.active = dist.eligible /\ (role = "pub" => dist.matching = 0)
      /\ forgotten \subseteq DistPipes /\ (role = "pub" => forgotten = {})
      /\ \A q \in forgotten : dist.idx[q] > dist.eligible
      /\ dist.idx[p] # 0 /\ (dist.more => role = "pub")
  BY <1>1 DEF DistInv, Marks, Listed, DistTypes, LeftOut
<1>5. /\ ends' \in [DistPipes -> DistEnds]
      /\ \A q \in DistPipes \ {p} : ends'[q] = ends[q]
      /\ ends'[p].state = "active" /\ ends'[p].out /\ ends'[p].inflight < DistHwm
  <2>1. DistHwm \in Nat /\ ends[p].inflight \in 0..DistHwm
    BY <1>3 DEF DistSizes, DistEnds
  <2>2. PICK one : one = [ends[p] EXCEPT !.inflight = n]
    OBVIOUS
  <2>3. one \in DistEnds /\ one.state = "active" /\ one.inflight = n
    BY <1>1, <1>3, <2>1, <2>2 DEF DistEnds
  <2>4. PICK e : e = [one EXCEPT !.out = TRUE]
    OBVIOUS
  <2>5. e \in DistEnds /\ e.state = "active" /\ e.out /\ e.inflight < DistHwm
    <3>1. e \in DistEnds
      BY <2>3, <2>4 DEF DistEnds
    <3>2. e.state = "active" /\ e.inflight = n /\ e.out
      BY <2>3, <2>4 DEF DistEnds
    <3>3. QED
      BY <2>1, <3>1, <3>2
  <2>6. ends' = [ends EXCEPT ![p] = e]
    <3> DEFINE first == [ends EXCEPT ![p] = one]
    <3>1. ends' = [first EXCEPT ![p] = [first[p] EXCEPT !.out = TRUE]]
      BY <1>2, <2>2
    <3>2. first[p] = one
      BY <1>3
    <3>3. ends' = [first EXCEPT ![p] = e]
      BY <2>4, <3>1, <3>2
    <3>4. QED
      BY <3>3, <1>3
  <2>7. QED
    BY <1>3, <2>5, <2>6
<1>6. /\ Indexed(dist') /\ InOrder(dist') /\ dist'.more = dist.more
      /\ dist'.matching = dist.matching /\ (~dist'.more => dist'.active = dist'.eligible)
      /\ ~ends[p].out => dist'.idx[p] <= dist'.eligible
      /\ \A q \in DistPipes :
            /\ Listing(dist, dist', q)
            /\ dist.idx[q] # 0 /\ dist.idx[q] <= dist.eligible => dist'.idx[q] <= dist'.eligible
            /\ ends[p].out \/ dist.idx[p] > dist.eligible =>
                  /\ StaysMatching(dist, dist', q)
                  /\ q # p => StaysEligible(dist, dist', q)
  <2>1. CASE ends[p].out
    <3>1. dist' = dist
      BY <1>1, <2>1
    <3>2. QED
      BY <1>3, <1>4, <2>1, <3>1 DEF Listing, StaysMatching, StaysEligible
  <2>2. CASE ~ends[p].out
    <3>1. PICK r : r = ActivatePipe(dist, p)
      OBVIOUS
    <3>2. /\ Indexed(r) /\ InOrder(r) /\ r.more = dist.more /\ r.matching = dist.matching
          /\ ~r.more => r.active = r.eligible
          /\ r.idx[p] <= r.eligible
          /\ \A q \in DistPipes :
                /\ Listing(dist, r, q)
                /\ dist.idx[q] # 0 /\ dist.idx[q] <= dist.eligible => r.idx[q] <= r.eligible
                /\ dist.idx[p] > dist.eligible => StaysMatching(dist, r, q)
                /\ dist.idx[p] > dist.eligible /\ q # p => StaysEligible(dist, r, q)
      BY <1>3, <1>4, <3>1, ActivateFacts
    <3>3. dist' = r
      BY <1>1, <2>2, <3>1
    <3>4. QED
      BY <2>2, <3>2, <3>3
  <2>3. QED
    BY <2>1, <2>2
<1>7. dist'.idx \in [DistPipes -> Nat] /\ dist'.matching \in Nat /\ dist'.eligible \in Nat
  BY <1>6, ArrayTypes
<1>8. role = "pub" => ends[p].out \/ dist.idx[p] > dist.eligible
  <2>1. role = "pub" /\ dist.idx[p] <= dist.eligible => ends[p].out
    BY <1>1 DEF DistInv, LeftOut
  <2>2. QED
    BY <2>1, <1>3
<1>9. /\ forgotten' \subseteq DistPipes /\ (role = "pub" => forgotten' = {})
      /\ \A q \in forgotten' : dist'.idx[q] > dist'.eligible
  BY <1>1, <1>4
<1>10. ASSUME NEW q \in DistPipes \ {p}
       PROVE  /\ Listing(dist, dist', q) /\ (dist.more => StaysMatching(dist, dist', q))
              /\ role = "pub" => StaysEligible(dist, dist', q)
              /\ dist.idx[q] # 0 /\ dist'.idx[q] > dist'.eligible /\ q \notin forgotten' =>
                    dist.idx[q] > dist.eligible /\ q \notin forgotten
  <2>1. ASSUME dist.idx[q] # 0, dist'.idx[q] > dist'.eligible, q \notin forgotten'
        PROVE  dist.idx[q] > dist.eligible /\ q \notin forgotten
    <3>1. q \notin forgotten
      BY <1>1, <2>1
    <3>2. ~(dist.idx[q] <= dist.eligible)
      BY <1>6, <1>7, <2>1
    <3>3. QED
      BY <3>1, <3>2, <1>3
  <2>2. QED
    BY <1>4, <1>6, <1>8, <2>1
<1>11. dist.more => (dist'.idx[p] <= dist'.matching <=> p \in due)
  <2>1. dist.more => (dist.idx[p] <= dist.matching <=> p \in due)
    BY <1>1 DEF DistInv, Going
  <2>2. dist.more => StaysMatching(dist, dist', p)
    BY <1>4, <1>6, <1>8
  <2>3. QED
    BY <2>1, <2>2, <1>4 DEF StaysMatching
<1>12. DistPipes \in SUBSET DistPipes /\ DistPipes \ {p} \subseteq DistPipes
  OBVIOUS
<1>13. ~dist'.more => dist'.active = dist'.eligible /\ (role = "pub" => dist'.matching = 0)
  BY <1>4, <1>6
<1>14. dist'.idx[p] > dist'.eligible => p \in forgotten'
  <2>1. ASSUME dist'.idx[p] > dist'.eligible PROVE p \in forgotten'
    <3>1. ends[p].out
      BY <1>6, <1>7, <2>1
    <3>2. dist' = dist
      BY <1>1, <3>1
    <3>3. p \in forgotten
      BY <1>1, <2>1, <3>1, <3>2 DEF DistInv, LeftOut
    <3>4. QED
      BY <1>1, <2>1, <3>3
  <2>2. QED
    BY <2>1
<1>15. /\ dist'.idx[p] = 0 <=> ends'[p].state = "none"
       /\ p \in DistPipes <=> ends'[p].state # "none"
       /\ ends'[p].state = "active" =>
               /\ ends[p].state # "closing"
               /\ dist.more => (dist'.idx[p] <= dist'.matching <=> p \in due)
               /\ dist.more /\ p \in due => ends'[p].out /\ ends'[p].inflight < DistHwm
               /\ dist'.idx[p] > dist'.eligible /\ p \notin forgotten' => ~ends'[p].out
               /\ ~ends'[p].out => ends'[p].inflight = DistHwm
               /\ role = "pub" /\ dist'.idx[p] <= dist'.eligible => ends'[p].out
  <2>1. dist'.idx[p] # 0
    BY <1>4, <1>6 DEF Listing
  <2>2. QED
    BY <1>1, <1>5, <1>11, <1>14, <2>1
<1>16. QED
  BY <1>1, <1>5, <1>6, <1>9, <1>10, <1>12, <1>13, <1>15, OnePipeKeeps

(* The connection was lost and made again.                                  *)
LEMMA ProcessHiccupKeeps ==
    ASSUME DistSizes, DistInv, NEW p \in DistPipes, ProcessHiccup(p)
    PROVE  DistInv'
<1>1. /\ ends[p].state = "active" /\ role = "sub" /\ Remember(DistPipes) /\ role' = role
      /\ dist' = dist
      /\ forgotten' = IF ends'[p].out /\ dist.idx[p] > dist.eligible
                      THEN forgotten \cup {p} ELSE forgotten \ {p}
  BY DEF ProcessHiccup
<1>2. PICK n \in 0..ends[p].inflight :
         Applied([ends[p] EXCEPT !.inflight = n, !.out = TRUE], p)
  BY DEF ProcessHiccup
<1>3. /\ Indexed(dist) /\ InOrder(dist) /\ dist.more \in BOOLEAN
      /\ ends \in [DistPipes -> DistEnds] /\ ends[p] \in DistEnds
      /\ dist.idx \in [DistPipes -> Nat] /\ dist.eligible \in Nat
  BY InvFacts
<1>4. /\ ~dist.more /\ dist.active = dist.eligible
      /\ forgotten \subseteq DistPipes
      /\ \A q \in forgotten : dist.idx[q] > dist.eligible
      /\ dist.idx[p] # 0
  BY <1>1 DEF DistInv, Marks, Listed, DistTypes, LeftOut
<1>5. /\ ends' \in [DistPipes -> DistEnds]
      /\ \A q \in DistPipes \ {p} : ends'[q] = ends[q]
      /\ ends'[p].state = "active"
      /\ ~ends'[p].out => ends'[p].inflight = DistHwm
  <2>1. DistHwm \in Nat /\ ends[p].inflight \in 0..DistHwm
    BY <1>3 DEF DistSizes, DistEnds
  <2>2. PICK e : e = [ends[p] EXCEPT !.inflight = n, !.out = TRUE]
    OBVIOUS
  <2>3. e = [state |-> "active", out |-> TRUE, inflight |-> n]
    BY <1>1, <1>3, <2>2 DEF DistEnds
  <2>4. e \in DistEnds /\ e.state = "active" /\ e.out
    BY <2>1, <2>3 DEF DistEnds
  <2>5. QED
    BY <1>2, <1>3, <2>2, <2>4, AppliedFacts
<1>6. /\ forgotten' \subseteq DistPipes /\ \A q \in forgotten' : dist'.idx[q] > dist'.eligible
      /\ \A q \in DistPipes \ {p} : q \in forgotten' <=> q \in forgotten
      /\ ends'[p].out /\ dist.idx[p] > dist.eligible => p \in forgotten'
  BY <1>1, <1>4
<1>7. \A q \in DistPipes : /\ Listing(dist, dist', q) /\ StaysMatching(dist, dist', q)
                           /\ StaysEligible(dist, dist', q)
  BY <1>1 DEF Listing, StaysMatching, StaysEligible
<1>8. DistPipes \in SUBSET DistPipes /\ DistPipes \ {p} \subseteq DistPipes
  OBVIOUS
<1>9. role # "pub"
  BY <1>1
<1>10. /\ Indexed(dist') /\ InOrder(dist') /\ dist'.more = dist.more
       /\ ~dist'.more => dist'.active = dist'.eligible /\ (role = "pub" => dist'.matching = 0)
  BY <1>1, <1>3, <1>4, <1>9
<1>11. /\ dist'.idx[p] = 0 <=> ends'[p].state = "none"
       /\ p \in DistPipes <=> ends'[p].state # "none"
       /\ ends'[p].state = "active" =>
               /\ ends[p].state # "closing"
               /\ dist.more => (dist'.idx[p] <= dist'.matching <=> p \in due)
               /\ dist.more /\ p \in due => ends'[p].out /\ ends'[p].inflight < DistHwm
               /\ dist'.idx[p] > dist'.eligible /\ p \notin forgotten' => ~ends'[p].out
               /\ ~ends'[p].out => ends'[p].inflight = DistHwm
               /\ role = "pub" /\ dist'.idx[p] <= dist'.eligible => ends'[p].out
  BY <1>1, <1>4, <1>5, <1>6, <1>9
<1>12. \A q \in DistPipes \ {p} :
          dist.idx[q] # 0 /\ dist'.idx[q] > dist'.eligible /\ q \notin forgotten' =>
             dist.idx[q] > dist.eligible /\ q \notin forgotten
  BY <1>1, <1>6
<1>13. QED
  BY <1>1, <1>5, <1>6, <1>7, <1>8, <1>9, <1>10, <1>11, <1>12, OnePipeKeeps

(* The peer ends.                                                           *)
LEMMA ProcessPipeTermKeeps ==
    ASSUME DistSizes, DistInv, NEW p \in DistPipes, ProcessPipeTerm(p)
    PROVE  DistInv'
<1>1. /\ ends[p].state = "active" /\ Remember(DistPipes) /\ role' = role
      /\ dist' = dist /\ forgotten' = forgotten
      /\ ends' = [ends EXCEPT ![p].state = "closing"]
  BY DEF ProcessPipeTerm
<1>2. /\ Indexed(dist) /\ InOrder(dist) /\ dist.more \in BOOLEAN
      /\ ends \in [DistPipes -> DistEnds] /\ ends[p] \in DistEnds
  BY InvFacts
<1>3. /\ ~dist.more => dist.active = dist.eligible /\ (role = "pub" => dist.matching = 0)
      /\ forgotten \subseteq DistPipes /\ (role = "pub" => forgotten = {})
      /\ \A q \in forgotten : dist.idx[q] > dist.eligible
      /\ dist.idx[p] # 0
  BY <1>1 DEF DistInv, Marks, Listed, DistTypes, LeftOut
<1>4. /\ ends' \in [DistPipes -> DistEnds]
      /\ \A q \in DistPipes \ {p} : ends'[q] = ends[q]
      /\ ends'[p].state = "closing"
  <2>1. PICK e : e = [ends[p] EXCEPT !.state = "closing"]
    OBVIOUS
  <2>2. e \in DistEnds /\ e.state = "closing"
    BY <1>2, <2>1 DEF DistEnds
  <2>3. ends' = [ends EXCEPT ![p] = e]
    BY <1>1, <2>1
  <2>4. QED
    BY <1>2, <2>2, <2>3
<1>5. \A q \in DistPipes : /\ Listing(dist, dist', q) /\ StaysMatching(dist, dist', q)
                           /\ StaysEligible(dist, dist', q)
  BY <1>1 DEF Listing, StaysMatching, StaysEligible
<1>6. DistPipes \in SUBSET DistPipes /\ DistPipes \ {p} \subseteq DistPipes
  OBVIOUS
<1>7. QED
  BY <1>1, <1>2, <1>3, <1>4, <1>5, <1>6, OnePipeKeeps

(* The pipe is gone.                                                        *)
LEMMA XPipeTerminatedKeeps ==
    ASSUME DistSizes, DistInv, NEW p \in DistPipes, XPipeTerminated(p)
    PROVE  DistInv'
<1>1. /\ ends[p].state = "closing" /\ Remember(DistPipes \ {p}) /\ role' = role
      /\ dist' = RemovePipe(dist, p) /\ forgotten' = forgotten \ {p}
      /\ ends' = [ends EXCEPT ![p] = NoEnd]
  BY DEF XPipeTerminated
<1>2. /\ Indexed(dist) /\ InOrder(dist) /\ dist.more \in BOOLEAN
      /\ dist.idx \in [DistPipes -> Nat] /\ dist.eligible \in Nat
      /\ ends \in [DistPipes -> DistEnds]
  BY InvFacts
<1>3. /\ ~dist.more => dist.active = dist.eligible /\ (role = "pub" => dist.matching = 0)
      /\ forgotten \subseteq DistPipes /\ (role = "pub" => forgotten = {})
      /\ \A q \in forgotten : dist.idx[q] > dist.eligible
      /\ dist.idx[p] # 0
  BY <1>1 DEF DistInv, Marks, Listed, DistTypes, LeftOut
<1>4. PICK r : r = RemovePipe(dist, p)
  OBVIOUS
<1>5. /\ Indexed(r) /\ InOrder(r) /\ r.more = dist.more /\ r.idx[p] = 0
      /\ dist.active = dist.eligible => r.active = r.eligible
      /\ dist.matching = 0 => r.matching = 0
      /\ \A q \in DistPipes \ {p} :
            Listing(dist, r, q) /\ StaysMatching(dist, r, q) /\ StaysEligible(dist, r, q)
  BY <1>2, <1>3, <1>4, RemoveFacts
<1>6. dist' = r
  BY <1>1, <1>4
<1>7. r.idx \in [DistPipes -> Nat] /\ r.eligible \in Nat
  BY <1>5, ArrayTypes
<1>8. /\ ends' \in [DistPipes -> DistEnds]
      /\ \A q \in DistPipes \ {p} : ends'[q] = ends[q]
      /\ ends'[p].state = "none"
  <2>1. NoEnd \in DistEnds /\ NoEnd.state = "none"
    BY DEF NoEnd, DistEnds, DistSizes
  <2>2. QED
    BY <1>1, <1>2, <2>1
<1>9. ASSUME NEW q \in forgotten' PROVE dist'.idx[q] > dist'.eligible
  <2>1. q # p /\ q \in DistPipes /\ dist.idx[q] # 0 /\ ~(dist.idx[q] <= dist.eligible)
    BY <1>1, <1>2, <1>3
  <2>2. ~(r.idx[q] <= r.eligible)
    BY <1>5, <2>1 DEF StaysEligible
  <2>3. QED
    BY <1>6, <1>7, <2>1, <2>2
<1>10. ASSUME NEW q \in DistPipes \ {p}
       PROVE  /\ Listing(dist, dist', q) /\ (dist.more => StaysMatching(dist, dist', q))
              /\ role = "pub" => StaysEligible(dist, dist', q)
              /\ dist.idx[q] # 0 /\ dist'.idx[q] > dist'.eligible /\ q \notin forgotten' =>
                    dist.idx[q] > dist.eligible /\ q \notin forgotten
  BY <1>1, <1>2, <1>5, <1>6, <1>7 DEF StaysEligible
<1>11. DistPipes \ {p} \in SUBSET DistPipes /\ DistPipes \ {p} \subseteq DistPipes \ {p}
  OBVIOUS
<1>12. /\ Indexed(dist') /\ InOrder(dist') /\ dist'.more = dist.more
       /\ ~dist'.more => dist'.active = dist'.eligible /\ (role = "pub" => dist'.matching = 0)
       /\ dist'.idx[p] = 0
  BY <1>3, <1>5, <1>6
<1>13. forgotten' \subseteq DistPipes /\ (role = "pub" => forgotten' = {})
  BY <1>1, <1>3
<1>14. QED
  BY <1>1, <1>8, <1>9, <1>10, <1>11, <1>12, <1>13, OnePipeKeeps

(* One step per operation.                                                  *)
LEMMA DistStepKeeps == DistSizes /\ DistInv /\ [DistNext]_distVars => DistInv'
<1> SUFFICES ASSUME DistSizes, DistInv, [DistNext]_distVars PROVE DistInv'
  OBVIOUS
<1>1. CASE SendFirst
  BY <1>1, SendFirstKeeps
<1>2. CASE SendNext
  BY <1>2, SendNextKeeps
<1>3. CASE SendToAll
  BY <1>3, SendToAllKeeps
<1>4. CASE \E p \in DistPipes : XAttachPipe(p)
  BY <1>4, XAttachPipeKeeps
<1>5. CASE \E p \in DistPipes : ProcessActivateWrite(p)
  BY <1>5, ProcessActivateWriteKeeps
<1>6. CASE \E p \in DistPipes : ProcessHiccup(p)
  BY <1>6, ProcessHiccupKeeps
<1>7. CASE \E p \in DistPipes : ProcessPipeTerm(p)
  BY <1>7, ProcessPipeTermKeeps
<1>8. CASE \E p \in DistPipes : XPipeTerminated(p)
  BY <1>8, XPipeTerminatedKeeps
<1>9. CASE UNCHANGED distVars
  BY <1>9 DEF distVars, DistInv, DistTypes, Marks, InOrder, Indexed, Arrays, Listed, Going, LeftOut
<1>10. QED
  BY <1>1, <1>2, <1>3, <1>4, <1>5, <1>6, <1>7, <1>8, <1>9 DEF DistNext

(* DistInv holds in every state, for any number of pipes, any high water   *)
(* mark and any number of parts: entries and positions agree, the marks    *)
(* are in order, within a message the matching pipes are those that began  *)
(* it and have room for the rest, and who is left out is full.             *)
THEOREM DistInvariant == DistSizes => (DistSpec => []DistInv)
<1> SUFFICES ASSUME DistSizes PROVE DistSpec => []DistInv
  OBVIOUS
<1>1. DistInit => DistInv
  BY DistInitInvariant
<1>2. DistInv /\ [DistNext]_distVars => DistInv'
  BY DistStepKeeps
<1>3. QED
  BY <1>1, <1>2, PTL DEF DistSpec

(* Those up to a mark are those whose positions are. *)
LEMMA MarkedPipes ==
    ASSUME DistInv, NEW p \in DistPipes, ends[p].state = "active", NEW n \in Nat,
           n <= Len(dist.arr)
    PROVE  p \in UpTo(n) <=> dist.idx[p] <= n
<1>1. /\ Len(dist.arr) \in Nat
      /\ \A i \in 1..Len(dist.arr) : dist.arr[i] \in DistPipes /\ dist.idx[dist.arr[i]] = i
      /\ \A q \in DistPipes : /\ dist.idx[q] \in 0..Len(dist.arr)
                              /\ dist.idx[q] # 0 => dist.arr[dist.idx[q]] = q
  BY ArrayTypes DEF DistInv, Marks
<1>2. dist.idx[p] # 0
  BY DEF DistInv, Listed
<1>3. ASSUME p \in UpTo(n) PROVE dist.idx[p] <= n
  BY <1>1, <1>3 DEF UpTo
<1>4. ASSUME dist.idx[p] <= n PROVE p \in UpTo(n)
  <2>1. dist.idx[p] \in 1..n /\ dist.arr[dist.idx[p]] = p
    BY <1>1, <1>2, <1>4
  <2>2. QED
    BY <2>1 DEF UpTo
<1>5. QED
  BY <1>3, <1>4

(* Whatever the exchanges at the marks do to the order of the pipes, a     *)
(* message is written to all the pipes that can take it, or to the end of  *)
(* it to the same ones, and a pipe that cannot is left out until it can    *)
(* (dist_t): for any number of pipes, any high water mark and any number   *)
(* of parts.                                                               *)
THEOREM MessagesGoToAll == DistSizes => (DistSpec => []DistributedRight)
<1> SUFFICES ASSUME DistSizes PROVE DistSpec => []DistributedRight
  OBVIOUS
<1>1. ASSUME DistInv PROVE DistributedRight
  <2>1. /\ Indexed(dist) /\ InOrder(dist)
        /\ dist.idx \in [DistPipes -> Nat] /\ dist.matching \in Nat /\ dist.active \in Nat
        /\ dist.eligible \in Nat /\ dist.more \in BOOLEAN
        /\ dist.matching <= dist.eligible
        /\ ends \in [DistPipes -> DistEnds] /\ role \in {"pub", "sub"}
        /\ \A p \in DistPipes : ends[p] \in DistEnds
    BY <1>1, InvFacts
  <2>2. /\ Len(dist.arr) \in Nat
        /\ \A i \in 1..Len(dist.arr) : dist.arr[i] \in DistPipes /\ dist.idx[dist.arr[i]] = i
        /\ \A q \in DistPipes : /\ dist.idx[q] \in 0..Len(dist.arr)
                                /\ dist.idx[q] # 0 => dist.arr[dist.idx[q]] = q
    BY <2>1, ArrayTypes
  <2>3. dist.matching <= Len(dist.arr) /\ dist.eligible <= Len(dist.arr)
    BY <2>1, <2>2 DEF InOrder
  <2>4. \A p \in DistPipes : dist.idx[p] = 0 <=> ends[p].state = "none"
    BY <1>1 DEF DistInv, Listed
  <2>5. Marked
    <3>1. \A p \in Attached : dist.idx[p] \in 1..Len(dist.arr) /\ dist.arr[dist.idx[p]] = p
      BY <2>2, <2>4 DEF Attached
    <3>2. \A i \in 1..Len(dist.arr) : dist.arr[i] \in Attached
      BY <2>2, <2>4 DEF Attached
    <3>3. ToSet(dist.arr) = Attached
      BY <2>2, <3>1, <3>2, SMTT(30) DEF ToSet
    <3>4. /\ dist.matching <= dist.active /\ dist.active <= dist.eligible
          /\ dist.eligible <= Len(dist.arr)
          /\ ~dist.more => dist.active = dist.eligible /\ (role = "pub" => dist.matching = 0)
      BY <1>1 DEF DistInv, Marks, InOrder
    <3>5. QED
      BY <3>1, <3>3, <3>4 DEF Marked
  <2>6. AllOrNothing
    <3>1. \A p \in ActivePipes : took[p] = IF p \in due THEN parts ELSE 0
      BY <1>1 DEF DistInv, Going, ActivePipes
    <3>2. ASSUME dist.more, NEW p \in ActivePipes
          PROVE  p \in UpTo(dist.matching) <=> p \in due
      <4>1. p \in DistPipes /\ ends[p].state = "active"
        BY DEF ActivePipes
      <4>2. p \in UpTo(dist.matching) <=> dist.idx[p] <= dist.matching
        BY <1>1, <2>1, <2>3, <4>1, MarkedPipes
      <4>3. QED
        BY <1>1, <3>2, <4>1, <4>2 DEF DistInv, Going
    <3>3. dist.more => UpTo(dist.matching) \cap ActivePipes = due \cap ActivePipes
      BY <3>2
    <3>4. QED
      BY <3>1, <3>3 DEF AllOrNothing
  <2>7. LeftOutForReason
    <3>1. ASSUME NEW p \in ActivePipes
          PROVE  /\ p \notin UpTo(dist.eligible) /\ p \notin forgotten => ~ends[p].out
                 /\ ~ends[p].out => ends[p].inflight = DistHwm
                 /\ role = "pub" => (ends[p].out <=> p \in UpTo(dist.eligible))
      <4>1. p \in DistPipes /\ ends[p].state = "active"
        BY DEF ActivePipes
      <4>2. p \in UpTo(dist.eligible) <=> dist.idx[p] <= dist.eligible
        BY <1>1, <2>1, <2>3, <4>1, MarkedPipes
      <4>3. /\ dist.idx[p] > dist.eligible /\ p \notin forgotten => ~ends[p].out
            /\ ~ends[p].out => ends[p].inflight = DistHwm
            /\ role = "pub" /\ dist.idx[p] <= dist.eligible => ends[p].out
            /\ role = "pub" => forgotten = {}
        BY <1>1, <4>1 DEF DistInv, LeftOut
      <4>4. dist.idx[p] > dist.eligible <=> ~(dist.idx[p] <= dist.eligible)
        BY <2>1, <4>1
      <4>5. ends[p].out \in BOOLEAN
        BY <2>1, <4>1 DEF DistEnds
      <4>6. QED
        BY <4>2, <4>3, <4>4, <4>5
    <3>2. QED
      BY <3>1 DEF LeftOutForReason
  <2>8. QED
    BY <2>5, <2>6, <2>7 DEF DistributedRight
<1>2. DistSpec => []DistInv
  BY DistInvariant
<1>3. QED
  BY <1>1, <1>2, PTL

=============================================================================
