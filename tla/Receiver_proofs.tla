-------------------------- MODULE Receiver_proofs ---------------------------
(***************************************************************************)
(* That a Subscriber with up to two connections reads every message whole, *)
(* once and in order, that a poll keeps its word and that the assertion of *)
(* the fair queue does not fail, for any topics and any bounds, if the     *)
(* application disconnects between messages.  With three connections this  *)
(* is not so: see OneMessage in the run with three.                        *)
(***************************************************************************)
EXTENDS Receiver, SequenceTheorems, TLAPS

AtMostTwo == \A p, q, r \in Pubs : p = q \/ q = r \/ p = r

(* The mark of the last frame of p that has left its pipe. *)
Behind(p) == IF held # <<>> /\ held[1].pub = p THEN Mark(held[1]) ELSE seen[p]

(* A row of frames that begins behind mark m and ends with a message.      *)
Row(q, m, p) ==
    /\ \A i \in 1..Len(q) : q[i].pub = p
    /\ q = <<>> => Complete(m)
    /\ q # <<>> => Follows(m, Mark(q[1])) /\ ~q[Len(q)].more
    /\ \A i \in 1..Len(q) - 1 : Follows(Mark(q[i]), Mark(q[i + 1]))

RowsOK == \A p \in Pubs : Row(queue[p], Behind(p), p)

HeldFollows == held # <<>> => Follows(seen[held[1].pub], Mark(held[1]))

(* The pipe of a message that is unfinished has the turn. *)
TurnOK ==
    /\ fqMore => \E p \in Pubs : ~Complete(Behind(p))
    /\ \A p \in Pubs : ~Complete(Behind(p)) =>
          fqMore /\ active # <<>> /\ p = active[current] /\ pipe[p] = "active"
    /\ \A i \in 1..Len(active) : pipe[active[i]] # "none"

(* What a call has to go on with. *)
CallOK ==
    /\ more \/ skipping <=> \E p \in Pubs : ~Complete(seen[p])
    /\ skipping => call \in {"poll", "recv", "multi"} /\ ~blocked /\ held = <<>> /\ ~more
    /\ held # <<>> => ~more /\ ~blocked
    /\ call = "poll" => ~more /\ held = <<>> /\ ~blocked
    /\ blocked => call \in {"recv", "multi"} /\ held = <<>> /\ ~fqMore
    /\ answer = "poll" => more \/ held # <<>>
    /\ call # "aborted"

RInv == TypeOK /\ RowsOK /\ HeldFollows /\ TurnOK /\ CallOK

-----------------------------------------------------------------------------
(* Frames, marks and rows of frames. *)

Marks == [id : 0..Ids - 1, part : 0..MaxParts]

LEMMA FrameFacts ==
    ASSUME NEW f \in Frame
    PROVE  /\ f.pub \in Pubs /\ f.id \in 0..Ids - 1 /\ f.part \in 1..MaxParts
           /\ f.more \in BOOLEAN
           /\ Mark(f) \in Marks
           /\ Mark(f).id = f.id
           /\ Complete(Mark(f)) <=> ~f.more
           /\ f.more => Mark(f).part = f.part
BY BoundsAssumption DEF Frame, Mark, Marks, Complete

LEMMA TailFacts ==
    ASSUME NEW q \in Seq(Frame), q # <<>>
    PROVE  /\ Tail(q) \in Seq(Frame)
           /\ Len(q) \in Nat \ {0}
           /\ Len(Tail(q)) = Len(q) - 1
           /\ \A i \in 1..Len(q) - 1 : Tail(q)[i] = q[i + 1]
           /\ Head(q) = q[1] /\ q[1] \in Frame
OBVIOUS

(* What is left of a row without its first frame. *)
LEMMA RowTail ==
    ASSUME NEW q \in Seq(Frame), NEW m, NEW p, Row(q, m, p), q # <<>>
    PROVE  Row(Tail(q), Mark(q[1]), p) /\ q[1].pub = p /\ Follows(m, Mark(q[1]))
<1> DEFINE r == Tail(q)
<1>1. /\ r \in Seq(Frame) /\ Len(q) \in Nat \ {0} /\ Len(r) = Len(q) - 1
      /\ \A i \in 1..Len(r) : r[i] = q[i + 1]
      /\ q[1] \in Frame
  BY TailFacts
<1> HIDE DEF r
<1>2. \A i \in 1..Len(r) : r[i].pub = p
  BY <1>1 DEF Row
<1>3. r = <<>> => Complete(Mark(q[1]))
  <2> SUFFICES ASSUME r = <<>> PROVE Complete(Mark(q[1]))
    OBVIOUS
  <2>1. Len(q) = 1
    BY <1>1
  <2>2. ~q[1].more
    BY <2>1 DEF Row
  <2>3. QED
    BY <2>2, <1>1, FrameFacts
<1>4. r # <<>> => Follows(Mark(q[1]), Mark(r[1])) /\ ~r[Len(r)].more
  <2> SUFFICES ASSUME r # <<>> PROVE Follows(Mark(q[1]), Mark(r[1])) /\ ~r[Len(r)].more
    OBVIOUS
  <2>1. Len(r) \in Nat \ {0}
    BY <1>1
  <2>2. r[1] = q[2] /\ r[Len(r)] = q[Len(q)] /\ 1 \in 1..Len(q) - 1
    BY <1>1, <2>1
  <2>3. Follows(Mark(q[1]), Mark(q[1 + 1])) /\ ~q[Len(q)].more
    BY <2>2 DEF Row
  <2>4. QED
    BY <2>2, <2>3
<1>5. \A i \in 1..Len(r) - 1 : Follows(Mark(r[i]), Mark(r[i + 1]))
  <2> SUFFICES ASSUME NEW i \in 1..Len(r) - 1
               PROVE  Follows(Mark(r[i]), Mark(r[i + 1]))
    OBVIOUS
  <2>1. i + 1 \in 1..Len(q) - 1 /\ r[i] = q[i + 1] /\ r[i + 1] = q[(i + 1) + 1]
    BY <1>1
  <2>2. QED
    BY <2>1 DEF Row
<1>6. Row(r, Mark(q[1]), p)
  BY <1>2, <1>3, <1>4, <1>5 DEF Row
<1>7. 1 \in 1..Len(q)
  BY <1>1
<1>8. QED
  BY <1>6, <1>7 DEF r, Row

LEMMA MessageFacts ==
    ASSUME NEW p \in Pubs, NEW n \in 0..Ids - 1, NEW t \in Topics, NEW size \in 1..MaxParts
    PROVE  /\ Message(p, n, t, size) \in Seq(Frame)
           /\ Len(Message(p, n, t, size)) = size
           /\ \A i \in 1..size : /\ Message(p, n, t, size)[i].pub = p
                                 /\ Mark(Message(p, n, t, size)[i]).id = n
                                 /\ Mark(Message(p, n, t, size)[i]).part =
                                       IF i < size THEN i ELSE 0
                                 /\ Message(p, n, t, size)[i].more <=> i < size
<1>1. size \in Nat \ {0} /\ size <= MaxParts
  BY BoundsAssumption
<1>2. \A i \in 1..size :
         [pub |-> p, id |-> n, part |-> i, more |-> i < size, topic |-> t] \in Frame
  BY <1>1, BoundsAssumption DEF Frame
<1>3. Message(p, n, t, size) \in [1..size -> Frame]
  BY <1>2 DEF Message
<1>4. Message(p, n, t, size) \in Seq(Frame) /\ Len(Message(p, n, t, size)) = size
  BY <1>1, <1>3
<1>5. QED
  BY <1>1, <1>4 DEF Message, Mark

(* A row behind the last mark of another. *)
LEMMA RowConcat ==
    ASSUME NEW q \in Seq(Frame), NEW m, NEW p, Row(q, m, p),
           NEW s \in Seq(Frame), s # <<>>,
           Row(s, IF q = <<>> THEN m ELSE Mark(q[Len(q)]), p)
    PROVE  q \o s \in Seq(Frame) /\ Row(q \o s, m, p)
<1> DEFINE r == q \o s
<1>1. /\ r \in Seq(Frame) /\ Len(r) = Len(q) + Len(s)
      /\ Len(q) \in Nat /\ Len(s) \in Nat \ {0}
      /\ \A i \in 1..Len(q) : r[i] = q[i]
      /\ \A i \in 1..Len(s) : r[Len(q) + i] = s[i]
  OBVIOUS
<1>2. /\ \A i \in 1..Len(s) : s[i].pub = p
      /\ Follows(IF q = <<>> THEN m ELSE Mark(q[Len(q)]), Mark(s[1])) /\ ~s[Len(s)].more
      /\ \A i \in 1..Len(s) - 1 : Follows(Mark(s[i]), Mark(s[i + 1]))
  BY DEF Row
<1> HIDE DEF r
<1>3. \A i \in 1..Len(r) : r[i].pub = p
  <2> TAKE i \in 1..Len(r)
  <2>1. CASE i <= Len(q)
    <3>1. i \in 1..Len(q) /\ r[i] = q[i]
      BY <2>1, <1>1
    <3>2. QED
      BY <3>1 DEF Row
  <2>2. CASE i > Len(q)
    <3>1. i - Len(q) \in 1..Len(s) /\ Len(q) + (i - Len(q)) = i
      BY <2>2, <1>1
    <3>2. QED
      BY <3>1, <1>1, <1>2
  <2>3. QED
    BY <2>1, <2>2, <1>1
<1>4. r # <<>> /\ ~r[Len(r)].more
  <2>1. Len(s) \in 1..Len(s) /\ r[Len(r)] = s[Len(s)] /\ Len(r) > 0
    BY <1>1
  <2>2. QED
    BY <2>1, <1>1, <1>2
<1>5. Follows(m, Mark(r[1]))
  <2>1. CASE q = <<>>
    <3>1. r[1] = s[1]
      BY <2>1, <1>1
    <3>2. QED
      BY <2>1, <3>1, <1>2
  <2>2. CASE q # <<>>
    <3>1. r[1] = q[1]
      BY <2>2, <1>1
    <3>2. QED
      BY <2>2, <3>1 DEF Row
  <2>3. QED
    BY <2>1, <2>2
<1>6. \A i \in 1..Len(r) - 1 : Follows(Mark(r[i]), Mark(r[i + 1]))
  <2> TAKE i \in 1..Len(r) - 1
  <2>1. CASE i < Len(q)
    <3>1. i \in 1..Len(q) - 1 /\ r[i] = q[i] /\ r[i + 1] = q[i + 1]
      BY <2>1, <1>1
    <3>2. QED
      BY <3>1 DEF Row
  <2>2. CASE i = Len(q)
    <3>1. q # <<>> /\ r[i] = q[Len(q)] /\ r[i + 1] = s[1]
      BY <2>2, <1>1
    <3>2. QED
      BY <3>1, <1>2
  <2>3. CASE i > Len(q)
    <3>1. /\ i - Len(q) \in 1..Len(s) - 1 /\ i = Len(q) + (i - Len(q))
          /\ i + 1 = Len(q) + ((i - Len(q)) + 1)
          /\ i - Len(q) \in 1..Len(s) /\ (i - Len(q)) + 1 \in 1..Len(s)
      BY <2>3, <1>1
    <3>2. r[i] = s[i - Len(q)]
      BY <3>1, <1>1
    <3>3. r[i + 1] = s[(i - Len(q)) + 1]
      BY <3>1, <1>1
    <3>4. QED
      BY <3>1, <3>2, <3>3, <1>2
  <2>4. QED
    BY <2>1, <2>2, <2>3, <1>1
<1>7. Row(r, m, p)
  BY <1>3, <1>4, <1>5, <1>6 DEF Row
<1>8. QED
  BY <1>1, <1>7 DEF r

(* The frames of a new message, numbered after mark m, are a row behind it. *)
LEMMA RowOfMessage ==
    ASSUME NEW p \in Pubs, NEW m \in Marks, Complete(m), NEW t \in Topics,
           NEW size \in 1..MaxParts
    PROVE  LET s == Message(p, (m.id + 1) % Ids, t, size)
           IN  s \in Seq(Frame) /\ s # <<>> /\ Row(s, m, p)
<1> DEFINE n == (m.id + 1) % Ids
           s == Message(p, n, t, size)
<1>1. n \in 0..Ids - 1
  BY BoundsAssumption DEF Marks
<1>2. size \in Nat \ {0}
  BY BoundsAssumption
<1>3. /\ s \in Seq(Frame) /\ Len(s) = size
      /\ \A i \in 1..size : /\ s[i].pub = p
                            /\ Mark(s[i]).id = n
                            /\ Mark(s[i]).part = IF i < size THEN i ELSE 0
                            /\ s[i].more <=> i < size
  BY <1>1, MessageFacts
<1> HIDE DEF s
<1>4. s # <<>> /\ ~s[Len(s)].more
  BY <1>2, <1>3
<1>5. Follows(m, Mark(s[1]))
  BY <1>2, <1>3 DEF Follows, Complete
<1>6. \A i \in 1..Len(s) - 1 : Follows(Mark(s[i]), Mark(s[i + 1]))
  <2> TAKE i \in 1..Len(s) - 1
  <2>1. i \in 1..size /\ i + 1 \in 1..size /\ i \in Nat \ {0} /\ i < size
    BY <1>2, <1>3
  <2> HIDE DEF n
  <2>2. /\ Mark(s[i]).id = n /\ Mark(s[i]).part = i
        /\ Mark(s[i + 1]).id = n
        /\ Mark(s[i + 1]).part = IF i + 1 < size THEN i + 1 ELSE 0
    BY <2>1, <1>3
  <2>3. QED
    BY <2>1, <2>2 DEF Follows, Complete
<1>7. Row(s, m, p)
  BY <1>3, <1>4, <1>5, <1>6 DEF Row
<1>8. QED
  BY <1>3, <1>4, <1>7 DEF s

LEMMA WithoutFacts ==
    ASSUME NEW q \in Seq(Pubs), IsInjective(q), NEW i \in 1..Len(q)
    PROVE  /\ Without(q, i) \in Seq(Pubs)
           /\ Len(Without(q, i)) = Len(q) - 1
           /\ IsInjective(Without(q, i))
           /\ \A j \in 1..Len(Without(q, i)) :
                 /\ Without(q, i)[j] # q[i]
                 /\ \E k \in 1..Len(q) : Without(q, i)[j] = q[k]
<1> DEFINE r == Without(q, i)
<1>1. Len(q) \in Nat \ {0} /\ i \in Nat /\ \A j \in 1..Len(q) : q[j] \in Pubs
  OBVIOUS
<1>2. r \in [1..Len(q) - 1 -> Pubs]
  BY <1>1 DEF Without
<1>3. r \in Seq(Pubs) /\ Len(r) = Len(q) - 1
  BY <1>1, <1>2
<1>4. \A j \in 1..Len(q) - 1 : r[j] = IF j = i THEN q[Len(q)] ELSE q[j]
  BY DEF Without
<1>5. \A a, b \in 1..Len(q) : q[a] = q[b] => a = b
  BY DEF IsInjective
<1> HIDE DEF r
<1>6. IsInjective(r)
  <2> SUFFICES ASSUME NEW a \in 1..Len(q) - 1, NEW b \in 1..Len(q) - 1, r[a] = r[b]
               PROVE  a = b
    BY <1>3 DEF IsInjective
  <2>1. a \in 1..Len(q) /\ b \in 1..Len(q) /\ Len(q) \in 1..Len(q) /\ a < Len(q) /\ b < Len(q)
    BY <1>1
  <2>2. QED
    BY <2>1, <1>4, <1>5
<1>7. \A j \in 1..Len(r) : r[j] # q[i] /\ \E k \in 1..Len(q) : r[j] = q[k]
  <2> TAKE j \in 1..Len(r)
  <2>1. j \in 1..Len(q) - 1 /\ j \in 1..Len(q) /\ Len(q) \in 1..Len(q) /\ j < Len(q)
    BY <1>1, <1>3
  <2>2. r[j] # q[i]
    BY <2>1, <1>4, <1>5
  <2>3. r[j] = q[Len(q)] \/ r[j] = q[j]
    BY <2>1, <1>4
  <2>4. QED
    BY <2>1, <2>2, <2>3
<1>8. QED
  BY <1>3, <1>6, <1>7 DEF r

LEMMA AnotherPipe ==
    ASSUME NEW q \in Seq(Pubs), IsInjective(q), NEW p \in Pubs,
           \A i \in 1..Len(q) : q[i] # p
    PROVE  /\ Append(q, p) \in Seq(Pubs) /\ IsInjective(Append(q, p))
           /\ Len(Append(q, p)) = Len(q) + 1 /\ Len(q) \in Nat
           /\ \A i \in 1..Len(q) : Append(q, p)[i] = q[i]
           /\ Append(q, p)[Len(q) + 1] = p
<1>1. /\ Append(q, p) \in Seq(Pubs) /\ Len(Append(q, p)) = Len(q) + 1 /\ Len(q) \in Nat
      /\ \A i \in 1..Len(q) : Append(q, p)[i] = q[i]
      /\ Append(q, p)[Len(q) + 1] = p
  OBVIOUS
<1>2. \A a, b \in 1..Len(q) : q[a] = q[b] => a = b
  BY DEF IsInjective
<1>3. \A a, b \in 1..Len(q) + 1 : Append(q, p)[a] = Append(q, p)[b] => a = b
  <2> SUFFICES ASSUME NEW a \in 1..Len(q) + 1, NEW b \in 1..Len(q) + 1,
                      Append(q, p)[a] = Append(q, p)[b]
               PROVE  a = b
    OBVIOUS
  <2>1. (a \in 1..Len(q) \/ a = Len(q) + 1) /\ (b \in 1..Len(q) \/ b = Len(q) + 1)
    BY <1>1
  <2>2. QED
    BY <2>1, <1>1, <1>2
<1>4. IsInjective(Append(q, p))
  BY <1>1, <1>3 DEF IsInjective
<1>5. QED
  BY <1>1, <1>4
-----------------------------------------------------------------------------
(* The invariant. *)

LEMMA InitInvariant == Init => RInv
<1> SUFFICES ASSUME Init PROVE RInv
  OBVIOUS
<1>1. TypeOK
  <2>1. seen \in [Pubs -> [id : 0..Ids - 1, part : 0..MaxParts]]
    BY BoundsAssumption DEF Init
  <2>2. IsInjective(active)
    BY DEF Init, IsInjective
  <2>3. {fqMore, more, skipping, revents, blocked} \subseteq BOOLEAN
    BY DEF Init
  <2>4. pipe \in [Pubs -> {"none", "active", "ending"}] /\ queue \in [Pubs -> Seq(Frame)]
    BY DEF Init
  <2>5. QED
    BY <2>1, <2>2, <2>3, <2>4 DEF Init, TypeOK
<1>2. \A p \in Pubs : Complete(seen[p]) /\ Complete(Behind(p))
  BY DEF Init, Complete, Behind
<1>3. RowsOK
  BY <1>2 DEF Init, RowsOK, Row
<1>4. HeldFollows /\ TurnOK /\ CallOK
  BY <1>2 DEF Init, HeldFollows, TurnOK, CallOK
<1>5. QED
  BY <1>1, <1>3, <1>4 DEF RInv

(* What the type invariant says of the parts of the state. *)
LEMMA Types ==
    ASSUME TypeOK
    PROVE  /\ \A p \in Pubs : queue[p] \in Seq(Frame) /\ seen[p] \in Marks
           /\ Len(active) \in Nat /\ \A i \in 1..Len(active) : active[i] \in Pubs
           /\ active # <<>> => current \in 1..Len(active) /\ active[current] \in Pubs
           /\ active = <<>> => current = 1
           /\ held # <<>> => Len(held) = 1 /\ held[1] \in Frame
           /\ fqMore \in BOOLEAN /\ more \in BOOLEAN /\ skipping \in BOOLEAN
           /\ blocked \in BOOLEAN /\ revents \in BOOLEAN
           /\ \A p \in Pubs : Behind(p) \in Marks
<1>1. \A p \in Pubs : queue[p] \in Seq(Frame) /\ seen[p] \in Marks
  BY DEF TypeOK, Marks
<1>2. Len(active) \in Nat /\ \A i \in 1..Len(active) : active[i] \in Pubs
  BY DEF TypeOK
<1>3. active # <<>> => current \in 1..Len(active) /\ active[current] \in Pubs
  <2> SUFFICES ASSUME active # <<>> PROVE current \in 1..Len(active)
    BY <1>2
  <2>1. Len(active) > 0
    BY DEF TypeOK
  <2>2. QED
    BY <2>1, <1>2 DEF TypeOK
<1>4. active = <<>> => current = 1
  BY DEF TypeOK
<1>5. held # <<>> => Len(held) = 1 /\ held[1] \in Frame
  <2> SUFFICES ASSUME held # <<>> PROVE Len(held) = 1 /\ held[1] \in Frame
    OBVIOUS
  <2>1. held \in Seq(Frame) /\ Len(held) <= 1
    BY DEF TypeOK
  <2>2. Len(held) \in Nat \ {0} /\ held[1] \in Frame
    BY <2>1, TailFacts
  <2>3. Len(held) <= 1
    BY <2>1
  <2>4. QED
    BY <2>2, <2>3
<1>6. \A p \in Pubs : Behind(p) \in Marks
  BY <1>1, <1>5, FrameFacts DEF Behind
<1>7. QED
  BY <1>1, <1>2, <1>3, <1>4, <1>5, <1>6 DEF TypeOK

(* An unfinished message has more frames in its pipe, which has the turn. *)
LEMMA UnfinishedIsReadable ==
    ASSUME RInv
    PROVE  /\ \A p \in Pubs : ~Complete(Behind(p)) =>
                 fqMore /\ active # <<>> /\ p = active[current] /\ Readable(p)
           /\ fqMore => active # <<>> /\ Readable(active[current])
<1>1. \A p \in Pubs : ~Complete(Behind(p)) =>
         fqMore /\ active # <<>> /\ p = active[current] /\ Readable(p)
  BY DEF RInv, TurnOK, RowsOK, Row, Readable
<1>2. QED
  BY <1>1 DEF RInv, TurnOK

(* If everything that has left the pipes is received, only marks count.    *)
LEMMA NoneHeld ==
    ASSUME held = <<>>
    PROVE  \A p \in Pubs : Behind(p) = seen[p]
BY DEF Behind

LEMMA PassOverKeeps ==
    ASSUME RInv, PassOver
    PROVE  RInv'
<1>1. active # <<>> /\ ~fqMore
  BY UnfinishedIsReadable DEF PassOver
<1>2. /\ active' = Without(active, current)
      /\ current' = IF current = Len(active) THEN 1 ELSE current
      /\ UNCHANGED <<call, pipe, queue, fqMore, subVars, revents, blocked, answer, seen>>
  BY <1>1 DEF PassOver
<1>3. current \in 1..Len(active)
  BY <1>1, Types DEF RInv
<1>4. /\ active' \in Seq(Pubs) /\ Len(active') = Len(active) - 1 /\ IsInjective(active')
      /\ \A j \in 1..Len(active') : \E k \in 1..Len(active) : active'[j] = active[k]
  <2>1. active \in Seq(Pubs) /\ IsInjective(active)
    BY DEF RInv, TypeOK
  <2> DEFINE r == Without(active, current)
  <2>2. /\ r \in Seq(Pubs) /\ Len(r) = Len(active) - 1 /\ IsInjective(r)
        /\ \A j \in 1..Len(r) : \E k \in 1..Len(active) : r[j] = active[k]
    BY <1>3, <2>1, WithoutFacts
  <2>3. active' = r
    BY <1>2
  <2> HIDE DEF r
  <2>4. QED
    BY <2>2, <2>3
<1>5. current' \in 1..Len(active') \/ current' = 1
  BY <1>2, <1>3, <1>4
<1>6. TypeOK'
  BY <1>2, <1>4, <1>5 DEF RInv, TypeOK, subVars
<1>7. \A p \in Pubs : Behind(p)' = Behind(p) /\ Complete(Behind(p))
  BY <1>1, <1>2, UnfinishedIsReadable DEF Behind, subVars
<1>8. RowsOK' /\ HeldFollows'
  BY <1>2, <1>7 DEF RInv, RowsOK, HeldFollows, subVars
<1>9. TurnOK'
  BY <1>1, <1>2, <1>4, <1>7 DEF RInv, TurnOK
<1>10. CallOK'
  BY <1>2 DEF RInv, CallOK, subVars
<1>11. QED
  BY <1>6, <1>8, <1>9, <1>10 DEF RInv

(* Steps that leave the pipes and the frames where they are. *)
FramesStay ==
    UNCHANGED <<pipe, queue, active, current, fqMore, held, seen>>

LEMMA FramesStayKeeps ==
    ASSUME RInv, FramesStay,
           wanted' \subseteq Topics, call' \in {"idle", "poll", "recv", "multi", "aborted"},
           answer' \in {"poll", "true", "no"},
           {more', skipping', revents', blocked'} \subseteq BOOLEAN,
           CallOK'
    PROVE  RInv'
<1>1. TypeOK'
  BY DEF RInv, TypeOK, FramesStay
<1>2. \A p \in Pubs : Behind(p)' = Behind(p)
  BY DEF Behind, FramesStay
<1>3. RowsOK' /\ HeldFollows' /\ TurnOK'
  BY <1>2 DEF RInv, RowsOK, HeldFollows, TurnOK, FramesStay
<1>4. QED
  BY <1>1, <1>3 DEF RInv

LEMMA CallsKeep ==
    ASSUME RInv,
           \/ Exhausted \/ GiveUp \/ HasWaitingMessage \/ Receive \/ GetNextMessage
           \/ \E t \in Topics : Refilter(t)
    PROVE  RInv'
<1>1. /\ wanted \subseteq Topics /\ call \in {"idle", "poll", "recv", "multi", "aborted"}
      /\ answer \in {"poll", "true", "no"}
      /\ more \in BOOLEAN /\ skipping \in BOOLEAN /\ revents \in BOOLEAN /\ blocked \in BOOLEAN
  BY DEF RInv, TypeOK
<1>2. call = "idle" \/ blocked => ~skipping
  BY DEF RInv, CallOK
<1>3. CASE Exhausted
  <2>1. active = <<>> /\ held = <<>> /\ ~blocked
    BY <1>3 DEF Exhausted, Fetching
  <2>2. ~fqMore /\ \A p \in Pubs : Complete(seen[p])
    BY <2>1, UnfinishedIsReadable, NoneHeld
  <2>3. ~skipping
    BY <2>2 DEF RInv, CallOK
  <2>4. CallOK'
    BY <1>3, <2>1, <2>2, <2>3 DEF RInv, CallOK, Exhausted, Fetching, fqVars, subVars
  <2>5. QED
    BY <1>1, <1>3, <2>4, FramesStayKeeps DEF FramesStay, Exhausted, fqVars, subVars
<1>4. CASE GiveUp
  <2>1. CallOK'
    BY <1>2, <1>4 DEF RInv, CallOK, GiveUp, fqVars, subVars
  <2>2. QED
    BY <1>1, <1>4, <2>1, FramesStayKeeps DEF FramesStay, GiveUp, fqVars, subVars
<1>5. CASE HasWaitingMessage
  <2>1. CallOK'
    BY <1>2, <1>5 DEF RInv, CallOK, HasWaitingMessage, fqVars, subVars
  <2>2. QED
    BY <1>1, <1>5, <2>1, FramesStayKeeps DEF FramesStay, HasWaitingMessage, fqVars, subVars
<1>6. CASE Receive
  <2>1. CallOK'
    BY <1>2, <1>6 DEF RInv, CallOK, Receive, StartReceiving, fqVars, subVars
  <2>2. QED
    BY <1>1, <1>6, <2>1, FramesStayKeeps
    DEF FramesStay, Receive, StartReceiving, fqVars, subVars
<1>7. CASE GetNextMessage
  <2>1. CallOK'
    BY <1>2, <1>7 DEF RInv, CallOK, GetNextMessage, StartReceiving, fqVars, subVars
  <2>2. QED
    BY <1>1, <1>7, <2>1, FramesStayKeeps
    DEF FramesStay, GetNextMessage, StartReceiving, fqVars, subVars
<1>8. CASE \E t \in Topics : Refilter(t)
  <2> PICK t \in Topics : Refilter(t)
    BY <1>8
  <2>1. CallOK'
    BY DEF RInv, CallOK, Refilter, fqVars
  <2>2. QED
    BY <1>1, <2>1, FramesStayKeeps DEF FramesStay, Refilter, fqVars
<1>9. QED
  BY <1>3, <1>4, <1>5, <1>6, <1>7, <1>8

(* A frame leaves the pipe that has the turn. *)
LEMMA FetchFacts ==
    ASSUME RInv, Fetching, NEW f \in Frame, Fetch(f)
    PROVE  /\ active # <<>> /\ f.pub = active[current] /\ pipe[f.pub] = "active"
           /\ \A p \in Pubs : p # f.pub => Complete(seen[p])
           /\ Follows(seen[f.pub], Mark(f))
           /\ queue' \in [Pubs -> Seq(Frame)]
           /\ Row(queue'[f.pub], Mark(f), f.pub)
           /\ \A p \in Pubs : p # f.pub => queue'[p] = queue[p]
           /\ fqMore' = f.more /\ f.more \in BOOLEAN
           /\ current' \in 1..Len(active)
           /\ f.more => current' = current
           /\ held = <<>> /\ ~blocked
           /\ UNCHANGED <<pipe, active>>
<1> DEFINE p == active[current]
<1>1. held = <<>> /\ ~blocked
  BY DEF Fetching
<1>2. /\ active # <<>> /\ p \in Pubs /\ current \in 1..Len(active) /\ Len(active) \in Nat
      /\ queue[p] \in Seq(Frame) /\ queue[p] # <<>> /\ pipe[p] = "active"
      /\ f = Head(queue[p])
  BY Types DEF RInv, Fetch, Readable
<1>3. /\ queue' = [queue EXCEPT ![p] = Tail(@)] /\ fqMore' = f.more
      /\ current' = Rotate(f) /\ UNCHANGED <<pipe, active>>
  BY DEF Fetch
<1> HIDE DEF p
<1>4. f = queue[p][1] /\ Tail(queue[p]) \in Seq(Frame)
  BY <1>2, TailFacts
<1>5. Row(queue[p], seen[p], p)
  BY <1>1, <1>2, NoneHeld DEF RInv, RowsOK
<1>6. Row(Tail(queue[p]), Mark(f), p) /\ f.pub = p /\ Follows(seen[p], Mark(f))
  BY <1>2, <1>4, <1>5, RowTail
<1>7. queue \in [Pubs -> Seq(Frame)]
  BY DEF RInv, TypeOK
<1>8. /\ queue' \in [Pubs -> Seq(Frame)] /\ queue'[p] = Tail(queue[p])
      /\ \A q \in Pubs : q # p => queue'[q] = queue[q]
  BY <1>2, <1>3, <1>4, <1>7
<1>9. \A q \in Pubs : q # p => Complete(seen[q])
  BY <1>1, UnfinishedIsReadable, NoneHeld DEF p
<1>10. current' \in 1..Len(active) /\ (f.more => current' = current)
  BY <1>2, <1>3, SMT DEF Rotate
<1>11. f.more \in BOOLEAN
  BY FrameFacts
<1>12. QED
  BY <1>1, <1>2, <1>3, <1>6, <1>8, <1>9, <1>10, <1>11 DEF p

(* A frame that is received or popped. *)
LEMMA FetchedKeeps ==
    ASSUME RInv, Fetching, NEW f \in Frame, Fetch(f),
           seen' = [seen EXCEPT ![f.pub] = Mark(f)],
           UNCHANGED <<held, wanted, revents, blocked>>,
           more' \in BOOLEAN, skipping' \in BOOLEAN,
           more' \/ skipping' <=> f.more,
           skipping' => call' \in {"poll", "recv", "multi"} /\ ~more',
           call' \in {"idle", "poll", "recv", "multi"}, call' = "poll" => ~more',
           answer' \in {"poll", "true", "no"}, answer' = "poll" => more'
    PROVE  RInv'
<1>1. /\ active # <<>> /\ f.pub = active[current] /\ pipe[f.pub] = "active"
      /\ \A p \in Pubs : p # f.pub => Complete(seen[p])
      /\ queue' \in [Pubs -> Seq(Frame)]
      /\ Row(queue'[f.pub], Mark(f), f.pub)
      /\ \A p \in Pubs : p # f.pub => queue'[p] = queue[p]
      /\ fqMore' = f.more /\ f.more \in BOOLEAN
      /\ current' \in 1..Len(active)
      /\ f.more => current' = current
      /\ held = <<>> /\ ~blocked
      /\ UNCHANGED <<pipe, active>>
  BY FetchFacts
<1>2. f.pub \in Pubs /\ Mark(f) \in Marks /\ (Complete(Mark(f)) <=> ~f.more)
  BY FrameFacts
<1>3. seen \in [Pubs -> Marks]
  BY DEF RInv, TypeOK, Marks
<1>4. /\ seen' \in [Pubs -> Marks] /\ seen'[f.pub] = Mark(f)
      /\ \A p \in Pubs : p # f.pub => seen'[p] = seen[p]
  BY <1>2, <1>3
<1>5. held' = <<>>
  BY <1>1
<1>6. \A p \in Pubs : Behind(p) = seen[p] /\ Behind(p)' = seen'[p]
  BY <1>1, <1>5 DEF Behind
<1>7. TypeOK'
  BY <1>1, <1>4 DEF RInv, TypeOK, Marks
<1>8. RowsOK'
  <2> SUFFICES ASSUME NEW p \in Pubs PROVE Row(queue'[p], seen'[p], p)
    BY <1>6 DEF RowsOK
  <2>1. Row(queue[p], seen[p], p)
    BY <1>6 DEF RInv, RowsOK
  <2>2. QED
    BY <1>1, <1>4, <2>1
<1>9. HeldFollows'
  BY <1>5 DEF HeldFollows
<1>10. \A p \in Pubs : ~Complete(seen'[p]) <=> p = f.pub /\ f.more
  BY <1>1, <1>2, <1>4
<1>11. TurnOK'
  <2>1. \A i \in 1..Len(active) : pipe[active[i]] # "none"
    BY DEF RInv, TurnOK
  <2>2. QED
    BY <1>1, <1>2, <1>6, <1>10, <2>1 DEF TurnOK
<1>12. CallOK'
  BY <1>1, <1>2, <1>5, <1>10 DEF CallOK
<1>13. QED
  BY <1>7, <1>8, <1>9, <1>11, <1>12 DEF RInv

LEMMA DeliverFetchedKeeps ==
    ASSUME RInv, DeliverFetched
    PROVE  RInv'
<1>1. PICK f \in Frame : Fetch(f) /\ (more \/ f.topic \in wanted) /\ Deliver(f)
  BY DEF DeliverFetched
<1>2. Fetching /\ ~skipping /\ UNCHANGED <<held, skipping, wanted, revents, blocked>>
  BY DEF DeliverFetched
<1>3. call \in {"recv", "multi"}
  BY DEF DeliverFetched, Fetching
<1>4. f.more \in BOOLEAN
  BY FrameFacts
<1>5. /\ more' = f.more /\ seen' = [seen EXCEPT ![f.pub] = Mark(f)]
      /\ call' \in {"idle", "multi"} /\ answer' \in {"true", "no"}
  BY <1>1, <1>3 DEF Deliver
<1>6. skipping' = FALSE
  BY <1>2 DEF RInv, TypeOK
<1>7. QED
  BY <1>1, <1>2, <1>4, <1>5, <1>6, FetchedKeeps

LEMMA DiscardKeeps ==
    ASSUME RInv, Discard
    PROVE  RInv'
<1>1. PICK f \in Frame : /\ Fetch(f)
                         /\ skipping \/ (f.topic \notin wanted /\ (call = "poll" \/ ~more))
                         /\ skipping' = f.more
                         /\ seen' = [seen EXCEPT ![f.pub] = Mark(f)]
  BY DEF Discard
<1>2. Fetching /\ UNCHANGED <<held, more, wanted, revents, call, blocked, answer>>
  BY DEF Discard
<1>3. ~more
  BY <1>1 DEF RInv, CallOK
<1>4. f.more \in BOOLEAN
  BY FrameFacts
<1>5. held = <<>> /\ call \in {"poll", "recv", "multi"}
  BY DEF Discard, Fetching
<1>6. answer \in {"poll", "true", "no"} /\ (answer = "poll" => more)
  BY <1>5 DEF RInv, TypeOK, CallOK
<1>7. more' = FALSE
  BY <1>2, <1>3 DEF RInv, TypeOK
<1>8. skipping' \in BOOLEAN /\ more' \in BOOLEAN /\ (more' \/ skipping' <=> f.more)
  BY <1>1, <1>4, <1>7
<1>9. call' \in {"poll", "recv", "multi"} /\ call' \in {"idle", "poll", "recv", "multi"}
  BY <1>2, <1>5
<1>10. answer' \in {"poll", "true", "no"} /\ (answer' = "poll" => more')
  BY <1>2, <1>6
<1>11. QED
  BY <1>1, <1>2, <1>7, <1>8, <1>9, <1>10, FetchedKeeps

LEMMA HoldKeeps ==
    ASSUME RInv, Hold
    PROVE  RInv'
<1>1. PICK f \in Frame : Fetch(f) /\ f.topic \in wanted /\ held' = <<f>>
  BY DEF Hold
<1>2. /\ Fetching /\ call = "poll" /\ ~skipping /\ revents' = TRUE /\ answer' = "poll"
      /\ call' = "idle" /\ UNCHANGED <<more, skipping, wanted, blocked, seen>>
  BY DEF Hold
<1>3. /\ active # <<>> /\ f.pub = active[current] /\ pipe[f.pub] = "active"
      /\ \A p \in Pubs : p # f.pub => Complete(seen[p])
      /\ Follows(seen[f.pub], Mark(f))
      /\ queue' \in [Pubs -> Seq(Frame)]
      /\ Row(queue'[f.pub], Mark(f), f.pub)
      /\ \A p \in Pubs : p # f.pub => queue'[p] = queue[p]
      /\ fqMore' = f.more /\ f.more \in BOOLEAN
      /\ current' \in 1..Len(active)
      /\ f.more => current' = current
      /\ held = <<>> /\ ~blocked
      /\ UNCHANGED <<pipe, active>>
  BY <1>1, <1>2, FetchFacts
<1>4. f.pub \in Pubs /\ Mark(f) \in Marks /\ (Complete(Mark(f)) <=> ~f.more)
  BY FrameFacts
<1>5. held' # <<>> /\ held'[1] = f /\ held' \in Seq(Frame) /\ Len(held') = 1
  BY <1>1
<1>6. \A p \in Pubs : Behind(p) = seen[p]
  BY <1>3, NoneHeld
<1>7. \A p \in Pubs : Behind(p)' = IF p = f.pub THEN Mark(f) ELSE seen[p]
  BY <1>2, <1>5 DEF Behind
<1>8. ~more /\ \A p \in Pubs : Complete(seen[p])
  BY <1>2 DEF RInv, CallOK
<1>9. TypeOK'
  <2>1. {fqMore', more', skipping', revents', blocked'} \subseteq BOOLEAN
    BY <1>2, <1>3 DEF RInv, TypeOK
  <2>2. /\ pipe' \in [Pubs -> {"none", "active", "ending"}]
        /\ active' \in Seq(Pubs) /\ IsInjective(active') /\ current' \in 1..Len(active')
        /\ wanted' \subseteq Topics /\ seen' \in [Pubs -> [id : 0..Ids - 1, part : 0..MaxParts]]
    BY <1>2, <1>3 DEF RInv, TypeOK
  <2>3. queue' \in [Pubs -> Seq(Frame)] /\ held' \in Seq(Frame) /\ Len(held') <= 1
    BY <1>3, <1>5
  <2>4. call' = "idle" /\ answer' = "poll"
    BY <1>2
  <2>5. QED
    BY <2>1, <2>2, <2>3, <2>4 DEF TypeOK
<1>10. RowsOK'
  <2> SUFFICES ASSUME NEW p \in Pubs PROVE Row(queue'[p], Behind(p)', p)
    BY DEF RowsOK
  <2>1. Row(queue[p], seen[p], p)
    BY <1>6 DEF RInv, RowsOK
  <2>2. QED
    BY <1>3, <1>7, <2>1
<1>11. HeldFollows'
  BY <1>2, <1>3, <1>5 DEF HeldFollows
<1>12. TurnOK'
  <2>1. \A i \in 1..Len(active) : pipe[active[i]] # "none"
    BY DEF RInv, TurnOK
  <2>2. QED
    BY <1>3, <1>4, <1>7, <1>8, <2>1 DEF TurnOK
<1>13. CallOK'
  BY <1>2, <1>3, <1>5, <1>8 DEF CallOK
<1>14. QED
  BY <1>9, <1>10, <1>11, <1>12, <1>13 DEF RInv

LEMMA DeliverHeldKeeps ==
    ASSUME RInv, DeliverHeld
    PROVE  RInv'
<1> DEFINE f == held[1]
<1>1. /\ call \in {"recv", "multi"} /\ held # <<>> /\ held' = <<>> /\ Deliver(f)
      /\ UNCHANGED <<pipe, queue, active, current, fqMore, skipping, wanted, revents, blocked>>
  BY DEF DeliverHeld, fqVars
<1>2. f \in Frame
  BY <1>1, Types DEF RInv
<1>3. f.pub \in Pubs /\ Mark(f) \in Marks /\ (Complete(Mark(f)) <=> ~f.more) /\ f.more \in BOOLEAN
  BY <1>2, FrameFacts
<1>4. seen \in [Pubs -> Marks]
  BY DEF RInv, TypeOK, Marks
<1>5. /\ seen' \in [Pubs -> Marks] /\ seen'[f.pub] = Mark(f)
      /\ \A p \in Pubs : p # f.pub => seen'[p] = seen[p]
  BY <1>1, <1>3, <1>4 DEF Deliver
<1>6. \A p \in Pubs : Behind(p) = (IF p = f.pub THEN Mark(f) ELSE seen[p])
  BY <1>1 DEF Behind
<1>7. \A p \in Pubs : Behind(p)' = Behind(p) /\ Behind(p)' = seen'[p]
  BY <1>1, <1>5, <1>6 DEF Behind
<1>8. ~more /\ ~skipping /\ ~blocked /\ \A p \in Pubs : Complete(seen[p])
  BY <1>1 DEF RInv, CallOK
<1> HIDE DEF f
<1>9. /\ more' = f.more /\ call' \in {"idle", "multi"} /\ answer' \in {"true", "no"}
  BY <1>1 DEF Deliver
<1>10. TypeOK'
  BY <1>1, <1>3, <1>5, <1>9 DEF RInv, TypeOK, Marks
<1>11. RowsOK' /\ HeldFollows' /\ TurnOK'
  BY <1>1, <1>7 DEF RInv, RowsOK, HeldFollows, TurnOK
<1>12. \A p \in Pubs : ~Complete(seen'[p]) <=> p = f.pub /\ f.more
  BY <1>3, <1>5, <1>8
<1>13. CallOK'
  BY <1>1, <1>3, <1>8, <1>9, <1>12 DEF CallOK
<1>14. QED
  BY <1>10, <1>11, <1>13 DEF RInv

LEMMA ConcatFacts ==
    ASSUME NEW S, NEW q \in Seq(S), NEW s \in Seq(S)
    PROVE  /\ q \o s \in Seq(S) /\ Len(q \o s) = Len(q) + Len(s)
           /\ Len(q) \in Nat /\ Len(s) \in Nat
           /\ \A i \in 1..Len(q) : (q \o s)[i] = q[i]
           /\ \A i \in 1..Len(s) : (q \o s)[Len(q) + i] = s[i]
OBVIOUS

LEMMA OneFirst ==
    ASSUME NEW S, NEW q \in Seq(S), NEW s \in Seq(S), Len(q) = 1
    PROVE  /\ Len(q \o s) = Len(s) + 1 /\ Len(s) \in Nat /\ (q \o s)[1] = q[1]
           /\ \A i \in 1..Len(s) : (q \o s)[i + 1] = s[i]
<1> DEFINE r == q \o s
<1>1. /\ Len(r) = Len(q) + Len(s) /\ Len(s) \in Nat
      /\ \A i \in 1..Len(q) : r[i] = q[i]
      /\ \A i \in 1..Len(s) : r[Len(q) + i] = s[i]
  BY ConcatFacts
<1> HIDE DEF r
<1>2. \A i \in 1..Len(s) : Len(q) + i = i + 1
  BY <1>1
<1>3. \A i \in 1..Len(s) : r[i + 1] = s[i]
  BY <1>1, <1>2
<1>4. QED
  BY <1>1, <1>3 DEF r

LEMMA AheadFacts ==
    ASSUME TypeOK, NEW p \in Pubs
    PROVE  Ahead(p) \in Seq(Frame) /\ Len(Ahead(p)) \in Nat
<1>1. queue[p] \in Seq(Frame) /\ held \in Seq(Frame)
  BY DEF TypeOK
<1>2. QED
  BY <1>1 DEF Ahead

LEMMA LineFacts ==
    ASSUME TypeOK, NEW p \in Pubs
    PROVE  /\ Len(Line(p)) = Len(Ahead(p)) + 1
           /\ Line(p)[1] = seen[p]
           /\ \A i \in 1..Len(Ahead(p)) : Line(p)[i + 1] = Mark(Ahead(p)[i])
<1> DEFINE a == Ahead(p)
           r == [i \in 1..Len(a) |-> Mark(a[i])]
           h == <<seen[p]>>
<1>1. a \in Seq(Frame) /\ Len(a) \in Nat
  BY AheadFacts
<1>2. \A i \in 1..Len(a) : a[i] \in Frame
  BY <1>1
<1> HIDE DEF a
<1>3. r \in Seq(Marks) /\ Len(r) = Len(a) /\ \A i \in 1..Len(a) : r[i] = Mark(a[i])
  BY <1>1, <1>2, FrameFacts
<1>4. h \in Seq(Marks) /\ Len(h) = 1 /\ h[1] = seen[p]
  BY DEF TypeOK, Marks
<1>5. Line(p) = h \o r
  BY DEF Line, a
<1> HIDE DEF r, h
<1>6. /\ Len(h \o r) = Len(r) + 1 /\ (h \o r)[1] = h[1]
      /\ \A i \in 1..Len(r) : (h \o r)[i + 1] = r[i]
  BY <1>3, <1>4, OneFirst
<1>7. QED
  BY <1>3, <1>4, <1>5, <1>6 DEF a

(* Steps that leave calls and the frames received as they are. *)
CallStays == UNCHANGED <<fqMore, held, more, skipping, revents, call, answer, seen>>

(* A call that waits may be woken. *)
LEMMA CallStaysKeeps ==
    ASSUME RInv, CallStays, blocked' = blocked \/ blocked' = FALSE
    PROVE  CallOK'
BY DEF RInv, CallOK, CallStays

LEMMA ConnectKeeps ==
    ASSUME RInv, NEW p \in Pubs, Connect(p)
    PROVE  RInv'
<1>1. /\ pipe[p] = "none" /\ pipe' = [pipe EXCEPT ![p] = "active"] /\ active' = Append(active, p)
      /\ wanted' = wanted \/ wanted' = Topics
      /\ UNCHANGED <<queue, current, fqMore, held, more, skipping, revents, call, blocked, answer,
                     seen>>
  BY DEF Connect
<1>2. /\ active \in Seq(Pubs) /\ IsInjective(active)
      /\ pipe \in [Pubs -> {"none", "active", "ending"}]
  BY DEF RInv, TypeOK
<1>3. \A i \in 1..Len(active) : pipe[active[i]] # "none"
  BY DEF RInv, TurnOK
<1>4. \A i \in 1..Len(active) : active[i] # p
  BY <1>1, <1>3
<1>5. /\ active' \in Seq(Pubs) /\ IsInjective(active')
      /\ Len(active') = Len(active) + 1 /\ Len(active) \in Nat
      /\ \A i \in 1..Len(active) : active'[i] = active[i]
      /\ active'[Len(active) + 1] = p
  BY <1>1, <1>2, <1>4, AnotherPipe
<1>6. /\ pipe' \in [Pubs -> {"none", "active", "ending"}]
      /\ pipe'[p] = "active" /\ \A q \in Pubs : q # p => pipe'[q] = pipe[q]
  BY <1>1, <1>2
<1>7. (current \in 1..Len(active) \/ current = 1) /\ (active # <<>> => current \in 1..Len(active))
  BY Types DEF RInv, TypeOK
<1>8. TypeOK'
  <2>1. current' \in 1..Len(active')
    BY <1>1, <1>5, <1>7
  <2>2. wanted' \subseteq Topics
    BY <1>1 DEF RInv, TypeOK
  <2>3. QED
    BY <1>1, <1>5, <1>6, <2>1, <2>2 DEF RInv, TypeOK
<1>9. \A q \in Pubs : Behind(q)' = Behind(q)
  BY <1>1 DEF Behind
<1>10. RowsOK' /\ HeldFollows'
  BY <1>1, <1>9 DEF RInv, RowsOK, HeldFollows
<1>11. TurnOK'
  <2>1. fqMore' => \E q \in Pubs : ~Complete(Behind(q)')
    BY <1>1, <1>9 DEF RInv, TurnOK
  <2>2. ASSUME NEW q \in Pubs, ~Complete(Behind(q)')
        PROVE  fqMore' /\ active' # <<>> /\ q = active'[current'] /\ pipe'[q] = "active"
    <3>1. fqMore /\ active # <<>> /\ q = active[current] /\ pipe[q] = "active"
      BY <1>9, <2>2 DEF RInv, TurnOK
    <3>2. q # p /\ active'[current] = active[current]
      BY <1>1, <1>5, <1>7, <3>1
    <3>3. active' # <<>>
      BY <1>5
    <3>4. QED
      BY <1>1, <1>6, <3>1, <3>2, <3>3
  <2>3. \A i \in 1..Len(active') : pipe'[active'[i]] # "none"
    <3> TAKE i \in 1..Len(active')
    <3>1. CASE i = Len(active) + 1
      BY <3>1, <1>5, <1>6
    <3>2. CASE i \in 1..Len(active)
      <4>1. active[i] \in Pubs /\ active'[i] = active[i] /\ active[i] # p
        BY <3>2, <1>2, <1>4, <1>5
      <4>2. QED
        BY <3>2, <4>1, <1>3, <1>6
    <3>3. QED
      BY <3>1, <3>2, <1>5
  <2>4. QED
    BY <2>1, <2>2, <2>3 DEF TurnOK
<1>12. CallOK'
  BY <1>1, CallStaysKeeps DEF CallStays
<1>13. QED
  BY <1>8, <1>10, <1>11, <1>12 DEF RInv

LEMMA ActivatedKeeps ==
    ASSUME RInv, NEW p \in Pubs, Activated(p)
    PROVE  RInv'
<1>1. /\ Readable(p) /\ p \notin Range(active) /\ active' = Append(active, p)
      /\ blocked' = FALSE
      /\ UNCHANGED <<pipe, queue, current, fqMore, held, more, skipping, wanted, revents, call,
                     answer, seen>>
  BY DEF Activated, subVars
<1>2. active \in Seq(Pubs) /\ IsInjective(active)
  BY DEF RInv, TypeOK
<1>3. \A i \in 1..Len(active) : active[i] # p
  BY <1>1, <1>2 DEF Range
<1>4. /\ active' \in Seq(Pubs) /\ IsInjective(active')
      /\ Len(active') = Len(active) + 1 /\ Len(active) \in Nat
      /\ \A i \in 1..Len(active) : active'[i] = active[i]
      /\ active'[Len(active) + 1] = p
  BY <1>1, <1>2, <1>3, AnotherPipe
<1>5. (current \in 1..Len(active) \/ current = 1) /\ (active # <<>> => current \in 1..Len(active))
  BY Types DEF RInv, TypeOK
<1>6. TypeOK'
  <2>1. current' \in 1..Len(active')
    BY <1>1, <1>4, <1>5
  <2>2. QED
    BY <1>1, <1>4, <2>1 DEF RInv, TypeOK
<1>7. \A q \in Pubs : Behind(q)' = Behind(q)
  BY <1>1 DEF Behind
<1>8. RowsOK' /\ HeldFollows'
  BY <1>1, <1>7 DEF RInv, RowsOK, HeldFollows
<1>9. TurnOK'
  <2>1. fqMore' => \E q \in Pubs : ~Complete(Behind(q)')
    BY <1>1, <1>7 DEF RInv, TurnOK
  <2>2. ASSUME NEW q \in Pubs, ~Complete(Behind(q)')
        PROVE  fqMore' /\ active' # <<>> /\ q = active'[current'] /\ pipe'[q] = "active"
    <3>1. fqMore /\ active # <<>> /\ q = active[current] /\ pipe[q] = "active"
      BY <1>7, <2>2 DEF RInv, TurnOK
    <3>2. active'[current] = active[current] /\ active' # <<>>
      BY <1>4, <1>5, <3>1
    <3>3. QED
      BY <1>1, <3>1, <3>2
  <2>3. \A i \in 1..Len(active') : pipe'[active'[i]] # "none"
    <3> TAKE i \in 1..Len(active')
    <3>1. CASE i = Len(active) + 1
      BY <3>1, <1>1, <1>4 DEF Readable
    <3>2. CASE i \in 1..Len(active)
      BY <3>2, <1>1, <1>4 DEF RInv, TurnOK
    <3>3. QED
      BY <3>1, <3>2, <1>4
  <2>4. QED
    BY <2>1, <2>2, <2>3 DEF TurnOK
<1>10. CallOK'
  BY <1>1, CallStaysKeeps DEF CallStays
<1>11. QED
  BY <1>6, <1>8, <1>9, <1>10 DEF RInv

LEMMA DisconnectKeeps ==
    ASSUME RInv, Careful, NEW p \in Pubs, Disconnect(p)
    PROVE  RInv'
<1>1. /\ call = "idle" /\ ~more /\ (held # <<>> => ~held[1].more)
      /\ pipe' = [pipe EXCEPT ![p] = "ending"] /\ queue' = [queue EXCEPT ![p] = <<>>]
      /\ UNCHANGED <<active, current, fqMore, held, more, skipping, wanted, revents, call,
                     blocked, answer, seen>>
  BY DEF Disconnect, subVars
<1>2. /\ pipe \in [Pubs -> {"none", "active", "ending"}] /\ queue \in [Pubs -> Seq(Frame)]
  BY DEF RInv, TypeOK
<1>3. /\ pipe' \in [Pubs -> {"none", "active", "ending"}] /\ queue' \in [Pubs -> Seq(Frame)]
      /\ queue'[p] = <<>> /\ pipe'[p] = "ending"
      /\ \A q \in Pubs : q # p => queue'[q] = queue[q] /\ pipe'[q] = pipe[q]
  BY <1>1, <1>2
<1>4. \A q \in Pubs : Complete(seen[q])
  BY <1>1 DEF RInv, CallOK
<1>5. \A q \in Pubs : Behind(q)' = Behind(q) /\ Complete(Behind(q))
  BY <1>1, <1>4, Types, FrameFacts DEF RInv, Behind
<1>6. TypeOK'
  BY <1>1, <1>3 DEF RInv, TypeOK
<1>7. RowsOK'
  <2> SUFFICES ASSUME NEW q \in Pubs PROVE Row(queue'[q], Behind(q), q)
    BY <1>5 DEF RowsOK
  <2>1. CASE q = p
    BY <2>1, <1>3, <1>5 DEF Row
  <2>2. CASE q # p
    BY <2>2, <1>3 DEF RInv, RowsOK
  <2>3. QED
    BY <2>1, <2>2
<1>8. HeldFollows'
  BY <1>1 DEF RInv, HeldFollows
<1>9. TurnOK'
  <2>1. ~fqMore
    BY <1>5 DEF RInv, TurnOK
  <2>2. \A i \in 1..Len(active) : active[i] \in Pubs /\ pipe[active[i]] # "none"
    BY Types DEF RInv, TurnOK
  <2>3. \A i \in 1..Len(active') : pipe'[active'[i]] # "none"
    BY <1>1, <1>3, <2>2
  <2>4. QED
    BY <1>1, <1>5, <2>1, <2>3 DEF TurnOK
<1>10. CallOK'
  BY <1>1, CallStaysKeeps DEF CallStays
<1>11. QED
  BY <1>6, <1>7, <1>8, <1>9, <1>10 DEF RInv

LEMMA LastOfLine ==
    ASSUME TypeOK, NEW p \in Pubs
    PROVE  Last(Line(p)) = IF queue[p] = <<>> THEN Behind(p) ELSE Mark(queue[p][Len(queue[p])])
<1> DEFINE a == Ahead(p)
           n == Len(a)
           l == Line(p)
<1>1. /\ queue[p] \in Seq(Frame) /\ held \in Seq(Frame)
      /\ held # <<>> => Len(held) = 1 /\ held[1] \in Frame
  BY Types DEF TypeOK
<1>2. a \in Seq(Frame)
  BY <1>1, ConcatFacts DEF Ahead
<1>3. n \in Nat /\ Len(l) = n + 1 /\ l[n + 1] = IF n = 0 THEN seen[p] ELSE Mark(a[n])
  BY <1>2, LineFacts
<1>4. Last(l) = IF n = 0 THEN seen[p] ELSE Mark(a[n])
  BY <1>3 DEF Last
<1> HIDE DEF l
<1>5. CASE held # <<>> /\ held[1].pub = p
  <2>1. a = held \o queue[p] /\ Behind(p) = Mark(held[1]) /\ Len(held) = 1
    BY <1>1, <1>5 DEF Ahead, Behind
  <2>2. /\ n = Len(queue[p]) + 1 /\ Len(queue[p]) \in Nat
        /\ a[1] = held[1]
        /\ \A i \in 1..Len(queue[p]) : a[i + 1] = queue[p][i]
    BY <1>1, <2>1, OneFirst
  <2>3. CASE queue[p] = <<>>
    BY <1>4, <2>1, <2>2, <2>3 DEF l
  <2>4. CASE queue[p] # <<>>
    <3>1. Len(queue[p]) \in Nat \ {0}
      BY <1>1, <2>4, TailFacts
    <3>2. Len(queue[p]) \in 1..Len(queue[p]) /\ n # 0 /\ a[n] = queue[p][Len(queue[p])]
      BY <2>2, <3>1
    <3>3. QED
      BY <1>4, <2>4, <3>2 DEF l
  <2>5. QED
    BY <2>3, <2>4
<1>6. CASE ~(held # <<>> /\ held[1].pub = p)
  <2>1. a = queue[p] /\ Behind(p) = seen[p]
    BY <1>6 DEF Ahead, Behind
  <2>2. n = 0 <=> queue[p] = <<>>
    BY <1>1, <2>1
  <2>3. QED
    BY <1>4, <2>1, <2>2 DEF l
<1>7. QED
  BY <1>5, <1>6

LEMMA ArriveKeeps ==
    ASSUME RInv, NEW p \in Pubs, Arrive(p)
    PROVE  RInv'
<1>1. PICK t \in Topics, size \in 1..MaxParts :
         queue' = [queue EXCEPT ![p] = @ \o Message(p, (Last(Line(p)).id + 1) % Ids, t, size)]
  BY DEF Arrive
<1>2. /\ pipe[p] = "active"
      /\ UNCHANGED <<pipe, active, current, fqMore, held, more, skipping, wanted, revents, call,
                     blocked, answer, seen>>
  BY DEF Arrive, subVars
<1> DEFINE m == IF queue[p] = <<>> THEN Behind(p) ELSE Mark(queue[p][Len(queue[p])])
           s == Message(p, (m.id + 1) % Ids, t, size)
<1>3. /\ queue \in [Pubs -> Seq(Frame)] /\ queue[p] \in Seq(Frame) /\ Behind(p) \in Marks
      /\ Row(queue[p], Behind(p), p)
  BY Types DEF RInv, TypeOK, RowsOK
<1>4. m \in Marks /\ Complete(m)
  <2>1. CASE queue[p] = <<>>
    BY <1>3, <2>1 DEF Row
  <2>2. CASE queue[p] # <<>>
    <3>1. Len(queue[p]) \in Nat \ {0}
      BY <1>3, <2>2, TailFacts
    <3>2. queue[p][Len(queue[p])] \in Frame /\ ~queue[p][Len(queue[p])].more
      BY <1>3, <2>2, <3>1 DEF Row
    <3>3. QED
      BY <2>2, <3>2, FrameFacts
  <2>3. QED
    BY <2>1, <2>2
<1>5. Last(Line(p)) = m
  BY LastOfLine DEF RInv
<1>6. queue' = [queue EXCEPT ![p] = @ \o s]
  BY <1>1, <1>5
<1> HIDE DEF m
<1>7. s \in Seq(Frame) /\ s # <<>> /\ Row(s, m, p)
  BY <1>4, RowOfMessage
<1> HIDE DEF s
<1>8. queue[p] \o s \in Seq(Frame) /\ Row(queue[p] \o s, Behind(p), p)
  BY <1>3, <1>7, RowConcat DEF m
<1>9. /\ queue' \in [Pubs -> Seq(Frame)] /\ queue'[p] = queue[p] \o s
      /\ \A q \in Pubs : q # p => queue'[q] = queue[q]
  BY <1>3, <1>6, <1>8
<1>10. \A q \in Pubs : Behind(q)' = Behind(q)
  BY <1>2 DEF Behind
<1>11. TypeOK'
  BY <1>2, <1>9 DEF RInv, TypeOK
<1>12. RowsOK'
  <2> SUFFICES ASSUME NEW q \in Pubs PROVE Row(queue'[q], Behind(q), q)
    BY <1>10 DEF RowsOK
  <2>1. Row(queue[q], Behind(q), q)
    BY DEF RInv, RowsOK
  <2>2. QED
    BY <1>8, <1>9, <2>1
<1>13. HeldFollows' /\ TurnOK'
  BY <1>2, <1>10 DEF RInv, HeldFollows, TurnOK
<1>14. CallOK'
  BY <1>2, CallStaysKeeps DEF CallStays
<1>15. QED
  BY <1>11, <1>12, <1>13, <1>14 DEF RInv

(* With two connections, the one that is left when the other is terminated *)
(* keeps its turn.                                                         *)
LEMMA PipeTerminatedKeeps ==
    ASSUME RInv, AtMostTwo, NEW p \in Pubs, PipeTerminated(p)
    PROVE  RInv'
<1>1. /\ pipe[p] = "ending" /\ pipe' = [pipe EXCEPT ![p] = "none"] /\ blocked' = FALSE
      /\ UNCHANGED <<queue, fqMore, held, more, skipping, wanted, revents, call, answer, seen>>
  BY DEF PipeTerminated, subVars
<1>2. /\ active \in Seq(Pubs) /\ IsInjective(active) /\ Len(active) \in Nat
      /\ \A i \in 1..Len(active) : active[i] \in Pubs
      /\ current \in 1..Len(active) \/ (active = <<>> /\ current = 1)
      /\ pipe \in [Pubs -> {"none", "active", "ending"}]
  BY Types DEF RInv, TypeOK
<1>3. /\ pipe' \in [Pubs -> {"none", "active", "ending"}]
      /\ \A q \in Pubs : q # p => pipe'[q] = pipe[q]
  BY <1>1, <1>2
<1>4. \A q \in Pubs : Behind(q)' = Behind(q)
  BY <1>1 DEF Behind
<1>5. RowsOK' /\ HeldFollows'
  BY <1>1, <1>4 DEF RInv, RowsOK, HeldFollows
<1>6. CallOK'
  BY <1>1, CallStaysKeeps DEF CallStays
<1>7. \A i \in 1..Len(active) : pipe[active[i]] # "none"
  BY DEF RInv, TurnOK
<1>8. fqMore' => \E q \in Pubs : ~Complete(Behind(q)')
  BY <1>1, <1>4 DEF RInv, TurnOK
<1>9. ASSUME NEW q \in Pubs, ~Complete(Behind(q)')
      PROVE  fqMore /\ active # <<>> /\ q = active[current] /\ pipe[q] = "active" /\ q # p
  BY <1>1, <1>4, <1>9 DEF RInv, TurnOK
<1>10. CASE p \notin Range(active)
  <2>1. UNCHANGED <<active, current>>
    BY <1>10 DEF PipeTerminated
  <2>2. \A i \in 1..Len(active) : active[i] # p
    BY <1>2, <1>10 DEF Range
  <2>3. TypeOK'
    BY <1>1, <1>3, <2>1 DEF RInv, TypeOK
  <2>4. \A i \in 1..Len(active') : pipe'[active'[i]] # "none"
    BY <1>2, <1>3, <1>7, <2>1, <2>2
  <2>5. \A q \in Pubs : ~Complete(Behind(q)') =>
           fqMore' /\ active' # <<>> /\ q = active'[current'] /\ pipe'[q] = "active"
    BY <1>1, <1>3, <1>9, <2>1
  <2>6. TurnOK'
    BY <1>8, <2>4, <2>5 DEF TurnOK
  <2>7. QED
    BY <1>5, <1>6, <2>3, <2>6 DEF RInv
<1>11. CASE p \in Range(active)
  <2>1. PICK i \in 1..Len(active) :
           /\ active[i] = p /\ active' = Without(active, i)
           /\ current' = IF current = Len(active) THEN 1 ELSE current
    BY <1>11 DEF PipeTerminated
  <2> DEFINE r == Without(active, i)
  <2>2. /\ r \in Seq(Pubs) /\ Len(r) = Len(active) - 1 /\ IsInjective(r)
        /\ \A j \in 1..Len(r) : r[j] # active[i] /\ \E k \in 1..Len(active) : r[j] = active[k]
    BY <1>2, WithoutFacts
  <2>3. \A j \in 1..Len(active) - 1 : r[j] = IF j = i THEN active[Len(active)] ELSE active[j]
    BY DEF Without
  <2>4. active' = r
    BY <2>1
  <2> HIDE DEF r
  <2>5. current' \in 1..Len(active') \/ current' = 1
    BY <1>2, <2>1, <2>2, <2>4
  <2>6. TypeOK'
    BY <1>1, <1>3, <2>2, <2>4, <2>5 DEF RInv, TypeOK
  <2>7. \A j \in 1..Len(active') : pipe'[active'[j]] # "none"
    <3> TAKE j \in 1..Len(active')
    <3>1. PICK k \in 1..Len(active) : r[j] = active[k]
      BY <2>2, <2>4
    <3>2. r[j] # p /\ r[j] \in Pubs /\ pipe[r[j]] # "none"
      BY <1>2, <1>7, <2>1, <2>2, <2>4, <3>1
    <3>3. QED
      BY <1>3, <2>4, <3>2
  <2>8. ASSUME NEW q \in Pubs, ~Complete(Behind(q)')
        PROVE  fqMore' /\ active' # <<>> /\ q = active'[current'] /\ pipe'[q] = "active"
    <3>1. fqMore /\ active # <<>> /\ q = active[current] /\ pipe[q] = "active" /\ q # p
      BY <1>9, <2>8
    <3>2. current \in 1..Len(active) /\ current # i
      BY <1>2, <2>1, <3>1
    <3>3. Len(active) = 2
      <4>1. Len(active) >= 2
        BY <1>2, <3>2
      <4>2. ASSUME Len(active) > 2 PROVE FALSE
        <5>1. active[1] = active[2] \/ active[2] = active[3] \/ active[1] = active[3]
          BY <1>2, <4>2 DEF AtMostTwo
        <5>2. 1 \in DOMAIN active /\ 2 \in DOMAIN active /\ 3 \in DOMAIN active
          BY <1>2, <4>2
        <5>3. QED
          BY <1>2, <5>1, <5>2 DEF IsInjective
      <4>3. \A n \in Nat : n >= 2 /\ ~(n > 2) => n = 2
        OBVIOUS
      <4>4. Len(active) \in Nat
        BY <1>2
      <4>5. QED
        BY <4>1, <4>2, <4>3, <4>4
    <3>4. Len(r) = 1 /\ r[1] = active[current]
      BY <2>2, <2>3, <3>2, <3>3
    <3>5. current' = 1
      BY <2>1, <3>2, <3>3
    <3>6. r # <<>>
      BY <3>4
    <3>7. QED
      BY <1>1, <1>3, <2>4, <3>1, <3>4, <3>5, <3>6
  <2>9. TurnOK'
    BY <1>8, <2>7, <2>8 DEF TurnOK
  <2>10. QED
    BY <1>5, <1>6, <2>6, <2>9 DEF RInv
<1>12. QED
  BY <1>10, <1>11

LEMMA NextKeeps ==
    ASSUME RInv, AtMostTwo, Careful, [Next]_vars
    PROVE  RInv'
<1>1. CASE Step
  BY <1>1, PassOverKeeps, CallsKeep, DeliverHeldKeeps, DeliverFetchedKeeps, HoldKeeps,
     DiscardKeeps DEF Step
<1>2. CASE GiveUp \/ HasWaitingMessage \/ Receive \/ GetNextMessage \/ \E t \in Topics : Refilter(t)
  BY <1>2, CallsKeep
<1>3. CASE \E p \in Pubs : Connect(p) \/ Disconnect(p) \/ Arrive(p) \/ Activated(p)
                           \/ PipeTerminated(p)
  BY <1>3, ConnectKeeps, DisconnectKeeps, ArriveKeeps, ActivatedKeeps, PipeTerminatedKeeps
<1>4. CASE UNCHANGED vars
  <2>1. /\ wanted' = wanted /\ call' = call /\ answer' = answer /\ more' = more
        /\ skipping' = skipping /\ revents' = revents /\ blocked' = blocked /\ FramesStay
    BY <1>4 DEF vars, fqVars, subVars, FramesStay
  <2>2. CallOK'
    BY <2>1 DEF RInv, CallOK, FramesStay
  <2>3. QED
    BY <2>1, <2>2, FramesStayKeeps DEF RInv, TypeOK
<1>5. QED
  BY <1>1, <1>2, <1>3, <1>4 DEF Next

-----------------------------------------------------------------------------
(* The theorems. *)

(* Of at most two connections, with disconnects only between messages, the *)
(* one whose message is unfinished has the turn and more of it to read     *)
(* (fq_t::_current, fq_t::_more, xsub_t::_more, xsub_t::_message).         *)
THEOREM ReceiverInvariant == AtMostTwo /\ Careful => (Spec => []RInv)
<1> SUFFICES ASSUME AtMostTwo, Careful PROVE Spec => []RInv
  OBVIOUS
<1>1. Init => RInv
  BY InitInvariant
<1>2. RInv /\ [Next]_vars => RInv'
  BY NextKeeps
<1>3. QED
  BY <1>1, <1>2, PTL DEF Spec

LEMMA InvariantOneMessage ==
    ASSUME RInv
    PROVE  OneMessage
<1>1. more \/ skipping <=> \E p \in Pubs : ~Complete(seen[p])
  BY DEF RInv, CallOK
<1>2. ASSUME NEW p \in Pubs, NEW q \in Pubs, ~Complete(seen[p]), ~Complete(seen[q])
      PROVE  p = q
  <2>1. held = <<>>
    BY <1>1, <1>2 DEF RInv, CallOK
  <2>2. ~Complete(Behind(p)) /\ ~Complete(Behind(q))
    BY <1>2, <2>1, NoneHeld
  <2>3. QED
    BY <2>2 DEF RInv, TurnOK
<1>3. QED
  BY <1>1, <1>2 DEF OneMessage

LEMMA InvariantNothingLost ==
    ASSUME RInv
    PROVE  NothingLost
<1> SUFFICES ASSUME NEW p \in Pubs, NEW i \in 1..Len(Line(p)) - 1
             PROVE  Follows(Line(p)[i], Line(p)[i + 1])
  BY DEF NothingLost, RInv
<1> DEFINE a == Ahead(p)
<1>1. TypeOK /\ queue[p] \in Seq(Frame) /\ Row(queue[p], Behind(p), p)
  BY DEF RInv, TypeOK, RowsOK
<1>2. held # <<>> => Len(held) = 1 /\ held[1] \in Frame
  BY <1>1, Types
<1>3. a \in Seq(Frame) /\ Len(a) \in Nat
  BY <1>1, AheadFacts
<1>4. /\ Len(Line(p)) = Len(a) + 1 /\ Line(p)[1] = seen[p]
      /\ \A j \in 1..Len(a) : Line(p)[j + 1] = Mark(a[j])
  BY <1>1, LineFacts
<1>5. Row(a, seen[p], p)
  <2>1. CASE held # <<>> /\ held[1].pub = p
    <3>1. a = held \o queue[p] /\ Behind(p) = Mark(held[1]) /\ held \in Seq(Frame)
      BY <1>1, <2>1 DEF Ahead, Behind, TypeOK
    <3>2. /\ Len(a) = Len(queue[p]) + 1 /\ Len(queue[p]) \in Nat /\ a[1] = held[1]
          /\ \A j \in 1..Len(queue[p]) : a[j + 1] = queue[p][j]
      BY <1>1, <1>2, <2>1, <3>1, OneFirst
    <3>3. Follows(seen[p], Mark(a[1])) /\ Mark(a[1]) = Behind(p) /\ held[1] \in Frame
      BY <1>2, <2>1, <3>1, <3>2 DEF RInv, HeldFollows
    <3> HIDE DEF a
    <3>4. a # <<>> /\ ~a[Len(a)].more
      <4>1. CASE queue[p] = <<>>
        <5>1. Len(a) = 1 /\ Complete(Mark(a[1]))
          BY <1>1, <3>2, <3>3, <4>1 DEF Row
        <5>2. ~held[1].more
          BY <3>2, <3>3, <5>1, FrameFacts
        <5>3. a # <<>>
          BY <5>1
        <5>4. a[Len(a)] = a[1]
          BY <5>1
        <5>5. QED
          BY <3>2, <5>2, <5>3, <5>4
      <4>2. CASE queue[p] # <<>>
        <5>1. Len(queue[p]) \in Nat \ {0}
          BY <1>1, <4>2, TailFacts
        <5>2. a[Len(a)] = queue[p][Len(queue[p])] /\ a # <<>>
          BY <3>2, <5>1
        <5>3. QED
          BY <1>1, <4>2, <5>2 DEF Row
      <4>3. QED
        BY <4>1, <4>2
    <3>5. ASSUME NEW j \in 1..Len(a)
          PROVE  j = 1 \/ (j - 1 \in 1..Len(queue[p]) /\ a[j] = queue[p][j - 1])
      <4>1. CASE j > 1
        <5>1. j - 1 \in 1..Len(queue[p]) /\ (j - 1) + 1 = j
          BY <3>2, <4>1
        <5>2. QED
          BY <3>2, <5>1
      <4>2. QED
        BY <3>2, <4>1
    <3>6. \A j \in 1..Len(a) : a[j].pub = p
      BY <1>1, <2>1, <3>2, <3>5 DEF Row
    <3>7. ASSUME NEW j \in 1..Len(a) - 1
          PROVE  Follows(Mark(a[j]), Mark(a[j + 1]))
      <4>1. j \in 1..Len(queue[p]) /\ j \in 1..Len(a) /\ a[j + 1] = queue[p][j]
        BY <3>2
      <4>2. CASE j = 1
        <5>1. queue[p] # <<>> /\ a[j + 1] = queue[p][1]
          BY <1>1, <4>1, <4>2
        <5>2. QED
          BY <1>1, <3>3, <4>2, <5>1 DEF Row
      <4>3. CASE j # 1
        <5>1. j - 1 \in 1..Len(queue[p]) - 1 /\ a[j] = queue[p][j - 1] /\ (j - 1) + 1 = j
          BY <3>2, <3>5, <4>1, <4>3
        <5>2. Follows(Mark(queue[p][j - 1]), Mark(queue[p][(j - 1) + 1]))
          BY <1>1, <5>1 DEF Row
        <5>3. QED
          BY <4>1, <5>1, <5>2
      <4>4. QED
        BY <4>2, <4>3
    <3>8. QED
      BY <3>3, <3>4, <3>6, <3>7 DEF Row
  <2>2. CASE ~(held # <<>> /\ held[1].pub = p)
    BY <1>1, <2>2 DEF Ahead, Behind
  <2>3. QED
    BY <2>1, <2>2
<1> HIDE DEF a
<1>6. CASE i = 1
  <2>1. Len(a) \in Nat \ {0} /\ Line(p)[i + 1] = Mark(a[1]) /\ a # <<>>
    BY <1>3, <1>4, <1>6
  <2>2. QED
    BY <1>4, <1>5, <1>6, <2>1 DEF Row
<1>7. CASE i > 1
  <2>1. i - 1 \in 1..Len(a) - 1 /\ i - 1 \in 1..Len(a) /\ i \in 1..Len(a)
    BY <1>3, <1>4, <1>7
  <2>2. Line(p)[i] = Mark(a[i - 1]) /\ Line(p)[i + 1] = Mark(a[i])
    BY <1>4, <2>1
  <2>3. Follows(Mark(a[i - 1]), Mark(a[(i - 1) + 1]))
    BY <1>5, <2>1 DEF Row
  <2>4. QED
    BY <2>1, <2>2, <2>3
<1>8. QED
  BY <1>6, <1>7, <1>4, <1>3

LEMMA InvariantPollKeepsWord ==
    ASSUME RInv
    PROVE  PollKeepsWord
<1> SUFFICES ASSUME blocked PROVE answer # "poll"
  BY DEF PollKeepsWord
<1>1. held = <<>> /\ ~fqMore
  BY DEF RInv, CallOK
<1>2. \A p \in Pubs : Complete(seen[p])
  BY <1>1, NoneHeld, UnfinishedIsReadable
<1>3. QED
  BY <1>1, <1>2 DEF RInv, CallOK

(* The frames that leave the pipes finish a message before another         *)
(* connection has its turn (fq_t::recvpipe, xsub_t::xrecv, xhas_in).       *)
THEOREM ReadsOneMessage == AtMostTwo /\ Careful => (Spec => []OneMessage)
<1> SUFFICES ASSUME AtMostTwo, Careful PROVE Spec => []OneMessage
  OBVIOUS
<1>1. Spec => []RInv
  BY ReceiverInvariant
<1>2. RInv => OneMessage
  BY InvariantOneMessage
<1>3. QED
  BY <1>1, <1>2, PTL

(* No frame is lost, repeated or overtaken between a pipe and the          *)
(* application, however polls and reads are mixed (xsub_t::xhas_in).       *)
THEOREM ReadsEverything == AtMostTwo /\ Careful => (Spec => []NothingLost)
<1> SUFFICES ASSUME AtMostTwo, Careful PROVE Spec => []NothingLost
  OBVIOUS
<1>1. Spec => []RInv
  BY ReceiverInvariant
<1>2. RInv => NothingLost
  BY InvariantNothingLost
<1>3. QED
  BY <1>1, <1>2, PTL

(* A read after a poll that said yes does not wait, whatever was           *)
(* unsubscribed or disconnected in between (xsub_t::xhas_in, item).        *)
THEOREM PollIsTrusted == AtMostTwo /\ Careful => (Spec => []PollKeepsWord)
<1> SUFFICES ASSUME AtMostTwo, Careful PROVE Spec => []PollKeepsWord
  OBVIOUS
<1>1. Spec => []RInv
  BY ReceiverInvariant
<1>2. RInv => PollKeepsWord
  BY InvariantPollKeepsWord
<1>3. QED
  BY <1>1, <1>2, PTL

(* fq_t's assertion that a message once begun can be read on holds.        *)
THEOREM ReadsOn == AtMostTwo /\ Careful => (Spec => []NoAbort)
<1> SUFFICES ASSUME AtMostTwo, Careful PROVE Spec => []NoAbort
  OBVIOUS
<1>1. Spec => []RInv
  BY ReceiverInvariant
<1>2. RInv => NoAbort
  BY DEF RInv, CallOK, NoAbort
<1>3. QED
  BY <1>1, <1>2, PTL
=============================================================================
