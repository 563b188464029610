--------------------------- MODULE PubSub_proofs ---------------------------
(***************************************************************************)
(* Proofs about Subscription and PubSub, for any number of subscribers,    *)
(* publishers and filters and any bounds.  First, of Subscription: the     *)
(* types, that the filters of a subscriber are installed, and that the     *)
(* publisher's table and the commands under way to it agree with the       *)
(* subscriber's subscriptions.  Then, of PubSub: the types, that its       *)
(* subscription plane is Subscription, that queues hold whole messages in  *)
(* order as long as no high water mark changes within a message, and that  *)
(* PubSub then implements Channel.                                         *)
(***************************************************************************)
EXTENDS PubSub, FiniteSetTheorems, TLAPS

-----------------------------------------------------------------------------
(* Batches of commands. *)

(* An order lists the filters of its set, each once. *)
LEMMA OrderFacts ==
    ASSUME NEW F, F \subseteq Filters, NEW o \in Orders(F)
    PROVE  /\ o \in Seq(Filters)
           /\ \A i \in 1..Len(o) : o[i] \in F
           /\ \A f \in F : \E i \in 1..Len(o) : o[i] = f
           /\ \A i, j \in 1..Len(o) : o[i] = o[j] => i = j
<1>1. Cardinality(F) \in Nat
  BY FiltersAssumption, FS_Subset, FS_CardinalityType
<1>2. /\ o \in [1..Cardinality(F) -> F]
      /\ \A i, j \in 1..Cardinality(F) : o[i] = o[j] => i = j
      /\ \A f \in F : \E i \in 1..Cardinality(F) : o[i] = f
  BY DEF Orders, Bijection, Injection, Surjection, IsInjective
<1>3. o \in Seq(F) /\ Len(o) = Cardinality(F)
  BY <1>1, <1>2
<1>4. o \in Seq(Filters)
  BY <1>3
<1>5. QED
  BY <1>2, <1>3, <1>4

(* A batch turns an order into commands, one by one. *)
LEMMA BatchFacts ==
    ASSUME NEW o \in Seq(Filters), NEW op \in {"sub", "cancel"}
    PROVE  /\ Batch(op, o) \in Seq(Commands)
           /\ Len(Batch(op, o)) = Len(o)
           /\ \A i \in 1..Len(o) : Batch(op, o)[i] = [op |-> op, filter |-> o[i]]
BY DEF Batch, Commands

(* The commands of a concatenation. *)
LEMMA ConcatFacts ==
    ASSUME NEW q \in Seq(Commands), NEW b \in Seq(Commands)
    PROVE  /\ q \o b \in Seq(Commands)
           /\ Len(q \o b) = Len(q) + Len(b)
           /\ \A i \in 1..Len(q) : (q \o b)[i] = q[i]
           /\ \A i \in 1..Len(b) : (q \o b)[Len(q) + i] = b[i]
           /\ \A i \in Len(q) + 1..Len(q) + Len(b) : (q \o b)[i] = b[i - Len(q)]
OBVIOUS

(* A batch of subscriptions adds its filters to what the table will hold. *)
LEMMA SubBatchHolds ==
    ASSUME NEW q \in Seq(Commands), NEW T, NEW F, F \subseteq Filters,
           NEW o \in Orders(F), NEW f \in Filters
    PROVE  WillHold(q \o Batch("sub", o), T, f) <=> f \in F \/ WillHold(q, T, f)
<1> DEFINE b == Batch("sub", o)
           n == Len(q)
           r == q \o b
<1>1. /\ b \in Seq(Commands)
      /\ Len(b) = Len(o)
      /\ \A i \in 1..Len(o) : b[i] = [op |-> "sub", filter |-> o[i]]
  BY OrderFacts, BatchFacts
<1>2. /\ \A i \in 1..Len(o) : o[i] \in F
      /\ \A g \in F : \E i \in 1..Len(o) : o[i] = g
      /\ \A i, j \in 1..Len(o) : o[i] = o[j] => i = j
      /\ Len(o) \in Nat
  BY OrderFacts
<1>3. /\ Len(r) = n + Len(o)
      /\ \A i \in 1..n : r[i] = q[i]
      /\ \A i \in 1..Len(o) : r[n + i] = [op |-> "sub", filter |-> o[i]]
      /\ \A i \in n + 1..Len(r) : /\ i - n \in 1..Len(o)
                                 /\ r[i].op = "sub"
                                 /\ r[i].filter = o[i - n]
      /\ n \in Nat
  <2>1. /\ n \in Nat
        /\ Len(r) = n + Len(b)
        /\ \A i \in 1..n : r[i] = q[i]
        /\ \A i \in 1..Len(b) : r[n + i] = b[i]
        /\ \A i \in n + 1..n + Len(b) : r[i] = b[i - n]
    BY <1>1, ConcatFacts
  <2>2. \A i \in n + 1..n + Len(o) : i - n \in 1..Len(o)
    BY <1>2, <2>1
  <2> HIDE DEF b, r, n
  <2>3. \A i \in n + 1..Len(r) : r[i] = [op |-> "sub", filter |-> o[i - n]]
    BY <1>1, <2>1, <2>2
  <2>4. \A i \in 1..Len(o) : r[n + i] = [op |-> "sub", filter |-> o[i]]
    BY <1>1, <2>1
  <2>5. Len(r) = n + Len(o)
    BY <1>1, <2>1
  <2>6. ASSUME NEW i \in n + 1..Len(r)
        PROVE  r[i].op = "sub" /\ r[i].filter = o[i - n]
    <3>1. r[i] = [op |-> "sub", filter |-> o[i - n]]
      BY <2>3
    <3>2. QED
      BY <3>1
  <2>7. \A i \in n + 1..Len(r) : i - n \in 1..Len(o)
    BY <2>2, <2>5
  <2>8. QED
    BY <2>1, <2>4, <2>5, <2>6, <2>7
<1> HIDE DEF b, r, n
<1>4. CASE f \in F
  <2>1. PICK k \in 1..Len(o) : o[k] = f
    BY <1>2, <1>4
  <2>2. n + k \in 1..Len(r) /\ r[n + k] = [op |-> "sub", filter |-> f]
    BY <2>1, <1>2, <1>3
  <2>3. ASSUME NEW j \in n + k + 1..Len(r) PROVE r[j].filter # f
    <3>1. j \in n + 1..Len(r) /\ j - n \in 1..Len(o) /\ j - n # k
      BY <1>2, <1>3
    <3>2. r[j].filter = o[j - n] /\ o[j - n] # o[k]
      BY <3>1, <1>2, <1>3
    <3>3. QED
      BY <3>2, <2>1
  <2>4. WillHold(r, T, f)
    BY <2>2, <2>3 DEF WillHold
  <2>5. QED
    BY <2>4, <1>4 DEF r, b
<1>5. CASE f \notin F
  <2>1. \A j \in n + 1..Len(r) : r[j].filter # f
    <3>1. SUFFICES ASSUME NEW j \in n + 1..Len(r) PROVE r[j].filter # f
      OBVIOUS
    <3>2. j - n \in 1..Len(o) /\ r[j].filter = o[j - n]
      BY <1>2, <1>3
    <3>3. QED
      BY <3>2, <1>2, <1>5
  <2>2. 1..n \subseteq 1..Len(r) /\ \A j \in 1..Len(r) : j \in 1..n \/ j \in n + 1..Len(r)
    BY <1>2, <1>3
  <2>3. (\A i \in 1..Len(r) : r[i].filter # f) <=> (\A i \in 1..n : q[i].filter # f)
    BY <2>1, <2>2, <1>3
  <2>4. ASSUME NEW i \in 1..n
        PROVE  (\A j \in i + 1..Len(r) : r[j].filter # f) <=>
               (\A j \in i + 1..n : q[j].filter # f)
    <3>1. \A j \in i + 1..Len(r) : j \in i + 1..n \/ j \in n + 1..Len(r)
      BY <1>2, <1>3
    <3>2. \A j \in i + 1..n : j \in i + 1..Len(r) /\ j \in 1..n /\ r[j] = q[j]
      BY <1>2, <1>3
    <3>3. QED
      BY <3>1, <3>2, <2>1
  <2>5. (\E i \in 1..Len(r) : /\ r[i] = [op |-> "sub", filter |-> f]
                              /\ \A j \in i + 1..Len(r) : r[j].filter # f) <=>
        (\E i \in 1..n : /\ q[i] = [op |-> "sub", filter |-> f]
                         /\ \A j \in i + 1..n : q[j].filter # f)
    <3>1. \A i \in n + 1..Len(r) : r[i] # [op |-> "sub", filter |-> f]
      BY <2>1
    <3>2. QED
      BY <3>1, <2>2, <2>4, <1>3
  <2>6. WillHold(r, T, f) <=> WillHold(q, T, f)
    BY <2>3, <2>5 DEF WillHold, n
  <2>7. QED
    BY <2>6, <1>5 DEF r, b
<1>6. QED
  BY <1>4, <1>5

(* A batch of cancellations takes its filters away. *)
LEMMA CancelBatchHolds ==
    ASSUME NEW q \in Seq(Commands), NEW T, NEW F, F \subseteq Filters,
           NEW o \in Orders(F), NEW f \in Filters
    PROVE  WillHold(q \o Batch("cancel", o), T, f) <=> f \notin F /\ WillHold(q, T, f)
<1> DEFINE b == Batch("cancel", o)
           n == Len(q)
           r == q \o b
<1>1. /\ b \in Seq(Commands)
      /\ Len(b) = Len(o)
      /\ \A i \in 1..Len(o) : b[i] = [op |-> "cancel", filter |-> o[i]]
  BY OrderFacts, BatchFacts
<1>2. /\ \A i \in 1..Len(o) : o[i] \in F
      /\ \A g \in F : \E i \in 1..Len(o) : o[i] = g
      /\ Len(o) \in Nat
  BY OrderFacts
<1>3. /\ Len(r) = n + Len(o)
      /\ \A i \in 1..n : r[i] = q[i]
      /\ \A i \in 1..Len(o) : r[n + i] = [op |-> "cancel", filter |-> o[i]]
      /\ \A i \in n + 1..Len(r) : /\ i - n \in 1..Len(o)
                                 /\ r[i].op = "cancel"
                                 /\ r[i].filter = o[i - n]
      /\ n \in Nat
  <2>1. /\ n \in Nat
        /\ Len(r) = n + Len(b)
        /\ \A i \in 1..n : r[i] = q[i]
        /\ \A i \in 1..Len(b) : r[n + i] = b[i]
        /\ \A i \in n + 1..n + Len(b) : r[i] = b[i - n]
    BY <1>1, ConcatFacts
  <2>2. \A i \in n + 1..n + Len(o) : i - n \in 1..Len(o)
    BY <1>2, <2>1
  <2> HIDE DEF b, r, n
  <2>3. \A i \in n + 1..Len(r) : r[i] = [op |-> "cancel", filter |-> o[i - n]]
    BY <1>1, <2>1, <2>2
  <2>4. \A i \in 1..Len(o) : r[n + i] = [op |-> "cancel", filter |-> o[i]]
    BY <1>1, <2>1
  <2>5. Len(r) = n + Len(o)
    BY <1>1, <2>1
  <2>6. ASSUME NEW i \in n + 1..Len(r)
        PROVE  r[i].op = "cancel" /\ r[i].filter = o[i - n]
    <3>1. r[i] = [op |-> "cancel", filter |-> o[i - n]]
      BY <2>3
    <3>2. QED
      BY <3>1
  <2>7. \A i \in n + 1..Len(r) : i - n \in 1..Len(o)
    BY <2>2, <2>5
  <2>8. QED
    BY <2>1, <2>4, <2>5, <2>6, <2>7
<1> HIDE DEF b, r, n
<1>4. 1..n \subseteq 1..Len(r) /\ \A j \in 1..Len(r) : j \in 1..n \/ j \in n + 1..Len(r)
  BY <1>2, <1>3
<1>5. \A i \in n + 1..Len(r) : r[i] # [op |-> "sub", filter |-> f]
  <2>1. SUFFICES ASSUME NEW i \in n + 1..Len(r) PROVE r[i].op = "cancel"
    OBVIOUS
  <2>2. QED
    BY <1>2, <1>3
<1>6. CASE f \in F
  <2>1. PICK k \in 1..Len(o) : o[k] = f
    BY <1>2, <1>6
  <2>2. n + k \in 1..Len(r) /\ r[n + k].filter = f
    <3>1. n + k \in n + 1..Len(r) /\ (n + k) - n = k /\ n + k \in 1..Len(r)
      BY <1>2, <1>3
    <3>2. QED
      BY <3>1, <2>1, <1>3
  <2>3. \A i \in 1..n : n + k \in i + 1..Len(r)
    BY <2>1, <1>2, <1>3
  <2>4. ~WillHold(r, T, f)
    BY <2>2, <2>3, <1>4, <1>5 DEF WillHold
  <2>5. QED
    BY <2>4, <1>6 DEF r, b
<1>7. CASE f \notin F
  <2>1. \A j \in n + 1..Len(r) : r[j].filter # f
    <3>1. SUFFICES ASSUME NEW j \in n + 1..Len(r) PROVE r[j].filter # f
      OBVIOUS
    <3>2. j - n \in 1..Len(o) /\ r[j].filter = o[j - n]
      BY <1>2, <1>3
    <3>3. QED
      BY <3>2, <1>2, <1>7
  <2>2. (\A i \in 1..Len(r) : r[i].filter # f) <=> (\A i \in 1..n : q[i].filter # f)
    BY <2>1, <1>4, <1>3
  <2>3. ASSUME NEW i \in 1..n
        PROVE  (\A j \in i + 1..Len(r) : r[j].filter # f) <=>
               (\A j \in i + 1..n : q[j].filter # f)
    <3>1. \A j \in i + 1..Len(r) : j \in i + 1..n \/ j \in n + 1..Len(r)
      BY <1>2, <1>3
    <3>2. \A j \in i + 1..n : j \in i + 1..Len(r) /\ j \in 1..n /\ r[j] = q[j]
      BY <1>2, <1>3
    <3>3. QED
      BY <3>1, <3>2, <2>1
  <2>4. (\E i \in 1..Len(r) : /\ r[i] = [op |-> "sub", filter |-> f]
                              /\ \A j \in i + 1..Len(r) : r[j].filter # f) <=>
        (\E i \in 1..n : /\ q[i] = [op |-> "sub", filter |-> f]
                         /\ \A j \in i + 1..n : q[j].filter # f)
    BY <2>3, <1>3, <1>4, <1>5
  <2>5. WillHold(r, T, f) <=> WillHold(q, T, f)
    BY <2>2, <2>4 DEF WillHold, n
  <2>6. QED
    BY <2>5, <1>7 DEF r, b
<1>8. QED
  BY <1>6, <1>7

(* Applying the first command to the table changes nothing in the end. *)
LEMMA ApplyHolds ==
    ASSUME NEW q \in Seq(Commands), q # <<>>, NEW T, NEW f \in Filters
    PROVE  WillHold(Tail(q), IF Head(q).op = "sub" THEN T \cup {Head(q).filter}
                                                   ELSE T \ {Head(q).filter}, f)
              <=> WillHold(q, T, f)
<1> DEFINE n == Len(q)
           r == Tail(q)
           U == IF q[1].op = "sub" THEN T \cup {q[1].filter} ELSE T \ {q[1].filter}
<1>1. /\ n \in Nat /\ n > 0
      /\ Len(r) = n - 1
      /\ \A i \in 1..n - 1 : r[i] = q[i + 1]
      /\ \A i \in 1..n : q[i] \in Commands
      /\ Head(q) = q[1]
  OBVIOUS
<1>2. \A i \in 2..n : i - 1 \in 1..n - 1 /\ r[i - 1] = q[i]
  BY <1>1
<1> HIDE DEF n, r
<1>3. q[1] = [op |-> "sub", filter |-> f] <=> q[1].op = "sub" /\ q[1].filter = f
  BY <1>1 DEF Commands
<1>4. f \in U <=> IF q[1].filter = f THEN q[1].op = "sub" ELSE f \in T
  OBVIOUS
<1> HIDE DEF U
<1>5. (\A i \in 1..Len(r) : r[i].filter # f) <=> (\A i \in 2..n : q[i].filter # f)
  <2>1. ASSUME \A i \in 1..Len(r) : r[i].filter # f, NEW i \in 2..n PROVE q[i].filter # f
    BY <2>1, <1>1, <1>2
  <2>2. ASSUME \A i \in 2..n : q[i].filter # f, NEW i \in 1..Len(r) PROVE r[i].filter # f
    <3>1. i + 1 \in 2..n /\ r[i] = q[i + 1]
      BY <1>1
    <3>2. QED
      BY <3>1, <2>2
  <2>3. QED
    BY <2>1, <2>2
<1>6. (\E i \in 1..Len(r) : /\ r[i] = [op |-> "sub", filter |-> f]
                            /\ \A j \in i + 1..Len(r) : r[j].filter # f) <=>
      (\E i \in 2..n : /\ q[i] = [op |-> "sub", filter |-> f]
                       /\ \A j \in i + 1..n : q[j].filter # f)
  <2>1. ASSUME NEW i \in 1..Len(r), r[i] = [op |-> "sub", filter |-> f],
               \A j \in i + 1..Len(r) : r[j].filter # f
        PROVE  \E k \in 2..n : /\ q[k] = [op |-> "sub", filter |-> f]
                               /\ \A j \in k + 1..n : q[j].filter # f
    <3>1. i + 1 \in 2..n /\ q[i + 1] = r[i]
      BY <1>1
    <3>2. ASSUME NEW j \in i + 1 + 1..n PROVE q[j].filter # f
      <4>1. j - 1 \in i + 1..Len(r) /\ r[j - 1] = q[j]
        BY <1>1, <1>2
      <4>2. QED
        BY <4>1, <2>1
    <3>3. QED
      BY <3>1, <3>2, <2>1
  <2>2. ASSUME NEW i \in 2..n, q[i] = [op |-> "sub", filter |-> f],
               \A j \in i + 1..n : q[j].filter # f
        PROVE  \E k \in 1..Len(r) : /\ r[k] = [op |-> "sub", filter |-> f]
                                    /\ \A j \in k + 1..Len(r) : r[j].filter # f
    <3>1. i - 1 \in 1..Len(r) /\ r[i - 1] = q[i]
      BY <1>1, <1>2
    <3>2. ASSUME NEW j \in i - 1 + 1..Len(r) PROVE r[j].filter # f
      <4>1. j + 1 \in i + 1..n /\ r[j] = q[j + 1]
        BY <1>1
      <4>2. QED
        BY <4>1, <2>2
    <3>3. QED
      BY <3>1, <3>2, <2>2
  <2>3. QED
    BY <2>1, <2>2
<1>7. (\A i \in 1..n : q[i].filter # f) <=>
      q[1].filter # f /\ \A i \in 2..n : q[i].filter # f
  BY <1>1
<1>8. (\E i \in 1..n : /\ q[i] = [op |-> "sub", filter |-> f]
                       /\ \A j \in i + 1..n : q[j].filter # f) <=>
      \/ /\ q[1] = [op |-> "sub", filter |-> f]
         /\ \A j \in 2..n : q[j].filter # f
      \/ \E i \in 2..n : /\ q[i] = [op |-> "sub", filter |-> f]
                         /\ \A j \in i + 1..n : q[j].filter # f
  BY <1>1
<1>9. WillHold(r, U, f) <=> WillHold(q, T, f)
  BY <1>3, <1>4, <1>5, <1>6, <1>7, <1>8 DEF WillHold, n
<1>10. QED
  BY <1>1, <1>9 DEF r, U

-----------------------------------------------------------------------------
(* Types. *)

(* Orders of a set of filters give batches of commands. *)
LEMMA OrderBatch ==
    ASSUME NEW F, F \subseteq Filters, NEW o \in Orders(F), NEW op \in {"sub", "cancel"}
    PROVE  Batch(op, o) \in Seq(Commands)
BY OrderFacts, BatchFacts

(* One command is a batch too. *)
LEMMA OneBatch ==
    ASSUME NEW f \in Filters
    PROVE  /\ <<f>> \in Orders({f})
           /\ Batch("sub", <<f>>) = <<[op |-> "sub", filter |-> f]>>
<1>1. Cardinality({f}) = 1
  BY FS_Singleton
<1>2. <<f>> \in [1..1 -> {f}]
  OBVIOUS
<1>3. <<f>> \in Orders({f})
  BY <1>1, <1>2 DEF Orders, Bijection, Injection, Surjection, IsInjective
<1>4. Batch("sub", <<f>>) = <<[op |-> "sub", filter |-> f]>>
  BY DEF Batch
<1>5. QED
  BY <1>3, <1>4

LEMMA SubInitType == SubInit => SubTypeOK
BY BoundsAssumption DEF SubInit, SubTypeOK

LEMMA SendType ==
    ASSUME cmds \in [Links -> Seq(Commands)], NEW s \in Subs,
           NEW batch \in Seq(Commands), SendToAll(s, batch)
    PROVE  cmds' \in [Links -> Seq(Commands)]
BY ConcatFacts DEF SendToAll

LEMMA SubTypeStep == SubTypeOK /\ [SubNext]_subVars => SubTypeOK'
<1> SUFFICES ASSUME SubTypeOK, [SubNext]_subVars PROVE SubTypeOK'
  OBVIOUS
<1> USE DEF SubTypeOK
<1>0. Call => calls' \in 0..MaxCalls
  BY BoundsAssumption DEF Call
<1>1. ASSUME NEW s \in Subs, NEW f \in Filters, AddFilter(s, f) PROVE SubTypeOK'
  <2>1. <<[op |-> "sub", filter |-> f]>> \in Seq(Commands)
    BY DEF Commands
  <2>2. cmds' \in [Links -> Seq(Commands)]
    BY <1>1, <2>1, SendType DEF AddFilter
  <2>3. QED
    BY <1>0, <1>1, <2>2 DEF AddFilter
<1>2. ASSUME NEW s \in Subs, NEW F, F \subseteq Filters,
             \E o \in Orders(Cancelled(s, F)) : SendToAll(s, Batch("cancel", o))
      PROVE  cmds' \in [Links -> Seq(Commands)]
  <2>1. PICK o \in Orders(Cancelled(s, F)) : SendToAll(s, Batch("cancel", o))
    BY <1>2
  <2>2. Cancelled(s, F) \subseteq Filters
    BY <1>2 DEF Cancelled
  <2>3. Batch("cancel", o) \in Seq(Commands)
    BY <2>2, OrderBatch
  <2>4. QED
    BY <2>1, <2>3, SendType
<1>3. ASSUME NEW s \in Subs, NEW F, Release(s, F)
      PROVE  refs' \in [Subs -> [Filters -> Nat]]
  BY <1>3 DEF Release
<1>4. ASSUME NEW s \in Subs, NEW f \in Filters, RemoveFilter(s, f) PROVE SubTypeOK'
  <2>1. cmds' \in [Links -> Seq(Commands)]
    <3>1. {f} \subseteq Filters
      OBVIOUS
    <3>2. \E o \in Orders(Cancelled(s, {f})) : SendToAll(s, Batch("cancel", o))
      BY <1>4 DEF RemoveFilter
    <3>3. QED
      BY <3>1, <3>2, <1>2
  <2>2. refs' \in [Subs -> [Filters -> Nat]]
    BY <1>4, <1>3 DEF RemoveFilter
  <2>3. QED
    BY <1>0, <1>4, <2>1, <2>2 DEF RemoveFilter
<1>5. ASSUME NEW s \in Subs, RemoveAllFilters(s) PROVE SubTypeOK'
  <2>1. cmds' \in [Links -> Seq(Commands)]
    BY <1>5, <1>2 DEF RemoveAllFilters
  <2>2. refs' \in [Subs -> [Filters -> Nat]]
    BY <1>5, <1>3 DEF RemoveAllFilters
  <2>3. QED
    BY <1>0, <1>5, <2>1, <2>2 DEF RemoveAllFilters
<1>6. ASSUME NEW s \in Subs, NEW p \in Pubs, Connect(s, p) PROVE SubTypeOK'
  <2> DEFINE added == IF filters[s] = {} THEN {All} ELSE {}
  <2>1. added \subseteq Filters /\ Live(s) \cup added \subseteq Filters
    BY FiltersAssumption DEF Live
  <2>2. /\ Call
        /\ filters' = [filters EXCEPT ![s] = @ \cup added]
        /\ refs' = [refs EXCEPT ![s] =
                       [f \in Filters |-> IF f \in added THEN @[f] + 1 ELSE @[f]]]
        /\ link' = [link EXCEPT ![<<s, p>>] = IF @ = "none" THEN "down" ELSE @]
        /\ UNCHANGED <<hiccuped, trie, drops>>
    BY <1>6 DEF Connect
  <2>3. PICK order \in Orders(Live(s) \cup added), rest \in Orders(added) :
          cmds' = [l \in Links |->
                      CASE l = <<s, p>> /\ link[l] = "none" -> Batch("sub", order)
                        [] l[1] = s /\ Writable(l) -> cmds[l] \o Batch("sub", rest)
                        [] OTHER -> cmds[l]]
    BY <1>6 DEF Connect
  <2>4. Batch("sub", order) \in Seq(Commands) /\ Batch("sub", rest) \in Seq(Commands)
    BY <2>1, OrderBatch
  <2> HIDE DEF added
  <2>5. cmds' \in [Links -> Seq(Commands)]
    BY <2>3, <2>4, ConcatFacts
  <2>6. refs' \in [Subs -> [Filters -> Nat]]
    BY <2>2
  <2>7. filters' \in [Subs -> SUBSET Filters]
    BY <2>1, <2>2
  <2>8. QED
    BY <1>0, <2>2, <2>5, <2>6, <2>7
<1>7. ASSUME NEW s \in Subs, NEW p \in Pubs, Disconnect(s, p) PROVE SubTypeOK'
  <2>1. <<s, p>> \in Links /\ <<>> \in Seq(Commands)
    BY DEF Links
  <2>2. QED
    BY <1>0, <1>7, <2>1 DEF Disconnect
<1>8. ASSUME NEW l \in Links, Establish(l) PROVE SubTypeOK'
  BY <1>8 DEF Establish
<1>9. ASSUME NEW l \in Links, LinkDown(l) PROVE SubTypeOK'
  BY <1>9, BoundsAssumption DEF LinkDown
<1>10. ASSUME NEW l \in Links, ProcessHiccup(l) PROVE SubTypeOK'
  <2>1. PICK o \in Orders(Live(l[1])) : cmds' = [cmds EXCEPT ![l] = Batch("sub", o)]
    BY <1>10 DEF ProcessHiccup
  <2>2. Batch("sub", o) \in Seq(Commands)
    BY OrderBatch DEF Live
  <2>3. cmds' \in [Links -> Seq(Commands)]
    BY <2>1, <2>2
  <2>4. QED
    BY <1>10, <2>3 DEF ProcessHiccup
<1>11. ASSUME NEW l \in Links, ProcessCommand(l) PROVE SubTypeOK'
  <2>1. cmds[l] \in Seq(Commands) /\ cmds[l] # <<>>
    BY <1>11 DEF ProcessCommand
  <2>2. Head(cmds[l]) \in Commands /\ Tail(cmds[l]) \in Seq(Commands)
    BY <2>1
  <2>3. Head(cmds[l]).filter \in Filters
    BY <2>2 DEF Commands
  <2>4. QED
    BY <1>11, <2>2, <2>3 DEF ProcessCommand
<1>12. CASE UNCHANGED subVars
  BY <1>12 DEF subVars
<1>13. QED
  BY <1>1, <1>4, <1>5, <1>6, <1>7, <1>8, <1>9, <1>10, <1>11, <1>12 DEF SubNext

(* The variables of the subscription plane keep their types. *)
THEOREM SubTypeCorrect == SubSpec => []SubTypeOK
<1>1. QED
  BY SubInitType, SubTypeStep, PTL DEF SubSpec

-----------------------------------------------------------------------------
(* The filters of a subscriber are installed. *)

LEMMA InstalledStep == SubTypeOK /\ FiltersInstalled /\ [SubNext]_subVars => FiltersInstalled'
<1> SUFFICES ASSUME SubTypeOK, FiltersInstalled, [SubNext]_subVars
             PROVE  FiltersInstalled'
  OBVIOUS
<1>0. SubTypeOK'
  BY SubTypeStep
<1> SUFFICES ASSUME NEW t \in Subs, NEW g \in Filters, g \in filters'[t]
             PROVE  refs'[t][g] > 0
  BY <1>0 DEF FiltersInstalled, Live, SubTypeOK
<1> USE DEF SubTypeOK
<1>1. \A h \in Filters : h \in filters[t] => refs[t][h] > 0
  BY DEF FiltersInstalled, Live
<1>2. ASSUME NEW s \in Subs, NEW f \in Filters, AddFilter(s, f) PROVE refs'[t][g] > 0
  BY <1>1, <1>2 DEF AddFilter
<1>3. ASSUME NEW s \in Subs, NEW f \in Filters, RemoveFilter(s, f) PROVE refs'[t][g] > 0
  BY <1>1, <1>3 DEF RemoveFilter, Release
<1>4. ASSUME NEW s \in Subs, RemoveAllFilters(s) PROVE refs'[t][g] > 0
  BY <1>1, <1>4 DEF RemoveAllFilters, Release
<1>5. ASSUME NEW s \in Subs, NEW p \in Pubs, Connect(s, p) PROVE refs'[t][g] > 0
  BY <1>1, <1>5 DEF Connect
<1>6. ASSUME UNCHANGED <<filters, refs>> PROVE refs'[t][g] > 0
  BY <1>1, <1>6
<1>7. QED
  BY <1>2, <1>3, <1>4, <1>5, <1>6
     DEF SubNext, subVars, Disconnect, Establish, LinkDown, ProcessHiccup, ProcessCommand

(* Removing a filter, or all filters, never takes away the subscription of *)
(* a filter that the Subscriber still lists.                               *)
THEOREM FiltersStayInstalled == SubSpec => []FiltersInstalled
<1>1. SubInit => FiltersInstalled
  BY DEF SubInit, FiltersInstalled
<1>2. QED
  BY <1>1, SubInitType, SubTypeStep, InstalledStep, PTL DEF SubSpec

-----------------------------------------------------------------------------
(* Tables and commands of a lost connection are gone. *)

LEMMA NoStaleStep == SubTypeOK /\ NoStaleTable /\ [SubNext]_subVars => NoStaleTable'
<1> SUFFICES ASSUME SubTypeOK, NoStaleTable, [SubNext]_subVars, NEW k \in Links
             PROVE  /\ link'[k] # "up" \/ k \in hiccuped' => trie'[k] = {}
                    /\ k \in hiccuped' => cmds'[k] = <<>> /\ link'[k] # "none"
  BY DEF NoStaleTable
<1> USE DEF SubTypeOK
<1>0. /\ link[k] # "up" \/ k \in hiccuped => trie[k] = {}
      /\ k \in hiccuped => cmds[k] = <<>> /\ link[k] # "none"
  BY DEF NoStaleTable
<1> DEFINE Goal == /\ link'[k] # "up" \/ k \in hiccuped' => trie'[k] = {}
                   /\ k \in hiccuped' => cmds'[k] = <<>> /\ link'[k] # "none"
<1>1. ASSUME NEW s \in Subs, NEW b, SendToAll(s, b), UNCHANGED <<link, hiccuped, trie>>
      PROVE  Goal
  BY <1>0, <1>1 DEF SendToAll, Writable
<1>2. ASSUME NEW s \in Subs, NEW p \in Pubs, Connect(s, p) PROVE Goal
  BY <1>0, <1>2 DEF Connect, Writable
<1>3. ASSUME NEW s \in Subs, NEW p \in Pubs, Disconnect(s, p) PROVE Goal
  BY <1>0, <1>3 DEF Disconnect
<1>4. ASSUME NEW l \in Links, Establish(l) PROVE Goal
  BY <1>0, <1>4 DEF Establish
<1>5. ASSUME NEW l \in Links, LinkDown(l) PROVE Goal
  BY <1>0, <1>5 DEF LinkDown
<1>6. ASSUME NEW l \in Links, ProcessHiccup(l) PROVE Goal
  BY <1>0, <1>6 DEF ProcessHiccup
<1>7. ASSUME NEW l \in Links, ProcessCommand(l) PROVE Goal
  BY <1>0, <1>7 DEF ProcessCommand
<1>8. CASE UNCHANGED subVars
  BY <1>0, <1>8 DEF subVars
<1>9. QED
  BY <1>1, <1>2, <1>3, <1>4, <1>5, <1>6, <1>7, <1>8
     DEF SubNext, AddFilter, RemoveFilter, RemoveAllFilters

-----------------------------------------------------------------------------
(* The publisher's table, the commands and the subscriptions agree. *)

LEMMA AgreementStep ==
    SubTypeOK /\ FiltersInstalled /\ NoStaleTable /\ Agreement /\ [SubNext]_subVars
       => Agreement'
<1> SUFFICES ASSUME SubTypeOK, FiltersInstalled, NoStaleTable, Agreement, [SubNext]_subVars,
                    NEW k \in Links, Writable(k)', NEW g \in Filters
             PROVE  WillHold(cmds'[k], trie'[k], g) <=> refs'[k[1]][g] > 0
  BY DEF Agreement, Live
<1> USE DEF SubTypeOK
<1> DEFINE Goal == WillHold(cmds'[k], trie'[k], g) <=> refs'[k[1]][g] > 0
<1>0. /\ Writable(k) => (WillHold(cmds[k], trie[k], g) <=> refs[k[1]][g] > 0)
      /\ link[k] # "up" \/ k \in hiccuped => trie[k] = {}
      /\ k \in hiccuped => cmds[k] = <<>> /\ link[k] # "none"
      /\ k[1] \in Subs /\ k[2] \in Pubs /\ k = <<k[1], k[2]>>
      /\ cmds[k] \in Seq(Commands)
      /\ refs[k[1]] \in [Filters -> Nat]
  BY DEF Agreement, Live, NoStaleTable, Links
(* A fresh pipe starts with a subscription for every live filter. *)
<1>1. ASSUME NEW F, F \subseteq Filters, NEW o \in Orders(F)
      PROVE  WillHold(Batch("sub", o), {}, g) <=> g \in F
  <2>1. <<>> \in Seq(Commands) /\ <<>> \o Batch("sub", o) = Batch("sub", o)
    BY <1>1, OrderBatch
  <2>2. WillHold(<<>> \o Batch("sub", o), {}, g) <=> g \in F \/ WillHold(<<>>, {}, g)
    BY <1>1, <2>1, SubBatchHolds
  <2>3. ~WillHold(<<>>, {}, g)
    BY DEF WillHold
  <2>4. QED
    BY <2>1, <2>2, <2>3
<1>2. ASSUME NEW s \in Subs, NEW f \in Filters, AddFilter(s, f) PROVE Goal
  <2> DEFINE b == <<[op |-> "sub", filter |-> f]>>
  <2>1. /\ cmds'[k] = IF k[1] = s /\ Writable(k) THEN cmds[k] \o b ELSE cmds[k]
        /\ trie' = trie /\ Writable(k)
        /\ refs'[k[1]][g] = IF k[1] = s /\ g = f THEN refs[k[1]][g] + 1 ELSE refs[k[1]][g]
    BY <1>0, <1>2 DEF AddFilter, SendToAll, Writable
  <2>2. WillHold(cmds[k] \o b, trie[k], g) <=> g = f \/ WillHold(cmds[k], trie[k], g)
    <3>1. {f} \subseteq Filters /\ <<f>> \in Orders({f}) /\ Batch("sub", <<f>>) = b
      BY OneBatch
    <3>2. WillHold(cmds[k] \o Batch("sub", <<f>>), trie[k], g)
             <=> g \in {f} \/ WillHold(cmds[k], trie[k], g)
      BY <1>0, <3>1, SubBatchHolds
    <3>3. QED
      BY <3>1, <3>2
  <2> HIDE DEF b
  <2>3. refs[k[1]][g] \in Nat
    BY <1>0
  <2>4. CASE k[1] = s
    BY <1>0, <2>1, <2>2, <2>3, <2>4
  <2>5. CASE k[1] # s
    BY <1>0, <2>1, <2>3, <2>5
  <2>6. QED
    BY <2>4, <2>5
(* Both ways to remove filters release a set F and cancel what reaches 0.  *)
<1>3. ASSUME NEW s \in Subs, NEW F, F \subseteq Filters, Release(s, F),
             \E o \in Orders(Cancelled(s, F)) : SendToAll(s, Batch("cancel", o)),
             UNCHANGED <<link, hiccuped, trie>>
      PROVE  Goal
  <2>1. PICK o \in Orders(Cancelled(s, F)) : SendToAll(s, Batch("cancel", o))
    BY <1>3
  <2>2. /\ cmds'[k] = IF k[1] = s /\ Writable(k) THEN cmds[k] \o Batch("cancel", o)
                                                ELSE cmds[k]
        /\ Writable(k) /\ trie' = trie
    BY <1>3, <2>1 DEF SendToAll, Writable
  <2>3. Cancelled(s, F) \subseteq Filters
    BY <1>3 DEF Cancelled
  <2>4. WillHold(cmds[k] \o Batch("cancel", o), trie[k], g)
           <=> g \notin Cancelled(s, F) /\ WillHold(cmds[k], trie[k], g)
    BY <1>0, <2>1, <2>3, CancelBatchHolds
  <2>5. refs'[k[1]][g] = IF k[1] = s /\ g \in F /\ refs[s][g] > 0
                         THEN refs[k[1]][g] - 1 ELSE refs[k[1]][g]
    BY <1>0, <1>3 DEF Release
  <2>6. k[1] = s => (g \in Cancelled(s, F) <=> g \in F /\ refs[k[1]][g] = 1)
    BY DEF Cancelled
  <2>7. refs[k[1]][g] \in Nat
    BY <1>0
  <2>8. CASE k[1] = s
    <3>1. WillHold(cmds'[k], trie'[k], g) <=> g \notin Cancelled(s, F) /\ refs[k[1]][g] > 0
      BY <1>0, <2>2, <2>4, <2>8
    <3>2. QED
      BY <3>1, <2>5, <2>6, <2>7, <2>8
  <2>9. CASE k[1] # s
    BY <1>0, <2>2, <2>5, <2>9
  <2>10. QED
    BY <2>8, <2>9
<1>4. ASSUME NEW s \in Subs, NEW f \in Filters, RemoveFilter(s, f) PROVE Goal
  <2>1. /\ {f} \subseteq Filters /\ Release(s, {f})
        /\ \E o \in Orders(Cancelled(s, {f})) : SendToAll(s, Batch("cancel", o))
        /\ UNCHANGED <<link, hiccuped, trie>>
    BY <1>4 DEF RemoveFilter
  <2>2. QED
    BY <1>3, <2>1
<1>5. ASSUME NEW s \in Subs, RemoveAllFilters(s) PROVE Goal
  <2>1. /\ filters[s] \subseteq Filters /\ Release(s, filters[s])
        /\ \E o \in Orders(Cancelled(s, filters[s])) : SendToAll(s, Batch("cancel", o))
        /\ UNCHANGED <<link, hiccuped, trie>>
    BY <1>5 DEF RemoveAllFilters
  <2>2. QED
    BY <1>3, <2>1
<1>6. ASSUME NEW s \in Subs, NEW p \in Pubs, Connect(s, p) PROVE Goal
  <2> DEFINE added == IF filters[s] = {} THEN {All} ELSE {}
  <2>1. added \subseteq Filters /\ Live(s) \cup added \subseteq Filters
    BY FiltersAssumption DEF Live
  <2>2. /\ refs' = [refs EXCEPT ![s] =
                       [f \in Filters |-> IF f \in added THEN @[f] + 1 ELSE @[f]]]
        /\ link' = [link EXCEPT ![<<s, p>>] = IF @ = "none" THEN "down" ELSE @]
        /\ UNCHANGED <<hiccuped, trie>>
    BY <1>6 DEF Connect
  <2>3. PICK order \in Orders(Live(s) \cup added), rest \in Orders(added) :
          cmds' = [l \in Links |->
                      CASE l = <<s, p>> /\ link[l] = "none" -> Batch("sub", order)
                        [] l[1] = s /\ Writable(l) -> cmds[l] \o Batch("sub", rest)
                        [] OTHER -> cmds[l]]
    BY <1>6 DEF Connect
  <2> HIDE DEF added
  <2>4. refs'[k[1]][g] = IF k[1] = s /\ g \in added THEN refs[k[1]][g] + 1
                                                  ELSE refs[k[1]][g]
    BY <1>0, <2>2
  <2>5. refs[k[1]][g] \in Nat
    BY <1>0
  <2>6. CASE k = <<s, p>> /\ link[k] = "none"
    <3>1. cmds'[k] = Batch("sub", order) /\ trie'[k] = {} /\ k[1] = s
      <4>1. ~Writable(k)
        BY <2>6 DEF Writable
      <4>2. QED
        BY <1>0, <2>2, <2>3, <2>6, <4>1
    <3>2. WillHold(cmds'[k], trie'[k], g) <=> g \in Live(s) \cup added
      BY <1>1, <2>1, <3>1
    <3>3. g \in Live(s) <=> refs[k[1]][g] > 0
      BY <3>1 DEF Live
    <3>4. QED
      BY <3>1, <3>2, <3>3, <2>4, <2>5
  <2>7. CASE ~(k = <<s, p>> /\ link[k] = "none")
    <3>1. Writable(k) /\ trie' = trie
      BY <1>0, <2>2, <2>7 DEF Writable
    <3>2. WillHold(cmds[k] \o Batch("sub", rest), trie[k], g)
             <=> g \in added \/ WillHold(cmds[k], trie[k], g)
      BY <1>0, <2>1, <2>3, SubBatchHolds
    <3>3. CASE k[1] = s
      <4>1. cmds'[k] = cmds[k] \o Batch("sub", rest)
        BY <2>3, <2>7, <3>1, <3>3
      <4>2. WillHold(cmds'[k], trie'[k], g) <=> g \in added \/ refs[k[1]][g] > 0
        BY <1>0, <3>1, <3>2, <4>1
      <4>3. QED
        BY <4>2, <2>4, <2>5, <3>3
    <3>4. CASE k[1] # s
      <4>1. cmds'[k] = cmds[k]
        BY <2>3, <2>7, <3>4
      <4>2. QED
        BY <1>0, <2>4, <3>1, <3>4, <4>1
    <3>5. QED
      BY <3>3, <3>4
  <2>8. QED
    BY <2>6, <2>7
<1>7. ASSUME NEW s \in Subs, NEW p \in Pubs, Disconnect(s, p) PROVE Goal
  BY <1>0, <1>7 DEF Disconnect, Writable
<1>8. ASSUME NEW l \in Links, Establish(l) PROVE Goal
  BY <1>0, <1>8 DEF Establish, Writable
<1>9. ASSUME NEW l \in Links, LinkDown(l) PROVE Goal
  BY <1>0, <1>9 DEF LinkDown, Writable
<1>10. ASSUME NEW l \in Links, ProcessHiccup(l) PROVE Goal
  <2>1. PICK o \in Orders(Live(l[1])) : cmds' = [cmds EXCEPT ![l] = Batch("sub", o)]
    BY <1>10 DEF ProcessHiccup
  <2>2. CASE k = l
    <3>1. cmds'[k] = Batch("sub", o) /\ trie'[k] = {} /\ refs' = refs
      BY <1>0, <1>10, <2>1, <2>2 DEF ProcessHiccup
    <3>2. WillHold(cmds'[k], trie'[k], g) <=> g \in Live(k[1])
      BY <1>1, <2>2, <3>1 DEF Live
    <3>3. QED
      BY <3>1, <3>2 DEF Live
  <2>3. CASE k # l
    BY <1>0, <1>10, <2>1, <2>3 DEF ProcessHiccup, Writable
  <2>4. QED
    BY <2>2, <2>3
<1>11. ASSUME NEW l \in Links, ProcessCommand(l) PROVE Goal
  <2>1. CASE k = l
    <3> DEFINE T == IF Head(cmds[k]).op = "sub" THEN trie[k] \cup {Head(cmds[k]).filter}
                                                ELSE trie[k] \ {Head(cmds[k]).filter}
    <3>1. /\ cmds[k] # <<>> /\ cmds'[k] = Tail(cmds[k]) /\ Writable(k) /\ refs' = refs
          /\ trie'[k] = T
      BY <1>0, <1>11, <2>1 DEF ProcessCommand, Writable
    <3>2. WillHold(Tail(cmds[k]), T, g) <=> WillHold(cmds[k], trie[k], g)
      BY <1>0, <3>1, ApplyHolds
    <3> HIDE DEF T
    <3>3. QED
      BY <1>0, <3>1, <3>2
  <2>2. CASE k # l
    BY <1>0, <1>11, <2>2 DEF ProcessCommand, Writable
  <2>3. QED
    BY <2>1, <2>2
<1>12. CASE UNCHANGED subVars
  BY <1>0, <1>12 DEF subVars, Writable
<1>13. QED
  BY <1>2, <1>4, <1>5, <1>6, <1>7, <1>8, <1>9, <1>10, <1>11, <1>12 DEF SubNext

(* Whatever is added, removed, connected, lost and resent, the publisher's *)
(* table and the commands under way agree with what the subscriber is      *)
(* subscribed to.                                                          *)
THEOREM SubscriptionsAgree == SubSpec => []Agreement
<1>1. SubInit => FiltersInstalled /\ NoStaleTable /\ Agreement
  BY DEF SubInit, FiltersInstalled, NoStaleTable, Agreement, Writable, Live
<1>2. QED
  BY <1>1, SubInitType, SubTypeStep, InstalledStep, NoStaleStep, AgreementStep, PTL
     DEF SubSpec

-----------------------------------------------------------------------------
(* One queue at a time: q is the queue, m whether its pipe is matching, S  *)
(* the messages of its publisher, o whether the last of them is open and g *)
(* the last message delivered.                                             *)

Msgs == [topic : Topics, parts : Nat \ {0}]

QueueOK(q, m, S, o, g) ==
    /\ \A i, j \in 1..Len(q) : i <= j /\ (\A k \in i..j - 1 : q[k].more) =>
          q[j].msg = q[i].msg /\ q[j].part = q[i].part + (j - i)
    /\ \A i \in 1..Len(q) : (i > 1 => ~q[i - 1].more) => q[i].part = 1
    /\ \A i \in 1..Len(q) : g < q[i].msg /\ q[i].msg <= Len(S)
    /\ \A i, j \in 1..Len(q) : i < j => /\ q[i].msg <= q[j].msg
                                        /\ ~q[i].more => q[i].msg < q[j].msg
    /\ \A i \in 1..Len(q) : ~q[i].more => q[i].part = S[q[i].msg].parts
    /\ \A i \in 1..Len(q) : o /\ ~q[i].more => q[i].msg < Len(S)
    /\ Len(q) > 0 /\ q[Len(q)].more <=> m
    /\ m => /\ o
            /\ q[Len(q)].msg = Len(S)
            /\ q[Len(q)].part = S[Len(S)].parts

LEMMA EmptyQueue ==
    ASSUME NEW S, NEW o, NEW g
    PROVE  QueueOK(<<>>, FALSE, S, o, g)
BY DEF QueueOK

(* Facts about a queue with a frame more. *)
LEMMA AppendFacts ==
    ASSUME NEW q \in Seq(Frames), NEW x \in Frames
    PROVE  /\ Append(q, x) \in Seq(Frames)
           /\ Len(Append(q, x)) = Len(q) + 1
           /\ \A i \in 1..Len(q) : Append(q, x)[i] = q[i]
           /\ Append(q, x)[Len(q) + 1] = x
           /\ Len(q) \in Nat
           /\ \A i \in 1..Len(q) : q[i] \in Frames
OBVIOUS

(* A queue with a new frame x at its end, when the last frame so far ended *)
(* its message or x continues it.                                          *)
LEMMA AppendRuns ==
    ASSUME NEW q \in Seq(Frames), NEW x \in Frames,
           \A i, j \in 1..Len(q) : i <= j /\ (\A k \in i..j - 1 : q[k].more) =>
              q[j].msg = q[i].msg /\ q[j].part = q[i].part + (j - i),
           Len(q) > 0 /\ q[Len(q)].more =>
              x.msg = q[Len(q)].msg /\ x.part = q[Len(q)].part + 1
    PROVE  LET r == Append(q, x) IN
           \A i, j \in 1..Len(r) : i <= j /\ (\A k \in i..j - 1 : r[k].more) =>
              r[j].msg = r[i].msg /\ r[j].part = r[i].part + (j - i)
<1> DEFINE r == Append(q, x)
<1> SUFFICES ASSUME NEW i \in 1..Len(r), NEW j \in 1..Len(r),
                    i <= j, \A k \in i..j - 1 : r[k].more
             PROVE  r[j].msg = r[i].msg /\ r[j].part = r[i].part + (j - i)
  OBVIOUS
<1>1. /\ Len(r) = Len(q) + 1 /\ Len(q) \in Nat
      /\ \A k \in 1..Len(q) : r[k] = q[k] /\ q[k] \in Frames
      /\ r[Len(q) + 1] = x
  BY AppendFacts
<1> HIDE DEF r
<1>2. CASE j \in 1..Len(q)
  <2>1. i \in 1..Len(q) /\ \A k \in i..j - 1 : q[k].more
    BY <1>1, <1>2
  <2>2. QED
    BY <1>1, <1>2, <2>1
<1>3. CASE j = Len(q) + 1 /\ i = j
  BY <1>1, <1>3 DEF Frames
<1>4. CASE j = Len(q) + 1 /\ i < j
  <2> DEFINE n == Len(q)
  <2>1. i \in 1..n /\ n \in 1..n /\ i <= n
    BY <1>1, <1>4
  <2>2. n \in i..j - 1 /\ q[n].more
    BY <1>1, <1>4, <2>1
  <2>3. \A k \in i..n - 1 : q[k].more
    BY <1>1, <1>4, <2>1
  <2>4. q[n].msg = q[i].msg /\ q[n].part = q[i].part + (n - i)
    BY <2>1, <2>3
  <2>5. x.msg = q[n].msg /\ x.part = q[n].part + 1
    BY <2>1, <2>2
  <2>6. q[i].part \in Nat /\ q[n].part \in Nat
    BY <1>1, <2>1 DEF Frames
  <2> HIDE DEF n
  <2>7. r[i] = q[i] /\ r[j] = x /\ j = n + 1 /\ n \in Nat
    BY <1>1, <1>4, <2>1 DEF n
  <2>8. QED
    BY <2>1, <2>4, <2>5, <2>6, <2>7
<1>5. QED
  BY <1>1, <1>2, <1>3, <1>4

(* The messages of a queue have been sent and not yet been delivered. *)
LEMMA MsgBounds ==
    ASSUME NEW q \in Seq(Frames), NEW m, NEW S \in Seq(Msgs), NEW o, NEW g \in Nat,
           QueueOK(q, m, S, o, g)
    PROVE  \A i \in 1..Len(q) : /\ q[i].msg \in 1..Len(S)
                                /\ g < q[i].msg
                                /\ q[i].part \in Nat
                                /\ o /\ ~q[i].more => q[i].msg \in 1..Len(S) - 1
<1>1. \A i \in 1..Len(q) : q[i].msg \in Nat /\ q[i].part \in Nat
  <2>1. \A i \in 1..Len(q) : q[i] \in Frames
    OBVIOUS
  <2>2. \A x \in Frames : x.msg \in Nat /\ x.part \in Nat
    BY DEF Frames
  <2>3. QED
    BY <2>1, <2>2
<1>2. \A i \in 1..Len(q) : /\ g < q[i].msg /\ q[i].msg <= Len(S)
                           /\ o /\ ~q[i].more => q[i].msg < Len(S)
  BY DEF QueueOK
<1>3. Len(S) \in Nat
  OBVIOUS
<1>4. QED
  BY <1>1, <1>2, <1>3

(* A new message that is not written to the queue. *)
LEMMA SkipFirst ==
    ASSUME NEW q \in Seq(Frames), NEW S \in Seq(Msgs), NEW g \in Nat, NEW t \in Topics,
           NEW o \in BOOLEAN, QueueOK(q, FALSE, S, FALSE, g)
    PROVE  QueueOK(q, FALSE, Append(S, [topic |-> t, parts |-> 1]), o, g)
<1> DEFINE R == Append(S, [topic |-> t, parts |-> 1])
<1>1. Len(R) = Len(S) + 1 /\ Len(S) \in Nat /\ \A n \in 1..Len(S) : R[n] = S[n]
  OBVIOUS
<1> HIDE DEF R
<1>2. \A i \in 1..Len(q) : q[i].msg \in 1..Len(S)
  BY MsgBounds
<1>3. QueueOK(q, FALSE, R, o, g)
  BY <1>1, <1>2 DEF QueueOK
<1>4. QED
  BY <1>3 DEF R

(* A new message whose first frame is written to the queue. *)
LEMMA WriteFirst ==
    ASSUME NEW q \in Seq(Frames), NEW S \in Seq(Msgs), NEW g \in Nat, NEW t \in Topics,
           NEW o \in BOOLEAN, QueueOK(q, FALSE, S, FALSE, g), g <= Len(S)
    PROVE  QueueOK(Append(q, [msg |-> Len(S) + 1, part |-> 1, more |-> o]), o,
                   Append(S, [topic |-> t, parts |-> 1]), o, g)
<1> DEFINE R == Append(S, [topic |-> t, parts |-> 1])
           x == [msg |-> Len(S) + 1, part |-> 1, more |-> o]
           r == Append(q, x)
           n == Len(q)
<1>1. /\ Len(R) = Len(S) + 1 /\ Len(S) \in Nat /\ \A k \in 1..Len(S) : R[k] = S[k]
      /\ R[Len(S) + 1].parts = 1
  OBVIOUS
<1>2. x \in Frames /\ x.msg = Len(S) + 1 /\ x.part = 1 /\ x.more = o
  BY DEF Frames
<1>3. /\ Len(r) = n + 1 /\ n \in Nat
      /\ \A i \in 1..n : r[i] = q[i] /\ q[i] \in Frames
      /\ r[n + 1] = x
  BY <1>2, AppendFacts
<1>4. \A i, j \in 1..Len(r) : i <= j /\ (\A k \in i..j - 1 : r[k].more) =>
          r[j].msg = r[i].msg /\ r[j].part = r[i].part + (j - i)
  <2>1. ~(n > 0 /\ q[n].more)
    BY DEF QueueOK
  <2>2. \A i, j \in 1..Len(q) : i <= j /\ (\A k \in i..j - 1 : q[k].more) =>
              q[j].msg = q[i].msg /\ q[j].part = q[i].part + (j - i)
    BY DEF QueueOK
  <2> HIDE DEF x
  <2>3. QED
    BY <1>2, <2>1, <2>2, AppendRuns
<1> HIDE DEF R, x, r, n
<1>5. \A i \in 1..n : q[i].msg \in 1..Len(S) /\ g < q[i].msg
  BY MsgBounds DEF n
<1>6. \A i \in 1..Len(r) : i \in 1..n \/ i = n + 1
  BY <1>3
<1>7. \A i \in 1..Len(r) : (i > 1 => ~r[i - 1].more) => r[i].part = 1
  <2>1. \A i \in 1..n : (i > 1 => ~q[i - 1].more) => q[i].part = 1
    BY DEF QueueOK, n
  <2>2. \A i \in 1..n : i > 1 => i - 1 \in 1..n
    BY <1>3
  <2>3. QED
    BY <1>2, <1>3, <1>6, <2>1, <2>2
<1>8. \A i \in 1..Len(r) : g < r[i].msg /\ r[i].msg <= Len(R)
  BY <1>1, <1>2, <1>3, <1>5, <1>6
<1>9. \A i, j \in 1..Len(r) : i < j => /\ r[i].msg <= r[j].msg
                                       /\ ~r[i].more => r[i].msg < r[j].msg
  <2>1. SUFFICES ASSUME NEW i \in 1..Len(r), NEW j \in 1..Len(r), i < j
                 PROVE  /\ r[i].msg <= r[j].msg
                        /\ ~r[i].more => r[i].msg < r[j].msg
    OBVIOUS
  <2>2. i \in 1..n
    BY <1>3, <2>1
  <2>3. CASE j \in 1..n
    BY <1>3, <2>1, <2>2, <2>3 DEF QueueOK, n
  <2>4. CASE j = n + 1
    BY <1>1, <1>2, <1>3, <1>5, <2>2, <2>4
  <2>5. QED
    BY <1>6, <2>3, <2>4
<1>10. \A i \in 1..Len(r) : ~r[i].more => r[i].part = R[r[i].msg].parts
  <2>1. \A i \in 1..n : ~q[i].more => q[i].part = S[q[i].msg].parts
    BY DEF QueueOK, n
  <2>2. QED
    BY <1>1, <1>2, <1>3, <1>5, <1>6, <2>1
<1>11. \A i \in 1..Len(r) : o /\ ~r[i].more => r[i].msg < Len(R)
  <2>1. \A i \in 1..n : q[i].msg < Len(R)
    BY <1>1, <1>5
  <2>2. QED
    BY <1>2, <1>3, <1>6, <2>1
<1>12. Len(r) > 0 /\ r[Len(r)].more <=> o
  BY <1>2, <1>3
<1>13. o => r[Len(r)].msg = Len(R) /\ r[Len(r)].part = R[Len(R)].parts
  BY <1>1, <1>2, <1>3
<1>14. QueueOK(r, o, R, o, g)
  BY <1>4, <1>7, <1>8, <1>9, <1>10, <1>11, <1>12, <1>13 DEF QueueOK
<1>15. QED
  BY <1>14 DEF r, R, x

(* A message that goes on, but not in this queue. *)
LEMMA SkipNext ==
    ASSUME NEW q \in Seq(Frames), NEW S \in Seq(Msgs), NEW g \in Nat, NEW R \in Seq(Msgs),
           NEW o \in BOOLEAN, QueueOK(q, FALSE, S, TRUE, g),
           Len(R) = Len(S), \A i \in 1..Len(S) - 1 : R[i] = S[i]
    PROVE  QueueOK(q, FALSE, R, o, g)
<1>1. \A i \in 1..Len(q) : ~q[i].more => q[i].msg \in 1..Len(S) - 1
  BY MsgBounds
<1>2. QED
  BY <1>1 DEF QueueOK

(* A message that goes on in this queue. *)
LEMMA WriteNext ==
    ASSUME NEW q \in Seq(Frames), NEW S \in Seq(Msgs), NEW g \in Nat, NEW R \in Seq(Msgs),
           NEW o \in BOOLEAN, QueueOK(q, TRUE, S, TRUE, g), Len(S) > 0,
           Len(R) = Len(S), \A i \in 1..Len(S) - 1 : R[i] = S[i],
           NEW x \in Frames, x.msg = Len(S), x.part = S[Len(S)].parts + 1,
           x.part = R[Len(S)].parts, x.more = o
    PROVE  QueueOK(Append(q, x), o, R, o, g)
<1> DEFINE r == Append(q, x)
           n == Len(q)
<1>1. /\ Len(R) = Len(S) /\ Len(S) \in Nat /\ \A i \in 1..Len(S) - 1 : R[i] = S[i]
      /\ Len(S) \in 1..Len(S)
  OBVIOUS
<1>2. x \in Frames /\ x.msg = Len(S) /\ x.part = R[Len(S)].parts /\ x.more = o
  OBVIOUS
<1>3. /\ Len(r) = n + 1 /\ n \in Nat
      /\ \A i \in 1..n : r[i] = q[i] /\ q[i] \in Frames
      /\ r[n + 1] = x
  BY <1>2, AppendFacts
<1>4. n > 0 /\ q[n].more /\ q[n].msg = Len(S) /\ q[n].part = S[Len(S)].parts
  BY DEF QueueOK
<1>5. \A i, j \in 1..Len(r) : i <= j /\ (\A h \in i..j - 1 : r[h].more) =>
          r[j].msg = r[i].msg /\ r[j].part = r[i].part + (j - i)
  <2>1. \A i, j \in 1..Len(q) : i <= j /\ (\A h \in i..j - 1 : q[h].more) =>
              q[j].msg = q[i].msg /\ q[j].part = q[i].part + (j - i)
    BY DEF QueueOK
  <2>2. x.msg = q[Len(q)].msg /\ x.part = q[Len(q)].part + 1
    BY <1>2, <1>4
  <2>3. QED
    BY <1>2, <2>1, <2>2, AppendRuns
<1> HIDE DEF r, n
<1>6. \A i \in 1..n : q[i].msg \in 1..Len(S) /\ g < q[i].msg
  BY MsgBounds DEF n
<1>7. \A i \in 1..n : ~q[i].more => q[i].msg \in 1..Len(S) - 1
  BY MsgBounds DEF n
<1>8. \A i \in 1..Len(r) : i \in 1..n \/ i = n + 1
  BY <1>3
<1>9. \A i \in 1..Len(r) : (i > 1 => ~r[i - 1].more) => r[i].part = 1
  <2>1. \A i \in 1..n : (i > 1 => ~q[i - 1].more) => q[i].part = 1
    BY DEF QueueOK, n
  <2>2. \A i \in 1..n : i > 1 => i - 1 \in 1..n
    BY <1>3
  <2>3. n \in 1..n /\ (n + 1) - 1 = n /\ n + 1 > 1 /\ r[n].more
    BY <1>3, <1>4
  <2>4. QED
    BY <1>3, <1>8, <2>1, <2>2, <2>3
<1>10. \A i \in 1..Len(r) : g < r[i].msg /\ r[i].msg <= Len(R)
  <2>1. n \in 1..n /\ g < q[n].msg
    BY <1>3, <1>4, <1>6
  <2>2. g < x.msg /\ x.msg <= Len(R)
    BY <1>1, <1>2, <1>4, <2>1
  <2>3. \A i \in 1..n : g < q[i].msg /\ q[i].msg <= Len(R)
    BY <1>1, <1>6
  <2>4. QED
    BY <1>3, <1>8, <2>2, <2>3
<1>11. \A i, j \in 1..Len(r) : i < j => /\ r[i].msg <= r[j].msg
                                        /\ ~r[i].more => r[i].msg < r[j].msg
  <2>1. SUFFICES ASSUME NEW i \in 1..Len(r), NEW j \in 1..Len(r), i < j
                 PROVE  /\ r[i].msg <= r[j].msg
                        /\ ~r[i].more => r[i].msg < r[j].msg
    OBVIOUS
  <2>2. i \in 1..n
    BY <1>3, <2>1
  <2>3. CASE j \in 1..n
    BY <1>3, <2>1, <2>2, <2>3 DEF QueueOK, n
  <2>4. CASE j = n + 1
    BY <1>1, <1>2, <1>3, <1>6, <1>7, <2>2, <2>4
  <2>5. QED
    BY <1>8, <2>3, <2>4
<1>12. \A i \in 1..Len(r) : ~r[i].more => r[i].part = R[r[i].msg].parts
  <2>1. \A i \in 1..n : ~q[i].more => q[i].part = S[q[i].msg].parts
    BY DEF QueueOK, n
  <2>2. SUFFICES ASSUME NEW i \in 1..Len(r), ~r[i].more PROVE r[i].part = R[r[i].msg].parts
    OBVIOUS
  <2>3. CASE i \in 1..n
    <3>1. q[i].msg \in 1..Len(S) - 1 /\ r[i] = q[i]
      BY <1>3, <1>7, <2>2, <2>3
    <3>2. R[q[i].msg] = S[q[i].msg]
      BY <1>1, <3>1
    <3>3. QED
      BY <2>1, <2>2, <2>3, <3>1, <3>2
  <2>4. CASE i = n + 1
    BY <1>2, <1>3, <2>4
  <2>5. QED
    BY <1>8, <2>3, <2>4
<1>13. \A i \in 1..Len(r) : o /\ ~r[i].more => r[i].msg < Len(R)
  <2>1. \A i \in 1..n : ~q[i].more => q[i].msg < Len(R)
    BY <1>1, <1>7
  <2>2. QED
    BY <1>2, <1>3, <1>8, <2>1
<1>14. Len(r) > 0 /\ r[Len(r)].more <=> o
  BY <1>2, <1>3
<1>15. o => r[Len(r)].msg = Len(R) /\ r[Len(r)].part = R[Len(R)].parts
  BY <1>1, <1>2, <1>3
<1>16. QueueOK(r, o, R, o, g)
  BY <1>5, <1>9, <1>10, <1>11, <1>12, <1>13, <1>14, <1>15 DEF QueueOK
<1>17. QED
  BY <1>16 DEF r

(* Facts about the end and the beginning of a queue. *)
LEMMA SubSeqFacts ==
    ASSUME NEW q \in Seq(Frames), NEW a \in 1..Len(q) + 1, NEW b \in 0..Len(q), a <= b + 1
    PROVE  /\ SubSeq(q, a, b) \in Seq(Frames)
           /\ Len(SubSeq(q, a, b)) = b - a + 1
           /\ \A i \in 1..b - a + 1 : /\ i + a - 1 \in 1..Len(q)
                                      /\ SubSeq(q, a, b)[i] = q[i + a - 1]
<1>1. Len(q) \in Nat
  OBVIOUS
<1>2. \A i \in a..b : i \in 1..Len(q)
  BY <1>1
<1>3. SubSeq(q, a, b) = [i \in 1..b - a + 1 |-> q[i + a - 1]]
  OBVIOUS
<1>4. \A i \in 1..b - a + 1 : i + a - 1 \in 1..Len(q) /\ q[i + a - 1] \in Frames
  BY <1>1
<1>5. b - a + 1 \in Nat
  BY <1>1
<1>6. SubSeq(q, a, b) \in Seq(Frames) /\ Len(SubSeq(q, a, b)) = b - a + 1
  <2> DEFINE n == b - a + 1
             s == [i \in 1..n |-> q[i + a - 1]]
  <2>1. n \in Nat
    BY <1>5
  <2>2. \A i \in 1..n : s[i] \in Frames
    BY <1>4
  <2> HIDE DEF n
  <2>3. s \in Seq(Frames) /\ Len(s) = n
    BY <2>1, <2>2
  <2>4. QED
    BY <2>3, <1>3 DEF n
<1>7. \A i \in 1..b - a + 1 : SubSeq(q, a, b)[i] = q[i + a - 1]
  BY <1>3
<1>8. QED
  BY <1>4, <1>6, <1>7

(* What is left after the first message was taken. *)
LEMMA DropMessage ==
    ASSUME NEW q \in Seq(Frames), NEW m \in BOOLEAN, NEW S \in Seq(Msgs), NEW o \in BOOLEAN,
           NEW g \in Nat, QueueOK(q, m, S, o, g), NEW n \in FirstEnds(q),
           NEW h \in {g, q[1].msg}
    PROVE  QueueOK(SubSeq(q, n + 1, Len(q)), m, S, o, h)
<1> DEFINE r == SubSeq(q, n + 1, Len(q))
           N == Len(q)
<1>1. n \in 1..N /\ ~q[n].more /\ N \in Nat
  BY DEF FirstEnds, Ends
<1>2. /\ Len(r) = N - n
      /\ \A i \in 1..N - n : i + n \in 1..N /\ r[i] = q[i + n]
  <2>1. n + 1 \in 1..N + 1 /\ N \in 0..N /\ n + 1 <= N + 1 /\ N - (n + 1) + 1 = N - n
    BY <1>1
  <2>2. /\ Len(r) = N - (n + 1) + 1
        /\ \A i \in 1..N - (n + 1) + 1 : /\ i + (n + 1) - 1 \in 1..N
                                         /\ r[i] = q[i + (n + 1) - 1]
    BY <2>1, SubSeqFacts
  <2>3. \A i \in 1..N - n : i + (n + 1) - 1 = i + n
    BY <1>1
  <2> HIDE DEF r, N
  <2>4. QED
    BY <2>1, <2>2, <2>3
<1> HIDE DEF r, N
<1>3. \A i, j \in 1..N : i <= j /\ (\A k \in i..j - 1 : q[k].more) =>
          q[j].msg = q[i].msg /\ q[j].part = q[i].part + (j - i)
  BY DEF QueueOK, N
<1>4. \A i, j \in 1..Len(r) : i <= j /\ (\A k \in i..j - 1 : r[k].more) =>
          r[j].msg = r[i].msg /\ r[j].part = r[i].part + (j - i)
  <2>1. SUFFICES ASSUME NEW i \in 1..Len(r), NEW j \in 1..Len(r), i <= j,
                        \A k \in i..j - 1 : r[k].more
                 PROVE  r[j].msg = r[i].msg /\ r[j].part = r[i].part + (j - i)
    OBVIOUS
  <2>2. \A k \in i + n..j + n - 1 : q[k].more
    <3>1. SUFFICES ASSUME NEW k \in i + n..j + n - 1 PROVE q[k].more
      OBVIOUS
    <3>2. k - n \in i..j - 1 /\ k - n \in 1..N - n /\ (k - n) + n = k
      BY <1>1, <1>2
    <3>3. QED
      BY <1>2, <2>1, <3>2
  <2> DEFINE a == i + n
             b == j + n
  <2>3. a \in 1..N /\ b \in 1..N /\ r[i] = q[a] /\ r[j] = q[b]
    <3>1. i \in 1..N - n /\ j \in 1..N - n
      BY <1>2
    <3>2. QED
      BY <1>2, <3>1
  <2>4. a <= b /\ b - a = j - i
    BY <1>1, <1>2, <2>1
  <2>5. \A k \in a..b - 1 : q[k].more
    BY <1>1, <1>2, <2>2
  <2> HIDE DEF a, b
  <2>6. q[b].msg = q[a].msg /\ q[b].part = q[a].part + (b - a)
    BY <1>3, <2>3, <2>4, <2>5
  <2>7. QED
    BY <2>3, <2>4, <2>6
<1>5. \A i \in 1..Len(r) : (i > 1 => ~r[i - 1].more) => r[i].part = 1
  <2>1. SUFFICES ASSUME NEW i \in 1..Len(r), i > 1 => ~r[i - 1].more
                 PROVE  q[i + n].part = 1
    BY <1>2
  <2>2. ~q[(i + n) - 1].more
    <3>1. CASE i = 1
      BY <1>1, <3>1
    <3>2. CASE i > 1
      <4>1. i - 1 \in 1..N - n /\ (i - 1) + n = (i + n) - 1
        BY <1>1, <1>2, <3>2
      <4>2. QED
        BY <1>2, <2>1, <3>2, <4>1
    <3>3. QED
      BY <3>1, <3>2, <1>1, <1>2
  <2>3. i + n \in 1..N
    BY <1>2
  <2>4. \A k \in 1..N : (k > 1 => ~q[k - 1].more) => q[k].part = 1
    BY DEF QueueOK, N
  <2>5. QED
    BY <2>2, <2>3, <2>4
<1>6. \A i, j \in 1..N : i < j => /\ q[i].msg <= q[j].msg
                                  /\ ~q[i].more => q[i].msg < q[j].msg
  BY DEF QueueOK, N
<1>7. \A i \in 1..N : /\ q[i].msg \in 1..Len(S) /\ g < q[i].msg
                      /\ o /\ ~q[i].more => q[i].msg \in 1..Len(S) - 1
  BY MsgBounds DEF N
<1>8. \A i \in 1..Len(r) : h < r[i].msg /\ r[i].msg <= Len(S)
  <2>1. SUFFICES ASSUME NEW i \in 1..Len(r) PROVE h < q[i + n].msg /\ q[i + n].msg <= Len(S)
    BY <1>2
  <2>2. i + n \in 1..N /\ n < i + n /\ 1 \in 1..N /\ (1 < n \/ 1 = n)
    BY <1>1, <1>2
  <2>3. q[n].msg < q[i + n].msg
    BY <1>1, <1>6, <2>2
  <2>4. q[1].msg <= q[n].msg
    <3>1. CASE n = 1
      BY <1>1, <1>7, <3>1
    <3>2. CASE 1 < n
      BY <1>1, <1>6, <2>2, <3>2
    <3>3. QED
      BY <2>2, <3>1, <3>2
  <2>5. q[1].msg \in Nat /\ q[n].msg \in Nat /\ q[i + n].msg \in 1..Len(S)
    BY <1>1, <1>7, <2>2
  <2>6. g < q[1].msg /\ g < q[i + n].msg
    BY <1>7, <2>2
  <2>7. h = g \/ h = q[1].msg
    OBVIOUS
  <2>8. QED
    BY <2>3, <2>4, <2>5, <2>6, <2>7
<1>9. \A i, j \in 1..Len(r) : i < j => /\ r[i].msg <= r[j].msg
                                       /\ ~r[i].more => r[i].msg < r[j].msg
  <2>1. \A i, j \in 1..Len(r) : i < j => i + n < j + n
    BY <1>1, <1>2
  <2>2. QED
    BY <1>2, <1>6, <2>1
<1>10. \A i \in 1..Len(r) : ~r[i].more => r[i].part = S[r[i].msg].parts
  BY <1>2 DEF QueueOK, N
<1>11. \A i \in 1..Len(r) : o /\ ~r[i].more => r[i].msg < Len(S)
  BY <1>2, <1>7
<1>12. N > 0 /\ q[N].more <=> m
  BY DEF QueueOK, N
<1>13. (Len(r) > 0 /\ r[Len(r)].more <=> m) /\ (m => r[Len(r)] = q[N])
  <2>1. CASE n = N
    BY <1>1, <1>2, <1>12, <2>1
  <2>2. CASE n < N
    <3>1. N - n \in 1..N - n /\ (N - n) + n = N
      BY <1>1, <2>2
    <3>2. QED
      BY <1>1, <1>2, <1>12, <3>1
  <2>3. QED
    BY <1>1, <2>1, <2>2
<1>14. m => o /\ q[N].msg = Len(S) /\ q[N].part = S[Len(S)].parts
  BY DEF QueueOK, N
<1>15. QueueOK(r, m, S, o, h)
  BY <1>4, <1>5, <1>8, <1>9, <1>10, <1>11, <1>13, <1>14 DEF QueueOK
<1>16. QED
  BY <1>15 DEF r, N

(* What is left of a queue that is cut after a message. *)
LEMMA CutQueue ==
    ASSUME NEW q \in Seq(Frames), NEW m \in BOOLEAN, NEW S \in Seq(Msgs), NEW o \in BOOLEAN,
           NEW g \in Nat, QueueOK(q, m, S, o, g), NEW n \in Ends(q) \cup {0}
    PROVE  QueueOK(SubSeq(q, 1, n), FALSE, S, o, g)
<1> DEFINE r == SubSeq(q, 1, n)
<1>1. n \in 0..Len(q) /\ (n > 0 => ~q[n].more) /\ Len(q) \in Nat
  BY DEF Ends
<1>2. /\ Len(r) = n
      /\ \A i \in 1..n : i \in 1..Len(q) /\ r[i] = q[i]
  <2>1. 1 \in 1..Len(q) + 1 /\ 1 <= n + 1 /\ n - 1 + 1 = n
    BY <1>1
  <2>2. \A i \in 1..n : i + 1 - 1 = i
    BY <1>1
  <2>3. QED
    BY <1>1, <2>1, <2>2, SubSeqFacts
<1> HIDE DEF r
<1>3. \A i, j \in 1..n : i <= j /\ (\A k \in i..j - 1 : r[k].more) =>
          r[j].msg = r[i].msg /\ r[j].part = r[i].part + (j - i)
  <2>1. SUFFICES ASSUME NEW i \in 1..n, NEW j \in 1..n, i <= j,
                        \A k \in i..j - 1 : r[k].more
                 PROVE  q[j].msg = q[i].msg /\ q[j].part = q[i].part + (j - i)
    <3>1. \A i \in 1..n : r[i] = q[i]
      BY <1>2
    <3>2. QED
      BY <3>1
  <2>2. \A k \in i..j - 1 : k \in 1..n
    BY <1>1
  <2>3. \A a, b \in 1..Len(q) : a <= b /\ (\A k \in a..b - 1 : q[k].more) =>
          q[b].msg = q[a].msg /\ q[b].part = q[a].part + (b - a)
    BY DEF QueueOK
  <2>4. \A k \in i..j - 1 : q[k].more
    BY <1>2, <2>1, <2>2
  <2>5. QED
    BY <1>2, <2>1, <2>3, <2>4
<1>4. \A i \in 1..n : (i > 1 => ~r[i - 1].more) => r[i].part = 1
  <2>1. \A i \in 1..n : i > 1 => i - 1 \in 1..n
    BY <1>1
  <2>2. \A i \in 1..Len(q) : (i > 1 => ~q[i - 1].more) => q[i].part = 1
    BY DEF QueueOK
  <2>3. QED
    BY <1>2, <2>1, <2>2
<1>5. Len(r) > 0 => ~r[Len(r)].more
  <2>1. n > 0 => n \in 1..n
    BY <1>1
  <2>2. QED
    BY <1>1, <1>2, <2>1
<1>6. \A i \in 1..n : /\ g < r[i].msg /\ r[i].msg <= Len(S)
                      /\ ~r[i].more => r[i].part = S[r[i].msg].parts
                      /\ o /\ ~r[i].more => r[i].msg < Len(S)
  BY <1>2 DEF QueueOK
<1>7. \A i, j \in 1..n : i < j => /\ r[i].msg <= r[j].msg
                                  /\ ~r[i].more => r[i].msg < r[j].msg
  BY <1>2 DEF QueueOK
<1>8. QueueOK(r, FALSE, S, o, g)
  BY <1>2, <1>3, <1>4, <1>5, <1>6, <1>7 DEF QueueOK
<1>9. QED
  BY <1>8 DEF r

-----------------------------------------------------------------------------
(* The subscription plane of PubSub is Subscription. *)

LEMMA StepIsSubStep == [Next]_vars => [SubNext]_subVars
<1> SUFFICES ASSUME [Next]_vars PROVE [SubNext]_subVars
  OBVIOUS
<1>1. CASE Subscribe
  BY <1>1 DEF Subscribe, SubNext
<1>2. ASSUME NEW s \in Subs, NEW p \in Pubs, Leave(s, p) PROVE SubNext
  BY <1>2 DEF Leave, SubNext
<1>3. ASSUME NEW l \in Links, Attach(l) PROVE SubNext
  BY <1>3 DEF Attach, SubNext
<1>4. ASSUME NEW l \in Links, Break(l) PROVE SubNext
  BY <1>4 DEF Break, SubNext
<1>5. ASSUME NEW l \in Links, Acknowledge(l) \/ Receive(l) PROVE UNCHANGED subVars
  BY <1>5 DEF Acknowledge, Receive
<1>6. ASSUME NEW p \in Pubs, NEW m \in BOOLEAN, SendNext(p, m) PROVE UNCHANGED subVars
  BY <1>6 DEF SendNext
<1>7. ASSUME NEW p \in Pubs, NEW m \in BOOLEAN, NEW t \in Topics, SendFirst(p, t, m)
      PROVE  UNCHANGED subVars
  BY <1>7 DEF SendFirst
<1>8. ASSUME NEW p \in Pubs, NEW h \in Hwms, SetSendHighWaterMark(p, h)
      PROVE  UNCHANGED subVars
  BY <1>8 DEF SetSendHighWaterMark
<1>9. CASE UNCHANGED vars
  BY <1>9 DEF vars
<1>10. QED
  BY <1>1, <1>2, <1>3, <1>4, <1>5, <1>6, <1>7, <1>8, <1>9 DEF Next

(* Every behaviour of PubSub is one of Subscription, as far as safety      *)
(* goes: no message operation touches the subscription plane.              *)
THEOREM ImplementsSubscription == Spec => SubInit /\ [][SubNext]_subVars
<1>1. Init => SubInit
  BY DEF Init
<1>2. QED
  BY <1>1, StepIsSubStep, PTL DEF Spec

(* So what Subscription guarantees holds while messages flow.              *)
THEOREM PubSubAgrees == Spec => []Agreement
<1>1. SubInit => FiltersInstalled /\ NoStaleTable /\ Agreement
  BY DEF SubInit, FiltersInstalled, NoStaleTable, Agreement, Writable, Live
<1>2. QED
  BY <1>1, ImplementsSubscription, SubInitType, SubTypeStep, InstalledStep, NoStaleStep,
     AgreementStep, PTL

-----------------------------------------------------------------------------
(* Types. *)

LEMMA InitType == Init => TypeOK
<1> SUFFICES ASSUME Init PROVE TypeOK
  OBVIOUS
<1>1. SubTypeOK
  BY SubInitType DEF Init
<1>2. QED
  BY <1>1 DEF Init, TypeOK, Links

(* What a frame does to the pipes of its publisher. *)
LEMMA DistributeFacts ==
    ASSUME TypeOK, NEW p \in Pubs, NEW targets, targets \subseteq PipesOf(p),
           NEW frame \in Frames, Distribute(p, targets, frame), NEW k \in Links
    PROVE  /\ eligible' \subseteq Links
           /\ matching' \subseteq Links
           /\ inflight' \in [Links -> Nat]
           /\ stream' \in [Links -> Seq(Frames)]
           /\ k \in eligible' <=> k \in eligible /\ ~(k \in targets /\ Full(k))
           /\ k[2] = p => (k \in matching' <=> frame.more /\ k \in targets /\ ~Full(k))
           /\ k[2] # p => (k \in matching' <=> k \in matching)
           /\ stream'[k] = IF k \in targets /\ ~Full(k) THEN Append(stream[k], frame)
                                                      ELSE stream[k]
           /\ inflight'[k] = IF k \in targets /\ ~Full(k) /\ ~frame.more
                             THEN inflight[k] + 1 ELSE inflight[k]
<1> DEFINE refused == {l \in targets : Full(l)}
           written == targets \ refused
<1>1. /\ eligible' = eligible \ refused
      /\ matching' = (matching \ PipesOf(p)) \cup (IF frame.more THEN written ELSE {})
      /\ stream' = [l \in Links |-> IF l \in written THEN Append(stream[l], frame)
                                                     ELSE stream[l]]
      /\ inflight' = [l \in Links |-> IF l \in written /\ ~frame.more
                                      THEN inflight[l] + 1 ELSE inflight[l]]
  BY DEF Distribute
<1>2. \A l : l \in written <=> l \in targets /\ ~Full(l)
  OBVIOUS
<1>3. PipesOf(p) \subseteq Links /\ (k \in PipesOf(p) <=> k[2] = p)
  BY DEF PipesOf, Links
<1>4. eligible \subseteq Links /\ matching \subseteq Links
      /\ inflight \in [Links -> Nat] /\ stream \in [Links -> Seq(Frames)]
  BY DEF TypeOK
<1>5. frame.more \in BOOLEAN
  BY DEF Frames
<1> HIDE DEF written
<1>6. eligible' \subseteq Links /\ (k \in eligible' <=> k \in eligible /\ ~(k \in targets /\ Full(k)))
  BY <1>1, <1>4
<1>7. matching' \subseteq Links
  BY <1>1, <1>2, <1>3, <1>4
<1>8. /\ k[2] = p => (k \in matching' <=> frame.more /\ k \in targets /\ ~Full(k))
      /\ k[2] # p => (k \in matching' <=> k \in matching)
  BY <1>1, <1>2, <1>3
<1>9. /\ stream' \in [Links -> Seq(Frames)]
      /\ stream'[k] = IF k \in targets /\ ~Full(k) THEN Append(stream[k], frame)
                                                 ELSE stream[k]
  BY <1>1, <1>2, <1>4, AppendFacts
<1>10. /\ inflight' \in [Links -> Nat]
       /\ inflight'[k] = IF k \in targets /\ ~Full(k) /\ ~frame.more
                         THEN inflight[k] + 1 ELSE inflight[k]
  BY <1>1, <1>2, <1>4
<1>11. QED
  BY <1>6, <1>7, <1>8, <1>9, <1>10

(* The frames and messages that the two sending actions write. *)
LEMMA SendFirstFacts ==
    ASSUME TypeOK, NEW p \in Pubs, NEW t \in Topics, NEW m \in BOOLEAN, SendFirst(p, t, m)
    PROVE  LET targets == {l \in eligible \cap PipesOf(p) : Wanted(trie[l], t)}
               frame == [msg |-> Len(sent[p]) + 1, part |-> 1, more |-> m]
           IN  /\ targets \subseteq PipesOf(p) /\ targets \subseteq eligible
               /\ frame \in Frames /\ frame.more = m
               /\ Distribute(p, targets, frame)
               /\ sent' \in [Pubs -> Seq(Msgs)] /\ more' \in [Pubs -> BOOLEAN]
               /\ ~more[p] /\ more'[p] = m
               /\ sent'[p] = Append(sent[p], [topic |-> t, parts |-> 1])
               /\ \A r \in Pubs \ {p} : sent'[r] = sent[r] /\ more'[r] = more[r]
               /\ UNCHANGED <<subVars, hwm, got>>
<1>1. sent \in [Pubs -> Seq(Msgs)] /\ more \in [Pubs -> BOOLEAN]
  BY DEF TypeOK, Msgs
<1>2. /\ ~more[p]
      /\ sent' = [sent EXCEPT ![p] = Append(@, [topic |-> t, parts |-> 1])]
      /\ more' = [more EXCEPT ![p] = m]
  BY DEF SendFirst
<1>3. [topic |-> t, parts |-> 1] \in Msgs
  BY DEF Msgs
<1>4. Len(sent[p]) \in Nat /\ Append(sent[p], [topic |-> t, parts |-> 1]) \in Seq(Msgs)
  BY <1>1, <1>3
<1>5. [msg |-> Len(sent[p]) + 1, part |-> 1, more |-> m] \in Frames
  BY <1>4 DEF Frames
<1>6. sent' \in [Pubs -> Seq(Msgs)] /\ more' \in [Pubs -> BOOLEAN]
  BY <1>1, <1>2, <1>4
<1>7. QED
  BY <1>1, <1>2, <1>5, <1>6 DEF SendFirst

LEMMA SendNextFacts ==
    ASSUME TypeOK, DistOK, NEW p \in Pubs, NEW m \in BOOLEAN, SendNext(p, m)
    PROVE  LET n == Len(sent[p])
               k == sent[p][n].parts + 1
               targets == matching \cap PipesOf(p)
               frame == [msg |-> n, part |-> k, more |-> m]
           IN  /\ targets \subseteq PipesOf(p) /\ targets \subseteq eligible
               /\ n \in Nat /\ n > 0 /\ k \in Nat
               /\ frame \in Frames /\ frame.more = m
               /\ Distribute(p, targets, frame)
               /\ sent' \in [Pubs -> Seq(Msgs)] /\ more' \in [Pubs -> BOOLEAN]
               /\ more[p] /\ more'[p] = m
               /\ sent'[p] \in Seq(Msgs) /\ Len(sent'[p]) = n
               /\ \A i \in 1..n - 1 : sent'[p][i] = sent[p][i]
               /\ sent'[p][n].parts = k
               /\ \A r \in Pubs \ {p} : sent'[r] = sent[r] /\ more'[r] = more[r]
               /\ UNCHANGED <<subVars, hwm, got>>
<1> DEFINE S == sent[p]
           n == Len(sent[p])
           k == sent[p][n].parts + 1
<1>1. sent \in [Pubs -> Seq(Msgs)] /\ more \in [Pubs -> BOOLEAN] /\ S \in Seq(Msgs)
  BY DEF TypeOK, Msgs
<1>2. /\ more[p]
      /\ sent' = [sent EXCEPT ![p][n].parts = k]
      /\ more' = [more EXCEPT ![p] = m]
  BY DEF SendNext
<1>3. n \in Nat /\ n > 0
  BY <1>1, <1>2 DEF DistOK
<1>4. S[n] \in Msgs
  BY <1>1, <1>3
<1>5. k \in Nat /\ k > 0
  BY <1>4 DEF Msgs
<1>6. [S[n] EXCEPT !.parts = k] \in Msgs
  BY <1>4, <1>5 DEF Msgs
<1>7. sent'[p] = [S EXCEPT ![n].parts = k]
  BY <1>1, <1>2
<1>8. [S EXCEPT ![n].parts = k] = [S EXCEPT ![n] = [S[n] EXCEPT !.parts = k]]
  OBVIOUS
<1>9. [S EXCEPT ![n].parts = k] \in Seq(Msgs) /\ Len([S EXCEPT ![n].parts = k]) = n
  BY <1>1, <1>3, <1>6, <1>8
<1>14. /\ sent'[p] \in Seq(Msgs) /\ Len(sent'[p]) = n
       /\ \A i \in 1..n - 1 : sent'[p][i] = sent[p][i]
  BY <1>1, <1>3, <1>7, <1>8, <1>9
<1>15. sent'[p][n].parts = k
  <2>1. sent'[p][n] = [S[n] EXCEPT !.parts = k]
    BY <1>1, <1>3, <1>7, <1>8
  <2>2. QED
    BY <1>4, <2>1 DEF Msgs
<1>10. [msg |-> n, part |-> k, more |-> m] \in Frames
  BY <1>3, <1>5 DEF Frames
<1> HIDE DEF k
<1>11. sent' \in [Pubs -> Seq(Msgs)] /\ more' \in [Pubs -> BOOLEAN]
  BY <1>1, <1>2, <1>7, <1>9
<1>12. matching \cap PipesOf(p) \subseteq eligible
  BY DEF DistOK
<1>13. QED
  BY <1>1, <1>2, <1>3, <1>5, <1>10, <1>11, <1>12, <1>14, <1>15 DEF SendNext, k

(* What the receiving action takes out of a queue. *)
LEMMA ReceiveFacts ==
    ASSUME TypeOK, NEW l \in Links, Receive(l)
    PROVE  /\ stream' \in [Links -> Seq(Frames)]
           /\ \E n \in FirstEnds(stream[l]) :
                 /\ stream' = [stream EXCEPT ![l] = SubSeq(stream[l], n + 1, Len(stream[l]))]
                 /\ \/ got' = got
                    \/ got' = [got EXCEPT ![l] = [msg |-> stream[l][1].msg, parts |-> n]]
           /\ got' \in [Links -> [msg : Nat, parts : Nat]]
           /\ UNCHANGED <<subVars, sent, more, hwm, eligible, matching, inflight>>
<1> DEFINE q == stream[l]
<1>1. stream \in [Links -> Seq(Frames)] /\ got \in [Links -> [msg : Nat, parts : Nat]]
      /\ q \in Seq(Frames)
  BY DEF TypeOK
<1>2. PICK n \in FirstEnds(q) :
        /\ stream' = [stream EXCEPT ![l] = SubSeq(q, n + 1, Len(q))]
        /\ got' = IF Wanted(Live(l[1]), sent[l[2]][q[1].msg].topic)
                  THEN [got EXCEPT ![l] = [msg |-> q[1].msg, parts |-> n]]
                  ELSE got
  BY DEF Receive
<1>3. n \in 1..Len(q) /\ Len(q) \in Nat /\ q[1] \in Frames
  BY <1>1 DEF FirstEnds, Ends
<1>4. SubSeq(q, n + 1, Len(q)) \in Seq(Frames)
  BY <1>1, <1>3, SubSeqFacts
<1>5. [msg |-> q[1].msg, parts |-> n] \in [msg : Nat, parts : Nat]
  BY <1>3 DEF Frames
<1>6. stream' \in [Links -> Seq(Frames)]
  BY <1>1, <1>2, <1>4
<1>7. got' \in [Links -> [msg : Nat, parts : Nat]]
  BY <1>1, <1>2, <1>5
<1>8. QED
  BY <1>2, <1>6, <1>7 DEF Receive

(* What a broken connection leaves behind. *)
LEMMA BreakFacts ==
    ASSUME TypeOK, NEW l \in Links, Break(l)
    PROVE  /\ stream' \in [Links -> Seq(Frames)]
           /\ \E n \in Ends(stream[l]) \cup {0} :
                 stream' = [stream EXCEPT ![l] = SubSeq(stream[l], 1, n)]
           /\ LinkDown(l) /\ Detach(l)
           /\ UNCHANGED <<sent, more, hwm, got>>
<1> DEFINE q == stream[l]
<1>1. stream \in [Links -> Seq(Frames)] /\ q \in Seq(Frames)
  BY DEF TypeOK
<1>2. PICK n \in Ends(q) \cup {0} : stream' = [stream EXCEPT ![l] = SubSeq(q, 1, n)]
  BY DEF Break
<1>3. n \in 0..Len(q) /\ Len(q) \in Nat /\ 1 \in 1..Len(q) + 1 /\ 1 <= n + 1
  BY <1>1 DEF Ends
<1>4. SubSeq(q, 1, n) \in Seq(Frames)
  BY <1>1, <1>3, SubSeqFacts
<1>5. stream' \in [Links -> Seq(Frames)]
  BY <1>1, <1>2, <1>4
<1>6. QED
  BY <1>2, <1>5 DEF Break

(* The variables that PubSub adds to Subscription. *)
DataOK == /\ sent \in [Pubs -> Seq([topic : Topics, parts : Nat \ {0}])]
          /\ more \in [Pubs -> BOOLEAN]
          /\ hwm \in [Pubs -> Hwms]
          /\ eligible \subseteq Links
          /\ matching \subseteq Links
          /\ inflight \in [Links -> Nat]
          /\ stream \in [Links -> Seq(Frames)]
          /\ got \in [Links -> [msg : Nat, parts : Nat]]

(* The same for the four variables that a frame changes. *)
LEMMA DistributeType ==
    ASSUME TypeOK, NEW p \in Pubs, NEW targets, targets \subseteq PipesOf(p),
           NEW frame \in Frames, Distribute(p, targets, frame)
    PROVE  /\ eligible' \subseteq Links
           /\ matching' \subseteq Links
           /\ inflight' \in [Links -> Nat]
           /\ stream' \in [Links -> Seq(Frames)]
<1>1. CASE Links = {}
  BY <1>1 DEF TypeOK, Distribute, PipesOf, Links
<1>2. CASE Links # {}
  <2>1. PICK k \in Links : TRUE
    BY <1>2
  <2>2. QED
    BY <2>1, DistributeFacts
<1>3. QED
  BY <1>1, <1>2

LEMMA TypeStep == TypeOK /\ DistOK /\ [Next]_vars => TypeOK'
<1> SUFFICES ASSUME TypeOK, DistOK, [Next]_vars PROVE TypeOK'
  OBVIOUS
<1>0. SubTypeOK' /\ DataOK
  BY StepIsSubStep, SubTypeStep DEF TypeOK, DataOK
<1>1. ASSUME UNCHANGED dataVars PROVE DataOK'
  BY <1>0, <1>1 DEF dataVars, DataOK
<1>2. ASSUME NEW s \in Subs, NEW p \in Pubs, Leave(s, p) PROVE DataOK'
  <2>1. <<s, p>> \in Links /\ <<>> \in Seq(Frames)
    BY DEF Links
  <2>2. QED
    BY <1>0, <1>2, <2>1 DEF Leave, Detach, DataOK
<1>3. ASSUME NEW l \in Links, Attach(l) PROVE DataOK'
  <2>1. eligible' \subseteq Links
    BY <1>0, <1>3 DEF Attach, DataOK
  <2>2. UNCHANGED <<sent, more, hwm, matching, inflight, stream, got>>
    BY <1>3 DEF Attach
  <2>3. QED
    BY <1>0, <2>1, <2>2 DEF DataOK
<1>4. ASSUME NEW l \in Links, Break(l) PROVE DataOK'
  <2>1. /\ stream' \in [Links -> Seq(Frames)] /\ Detach(l)
        /\ UNCHANGED <<sent, more, hwm, got>>
    BY <1>4, BreakFacts
  <2>2. QED
    BY <1>0, <2>1 DEF Detach, DataOK
<1>5. ASSUME NEW l \in Links, Acknowledge(l) PROVE DataOK'
  <2>1. PICK n \in 0..inflight[l] - 1 : inflight' = [inflight EXCEPT ![l] = n]
    BY <1>5 DEF Acknowledge
  <2>2. /\ eligible' = eligible \cup {l}
        /\ UNCHANGED <<sent, more, hwm, matching, stream, got>>
    BY <1>5 DEF Acknowledge
  <2>3. n \in Nat /\ inflight' \in [Links -> Nat]
    BY <1>0, <2>1 DEF DataOK
  <2>4. QED
    BY <1>0, <2>2, <2>3 DEF DataOK
<1>6. ASSUME NEW l \in Links, Receive(l) PROVE DataOK'
  BY <1>0, <1>6, ReceiveFacts DEF DataOK
<1>7. ASSUME NEW p \in Pubs, NEW m \in BOOLEAN, SendNext(p, m) PROVE DataOK'
  <2> DEFINE targets == matching \cap PipesOf(p)
             frame == [msg |-> Len(sent[p]), part |-> sent[p][Len(sent[p])].parts + 1,
                       more |-> m]
  <2>1. /\ targets \subseteq PipesOf(p) /\ frame \in Frames
        /\ Distribute(p, targets, frame)
        /\ sent' \in [Pubs -> Seq(Msgs)] /\ more' \in [Pubs -> BOOLEAN]
        /\ UNCHANGED <<subVars, hwm, got>>
    BY <1>7, SendNextFacts
  <2> HIDE DEF targets, frame
  <2>2. QED
    BY <1>0, <2>1, DistributeType DEF Msgs, DataOK
<1>8. ASSUME NEW p \in Pubs, NEW m \in BOOLEAN, NEW t \in Topics, SendFirst(p, t, m)
      PROVE  DataOK'
  <2> DEFINE targets == {l \in eligible \cap PipesOf(p) : Wanted(trie[l], t)}
             frame == [msg |-> Len(sent[p]) + 1, part |-> 1, more |-> m]
  <2>1. /\ targets \subseteq PipesOf(p) /\ frame \in Frames
        /\ Distribute(p, targets, frame)
        /\ sent' \in [Pubs -> Seq(Msgs)] /\ more' \in [Pubs -> BOOLEAN]
        /\ UNCHANGED <<subVars, hwm, got>>
    BY <1>8, SendFirstFacts
  <2> HIDE DEF targets, frame
  <2>2. QED
    BY <1>0, <2>1, DistributeType DEF Msgs, DataOK
<1>9. ASSUME NEW p \in Pubs, NEW h \in Hwms, SetSendHighWaterMark(p, h) PROVE DataOK'
  BY <1>0, <1>9 DEF SetSendHighWaterMark, DataOK
<1>10. ASSUME UNCHANGED vars PROVE DataOK'
  <2>1. UNCHANGED dataVars
    BY <1>10 DEF vars
  <2>2. QED
    BY <1>1, <2>1
<1>11. ASSUME Subscribe PROVE DataOK'
  <2>1. UNCHANGED dataVars
    BY <1>11 DEF Subscribe
  <2>2. QED
    BY <1>1, <2>1
<1>12. DataOK'
  BY <1>2, <1>3, <1>4, <1>5, <1>6, <1>7, <1>8, <1>9, <1>10, <1>11 DEF Next
<1>13. QED
  BY <1>0, <1>12 DEF TypeOK, DataOK

-----------------------------------------------------------------------------
(* The sets of dist_t. *)

(* A frame keeps the sets of the distribution in order. *)
LEMMA DistributeKeepsDist ==
    ASSUME TypeOK, DistOK, NEW p \in Pubs, NEW targets,
           targets \subseteq PipesOf(p), targets \subseteq eligible,
           NEW frame \in Frames, Distribute(p, targets, frame),
           UNCHANGED link, more'[p] = frame.more, sent'[p] # <<>>,
           \A r \in Pubs \ {p} : sent'[r] = sent[r] /\ more'[r] = more[r]
    PROVE  DistOK'
<1>1. eligible \subseteq Links /\ matching \subseteq Links
  BY DEF TypeOK
<1>2. \A k \in Links : k[2] \in Pubs /\ (k \in PipesOf(p) => k[2] = p)
  BY DEF Links, PipesOf
<1>3. /\ matching \subseteq eligible
      /\ \A k \in eligible : link[k] = "up"
      /\ \A k \in matching : more[k[2]]
      /\ \A r \in Pubs : more[r] => sent[r] # <<>>
  BY DEF DistOK
<1>4. eligible' \subseteq Links /\ matching' \subseteq Links
  BY DistributeType
<1>5. \A k \in Links :
         /\ k \in eligible' <=> k \in eligible /\ ~(k \in targets /\ Full(k))
         /\ k[2] = p => (k \in matching' <=> frame.more /\ k \in targets /\ ~Full(k))
         /\ k[2] # p => (k \in matching' <=> k \in matching)
  BY DistributeFacts
<1>6. \A k \in matching' : k \in eligible' /\ more'[k[2]]
  <2>1. SUFFICES ASSUME NEW k \in matching' PROVE k \in eligible' /\ more'[k[2]]
    OBVIOUS
  <2>2. k \in Links
    BY <1>4
  <2>3. CASE k[2] = p
    BY <1>5, <2>2, <2>3
  <2>4. CASE k[2] # p
    <3>1. k \in matching /\ k \in eligible /\ more[k[2]]
      BY <1>3, <1>5, <2>2, <2>4
    <3>2. k \notin targets
      BY <1>2, <2>2, <2>4
    <3>3. QED
      BY <1>2, <1>5, <2>2, <2>4, <3>1, <3>2
  <2>5. QED
    BY <2>3, <2>4
<1>7. \A k \in eligible' : link'[k] = "up"
  BY <1>3, <1>4, <1>5
<1>8. \A r \in Pubs : more'[r] => sent'[r] # <<>>
  BY <1>3
<1>9. QED
  BY <1>6, <1>7, <1>8 DEF DistOK

LEMMA DistStep == TypeOK /\ DistOK /\ [Next]_vars => DistOK'
<1> SUFFICES ASSUME TypeOK, DistOK, [Next]_vars PROVE DistOK'
  OBVIOUS
<1>0. /\ eligible \subseteq Links /\ matching \subseteq Links
      /\ link \in [Links -> {"none", "down", "up"}]
  BY DEF TypeOK, SubTypeOK
<1>1. ASSUME UNCHANGED <<sent, more, eligible, matching>>,
             \A l \in Links : link[l] = "up" => link'[l] = "up"
      PROVE  DistOK'
  BY <1>0, <1>1 DEF DistOK
<1>2. ASSUME NEW l \in Links, Detach(l), UNCHANGED <<sent, more>>,
             \A k \in Links \ {l} : link'[k] = link[k]
      PROVE  DistOK'
  BY <1>0, <1>2 DEF DistOK, Detach
<1>3. ASSUME Subscribe PROVE DistOK'
  <2>1. UNCHANGED <<sent, more, eligible, matching>>
    BY <1>3 DEF Subscribe, dataVars
  <2>2. ASSUME NEW s \in Subs, NEW p \in Pubs, Connect(s, p)
        PROVE  \A l \in Links : link[l] = "up" => link'[l] = "up"
    BY <1>0, <2>2 DEF Connect, Links
  <2>3. ASSUME NEW s \in Subs, NEW f \in Filters, AddFilter(s, f) \/ RemoveFilter(s, f)
        PROVE  UNCHANGED link
    BY <2>3 DEF AddFilter, RemoveFilter
  <2>4. ASSUME NEW s \in Subs, RemoveAllFilters(s) PROVE UNCHANGED link
    BY <2>4 DEF RemoveAllFilters
  <2>5. ASSUME NEW l \in Links, ProcessHiccup(l) \/ ProcessCommand(l) PROVE UNCHANGED link
    BY <2>5 DEF ProcessHiccup, ProcessCommand
  <2>6. \A l \in Links : link[l] = "up" => link'[l] = "up"
    BY <1>3, <2>2, <2>3, <2>4, <2>5 DEF Subscribe
  <2>7. QED
    BY <1>1, <2>1, <2>6
<1>4. ASSUME NEW s \in Subs, NEW p \in Pubs, Leave(s, p) PROVE DistOK'
  <2>1. <<s, p>> \in Links
    BY DEF Links
  <2>2. \A k \in Links \ {<<s, p>>} : link'[k] = link[k]
    BY <1>0, <1>4 DEF Leave, Disconnect
  <2>3. QED
    BY <1>2, <1>4, <2>1, <2>2 DEF Leave
<1>5. ASSUME NEW l \in Links, Attach(l) PROVE DistOK'
  BY <1>0, <1>5 DEF Attach, Establish, DistOK
<1>6. ASSUME NEW l \in Links, Break(l) PROVE DistOK'
  <2>1. \A k \in Links \ {l} : link'[k] = link[k]
    BY <1>0, <1>6 DEF Break, LinkDown
  <2>2. QED
    BY <1>2, <1>6, <2>1 DEF Break
<1>7. ASSUME NEW l \in Links, Acknowledge(l) PROVE DistOK'
  BY <1>0, <1>7 DEF Acknowledge, subVars, DistOK
<1>8. ASSUME NEW l \in Links, Receive(l) PROVE DistOK'
  <2>1. UNCHANGED <<link, sent, more, eligible, matching>>
    BY <1>8 DEF Receive, subVars
  <2>2. QED
    BY <1>1, <2>1
<1>9. ASSUME NEW p \in Pubs, NEW m \in BOOLEAN, SendNext(p, m) PROVE DistOK'
  <2> DEFINE n == Len(sent[p])
             targets == matching \cap PipesOf(p)
             frame == [msg |-> n, part |-> sent[p][n].parts + 1, more |-> m]
  <2>1. /\ targets \subseteq PipesOf(p) /\ targets \subseteq eligible
        /\ frame \in Frames /\ frame.more = m
        /\ Distribute(p, targets, frame)
        /\ more'[p] = m /\ Len(sent'[p]) > 0
        /\ \A r \in Pubs \ {p} : sent'[r] = sent[r] /\ more'[r] = more[r]
        /\ UNCHANGED subVars
    BY <1>9, SendNextFacts
  <2> HIDE DEF targets, frame
  <2>2. UNCHANGED link /\ sent'[p] # <<>>
    BY <2>1 DEF subVars
  <2>3. QED
    BY <2>1, <2>2, DistributeKeepsDist
<1>10. ASSUME NEW p \in Pubs, NEW m \in BOOLEAN, NEW t \in Topics, SendFirst(p, t, m)
       PROVE  DistOK'
  <2> DEFINE targets == {l \in eligible \cap PipesOf(p) : Wanted(trie[l], t)}
             frame == [msg |-> Len(sent[p]) + 1, part |-> 1, more |-> m]
  <2>1. /\ targets \subseteq PipesOf(p) /\ targets \subseteq eligible
        /\ frame \in Frames /\ frame.more = m
        /\ Distribute(p, targets, frame)
        /\ more'[p] = m
        /\ sent'[p] = Append(sent[p], [topic |-> t, parts |-> 1])
        /\ \A r \in Pubs \ {p} : sent'[r] = sent[r] /\ more'[r] = more[r]
        /\ UNCHANGED subVars
    BY <1>10, SendFirstFacts
  <2> HIDE DEF targets, frame
  <2>2. sent[p] \in Seq(Msgs)
    BY DEF TypeOK, Msgs
  <2>3. UNCHANGED link /\ sent'[p] # <<>>
    BY <2>1, <2>2 DEF subVars
  <2>4. QED
    BY <2>1, <2>3, DistributeKeepsDist
<1>11. ASSUME NEW p \in Pubs, NEW h \in Hwms, SetSendHighWaterMark(p, h) PROVE DistOK'
  <2>1. UNCHANGED <<link, sent, more, eligible, matching>>
    BY <1>11 DEF SetSendHighWaterMark, subVars
  <2>2. QED
    BY <1>1, <2>1
<1>12. ASSUME UNCHANGED vars PROVE DistOK'
  <2>1. UNCHANGED <<link, sent, more, eligible, matching>>
    BY <1>12 DEF vars, subVars, dataVars
  <2>2. QED
    BY <1>1, <2>1
<1>13. QED
  BY <1>3, <1>4, <1>5, <1>6, <1>7, <1>8, <1>9, <1>10, <1>11, <1>12 DEF Next

(* Whatever is sent, refused, lost and reconnected, only pipes of live     *)
(* connections take part in the distribution, and a pipe is matching only  *)
(* while its publisher has a message to finish.                            *)
THEOREM DistCorrect == Spec => [](TypeOK /\ DistOK)
<1>1. Init => TypeOK /\ DistOK
  BY InitType DEF Init, DistOK
<1>2. TypeOK /\ DistOK /\ [Next]_vars => (TypeOK /\ DistOK)'
  BY TypeStep, DistStep
<1>3. QED
  BY <1>1, <1>2, PTL DEF Spec

(* Every variable of PubSub keeps its type.                                *)
THEOREM TypeCorrect == Spec => []TypeOK
BY DistCorrect, PTL

-----------------------------------------------------------------------------
(* A pipe in the middle of a message has room, if marks change only        *)
(* between messages.                                                       *)

LEMMA DistributeKeepsRoom ==
    ASSUME TypeOK, RoomKept, NEW p \in Pubs, NEW targets, targets \subseteq PipesOf(p),
           NEW frame \in Frames, Distribute(p, targets, frame), UNCHANGED hwm
    PROVE  RoomKept'
<1>1. SUFFICES ASSUME NEW k \in matching' PROVE ~Full(k)'
  BY DEF RoomKept
<1>2. k \in Links
  BY DistributeType
<1>3. /\ k[2] = p => frame.more /\ k \in targets /\ ~Full(k)
      /\ k[2] # p => k \in matching
      /\ inflight'[k] = IF k \in targets /\ ~Full(k) /\ ~frame.more
                        THEN inflight[k] + 1 ELSE inflight[k]
  BY <1>2, DistributeFacts
<1>4. k \in targets => k[2] = p
  BY <1>2 DEF PipesOf
<1>5. ~Full(k) /\ inflight'[k] = inflight[k]
  BY <1>3, <1>4 DEF RoomKept
<1>6. QED
  BY <1>5 DEF Full

LEMMA RoomStep ==
    ASSUME ~MidMessage, TypeOK, DistOK, RoomKept, [Next]_vars
    PROVE  RoomKept'
<1>0. /\ matching \subseteq Links /\ hwm \in [Pubs -> Hwms] /\ Hwms \subseteq Nat
      /\ inflight \in [Links -> Nat] /\ \A l \in Links : l[2] \in Pubs
  BY DataAssumption DEF TypeOK, Links
<1>1. ASSUME UNCHANGED <<hwm, matching, inflight>> PROVE RoomKept'
  BY <1>1 DEF RoomKept, Full
<1>2. ASSUME NEW l \in Links, Detach(l), UNCHANGED hwm PROVE RoomKept'
  BY <1>0, <1>2 DEF RoomKept, Full, Detach
<1>3. ASSUME NEW l \in Links, Acknowledge(l) PROVE RoomKept'
  <2>1. PICK n \in 0..inflight[l] - 1 : inflight' = [inflight EXCEPT ![l] = n]
    BY <1>3 DEF Acknowledge
  <2>2. UNCHANGED <<hwm, matching>>
    BY <1>3 DEF Acknowledge
  <2>3. \A k \in Links : inflight'[k] \in Nat /\ inflight'[k] <= inflight[k]
    BY <1>0, <2>1
  <2>4. \A k \in Links : hwm[k[2]] \in Nat /\ inflight[k] \in Nat
    BY <1>0
  <2>5. SUFFICES ASSUME NEW k \in matching' PROVE ~Full(k)'
    BY DEF RoomKept
  <2>6. k \in Links /\ ~Full(k)
    BY <1>0, <2>2 DEF RoomKept
  <2>7. QED
    BY <2>2, <2>3, <2>4, <2>6 DEF Full
<1>4. ASSUME NEW p \in Pubs, NEW h \in Hwms, SetSendHighWaterMark(p, h) PROVE RoomKept'
  <2>1. /\ ~more[p] /\ hwm' = [hwm EXCEPT ![p] = h]
        /\ UNCHANGED <<matching, inflight>>
    BY <1>4 DEF SetSendHighWaterMark
  <2>2. SUFFICES ASSUME NEW k \in matching' PROVE ~Full(k)'
    BY DEF RoomKept
  <2>3. k \in Links /\ more[k[2]] /\ ~Full(k)
    BY <1>0, <2>1 DEF DistOK, RoomKept
  <2>4. hwm'[k[2]] = hwm[k[2]]
    BY <1>0, <2>1, <2>3
  <2>5. QED
    BY <2>1, <2>3, <2>4 DEF Full
<1>5. ASSUME NEW p \in Pubs, NEW m \in BOOLEAN, SendNext(p, m) PROVE RoomKept'
  <2> DEFINE n == Len(sent[p])
             targets == matching \cap PipesOf(p)
             frame == [msg |-> n, part |-> sent[p][n].parts + 1, more |-> m]
  <2>1. /\ targets \subseteq PipesOf(p) /\ frame \in Frames
        /\ Distribute(p, targets, frame) /\ UNCHANGED hwm
    BY <1>5, SendNextFacts
  <2> HIDE DEF targets, frame
  <2>2. QED
    BY <2>1, DistributeKeepsRoom
<1>6. ASSUME NEW p \in Pubs, NEW m \in BOOLEAN, NEW t \in Topics, SendFirst(p, t, m)
      PROVE  RoomKept'
  <2> DEFINE targets == {l \in eligible \cap PipesOf(p) : Wanted(trie[l], t)}
             frame == [msg |-> Len(sent[p]) + 1, part |-> 1, more |-> m]
  <2>1. /\ targets \subseteq PipesOf(p) /\ frame \in Frames
        /\ Distribute(p, targets, frame) /\ UNCHANGED hwm
    BY <1>6, SendFirstFacts
  <2> HIDE DEF targets, frame
  <2>2. QED
    BY <2>1, DistributeKeepsRoom
<1>7. ASSUME NEW s \in Subs, NEW p \in Pubs, Leave(s, p) PROVE RoomKept'
  <2>1. <<s, p>> \in Links
    BY DEF Links
  <2>2. QED
    BY <1>2, <1>7, <2>1 DEF Leave
<1>8. ASSUME NEW l \in Links, Break(l) PROVE RoomKept'
  BY <1>2, <1>8 DEF Break
<1>9. ASSUME NEW l \in Links, Attach(l) \/ Receive(l) PROVE RoomKept'
  <2>1. UNCHANGED <<hwm, matching, inflight>>
    BY <1>9 DEF Attach, Receive
  <2>2. QED
    BY <1>1, <2>1
<1>10. ASSUME Subscribe \/ UNCHANGED vars PROVE RoomKept'
  <2>1. UNCHANGED <<hwm, matching, inflight>>
    BY <1>10 DEF Subscribe, vars, dataVars
  <2>2. QED
    BY <1>1, <2>1
<1>11. QED
  BY <1>3, <1>4, <1>5, <1>6, <1>7, <1>8, <1>9, <1>10 DEF Next

-----------------------------------------------------------------------------
(* The queues. *)

QueueOn(l) == /\ QueueOK(stream[l], l \in matching, sent[l[2]], more[l[2]], got[l].msg)
              /\ got[l].msg <= Len(sent[l[2]])

QueuesOK == \A l \in Links : QueueOn(l)

(* The parts of a link's state that QueueOn looks at. *)
LEMMA QueueTypes ==
    ASSUME TypeOK, NEW l \in Links
    PROVE  /\ l[2] \in Pubs
           /\ stream[l] \in Seq(Frames) /\ sent[l[2]] \in Seq(Msgs)
           /\ more[l[2]] \in BOOLEAN /\ (l \in matching) \in BOOLEAN
           /\ got[l].msg \in Nat /\ Len(sent[l[2]]) \in Nat
<1>1. l[2] \in Pubs
  BY DEF Links
<1>2. stream[l] \in Seq(Frames) /\ sent[l[2]] \in Seq(Msgs) /\ more[l[2]] \in BOOLEAN
  BY <1>1 DEF TypeOK, Msgs
<1>3. got[l] \in [msg : Nat, parts : Nat]
  BY DEF TypeOK
<1>4. QED
  BY <1>1, <1>2, <1>3

LEMMA QueueUnchanged ==
    ASSUME NEW l, QueueOn(l), stream'[l] = stream[l], (l \in matching') = (l \in matching),
           sent'[l[2]] = sent[l[2]], more'[l[2]] = more[l[2]], got'[l] = got[l]
    PROVE  QueueOn(l)'
BY DEF QueueOn

LEMMA QueueSendFirst ==
    ASSUME TypeOK, DistOK, QueuesOK, NEW p \in Pubs, NEW t \in Topics, NEW m \in BOOLEAN,
           SendFirst(p, t, m), NEW l \in Links
    PROVE  QueueOn(l)'
<1> DEFINE targets == {k \in eligible \cap PipesOf(p) : Wanted(trie[k], t)}
           frame == [msg |-> Len(sent[p]) + 1, part |-> 1, more |-> m]
           new == Append(sent[p], [topic |-> t, parts |-> 1])
<1>1. /\ targets \subseteq PipesOf(p) /\ frame \in Frames /\ frame.more = m
      /\ Distribute(p, targets, frame)
      /\ ~more[p] /\ more'[p] = m /\ sent'[p] = new
      /\ \A r \in Pubs \ {p} : sent'[r] = sent[r] /\ more'[r] = more[r]
      /\ UNCHANGED got
  BY SendFirstFacts
<1>2. /\ l[2] = p => (l \in matching' <=> frame.more /\ l \in targets /\ ~Full(l))
      /\ l[2] # p => (l \in matching' <=> l \in matching)
      /\ stream'[l] = IF l \in targets /\ ~Full(l) THEN Append(stream[l], frame)
                                                 ELSE stream[l]
  <2> HIDE DEF targets, frame
  <2>1. QED
    BY <1>1, DistributeFacts
<1>3. l \in targets => l[2] = p
  BY DEF PipesOf
<1> HIDE DEF targets
<1>4. l[2] \in Pubs /\ QueueOn(l)
  BY QueueTypes DEF QueuesOK
<1>5. CASE l[2] # p
  BY <1>1, <1>2, <1>3, <1>4, <1>5, QueueUnchanged
<1>6. CASE l[2] = p
  <2>1. l \notin matching /\ more[p] = FALSE
    BY <1>1, <1>6 DEF DistOK
  <2>2. QueueOK(stream[l], FALSE, sent[p], FALSE, got[l].msg)
    <3>1. (l \in matching) = FALSE /\ more[l[2]] = FALSE /\ sent[l[2]] = sent[p]
      BY <1>6, <2>1, QueueTypes
    <3>2. QueueOK(stream[l], l \in matching, sent[l[2]], more[l[2]], got[l].msg)
      BY <1>4 DEF QueueOn
    <3>3. QED
      BY <3>1, <3>2
  <2>3. /\ stream[l] \in Seq(Frames) /\ sent[p] \in Seq(Msgs)
        /\ got[l].msg \in Nat /\ Len(sent[p]) \in Nat /\ got[l].msg <= Len(sent[p])
    BY <1>4, <1>6, QueueTypes DEF QueueOn
  <2>4. got'[l].msg <= Len(sent'[p])
    BY <1>1, <2>3
  <2>5. CASE l \in targets /\ ~Full(l)
    <3>1. QueueOK(Append(stream[l], frame), m, new, m, got[l].msg)
      BY <2>2, <2>3, WriteFirst
    <3>2. (l \in matching') = m /\ stream'[l] = Append(stream[l], frame)
      BY <1>1, <1>2, <1>6, <2>5
    <3>3. QED
      BY <1>1, <1>6, <2>4, <3>1, <3>2 DEF QueueOn
  <2>6. CASE ~(l \in targets /\ ~Full(l))
    <3>1. QueueOK(stream[l], FALSE, new, m, got[l].msg)
      BY <2>2, <2>3, SkipFirst
    <3>2. (l \in matching') = FALSE /\ stream'[l] = stream[l]
      BY <1>1, <1>2, <1>6, <2>6
    <3>3. QED
      BY <1>1, <1>6, <2>4, <3>1, <3>2 DEF QueueOn
  <2>7. QED
    BY <2>5, <2>6
<1>7. QED
  BY <1>5, <1>6

LEMMA QueueSendNext ==
    ASSUME TypeOK, DistOK, RoomKept, QueuesOK, NEW p \in Pubs, NEW m \in BOOLEAN,
           SendNext(p, m), NEW l \in Links
    PROVE  QueueOn(l)'
<1> DEFINE n == Len(sent[p])
           h == sent[p][n].parts + 1
           targets == matching \cap PipesOf(p)
           frame == [msg |-> n, part |-> h, more |-> m]
           new == sent'[p]
<1>1. /\ targets \subseteq PipesOf(p) /\ frame \in Frames /\ frame.more = m
      /\ n \in Nat /\ n > 0 /\ h \in Nat
      /\ Distribute(p, targets, frame)
      /\ more[p] /\ more'[p] = m
      /\ new \in Seq(Msgs) /\ Len(new) = n
      /\ \A i \in 1..n - 1 : new[i] = sent[p][i]
      /\ new[n].parts = h
      /\ \A r \in Pubs \ {p} : sent'[r] = sent[r] /\ more'[r] = more[r]
      /\ UNCHANGED got
  BY SendNextFacts
<1>2. /\ l[2] = p => (l \in matching' <=> frame.more /\ l \in targets /\ ~Full(l))
      /\ l[2] # p => (l \in matching' <=> l \in matching)
      /\ stream'[l] = IF l \in targets /\ ~Full(l) THEN Append(stream[l], frame)
                                                 ELSE stream[l]
  <2>1. /\ targets \subseteq PipesOf(p) /\ frame \in Frames
        /\ Distribute(p, targets, frame)
    BY <1>1
  <2> HIDE DEF targets, frame
  <2>2. QED
    BY <2>1, DistributeFacts
<1>3. /\ l \in targets => l[2] = p /\ l \in matching
      /\ l[2] = p /\ l \in matching => l \in targets /\ ~Full(l)
  BY DEF PipesOf, RoomKept, Links
<1> HIDE DEF targets
<1>4. l[2] \in Pubs /\ QueueOn(l)
  BY QueueTypes DEF QueuesOK
<1>5. CASE l[2] # p
  BY <1>1, <1>2, <1>3, <1>4, <1>5, QueueUnchanged
<1>6. CASE l[2] = p
  <2>1. QueueOK(stream[l], l \in matching, sent[p], TRUE, got[l].msg)
    <3>1. more[l[2]] = TRUE /\ sent[l[2]] = sent[p]
      BY <1>1, <1>6, QueueTypes
    <3>2. QueueOK(stream[l], l \in matching, sent[l[2]], more[l[2]], got[l].msg)
      BY <1>4 DEF QueueOn
    <3>3. QED
      BY <3>1, <3>2
  <2>2. /\ stream[l] \in Seq(Frames) /\ sent[p] \in Seq(Msgs)
        /\ got[l].msg \in Nat /\ got[l].msg <= n
    BY <1>4, <1>6, QueueTypes DEF QueueOn
  <2>3. got'[l].msg <= Len(sent'[p])
    BY <1>1, <2>2
  <2>4. CASE l \in matching
    <3>1. QueueOK(stream[l], TRUE, sent[p], TRUE, got[l].msg)
      <4>1. (l \in matching) = TRUE
        BY <2>4
      <4>2. QED
        BY <2>1, <4>1
    <3>2. QueueOK(Append(stream[l], frame), m, new, m, got[l].msg)
      <4>1. /\ frame \in Frames /\ frame.msg = n /\ frame.part = h /\ frame.more = m
            /\ h = sent[p][n].parts + 1 /\ new[n].parts = h
        BY <1>1
      <4>2. /\ new \in Seq(Msgs) /\ Len(new) = n /\ n > 0
            /\ \A i \in 1..n - 1 : new[i] = sent[p][i]
        BY <1>1
      <4> HIDE DEF frame, new, h
      <4>3. QED
        BY <2>2, <3>1, <4>1, <4>2, WriteNext
    <3>3. (l \in matching') = m /\ stream'[l] = Append(stream[l], frame)
      BY <1>1, <1>2, <1>3, <1>6, <2>4
    <3>4. QED
      BY <1>1, <1>6, <2>3, <3>2, <3>3 DEF QueueOn
  <2>5. CASE l \notin matching
    <3>1. QueueOK(stream[l], FALSE, sent[p], TRUE, got[l].msg)
      <4>1. (l \in matching) = FALSE
        BY <2>5
      <4>2. QED
        BY <2>1, <4>1
    <3>2. QueueOK(stream[l], FALSE, new, m, got[l].msg)
      BY <1>1, <2>2, <3>1, SkipNext
    <3>3. (l \in matching') = FALSE /\ stream'[l] = stream[l]
      BY <1>1, <1>2, <1>3, <1>6, <2>5
    <3>4. QED
      BY <1>1, <1>6, <2>3, <3>2, <3>3 DEF QueueOn
  <2>6. QED
    BY <2>4, <2>5
<1>7. QED
  BY <1>5, <1>6

LEMMA QueueReceive ==
    ASSUME TypeOK, QueuesOK, NEW k \in Links, Receive(k), NEW l \in Links
    PROVE  QueueOn(l)'
<1> DEFINE q == stream[k]
<1>1. PICK n \in FirstEnds(q) :
        /\ stream' = [stream EXCEPT ![k] = SubSeq(q, n + 1, Len(q))]
        /\ \/ got' = got
           \/ got' = [got EXCEPT ![k] = [msg |-> q[1].msg, parts |-> n]]
  BY ReceiveFacts
<1>2. /\ UNCHANGED <<sent, more, matching>> /\ QueueOn(l) /\ QueueOn(k)
      /\ stream \in [Links -> Seq(Frames)] /\ got \in [Links -> [msg : Nat, parts : Nat]]
  BY ReceiveFacts DEF QueuesOK, TypeOK
<1>3. CASE l # k
  <2>1. stream'[l] = stream[l] /\ got'[l] = got[l]
    BY <1>1, <1>2, <1>3
  <2>2. QED
    BY <1>2, <2>1, QueueUnchanged
<1>4. CASE l = k
  <2>1. /\ q \in Seq(Frames) /\ sent[k[2]] \in Seq(Msgs) /\ more[k[2]] \in BOOLEAN
        /\ (k \in matching) \in BOOLEAN /\ got[k].msg \in Nat
    BY QueueTypes
  <2>2. QueueOK(q, k \in matching, sent[k[2]], more[k[2]], got[k].msg)
    BY <1>2 DEF QueueOn
  <2>3. 1 \in 1..Len(q)
    BY <2>1 DEF FirstEnds, Ends
  <2>4. q[1].msg \in 1..Len(sent[k[2]])
    BY <2>1, <2>2, <2>3, MsgBounds
  <2>5. got'[k].msg \in {got[k].msg, q[1].msg}
    BY <1>1, <1>2
  <2>6. QueueOK(SubSeq(q, n + 1, Len(q)), k \in matching, sent[k[2]], more[k[2]], got'[k].msg)
    BY <2>1, <2>2, <2>5, DropMessage
  <2>7. stream'[k] = SubSeq(q, n + 1, Len(q))
    BY <1>1, <1>2
  <2>8. got'[k].msg <= Len(sent[k[2]])
    BY <1>2, <2>4, <2>5 DEF QueueOn
  <2>9. QED
    BY <1>2, <1>4, <2>6, <2>7, <2>8 DEF QueueOn
<1>5. QED
  BY <1>3, <1>4

LEMMA QueueBreak ==
    ASSUME TypeOK, QueuesOK, NEW k \in Links, Break(k), NEW l \in Links
    PROVE  QueueOn(l)'
<1> DEFINE q == stream[k]
<1>1. PICK n \in Ends(q) \cup {0} : stream' = [stream EXCEPT ![k] = SubSeq(q, 1, n)]
  BY BreakFacts
<1>2. /\ UNCHANGED <<sent, more, got>> /\ matching' = matching \ {k}
      /\ QueueOn(l) /\ stream \in [Links -> Seq(Frames)]
  BY BreakFacts DEF QueuesOK, TypeOK, Detach
<1>3. CASE l # k
  <2>1. stream'[l] = stream[l] /\ (l \in matching') = (l \in matching)
    BY <1>1, <1>2, <1>3
  <2>2. QED
    BY <1>2, <2>1, QueueUnchanged
<1>4. CASE l = k
  <2>1. /\ q \in Seq(Frames) /\ sent[k[2]] \in Seq(Msgs) /\ more[k[2]] \in BOOLEAN
        /\ (k \in matching) \in BOOLEAN /\ got[k].msg \in Nat
    BY QueueTypes
  <2>2. QueueOK(q, k \in matching, sent[k[2]], more[k[2]], got[k].msg)
    BY <1>2, <1>4 DEF QueueOn
  <2>3. QueueOK(SubSeq(q, 1, n), FALSE, sent[k[2]], more[k[2]], got[k].msg)
    BY <2>1, <2>2, CutQueue
  <2>4. stream'[k] = SubSeq(q, 1, n)
    BY <1>1, <1>2
  <2>5. (k \in matching') = FALSE
    BY <1>2
  <2>6. got[k].msg <= Len(sent[k[2]])
    BY <1>2, <1>4 DEF QueueOn
  <2>7. QueueOn(k)'
    BY <1>2, <2>3, <2>4, <2>5, <2>6 DEF QueueOn
  <2>8. QED
    BY <1>4, <2>7
<1>5. QED
  BY <1>3, <1>4

LEMMA QueueStep ==
    ASSUME ~MidMessage, TypeOK, DistOK, RoomKept, QueuesOK, [Next]_vars
    PROVE  QueuesOK'
<1>1. SUFFICES ASSUME NEW l \in Links PROVE QueueOn(l)'
  BY DEF QueuesOK
<1>2. QueueOn(l) /\ l[2] \in Pubs
  BY QueueTypes DEF QueuesOK
<1>3. ASSUME UNCHANGED <<sent, more, matching, stream, got>> PROVE QueueOn(l)'
  BY <1>2, <1>3, QueueUnchanged
<1>4. ASSUME Subscribe \/ UNCHANGED vars PROVE QueueOn(l)'
  <2>1. UNCHANGED <<sent, more, matching, stream, got>>
    BY <1>4 DEF Subscribe, vars, dataVars
  <2>2. QED
    BY <1>3, <2>1
<1>5. ASSUME NEW k \in Links, Attach(k) \/ Acknowledge(k) PROVE QueueOn(l)'
  <2>1. UNCHANGED <<sent, more, matching, stream, got>>
    BY <1>5 DEF Attach, Acknowledge
  <2>2. QED
    BY <1>3, <2>1
<1>6. ASSUME NEW p \in Pubs, NEW h \in Hwms, SetSendHighWaterMark(p, h) PROVE QueueOn(l)'
  <2>1. UNCHANGED <<sent, more, matching, stream, got>>
    BY <1>6 DEF SetSendHighWaterMark
  <2>2. QED
    BY <1>3, <2>1
<1>7. ASSUME NEW s \in Subs, NEW p \in Pubs, Leave(s, p) PROVE QueueOn(l)'
  <2> DEFINE k == <<s, p>>
  <2>1. /\ UNCHANGED <<sent, more, got>> /\ matching' = matching \ {k}
        /\ stream' = [stream EXCEPT ![k] = <<>>]
    BY <1>7 DEF Leave, Detach
  <2>2. stream \in [Links -> Seq(Frames)]
    BY DEF TypeOK
  <2>3. CASE l # k
    <3>1. stream'[l] = stream[l] /\ (l \in matching') = (l \in matching)
      BY <2>1, <2>2, <2>3
    <3>2. QED
      BY <1>2, <2>1, <3>1, QueueUnchanged
  <2>4. CASE l = k
    <3>1. stream'[l] = <<>> /\ (l \in matching') = FALSE
      BY <2>1, <2>2, <2>4
    <3>2. QueueOK(<<>>, FALSE, sent'[l[2]], more'[l[2]], got'[l].msg)
      BY EmptyQueue
    <3>3. QED
      BY <1>2, <2>1, <3>1, <3>2 DEF QueueOn
  <2>5. QED
    BY <2>3, <2>4
<1>8. ASSUME NEW k \in Links, Break(k) PROVE QueueOn(l)'
  BY <1>8, QueueBreak
<1>9. ASSUME NEW k \in Links, Receive(k) PROVE QueueOn(l)'
  BY <1>9, QueueReceive
<1>10. ASSUME NEW p \in Pubs, NEW m \in BOOLEAN, SendNext(p, m) PROVE QueueOn(l)'
  BY <1>10, QueueSendNext
<1>11. ASSUME NEW p \in Pubs, NEW m \in BOOLEAN, NEW t \in Topics, SendFirst(p, t, m)
       PROVE  QueueOn(l)'
  BY <1>11, QueueSendFirst
<1>12. QED
  BY <1>4, <1>5, <1>6, <1>7, <1>8, <1>9, <1>10, <1>11 DEF Next

LEMMA QueueInit == Init => RoomKept /\ QueuesOK
<1> SUFFICES ASSUME Init PROVE RoomKept /\ QueuesOK
  OBVIOUS
<1>1. RoomKept
  BY DEF Init, RoomKept
<1>2. ASSUME NEW l \in Links PROVE QueueOn(l)
  <2>1. stream[l] = <<>> /\ (l \in matching) = FALSE /\ got[l].msg = 0
    BY DEF Init
  <2>2. sent[l[2]] = <<>>
    BY DEF Init, Links
  <2>3. QueueOK(<<>>, FALSE, sent[l[2]], more[l[2]], 0)
    BY EmptyQueue
  <2>4. 0 <= Len(sent[l[2]])
    BY <2>2
  <2>5. QueueOK(stream[l], l \in matching, sent[l[2]], more[l[2]], got[l].msg)
    BY <2>1, <2>3
  <2>6. QED
    BY <2>1, <2>4, <2>5 DEF QueueOn
<1>3. QED
  BY <1>1, <1>2 DEF QueuesOK

(* The inductive invariant. *)
QueueInv == TypeOK /\ DistOK /\ RoomKept /\ QueuesOK

(* The queue of a link, what a full pipe refuses and what a broken         *)
(* connection cuts off stay consistent as long as no high water mark       *)
(* changes within a message.                                               *)
THEOREM QueueCorrect == ~MidMessage => (Spec => []QueueInv)
<1> SUFFICES ASSUME ~MidMessage PROVE Spec => []QueueInv
  OBVIOUS
<1>1. Init => QueueInv
  BY InitType, QueueInit DEF Init, DistOK, QueueInv
<1>2. QueueInv /\ [Next]_vars => QueueInv'
  BY TypeStep, DistStep, RoomStep, QueueStep DEF QueueInv
<1>3. QED
  BY <1>1, <1>2, PTL DEF Spec

LEMMA QueuesAreWhole ==
    ASSUME TypeOK, QueuesOK
    PROVE  WholeMessages /\ InOrder
<1>1. ASSUME NEW l \in Links
      PROVE  LET q == stream[l]
                 p == l[2]
                 n == Len(q)
             IN  /\ \A i \in 1..n :
                       IF i > 1 /\ q[i - 1].more
                       THEN q[i].msg = q[i - 1].msg /\ q[i].part = q[i - 1].part + 1
                       ELSE q[i].part = 1
                 /\ \A i \in 1..n : ~q[i].more => q[i].part = sent[p][q[i].msg].parts
                 /\ n > 0 /\ q[n].more <=> l \in matching
                 /\ l \in matching => /\ more[p]
                                      /\ q[n].msg = Len(sent[p])
                                      /\ q[n].part = sent[p][Len(sent[p])].parts
  <2> DEFINE q == stream[l]
  <2>1. QueueOK(q, l \in matching, sent[l[2]], more[l[2]], got[l].msg) /\ q \in Seq(Frames)
    BY QueueTypes DEF QueuesOK, QueueOn
  <2> HIDE DEF q
  <2>2. \A i \in 1..Len(q) : i > 1 /\ q[i - 1].more =>
           q[i].msg = q[i - 1].msg /\ q[i].part = q[i - 1].part + 1
    <3>1. SUFFICES ASSUME NEW i \in 1..Len(q), i > 1, q[i - 1].more
                   PROVE  q[i].msg = q[i - 1].msg /\ q[i].part = q[i - 1].part + 1
      OBVIOUS
    <3>2. i - 1 \in 1..Len(q) /\ i - 1 <= i /\ i - (i - 1) = 1
      BY <2>1, <3>1
    <3>3. \A k \in i - 1..i - 1 : q[k].more
      BY <3>1
    <3>4. \A a, b \in 1..Len(q) : a <= b /\ (\A k \in a..b - 1 : q[k].more) =>
             q[b].msg = q[a].msg /\ q[b].part = q[a].part + (b - a)
      BY <2>1 DEF QueueOK
    <3>5. q[i].msg = q[i - 1].msg /\ q[i].part = q[i - 1].part + (i - (i - 1))
      BY <3>2, <3>3, <3>4
    <3>6. QED
      BY <3>2, <3>5
  <2>3. \A i \in 1..Len(q) : (i > 1 => ~q[i - 1].more) => q[i].part = 1
    BY <2>1 DEF QueueOK
  <2>4. \A i \in 1..Len(q) : ~q[i].more => q[i].part = sent[l[2]][q[i].msg].parts
    BY <2>1 DEF QueueOK
  <2>5. /\ Len(q) > 0 /\ q[Len(q)].more <=> l \in matching
        /\ l \in matching => /\ more[l[2]]
                             /\ q[Len(q)].msg = Len(sent[l[2]])
                             /\ q[Len(q)].part = sent[l[2]][Len(sent[l[2]])].parts
    BY <2>1 DEF QueueOK
  <2>6. QED
    BY <2>2, <2>3, <2>4, <2>5 DEF q
<1>2. ASSUME NEW l \in Links
      PROVE  LET q == stream[l]
                 p == l[2]
             IN  /\ \A i \in 1..Len(q) : got[l].msg < q[i].msg /\ q[i].msg <= Len(sent[p])
                 /\ \A i, j \in 1..Len(q) :
                       i < j => /\ q[i].msg <= q[j].msg
                                /\ ~q[i].more => q[i].msg < q[j].msg
                 /\ \A i \in 1..Len(q) : more[p] /\ ~q[i].more => q[i].msg < Len(sent[p])
  <2>1. QueueOK(stream[l], l \in matching, sent[l[2]], more[l[2]], got[l].msg)
    BY DEF QueuesOK, QueueOn
  <2>2. QED
    BY <2>1 DEF QueueOK
<1>3. QED
  BY <1>1, <1>2 DEF WholeMessages, InOrder

(* For every instance: queues hold whole messages.                         *)
THEOREM MessagesStayWhole == ~MidMessage => (Spec => []WholeMessages)
<1>1. QueueInv => WholeMessages
  BY QueuesAreWhole DEF QueueInv
<1>2. QED
  BY <1>1, QueueCorrect, PTL

(* For every instance: nothing arrives twice or out of order.              *)
THEOREM MessagesStayInOrder == ~MidMessage => (Spec => []InOrder)
<1>1. QueueInv => InOrder
  BY QueuesAreWhole DEF QueueInv
<1>2. QED
  BY <1>1, QueueCorrect, PTL

-----------------------------------------------------------------------------
(* The links keep the promise of Channel. *)

(* What a receiver takes is the message that was published, with all its   *)
(* parts.                                                                  *)
LEMMA FirstMessage ==
    ASSUME NEW q \in Seq(Frames), NEW m \in BOOLEAN, NEW S \in Seq(Msgs), NEW o \in BOOLEAN,
           NEW g \in Nat, QueueOK(q, m, S, o, g), NEW n \in FirstEnds(q)
    PROVE  /\ q[1].msg \in g + 1..Len(S)
           /\ q[1].msg = Len(S) => ~o
           /\ S[q[1].msg].parts = n
<1>1. n \in 1..Len(q) /\ 1 \in 1..Len(q) /\ ~q[n].more /\ 1 <= n
      /\ \A k \in 1..n - 1 : q[k].more
  BY DEF FirstEnds, Ends
<1>2. \A i, j \in 1..Len(q) : i <= j /\ (\A k \in i..j - 1 : q[k].more) =>
          q[j].msg = q[i].msg /\ q[j].part = q[i].part + (j - i)
  BY DEF QueueOK
<1>3. q[n].msg = q[1].msg /\ q[n].part = q[1].part + (n - 1)
  BY <1>1, <1>2
<1>4. q[1].part = 1
  BY <1>1 DEF QueueOK
<1>5. q[n].part = S[q[n].msg].parts
  BY <1>1 DEF QueueOK
<1>6. /\ q[1].msg \in 1..Len(S) /\ g < q[1].msg
      /\ o => q[n].msg \in 1..Len(S) - 1
  BY <1>1, MsgBounds
<1>7. q[1].msg \in g + 1..Len(S) /\ (q[1].msg = Len(S) => ~o)
  BY <1>3, <1>6
<1>8. S[q[1].msg].parts = n
  BY <1>1, <1>3, <1>4, <1>5
<1>9. QED
  BY <1>7, <1>8

LEMMA ChannelStep ==
    ASSUME QueueInv, [Next]_vars
    PROVE  [C!ChanNext]_(C!chanVars)
<1>0. TypeOK /\ DistOK /\ QueuesOK
  BY DEF QueueInv
<1>1. ASSUME UNCHANGED <<sent, more, got>> PROVE UNCHANGED C!chanVars
  BY <1>1 DEF C!chanVars
<1>2. ASSUME NEW p \in Pubs, NEW m \in BOOLEAN, NEW t \in Topics, SendFirst(p, t, m)
      PROVE  C!Begin(p, t)
  <2>1. UNCHANGED got
    BY <1>0, <1>2, SendFirstFacts
  <2>2. QED
    BY <1>2, <2>1 DEF SendFirst, C!Begin
<1>3. ASSUME NEW p \in Pubs, NEW m \in BOOLEAN, SendNext(p, m) PROVE C!Extend(p)
  <2>1. UNCHANGED got
    BY <1>0, <1>3, SendNextFacts
  <2>2. /\ more[p] /\ more' = [more EXCEPT ![p] = m]
        /\ sent' = [sent EXCEPT ![p][Len(sent[p])].parts = sent[p][Len(sent[p])].parts + 1]
    BY <1>3 DEF SendNext
  <2>3. sent' = [sent EXCEPT ![p][Len(sent[p])].parts = @ + 1]
    BY <2>2
  <2>4. QED
    BY <2>1, <2>2, <2>3 DEF C!Extend
<1>4. ASSUME NEW l \in Links, Receive(l) PROVE C!Deliver(l) \/ UNCHANGED C!chanVars
  <2> DEFINE q == stream[l]
             p == l[2]
  <2>1. PICK n \in FirstEnds(q) :
           \/ got' = got
           \/ got' = [got EXCEPT ![l] = [msg |-> q[1].msg, parts |-> n]]
    BY <1>0, <1>4, ReceiveFacts
  <2>2. UNCHANGED <<sent, more>>
    BY <1>4 DEF Receive
  <2>3. CASE got' = got
    BY <1>1, <2>2, <2>3
  <2>4. CASE got' = [got EXCEPT ![l] = [msg |-> q[1].msg, parts |-> n]]
    <3>1. /\ q \in Seq(Frames) /\ sent[p] \in Seq(Msgs) /\ more[p] \in BOOLEAN
          /\ (l \in matching) \in BOOLEAN /\ got[l].msg \in Nat
      BY <1>0, QueueTypes
    <3>2. QueueOK(q, l \in matching, sent[p], more[p], got[l].msg)
      BY <1>0 DEF QueuesOK, QueueOn
    <3>3. /\ q[1].msg \in got[l].msg + 1..Len(sent[p])
          /\ q[1].msg = Len(sent[p]) => ~more[p]
          /\ sent[p][q[1].msg].parts = n
      <4> DEFINE mm == l \in matching
                 S == sent[p]
                 o == more[p]
                 g == got[l].msg
      <4>1. /\ q \in Seq(Frames) /\ mm \in BOOLEAN /\ S \in Seq(Msgs) /\ o \in BOOLEAN
            /\ g \in Nat /\ QueueOK(q, mm, S, o, g) /\ n \in FirstEnds(q)
        BY <3>1, <3>2
      <4> HIDE DEF q, mm, S, o, g
      <4>2. q[1].msg \in g + 1..Len(S) /\ (q[1].msg = Len(S) => ~o)
            /\ S[q[1].msg].parts = n
        BY <4>1, FirstMessage
      <4>3. QED
        BY <4>2 DEF S, o, g
    <3> DEFINE k == q[1].msg
    <3>4. got' = [got EXCEPT ![l] = [msg |-> k, parts |-> sent[p][k].parts]]
      BY <2>4, <3>3
    <3>5. k \in got[l].msg + 1..Len(sent[p]) /\ (k = Len(sent[p]) => ~more[p])
      BY <3>3
    <3> HIDE DEF q, k
    <3>6. C!Deliver(l)
      BY <2>2, <3>4, <3>5 DEF C!Deliver
    <3>7. QED
      BY <3>6
  <2>5. QED
    BY <2>1, <2>3, <2>4
<1>5. ASSUME \/ Subscribe
             \/ UNCHANGED vars
             \/ \E s \in Subs, p \in Pubs : Leave(s, p)
             \/ \E l \in Links : Attach(l) \/ Break(l) \/ Acknowledge(l)
             \/ \E p \in Pubs, h \in Hwms : SetSendHighWaterMark(p, h)
      PROVE  UNCHANGED C!chanVars
  <2>1. UNCHANGED <<sent, more, got>>
    BY <1>5 DEF Subscribe, vars, dataVars, Leave, Attach, Break, Acknowledge,
                SetSendHighWaterMark
  <2>2. QED
    BY <1>1, <2>1
<1>6. QED
  <2>1. Links = Subs \X Pubs
    BY DEF Links
  <2>2. CASE \E l \in Links : Receive(l)
    BY <1>4, <2>1, <2>2 DEF C!ChanNext
  <2>3. CASE \E p \in Pubs, m \in BOOLEAN : \/ SendNext(p, m)
                                            \/ \E t \in Topics : SendFirst(p, t, m)
    BY <1>2, <1>3, <2>3 DEF C!ChanNext
  <2>4. QED
    BY <1>5, <2>2, <2>3 DEF Next

(* Whatever subscriptions come and go and connections break, a link        *)
(* delivers each message whole, at most once and in the order published,   *)
(* as long as no high water mark changes within a message.                 *)
THEOREM LinksAreChannels == ~MidMessage => (Spec => ImplementsChannel)
<1> SUFFICES ASSUME ~MidMessage PROVE Spec => ImplementsChannel
  OBVIOUS
<1>1. Init => C!ChanInit
  BY DEF Init, C!ChanInit, Links
<1>2. Spec => []QueueInv
  BY QueueCorrect
<1>3. QED
  BY <1>1, <1>2, ChannelStep, PTL DEF Spec, ImplementsChannel, C!ChanSpec

-----------------------------------------------------------------------------
(* Routing: the publisher's table is the subscriber's, once every command  *)
(* has been applied.                                                       *)
LEMMA SettledTable ==
    ASSUME TypeOK, Agreement, NEW l \in Links, Settled(l)
    PROVE  trie[l] = Live(l[1])
<1>1. cmds[l] = <<>> /\ Writable(l)
  BY DEF Settled, Writable
<1>2. trie[l] \subseteq Filters /\ Live(l[1]) \subseteq Filters
  BY DEF TypeOK, SubTypeOK, Live
<1>3. ASSUME NEW f \in Filters PROVE f \in trie[l] <=> f \in Live(l[1])
  <2>1. WillHold(cmds[l], trie[l], f) <=> f \in Live(l[1])
    BY <1>1 DEF Agreement
  <2>2. Len(cmds[l]) = 0
    BY <1>1
  <2>3. QED
    BY <2>1, <2>2 DEF WillHold
<1>4. QED
  BY <1>2, <1>3

LEMMA RoutesFirst ==
    ASSUME TypeOK, Agreement, NEW p \in Pubs, NEW t \in Topics, NEW m \in BOOLEAN,
           SendFirst(p, t, m)
    PROVE  Routes
<1> DEFINE targets == {k \in eligible \cap PipesOf(p) : Wanted(trie[k], t)}
           frame == [msg |-> Len(sent[p]) + 1, part |-> 1, more |-> m]
<1>1. /\ targets \subseteq PipesOf(p) /\ frame \in Frames
      /\ Distribute(p, targets, frame)
      /\ sent'[p] = Append(sent[p], [topic |-> t, parts |-> 1])
      /\ \A r \in Pubs \ {p} : sent'[r] = sent[r]
  BY SendFirstFacts
<1>2. SUFFICES ASSUME NEW l \in Links, Len(sent'[l[2]]) > Len(sent[l[2]]), Settled(l),
                      l \in eligible, ~Full(l)
               PROVE  (stream'[l] # stream[l])
                         <=> Wanted(Live(l[1]), sent'[l[2]][Len(sent'[l[2]])].topic)
  BY DEF Routes, Wanted
<1>3. l[2] \in Pubs /\ stream[l] \in Seq(Frames) /\ sent[p] \in Seq(Msgs)
      /\ Len(sent[l[2]]) \in Nat
  BY QueueTypes DEF TypeOK, Msgs
<1>4. l[2] = p
  BY <1>1, <1>2, <1>3
<1>5. sent'[p][Len(sent'[p])].topic = t
  BY <1>1, <1>3
<1>6. l \in PipesOf(p)
  BY <1>4 DEF PipesOf, Links
<1>7. l \in targets <=> Wanted(Live(l[1]), t)
  BY <1>2, <1>6, SettledTable
<1> HIDE DEF targets, frame
<1>8. stream'[l] = IF l \in targets THEN Append(stream[l], frame) ELSE stream[l]
  BY <1>1, <1>2, DistributeFacts
<1>9. Append(stream[l], frame) # stream[l]
  BY <1>1, <1>3, AppendFacts
<1>10. QED
  BY <1>4, <1>5, <1>7, <1>8, <1>9

LEMMA RoutesStep == TypeOK /\ DistOK /\ Agreement /\ [Next]_vars => [Routes]_vars
<1> SUFFICES ASSUME TypeOK, DistOK, Agreement, [Next]_vars PROVE [Routes]_vars
  OBVIOUS
<1>1. ASSUME NEW p \in Pubs, NEW t \in Topics, NEW m \in BOOLEAN, SendFirst(p, t, m)
      PROVE  Routes
  BY <1>1, RoutesFirst
<1>2. ASSUME \A r \in Pubs : Len(sent'[r]) = Len(sent[r]) PROVE Routes
  <2>1. \A l \in Links : l[2] \in Pubs /\ Len(sent[l[2]]) \in Nat
    BY QueueTypes
  <2>2. QED
    BY <1>2, <2>1 DEF Routes
<1>3. ASSUME NEW p \in Pubs, NEW m \in BOOLEAN, SendNext(p, m) PROVE Routes
  BY <1>2, <1>3, SendNextFacts
<1>4. ASSUME UNCHANGED sent PROVE Routes
  BY <1>2, <1>4
<1>5. ASSUME \/ Subscribe
             \/ UNCHANGED vars
             \/ \E s \in Subs, p \in Pubs : Leave(s, p)
             \/ \E l \in Links : Attach(l) \/ Break(l) \/ Acknowledge(l) \/ Receive(l)
             \/ \E p \in Pubs, h \in Hwms : SetSendHighWaterMark(p, h)
      PROVE  UNCHANGED sent
  BY <1>5 DEF Subscribe, vars, dataVars, Leave, Attach, Break, Acknowledge, Receive,
              SetSendHighWaterMark
<1>6. QED
  BY <1>1, <1>3, <1>4, <1>5 DEF Next

(* On every link whose commands have arrived, a message is routed by the   *)
(* subscriber's own filters, for any number of subscribers and whatever    *)
(* the pipes of the others refuse.                                         *)
THEOREM RoutesCorrectly == Spec => RoutesBySubscription
<1>1. Spec => [](TypeOK /\ DistOK)
  BY DistCorrect
<1>2. Spec => []Agreement
  BY PubSubAgrees
<1>3. QED
  BY <1>1, <1>2, RoutesStep, PTL DEF Spec, RoutesBySubscription
=============================================================================
