------------------------- MODULE PipeCounts_proofs -------------------------
(***************************************************************************)
(* What the ends of a pipe count: that the high water mark bounds the      *)
(* messages between them, for any marks, number of messages and of lost    *)
(* connections, and that an end which waits for the delimiter has read     *)
(* whatever was written when it goes.                                      *)
(*                                                                         *)
(* Tally relates the counters of both ends, the acknowledgements and marks *)
(* under way and the messages in the ypipes; Patient says of an end that   *)
(* it has not ended the pipe by itself.  Most of what the operators of     *)
(* Pipe do is Even: no message is written, read or dropped.  An operator   *)
(* has a lemma that it is, the others one that they keep Tally.            *)
(***************************************************************************)
EXTENDS Pipe_proofs

-----------------------------------------------------------------------------
(* Messages in a ypipe.                                                    *)

(* What is counted is finite. *)
LEMMA EndedIs ==
    ASSUME NEW s \in Seq(Frames)
    PROVE  /\ Ended(s) \in Nat /\ Ended(s) = Cardinality({i \in 1..Len(s) : s[i] = "end"})
           /\ IsFiniteSet({i \in 1..Len(s) : s[i] = "end"})
           /\ Ended(s) = 0 <=> \A i \in 1..Len(s) : s[i] # "end"
<1> DEFINE S == {i \in 1..Len(s) : s[i] = "end"}
<1>1. DOMAIN s = 1..Len(s) /\ Len(s) \in Nat
  OBVIOUS
<1>2. IsFiniteSet(S)
  <2>1. IsFiniteSet(1..Len(s))
    BY <1>1, FS_Interval
  <2>2. QED
    BY <2>1, FS_Subset
<1>3. Ended(s) = Cardinality(S)
  BY <1>1 DEF Ended
<1>4. Cardinality(S) = 0 <=> S = {}
  BY <1>2, FS_EmptySet
<1>5. Cardinality(S) \in Nat
  BY <1>2, FS_CardinalityType
<1>6. S = {} <=> \A i \in 1..Len(s) : s[i] # "end"
  OBVIOUS
<1>7. QED
  BY <1>2, <1>3, <1>4, <1>5, <1>6

(* A draft and the frame that ends it come after what is there. *)
LEMMA EndedJoin ==
    ASSUME NEW s \in Seq(Frames), NEW d \in Seq(Frames), \A j \in 1..Len(d) : d[j] = "more",
           NEW f \in Frames
    PROVE  Ended(s \o Append(d, f)) = IF f = "end" THEN Ended(s) + 1 ELSE Ended(s)
<1> DEFINE t == s \o Append(d, f)
           n == Len(s) + Len(d) + 1
           S == {i \in 1..Len(s) : s[i] = "end"}
           T == {i \in 1..Len(t) : t[i] = "end"}
<1>1. /\ t \in Seq(Frames) /\ Len(s) \in Nat /\ Len(d) \in Nat /\ Len(t) = n /\ n \in Nat
      /\ \A i \in 1..Len(s) : t[i] = s[i]
      /\ t[n] = f
      /\ \A i \in Len(s) + 1..n - 1 : t[i] = d[i - Len(s)] /\ i - Len(s) \in 1..Len(d)
  OBVIOUS
<1>2. /\ Ended(s) = Cardinality(S) /\ IsFiniteSet(S) /\ Cardinality(S) \in Nat
      /\ Ended(t) = Cardinality(T)
  BY <1>1, EndedIs
<1>3. \A i \in 1..n : i \in 1..Len(s) \/ i = n \/ i \in Len(s) + 1..n - 1
  <2>1. Len(s) \in Nat /\ n \in Nat
    BY <1>1
  <2> HIDE DEF n
  <2>2. QED
    BY <2>1
<1>4. n \notin S /\ n > Len(s) /\ \A i \in Len(s) + 1..n - 1 : t[i] = "more"
  BY <1>1
<1>5. t = s \o Append(d, f)
  OBVIOUS
<1> HIDE DEF t, n
<1>6. CASE f = "end"
  <2>1. T = S \cup {n}
    BY <1>1, <1>3, <1>4, <1>6
  <2> HIDE DEF S, T
  <2>2. Cardinality(T) = Cardinality(S) + 1
    BY <1>2, <1>4, <2>1, FS_AddElement
  <2>3. QED
    BY <1>2, <1>5, <1>6, <2>2
<1>7. CASE f # "end"
  <2>1. T = S
    BY <1>1, <1>3, <1>4, <1>7
  <2> HIDE DEF S, T
  <2>2. QED
    BY <1>2, <1>5, <1>7, <2>1
<1>8. QED
  BY <1>6, <1>7

(* The first frame is taken. *)
LEMMA EndedTail ==
    ASSUME NEW s \in Seq(Frames), s # <<>>
    PROVE  /\ Tail(s) \in Seq(Frames)
           /\ Ended(s) = IF Head(s) = "end" THEN Ended(Tail(s)) + 1 ELSE Ended(Tail(s))
<1> DEFINE n == Len(s)
           t == Tail(s)
           S == {i \in 1..Len(t) : t[i] = "end"}
           T == {i \in 1..n : s[i] = "end"}
           U == T \ {1}
           shift == [i \in S |-> i + 1]
<1>1. /\ n \in Nat \ {0} /\ Len(t) = n - 1 /\ Head(s) = s[1] /\ t \in Seq(Frames)
      /\ \A i \in 1..n - 1 : t[i] = s[i + 1]
  OBVIOUS
<1>2. /\ Ended(s) = Cardinality(T) /\ IsFiniteSet(T) /\ Cardinality(T) \in Nat
      /\ Ended(t) = Cardinality(S) /\ IsFiniteSet(S)
  BY <1>1, EndedIs
<1> HIDE DEF t, n
<1>3. shift \in Bijection(S, U)
  <2>1. shift \in [S -> U]
    BY <1>1
  <2>2. \A i, j \in S : shift[i] = shift[j] => i = j
    BY <1>1
  <2>3. ASSUME NEW j \in U PROVE \E i \in S : shift[i] = j
    <3>1. j \in 2..n /\ j - 1 \in 1..n - 1 /\ (j - 1) + 1 = j /\ s[j] = "end"
      BY <1>1
    <3>2. j - 1 \in S
      BY <1>1, <3>1
    <3>3. QED
      BY <3>1, <3>2
  <2>4. QED
    BY <2>1, <2>2, <2>3 DEF Bijection, Injection, Surjection, IsInjective
<1>4. Cardinality(U) = Cardinality(S)
  <2>1. ExistsBijection(S, U)
    BY <1>3 DEF ExistsBijection
  <2>2. QED
    BY <1>2, <2>1, FS_Bijection
<1>5. Cardinality(U) = (IF s[1] = "end" THEN Cardinality(T) - 1 ELSE Cardinality(T))
  <2>1. 1 \in T <=> s[1] = "end"
    BY <1>1
  <2>2. QED
    BY <1>2, <2>1, FS_RemoveElement
<1>6. t = Tail(s)
  BY DEF t
<1> HIDE DEF S, T, U
<1>7. QED
  BY <1>1, <1>2, <1>4, <1>5, <1>6

-----------------------------------------------------------------------------
(* What the ends count.                                                    *)

(* Nothing but delimiters comes after a delimiter. *)
Closing(s) ==
    \A i, j \in 1..Len(s) : i < j /\ s[i] = "delimiter" => s[j] = "delimiter"

(* What the commands under way to e count. *)
RowCounts(s, read) ==
    \A i \in 1..Len(s) : /\ s[i].type = "activate_write" => s[i].arg \in 0..read
                         /\ s[i].type = "pipe_hwm" => s[i].arg >= 0

(* What e has written, its peer has read or is still unread. *)
EndTally(q, k, e) ==
    LET x == q.ends[e]
        o == q.ends[Other(e)]
        unread == Ended(q.pipes[x.out].queue)
    IN  /\ x.lwm >= 0 /\ x.peersRead \in 0..o.read
        /\ RowCounts(q.cmds[e], o.read)
        /\ x.out # 0 /\ (x.state = "active" \/ k # "sub") => x.written = o.read + unread
        /\ x.out # 0 /\ x.hwm > 0 => unread <= x.hwm

(* A ypipe that the socket does not write to yet is empty, and without a   *)
(* hiccup there is none.                                                   *)
Tally(q, k) ==
    /\ \A e \in Ends : EndTally(q, k, e)
    /\ \A i \in 1..2 + MaxLosses : Closing(q.pipes[i].queue)
    /\ q.ends["socket"].out # 0 =>
          \A i \in 1..2 + MaxLosses : i > q.ends["socket"].out => q.pipes[i].queue = <<>>
    /\ k # "sub" => q.ends["session"].in = 2

(* An end that did not begin to terminate the pipe, and does not have to.  *)
Patient(q, e) ==
    LET x == q.ends[e] IN
    /\ x.state \notin {"term_req_sent1", "term_req_sent2"}
    /\ x.state \in {"active", "waiting_for_delimiter"} => x.delay
    /\ x.state = "delimiter_received" => Ended(Inbound(q, e)) = 0
    /\ x.state \in Silent => x.read = q.ends[Other(e)].written

-----------------------------------------------------------------------------
(* A change that no count notices.                                         *)

Counting == {"activate_write", "pipe_hwm"}

RowEven(s, d) ==
    \A i \in 1..Len(d) : d[i].type \in Counting => \E j \in 1..Len(s) : s[j] = d[i]

EndEven(x, y) ==
    /\ y.hwm = x.hwm /\ y.lwm = x.lwm /\ y.read = x.read
    /\ y.written = x.written /\ y.peersRead = x.peersRead
    /\ y.out = 0 \/ y.out = x.out
    /\ y.state = "active" => x.state = "active"

QueueEven(s, d, fixed) ==
    Ended(d) = Ended(s) /\ (Closing(s) => Closing(d)) /\ (fixed /\ s = <<>> => d = <<>>)

(* The ypipes whose reader may not find more in them. *)
Fixed(q, i) == i > 1 /\ i > q.ends["socket"].out

Even(q, n, k) ==
    /\ \A e \in Ends : RowEven(q.cmds[e], n.cmds[e]) /\ EndEven(q.ends[e], n.ends[e])
    /\ \A i \in 1..2 + MaxLosses : QueueEven(q.pipes[i].queue, n.pipes[i].queue, Fixed(q, i))
    /\ k # "sub" => n.ends["session"].in = q.ends["session"].in

(* Changes can be composed. *)
LEMMA EvenTrans ==
    ASSUME NEW k, NEW q \in PairType, NEW m \in PairType, NEW n \in PairType
    PROVE  Even(q, q, k) /\ (Even(q, m, k) /\ Even(m, n, k) => Even(q, n, k))
<1>1. \A s, d, r : RowEven(s, s) /\ (RowEven(s, d) /\ RowEven(d, r) => RowEven(s, r))
  BY DEF RowEven
<1>2. \A x, y, z : EndEven(x, x) /\ (EndEven(x, y) /\ EndEven(y, z) => EndEven(x, z))
  BY DEF EndEven
<1>3. Even(q, q, k)
  BY <1>1, <1>2 DEF Even, QueueEven
<1>4. ASSUME Even(q, m, k), Even(m, n, k) PROVE Even(q, n, k)
  <2>1. \A i \in 1..2 + MaxLosses : Fixed(q, i) => Fixed(m, i)
    <3>1. m.ends["socket"].out \in {0, q.ends["socket"].out}
      BY <1>4, Two DEF Even, EndEven
    <3>2. QED
      BY <3>1 DEF Fixed
  <2>2. \A i \in 1..2 + MaxLosses : QueueEven(q.pipes[i].queue, n.pipes[i].queue, Fixed(q, i))
    BY <1>4, <2>1 DEF Even, QueueEven
  <2>3. \A e \in Ends : RowEven(q.cmds[e], n.cmds[e]) /\ EndEven(q.ends[e], n.ends[e])
    BY <1>1, <1>2, <1>4 DEF Even
  <2>4. k # "sub" => n.ends["session"].in = q.ends["session"].in
    BY <1>4 DEF Even
  <2>5. QED
    BY <2>2, <2>3, <2>4 DEF Even
<1>5. QED
  BY <1>3, <1>4

(* They keep the tally, *)
LEMMA EvenTally ==
    ASSUME MaxLosses \in Nat, NEW k, NEW q \in PairType, NEW n \in PairType,
           Tally(q, k), Even(q, n, k)
    PROVE  Tally(n, k)
<1>1. ASSUME NEW e \in Ends PROVE EndTally(n, k, e)
  <2> DEFINE x == q.ends[e]
             y == n.ends[e]
  <2>1. /\ EndTally(q, k, e) /\ Other(e) \in Ends
        /\ RowEven(q.cmds[e], n.cmds[e]) /\ EndEven(x, y)
        /\ EndEven(q.ends[Other(e)], n.ends[Other(e)])
    BY Two DEF Tally, Even
  <2>2. n.ends[Other(e)].read = q.ends[Other(e)].read
    BY <2>1 DEF EndEven
  <2>3. RowCounts(n.cmds[e], n.ends[Other(e)].read)
    BY <2>1, <2>2 DEF EndTally, RowCounts, RowEven, Counting
  <2>4. y.lwm >= 0 /\ y.peersRead \in 0..n.ends[Other(e)].read
    BY <2>1, <2>2 DEF EndTally, EndEven
  <2>5. ASSUME y.out # 0
        PROVE  /\ y.out = x.out /\ Ended(n.pipes[y.out].queue) = Ended(q.pipes[x.out].queue)
               /\ x.out # 0
    <3>1. y.out = x.out
      BY <2>1, <2>5 DEF EndEven
    <3>2. x.out \in 0..2 + MaxLosses
      BY Typed
    <3>3. x.out \in 1..2 + MaxLosses /\ x.out # 0
      BY <2>5, <3>1, <3>2
    <3>4. QED
      BY <3>1, <3>3 DEF Even, QueueEven
  <2>6. y.out # 0 /\ (y.state = "active" \/ k # "sub") =>
            y.written = n.ends[Other(e)].read + Ended(n.pipes[y.out].queue)
    BY <2>1, <2>2, <2>5 DEF EndTally, EndEven
  <2>7. y.out # 0 /\ y.hwm > 0 => Ended(n.pipes[y.out].queue) <= y.hwm
    BY <2>1, <2>2, <2>5 DEF EndTally, EndEven
  <2>8. QED
    BY <2>3, <2>4, <2>6, <2>7 DEF EndTally
<1>2. \A i \in 1..2 + MaxLosses : Closing(n.pipes[i].queue)
  BY DEF Tally, Even, QueueEven
<1>3. ASSUME n.ends["socket"].out # 0, NEW i \in 1..2 + MaxLosses, i > n.ends["socket"].out
      PROVE  n.pipes[i].queue = <<>>
  <2>1. n.ends["socket"].out = q.ends["socket"].out /\ q.ends["socket"].out \in 0..2 + MaxLosses
    BY <1>3, Two, Typed DEF Even, EndEven
  <2>2. Fixed(q, i) /\ q.pipes[i].queue = <<>>
    BY <1>3, <2>1 DEF Fixed, Tally
  <2>3. QED
    BY <2>2 DEF Even, QueueEven
<1>4. k # "sub" => n.ends["session"].in = 2
  BY DEF Tally, Even
<1>5. QED
  BY <1>1, <1>2, <1>3, <1>4 DEF Tally

(* and an end whose state is as before is as patient as before. *)
LEMMA EvenPatient ==
    ASSUME MaxLosses \in Nat, NEW k, NEW q \in PairType, NEW n \in PairType,
           Even(q, n, k), NEW e \in Ends, Patient(q, e), n.ends[e].in = q.ends[e].in,
           n.ends[e].state = q.ends[e].state, n.ends[e].delay = q.ends[e].delay
    PROVE  Patient(n, e)
<1>1. Other(e) \in Ends /\ q.ends[e].in \in 1..2 + MaxLosses
  BY Two, Typed
<1>2. Ended(Inbound(n, e)) = Ended(Inbound(q, e))
  BY <1>1 DEF Even, QueueEven, Inbound
<1>3. n.ends[e].read = q.ends[e].read /\ n.ends[Other(e)].written = q.ends[Other(e)].written
  BY <1>1 DEF Even, EndEven
<1>4. QED
  BY <1>2, <1>3 DEF Patient

(* The tally, while the ends of D are patient. *)
Counts(q, k, D) == Tally(q, k) /\ \A e \in D : k # "sub" /\ Patient(q, e)

(* Both together. *)
LEMMA EvenCounts ==
    ASSUME MaxLosses \in Nat, NEW k, NEW q \in PairType, NEW n \in PairType,
           NEW D \in SUBSET Ends, Counts(q, k, D), Even(q, n, k),
           \A e \in D : /\ n.ends[e].in = q.ends[e].in
                        /\ n.ends[e].state = q.ends[e].state
                        /\ n.ends[e].delay = q.ends[e].delay
    PROVE  Counts(n, k, D)
<1>1. Tally(n, k)
  BY EvenTally DEF Counts
<1>2. ASSUME NEW e \in D PROVE k # "sub" /\ Patient(n, e)
  <2>1. e \in Ends /\ Patient(q, e) /\ k # "sub"
    BY DEF Counts
  <2>2. QED
    BY <2>1, EvenPatient
<1>3. QED
  BY <1>1, <1>2 DEF Counts

(* An end that has written nothing still has, while it is active. *)
Quiet(q, n) ==
    \A e \in Ends : n.ends[e].state = "active" =>
        q.ends[e].state = "active" /\ (q.ends[e].written = 0 => n.ends[e].written = 0)

(* An even change is quiet, and quiet changes can be composed. *)
LEMMA QuietIs ==
    ASSUME NEW k, NEW q, NEW m, NEW n
    PROVE  /\ Even(q, n, k) => Quiet(q, n)
           /\ Quiet(q, q) /\ (Quiet(q, m) /\ Quiet(m, n) => Quiet(q, n))
  BY DEF Even, EndEven, Quiet
(* The rows, and the ends, when no ypipe changes in what it holds. *)
LEMMA EvenIs ==
    ASSUME NEW k, NEW q \in PairType, NEW n \in PairType,
           \A x \in Ends : EndEven(q.ends[x], n.ends[x]),
           k # "sub" => n.ends["session"].in = q.ends["session"].in,
           \A x \in Ends : \/ n.cmds[x] = q.cmds[x]
                           \/ q.cmds[x] # <<>> /\ n.cmds[x] = Tail(q.cmds[x])
                           \/ \E c \in Commands : /\ c.type \notin Counting
                                                  /\ n.cmds[x] = Append(q.cmds[x], c),
           \A i \in 1..2 + MaxLosses : n.pipes[i].queue = q.pipes[i].queue
    PROVE  Even(q, n, k)
<1>1. ASSUME NEW x \in Ends PROVE RowEven(q.cmds[x], n.cmds[x])
  <2>1. q.cmds[x] \in Seq(Commands)
    BY Typed
  <2>2. CASE n.cmds[x] = q.cmds[x]
    BY <2>2 DEF RowEven
  <2>3. CASE q.cmds[x] # <<>> /\ n.cmds[x] = Tail(q.cmds[x])
    BY <2>1, <2>3, RowTaken DEF RowEven
  <2>4. ASSUME NEW c \in Commands, c.type \notin Counting, n.cmds[x] = Append(q.cmds[x], c)
        PROVE  RowEven(q.cmds[x], n.cmds[x])
    BY <2>1, <2>4 DEF RowEven
  <2>5. QED
    BY <2>2, <2>3, <2>4
<1>2. \A i \in 1..2 + MaxLosses : QueueEven(q.pipes[i].queue, n.pipes[i].queue, Fixed(q, i))
  BY DEF QueueEven
<1>3. QED
  BY <1>1, <1>2 DEF Even

(* Ypipe i is changed. *)
LEMMA EvenPipe ==
    ASSUME NEW k, NEW q \in PairType, NEW i \in 1..2 + MaxLosses, NEW y \in YpipeType,
           Ended(y.queue) = Ended(q.pipes[i].queue),
           Closing(q.pipes[i].queue) => Closing(y.queue),
           Fixed(q, i) /\ q.pipes[i].queue = <<>> => y.queue = <<>>,
           NEW n, Put(q, n, i, y)
    PROVE  /\ Even(q, n, k) /\ n \in PairType /\ n.ends = q.ends /\ n.cmds = q.cmds
           /\ n.pipes[i] = y
<1>1. /\ n \in PairType /\ n.pipes[i] = y
      /\ \A j \in 1..2 + MaxLosses : j # i => n.pipes[j] = q.pipes[j]
      /\ n.ends = q.ends /\ n.cmds = q.cmds
  BY YpipeIs DEF Put
<1>2. \A j \in 1..2 + MaxLosses : QueueEven(q.pipes[j].queue, n.pipes[j].queue, Fixed(q, j))
  BY <1>1 DEF QueueEven
<1>3. \A x \in Ends : RowEven(q.cmds[x], n.cmds[x]) /\ EndEven(q.ends[x], n.ends[x])
  BY <1>1 DEF RowEven, EndEven
<1>4. QED
  BY <1>1, <1>2, <1>3 DEF Even

(* An end is changed, but none of its counts and marks. *)
LEMMA EvenEnd ==
    ASSUME NEW k, NEW q \in PairType, NEW e \in Ends, NEW x \in EndType,
           EndEven(q.ends[e], x), e = "session" /\ k # "sub" => x.in = q.ends[e].in,
           NEW n, PutEnd(q, n, e, x)
    PROVE  /\ Even(q, n, k) /\ n \in PairType /\ n.ends[e] = x
           /\ n.ends[Other(e)] = q.ends[Other(e)] /\ n.pipes = q.pipes /\ n.cmds = q.cmds
<1>1. /\ n \in PairType /\ n.ends[e] = x /\ n.ends[Other(e)] = q.ends[Other(e)]
      /\ n.pipes = q.pipes /\ n.cmds = q.cmds
  BY EndIs DEF PutEnd
<1>2. \A z \in Ends : z = e \/ z = Other(e)
  BY Two
<1>3. \A z \in Ends : EndEven(q.ends[z], n.ends[z])
  BY <1>1, <1>2 DEF EndEven
<1>4. k # "sub" => n.ends["session"].in = q.ends["session"].in
  BY <1>1, <1>2, Two
<1>5. QED
  BY <1>1, <1>3, <1>4, EvenIs

(* A command that counts nothing is sent, *)
LEMMA EvenSend ==
    ASSUME NEW k, NEW q \in PairType, NEW e \in Ends, NEW arg \in Int,
           NEW t \in {"activate_read", "hiccup", "pipe_term", "pipe_term_ack", "term"},
           NEW n, n = Send(q, e, t, arg)
    PROVE  Even(q, n, k) /\ n \in PairType /\ n.ends = q.ends /\ n.pipes = q.pipes
<1> DEFINE c == [type |-> t, arg |-> arg]
<1>1. t \in Neutral \cup {"hiccup", "pipe_term", "pipe_term_ack", "term"}
  BY DEF Neutral
<1>2. /\ n \in PairType /\ n.ends = q.ends /\ n.pipes = q.pipes
      /\ n.cmds[e] = Append(q.cmds[e], c) /\ n.cmds[Other(e)] = q.cmds[Other(e)]
      /\ c \in Commands /\ c.type = t
  <2>1. /\ n \in PairType /\ c \in Commands /\ c.type = t
        /\ n.ends = q.ends /\ n.pipes = q.pipes /\ Sent(q, n, e, c)
    BY <1>1, SendIs
  <2>2. QED
    BY <2>1 DEF Sent
<1>3. c.type \notin Counting
  BY <1>2 DEF Counting
<1>4. \A x \in Ends : x = e \/ x = Other(e)
  BY Two
<1>5. \A x \in Ends : EndEven(q.ends[x], n.ends[x])
  BY <1>2 DEF EndEven
<1>6. \A x \in Ends : \/ n.cmds[x] = q.cmds[x]
                       \/ \E d \in Commands : /\ d.type \notin Counting
                                              /\ n.cmds[x] = Append(q.cmds[x], d)
  BY <1>2, <1>3, <1>4
<1> HIDE DEF c
<1>7. QED
  BY <1>2, <1>5, <1>6, EvenIs

(* or one is taken. *)
LEMMA EvenTaken ==
    ASSUME NEW k, NEW q \in PairType, NEW e \in Ends, NEW n, TakeFrom(q, n, e)
    PROVE  Even(q, n, k) /\ n \in PairType /\ n.ends = q.ends /\ n.pipes = q.pipes
<1>1. n \in PairType /\ n.ends = q.ends /\ n.pipes = q.pipes /\ Taken(q, n, e)
  BY TakenIs
<1>2. \A x \in Ends : x = e \/ x = Other(e)
  BY Two
<1>3. \A x \in Ends : EndEven(q.ends[x], n.ends[x])
  BY <1>1 DEF EndEven
<1>4. QED
  BY <1>1, <1>2, <1>3, EvenIs DEF Taken

-----------------------------------------------------------------------------
(* What the delimiter and a drafted message change in a queue.             *)

(* The last frame read was not one that ends a message; what comes after a *)
(* delimiter are delimiters.                                               *)
LEMMA ClosingTail ==
    ASSUME NEW s \in Seq(Frames), s # <<>>, Closing(s)
    PROVE  /\ Closing(Tail(s)) /\ Tail(s) \in Seq(Frames)
           /\ Head(s) = "delimiter" => Ended(s) = 0 /\ Ended(Tail(s)) = 0
           /\ Head(s) # "end" => Ended(Tail(s)) = Ended(s)
           /\ Ended(s) \in Nat
<1>1. /\ Len(s) \in Nat \ {0} /\ Len(Tail(s)) = Len(s) - 1 /\ Head(s) = s[1]
      /\ \A j \in 1..Len(Tail(s)) : j + 1 \in 1..Len(s) /\ Tail(s)[j] = s[j + 1]
  OBVIOUS
<1>2. Closing(Tail(s))
  BY <1>1 DEF Closing
<1>3. /\ Tail(s) \in Seq(Frames)
      /\ Ended(s) = IF Head(s) = "end" THEN Ended(Tail(s)) + 1 ELSE Ended(Tail(s))
  BY EndedTail
<1>4. /\ Ended(s) \in Nat
      /\ Ended(s) = 0 <=> \A i \in 1..Len(s) : s[i] # "end"
  BY EndedIs
<1>5. Head(s) = "delimiter" => Ended(s) = 0
  <2>1. ASSUME Head(s) = "delimiter", NEW i \in 1..Len(s) PROVE s[i] = "delimiter"
    <3>1. 1 \in 1..Len(s) /\ (i = 1 \/ 1 < i)
      BY <1>1
    <3>2. QED
      BY <1>1, <2>1, <3>1 DEF Closing
  <2>2. QED
    BY <1>4, <2>1
<1>6. QED
  BY <1>2, <1>3, <1>4, <1>5

(* The delimiter is added. *)
LEMMA ClosingDelimiter ==
    ASSUME NEW s \in Seq(Frames)
    PROVE  LET t == s \o Append(<<>>, "delimiter")
           IN  Ended(t) = Ended(s) /\ (Closing(s) => Closing(t))
<1> DEFINE t == s \o Append(<<>>, "delimiter")
<1>1. "delimiter" \in Frames
  BY DEF Frames
<1>2. Ended(t) = Ended(s)
  <2> DEFINE d == <<>>
  <2>1. d \in Seq(Frames) /\ \A j \in 1..Len(d) : d[j] = "more"
    OBVIOUS
  <2> HIDE DEF d
  <2>2. Ended(s \o Append(d, "delimiter")) = Ended(s)
    BY <1>1, <2>1, EndedJoin
  <2>3. QED
    BY <2>2 DEF d
<1>3. /\ Len(s) \in Nat /\ Len(t) = Len(s) + 1 /\ t[Len(s) + 1] = "delimiter"
      /\ \A i \in 1..Len(s) : t[i] = s[i]
  OBVIOUS
<1> HIDE DEF t
<1>4. ASSUME Closing(s) PROVE Closing(t)
  <2> SUFFICES ASSUME NEW i \in 1..Len(t), NEW j \in 1..Len(t), i < j, t[i] = "delimiter"
               PROVE  t[j] = "delimiter"
    BY DEF Closing
  <2>1. CASE j = Len(s) + 1
    BY <1>3, <2>1
  <2>2. CASE j # Len(s) + 1
    <3>1. i \in 1..Len(s) /\ j \in 1..Len(s)
      BY <1>3, <2>2
    <3>2. s[i] = "delimiter"
      BY <1>3, <3>1
    <3>3. s[j] = "delimiter"
      BY <1>4, <3>1, <3>2 DEF Closing
    <3>4. QED
      BY <1>3, <3>1, <3>3
  <2>3. QED
    BY <2>1, <2>2
<1>5. QED
  BY <1>2, <1>4 DEF t

(* A message is added to a flow that goes on. *)
LEMMA ClosingEnd ==
    ASSUME NEW s \in Seq(Frames), NEW d \in Seq(Frames), \A j \in 1..Len(d) : d[j] = "more",
           \A j \in 1..Len(s) : s[j] # "delimiter"
    PROVE  LET t == s \o Append(d, "end")
           IN  Ended(t) = Ended(s) + 1 /\ Closing(t) /\ Ended(s) \in Nat
<1> DEFINE t == s \o Append(d, "end")
<1>1. "end" \in Frames
  BY DEF Frames
<1>2. Ended(t) = Ended(s) + 1 /\ Ended(s) \in Nat
  BY <1>1, EndedJoin, EndedIs
<1>3. /\ Len(s) \in Nat /\ Len(d) \in Nat /\ Len(t) = Len(s) + Len(d) + 1
      /\ \A i \in 1..Len(s) : t[i] = s[i]
      /\ t[Len(s) + Len(d) + 1] = "end"
      /\ \A i \in Len(s) + 1..Len(s) + Len(d) : t[i] = d[i - Len(s)] /\ i - Len(s) \in 1..Len(d)
  OBVIOUS
<1> HIDE DEF t
<1>4. ASSUME NEW i \in 1..Len(t) PROVE t[i] # "delimiter"
  <2> DEFINE a == Len(s)
             b == Len(d)
  <2>1. a \in Nat /\ b \in Nat /\ i \in 1..a + b + 1
    BY <1>3
  <2> HIDE DEF a, b
  <2>2. i \in 1..a \/ i \in a + 1..a + b \/ i = a + b + 1
    BY <2>1
  <2>3. QED
    BY <1>3, <2>2 DEF a, b
<1>5. QED
  BY <1>2, <1>4 DEF Closing, t

(* Frames of a draft end no message. *)
LEMMA EndedDraft ==
    ASSUME NEW s \in Seq(Frames), NEW d \in Seq(Frames), \A j \in 1..Len(d) : d[j] = "more"
    PROVE  Ended(s \o d) = Ended(s)
<1> DEFINE t == s \o d
           S == {i \in 1..Len(s) : s[i] = "end"}
           T == {i \in 1..Len(t) : t[i] = "end"}
<1>1. /\ t \in Seq(Frames) /\ Len(s) \in Nat /\ Len(d) \in Nat /\ Len(t) = Len(s) + Len(d)
      /\ \A i \in 1..Len(s) : t[i] = s[i]
      /\ \A i \in Len(s) + 1..Len(s) + Len(d) : t[i] = d[i - Len(s)] /\ i - Len(s) \in 1..Len(d)
  OBVIOUS
<1>2. Ended(s) = Cardinality(S) /\ Ended(t) = Cardinality(T)
  BY <1>1, EndedIs
<1> HIDE DEF t
<1>3. \A i \in 1..Len(t) : i \in 1..Len(s) \/ i \in Len(s) + 1..Len(s) + Len(d)
  BY <1>1
<1>4. \A i \in Len(s) + 1..Len(s) + Len(d) : t[i] # "end"
  BY <1>1
<1>5. S = T
  BY <1>1, <1>3, <1>4
<1>6. QED
  BY <1>2, <1>5 DEF t

-----------------------------------------------------------------------------
(* Terminating writes, reads and drops no message. *)

(* rollback *)
LEMMA RollbackEven ==
    ASSUME MaxLosses \in Nat, NEW k, NEW q, Good(q, k), NEW e \in Ends,
           NEW n, n = Rollback(q, e)
    PROVE  /\ Even(q, n, k) /\ Good(n, k) /\ n.ends = q.ends
           /\ q.ends[e].out # 0 => n.pipes[q.ends[e].out].draft = <<>>
<1>1. /\ Good(n, k) /\ n.ends = q.ends /\ n.cmds = q.cmds
      /\ q.ends[e].out # 0 => n.pipes[q.ends[e].out].draft = <<>>
  BY RollbackKeeps
<1>2. q \in PairType /\ n \in PairType
  BY <1>1 DEF Good
<1>3. \A i \in 1..2 + MaxLosses : n.pipes[i].queue = q.pipes[i].queue
  <2>1. CASE q.ends[e].out = 0
    BY <2>1 DEF Rollback
  <2>2. CASE q.ends[e].out # 0
    <3> DEFINE o == q.ends[e].out
               d == SubSeq(q.pipes[o].draft, 1, Whole(q.pipes[o].draft))
               y == [q.pipes[o] EXCEPT !.draft = d]
    <3>1. n = [q EXCEPT !.pipes[o].draft = d]
      BY <2>2 DEF Rollback
    <3>2. o \in 1..2 + MaxLosses
      <4>1. o \in 0..2 + MaxLosses
        BY <1>2, Typed
      <4>2. QED
        BY <2>2, <4>1
    <3>3. q.pipes[o] \in YpipeType
      BY <1>2, <3>2 DEF PairType
    <3> HIDE DEF d, o
    <3>4. y.queue = q.pipes[o].queue
      BY <3>3 DEF YpipeType
    <3>5. n.pipes = [q.pipes EXCEPT ![o] = y]
      BY <1>2, <3>1 DEF PairType
    <3> HIDE DEF y
    <3>6. QED
      BY <1>2, <3>4, <3>5 DEF PairType
  <2>3. QED
    BY <2>1, <2>2
<1>4. \A x \in Ends : EndEven(q.ends[x], n.ends[x])
  BY <1>1 DEF EndEven
<1>5. Even(q, n, k)
  BY <1>1, <1>2, <1>3, <1>4, EvenIs
<1>6. QED
  BY <1>1, <1>5

(* The delimiter is written and flushed. *)
LEMMA DelimiterEven ==
    ASSUME MaxLosses \in Nat, NEW k, NEW q, Good(q, k), NEW e \in Ends,
           q.ends[e].out # 0, q.pipes[q.ends[e].out].draft = <<>>,
           NEW n, n = Flush(Draft(q, e, "delimiter"), e)
    PROVE  Even(q, n, k) /\ n.ends = q.ends
<1>1. q \in PairType /\ Other(e) \in Ends
  BY Two DEF Good
<1>2. PICK i \in 1..2 + MaxLosses : i = q.ends[e].out
  <2>1. q.ends[e].out \in 0..2 + MaxLosses
    BY <1>1, Typed
  <2>2. QED
    BY <2>1
<1> DEFINE y == Joined(q.pipes[i], "delimiter")
           m == [q EXCEPT !.pipes[i] = y]
<1>3. q.pipes[i] \in YpipeType /\ q.pipes[i].draft = <<>> /\ q.pipes[i].queue \in Seq(Frames)
  BY <1>2, DraftsOpen
<1>4. y \in YpipeType /\ y.queue = q.pipes[i].queue \o Append(<<>>, "delimiter")
  <2> DEFINE z == q.pipes[i].queue \o Append(q.pipes[i].draft, "delimiter")
  <2>1. q.pipes[i].draft \in Seq(Frames) /\ "delimiter" \in Frames
    BY <1>3 DEF YpipeType, Frames
  <2>2. z \in Seq(Frames) /\ <<>> \in Seq(Frames)
    BY <1>3, <2>1
  <2>3. y = [q.pipes[i] EXCEPT !.queue = z, !.draft = <<>>, !.asleep = FALSE]
    BY <1>3 DEF Joined, YpipeType
  <2> HIDE DEF y
  <2>4. z = q.pipes[i].queue \o Append(<<>>, "delimiter")
    BY <1>3
  <2> HIDE DEF z
  <2>5. QED
    BY <1>3, <2>2, <2>3, <2>4 DEF YpipeType
<1>5. ~Fixed(q, i)
  <2>1. e = "session" => i = 1
    BY <1>2 DEF Good, OutOK
  <2>2. e = "socket" => i = q.ends["socket"].out
    BY <1>2
  <2>3. QED
    BY <2>1, <2>2, Two DEF Fixed
<1>6. /\ Ended(y.queue) = Ended(q.pipes[i].queue)
      /\ Closing(q.pipes[i].queue) => Closing(y.queue)
  BY <1>3, <1>4, ClosingDelimiter
<1>7. Put(q, m, i, y)
  BY DEF Put
<1>8. q.ends[e].state # "term_ack_sent"
  BY DEF Good, OutOK, Silent
<1>9. n = IF q.pipes[i].asleep THEN Send(m, Other(e), "activate_read", 0) ELSE m
  BY <1>1, <1>2, <1>7, <1>8, FlushEnd
<1> HIDE DEF m, y
<1>10. Even(q, m, k) /\ m \in PairType /\ m.ends = q.ends
  <2>1. q \in PairType
    BY <1>1
  <2>2. y \in YpipeType
    BY <1>4
  <2>3. /\ Ended(y.queue) = Ended(q.pipes[i].queue)
        /\ Closing(q.pipes[i].queue) => Closing(y.queue)
    BY <1>6
  <2>4. Fixed(q, i) /\ q.pipes[i].queue = <<>> => y.queue = <<>>
    BY <1>5
  <2>5. Put(q, m, i, y)
    BY <1>7
  <2>6. QED
    BY <2>1, <2>2, <2>3, <2>4, <2>5, EvenPipe
<1>11. CASE n = m
  BY <1>10, <1>11
<1>12. CASE n = Send(m, Other(e), "activate_read", 0)
  <2>1. Even(m, n, k) /\ n \in PairType /\ n.ends = m.ends
    BY <1>1, <1>10, <1>12, EvenSend
  <2>2. QED
    BY <1>1, <1>10, <2>1, EvenTrans
<1>13. QED
  BY <1>9, <1>11, <1>12

(* The flow is stopped. *)
LEMMA DelimitEven ==
    ASSUME MaxLosses \in Nat, NEW k, NEW q, Good(q, k), NEW e \in Ends,
           q.ends[e].state # "active", NEW n, n = Delimit(q, e)
    PROVE  /\ Even(q, n, k) /\ n \in PairType
           /\ n.ends[Other(e)] = q.ends[Other(e)]
           /\ n.ends[e].state = q.ends[e].state /\ n.ends[e].in = q.ends[e].in
           /\ n.ends[e].delay = q.ends[e].delay
<1> DEFINE x == [q.ends[e] EXCEPT !.outActive = FALSE]
           m == [q EXCEPT !.ends[e] = x]
           r == Rollback(m, e)
<1>1. q \in PairType /\ q.ends[e] \in EndType /\ Good(n, k)
  BY DelimitKeeps DEF Good, PairType
<1>2. /\ x \in EndType /\ x.state = q.ends[e].state /\ x.delay = q.ends[e].delay
      /\ x.in = q.ends[e].in /\ x.out = q.ends[e].out
      /\ EndEven(q.ends[e], x)
  BY <1>1 DEF EndType, EndEven
<1>3. PutEnd(q, m, e, x)
  BY DEF PutEnd
<1>4. n = IF q.ends[e].out = 0 THEN m ELSE Flush(Draft(r, e, "delimiter"), e)
  BY DEF Delimit
<1> HIDE DEF m, x
<1>5. Even(q, m, k) /\ m.ends[e] = x /\ m.ends[Other(e)] = q.ends[Other(e)] /\ m \in PairType
  BY <1>1, <1>2, <1>3, EvenEnd
<1>6. Good(m, k)
  BY <1>2, <1>3, EndGood
<1>7. /\ Even(m, r, k) /\ Good(r, k) /\ r.ends = m.ends
      /\ m.ends[e].out # 0 => r.pipes[m.ends[e].out].draft = <<>>
  BY <1>6, RollbackEven
<1> HIDE DEF r
<1>8. CASE n = m
  BY <1>2, <1>5, <1>8
<1>9. CASE q.ends[e].out # 0 /\ n = Flush(Draft(r, e, "delimiter"), e)
  <2>1. r.ends[e].out # 0 /\ r.pipes[r.ends[e].out].draft = <<>>
    BY <1>2, <1>5, <1>7, <1>9
  <2>2. Even(r, n, k) /\ n.ends = r.ends
    BY <1>7, <1>9, <2>1, DelimiterEven
  <2>3. r \in PairType /\ n \in PairType
    BY <1>1, <1>7 DEF Good
  <2>4. Even(q, r, k)
    BY <1>1, <1>5, <1>7, <2>3, EvenTrans
  <2>5. Even(q, n, k)
    BY <1>1, <2>2, <2>3, <2>4, EvenTrans
  <2>6. QED
    BY <1>2, <1>5, <1>7, <2>2, <2>3, <2>5
<1>10. QED
  BY <1>4, <1>8, <1>9

(* An end lets go of its ypipe. *)
LEMMA AnsweredEven ==
    ASSUME MaxLosses \in Nat, NEW k, NEW q \in PairType, NEW e \in Ends,
           NEW s \in States, s # "active", NEW n, Answered(q, n, e, s)
    PROVE  /\ Even(q, n, k) /\ n \in PairType /\ n.pipes = q.pipes
           /\ n.ends[e].state = s /\ n.ends[e].in = q.ends[e].in
           /\ n.ends[Other(e)] = q.ends[Other(e)]
<1> DEFINE m == Send(q, Other(e), "pipe_term_ack", 0)
           x == [q.ends[e] EXCEPT !.out = 0, !.state = s]
<1>1. Other(e) \in Ends /\ q.ends[e] \in EndType
  BY Two DEF PairType
<1>2. Even(q, m, k) /\ m \in PairType /\ m.ends = q.ends /\ m.pipes = q.pipes
  BY <1>1, EvenSend
<1>3. n = [m EXCEPT !.ends[e].out = 0, !.ends[e].state = s]
  BY DEF Answered
<1> HIDE DEF m
<1>4. PutEnd(m, n, e, x)
  BY <1>2, <1>3 DEF PairType, PutEnd
<1>5. x \in EndType /\ x.in = q.ends[e].in /\ x.state = s /\ EndEven(q.ends[e], x)
  <2>1. 0 \in 0..2 + MaxLosses
    OBVIOUS
  <2>2. QED
    BY <1>1, <2>1 DEF EndType, EndEven
<1> HIDE DEF x
<1>6. /\ Even(m, n, k) /\ n \in PairType /\ n.ends[e] = x
      /\ n.ends[Other(e)] = m.ends[Other(e)] /\ n.pipes = m.pipes
  <2>1. EndEven(m.ends[e], x) /\ x.in = m.ends[e].in
    BY <1>2, <1>5
  <2>2. m \in PairType /\ x \in EndType
    BY <1>2, <1>5
  <2>3. QED
    BY <1>4, <2>1, <2>2, EvenEnd
<1>7. Even(q, n, k)
  BY <1>2, <1>6, EvenTrans
<1>8. QED
  BY <1>2, <1>5, <1>6, <1>7

(* The same, for the answer of an end that has nothing left to read. *)
LEMMA AckedEven ==
    ASSUME MaxLosses \in Nat, NEW k, NEW q \in PairType, NEW e \in Ends, NEW n, n = Acked(q, e)
    PROVE  /\ Even(q, n, k) /\ n \in PairType
           /\ n.ends[e].state = "term_ack_sent" /\ n.ends[e].in = q.ends[e].in
           /\ n.ends[Other(e)] = q.ends[Other(e)]
<1> DEFINE s == "term_ack_sent"
<1>1. Answered(q, n, e, s) /\ s \in States /\ s # "active"
  BY DEF Answered, Acked, States
<1> HIDE DEF s
<1>2. /\ Even(q, n, k) /\ n \in PairType
      /\ n.ends[e].state = s /\ n.ends[e].in = q.ends[e].in
      /\ n.ends[Other(e)] = q.ends[Other(e)]
  BY <1>1, AnsweredEven
<1>3. QED
  BY <1>2 DEF s

(* terminate: the end has asked or answered, unless it waits and lingers. *)
LEMMA TerminateEven ==
    ASSUME MaxLosses \in Nat, NEW k, NEW q, Good(q, k), NEW e \in Ends,
           q.ends[e].state # "gone", NEW delay \in BOOLEAN, NEW n, n = Terminate(q, e, delay)
    PROVE  /\ Even(q, n, k) /\ n \in PairType
           /\ n.ends[Other(e)] = q.ends[Other(e)] /\ n.ends[e].in = q.ends[e].in
           /\ (q.ends[e].state = "waiting_for_delimiter" /\ delay) \/ q.ends[e].state = "term_ack_sent" =>
                 n.ends[e].state = q.ends[e].state /\ n.ends[e].delay = delay
<1> DEFINE x == [q.ends[e] EXCEPT !.delay = delay]
           q1 == [q EXCEPT !.ends[e] = x]
           state == q.ends[e].state
<1>1. /\ q \in PairType /\ q.ends[e] \in EndType /\ Other(e) \in Ends /\ state \in States
      /\ n \in PairType
  BY Two, Typed, TerminateKeeps DEF Good, PairType
<1>2. /\ x \in EndType /\ x.state = q.ends[e].state /\ x.delay = delay
      /\ x.in = q.ends[e].in /\ x.out = q.ends[e].out
      /\ EndEven(q.ends[e], x)
  BY <1>1 DEF EndType, EndEven
<1>3. PutEnd(q, q1, e, x)
  BY DEF PutEnd
<1>4. n = CASE state \in {"term_req_sent1", "term_req_sent2", "term_ack_sent"} -> q1
            [] state \in {"active", "delimiter_received"} ->
                  Delimit([Send(q1, Other(e), "pipe_term", 0) EXCEPT !.ends[e].state = "term_req_sent1"], e)
            [] state = "waiting_for_delimiter" ->
                  Delimit(IF delay THEN q1 ELSE Acked(Rollback(q1, e), e), e)
  BY DEF Terminate
<1> HIDE DEF q1, x
<1>5. Good(q1, k)
  BY <1>2, <1>3, EndGood
<1>6. /\ Even(q, q1, k) /\ q1 \in PairType
      /\ q1.ends[e] = x /\ q1.ends[Other(e)] = q.ends[Other(e)]
      /\ q1.pipes = q.pipes /\ q1.cmds = q.cmds
  BY <1>1, <1>2, <1>3, EvenEnd
<1>7. CASE state \in {"term_req_sent1", "term_req_sent2", "term_ack_sent"}
  <2>1. n = q1
    BY <1>4, <1>7
  <2>2. QED
    BY <1>2, <1>6, <1>7, <2>1
<1>8. CASE state \in {"active", "delimiter_received"}
  <2> DEFINE c == [type |-> "pipe_term", arg |-> 0]
             m == Send(q1, Other(e), "pipe_term", 0)
             z == [x EXCEPT !.state = "term_req_sent1"]
             r == [m EXCEPT !.ends[e] = z]
  <2>1. n = Delimit([m EXCEPT !.ends[e].state = "term_req_sent1"], e)
    BY <1>4, <1>8
  <2>2. /\ m \in PairType /\ c \in Commands /\ c.type = "pipe_term"
        /\ m.ends = q1.ends /\ m.pipes = q1.pipes /\ m.failed = q1.failed
        /\ Sent(q1, m, Other(e), c) /\ SamePipes(q1, m)
    BY <1>1, <1>6, SendIs
  <2>3. Even(q1, m, k)
    BY <1>1, <1>6, EvenSend
  <2> HIDE DEF m, c
  <2>4. [m EXCEPT !.ends[e].state = "term_req_sent1"] = r
    BY <1>6, <2>2 DEF PairType
  <2>5. /\ z \in EndType /\ z.state = "term_req_sent1" /\ z.in = x.in /\ z.out = x.out
        /\ EndEven(x, z)
    BY <1>2 DEF EndType, States, EndEven
  <2>6. PutEnd(m, r, e, z)
    BY DEF PutEnd
  <2> HIDE DEF z, r
  <2>7. /\ r \in PairType /\ r.ends[e] = z /\ r.ends[Other(e)] = m.ends[Other(e)]
        /\ r.pipes = m.pipes /\ r.cmds = m.cmds /\ r.failed = m.failed
    BY <2>2, <2>5, <2>6, EndIs DEF PutEnd
  <2>8. Even(m, r, k)
    <3>1. EndEven(m.ends[e], z) /\ z.in = m.ends[e].in
      BY <1>6, <2>2, <2>5
    <3>2. m \in PairType /\ z \in EndType
      BY <2>2, <2>5
    <3>3. QED
      BY <2>6, <3>1, <3>2, EvenEnd
  <2>9. Good(r, k)
    <3>1. Sent(q1, r, Other(e), c) /\ SamePipes(q1, r) /\ SameEnd(q1, r, Other(e))
      BY <2>2, <2>7 DEF Sent, SamePipes, SameEnd
    <3>2. q1.ends[e].state \in {"active", "delimiter_received"}
      BY <1>2, <1>6, <1>8
    <3>3. /\ r.ends[e].in = q1.ends[e].in /\ r.ends[e].out = q1.ends[e].out
          /\ r.ends[e].state = "term_req_sent1" /\ r.failed = q1.failed
      BY <1>6, <2>2, <2>5, <2>7
    <3>4. QED
      BY <1>5, <2>2, <2>7, <3>1, <3>2, <3>3, AskKeeps
  <2>10. /\ Even(r, n, k) /\ n.ends[Other(e)] = r.ends[Other(e)]
         /\ n.ends[e].in = r.ends[e].in
    <3>1. n = Delimit(r, e) /\ r.ends[e].state # "active"
      BY <2>1, <2>4, <2>5, <2>7
    <3>2. QED
      BY <2>9, <3>1, DelimitEven
  <2>11. Even(q, m, k)
    BY <1>1, <1>6, <2>2, <2>3, EvenTrans
  <2>12. Even(q, r, k)
    BY <1>1, <2>2, <2>7, <2>8, <2>11, EvenTrans
  <2>13. Even(q, n, k)
    BY <1>1, <2>7, <2>10, <2>12, EvenTrans
  <2>14. n.ends[Other(e)] = q.ends[Other(e)] /\ n.ends[e].in = q.ends[e].in
    BY <1>2, <1>6, <2>2, <2>5, <2>7, <2>10
  <2>15. QED
    BY <1>1, <1>8, <2>13, <2>14
<1>9. CASE state = "waiting_for_delimiter" /\ delay
  <2>1. n = Delimit(q1, e) /\ q1.ends[e].state = "waiting_for_delimiter"
    BY <1>2, <1>4, <1>6, <1>9
  <2>2. /\ Even(q1, n, k)
        /\ n.ends[Other(e)] = q1.ends[Other(e)]
        /\ n.ends[e].state = q1.ends[e].state /\ n.ends[e].in = q1.ends[e].in
        /\ n.ends[e].delay = q1.ends[e].delay
    BY <1>5, <2>1, DelimitEven
  <2>3. Even(q, n, k)
    BY <1>1, <1>6, <2>2, EvenTrans
  <2>4. QED
    BY <1>1, <1>2, <1>6, <2>2, <2>3
<1>10. CASE state = "waiting_for_delimiter" /\ ~delay
  <2> DEFINE b == Rollback(q1, e)
             a == Acked(b, e)
  <2>1. n = Delimit(a, e)
    BY <1>4, <1>10
  <2>2. Even(q1, b, k) /\ Good(b, k) /\ b.ends = q1.ends
    BY <1>5, RollbackEven
  <2>3. b.ends[e].state = "waiting_for_delimiter" /\ b \in PairType
    BY <1>2, <1>6, <1>10, <2>2 DEF Good
  <2> HIDE DEF b
  <2>4. Good(a, k) /\ a.ends[e].state = "term_ack_sent" /\ a \in PairType
    BY <2>2, <2>3, AckedKeeps DEF Good
  <2>5. /\ Even(b, a, k) /\ a.ends[e].in = b.ends[e].in
        /\ a.ends[Other(e)] = b.ends[Other(e)]
    BY <2>3, AckedEven
  <2> HIDE DEF a
  <2>6. /\ Even(a, n, k) /\ n.ends[Other(e)] = a.ends[Other(e)]
        /\ n.ends[e].in = a.ends[e].in
    BY <2>1, <2>4, DelimitEven
  <2>7. Even(q, b, k)
    BY <1>1, <1>6, <2>2, <2>3, EvenTrans
  <2>8. Even(q, a, k)
    BY <1>1, <2>3, <2>4, <2>5, <2>7, EvenTrans
  <2>9. Even(q, n, k)
    BY <1>1, <2>4, <2>6, <2>8, EvenTrans
  <2>10. n.ends[Other(e)] = q.ends[Other(e)]
    BY <1>6, <2>2, <2>5, <2>6
  <2>11. n.ends[e].in = q.ends[e].in
    BY <1>2, <1>6, <2>2, <2>5, <2>6
  <2>12. QED
    BY <1>1, <1>10, <2>9, <2>10, <2>11
<1>11. QED
  BY <1>1, <1>7, <1>8, <1>9, <1>10 DEF States

-----------------------------------------------------------------------------
(* Reading. *)

(* An end that still reads may yet be patient, whatever it has read. *)
LEMMA ReadingPatient ==
    ASSUME NEW q, NEW n, NEW e, Patient(q, e),
           q.ends[e].state \in {"active", "waiting_for_delimiter"},
           n.ends[e].state = q.ends[e].state, n.ends[e].delay = q.ends[e].delay
    PROVE  Patient(n, e)
  BY DEF Patient, Silent

(* It reads what the other end writes, which has not acknowledged. *)
LEMMA ReadersPeer ==
    ASSUME NEW k, NEW q, Good(q, k), NEW e \in Ends,
           q.ends[e].state \in {"active", "delimiter_received", "waiting_for_delimiter"}
    PROVE  /\ q.ends[Other(e)].state \in {"active", "term_req_sent1"}
           /\ q.ends[Other(e)].out # 0
<1>1. ShapeOK(q) /\ Other(e) \in Ends
  BY Two DEF Good
<1>2. PICK x \in Ends : Shape(q, x)
  BY <1>1 DEF ShapeOK
<1>3. x = e \/ x = Other(e)
  BY <1>2, Two
<1>4. Other(Other(e)) = e
  BY Two
<1>5. q.ends[Other(e)].state \in {"active", "term_req_sent1"}
  BY <1>2, <1>3, <1>4 DEF Shape
<1>6. QED
  BY <1>1, <1>5 DEF Good, OutOK, Silent

(* What it has not read is what was written and it has not counted. *)
LEMMA WrittenIs ==
    ASSUME MaxLosses \in Nat, NEW k, NEW q, Good(q, k), Tally(q, k), NEW e \in Ends,
           q.ends[Other(e)].out # 0, k # "sub" \/ Inbound(q, e) # <<>>
    PROVE  /\ q.ends[Other(e)].out = q.ends[e].in
           /\ q.ends[Other(e)].state = "active" \/ k # "sub" =>
                 q.ends[Other(e)].written = q.ends[e].read + Ended(Inbound(q, e))
           /\ q.ends[Other(e)].hwm > 0 => Ended(Inbound(q, e)) <= q.ends[Other(e)].hwm
<1>1. /\ q \in PairType /\ Other(e) \in Ends /\ Other(Other(e)) = e
      /\ e = "socket" \/ e = "session"
      /\ Other("socket") = "session" /\ Other("session") = "socket"
  BY Two DEF Good
<1>2. /\ q.ends["socket"].in = 1 /\ q.ends["session"].out \in {0, 1}
      /\ q.ends["socket"].out # 0 => q.ends["socket"].out \in 2..q.ends["session"].in
      /\ q.ends["session"].in \in 1..2 + MaxLosses
  BY <1>1, Typed DEF Good, OutOK
<1>3. q.ends[Other(e)].out = q.ends[e].in
  <2>1. CASE e = "socket"
    BY <1>1, <1>2, <2>1
  <2>2. CASE e = "session"
    <3>1. CASE k # "sub"
      BY <1>1, <1>2, <2>2, <3>1 DEF Tally
    <3>2. CASE Inbound(q, "session") # <<>>
      <4>1. ~(q.ends["session"].in > q.ends["socket"].out)
        BY <1>1, <1>2, <2>2, <3>2 DEF Tally, Inbound
      <4>2. QED
        BY <1>1, <1>2, <2>2, <4>1
    <3>3. QED
      BY <2>2, <3>1, <3>2
  <2>3. QED
    BY <1>1, <2>1, <2>2
<1>4. EndTally(q, k, Other(e))
  BY <1>1 DEF Tally
<1>5. QED
  BY <1>1, <1>3, <1>4 DEF EndTally, Inbound

(* Nothing is read, or the delimiter: what was written has been read. *)
LEMMA ReadNothingCounts ==
    ASSUME MaxLosses \in Nat, NEW k, NEW q, Good(q, k), NEW D \in SUBSET Ends,
           Counts(q, k, D), NEW e \in Ends, ~Readable(q, e), NEW n, n = ReadNothing(q, e)
    PROVE  Counts(n, k, D) /\ Even(q, n, k)
<1>1. q \in PairType /\ n \in PairType /\ Other(e) \in Ends /\ q.ends[e] \in EndType
  BY ReadNothingKeeps, Two DEF Good, PairType
<1>2. PICK i \in 1..2 + MaxLosses : i = q.ends[e].in
  BY InIs
<1>3. q.pipes[i] \in YpipeType /\ q.pipes[i].queue \in Seq(Frames)
  BY DraftsOpen
<1>4. \A d \in D : d = e \/ d = Other(e)
  BY Two
<1>5. CASE ~MayRead(q, e)
  BY <1>1, <1>5, EvenTrans DEF ReadNothing
<1>6. CASE MayRead(q, e) /\ Inbound(q, e) = <<>>
  <2> DEFINE x == [q.ends[e] EXCEPT !.inActive = FALSE]
             m == [q EXCEPT !.ends[e] = x]
             y == [q.pipes[i] EXCEPT !.asleep = TRUE]
  <2>1. /\ x \in EndType /\ x.state = q.ends[e].state /\ x.delay = q.ends[e].delay
        /\ x.in = q.ends[e].in
    BY <1>1 DEF EndType
  <2>2. EndEven(q.ends[e], x)
    BY <1>1 DEF EndType, EndEven
  <2>3. PutEnd(q, m, e, x)
    BY DEF PutEnd
  <2>4. n = [q EXCEPT !.ends[e].inActive = FALSE, !.pipes[i].asleep = TRUE]
    BY <1>2, <1>6 DEF ReadNothing
  <2>5. Put(m, n, i, y)
    BY <1>1, <1>3, <2>4 DEF Put, PairType
  <2>6. y \in YpipeType /\ y.queue = q.pipes[i].queue
    BY <1>3 DEF YpipeType
  <2> HIDE DEF x, y, m
  <2>7. /\ Even(q, m, k) /\ m \in PairType /\ m.ends[e] = x
        /\ m.ends[Other(e)] = q.ends[Other(e)] /\ m.pipes = q.pipes /\ m.cmds = q.cmds
    <3>1. q \in PairType
      BY <1>1
    <3>2. x \in EndType
      BY <2>1
    <3>3. x.in = q.ends[e].in
      BY <2>1
    <3>4. QED
      BY <2>2, <2>3, <3>1, <3>2, <3>3, EvenEnd
  <2>8. /\ n.pipes[i] = y /\ n.ends = m.ends /\ n.cmds = m.cmds
        /\ \A j \in 1..2 + MaxLosses : j # i => n.pipes[j] = m.pipes[j]
    <3>1. m \in PairType
      BY <2>7
    <3>2. y \in YpipeType
      BY <2>6
    <3>3. n = [m EXCEPT !.pipes[i] = y]
      BY <2>5 DEF Put
    <3>4. QED
      BY <3>1, <3>2, <3>3, YpipeIs
  <2>9. Even(q, n, k)
    <3>1. \A j \in 1..2 + MaxLosses : n.pipes[j].queue = q.pipes[j].queue
      BY <2>6, <2>7, <2>8
    <3>2. \A z \in Ends : EndEven(q.ends[z], n.ends[z])
      BY <2>2, <2>7, <2>8, Two DEF EndEven
    <3>3. n.cmds = q.cmds
      BY <2>7, <2>8
    <3>4. k # "sub" => n.ends["session"].in = q.ends["session"].in
      BY <2>1, <2>7, <2>8, Two
    <3>5. QED
      BY <1>1, <3>1, <3>2, <3>3, <3>4, EvenIs
  <2>10. \A d \in D : /\ n.ends[d].in = q.ends[d].in
                      /\ n.ends[d].state = q.ends[d].state
                      /\ n.ends[d].delay = q.ends[d].delay
    BY <1>4, <2>1, <2>7, <2>8
  <2>11. Counts(n, k, D)
    BY <1>1, <2>9, <2>10, EvenCounts
  <2>12. QED
    BY <2>9, <2>11
<1>7. CASE MayRead(q, e) /\ Inbound(q, e) # <<>>
  <2> DEFINE s == q.pipes[i].queue
             y == [q.pipes[i] EXCEPT !.queue = Tail(s)]
             m == [q EXCEPT !.pipes[i] = y]
  <2>1. n = ProcessDelimiter(m, e) /\ Head(s) = "delimiter" /\ s # <<>>
    <3>1. m = [q EXCEPT !.pipes[q.ends[e].in].queue = Tail(@)]
      BY <1>2
    <3>2. QED
      BY <1>2, <1>7, <3>1 DEF ReadNothing, Readable, Inbound
  <2>2. Closing(s)
    BY DEF Counts, Tally
  <2>3. s = q.pipes[i].queue /\ Put(q, m, i, y)
    BY DEF Put
  <2>4. y \in YpipeType /\ y.queue = Tail(s)
    <3>1. Tail(s) \in Seq(Frames)
      BY <1>3, <2>1
    <3>2. QED
      BY <1>3, <3>1 DEF YpipeType
  <2> HIDE DEF s, y, m
  <2>5. /\ Closing(Tail(s)) /\ Ended(Tail(s)) = Ended(s) /\ Ended(s) = 0
    BY <1>3, <2>1, <2>2, <2>3, ClosingTail
  <2>6. Even(q, m, k) /\ m \in PairType /\ m.ends = q.ends /\ m.cmds = q.cmds /\ m.pipes[i] = y
    <3>1. y \in YpipeType /\ q \in PairType
      BY <1>1, <2>4
    <3>2. /\ Ended(y.queue) = Ended(q.pipes[i].queue)
          /\ Closing(q.pipes[i].queue) => Closing(y.queue)
      BY <2>3, <2>4, <2>5
    <3>3. Fixed(q, i) /\ q.pipes[i].queue = <<>> => y.queue = <<>>
      BY <2>1, <2>3
    <3>4. Put(q, m, i, y)
      BY <2>3
    <3>5. QED
      BY <3>1, <3>2, <3>3, <3>4, EvenPipe
  <2>7. /\ Even(m, n, k) /\ n.ends[Other(e)] = m.ends[Other(e)]
        /\ n.ends[e].in = m.ends[e].in
        /\ q.ends[e].state = "active" => n.ends[e].state = "delimiter_received" /\ n.pipes = m.pipes
        /\ q.ends[e].state # "active" => n.ends[e].state = "term_ack_sent"
    <3>1. CASE q.ends[e].state = "active"
      <4> DEFINE x == [m.ends[e] EXCEPT !.state = "delimiter_received"]
      <4>1. m.ends[e] \in EndType
        BY <2>6 DEF PairType
      <4>2. x \in EndType /\ x.state = "delimiter_received" /\ x.in = m.ends[e].in
        BY <4>1 DEF EndType, States
      <4>3. EndEven(m.ends[e], x)
        BY <4>1 DEF EndType, EndEven
      <4>4. PutEnd(m, n, e, x)
        BY <2>1, <2>6, <3>1 DEF ProcessDelimiter, PutEnd
      <4> HIDE DEF x
      <4>5. /\ Even(m, n, k) /\ n.ends[e] = x /\ n.ends[Other(e)] = m.ends[Other(e)]
            /\ n.pipes = m.pipes
        <5>1. m \in PairType
          BY <2>6
        <5>2. x \in EndType
          BY <4>2
        <5>3. x.in = m.ends[e].in
          BY <4>2
        <5>4. QED
          BY <4>3, <4>4, <5>1, <5>2, <5>3, EvenEnd
      <4>6. QED
        BY <3>1, <4>2, <4>5
    <3>2. CASE q.ends[e].state # "active"
      <4>1. n = Acked(m, e)
        BY <2>1, <2>6, <3>2 DEF ProcessDelimiter
      <4>2. /\ Even(m, n, k) /\ n.ends[e].state = "term_ack_sent"
            /\ n.ends[e].in = m.ends[e].in /\ n.ends[Other(e)] = m.ends[Other(e)]
        BY <2>6, <4>1, AckedEven
      <4>3. QED
        BY <3>2, <4>2
    <3>3. QED
      BY <3>1, <3>2
  <2>8. Even(q, n, k)
    BY <1>1, <2>6, <2>7, EvenTrans
  <2>9. Tally(n, k)
    BY <1>1, <2>8, EvenTally DEF Counts
  <2>10. ASSUME NEW d \in D PROVE k # "sub" /\ Patient(n, d)
    <3>1. k # "sub" /\ Patient(q, d) /\ d \in Ends
      BY DEF Counts
    <3>2. CASE d = Other(e)
      <4>1. n.ends[d] = q.ends[d]
        BY <2>6, <2>7, <3>2
      <4>2. QED
        BY <1>1, <2>8, <3>1, <4>1, EvenPatient
    <3>3. CASE d = e /\ q.ends[e].state = "active"
      <4>1. Inbound(n, e) = Tail(s)
        BY <1>2, <2>4, <2>6, <2>7, <3>3 DEF Inbound
      <4>2. QED
        BY <2>5, <2>7, <3>1, <3>3, <4>1 DEF Patient, Silent
    <3>4. CASE d = e /\ q.ends[e].state # "active"
      <4>1. q.ends[Other(e)].out # 0
        BY <1>7, ReadersPeer DEF MayRead
      <4>2. q.ends[Other(e)].written = q.ends[e].read + Ended(Inbound(q, e))
        BY <3>1, <4>1, WrittenIs DEF Counts
      <4>3. Ended(Inbound(q, e)) = 0
        BY <1>2, <2>3, <2>5 DEF Inbound
      <4>4. q.ends[Other(e)].written = q.ends[e].read
        BY <1>1, <4>2, <4>3 DEF EndType
      <4>5. n.ends[e].read = q.ends[e].read /\ n.ends[Other(e)].written = q.ends[Other(e)].written
        BY <1>1, <2>8 DEF Even, EndEven
      <4>6. QED
        BY <2>7, <3>1, <3>4, <4>4, <4>5 DEF Patient, Silent
    <3>5. QED
      BY <1>4, <3>2, <3>3, <3>4
  <2>11. QED
    BY <2>8, <2>9, <2>10 DEF Counts
<1>8. QED
  BY <1>5, <1>6, <1>7

(* What reading does not change. *)
Uncounted(x, y) ==
    /\ y.lwm = x.lwm /\ y.hwm = x.hwm /\ y.peersRead = x.peersRead
    /\ y.written = x.written /\ y.out = x.out /\ y.in = x.in /\ y.state = x.state

(* The peer of e, when e has read a frame: what was unread is read.        *)
LEMMA ReadTally ==
    ASSUME MaxLosses \in Nat, NEW k, NEW q, Good(q, k), Tally(q, k), NEW n \in PairType,
           NEW e \in Ends, q.ends[Other(e)].out # 0,
           NEW i \in 1..2 + MaxLosses, i = q.ends[e].in,
           NEW last \in 0..1, q.pipes[i].queue # <<>>,
           n.pipes[i].queue = Tail(q.pipes[i].queue),
           Ended(q.pipes[i].queue) = Ended(Tail(q.pipes[i].queue)) + last,
           Ended(Tail(q.pipes[i].queue)) \in Nat,
           \A j \in 1..2 + MaxLosses : j # i => n.pipes[j].queue = q.pipes[j].queue,
           n.ends[Other(e)] = q.ends[Other(e)],
           n.ends[e].read = q.ends[e].read + last, Uncounted(q.ends[e], n.ends[e]),
           n.cmds[e] = q.cmds[e], RowCounts(n.cmds[Other(e)], n.ends[e].read)
    PROVE  Tally(n, k)
<1>1. /\ q \in PairType /\ Other(e) \in Ends /\ Other(Other(e)) = e
      /\ q.ends[e] \in EndType /\ q.ends[Other(e)] \in EndType
      /\ \A x \in Ends : x = e \/ x = Other(e)
  BY Two DEF Good, PairType
<1>2. /\ n.ends[e].read = q.ends[e].read + last /\ q.ends[e].read \in Nat
      /\ n.ends[e].lwm = q.ends[e].lwm /\ n.ends[e].hwm = q.ends[e].hwm
      /\ n.ends[e].peersRead = q.ends[e].peersRead /\ n.ends[e].written = q.ends[e].written
      /\ n.ends[e].out = q.ends[e].out /\ n.ends[e].in = q.ends[e].in
      /\ n.ends[e].state = q.ends[e].state
  BY <1>1 DEF EndType, Uncounted
<1>3. /\ q.ends[Other(e)].out = i
      /\ q.ends[Other(e)].state = "active" \/ k # "sub" =>
            q.ends[Other(e)].written = q.ends[e].read + Ended(q.pipes[i].queue)
      /\ q.ends[Other(e)].hwm > 0 => Ended(q.pipes[i].queue) <= q.ends[Other(e)].hwm
  <2>1. Inbound(q, e) = q.pipes[i].queue
    BY DEF Inbound
  <2>2. Inbound(q, e) # <<>>
    BY <2>1
  <2>3. /\ q.ends[Other(e)].out = q.ends[e].in
        /\ q.ends[Other(e)].state = "active" \/ k # "sub" =>
              q.ends[Other(e)].written = q.ends[e].read + Ended(Inbound(q, e))
        /\ q.ends[Other(e)].hwm > 0 => Ended(Inbound(q, e)) <= q.ends[Other(e)].hwm
    BY <2>2, WrittenIs
  <2>4. QED
    BY <2>1, <2>3
<1>4. EndTally(n, k, Other(e))
  <2> DEFINE x == q.ends[Other(e)]
             a == Ended(Tail(q.pipes[i].queue))
             b == Ended(q.pipes[i].queue)
  <2>1. EndTally(q, k, Other(e))
    BY <1>1 DEF Tally
  <2>2. x.lwm >= 0 /\ x.peersRead \in 0..q.ends[e].read /\ x.hwm \in Nat
    BY <1>1, <2>1 DEF EndTally, EndType
  <2>3. n.ends[Other(e)] = x /\ Ended(n.pipes[x.out].queue) = a /\ x.out = i
    BY <1>3
  <2>4. b = a + last /\ a \in Nat
    OBVIOUS
  <2>5. /\ x.state = "active" \/ k # "sub" => x.written = q.ends[e].read + b
        /\ x.hwm > 0 => b <= x.hwm
    BY <1>3
  <2> HIDE DEF x, a, b
  <2>6. x.peersRead \in 0..n.ends[e].read
    BY <1>2, <2>2
  <2>7. x.state = "active" \/ k # "sub" => x.written = n.ends[e].read + a
    BY <1>2, <2>4, <2>5
  <2>8. x.hwm > 0 => a <= x.hwm
    BY <2>2, <2>4, <2>5
  <2>9. QED
    BY <1>1, <2>2, <2>3, <2>6, <2>7, <2>8 DEF EndTally
<1>5. EndTally(n, k, e)
  <2>1. EndTally(q, k, e)
    BY DEF Tally
  <2>2. ASSUME q.ends[e].out # 0
        PROVE  n.pipes[q.ends[e].out].queue = q.pipes[q.ends[e].out].queue
    <3>1. q.ends[e].out \in 0..2 + MaxLosses
      BY <1>1, Typed
    <3>2. q.ends[e].out \in 1..2 + MaxLosses
      BY <2>2, <3>1
    <3>3. q.ends[e].out # i
      <4>1. /\ q.ends["socket"].in = 1 /\ q.ends["session"].out \in {0, 1}
            /\ q.ends["session"].in >= 2
            /\ q.ends["socket"].out # 0 =>
                  q.ends["socket"].out \in 2..q.ends["session"].in
        BY DEF Good, OutOK
      <4>2. q.ends["session"].in \in 1..2 + MaxLosses
        BY <1>1, Two, Typed
      <4>3. CASE e = "socket"
        BY <2>2, <4>1, <4>2, <4>3
      <4>4. CASE e = "session"
        BY <2>2, <4>1, <4>2, <4>4
      <4>5. QED
        BY <4>3, <4>4, Two
    <3>4. QED
      BY <3>2, <3>3
  <2>3. QED
    BY <1>1, <1>2, <2>1, <2>2 DEF EndTally
<1>6. \A j \in 1..2 + MaxLosses : Closing(n.pipes[j].queue)
  <2>1. Closing(Tail(q.pipes[i].queue))
    <3>1. Closing(q.pipes[i].queue) /\ q.pipes[i].queue \in Seq(Frames)
      BY <1>1, Typed DEF Tally
    <3>2. QED
      BY <3>1, ClosingTail
  <2>2. QED
    BY <2>1 DEF Tally
<1>7. ASSUME n.ends["socket"].out # 0, NEW j \in 1..2 + MaxLosses, j > n.ends["socket"].out
      PROVE  n.pipes[j].queue = <<>>
  <2>1. n.ends["socket"].out = q.ends["socket"].out
    BY <1>1, <1>2, Two
  <2>2. q.pipes[j].queue = <<>>
    BY <1>7, <2>1 DEF Tally
  <2>3. QED
    BY <2>2
<1>8. k # "sub" => n.ends["session"].in = 2
  <2>1. n.ends["session"].in = q.ends["session"].in
    BY <1>1, <1>2, Two
  <2>2. QED
    BY <2>1 DEF Tally
<1>9. \A x \in Ends : EndTally(n, k, x)
  BY <1>1, <1>4, <1>5
<1>10. QED
  BY <1>6, <1>7, <1>8, <1>9 DEF Tally

(* A frame is read, and counted if it ends a message. *)
LEMMA ReadFrameCounts ==
    ASSUME MaxLosses \in Nat, NEW k, NEW q, Good(q, k), NEW D \in SUBSET Ends,
           Counts(q, k, D), NEW e \in Ends, Readable(q, e), NEW n, n = ReadFrame(q, e)
    PROVE  Counts(n, k, D) /\ Quiet(q, n)
<1> DEFINE last == IF Head(Inbound(q, e)) = "end" THEN 1 ELSE 0
           num == q.ends[e].read + last
           x == [q.ends[e] EXCEPT !.read = num]
<1>1. /\ q \in PairType /\ n \in PairType /\ Other(e) \in Ends /\ q.ends[e] \in EndType
      /\ Other(e) # e
  BY ReadFrameKeeps, Two DEF Good, PairType
<1>2. PICK i \in 1..2 + MaxLosses : i = q.ends[e].in
  BY InIs
<1> DEFINE s == q.pipes[i].queue
           y == [q.pipes[i] EXCEPT !.queue = Tail(s)]
           m == [q EXCEPT !.pipes[i] = y]
           r == [m EXCEPT !.ends[e] = x]
<1>3. /\ q.pipes[i] \in YpipeType /\ s \in Seq(Frames) /\ s # <<>>
      /\ q.ends[e].state \in {"active", "waiting_for_delimiter"}
  BY <1>2, DraftsOpen DEF Readable, MayRead, Inbound
<1>4. /\ Tail(s) \in Seq(Frames) /\ Ended(s) = Ended(Tail(s)) + last /\ Ended(Tail(s)) \in Nat
      /\ last \in 0..1
  <2>1. /\ Tail(s) \in Seq(Frames)
        /\ Ended(s) = IF Head(s) = "end" THEN Ended(Tail(s)) + 1 ELSE Ended(Tail(s))
    BY <1>3, EndedTail
  <2>2. Ended(Tail(s)) \in Nat
    BY <2>1, EndedIs
  <2>3. Head(Inbound(q, e)) = Head(s)
    BY <1>2 DEF Inbound
  <2>4. QED
    BY <2>1, <2>2, <2>3
<1>5. n = Acknowledge(r, e)
  <2>1. [q EXCEPT !.pipes[q.ends[e].in].queue = Tail(@), !.ends[e].read = @ + last] = r
    BY <1>1, <1>2, <1>3 DEF PairType
  <2>2. QED
    BY <2>1 DEF ReadFrame
<1>6. num = q.ends[e].read + last /\ num \in Nat /\ q.ends[e].read \in Nat
  <2>1. q.ends[e].read \in Nat
    BY <1>1, Typed
  <2>2. QED
    BY <1>4, <2>1
<1> HIDE DEF last, num
<1>7. y \in YpipeType /\ y.queue = Tail(s)
  BY <1>3, <1>4 DEF YpipeType
<1>8. /\ x \in EndType /\ x.read = num /\ Uncounted(q.ends[e], x)
      /\ x.state = q.ends[e].state /\ x.delay = q.ends[e].delay
  BY <1>1, <1>6 DEF EndType, Uncounted
<1>9. s = q.pipes[i].queue
  OBVIOUS
<1> HIDE DEF x, y, s
<1>10. /\ m \in PairType /\ m.pipes[i] = y
      /\ \A j \in 1..2 + MaxLosses : j # i => m.pipes[j] = q.pipes[j]
      /\ m.ends = q.ends /\ m.cmds = q.cmds
  BY <1>1, <1>7, YpipeIs
<1> HIDE DEF m
<1>11. /\ r \in PairType /\ r.ends[e] = x /\ r.ends[Other(e)] = m.ends[Other(e)]
       /\ r.pipes = m.pipes /\ r.cmds = m.cmds
  BY <1>8, <1>10, EndIs
<1> HIDE DEF r
<1>12. /\ n.ends = r.ends /\ n.pipes = r.pipes /\ n.cmds[e] = r.cmds[e]
       /\ RowCounts(n.cmds[Other(e)], x.read)
  <2>1. /\ RowCounts(r.cmds[Other(e)], x.read) /\ r.cmds[Other(e)] \in Seq(Commands)
        /\ x.read \in Nat
    <3>1. EndTally(q, k, Other(e)) /\ Other(Other(e)) = e
      BY <1>1, Two DEF Counts, Tally
    <3>2. RowCounts(q.cmds[Other(e)], q.ends[e].read)
      BY <3>1 DEF EndTally
    <3>3. q.ends[e].read \in Nat /\ q.cmds[Other(e)] \in Seq(Commands)
      BY <1>1, Typed
    <3>4. (\A a \in 0..q.ends[e].read : a \in 0..x.read) /\ x.read \in Nat
      <4>1. last \in Nat
        BY <1>4
      <4>2. x.read = num
        BY <1>8
      <4>3. x.read = q.ends[e].read + last
        BY <1>6, <4>2
      <4>4. QED
        BY <3>3, <4>1, <4>3
    <3>5. RowCounts(q.cmds[Other(e)], x.read)
      BY <3>2, <3>4 DEF RowCounts
    <3>6. r.cmds[Other(e)] = q.cmds[Other(e)]
      <4>1. r.cmds = m.cmds
        BY <1>11
      <4>2. m.cmds = q.cmds
        BY <1>10
      <4>3. QED
        BY <4>1, <4>2
    <3>7. QED
      BY <3>3, <3>4, <3>5, <3>6
  <2>2. CASE n = r
    BY <1>11, <2>1, <2>2
  <2>3. CASE n # r
    <3> DEFINE c == [type |-> "activate_write", arg |-> x.read]
    <3>1. n = Send(r, Other(e), "activate_write", x.read)
      BY <1>5, <1>11, <2>3 DEF Acknowledge
    <3>2. /\ n.ends = r.ends /\ n.pipes = r.pipes
          /\ n.cmds[Other(e)] = Append(r.cmds[Other(e)], c)
          /\ n.cmds[e] = r.cmds[e]
      BY <1>1, <1>11, <3>1 DEF Send, PairType
    <3>3. c.type = "activate_write" /\ c.arg = x.read
      OBVIOUS
    <3> HIDE DEF c
    <3>4. RowCounts(Append(r.cmds[Other(e)], c), x.read)
      BY <2>1, <3>3 DEF RowCounts
    <3>5. QED
      BY <3>2, <3>4
  <2>4. QED
    BY <2>2, <2>3
<1>13. Tally(n, k)
  <2>1. q.ends[Other(e)].out # 0
    BY <1>3, ReadersPeer
  <2>2. n.pipes[i].queue = Tail(q.pipes[i].queue) /\ q.pipes[i].queue # <<>>
    BY <1>3, <1>7, <1>9, <1>10, <1>11, <1>12
  <2>3. \A j \in 1..2 + MaxLosses : j # i => n.pipes[j].queue = q.pipes[j].queue
    BY <1>10, <1>11, <1>12
  <2>4. /\ n.ends[Other(e)] = q.ends[Other(e)]
        /\ n.ends[e].read = q.ends[e].read + last /\ Uncounted(q.ends[e], n.ends[e])
        /\ n.cmds[e] = q.cmds[e] /\ RowCounts(n.cmds[Other(e)], n.ends[e].read)
    BY <1>6, <1>8, <1>10, <1>11, <1>12
  <2>5. /\ Ended(q.pipes[i].queue) = Ended(Tail(q.pipes[i].queue)) + last
        /\ Ended(Tail(q.pipes[i].queue)) \in Nat
    BY <1>4, <1>9
  <2>6. last \in 0..1 /\ i = q.ends[e].in /\ n \in PairType
    BY <1>1, <1>2, <1>4
  <2>7. Tally(q, k)
    BY DEF Counts
  <2>8. QED
    BY <2>1, <2>2, <2>3, <2>4, <2>5, <2>6, <2>7, ReadTally
<1>14. ASSUME NEW d \in D PROVE k # "sub" /\ Patient(n, d)
  <2>1. k # "sub" /\ Patient(q, d) /\ (d = e \/ d = Other(e))
    BY Two DEF Counts
  <2>2. n.ends[d].state = q.ends[d].state /\ n.ends[d].delay = q.ends[d].delay
    BY <1>8, <1>10, <1>11, <1>12, <2>1
  <2>3. q.ends[d].state \in {"active", "waiting_for_delimiter"}
    <3>1. q.ends[Other(e)].state \in {"active", "term_req_sent1"}
      BY <1>3, ReadersPeer
    <3>2. QED
      BY <1>3, <2>1, <3>1 DEF Patient
  <2>4. QED
    BY <2>1, <2>2, <2>3, ReadingPatient
<1>15. Quiet(q, n)
  <2>1. n.ends[e] = x /\ n.ends[Other(e)] = q.ends[Other(e)] /\ x.state = q.ends[e].state
    BY <1>8, <1>10, <1>11, <1>12
  <2>2. x.written = q.ends[e].written
    BY <1>8 DEF Uncounted
  <2>3. QED
    BY <2>1, <2>2, Two DEF Quiet
<1>16. QED
  BY <1>13, <1>14, <1>15 DEF Counts

(* read and check_read *)
LEMMA ReadCounts ==
    ASSUME MaxLosses \in Nat, NEW k, NEW q, Good(q, k), NEW D \in SUBSET Ends,
           Counts(q, k, D), NEW e \in Ends
    PROVE  /\ Counts(Read(q, e), k, D) /\ Counts(CheckRead(q, e), k, D)
           /\ Quiet(q, Read(q, e)) /\ Quiet(q, CheckRead(q, e))
<1>1. CASE Readable(q, e)
  <2>1. Read(q, e) = ReadFrame(q, e) /\ CheckRead(q, e) = q
    BY <1>1 DEF Read, CheckRead
  <2>2. Counts(ReadFrame(q, e), k, D) /\ Quiet(q, ReadFrame(q, e))
    BY <1>1, ReadFrameCounts
  <2>3. QED
    BY <2>1, <2>2, QuietIs
<1>2. CASE ~Readable(q, e)
  <2>1. Read(q, e) = ReadNothing(q, e) /\ CheckRead(q, e) = ReadNothing(q, e)
    BY <1>2 DEF Read, CheckRead
  <2>2. Counts(ReadNothing(q, e), k, D) /\ Even(q, ReadNothing(q, e), k)
    BY <1>2, ReadNothingCounts
  <2>3. QED
    BY <2>1, <2>2, QuietIs
<1>3. QED
  BY <1>1, <1>2

-----------------------------------------------------------------------------
(* Writing. *)

(* What an accepted frame changes in the end that writes it. *)
LEMMA AcceptedEnd ==
    ASSUME MaxLosses \in Nat, NEW k, NEW q, Good(q, k), NEW e \in Ends, Writable(q, e),
           NEW f \in {"more", "end"}
    PROVE  \E x \in EndType, m \in PairType :
              /\ PutEnd(q, m, e, x) /\ WriteFrame(q, e, f) = Draft(m, e, f)
              /\ x.written = q.ends[e].written + IF f = "end" THEN 1 ELSE 0
              /\ x.read = q.ends[e].read /\ x.delay = q.ends[e].delay
              /\ x.lwm = q.ends[e].lwm /\ x.hwm = q.ends[e].hwm
              /\ x.peersRead = q.ends[e].peersRead
              /\ x.state = q.ends[e].state /\ x.in = q.ends[e].in /\ x.out = q.ends[e].out
<1>1. q \in PairType /\ q.ends[e] \in EndType
  BY DEF Good, PairType
<1> DEFINE w == q.ends[e].written + IF f = "end" THEN 1 ELSE 0
           x == [q.ends[e] EXCEPT !.written = w]
           m == [q EXCEPT !.ends[e] = x]
<1>2. w \in Int /\ w = q.ends[e].written + IF f = "end" THEN 1 ELSE 0
  BY <1>1 DEF EndType
<1>3. WriteFrame(q, e, f) = [Draft(q, e, f) EXCEPT !.ends[e].written = w]
  BY <1>1 DEF WriteFrame, Draft, PairType
<1> HIDE DEF w
<1>4. /\ x \in EndType /\ x.written = w
      /\ x.read = q.ends[e].read /\ x.delay = q.ends[e].delay
      /\ x.lwm = q.ends[e].lwm /\ x.hwm = q.ends[e].hwm
      /\ x.peersRead = q.ends[e].peersRead
      /\ x.state = q.ends[e].state /\ x.in = q.ends[e].in /\ x.out = q.ends[e].out
  BY <1>1, <1>2 DEF EndType
<1>5. PutEnd(q, m, e, x) /\ m \in PairType
  <2>1. PutEnd(q, m, e, x)
    BY DEF PutEnd
  <2>2. m \in PairType
    BY <1>1, <1>4, <2>1, EndIs
  <2>3. QED
    BY <2>1, <2>2
<1>6. [Draft(q, e, f) EXCEPT !.ends[e].written = w] = Draft(m, e, f)
  <2>1. m.ends[e].out = q.ends[e].out
    BY <1>1 DEF PairType, EndType
  <2>2. QED
    BY <1>1, <2>1 DEF Draft, PairType
<1> HIDE DEF m, x
<1>7. QED
  BY <1>2, <1>3, <1>4, <1>5, <1>6

(* A frame of a message that has not ended is not counted. *)
LEMMA WriteMoreCounts ==
    ASSUME MaxLosses \in Nat, NEW k, NEW q, Good(q, k), NEW D \in SUBSET Ends,
           Counts(q, k, D), NEW e \in Ends, Writable(q, e), k # "sub" \/ e = "session",
           NEW n, n = WriteFrame(q, e, "more")
    PROVE  Counts(n, k, D) /\ Even(q, n, k)
<1>1. /\ q \in PairType /\ n \in PairType /\ q.ends[e] \in EndType
      /\ \A d \in Ends : d = e \/ d = Other(e)
  BY WriteKeeps, Two DEF Good, PairType
<1>2. PICK x \in EndType, m \in PairType :
         /\ PutEnd(q, m, e, x) /\ n = Draft(m, e, "more")
         /\ x.written = q.ends[e].written + 0
         /\ x.read = q.ends[e].read /\ x.delay = q.ends[e].delay
         /\ x.lwm = q.ends[e].lwm /\ x.hwm = q.ends[e].hwm
         /\ x.peersRead = q.ends[e].peersRead
         /\ x.state = q.ends[e].state /\ x.in = q.ends[e].in /\ x.out = q.ends[e].out
  BY AcceptedEnd
<1>3. EndEven(q.ends[e], x)
  <2>1. q.ends[e].written \in Int
    BY <1>1 DEF EndType
  <2>2. x.written = q.ends[e].written
    BY <1>2, <2>1
  <2>3. QED
    BY <1>2, <2>2 DEF EndEven
<1>4. /\ m \in PairType /\ m.ends[e] = x /\ m.ends[Other(e)] = q.ends[Other(e)]
      /\ m.pipes = q.pipes /\ m.cmds = q.cmds
  BY <1>1, <1>2, EndIs DEF PutEnd
<1>5. PICK i \in 1..2 + MaxLosses : i = m.ends[e].out
  <2>1. q.ends[e].out # 0 /\ q.ends[e].out \in 0..2 + MaxLosses
    BY <1>1, Typed, AcceptedIs
  <2>2. QED
    BY <1>2, <1>4, <2>1
<1> DEFINE y == [m.pipes[i] EXCEPT !.draft = Append(m.pipes[i].draft, "more")]
<1>6. m.pipes[i] \in YpipeType
  BY <1>4 DEF PairType
<1>7. y.queue = m.pipes[i].queue
  BY <1>6 DEF YpipeType
<1>8. n = [m EXCEPT !.pipes[i] = y]
  BY <1>2, <1>5 DEF Draft
<1> HIDE DEF y
<1>9. /\ n.ends = m.ends /\ n.cmds = m.cmds
      /\ n.pipes = [m.pipes EXCEPT ![i] = y]
  BY <1>4, <1>8 DEF PairType
<1>10. \A j \in 1..2 + MaxLosses : n.pipes[j].queue = q.pipes[j].queue
  BY <1>4, <1>7, <1>9 DEF PairType
<1>11. Even(q, n, k)
  <2>1. \A d \in Ends : EndEven(q.ends[d], n.ends[d])
    BY <1>1, <1>3, <1>4, <1>9 DEF EndEven
  <2>2. n.cmds = q.cmds
    BY <1>4, <1>9
  <2>3. n.ends["session"].in = q.ends["session"].in
    BY <1>1, <1>2, <1>4, <1>9, Two
  <2>4. QED
    BY <1>1, <1>10, <2>1, <2>2, <2>3, EvenIs
<1>12. \A d \in D : /\ n.ends[d].in = q.ends[d].in
                    /\ n.ends[d].state = q.ends[d].state
                    /\ n.ends[d].delay = q.ends[d].delay
  BY <1>1, <1>2, <1>4, <1>9
<1>13. QED
  BY <1>1, <1>11, <1>12, EvenCounts

(* A refused frame is not counted, nor what is taken back. *)
LEMMA RefusedCounts ==
    ASSUME MaxLosses \in Nat, NEW k, NEW q, Good(q, k), NEW D \in SUBSET Ends,
           Counts(q, k, D), NEW e \in Ends, ~Writable(q, e),
           NEW f, NEW n, n = WriteFrame(q, e, f)
    PROVE  /\ Counts(n, k, D) /\ Counts(Rollback(n, e), k, D)
           /\ Even(q, n, k) /\ Even(n, Rollback(n, e), k) /\ Rollback(n, e) \in PairType
<1> DEFINE x == [q.ends[e] EXCEPT !.outActive = @ /\ q.ends[e].state # "active"]
<1>1. /\ q \in PairType /\ q.ends[e] \in EndType /\ Good(n, k)
      /\ \A d \in Ends : d = e \/ d = Other(e)
  BY RefusedKeeps, Two DEF Good, PairType
<1>2. /\ x \in EndType /\ x.state = q.ends[e].state /\ x.delay = q.ends[e].delay
      /\ x.in = q.ends[e].in
  BY <1>1 DEF EndType
<1>3. EndEven(q.ends[e], x)
  BY <1>1 DEF EndType, EndEven
<1>4. PutEnd(q, n, e, x)
  BY DEF PutEnd, WriteFrame
<1> HIDE DEF x
<1>5. /\ Even(q, n, k) /\ n \in PairType /\ n.ends[e] = x
      /\ n.ends[Other(e)] = q.ends[Other(e)]
  <2>1. q \in PairType
    BY <1>1
  <2>2. x \in EndType
    BY <1>2
  <2>3. x.in = q.ends[e].in
    BY <1>2
  <2>4. QED
    BY <1>3, <1>4, <2>1, <2>2, <2>3, EvenEnd
<1>6. Counts(n, k, D)
  <2>1. \A d \in D : /\ n.ends[d].in = q.ends[d].in
                     /\ n.ends[d].state = q.ends[d].state
                     /\ n.ends[d].delay = q.ends[d].delay
    BY <1>1, <1>2, <1>5
  <2>2. QED
    BY <1>1, <1>5, <2>1, EvenCounts
<1> DEFINE r == Rollback(n, e)
<1>7. Even(n, r, k) /\ Good(r, k) /\ r.ends = n.ends
  BY <1>1, RollbackEven
<1>8. Counts(r, k, D)
  <2> HIDE DEF r
  <2>1. r \in PairType
    BY <1>7 DEF Good
  <2>2. QED
    BY <1>5, <1>6, <1>7, <2>1, EvenCounts
<1>9. QED
  BY <1>5, <1>6, <1>7, <1>8 DEF Good

(* Who writes to the ypipe of an end. *)
LEMMA OutIs ==
    ASSUME MaxLosses \in Nat, NEW k, NEW q, Good(q, k), NEW e \in Ends, q.ends[e].out # 0
    PROVE  /\ q.ends[e].out \in 1..2 + MaxLosses
           /\ (IF q.ends[e].out = 1 THEN "session" ELSE "socket") = e
           /\ q.ends[Other(e)].out # q.ends[e].out
           /\ e = "session" => q.ends[e].out = 1
<1>1. /\ q.ends["session"].out \in {0, 1} /\ q.ends["session"].in \in 1..2 + MaxLosses
      /\ q.ends["socket"].out # 0 => q.ends["socket"].out \in 2..q.ends["session"].in
  BY Two, Typed DEF Good, OutOK
<1>2. q.ends[e].out \in 0..2 + MaxLosses
  BY Typed DEF Good
<1>3. CASE e = "socket"
  BY <1>1, <1>2, <1>3, Two
<1>4. CASE e = "session"
  BY <1>1, <1>2, <1>4, Two
<1>5. QED
  BY <1>3, <1>4, Two

(* e ends a message in ypipe i. *)
EndPut(q, r, e, i) ==
    LET x == q.ends[e]
        y == r.ends[e]
    IN  /\ i = x.out /\ y.written = x.written + 1
        /\ y.lwm = x.lwm /\ y.hwm = x.hwm /\ y.read = x.read /\ y.peersRead = x.peersRead
        /\ y.state = x.state /\ y.in = x.in /\ y.out = x.out
        /\ r.ends[Other(e)] = q.ends[Other(e)] /\ r.cmds = q.cmds
        /\ r.pipes[i].queue = q.pipes[i].queue \o Append(q.pipes[i].draft, "end")
        /\ \A j \in 1..2 + MaxLosses : j # i => r.pipes[j].queue = q.pipes[j].queue

(* One message more fits, when the mark is not reached. *)
LEMMA OneMore ==
    ASSUME NEW h \in Nat, NEW w \in Int, NEW l \in Nat, NEW g \in 0..l, NEW a \in Nat,
           w = l + a, h > 0 => ~(w - g >= h)
    PROVE  w + 1 = l + (a + 1) /\ (h > 0 => a + 1 <= h)
  OBVIOUS

(* The queue it is ended in, *)
LEMMA EndPutQueue ==
    ASSUME MaxLosses \in Nat, NEW k, NEW q, Good(q, k), NEW e \in Ends,
           q.ends[e].state = "active", NEW i \in 1..2 + MaxLosses, i = q.ends[e].out,
           Closing(q.pipes[i].queue)
    PROVE  LET t == q.pipes[i].queue \o Append(q.pipes[i].draft, "end")
           IN  Ended(t) = Ended(q.pipes[i].queue) + 1 /\ Ended(q.pipes[i].queue) \in Nat /\ Closing(t)
<1>1. (IF i = 1 THEN "session" ELSE "socket") = e
  <2>1. q.ends[e].out # 0
    OBVIOUS
  <2>2. (IF q.ends[e].out = 1 THEN "session" ELSE "socket") = e
    BY <2>1, OutIs
  <2>3. QED
    BY <2>2
<1>2. /\ q.pipes[i].queue \in Seq(Frames) /\ q.pipes[i].draft \in Seq(Frames)
      /\ YpipeOK(q.pipes[i], q, k, i)
  BY DraftsOpen
<1>3. /\ \A j \in 1..Len(q.pipes[i].draft) : q.pipes[i].draft[j] = "more"
      /\ \A j \in 1..Len(q.pipes[i].queue) : q.pipes[i].queue[j] # "delimiter"
  BY <1>1, <1>2 DEF YpipeOK
<1>4. QED
  BY <1>2, <1>3, ClosingEnd

(* and what is counted then. *)
LEMMA EndWrittenTally ==
    ASSUME MaxLosses \in Nat, NEW k, NEW q, Good(q, k), Tally(q, k), NEW e \in Ends,
           Writable(q, e), NEW i \in 1..2 + MaxLosses,
           NEW r \in PairType, EndPut(q, r, e, i)
    PROVE  Tally(r, k)
<1> DEFINE s == q.pipes[i].queue
           t == r.pipes[i].queue
           o == q.ends[Other(e)]
           x == q.ends[e]
           y == r.ends[e]
<1>1. /\ q \in PairType /\ x \in EndType /\ o \in EndType /\ Other(e) \in Ends
      /\ \A d \in Ends : d = e \/ d = Other(e)
      /\ Other(Other(e)) = e
  BY Two DEF Good, PairType
<1>2. x.state = "active" /\ ~Full(q, e) /\ x.out # 0 /\ i = x.out
  BY AcceptedIs DEF Writable, EndPut
<1>3. o.out # i /\ (e = "session" => i = 1)
  <2>1. q.ends[Other(e)].out # q.ends[e].out /\ (e = "session" => q.ends[e].out = 1)
    BY <1>2, OutIs
  <2>2. QED
    BY <1>2, <2>1
<1>4. Ended(t) = Ended(s) + 1 /\ Ended(s) \in Nat /\ Closing(t)
  <2>1. Closing(s)
    BY DEF Tally
  <2>2. t = q.pipes[i].queue \o Append(q.pipes[i].draft, "end")
    BY DEF EndPut
  <2> HIDE DEF t
  <2>3. QED
    BY <1>2, <2>1, <2>2, EndPutQueue DEF s
<1> HIDE DEF s, t
<1>5. EndTally(r, k, e)
  <2>1. /\ x.lwm >= 0 /\ x.peersRead \in 0..o.read
        /\ RowCounts(q.cmds[e], o.read)
        /\ x.written = o.read + Ended(s)
    BY <1>1, <1>2 DEF Tally, EndTally, s
  <2>2. x.written + 1 = o.read + Ended(t) /\ (x.hwm > 0 => Ended(t) <= x.hwm)
    <3>1. x.hwm \in Nat /\ x.written \in Int /\ o.read \in Nat
      BY <1>1 DEF EndType
    <3>2. x.hwm > 0 => ~(x.written - x.peersRead >= x.hwm)
      BY <1>2 DEF Full
    <3>3. x.written + 1 = o.read + (Ended(s) + 1) /\ (x.hwm > 0 => Ended(s) + 1 <= x.hwm)
      <4> HIDE DEF x, o
      <4>1. Ended(s) \in Nat
        BY <1>4
      <4>2. x.written = o.read + Ended(s) /\ x.peersRead \in 0..o.read
        BY <2>1
      <4>3. QED
        BY <3>1, <3>2, <4>1, <4>2, OneMore
    <3>4. QED
      BY <1>4, <3>3
  <2>3. r.cmds[e] = q.cmds[e] /\ r.pipes[y.out].queue = t /\ r.ends[Other(e)] = o
    BY <1>2 DEF t, EndPut
  <2>4. /\ y.written = x.written + 1 /\ y.hwm = x.hwm /\ y.lwm = x.lwm
        /\ y.peersRead = x.peersRead
    BY DEF EndPut
  <2> HIDE DEF x, y, o
  <2>5. /\ y.lwm >= 0 /\ y.peersRead \in 0..o.read /\ RowCounts(r.cmds[e], o.read)
        /\ y.written = o.read + Ended(t) /\ (y.hwm > 0 => Ended(t) <= y.hwm)
    BY <2>1, <2>2, <2>3, <2>4
  <2>6. QED
    BY <2>3, <2>5 DEF EndTally, y
<1>6. EndTally(r, k, Other(e))
  <2>1. EndTally(q, k, Other(e))
    BY <1>1 DEF Tally
  <2>2. /\ r.ends[Other(e)] = o /\ r.cmds = q.cmds /\ y.read = x.read
        /\ \A j \in 1..2 + MaxLosses : j # i => r.pipes[j].queue = q.pipes[j].queue
    BY DEF EndPut
  <2>3. ASSUME o.out # 0 PROVE r.pipes[o.out].queue = q.pipes[o.out].queue
    <3>1. o.out \in 1..2 + MaxLosses
      BY <1>1, <2>3, OutIs
    <3>2. QED
      BY <1>3, <2>2, <3>1
  <2>4. QED
    BY <1>1, <2>1, <2>2, <2>3 DEF EndTally
<1>7. \A d \in Ends : EndTally(r, k, d)
  BY <1>1, <1>5, <1>6
<1>8. \A j \in 1..2 + MaxLosses : Closing(r.pipes[j].queue)
  BY <1>4 DEF Tally, t, EndPut
<1>9. r.ends["socket"].out = q.ends["socket"].out /\ r.ends["session"].in = q.ends["session"].in
  BY <1>1, Two DEF EndPut
<1>10. ASSUME r.ends["socket"].out # 0, NEW j \in 1..2 + MaxLosses, j > r.ends["socket"].out
       PROVE  r.pipes[j].queue = <<>>
  <2>1. q.ends["socket"].out # 0 /\ j > q.ends["socket"].out
    BY <1>9, <1>10
  <2>2. q.pipes[j].queue = <<>>
    BY <2>1 DEF Tally
  <2>3. q.ends["socket"].out \in 1..2 + MaxLosses
    BY <2>1, Two, OutIs
  <2>4. CASE e = "socket"
    <3>1. j # i
      BY <1>2, <2>1, <2>3, <2>4
    <3>2. QED
      BY <2>2, <3>1 DEF EndPut
  <2>5. CASE e = "session"
    <3>1. j # i
      BY <1>3, <2>1, <2>3, <2>5
    <3>2. QED
      BY <2>2, <3>1 DEF EndPut
  <2>6. QED
    BY <2>4, <2>5, Two
<1>11. k # "sub" => r.ends["session"].in = 2
  BY <1>9 DEF Tally
<1>12. QED
  BY <1>7, <1>8, <1>10, <1>11 DEF Tally

(* The last frame of a message is written and flushed. *)
LEMMA WriteEndCounts ==
    ASSUME MaxLosses \in Nat, NEW k, NEW q, Good(q, k), NEW D \in SUBSET Ends,
           Counts(q, k, D), NEW e \in Ends, Writable(q, e),
           NEW n, n = Flush(WriteFrame(q, e, "end"), e)
    PROVE  Counts(n, k, D) /\ n.ends[Other(e)] = q.ends[Other(e)]
<1>1. /\ q \in PairType /\ n \in PairType /\ q.ends[e] \in EndType /\ Other(e) \in Ends
      /\ \A d \in Ends : d = e \/ d = Other(e)
  BY WriteKeeps, Two DEF Good, PairType
<1>2. PICK x \in EndType, m \in PairType :
         /\ PutEnd(q, m, e, x) /\ WriteFrame(q, e, "end") = Draft(m, e, "end")
         /\ x.written = q.ends[e].written + 1
         /\ x.read = q.ends[e].read /\ x.delay = q.ends[e].delay
         /\ x.lwm = q.ends[e].lwm /\ x.hwm = q.ends[e].hwm
         /\ x.peersRead = q.ends[e].peersRead
         /\ x.state = q.ends[e].state /\ x.in = q.ends[e].in /\ x.out = q.ends[e].out
  BY AcceptedEnd
<1>3. /\ m \in PairType /\ m.ends[e] = x /\ m.ends[Other(e)] = q.ends[Other(e)]
      /\ m.pipes = q.pipes /\ m.cmds = q.cmds
  BY <1>1, <1>2, EndIs DEF PutEnd
<1>4. PICK i \in 1..2 + MaxLosses : i = q.ends[e].out
  <2>1. q.ends[e].out # 0 /\ q.ends[e].out \in 0..2 + MaxLosses
    BY <1>1, Typed, AcceptedIs
  <2>2. QED
    BY <2>1
<1>5. q.ends[e].state = "active"
  BY DEF Writable
<1> DEFINE y == Joined(q.pipes[i], "end")
           r == [m EXCEPT !.pipes[i] = y]
<1>6. q.pipes[i] \in YpipeType /\ q.pipes[i].draft \in Seq(Frames) /\ q.pipes[i].queue \in Seq(Frames)
  BY DraftsOpen
<1>7. y \in YpipeType /\ y.queue = q.pipes[i].queue \o Append(q.pipes[i].draft, "end")
  <2> DEFINE z == q.pipes[i].queue \o Append(q.pipes[i].draft, "end")
  <2>1. z \in Seq(Frames) /\ <<>> \in Seq(Frames)
    <3>1. "end" \in Frames
      BY DEF Frames
    <3>2. QED
      BY <1>6, <3>1
  <2>2. y = [q.pipes[i] EXCEPT !.queue = z, !.draft = <<>>, !.asleep = FALSE]
    BY <1>6 DEF Joined, YpipeType
  <2>3. z = q.pipes[i].queue \o Append(q.pipes[i].draft, "end")
    OBVIOUS
  <2> HIDE DEF y, z
  <2>4. QED
    BY <1>6, <2>1, <2>2, <2>3 DEF YpipeType
<1>8. n = IF m.pipes[i].asleep THEN Send(r, Other(e), "activate_read", 0) ELSE r
  <2>1. Put(m, r, i, Joined(m.pipes[i], "end"))
    BY <1>3 DEF Put
  <2>2. i = m.ends[e].out /\ m.ends[e].state # "term_ack_sent"
    BY <1>2, <1>3, <1>4, <1>5
  <2>3. n = Flush(Draft(m, e, "end"), e)
    BY <1>2
  <2> HIDE DEF r
  <2>4. QED
    BY <1>3, <2>1, <2>2, <2>3, FlushEnd
<1> HIDE DEF y
<1>9. /\ r \in PairType /\ r.pipes[i] = y
      /\ \A j \in 1..2 + MaxLosses : j # i => r.pipes[j] = m.pipes[j]
      /\ r.ends = m.ends /\ r.cmds = m.cmds
  BY <1>3, <1>7, YpipeIs
<1> HIDE DEF r
<1>10. Tally(r, k)
  <2>1. r.ends[e] = x /\ r.ends[Other(e)] = q.ends[Other(e)] /\ r.cmds = q.cmds
    BY <1>3, <1>9
  <2>2. r.pipes[i].queue = q.pipes[i].queue \o Append(q.pipes[i].draft, "end")
    BY <1>7, <1>9
  <2>3. \A j \in 1..2 + MaxLosses : j # i => r.pipes[j].queue = q.pipes[j].queue
    BY <1>3, <1>9
  <2>4. Tally(q, k) /\ r \in PairType
    BY <1>9 DEF Counts
  <2>5. EndPut(q, r, e, i)
    BY <1>2, <1>4, <2>1, <2>2, <2>3 DEF EndPut
  <2>6. QED
    BY <2>4, <2>5, EndWrittenTally
<1>11. Even(r, n, k) /\ n.ends = r.ends
  <2>1. CASE n = r
    BY <1>9, <2>1, EvenTrans
  <2>2. CASE n = Send(r, Other(e), "activate_read", 0)
    BY <1>1, <1>9, <2>2, EvenSend
  <2>3. QED
    BY <1>8, <2>1, <2>2
<1>12. Tally(n, k)
  BY <1>1, <1>9, <1>10, <1>11, EvenTally
<1>13. ASSUME NEW d \in D PROVE k # "sub" /\ Patient(n, d)
  <2>1. k # "sub" /\ Patient(q, d) /\ (d = e \/ d = Other(e))
    BY <1>1 DEF Counts
  <2>2. n.ends[d].state = q.ends[d].state /\ n.ends[d].delay = q.ends[d].delay
    BY <1>2, <1>3, <1>9, <1>11, <2>1
  <2>3. q.ends[d].state = "active"
    <3>1. q.ends[Other(e)].state \in {"active", "term_req_sent1"}
      BY <1>5, ReadersPeer
    <3>2. QED
      BY <1>5, <2>1, <3>1 DEF Patient
  <2>4. QED
    BY <2>1, <2>2, <2>3, ReadingPatient
<1>14. QED
  BY <1>3, <1>9, <1>11, <1>12, <1>13 DEF Counts


-----------------------------------------------------------------------------
(* Commands.                                                               *)

(* A mark or a count of an end is set, within its bounds. *)
LEMMA RecountCounts ==
    ASSUME MaxLosses \in Nat, NEW k, NEW q \in PairType, NEW D \in SUBSET Ends,
           Counts(q, k, D), NEW e \in Ends, NEW x \in EndType,
           x.lwm >= 0, x.peersRead \in 0..q.ends[Other(e)].read,
           x.out # 0 /\ x.hwm > 0 => Ended(q.pipes[x.out].queue) <= x.hwm,
           x.state = q.ends[e].state, x.delay = q.ends[e].delay,
           x.in = q.ends[e].in, x.out = q.ends[e].out,
           x.read = q.ends[e].read, x.written = q.ends[e].written,
           NEW n, PutEnd(q, n, e, x)
    PROVE  Counts(n, k, D) /\ Quiet(q, n)
<1>1. /\ n.ends[e] = x /\ n.ends[Other(e)] = q.ends[Other(e)]
      /\ n.pipes = q.pipes /\ n.cmds = q.cmds
  BY EndIs DEF PutEnd
<1>2. Other(e) \in Ends /\ Other(Other(e)) = e /\ \A d \in Ends : d = e \/ d = Other(e)
  BY Two
<1>3. EndTally(q, k, e) /\ EndTally(q, k, Other(e))
  BY <1>2 DEF Counts, Tally
<1>4. EndTally(n, k, e)
  BY <1>1, <1>3 DEF EndTally
<1>5. EndTally(n, k, Other(e))
  BY <1>1, <1>2, <1>3 DEF EndTally
<1>6. n.ends["socket"].out = q.ends["socket"].out /\ n.ends["session"].in = q.ends["session"].in
  BY <1>1, Two
<1>7. Tally(n, k)
  BY <1>1, <1>2, <1>4, <1>5, <1>6 DEF Counts, Tally
<1>8. ASSUME NEW d \in D PROVE k # "sub" /\ Patient(n, d)
  <2>1. k # "sub" /\ Patient(q, d) /\ d \in Ends
    BY DEF Counts
  <2>2. /\ n.ends[d].state = q.ends[d].state /\ n.ends[d].delay = q.ends[d].delay
        /\ n.ends[d].in = q.ends[d].in /\ n.ends[d].read = q.ends[d].read
        /\ n.ends[Other(d)].written = q.ends[Other(d)].written
    BY <1>1, <1>2, <2>1
  <2>3. Inbound(n, d) = Inbound(q, d)
    BY <1>1, <2>2 DEF Inbound
  <2>4. QED
    BY <2>1, <2>2, <2>3 DEF Patient
<1>9. Quiet(q, n)
  BY <1>1, <1>2 DEF Quiet
<1>10. QED
  BY <1>7, <1>8, <1>9 DEF Counts

(* The first command of a row. *)
LEMMA FirstCounts ==
    ASSUME MaxLosses \in Nat, NEW k, NEW q, Good(q, k), NEW D, Counts(q, k, D),
           NEW e \in Ends, q.cmds[e] # <<>>
    PROVE  LET c == Head(q.cmds[e])
           IN  /\ c.type = "activate_write" => c.arg \in 0..q.ends[Other(e)].read
               /\ c.type = "pipe_hwm" => c.arg >= 0
<1>1. q.cmds[e] \in Seq(Commands)
  BY Typed DEF Good
<1>2. 1 \in 1..Len(q.cmds[e]) /\ q.cmds[e][1] = Head(q.cmds[e])
  BY <1>1
<1>3. RowCounts(q.cmds[e], q.ends[Other(e)].read)
  BY DEF Counts, Tally, EndTally
<1>4. QED
  BY <1>2, <1>3 DEF RowCounts

(* A command that is no part of the handshake is taken. *)
LEMMA NeutralCounts ==
    ASSUME MaxLosses \in Nat, NEW k, NEW q, Good(q, k), NEW D \in SUBSET Ends,
           Counts(q, k, D), NEW e \in Ends,
           NEW n, TakeFrom(q, n, e)
    PROVE  Counts(n, k, D) /\ Even(q, n, k) /\ n \in PairType /\ n.ends = q.ends
<1>1. q \in PairType
  BY DEF Good
<1>2. Even(q, n, k) /\ n \in PairType /\ n.ends = q.ends
  BY <1>1, EvenTaken
<1>3. QED
  BY <1>1, <1>2, EvenCounts

(* activate_write *)
LEMMA ActivateWriteCounts ==
    ASSUME MaxLosses \in Nat, NEW k, NEW q \in PairType, NEW D \in SUBSET Ends,
           Counts(q, k, D), NEW e \in Ends,
           NEW num \in 0..q.ends[Other(e)].read,
           NEW n, n = ActivateWrite(q, e, num)
    PROVE  Counts(n, k, D) /\ Quiet(q, n)
<1> DEFINE x == [q.ends[e] EXCEPT !.peersRead = num,
                                  !.outActive = @ \/ q.ends[e].state = "active"]
<1>1. q.ends[e] \in EndType /\ num \in Int
  <2>1. q.ends[Other(e)].read \in Nat
    BY Two, Typed
  <2>2. QED
    BY <2>1 DEF PairType
<1>2. /\ x \in EndType /\ x.state = q.ends[e].state /\ x.delay = q.ends[e].delay
      /\ x.in = q.ends[e].in /\ x.out = q.ends[e].out /\ x.peersRead = num
      /\ x.lwm = q.ends[e].lwm /\ x.hwm = q.ends[e].hwm
      /\ x.read = q.ends[e].read /\ x.written = q.ends[e].written
  BY <1>1 DEF EndType
<1>3. PutEnd(q, n, e, x)
  BY <1>1 DEF PutEnd, ActivateWrite, PairType
<1> HIDE DEF x
<1>4. x.lwm >= 0 /\ (x.out # 0 /\ x.hwm > 0 => Ended(q.pipes[x.out].queue) <= x.hwm)
  BY <1>2 DEF Counts, Tally, EndTally
<1>5. x.peersRead \in 0..q.ends[Other(e)].read
  BY <1>2
<1>6. QED
  BY <1>2, <1>3, <1>4, <1>5, RecountCounts

(* compute_lwm *)
LEMMA LowMarkIs ==
    ASSUME NEW mark \in Int, mark >= 0
    PROVE  LowMark(mark) \in Int /\ LowMark(mark) >= 0
  BY DEF LowMark

(* pipe_hwm *)
LEMMA LowMarkCounts ==
    ASSUME MaxLosses \in Nat, NEW k, NEW q \in PairType, NEW D \in SUBSET Ends,
           Counts(q, k, D), NEW e \in Ends, NEW mark \in Int, mark >= 0,
           NEW n, Lowered(q, n, e, LowMark(mark))
    PROVE  Counts(n, k, D) /\ Quiet(q, n)
<1> DEFINE low == LowMark(mark)
           x == [q.ends[e] EXCEPT !.lwm = low]
<1>1. low \in Int /\ low >= 0 /\ q.ends[e] \in EndType
  BY LowMarkIs DEF PairType
<1>2. PutEnd(q, n, e, x)
  BY DEF PutEnd, Lowered
<1> HIDE DEF low
<1>3. /\ x \in EndType /\ x.state = q.ends[e].state /\ x.delay = q.ends[e].delay
      /\ x.in = q.ends[e].in /\ x.out = q.ends[e].out /\ x.lwm = low
      /\ x.peersRead = q.ends[e].peersRead /\ x.hwm = q.ends[e].hwm
      /\ x.read = q.ends[e].read /\ x.written = q.ends[e].written
  BY <1>1 DEF EndType
<1> HIDE DEF x
<1>4. /\ x.peersRead \in 0..q.ends[Other(e)].read
      /\ x.out # 0 /\ x.hwm > 0 => Ended(q.pipes[x.out].queue) <= x.hwm
  BY <1>3 DEF Counts, Tally, EndTally
<1>5. x.lwm >= 0
  BY <1>1, <1>3
<1>6. QED
  BY <1>2, <1>3, <1>4, <1>5, RecountCounts

(* The mark is told to the other end. *)
LEMMA MarkSentCounts ==
    ASSUME MaxLosses \in Nat, NEW k, NEW q \in PairType, NEW D \in SUBSET Ends,
           Counts(q, k, D), NEW mark \in Nat,
           NEW n, n = Send(q, "session", "pipe_hwm", mark)
    PROVE  Counts(n, k, D) /\ Quiet(q, n)
<1> DEFINE c == [type |-> "pipe_hwm", arg |-> mark]
<1>1. /\ "session" \in Ends /\ "socket" \in Ends /\ Other("session") = "socket"
      /\ Other("socket") = "session" /\ \A d \in Ends : d = "session" \/ d = "socket"
  BY Two
<1>2. /\ n.ends = q.ends /\ n.pipes = q.pipes
      /\ n.cmds["session"] = Append(q.cmds["session"], c)
      /\ n.cmds["socket"] = q.cmds["socket"]
  BY <1>1 DEF Send, PairType
<1>3. c.type = "pipe_hwm" /\ c.arg = mark
  OBVIOUS
<1> HIDE DEF c
<1>4. q.cmds["session"] \in Seq(Commands)
  BY <1>1, Typed
<1>5. EndTally(q, k, "session") /\ EndTally(q, k, "socket")
  BY <1>1 DEF Counts, Tally
<1>6. EndTally(n, k, "socket")
  BY <1>1, <1>2, <1>5 DEF EndTally
<1>7. RowCounts(n.cmds["session"], q.ends["socket"].read)
  <2>1. RowCounts(q.cmds["session"], q.ends["socket"].read)
    BY <1>1, <1>5 DEF EndTally
  <2> DEFINE s == q.cmds["session"]
             t == Append(s, c)
  <2>2. s \in Seq(Commands) /\ c.arg >= 0 /\ c.type # "activate_write"
    BY <1>3, <1>4
  <2>3. RowCounts(s, q.ends["socket"].read)
    BY <2>1
  <2> HIDE DEF s
  <2>4. \A i \in 1..Len(t) : t[i] = c \/ (i \in 1..Len(s) /\ t[i] = s[i])
    BY <2>2
  <2> HIDE DEF t
  <2>5. RowCounts(t, q.ends["socket"].read)
    BY <2>2, <2>3, <2>4 DEF RowCounts
  <2>6. n.cmds["session"] = t
    BY <1>2 DEF s, t
  <2>7. QED
    BY <2>5, <2>6
<1>8. EndTally(n, k, "session")
  BY <1>1, <1>2, <1>5, <1>7 DEF EndTally
<1>9. Tally(n, k)
  BY <1>1, <1>2, <1>6, <1>8 DEF Counts, Tally
<1>10. \A d \in D : k # "sub" /\ Patient(n, d)
  BY <1>2 DEF Counts, Patient, Inbound
<1>11. Quiet(q, n)
  BY <1>2 DEF Quiet
<1>12. QED
  BY <1>9, <1>10, <1>11 DEF Counts

(* setSendHighWaterMark: a mark is raised, or set before anything is       *)
(* written.                                                                *)
LEMMA MarkCounts ==
    ASSUME MaxLosses \in Nat, NEW k, NEW q, Good(q, k), NEW D \in SUBSET Ends,
           Counts(q, k, D), NEW mark \in Nat, mark > q.ends["socket"].hwm,
           q.ends["socket"].state = "active", q.ends["socket"].written = 0,
           NEW n, n = Send([q EXCEPT !.ends["socket"].hwm = mark], "session", "pipe_hwm", mark)
    PROVE  Counts(n, k, D) /\ Quiet(q, n)
<1> DEFINE x == [q.ends["socket"] EXCEPT !.hwm = mark]
           m == [q EXCEPT !.ends["socket"] = x]
           unread == Ended(q.pipes[x.out].queue)
<1>1. "socket" \in Ends /\ Other("socket") = "session" /\ "session" \in Ends
  BY Two
<1>2. q \in PairType /\ q.ends["socket"] \in EndType /\ q.ends["session"].read \in Nat
  BY <1>1, Typed DEF Good, PairType
<1>3. /\ x \in EndType /\ x.state = q.ends["socket"].state /\ x.delay = q.ends["socket"].delay
      /\ x.in = q.ends["socket"].in /\ x.out = q.ends["socket"].out /\ x.hwm = mark
      /\ x.peersRead = q.ends["socket"].peersRead /\ x.lwm = q.ends["socket"].lwm
      /\ x.read = q.ends["socket"].read /\ x.written = q.ends["socket"].written
  BY <1>2 DEF EndType
<1>4. PutEnd(q, m, "socket", x) /\ n = Send(m, "session", "pipe_hwm", mark)
  BY DEF PutEnd
<1> HIDE DEF x
<1>5. EndTally(q, k, "socket")
  BY <1>1 DEF Counts, Tally
<1>6. x.lwm >= 0 /\ x.peersRead \in 0..q.ends[Other("socket")].read
  BY <1>3, <1>5 DEF EndTally
<1>7. x.out # 0 /\ x.hwm > 0 => unread <= x.hwm
  <2> SUFFICES ASSUME x.out # 0 PROVE unread <= x.hwm
    OBVIOUS
  <2>1. x.out \in 1..2 + MaxLosses
    <3>1. x.out \in 0..2 + MaxLosses
      BY <1>3 DEF EndType
    <3>2. QED
      BY <3>1
  <2>2. unread \in Nat
    <3>1. q.pipes[x.out].queue \in Seq(Frames)
      BY <2>1, DraftsOpen
    <3>2. QED
      BY <3>1, EndedIs
  <2>3. q.ends["socket"].written = q.ends["session"].read + unread
    BY <1>1, <1>3, <1>5 DEF EndTally
  <2> HIDE DEF unread
  <2>4. unread = 0
    BY <1>2, <2>2, <2>3
  <2>5. QED
    BY <1>3, <2>4
<1> HIDE DEF m, unread
<1>8. m \in PairType
  BY <1>1, <1>2, <1>3, <1>4, EndIs DEF PutEnd
<1>9. Counts(m, k, D) /\ Quiet(q, m)
  <2>1. x.out # 0 /\ x.hwm > 0 => Ended(q.pipes[x.out].queue) <= x.hwm
    BY <1>7 DEF unread
  <2>2. "socket" \in Ends /\ q \in PairType
    BY <1>1, <1>2
  <2>3. QED
    BY <1>3, <1>4, <1>6, <2>1, <2>2, RecountCounts
<1>10. Counts(n, k, D) /\ Quiet(m, n)
  BY <1>4, <1>8, <1>9, MarkSentCounts
<1>11. QED
  BY <1>9, <1>10, QuietIs

(* activate_read *)
LEMMA ActivateReadCounts ==
    ASSUME MaxLosses \in Nat, NEW k, NEW q, Good(q, k), NEW D \in SUBSET Ends,
           Counts(q, k, D), NEW e \in Ends, NEW n, n = ActivateRead(q, e)
    PROVE  Counts(n, k, D) /\ Quiet(q, n)
<1> DEFINE x == [q.ends[e] EXCEPT !.inActive = TRUE]
           m == [q EXCEPT !.ends[e] = x]
<1>1. q \in PairType /\ q.ends[e] \in EndType
  BY DEF Good, PairType
<1>2. /\ x \in EndType /\ x.state = q.ends[e].state /\ x.delay = q.ends[e].delay
      /\ x.in = q.ends[e].in /\ x.out = q.ends[e].out
  BY <1>1 DEF EndType
<1>3. EndEven(q.ends[e], x)
  BY <1>1 DEF EndType, EndEven
<1>4. PutEnd(q, m, e, x)
  BY DEF PutEnd
<1>5. \/ n = q
      \/ n = m
      \/ n = CheckRead(m, e)
  BY DEF ActivateRead
<1> HIDE DEF m, x
<1>6. Good(m, k)
  BY <1>2, <1>4, EndKept
<1>7. /\ Even(q, m, k) /\ m \in PairType /\ m.ends[e] = x
      /\ m.ends[Other(e)] = q.ends[Other(e)]
  <2>1. x.in = q.ends[e].in /\ x \in EndType
    BY <1>2
  <2>2. QED
    BY <1>1, <1>3, <1>4, <2>1, EvenEnd
<1>8. Counts(m, k, D) /\ Quiet(q, m)
  <2>1. \A d \in D : /\ m.ends[d].in = q.ends[d].in
                     /\ m.ends[d].state = q.ends[d].state
                     /\ m.ends[d].delay = q.ends[d].delay
    BY <1>2, <1>7, Two
  <2>2. QED
    BY <1>1, <1>7, <2>1, EvenCounts, QuietIs
<1>9. Counts(CheckRead(m, e), k, D) /\ Quiet(m, CheckRead(m, e))
  BY <1>6, <1>8, ReadCounts
<1>10. QED
  BY <1>5, <1>8, <1>9, QuietIs

(* hiccup, by the session of a subscriber *)
LEMMA HiccupCounts ==
    ASSUME MaxLosses \in Nat, NEW q, Good(q, "sub"), NEW D \in SUBSET Ends,
           Counts(q, "sub", D), NEW i \in 1..2 + MaxLosses, NEW n, n = Hiccup(q, i)
    PROVE  Counts(n, "sub", D) /\ Quiet(q, n)
<1> DEFINE x == [q.ends["session"] EXCEPT !.in = i, !.inActive = TRUE]
           m == [q EXCEPT !.ends["session"] = x]
<1>1. "session" \in Ends /\ "socket" \in Ends
  BY Two
<1>2. q \in PairType /\ q.ends["session"] \in EndType
  BY <1>1 DEF Good, PairType
<1>3. x \in EndType
  BY <1>2 DEF EndType
<1>4. EndEven(q.ends["session"], x)
  BY <1>2 DEF EndType, EndEven
<1>5. PutEnd(q, m, "session", x)
  BY DEF PutEnd
<1>6. n = q \/ n = Send(m, "socket", "hiccup", i)
  <2>1. [q EXCEPT !.ends["session"].in = i, !.ends["session"].inActive = TRUE] = m
    BY <1>1, <1>2 DEF PairType
  <2>2. QED
    BY <2>1 DEF Hiccup
<1> HIDE DEF m, x
<1>7. Even(q, m, "sub") /\ m \in PairType
  BY <1>1, <1>2, <1>3, <1>4, <1>5, EvenEnd
<1>8. Even(m, Send(m, "socket", "hiccup", i), "sub") /\ Send(m, "socket", "hiccup", i) \in PairType
  BY <1>1, <1>7, EvenSend
<1>9. Even(q, n, "sub") /\ n \in PairType
  BY <1>2, <1>6, <1>7, <1>8, EvenTrans
<1>10. \A d \in D : FALSE
  BY DEF Counts
<1>11. QED
  BY <1>2, <1>9, <1>10, EvenCounts, QuietIs

(* The session's connection is lost: what it had not finished is taken     *)
(* back, what it had half read is read.                                    *)
LEMMA CleanPipesCounts ==
    ASSUME MaxLosses \in Nat, NEW k, NEW q, Good(q, k), NEW D \in SUBSET Ends,
           Counts(q, k, D), halfRead => Readable(q, "session"), NEW n, n = CleanPipes(q)
    PROVE  Counts(n, k, D) /\ Quiet(q, n)
<1> DEFINE b == Rollback(q, "session")
<1>1. "session" \in Ends /\ q \in PairType
  BY Two DEF Good
<1>2. Good(b, k) /\ Kin(q, b)
  BY <1>1, RollbackKeeps
<1>3. Even(q, b, k) /\ b.ends = q.ends
  BY <1>1, RollbackEven
<1> HIDE DEF b
<1>4. b \in PairType
  BY <1>2 DEF Good
<1>5. Counts(b, k, D) /\ Quiet(q, b)
  BY <1>1, <1>3, <1>4, EvenCounts, QuietIs
<1>6. Flush(b, "session") = b
  BY <1>1, <1>2, FlushNothing
<1>7. n = IF halfRead THEN Read(Fail(b, Readable(b, "session")), "session") ELSE b
  BY <1>6 DEF CleanPipes, b
<1>8. CASE halfRead
  <2>1. Readable(b, "session")
    BY <1>2, <1>8 DEF Kin
  <2>2. Fail(b, Readable(b, "session")) = b
    <3>1. (b.failed \/ ~Readable(b, "session")) = b.failed
      BY <1>4, <2>1 DEF PairType
    <3>2. [b EXCEPT !.failed = b.failed] = b
      BY <1>4 DEF PairType
    <3>3. QED
      BY <3>1, <3>2 DEF Fail
  <2>3. n = Read(b, "session")
    BY <1>7, <1>8, <2>2
  <2>4. Counts(n, k, D) /\ Quiet(b, n)
    BY <1>1, <1>2, <1>5, <2>3, ReadCounts
  <2>5. QED
    BY <1>5, <2>4, QuietIs
<1>9. CASE ~halfRead
  BY <1>5, <1>7, <1>9
<1>10. QED
  BY <1>8, <1>9

(* terminate, of an end that need not be patient, or waits and lingers *)
LEMMA TerminateCounts ==
    ASSUME MaxLosses \in Nat, NEW k, NEW q, Good(q, k), NEW D \in SUBSET Ends,
           Counts(q, k, D), NEW e \in Ends, q.ends[e].state # "gone",
           NEW delay \in BOOLEAN,
           e \in D => \/ q.ends[e].state = "waiting_for_delimiter" /\ delay
                      \/ q.ends[e].state = "term_ack_sent",
           NEW n, n = Terminate(q, e, delay)
    PROVE  Counts(n, k, D) /\ Quiet(q, n)
<1>1. q \in PairType /\ Other(e) \in Ends /\ \A d \in D : d = e \/ d = Other(e)
  BY Two DEF Good
<1>2. /\ Even(q, n, k) /\ n \in PairType
      /\ n.ends[Other(e)] = q.ends[Other(e)] /\ n.ends[e].in = q.ends[e].in
      /\ (q.ends[e].state = "waiting_for_delimiter" /\ delay) \/ q.ends[e].state = "term_ack_sent" =>
            n.ends[e].state = q.ends[e].state /\ n.ends[e].delay = delay
  BY TerminateEven
<1>3. Tally(n, k)
  BY <1>1, <1>2, EvenTally DEF Counts
<1>4. ASSUME NEW d \in D PROVE k # "sub" /\ Patient(n, d)
  <2>1. k # "sub" /\ Patient(q, d) /\ d \in Ends
    BY DEF Counts
  <2>2. CASE d = Other(e)
    BY <1>1, <1>2, <2>1, <2>2, EvenPatient
  <2>3. CASE d = e
    <3>1. /\ n.ends[e].state = q.ends[e].state /\ n.ends[e].delay = delay
          /\ \/ n.ends[e].state = "waiting_for_delimiter" /\ delay
             \/ n.ends[e].state = "term_ack_sent"
      BY <1>2, <2>3
    <3>2. n.ends[e].read = q.ends[e].read /\ n.ends[Other(e)].written = q.ends[Other(e)].written
      BY <1>1, <1>2 DEF Even, EndEven
    <3>3. n.ends[e].state \in Silent =>
              n.ends[e].read = n.ends[Other(e)].written
      BY <2>1, <2>3, <3>1, <3>2 DEF Patient
    <3>4. Patient(n, e)
      BY <3>1, <3>3 DEF Patient
    <3>5. QED
      BY <2>1, <2>3, <3>4
  <2>4. QED
    BY <1>1, <2>2, <2>3
<1>5. QED
  BY <1>2, <1>3, <1>4, QuietIs DEF Counts

(* pipe_term: an end that has to be patient waits for the delimiter,       *)
(* unless it has read it.                                                  *)
LEMMA ProcessPipeTermCounts ==
    ASSUME MaxLosses \in Nat, NEW k, NEW q0, Good(q0, k), NEW D \in SUBSET Ends,
           Counts(q0, k, D), NEW e \in Ends,
           NEW q, TakeFrom(q0, q, e), Head(q0.cmds[e]).type = "pipe_term",
           NEW n, n = ProcessPipeTerm(q, e)
    PROVE  Counts(n, k, D) /\ Quiet(q0, n)
<1> DEFINE state == q0.ends[e].state
<1>1. /\ q0 \in PairType /\ Other(e) \in Ends /\ \A d \in D : d = e \/ d = Other(e)
      /\ q0.ends[e] \in EndType
  BY Two DEF Good, PairType
<1>2. Even(q0, q, k) /\ q \in PairType /\ q.ends = q0.ends /\ q.pipes = q0.pipes
  BY <1>1, EvenTaken
<1>3. state \in {"active", "delimiter_received", "term_req_sent1"}
  <2>1. q0.cmds[e] \in Seq(Commands) /\ q0.cmds[e] # <<>>
    BY <1>1, Typed DEF TakeFrom
  <2>2. Has(q0.cmds[e], "pipe_term")
    BY <2>1, HasTail
  <2>3. QED
    BY <2>2, AskedShape DEF Good
<1>4. ASSUME Even(q, n, k), n \in PairType, n.ends[Other(e)] = q.ends[Other(e)],
             e \in D => Patient(n, e)
      PROVE  Counts(n, k, D) /\ Quiet(q0, n)
  <2>1. Even(q0, n, k)
    BY <1>1, <1>2, <1>4, EvenTrans
  <2>2. Tally(n, k)
    BY <1>1, <1>4, <2>1, EvenTally DEF Counts
  <2>3. ASSUME NEW d \in D PROVE k # "sub" /\ Patient(n, d)
    <3>1. k # "sub" /\ Patient(q0, d) /\ d \in Ends
      BY DEF Counts
    <3>2. CASE d = Other(e)
      <4>1. n.ends[d] = q0.ends[d]
        BY <1>2, <1>4, <3>2
      <4>2. QED
        BY <1>1, <1>4, <2>1, <3>1, <4>1, EvenPatient
    <3>3. CASE d = e
      BY <1>4, <3>1, <3>3
    <3>4. QED
      BY <1>1, <3>2, <3>3
  <2>4. QED
    BY <2>1, <2>2, <2>3, QuietIs DEF Counts
<1>5. CASE state = "active" /\ q0.ends[e].delay
  <2> DEFINE x == [q.ends[e] EXCEPT !.state = "waiting_for_delimiter"]
  <2>1. q.ends[e] \in EndType /\ q.ends[e].delay
    BY <1>1, <1>2, <1>5
  <2>2. x \in EndType /\ x.state = "waiting_for_delimiter" /\ x.in = q.ends[e].in /\ x.delay
    BY <2>1 DEF EndType, States
  <2>3. EndEven(q.ends[e], x)
    BY <2>1 DEF EndType, EndEven
  <2>4. PutEnd(q, n, e, x)
    BY <1>2, <1>5 DEF ProcessPipeTerm, PutEnd
  <2> HIDE DEF x
  <2>5. /\ Even(q, n, k) /\ n \in PairType /\ n.ends[e] = x
        /\ n.ends[Other(e)] = q.ends[Other(e)]
    <3>1. x \in EndType /\ x.in = q.ends[e].in
      BY <2>2
    <3>2. QED
      BY <1>2, <2>3, <2>4, <3>1, EvenEnd
  <2>6. Patient(n, e)
    BY <2>2, <2>5 DEF Patient, Silent
  <2>7. QED
    BY <1>4, <2>5, <2>6
<1>6. CASE (state = "active" /\ ~q0.ends[e].delay) \/ state = "delimiter_received"
  <2>1. n = Acked(q, e)
    BY <1>2, <1>6 DEF ProcessPipeTerm
  <2>2. /\ Even(q, n, k) /\ n \in PairType
        /\ n.ends[e].state = "term_ack_sent"
        /\ n.ends[Other(e)] = q.ends[Other(e)]
    BY <1>2, <2>1, AckedEven
  <2>3. ASSUME e \in D PROVE Patient(n, e)
    <3>1. k # "sub" /\ Patient(q0, e)
      BY <2>3 DEF Counts
    <3>2. state = "delimiter_received"
      BY <1>6, <3>1 DEF Patient
    <3>3. Ended(Inbound(q0, e)) = 0
      BY <3>1, <3>2 DEF Patient
    <3>4. q0.ends[Other(e)].out # 0
      BY <3>2, ReadersPeer
    <3>5. q0.ends[Other(e)].written = q0.ends[e].read + Ended(Inbound(q0, e))
      BY <3>1, <3>4, WrittenIs DEF Counts
    <3>6. q0.ends[Other(e)].written = q0.ends[e].read
      BY <1>1, <3>3, <3>5 DEF EndType
    <3>7. n.ends[e].read = q0.ends[e].read /\ n.ends[Other(e)].written = q0.ends[Other(e)].written
      BY <1>1, <1>2, <2>2 DEF Even, EndEven
    <3>8. QED
      BY <2>2, <3>6, <3>7 DEF Patient, Silent
  <2>4. QED
    BY <1>4, <2>2, <2>3
<1>7. CASE state = "term_req_sent1"
  <2>1. Answered(q, n, e, "term_req_sent2") /\ "term_req_sent2" \in States
    BY <1>2, <1>7 DEF ProcessPipeTerm, Answered, States
  <2>2. Even(q, n, k) /\ n \in PairType /\ n.ends[Other(e)] = q.ends[Other(e)]
    BY <1>2, <2>1, AnsweredEven
  <2>3. e \notin D
    BY <1>7 DEF Counts, Patient
  <2>4. QED
    BY <1>4, <2>2, <2>3
<1>8. QED
  BY <1>3, <1>5, <1>6, <1>7

(* What the deallocation of an end counts. *)
LEMMA GoesEven ==
    ASSUME MaxLosses \in Nat, NEW k, NEW a \in PairType, NEW e \in Ends, NEW n, Goes(a, n, e)
    PROVE  /\ Even(a, n, k) /\ n \in PairType /\ n.ends[e].state = "gone"
           /\ n.ends[Other(e)] = a.ends[Other(e)]
<1> DEFINE x == [a.ends[e] EXCEPT !.state = "gone", !.out = 0]
<1>1. a.ends[e] \in EndType /\ \A d \in Ends : d = e \/ d = Other(e)
  BY Two DEF PairType
<1>2. /\ n \in PairType /\ n.cmds = a.cmds
      /\ n.ends[e].state = "gone" /\ n.ends[e].in = a.ends[e].in
      /\ n.ends[Other(e)] = a.ends[Other(e)]
      /\ \A i \in 1..2 + MaxLosses : n.pipes[i].queue = a.pipes[i].queue
  BY GoesIs
<1>3. n.ends[e] = x
  BY DEF Goes, PairType
<1>4. EndEven(a.ends[e], x)
  BY <1>1 DEF EndType, EndEven
<1> HIDE DEF x
<1>5. \A d \in Ends : EndEven(a.ends[d], n.ends[d])
  BY <1>1, <1>2, <1>3, <1>4 DEF EndEven
<1>6. n.ends["session"].in = a.ends["session"].in
  BY <1>1, <1>2, Two
<1>7. Even(a, n, k)
  BY <1>2, <1>5, <1>6, EvenIs
<1>8. QED
  BY <1>2, <1>7

(* pipe_term_ack: a patient end has read everything by then. *)
LEMMA ProcessPipeTermAckCounts ==
    ASSUME MaxLosses \in Nat, NEW k, NEW q0, Good(q0, k), NEW D \in SUBSET Ends,
           Counts(q0, k, D), NEW e \in Ends,
           NEW q, TakeFrom(q0, q, e), Head(q0.cmds[e]).type = "pipe_term_ack",
           NEW n, n = ProcessPipeTermAck(q, e)
    PROVE  Counts(n, k, D) /\ Quiet(q0, n)
<1> DEFINE state == q0.ends[e].state
           a == IF state = "term_req_sent1" THEN Send(q, Other(e), "pipe_term_ack", 0) ELSE q
<1>1. /\ q0 \in PairType /\ Other(e) \in Ends /\ \A d \in D : d = e \/ d = Other(e)
  BY Two DEF Good
<1>2. Even(q0, q, k) /\ q \in PairType /\ q.ends = q0.ends /\ q.pipes = q0.pipes
  BY <1>1, EvenTaken
<1>3. state \in {"term_req_sent1", "term_req_sent2", "term_ack_sent"}
  BY AcknowledgedShape DEF TakeFrom
<1>4. Even(q, a, k) /\ a \in PairType /\ a.ends = q.ends
  <2>1. Even(q, q, k)
    BY <1>2, EvenTrans
  <2>2. /\ Even(q, Send(q, Other(e), "pipe_term_ack", 0), k)
        /\ Send(q, Other(e), "pipe_term_ack", 0) \in PairType
        /\ Send(q, Other(e), "pipe_term_ack", 0).ends = q.ends
    BY <1>1, <1>2, EvenSend
  <2>3. QED
    BY <1>2, <2>1, <2>2
<1>5. Goes(a, n, e)
  <2>1. a.ends[e].in = q.ends[e].in
    BY <1>4
  <2>2. Fail(q, TRUE) = q
    <3>1. (q.failed \/ ~TRUE) = q.failed /\ [q EXCEPT !.failed = q.failed] = q
      BY <1>2 DEF PairType
    <3>2. QED
      BY <3>1 DEF Fail
  <2>3. CASE state = "term_req_sent1"
    <3>1. a = Send(q, Other(e), "pipe_term_ack", 0)
      BY <2>3
    <3> HIDE DEF a
    <3>2. n = [a EXCEPT !.ends[e].state = "gone", !.ends[e].out = 0,
                        !.pipes[q.ends[e].in].freed = TRUE]
      BY <1>2, <2>3, <3>1 DEF ProcessPipeTermAck
    <3>3. QED
      BY <2>1, <3>2 DEF Goes
  <2>4. CASE state # "term_req_sent1"
    <3>1. a = q /\ (state \in {"term_ack_sent", "term_req_sent2"}) = TRUE
      BY <1>3, <2>4
    <3> HIDE DEF a
    <3>2. Fail(q, state \in {"term_ack_sent", "term_req_sent2"}) = a
      BY <2>2, <3>1
    <3>3. n = [a EXCEPT !.ends[e].state = "gone", !.ends[e].out = 0,
                        !.pipes[q.ends[e].in].freed = TRUE]
      BY <1>2, <2>4, <3>2 DEF ProcessPipeTermAck
    <3>4. QED
      BY <2>1, <3>3 DEF Goes
  <2>5. QED
    BY <2>3, <2>4
<1> HIDE DEF a
<1>6. /\ Even(a, n, k) /\ n \in PairType /\ n.ends[e].state = "gone"
      /\ n.ends[Other(e)] = a.ends[Other(e)]
  BY <1>4, <1>5, GoesEven
<1>7. Even(q0, n, k)
  <2>1. Even(q0, a, k)
    BY <1>1, <1>2, <1>4, EvenTrans
  <2>2. QED
    BY <1>1, <1>4, <1>6, <2>1, EvenTrans
<1>8. Tally(n, k)
  BY <1>1, <1>6, <1>7, EvenTally DEF Counts
<1>9. ASSUME NEW d \in D PROVE k # "sub" /\ Patient(n, d)
  <2>1. k # "sub" /\ Patient(q0, d) /\ d \in Ends
    BY DEF Counts
  <2>2. CASE d = Other(e)
    <3>1. n.ends[d] = q0.ends[d]
      BY <1>2, <1>4, <1>6, <2>2
    <3>2. QED
      BY <1>1, <1>6, <1>7, <2>1, <3>1, EvenPatient
  <2>3. CASE d = e
    <3>1. state = "term_ack_sent"
      BY <1>3, <2>1, <2>3 DEF Patient
    <3>2. q0.ends[e].read = q0.ends[Other(e)].written
      BY <2>1, <2>3, <3>1 DEF Patient, Silent
    <3>3. n.ends[e].read = q0.ends[e].read /\ n.ends[Other(e)].written = q0.ends[Other(e)].written
      BY <1>1, <1>7 DEF Even, EndEven
    <3>4. QED
      BY <1>6, <2>1, <2>3, <3>2, <3>3 DEF Patient
  <2>4. QED
    BY <1>1, <2>2, <2>3
<1>10. QED
  BY <1>7, <1>8, <1>9, QuietIs DEF Counts

(* A subscriber's messages are of one frame: what is not read of the old   *)
(* ypipe is as much as was counted.                                        *)
LEMMA HiccupLoses ==
    ASSUME MaxLosses \in Nat, NEW q, Good(q, "sub"), NEW out \in 2..2 + MaxLosses
    PROVE  LET y == q.pipes[out]
               unread == y.queue \o SubSeq(y.draft, 1, Whole(y.draft))
               num == Cardinality({j \in DOMAIN unread : unread[j] # "more"})
           IN  /\ num \in Nat
               /\ q.ends["socket"].state = "active" => num = Ended(y.queue)
<1> DEFINE y == q.pipes[out]
           s == y.queue
           unread == s \o SubSeq(y.draft, 1, Whole(y.draft))
           lost == {j \in 1..Len(s) : s[j] # "more"}
<1>1. out \in 1..2 + MaxLosses /\ out # 1
  OBVIOUS
<1>2. y \in YpipeType /\ s \in Seq(Frames) /\ y.draft \in Seq(Frames) /\ YpipeOK(y, q, "sub", out)
  BY <1>1, DraftsOpen
<1>3. /\ \A j \in 1..Len(y.draft) : y.draft[j] = "more"
      /\ \A j \in 1..Len(s) : s[j] # "more"
      /\ q.ends["socket"].state = "active" => \A j \in 1..Len(s) : s[j] # "delimiter"
  BY <1>1, <1>2 DEF YpipeOK
<1> HIDE DEF y, s
<1>4. SubSeq(y.draft, 1, Whole(y.draft)) = <<>>
  BY <1>2, <1>3, WholeNone
<1>5. unread = s /\ DOMAIN s = 1..Len(s) /\ Len(s) \in Nat
  <2>1. unread = s \o <<>>
    BY <1>4
  <2> HIDE DEF unread
  <2>2. s \o <<>> = s /\ DOMAIN s = 1..Len(s) /\ Len(s) \in Nat
    BY <1>2
  <2>3. QED
    BY <2>1, <2>2
<1> HIDE DEF unread
<1>6. {j \in DOMAIN unread : unread[j] # "more"} = lost
  BY <1>5
<1>7. Cardinality(lost) \in Nat
  <2>1. IsFiniteSet(1..Len(s))
    BY <1>5, FS_Interval
  <2>2. lost \in SUBSET (1..Len(s))
    OBVIOUS
  <2>3. IsFiniteSet(lost)
    BY <2>1, <2>2, FS_Subset
  <2>4. QED
    BY <2>3, FS_CardinalityType
<1>8. ASSUME q.ends["socket"].state = "active" PROVE Cardinality(lost) = Ended(s)
  <2>1. \A j \in 1..Len(s) : s[j] # "more" <=> s[j] = "end"
    BY <1>2, <1>3, <1>8 DEF Frames
  <2>2. lost = {j \in 1..Len(s) : s[j] = "end"}
    BY <2>1
  <2>3. QED
    BY <1>2, <2>2, EndedIs
<1>9. QED
  BY <1>6, <1>7, <1>8 DEF y, s, unread

(* The socket counts anew from what was read, in a ypipe that is empty. *)
LEMMA RenewsCounts ==
    ASSUME MaxLosses \in Nat, NEW q \in PairType, Tally(q, "sub"),
           NEW out \in 2..2 + MaxLosses, out = q.ends["socket"].out,
           NEW i \in 1..2 + MaxLosses, i > out, NEW num \in Nat,
           q.ends["socket"].state = "active" => num = Ended(q.pipes[out].queue),
           NEW n, Renews(q, n, out, i, num)
    PROVE  Tally(n, "sub") /\ Quiet(q, n)
<1> DEFINE x == [q.ends["socket"] EXCEPT !.out = i, !.outActive = TRUE,
                                         !.written = q.ends["socket"].written - num]
<1>1. /\ "socket" \in Ends /\ "session" \in Ends /\ Other("session") = "socket"
      /\ Other("socket") = "session" /\ \A d \in Ends : d = "session" \/ d = "socket"
  BY Two
<1>2. q.ends["socket"] \in EndType /\ q.ends["session"].read \in Nat
  BY <1>1, Typed DEF PairType
<1>3. /\ n.cmds = q.cmds /\ n.ends["session"] = q.ends["session"]
      /\ \A j \in 1..2 + MaxLosses : n.pipes[j].queue = q.pipes[j].queue
  <2>1. PICK j \in 1..2 + MaxLosses : j = out
    OBVIOUS
  <2>2. Renews(q, n, j, i, num)
    BY <2>1
  <2>3. n.cmds = q.cmds /\ n.ends["session"] = q.ends["session"] /\ Frees(q, n, j)
    BY <2>2, RenewsIs
  <2>4. QED
    BY <2>3 DEF Frees
<1>4. n.ends["socket"] = x
  BY <1>1 DEF Renews, PairType
<1>5. /\ x.out = i /\ x.state = q.ends["socket"].state
      /\ x.written = q.ends["socket"].written - num
      /\ x.lwm = q.ends["socket"].lwm /\ x.hwm = q.ends["socket"].hwm
      /\ x.read = q.ends["socket"].read /\ x.peersRead = q.ends["socket"].peersRead
  BY <1>2 DEF EndType
<1> HIDE DEF x
<1>6. EndTally(q, "sub", "socket") /\ EndTally(q, "sub", "session")
  BY <1>1 DEF Tally
<1>7. q.pipes[i].queue = <<>> /\ Ended(<<>>) = 0
  <2> DEFINE z == <<>>
  <2>1. z \in Seq(Frames) /\ \A j \in 1..Len(z) : FALSE
    OBVIOUS
  <2> HIDE DEF z
  <2>2. Ended(z) = 0
    BY <2>1, EndedIs
  <2> USE DEF z
  <2>3. q.pipes[i].queue = <<>>
    BY DEF Tally
  <2>4. QED
    BY <2>2, <2>3
<1>8. x.state = "active" => q.ends["socket"].written = q.ends["session"].read + num
  <2> DEFINE j == q.ends["socket"].out
  <2>1. j # 0 /\ q.pipes[j].queue = q.pipes[out].queue
    OBVIOUS
  <2>2. j # 0 /\ x.state = "active" =>
            q.ends["socket"].written = q.ends["session"].read + Ended(q.pipes[j].queue)
    BY <1>1, <1>5, <1>6 DEF EndTally
  <2>3. x.state = "active" => num = Ended(q.pipes[out].queue)
    BY <1>5
  <2> HIDE DEF j
  <2>4. QED
    BY <2>1, <2>2, <2>3
<1>9. x.state = "active" => x.written = q.ends["session"].read
  <2> DEFINE w == q.ends["socket"].written
             l == q.ends["session"].read
  <2>1. x.state = "active" => w = l + num
    BY <1>8
  <2>2. x.written = w - num /\ l \in Nat
    BY <1>2, <1>5
  <2> HIDE DEF w, l
  <2>3. x.state = "active" => x.written = l
    BY <2>1, <2>2
  <2>4. QED
    BY <2>3 DEF l
<1>10. EndTally(n, "sub", "socket")
  <2>1. /\ n.pipes[x.out].queue = <<>> /\ x.hwm \in Nat
    BY <1>2, <1>3, <1>5, <1>7 DEF EndType
  <2>2. /\ x.lwm >= 0 /\ x.peersRead \in 0..q.ends["session"].read
        /\ RowCounts(n.cmds["socket"], q.ends["session"].read)
    BY <1>1, <1>3, <1>5, <1>6 DEF EndTally
  <2>3. q.ends["session"].read + 0 = q.ends["session"].read
    BY <1>2
  <2>4. QED
    BY <1>1, <1>3, <1>4, <1>7, <1>9, <2>1, <2>2, <2>3 DEF EndTally
<1>11. EndTally(n, "sub", "session")
  <2>1. q.ends["session"].out \in 0..2 + MaxLosses
    BY <1>1, Typed
  <2>2. q.ends["session"].out # 0 =>
            n.pipes[q.ends["session"].out].queue = q.pipes[q.ends["session"].out].queue
    BY <1>3, <2>1
  <2>3. QED
    BY <1>1, <1>3, <1>4, <1>5, <1>6, <2>2 DEF EndTally
<1>12. \A j \in 1..2 + MaxLosses : j > i => n.pipes[j].queue = <<>>
  <2>1. \A j \in 1..2 + MaxLosses : j > out => q.pipes[j].queue = <<>>
    BY DEF Tally
  <2>2. QED
    BY <1>3, <2>1
<1>13. \A j \in 1..2 + MaxLosses : Closing(n.pipes[j].queue)
  BY <1>3 DEF Tally
<1>14. Tally(n, "sub")
  BY <1>1, <1>4, <1>5, <1>10, <1>11, <1>12, <1>13 DEF Tally
<1>15. Quiet(q, n)
  <2>1. ASSUME x.state = "active", q.ends["socket"].written = 0 PROVE x.written = 0
    <3>1. num = 0 - q.ends["session"].read
      <4>1. 0 = q.ends["session"].read + num
        BY <1>8, <2>1
      <4>2. QED
        BY <1>2, <4>1
    <3>2. QED
      BY <1>2, <1>5, <2>1, <3>1
  <2>2. QED
    BY <1>1, <1>3, <1>4, <1>5, <2>1 DEF Quiet
<1>16. QED
  BY <1>14, <1>15

(* hiccup: only a subscriber's session sends one. *)
LEMMA ProcessHiccupCounts ==
    ASSUME MaxLosses \in Nat, NEW k, NEW q0, Good(q0, k), NEW D \in SUBSET Ends,
           Counts(q0, k, D), NEW q, TakeFrom(q0, q, "socket"),
           Head(q0.cmds["socket"]).type = "hiccup",
           NEW n, n = ProcessHiccup(q, Head(q0.cmds["socket"]).arg)
    PROVE  Counts(n, k, D) /\ Quiet(q0, n)
<1> DEFINE s == q0.cmds["socket"]
<1>1. q0 \in PairType /\ "socket" \in Ends /\ "session" \in Ends
  BY Two DEF Good
<1>2. Even(q0, q, k) /\ q \in PairType /\ q.ends = q0.ends /\ q.pipes = q0.pipes
  BY <1>1, EvenTaken
<1>3. /\ Head(s).arg \in 3..q0.ends["session"].in /\ Head(s).arg > q0.ends["socket"].out
      /\ q0.ends["socket"].state \notin Silent
  <2>1. s \in Seq(Commands) /\ s # <<>>
    BY <1>1, Typed DEF TakeFrom
  <2>2. 1 \in 1..Len(s) /\ s[1] = Head(s)
    BY <2>1
  <2>3. s[1].type = "hiccup"
    BY <2>2
  <2> HIDE DEF s
  <2>4. \A j \in 1..Len(s) : s[j].type = "hiccup" =>
              /\ s[j].arg \in 3..q0.ends["session"].in /\ s[j].arg > q0.ends["socket"].out
              /\ q0.ends["socket"].state \notin Silent
    BY DEF Good, ChainOK, s
  <2>5. QED
    BY <2>2, <2>3, <2>4
<1>4. k = "sub"
  <2>1. q0.ends["session"].in # 2
    BY <1>3
  <2>2. QED
    BY <2>1 DEF Counts, Tally
<1>5. /\ q0.ends["session"].in \in 1..2 + MaxLosses
      /\ q0.ends["socket"].out \in 2..2 + MaxLosses
  <2>1. /\ q0.ends["socket"].out # 0 /\ q0.ends["session"].in \in 1..2 + MaxLosses
        /\ q0.ends["socket"].out # 0 => q0.ends["socket"].out \in 2..q0.ends["session"].in
    BY <1>1, <1>3, Typed DEF Good, OutOK
  <2>2. QED
    BY <2>1
<1>6. PICK i \in 1..2 + MaxLosses : i = Head(s).arg
  BY <1>3, <1>5
<1>7. PICK out \in 2..2 + MaxLosses : out = q0.ends["socket"].out
  BY <1>5
<1> DEFINE y == q0.pipes[out]
           unread == y.queue \o SubSeq(y.draft, 1, Whole(y.draft))
           num == Cardinality({j \in DOMAIN unread : unread[j] # "more"})
<1>8. num \in Nat /\ (q0.ends["socket"].state = "active" => num = Ended(y.queue))
  BY <1>4, HiccupLoses
<1>9. Renews(q, n, out, i, num)
  <2>1. q.ends["socket"].out = out /\ out # 0 /\ q.pipes = q0.pipes
    BY <1>2, <1>7
  <2>2. QED
    BY <1>6, <2>1 DEF ProcessHiccup, Renews
<1> HIDE DEF num, unread
<1>10. Tally(q, "sub")
  BY <1>1, <1>2, <1>4, EvenTally DEF Counts
<1>11. Tally(n, "sub") /\ Quiet(q, n)
  <2>1. i > out /\ out = q.ends["socket"].out
    BY <1>2, <1>3, <1>6, <1>7
  <2>2. q.ends["socket"].state = "active" => num = Ended(q.pipes[out].queue)
    BY <1>2, <1>8
  <2>3. QED
    BY <1>2, <1>8, <1>9, <1>10, <2>1, <2>2, RenewsCounts
<1>12. Quiet(q0, n)
  BY <1>2, <1>11, QuietIs
<1>13. QED
  BY <1>4, <1>11, <1>12 DEF Counts

-----------------------------------------------------------------------------
(* The invariant. *)

(* The ends that promise to read everything: the session of a socket that  *)
(* lingers, while its connection is not lost, and such a socket that both  *)
(* reads and writes, until it is closed.                                   *)
Patients ==
    {e \in Ends : /\ kind # "sub"
                  /\ \/ e = "session" /\ losses = 0
                     \/ e = "socket" /\ kind = "other" /\ ~closed}

(* An end that has not begun to write a message has written none. *)
BegunOK ==
    /\ parts \in [Ends -> BOOLEAN] /\ begun \in [Ends -> Nat]
    /\ \A e \in Ends :
          /\ parts[e] => begun[e] > 0
          /\ begun[e] = 0 /\ p.ends[e].state = "active" => p.ends[e].written = 0

CInv ==
    /\ PInv /\ Counts(p, kind, Patients) /\ BegunOK
    /\ losses = 0 => engine = "up"

(* Fewer ends promise less. *)
LEMMA Fewer ==
    ASSUME NEW k, NEW q, NEW D, NEW E \in SUBSET D, Counts(q, k, D)
    PROVE  Counts(q, k, E)
  BY DEF Counts

(* No end promises anew. *)
LEMMA FewerPatients ==
    ASSUME kind' = kind, losses' = 0 => losses = 0, closed => closed'
    PROVE  Patients' \in SUBSET Patients /\ Patients \in SUBSET Ends
  BY DEF Patients

(* A step in which nobody begins a message. *)
LEMMA CountsStay ==
    ASSUME CInv, PInv', kind' = kind, losses' = 0 => engine' = "up",
           Counts(p', kind, Patients'), Quiet(p, p'),
           parts' \in [Ends -> BOOLEAN], \A e \in Ends : parts'[e] => parts[e],
           begun' = begun
    PROVE  CInv'
<1>1. BegunOK'
  <2>1. \A e \in Ends : parts'[e] => begun'[e] > 0
    BY DEF CInv, BegunOK
  <2>2. \A e \in Ends : begun'[e] = 0 /\ p'.ends[e].state = "active" => p'.ends[e].written = 0
    BY DEF CInv, BegunOK, Quiet
  <2>3. begun' \in [Ends -> Nat]
    BY DEF CInv, BegunOK
  <2>4. QED
    BY <2>1, <2>2, <2>3 DEF BegunOK
<1>2. QED
  BY <1>1 DEF CInv

(* The same, when the promises, too, are as before. *)
LEMMA CountsSame ==
    ASSUME CInv, PInv', UNCHANGED <<kind, closed, engine, losses, parts, begun>>,
           Counts(p', kind, Patients), Quiet(p, p')
    PROVE  CInv'
<1>1. Patients' = Patients
  BY DEF Patients
<1>2. parts' \in [Ends -> BOOLEAN] /\ \A e \in Ends : parts'[e] => parts[e]
  BY DEF CInv, BegunOK
<1>3. QED
  BY <1>1, <1>2, CountsStay DEF CInv

(* The facts that every step starts from. *)
LEMMA Counted ==
    ASSUME Hypotheses, CInv
    PROVE  /\ MaxLosses \in Nat /\ PInv /\ Good(p, kind) /\ p \in PairType
           /\ Patients \in SUBSET Ends /\ Counts(p, kind, Patients)
           /\ "socket" \in Ends /\ "session" \in Ends
           /\ parts \in [Ends -> BOOLEAN] /\ begun \in [Ends -> Nat]
  BY Two DEF Hypotheses, CInv, PInv, Good, Patients, BegunOK

-----------------------------------------------------------------------------
(* Every step keeps it.                                                    *)

(* An end begins, continues or ends a message, or is refused. *)
LEMMA WriteCounts ==
    ASSUME Hypotheses, CInv, NEW e \in Ends, Write(e)
    PROVE  CInv'
<1>1. /\ MaxLosses \in Nat /\ Good(p, kind) /\ p \in PairType
      /\ Patients \in SUBSET Ends /\ Counts(p, kind, Patients)
      /\ parts \in [Ends -> BOOLEAN] /\ begun \in [Ends -> Nat]
  BY Counted
<1>2. PInv'
  BY Counted, WriteStep
<1>3. PICK more \in BOOLEAN :
          LET frame == IF more THEN "more" ELSE "end"
              q == WriteFrame(p, e, frame)
          IN  IF Writable(p, e)
              THEN /\ more => ~parts[e] /\ ~(e = "socket" /\ kind = "sub")
                   /\ p' = IF more THEN q ELSE Flush(q, e)
                   /\ parts' = [parts EXCEPT ![e] = more]
                   /\ begun' = IF parts[e] THEN begun ELSE [begun EXCEPT ![e] = @ + 1]
              ELSE /\ more = FALSE
                   /\ p' = IF parts[e] /\ e = "socket" THEN Rollback(q, e) ELSE q
                   /\ parts' = [parts EXCEPT ![e] = @ /\ e # "socket"]
                   /\ UNCHANGED begun
  BY DEF Write
<1>4. UNCHANGED <<kind, closed, engine, losses>> /\ Patients' = Patients
  BY DEF Write, Patients
<1>5. ASSUME Writable(p, e), Counts(p', kind, Patients),
             p'.ends[Other(e)].state = "active" =>
                 /\ p.ends[Other(e)].state = "active"
                 /\ p.ends[Other(e)].written = 0 => p'.ends[Other(e)].written = 0
      PROVE  CInv'
  <2>1. /\ parts' = [parts EXCEPT ![e] = more]
        /\ begun' = IF parts[e] THEN begun ELSE [begun EXCEPT ![e] = @ + 1]
    BY <1>3, <1>5
  <2>2. parts' \in [Ends -> BOOLEAN] /\ begun' \in [Ends -> Nat]
    BY <1>1, <2>1
  <2>3. parts[e] => begun[e] > 0
    BY DEF CInv, BegunOK
  <2>4. begun'[e] > 0
    <3>1. begun[e] \in Nat
      BY <1>1
    <3>2. begun'[e] = IF parts[e] THEN begun[e] ELSE begun[e] + 1
      BY <1>1, <2>1
    <3>3. QED
      BY <2>3, <3>1, <3>2
  <2>5. parts'[Other(e)] = parts[Other(e)] /\ begun'[Other(e)] = begun[Other(e)]
    BY <1>1, <2>1, Two
  <2>6. BegunOK'
    <3>1. \A d \in Ends : d = e \/ d = Other(e)
      BY Two
    <3>2. /\ parts'[Other(e)] => begun'[Other(e)] > 0
          /\ begun'[Other(e)] = 0 /\ p'.ends[Other(e)].state = "active" =>
                 p'.ends[Other(e)].written = 0
      BY <1>5, <2>5, Two DEF CInv, BegunOK
    <3>3. begun'[e] # 0
      BY <2>4
    <3>4. QED
      BY <2>2, <2>4, <3>1, <3>2, <3>3 DEF BegunOK
  <2>7. QED
    BY <1>2, <1>4, <1>5, <2>6 DEF CInv
<1>6. CASE Writable(p, e) /\ more
  <2>1. p' = WriteFrame(p, e, "more") /\ (kind # "sub" \/ e = "session")
    BY <1>3, <1>6, Two
  <2>2. Counts(p', kind, Patients) /\ Even(p, p', kind)
    BY <1>1, <1>6, <2>1, WriteMoreCounts
  <2>3. Quiet(p, p') /\ Other(e) \in Ends
    BY <2>2, QuietIs, Two
  <2>4. QED
    BY <1>5, <1>6, <2>2, <2>3 DEF Quiet
<1>7. CASE Writable(p, e) /\ ~more
  <2>1. p' = Flush(WriteFrame(p, e, "end"), e)
    BY <1>3, <1>7
  <2>2. Counts(p', kind, Patients) /\ p'.ends[Other(e)] = p.ends[Other(e)]
    BY <1>1, <1>7, <2>1, WriteEndCounts
  <2>3. QED
    BY <1>5, <1>7, <2>2
<1>8. CASE ~Writable(p, e)
  <2> DEFINE q == WriteFrame(p, e, "end")
             r == Rollback(q, e)
  <2>1. /\ p' = q \/ p' = r
        /\ parts' = [parts EXCEPT ![e] = @ /\ e # "socket"] /\ begun' = begun
    BY <1>3, <1>8
  <2>2. /\ Counts(q, kind, Patients) /\ Counts(r, kind, Patients)
        /\ Even(p, q, kind) /\ Even(q, r, kind)
    BY <1>1, <1>8, RefusedCounts
  <2> HIDE DEF q, r
  <2>3. Quiet(p, q) /\ Quiet(p, r)
    BY <2>2, QuietIs
  <2>4. Counts(p', kind, Patients') /\ Quiet(p, p')
    BY <1>4, <2>1, <2>2, <2>3
  <2>5. parts' \in [Ends -> BOOLEAN] /\ \A d \in Ends : parts'[d] => parts[d]
    BY <1>1, <2>1
  <2>6. losses' = 0 => engine' = "up"
    BY <1>4 DEF CInv
  <2>7. kind' = kind /\ begun' = begun
    BY <1>4, <2>1
  <2>8. QED
    BY <1>2, <2>4, <2>5, <2>6, <2>7, CountsStay
<1>9. QED
  BY <1>6, <1>7, <1>8

(* The socket reads. *)
LEMMA ReceiveCounts ==
    ASSUME Hypotheses, CInv, Receive
    PROVE  CInv'
<1>1. p' = Read(p, "socket") /\ UNCHANGED <<kind, closed, engine, losses, parts, begun>>
  BY DEF Receive
<1>2. PInv'
  BY Counted, ReceiveStep
<1>3. Counts(p', kind, Patients) /\ Quiet(p, p')
  BY <1>1, Counted, ReadCounts
<1>4. QED
  BY <1>1, <1>2, <1>3, CountsSame

(* The session's engine reads. *)
LEMMA PullCounts ==
    ASSUME Hypotheses, CInv, Pull
    PROVE  CInv'
<1>1. p' = Read(p, "session") /\ UNCHANGED <<kind, closed, engine, losses, parts, begun>>
  BY DEF Pull
<1>2. PInv'
  BY Counted, PullStep
<1>3. Counts(p', kind, Patients) /\ Quiet(p, p')
  BY <1>1, Counted, ReadCounts
<1>4. QED
  BY <1>1, <1>2, <1>3, CountsSame

(* term is sent to the session. *)
LEMMA TermCounts ==
    ASSUME MaxLosses \in Nat, NEW k, NEW q \in PairType, NEW D \in SUBSET Ends,
           Counts(q, k, D), NEW n, n = Send(q, "session", "term", 0)
    PROVE  Counts(n, k, D) /\ Quiet(q, n) /\ n \in PairType
<1>1. "session" \in Ends /\ 0 \in Int
      /\ "term" \in {"activate_read", "hiccup", "pipe_term", "pipe_term_ack", "term"}
  BY Two
<1>2. Even(q, n, k) /\ n \in PairType /\ n.ends = q.ends
  BY <1>1, EvenSend
<1>3. QED
  BY <1>2, EvenCounts, QuietIs

(* disconnect or close: the socket promises no more. *)
LEMMA CloseCounts ==
    ASSUME Hypotheses, CInv, Close
    PROVE  CInv'
<1> DEFINE q == IF Alive("socket") THEN Terminate(p, "socket", FALSE) ELSE p
<1>1. /\ p' = q \/ p' = Send(q, "session", "term", 0)
      /\ closed' = TRUE /\ UNCHANGED <<kind, engine, losses, parts, begun>>
  BY DEF Close
<1>2. PInv'
  BY Counted, CloseStep
<1>3. /\ MaxLosses \in Nat /\ Good(p, kind) /\ p \in PairType
      /\ Patients \in SUBSET Ends /\ Counts(p, kind, Patients) /\ "socket" \in Ends
  BY Counted
<1>4. Patients' \in SUBSET Patients /\ "socket" \notin Patients'
  <2>1. "socket" \notin Patients'
    BY <1>1 DEF Patients
  <2>2. QED
    BY <1>1, <2>1, FewerPatients
<1>5. Patients' \in SUBSET Ends /\ Counts(p, kind, Patients')
  BY <1>3, <1>4, Fewer
<1>6. Counts(q, kind, Patients') /\ Quiet(p, q) /\ q \in PairType
  <2>1. CASE Alive("socket")
    <3>1. PICK delay \in BOOLEAN : delay = FALSE
      OBVIOUS
    <3>2. q = Terminate(p, "socket", delay) /\ p.ends["socket"].state # "gone"
      BY <2>1, <3>1 DEF Alive
    <3> HIDE DEF q
    <3>3. Good(q, kind)
      BY <1>3, <3>2, TerminateKeeps
    <3>4. Counts(q, kind, Patients') /\ Quiet(p, q)
      <4>1. "socket" \in Patients' => FALSE
        BY <1>4
      <4>2. QED
        BY <1>3, <1>5, <3>2, <4>1, TerminateCounts
    <3>5. QED
      BY <3>3, <3>4 DEF Good
  <2>2. CASE ~Alive("socket")
    BY <1>3, <1>5, <2>2, QuietIs
  <2>3. QED
    BY <2>1, <2>2
<1> HIDE DEF q
<1>7. Counts(p', kind, Patients') /\ Quiet(p, p')
  <2>1. CASE p' = q
    BY <1>6, <2>1
  <2>2. CASE p' = Send(q, "session", "term", 0)
    <3>1. Counts(p', kind, Patients') /\ Quiet(q, p')
      BY <1>3, <1>5, <1>6, <2>2, TermCounts
    <3>2. QED
      BY <1>6, <3>1, QuietIs
  <2>3. QED
    BY <1>1, <2>1, <2>2
<1>8. parts' \in [Ends -> BOOLEAN] /\ \A d \in Ends : parts'[d] => parts[d]
  BY <1>1, Counted
<1>9. losses' = 0 => engine' = "up"
  BY <1>1 DEF CInv
<1>10. kind' = kind /\ begun' = begun
  BY <1>1
<1>11. QED
  BY <1>2, <1>7, <1>8, <1>9, <1>10, CountsStay

(* unbind *)
LEMMA UnbindCounts ==
    ASSUME Hypotheses, CInv, Unbind
    PROVE  CInv'
<1>1. /\ p' = Send(p, "session", "term", 0) /\ closed' = TRUE
      /\ UNCHANGED <<kind, engine, losses, parts, begun>>
  BY DEF Unbind
<1>2. PInv'
  BY Counted, UnbindStep
<1>3. Counts(p', kind, Patients) /\ Quiet(p, p')
  BY <1>1, Counted, TermCounts
<1>4. Counts(p', kind, Patients')
  BY <1>1, <1>3, FewerPatients, Fewer
<1>5. parts' \in [Ends -> BOOLEAN] /\ \A d \in Ends : parts'[d] => parts[d]
  BY <1>1, Counted
<1>6. losses' = 0 => engine' = "up"
  BY <1>1 DEF CInv
<1>7. kind' = kind /\ begun' = begun
  BY <1>1
<1>8. QED
  BY <1>2, <1>3, <1>4, <1>5, <1>6, <1>7, CountsStay

(* A mark is raised before anything is written. *)
LEMMA SetMarkCounts ==
    ASSUME Hypotheses, CInv, NEW mark \in Marks, SetMark(mark)
    PROVE  CInv'
<1>1. Careful /\ mark \in Nat
  BY DEF Hypotheses
<1>2. /\ p.ends["socket"].state = "active" /\ mark > p.ends["socket"].hwm
      /\ \A e \in Ends : begun[e] = 0
      /\ p' = Send([p EXCEPT !.ends["socket"].hwm = mark], "session", "pipe_hwm", mark)
      /\ UNCHANGED <<kind, closed, engine, losses, parts, begun>>
  BY <1>1 DEF SetMark
<1>3. PInv'
  BY Counted, SetMarkStep
<1>4. p.ends["socket"].written = 0
  BY <1>2, Two DEF CInv, BegunOK
<1>5. Counts(p', kind, Patients) /\ Quiet(p, p')
  BY <1>1, <1>2, <1>4, Counted, MarkCounts
<1>6. QED
  BY <1>2, <1>3, <1>5, CountsSame

(* The connection is lost, and will be made again: the session's end       *)
(* promises no more.                                                       *)
LEMMA LoseCounts ==
    ASSUME Hypotheses, CInv, Lose
    PROVE  CInv'
<1> DEFINE q == CleanPipes(p)
           i == 2 + losses'
           r == IF kind = "sub" THEN Hiccup(q, i) ELSE q
<1>1. /\ MaxLosses \in Nat /\ Good(p, kind) /\ p \in PairType
      /\ Patients \in SUBSET Ends /\ Counts(p, kind, Patients) /\ "session" \in Ends
      /\ parts \in [Ends -> BOOLEAN] /\ Fits(p, kind, engine, halfRead, losses)
  BY Counted DEF CInv, PInv
<1>2. /\ losses < MaxLosses /\ losses' = losses + 1 /\ engine' = "down"
      /\ UNCHANGED <<kind, closed, begun>>
      /\ parts' = [parts EXCEPT !["session"] = FALSE]
      /\ p' = IF ~Alive("session") THEN p ELSE CheckRead(r, "session")
  BY DEF Lose
<1>3. PInv'
  BY Counted, LoseStep
<1>4. /\ losses \in 0..MaxLosses /\ i \in 1..2 + MaxLosses /\ losses' # 0
      /\ p.ends["session"].in \in Int /\ p.ends["session"].in < i
  <2>1. losses \in 0..MaxLosses /\ p.ends["session"].in <= 2 + losses
    BY <1>1 DEF Fits
  <2>2. p.ends["session"].in \in Int
    BY <1>1, Typed
  <2>3. QED
    BY <1>1, <1>2, <2>1, <2>2
<1>5. Patients' \in SUBSET Ends /\ Counts(p, kind, Patients')
  <2>1. kind' = kind /\ (losses' = 0 => losses = 0) /\ (closed => closed')
    BY <1>2, <1>4
  <2>2. Patients' \in SUBSET Patients
    BY <2>1, FewerPatients
  <2>3. QED
    BY <1>1, <2>2, Fewer
<1>6. Counts(p', kind, Patients') /\ Quiet(p, p')
  <2>1. CASE ~Alive("session")
    BY <1>2, <1>5, <2>1, QuietIs
  <2>2. CASE Alive("session")
    <3>1. halfRead => Readable(p, "session")
      BY <1>1 DEF Fits
    <3>2. Good(q, kind) /\ Lax(p, q)
      BY <1>1, <3>1, CleanPipesKeeps
    <3>3. Counts(q, kind, Patients') /\ Quiet(p, q)
      BY <1>1, <1>5, <3>1, CleanPipesCounts
    <3> HIDE DEF q
    <3>4. Good(r, kind) /\ Counts(r, kind, Patients') /\ Quiet(q, r)
      <4>1. CASE kind = "sub"
        <5>1. r = Hiccup(q, i) /\ i > q.ends["session"].in
          BY <1>4, <3>2, <4>1 DEF Lax
        <5> HIDE DEF r, i
        <5>2. Good(r, kind)
          BY <1>1, <1>4, <3>2, <5>1, HiccupIs
        <5>3. Good(q, "sub") /\ Counts(q, "sub", Patients')
          BY <3>2, <3>3, <4>1
        <5>4. Counts(r, "sub", Patients') /\ Quiet(q, r)
          BY <1>1, <1>4, <1>5, <5>1, <5>3, HiccupCounts
        <5>5. QED
          BY <4>1, <5>2, <5>4
      <4>2. CASE kind # "sub"
        <5>1. r = q
          BY <4>2
        <5> HIDE DEF r
        <5>2. QED
          BY <3>2, <3>3, <5>1, QuietIs
      <4>3. QED
        BY <4>1, <4>2
    <3> HIDE DEF r
    <3>5. p' = CheckRead(r, "session")
      BY <1>2, <2>2
    <3>6. Counts(p', kind, Patients') /\ Quiet(r, p')
      BY <1>1, <1>5, <3>4, <3>5, ReadCounts
    <3>7. QED
      BY <3>3, <3>4, <3>6, QuietIs
  <2>3. QED
    BY <2>1, <2>2
<1>7. parts' \in [Ends -> BOOLEAN] /\ \A d \in Ends : parts'[d] => parts[d]
  BY <1>1, <1>2
<1>8. (losses' = 0 => engine' = "up") /\ kind' = kind /\ begun' = begun
  BY <1>2, <1>4
<1>9. QED
  BY <1>3, <1>6, <1>7, <1>8, CountsStay

(* It is made again. *)
LEMMA ReconnectCounts ==
    ASSUME Hypotheses, CInv, Reconnect
    PROVE  CInv'
<1>1. engine' = "up" /\ UNCHANGED <<kind, p, closed, losses, parts, begun>>
  BY DEF Reconnect
<1>2. PInv'
  BY Counted, ReconnectStep
<1>3. Patients' = Patients
  BY <1>1 DEF Patients
<1>4. Counts(p', kind, Patients') /\ Quiet(p, p')
  BY <1>1, <1>3, Counted, QuietIs
<1>5. parts' \in [Ends -> BOOLEAN] /\ \A d \in Ends : parts'[d] => parts[d]
  BY <1>1, Counted
<1>6. (losses' = 0 => engine' = "up") /\ kind' = kind /\ begun' = begun
  BY <1>1
<1>7. QED
  BY <1>2, <1>4, <1>5, <1>6, CountsStay

(* An accepted connection is lost: the session ends. *)
LEMMA LoseAcceptedCounts ==
    ASSUME Hypotheses, CInv, LoseAccepted
    PROVE  CInv'
<1> DEFINE q == CleanPipes(p)
           r == IF pending THEN Terminate(q, "session", FALSE)
                ELSE IF closed THEN q ELSE Send(q, "session", "term", 0)
<1>1. /\ MaxLosses \in Nat /\ Good(p, kind) /\ p \in PairType
      /\ Patients \in SUBSET Ends /\ Counts(p, kind, Patients) /\ "session" \in Ends
      /\ parts \in [Ends -> BOOLEAN] /\ Fits(p, kind, engine, halfRead, losses)
  BY Counted DEF CInv, PInv
<1>2. /\ losses' = losses + 1 /\ UNCHANGED <<kind, closed, begun>>
      /\ parts' = [parts EXCEPT !["session"] = FALSE]
      /\ p' = IF ~Alive("session") THEN p ELSE CheckRead(r, "session")
  BY DEF LoseAccepted
<1>3. PInv'
  BY Counted, LoseAcceptedStep
<1>4. losses' # 0
  <2>1. losses \in 0..MaxLosses
    BY <1>1 DEF Fits
  <2>2. QED
    BY <1>1, <1>2, <2>1
<1>5. /\ Patients' \in SUBSET Ends /\ Counts(p, kind, Patients')
      /\ "session" \notin Patients'
  <2>1. kind' = kind /\ (losses' = 0 => losses = 0) /\ (closed => closed')
    BY <1>2, <1>4
  <2>2. Patients' \in SUBSET Patients
    BY <2>1, FewerPatients
  <2>3. "session" \notin Patients'
    BY <1>4 DEF Patients
  <2>4. QED
    BY <1>1, <2>2, <2>3, Fewer
<1>6. Counts(p', kind, Patients') /\ Quiet(p, p')
  <2>1. CASE ~Alive("session")
    BY <1>2, <1>5, <2>1, QuietIs
  <2>2. CASE Alive("session")
    <3>1. halfRead => Readable(p, "session")
      BY <1>1 DEF Fits
    <3>2. Good(q, kind) /\ q.ends["session"].state # "gone"
      <4>1. Good(q, kind) /\ q.ends["session"].state = p.ends["session"].state
        BY <1>1, <3>1, CleanPipesKeeps
      <4>2. QED
        BY <2>2, <4>1 DEF Alive
    <3>3. Counts(q, kind, Patients') /\ Quiet(p, q)
      BY <1>1, <1>5, <3>1, CleanPipesCounts
    <3> HIDE DEF q
    <3>4. Good(r, kind) /\ Counts(r, kind, Patients') /\ Quiet(q, r)
      <4>1. CASE pending
        <5>1. PICK delay \in BOOLEAN : delay = FALSE
          OBVIOUS
        <5>2. r = Terminate(q, "session", delay)
          BY <4>1, <5>1
        <5> HIDE DEF r
        <5>3. Good(r, kind)
          BY <1>1, <3>2, <5>2, TerminateKeeps
        <5>4. "session" \in Patients' => FALSE
          BY <1>5
        <5>5. Counts(r, kind, Patients') /\ Quiet(q, r)
          BY <1>1, <1>5, <3>2, <3>3, <5>2, <5>4, TerminateCounts
        <5>6. QED
          BY <5>3, <5>5
      <4>2. CASE ~pending /\ closed
        <5>1. r = q
          BY <4>2
        <5> HIDE DEF r
        <5>2. QED
          BY <3>2, <3>3, <5>1, QuietIs
      <4>3. CASE ~pending /\ ~closed
        <5>1. r = Send(q, "session", "term", 0)
          BY <4>3
        <5> HIDE DEF r
        <5>2. Good(r, kind)
          BY <1>1, <3>2, <5>1, TermKeeps
        <5>3. q \in PairType
          BY <3>2 DEF Good
        <5>4. Counts(r, kind, Patients') /\ Quiet(q, r)
          BY <1>1, <1>5, <3>3, <5>1, <5>3, TermCounts
        <5>5. QED
          BY <5>2, <5>4
      <4>4. QED
        BY <4>1, <4>2, <4>3
    <3> HIDE DEF r
    <3>5. p' = CheckRead(r, "session")
      BY <1>2, <2>2
    <3>6. Counts(p', kind, Patients') /\ Quiet(r, p')
      BY <1>1, <1>5, <3>4, <3>5, ReadCounts
    <3>7. QED
      BY <3>3, <3>4, <3>6, QuietIs
  <2>3. QED
    BY <2>1, <2>2
<1>7. parts' \in [Ends -> BOOLEAN] /\ \A d \in Ends : parts'[d] => parts[d]
  BY <1>1, <1>2
<1>8. (losses' = 0 => engine' = "up") /\ kind' = kind /\ begun' = begun
  BY <1>2, <1>4
<1>9. QED
  BY <1>3, <1>6, <1>7, <1>8, CountsStay

(* term, for a session whose end is not gone: one that has to be patient   *)
(* lingers, and was told of the pipe first.                                *)
LEMMA ProcessTermCounts ==
    ASSUME Hypotheses, CInv,
           NEW q, TakeFrom(p, q, "session"), Head(p.cmds["session"]).type = "term",
           p.ends["session"].state # "gone",
           NEW n, n = ProcessTerm(q)
    PROVE  Counts(n, kind, Patients) /\ Quiet(p, n)
<1>1. /\ MaxLosses \in Nat /\ Good(p, kind) /\ p \in PairType
      /\ Patients \in SUBSET Ends /\ Counts(p, kind, Patients) /\ "session" \in Ends
      /\ Fits(p, kind, engine, halfRead, losses) /\ (losses = 0 => engine = "up")
  BY Counted DEF CInv, PInv
<1>2. PICK delay \in BOOLEAN : delay <=> (Linger # 0)
  OBVIOUS
<1> DEFINE r == Terminate(q, "session", delay)
<1>3. Terminate(q, "session", Linger # 0) = r
  <2>1. (Linger # 0) = delay
    BY <1>2
  <2>2. QED
    BY <2>1
<1>4. n = IF engine = "up" THEN r ELSE CheckRead(r, "session")
  BY <1>3 DEF ProcessTerm
<1>5. Good(q, kind) /\ q.ends = p.ends
  BY <1>1, NeutralTaken
<1>6. Counts(q, kind, Patients) /\ Quiet(p, q)
  BY <1>1, NeutralCounts, QuietIs
<1>7. "session" \in Patients => \/ q.ends["session"].state = "waiting_for_delimiter" /\ delay
                                \/ q.ends["session"].state = "term_ack_sent"
  <2> SUFFICES ASSUME "session" \in Patients
               PROVE  \/ q.ends["session"].state = "waiting_for_delimiter" /\ delay
                      \/ q.ends["session"].state = "term_ack_sent"
    OBVIOUS
  <2>1. kind # "sub" /\ losses = 0
    BY DEF Patients
  <2>2. delay
    BY <1>2, <2>1 DEF Linger
  <2>3. ToldFirst(p)
    BY <1>1, <2>1 DEF Fits
  <2>4. p.ends["session"].state \notin {"active", "delimiter_received"}
    <3>1. p.cmds["session"] \in Seq(Commands) /\ p.cmds["session"] # <<>>
      BY <1>1, Typed DEF TakeFrom
    <3>2. 1 \in 1..Len(p.cmds["session"]) /\ p.cmds["session"][1] = Head(p.cmds["session"])
      BY <3>1
    <3>3. p.cmds["session"][1].type = "term" /\ ~ \E j \in 1..1 - 1 : TRUE
      BY <3>2
    <3>4. QED
      BY <2>3, <3>2, <3>3 DEF ToldFirst
  <2>5. p.ends["session"].state \notin {"term_req_sent1", "term_req_sent2"}
    BY <1>1 DEF Counts, Patient
  <2>6. p.ends["session"].state \in States
    BY <1>1, Typed
  <2>7. QED
    BY <1>5, <2>2, <2>4, <2>5, <2>6 DEF States
<1>8. Good(r, kind)
  BY <1>1, <1>5, TerminateKeeps
<1>9. Counts(r, kind, Patients) /\ Quiet(q, r)
  BY <1>1, <1>5, <1>6, <1>7, TerminateCounts
<1> HIDE DEF r
<1>10. Counts(n, kind, Patients) /\ Quiet(r, n)
  <2>1. Counts(CheckRead(r, "session"), kind, Patients) /\ Quiet(r, CheckRead(r, "session"))
    BY <1>1, <1>8, <1>9, ReadCounts
  <2>2. QED
    BY <1>4, <1>9, <2>1, QuietIs
<1>11. QED
  BY <1>6, <1>9, <1>10, QuietIs

(* One case for each type of command. *)
LEMMA ProcessCounts ==
    ASSUME Hypotheses, CInv, NEW e \in Ends, Process(e)
    PROVE  CInv'
<1> DEFINE c == Head(p.cmds[e])
           q == [p EXCEPT !.cmds[e] = Tail(@)]
<1>1. /\ MaxLosses \in Nat /\ Good(p, kind) /\ p \in PairType
      /\ Patients \in SUBSET Ends /\ Counts(p, kind, Patients)
  BY Counted
<1>2. p.cmds[e] # <<>> /\ UNCHANGED <<kind, closed, engine, losses, parts, begun>>
  BY DEF Process
<1>3. p' = IF ~Alive(e) THEN Fail(q, c.type = "term")
           ELSE CASE c.type = "term" -> ProcessTerm(q)
                  [] c.type = "activate_read" -> ActivateRead(q, e)
                  [] c.type = "activate_write" -> ActivateWrite(q, e, c.arg)
                  [] c.type = "hiccup" -> ProcessHiccup(q, c.arg)
                  [] c.type = "pipe_hwm" -> [q EXCEPT !.ends[e].lwm = LowMark(c.arg)]
                  [] c.type = "pipe_term" -> ProcessPipeTerm(q, e)
                  [] c.type = "pipe_term_ack" -> ProcessPipeTermAck(q, e)
  BY DEF Process
<1>4. TakeFrom(p, q, e)
  BY <1>2 DEF TakeFrom
<1> HIDE DEF q
<1>5. q \in PairType /\ p.cmds[e] \in Seq(Commands) /\ c \in Commands
  BY <1>1, <1>4, TakenIs
<1>6. c.type \in Neutral \cup {"hiccup", "pipe_term", "pipe_term_ack", "term"} /\ c.arg \in Int
  BY <1>5 DEF Commands
<1>7. PInv'
  BY Counted, ProcessStep
<1>8. SUFFICES Counts(p', kind, Patients) /\ Quiet(p, p')
  BY <1>2, <1>7, CountsSame
<1>9. 1 \in 1..Len(p.cmds[e]) /\ p.cmds[e][1] = c
  BY <1>2, <1>5
<1>10. Counts(q, kind, Patients) /\ Quiet(p, q) /\ q.ends = p.ends
  BY <1>1, <1>4, NeutralCounts, QuietIs
<1>11. ASSUME Counts(p', kind, Patients), Quiet(q, p')
       PROVE  Counts(p', kind, Patients) /\ Quiet(p, p')
  BY <1>10, <1>11, QuietIs
<1>12. /\ c.type = "activate_write" => c.arg \in 0..q.ends[Other(e)].read
       /\ c.type = "pipe_hwm" => c.arg >= 0
  BY <1>1, <1>2, <1>10, FirstCounts
<1>13. CASE ~Alive(e)
  <2>1. c.type = "term"
    BY <1>1, <1>9, <1>13 DEF Alive, Good, GoneOK
  <2>2. Fail(q, c.type = "term") = q
    <3>1. q.failed \in BOOLEAN /\ [q EXCEPT !.failed = q.failed] = q
      BY <1>5 DEF PairType
    <3>2. (q.failed \/ ~(c.type = "term")) = q.failed
      BY <2>1, <3>1
    <3>3. QED
      BY <3>1, <3>2 DEF Fail
  <2>3. p' = q
    BY <1>3, <1>13, <2>2
  <2>4. QED
    BY <1>10, <2>3
<1>14. CASE Alive(e) /\ c.type = "term"
  <2>1. e = "session"
    <3>1. ~Has(p.cmds["socket"], "term")
      BY <1>1 DEF Good, RowsOK
    <3>2. Has(p.cmds[e], "term")
      BY <1>9, <1>14 DEF Has
    <3>3. QED
      BY <3>1, <3>2, Two
  <2>2. p' = ProcessTerm(q)
    BY <1>3, <1>14
  <2>3. /\ TakeFrom(p, q, "session") /\ Head(p.cmds["session"]).type = "term"
        /\ p.ends["session"].state # "gone"
    BY <1>4, <1>14, <2>1 DEF Alive
  <2>4. QED
    BY <2>2, <2>3, ProcessTermCounts
<1>15. CASE Alive(e) /\ c.type = "activate_read"
  <2>1. p' = ActivateRead(q, e)
    BY <1>3, <1>15
  <2>2. Good(q, kind)
    <3>1. Head(p.cmds[e]).type \in Neutral \cup {"term"}
      BY <1>15 DEF Neutral
    <3>2. QED
      BY <1>1, <1>4, <3>1, NeutralTaken
  <2>3. Counts(p', kind, Patients) /\ Quiet(q, p')
    BY <1>1, <1>10, <2>1, <2>2, ActivateReadCounts
  <2>4. QED
    BY <1>11, <2>3
<1>16. CASE Alive(e) /\ c.type = "activate_write"
  <2>1. p' = ActivateWrite(q, e, c.arg) /\ c.arg \in 0..q.ends[Other(e)].read
    BY <1>3, <1>12, <1>16
  <2>2. Counts(p', kind, Patients) /\ Quiet(q, p')
    BY <1>1, <1>5, <1>10, <2>1, ActivateWriteCounts
  <2>3. QED
    BY <1>11, <2>2
<1>17. CASE Alive(e) /\ c.type = "hiccup"
  <2>1. e = "socket"
    <3>1. ~Has(p.cmds["session"], "hiccup")
      BY <1>1 DEF Good, RowsOK
    <3>2. Has(p.cmds[e], "hiccup")
      BY <1>9, <1>17 DEF Has
    <3>3. QED
      BY <3>1, <3>2, Two
  <2>2. p' = ProcessHiccup(q, c.arg)
    BY <1>3, <1>17
  <2>3. /\ TakeFrom(p, q, "socket") /\ Head(p.cmds["socket"]).type = "hiccup"
        /\ p' = ProcessHiccup(q, Head(p.cmds["socket"]).arg)
    BY <1>4, <1>17, <2>1, <2>2
  <2>4. QED
    BY <1>1, <2>3, ProcessHiccupCounts
<1>18. CASE Alive(e) /\ c.type = "pipe_hwm"
  <2>1. Lowered(q, p', e, LowMark(c.arg)) /\ c.arg >= 0
    BY <1>3, <1>12, <1>18 DEF Lowered
  <2>2. Counts(p', kind, Patients) /\ Quiet(q, p')
    BY <1>1, <1>5, <1>6, <1>10, <2>1, LowMarkCounts
  <2>3. QED
    BY <1>11, <2>2
<1>19. CASE Alive(e) /\ c.type = "pipe_term"
  <2>1. p' = ProcessPipeTerm(q, e)
    BY <1>3, <1>19
  <2>2. QED
    BY <1>1, <1>4, <1>19, <2>1, ProcessPipeTermCounts
<1>20. CASE Alive(e) /\ c.type = "pipe_term_ack"
  <2>1. p' = ProcessPipeTermAck(q, e)
    BY <1>3, <1>20
  <2>2. QED
    BY <1>1, <1>4, <1>20, <2>1, ProcessPipeTermAckCounts
<1>21. QED
  BY <1>6, <1>13, <1>14, <1>15, <1>16, <1>17, <1>18, <1>19, <1>20 DEF Neutral

(* Initially there is nothing to count. *)
LEMMA InitCounts ==
    ASSUME Hypotheses, Init
    PROVE  CInv
<1> DEFINE z == <<>>
<1>1. MaxLosses \in Nat /\ Marks \subseteq Nat
  BY DEF Hypotheses
<1>2. engine = "up" /\ losses = 0 /\ closed = FALSE
      /\ parts = [e \in Ends |-> FALSE] /\ begun = [e \in Ends |-> 0]
  BY DEF Init
<1>3. PICK mark \in Marks :
          p = [ends |-> [e \in Ends |-> NewEnd(e, mark)],
               pipes |-> [i \in 1..2 + MaxLosses |-> NewPipe],
               cmds |-> [e \in Ends |-> z],
               failed |-> FALSE]
  BY DEF Init
<1>4. mark \in Nat /\ LowMark(mark) >= 0
  <2>1. mark \in Nat /\ mark \in Int /\ mark >= 0
    BY <1>1
  <2>2. QED
    BY <2>1, LowMarkIs
<1>5. PInv
  BY InitHolds
<1>6. /\ \A e \in Ends : /\ p.ends[e].state = "active" /\ p.cmds[e] = z
                         /\ p.ends[e].in = IF e = "socket" THEN 1 ELSE 2
                         /\ p.ends[e].out = IF e = "socket" THEN 2 ELSE 1
                         /\ p.ends[e].delay = ~(e = "socket" /\ kind = "push")
                         /\ p.ends[e].hwm = mark /\ p.ends[e].lwm = LowMark(mark)
                         /\ p.ends[e].read = 0 /\ p.ends[e].written = 0
                         /\ p.ends[e].peersRead = 0
      /\ \A i \in 1..2 + MaxLosses : p.pipes[i].queue = z
  BY <1>3 DEF NewEnd, NewPipe
<1>7. Ended(z) = 0 /\ Closing(z) /\ RowCounts(z, 0)
  <2>1. z \in Seq(Frames) /\ Len(z) = 0
    OBVIOUS
  <2> HIDE DEF z
  <2>2. \A i \in 1..Len(z) : z[i] # "end"
    BY <2>1
  <2>3. Ended(z) = 0
    BY <2>1, <2>2, EndedIs
  <2>4. QED
    BY <2>1, <2>3 DEF Closing, RowCounts
<1>8. z = <<>>
  OBVIOUS
<1> HIDE DEF z
<1>9. ASSUME NEW e \in Ends PROVE EndTally(p, kind, e)
  <2>1. Other(e) \in Ends /\ p.ends[e].out \in 1..2 + MaxLosses
    BY <1>1, <1>6, Two
  <2>2. Ended(p.pipes[p.ends[e].out].queue) = 0
    BY <1>6, <1>7, <2>1
  <2>3. RowCounts(p.cmds[e], 0)
    BY <1>6, <1>7
  <2>4. /\ p.ends[e].lwm >= 0 /\ p.ends[e].peersRead = 0 /\ p.ends[Other(e)].read = 0
        /\ p.ends[e].written = 0 /\ p.ends[e].hwm \in Nat
    BY <1>4, <1>6, <2>1
  <2>5. QED
    BY <2>2, <2>3, <2>4 DEF EndTally
<1>10. Tally(p, kind)
  <2>1. \A i \in 1..2 + MaxLosses : Closing(p.pipes[i].queue) /\ p.pipes[i].queue = <<>>
    BY <1>6, <1>7, <1>8
  <2>2. p.ends["session"].in = 2
    BY <1>6, Two
  <2>3. QED
    BY <1>9, <2>1, <2>2 DEF Tally
<1>11. ASSUME NEW e \in Patients PROVE kind # "sub" /\ Patient(p, e)
  <2>1. e \in Ends /\ kind # "sub" /\ p.ends[e].state = "active" /\ p.ends[e].delay
    <3>1. e \in Ends /\ kind # "sub" /\ (e = "socket" => kind = "other")
      BY <1>11, Two DEF Patients
    <3>2. QED
      BY <1>6, <3>1
  <2>2. QED
    BY <2>1 DEF Patient, Silent
<1>12. Counts(p, kind, Patients)
  BY <1>10, <1>11 DEF Counts, Patients
<1>13. BegunOK
  BY <1>2, <1>6 DEF BegunOK
<1>14. QED
  BY <1>2, <1>5, <1>12, <1>13 DEF CInv

-----------------------------------------------------------------------------
(* What follows.                                                           *)

(* The invariant holds in every reachable state: what an active end has    *)
(* written is what its peer has read and what is still in the ypipe, the   *)
(* acknowledgements under way say no more than was read, and an end that   *)
(* does not end the pipe by itself reads everything before it goes.        *)
THEOREM CountsInvariant == Hypotheses => (Spec => []CInv)
<1> SUFFICES ASSUME Hypotheses PROVE Spec => []CInv
  OBVIOUS
<1>1. Init => CInv
  BY InitCounts
<1>2. CInv /\ [Next]_vars => CInv'
  <2> SUFFICES ASSUME CInv, [Next]_vars PROVE CInv'
    OBVIOUS
  <2>1. CASE \E e \in Ends : Write(e)
    BY <2>1, WriteCounts
  <2>2. CASE \E e \in Ends : Process(e)
    BY <2>2, ProcessCounts
  <2>3. CASE Receive
    BY <2>3, ReceiveCounts
  <2>4. CASE Close
    BY <2>4, CloseCounts
  <2>5. CASE Unbind
    BY <2>5, UnbindCounts
  <2>6. CASE \E mark \in Marks : SetMark(mark)
    BY <2>6, SetMarkCounts
  <2>7. CASE Pull
    BY <2>7, PullCounts
  <2>8. CASE Lose
    BY <2>8, LoseCounts
  <2>9. CASE Reconnect
    BY <2>9, ReconnectCounts
  <2>10. CASE LoseAccepted
    BY <2>10, LoseAcceptedCounts
  <2>11. CASE UNCHANGED vars
    <3>1. UNCHANGED <<kind, p, engine, halfRead, losses, closed, parts, begun>>
      BY <2>11 DEF vars
    <3>2. PInv' /\ Patients' = Patients /\ BegunOK'
      BY <3>1 DEF CInv, PInv, Patients, BegunOK
    <3>3. QED
      BY <3>1, <3>2 DEF CInv
  <2>12. QED
    BY <2>1, <2>2, <2>3, <2>4, <2>5, <2>6, <2>7, <2>8, <2>9, <2>10, <2>11 DEF Next
<1>3. QED
  BY <1>1, <1>2, PTL DEF Spec

(* The types, with the counters' bounds. *)
LEMMA CountsTyped ==
    ASSUME Hypotheses, CInv
    PROVE  TypeOK
<1>1. /\ MaxLosses \in Nat /\ Good(p, kind) /\ p \in PairType /\ Tally(p, kind)
      /\ Fits(p, kind, engine, halfRead, losses)
  BY Counted DEF CInv, PInv, Counts
<1>2. ASSUME NEW e \in Ends, p.ends[e].state = "active"
      PROVE  p.ends[e].peersRead \in 0..p.ends[e].written
  <2>1. EndTally(p, kind, e) /\ Other(e) \in Ends
    BY <1>1, Two DEF Tally
  <2>2. p.ends[e].out # 0 /\ p.ends[e].out \in 0..2 + MaxLosses
    BY <1>1, <1>2, Typed DEF Good, OutOK, Silent
  <2>3. Ended(p.pipes[p.ends[e].out].queue) \in Nat
    <3>1. p.ends[e].out \in 1..2 + MaxLosses
      BY <2>2
    <3>2. p.pipes[p.ends[e].out].queue \in Seq(Frames)
      BY <1>1, <3>1, Typed
    <3>3. QED
      BY <3>2, EndedIs
  <2>4. /\ p.ends[e].peersRead \in 0..p.ends[Other(e)].read
        /\ p.ends[e].written = p.ends[Other(e)].read + Ended(p.pipes[p.ends[e].out].queue)
    BY <1>2, <2>1, <2>2 DEF EndTally
  <2>5. p.ends[Other(e)].read \in Nat
    BY <1>1, <2>1, Typed
  <2>6. QED
    BY <2>3, <2>4, <2>5
<1>3. ASSUME NEW e \in Ends
      PROVE  /\ p.ends[e].state \in States
             /\ p.ends[e].in \in 1..2 + MaxLosses /\ p.ends[e].out \in 0..2 + MaxLosses
             /\ p.ends[e].read \in Nat /\ p.ends[e].hwm \in Nat /\ p.ends[e].lwm \in Nat
  <2>1. p.ends[e].lwm >= 0 /\ p.ends[e].lwm \in Int
    BY <1>1, Typed DEF Tally, EndTally
  <2>2. p.ends[e].lwm \in Nat
    BY <2>1
  <2>3. QED
    BY <1>1, <2>2, Typed
<1>4. engine \in {"up", "down", "none"} /\ losses \in 0..MaxLosses
  BY <1>1 DEF Fits
<1>5. QED
  BY <1>2, <1>3, <1>4 DEF TypeOK

(* The high water mark bounds the messages between the ends, whatever      *)
(* acknowledgement or hiccup is under way.                                 *)
THEOREM QueuesBounded == Hypotheses => (Spec => []Bounded)
<1> SUFFICES ASSUME Hypotheses PROVE Spec => []Bounded
  OBVIOUS
<1>1. CInv => Bounded
  <2> SUFFICES ASSUME CInv PROVE Bounded
    OBVIOUS
  <2>1. MaxLosses \in Nat /\ Good(p, kind) /\ p \in PairType /\ Tally(p, kind)
    BY Counted DEF CInv, Counts
  <2>2. ASSUME NEW e \in Ends, p.ends[e].hwm > 0, p.ends[e].out # 0
        PROVE  LET y == p.pipes[p.ends[e].out]
               IN  Ended(y.queue \o y.draft) <= p.ends[e].hwm
    <3> DEFINE i == p.ends[e].out
               y == p.pipes[i]
    <3>1. i \in 0..2 + MaxLosses
      BY <2>1, Typed
    <3>2. i \in 1..2 + MaxLosses
      BY <2>2, <3>1
    <3>3. y.queue \in Seq(Frames) /\ y.draft \in Seq(Frames)
      BY <2>1, <2>2, <3>2, Typed
    <3>4. \A j \in 1..Len(y.draft) : y.draft[j] = "more"
      BY <2>1, <3>2 DEF Good, YpipesOK, YpipeOK
    <3>5. Ended(y.queue \o y.draft) = Ended(y.queue)
      BY <3>3, <3>4, EndedDraft
    <3>6. Ended(y.queue) <= p.ends[e].hwm
      BY <2>1, <2>2 DEF Tally, EndTally
    <3>7. QED
      BY <3>5, <3>6
  <2>3. QED
    BY <2>2, CountsTyped DEF Bounded
<1>2. QED
  BY <1>1, CountsInvariant, PTL

(* Infinite linger: an end that does not end the pipe by itself has read   *)
(* whatever whole message was written when it is gone.                     *)
THEOREM EverythingIsRead == Hypotheses => (Spec => []Lingers)
<1> SUFFICES ASSUME Hypotheses PROVE Spec => []Lingers
  OBVIOUS
<1>1. CInv => Lingers
  <2> SUFFICES ASSUME CInv PROVE Lingers
    OBVIOUS
  <2>1. ASSUME NEW e \in Patients, p.ends[e].state = "gone"
        PROVE  p.ends[e].read = p.ends[Other(e)].written
    BY <2>1 DEF CInv, Counts, Patient, Silent
  <2>2. "socket" \in Ends /\ "session" \in Ends
    BY Two
  <2>3. kind # "sub" /\ losses = 0 => "session" \in Patients
    BY <2>2 DEF Patients
  <2>4. kind = "other" /\ ~closed => "socket" \in Patients
    BY <2>2 DEF Patients
  <2>5. QED
    BY <2>1, <2>3, <2>4, Two DEF Lingers, Alive
<1>2. QED
  BY <1>1, CountsInvariant, PTL
=============================================================================
