-------------------------- MODULE Exchange_proofs --------------------------
(***************************************************************************)
(* That no request is counted twice and none gets lost but where the code  *)
(* drops messages, for any requesters, lines, workers and broken lines.    *)
(*                                                                         *)
(* XInv says who can hold what: connections have numbers of their own      *)
(* (Numbered), what is on a line or has its number is of the requester of  *)
(* the line (Tagged), a worker that answers and the message the broker     *)
(* holds remember whom it is for (RepOK, HeldOK), what is not connected    *)
(* holds nothing (UnusedOK), and a requester that waits has one message,   *)
(* in one queue, or none if it was dropped (Located).                      *)
(***************************************************************************)
EXTENDS Exchange, FiniteSetTheorems, TLAPS

(* Connections have numbers from 1 on; a line 0 is none. *)
Sizes == IsFiniteSet(Lines) /\ 0 \notin Lines /\ Clients # {} /\ MaxFaults \in Nat

-----------------------------------------------------------------------------
(* Messages in a queue. *)

Elems(s) == {s[i] : i \in DOMAIN s}

Once(s, c) == \A i, j \in DOMAIN s : s[i].client = c /\ s[j].client = c => i = j

(* The requesters are those of the elements. *)
LEMMA SendersAre ==
    ASSUME NEW M, NEW s \in Seq(M)
    PROVE  /\ Senders(s) = {m.client : m \in Elems(s)} /\ Elems(s) \subseteq M
           /\ s = <<>> <=> Senders(s) = {}
<1>1. DOMAIN s = 1..Len(s) /\ Len(s) \in Nat /\ \A i \in 1..Len(s) : s[i] \in M
  OBVIOUS
<1>2. s # <<>> => 1 \in DOMAIN s
  BY <1>1
<1>3. s = <<>> => DOMAIN s = {}
  BY <1>1
<1>4. QED
  BY <1>1, <1>2, <1>3 DEF Senders, Elems

(* An empty queue, *)
LEMMA NoMessage ==
    /\ Senders(<<>>) = {} /\ Elems(<<>>) = {} /\ \A c : Once(<<>>, c)
    /\ Len(<<>>) = 0 /\ \A M : <<>> \in Seq(M)
  BY DEF Senders, Elems, Once

(* one with one message, *)
LEMMA OneMessage ==
    ASSUME NEW m
    PROVE  Senders(<<m>>) = {m.client} /\ Elems(<<m>>) = {m} /\ \A c : Once(<<m>>, c)
  BY DEF Senders, Elems, Once

(* one more, *)
LEMMA OneMore ==
    ASSUME NEW M, NEW s \in Seq(M), NEW m \in M
    PROVE  /\ Append(s, m) \in Seq(M)
           /\ Senders(Append(s, m)) = Senders(s) \cup {m.client}
           /\ Elems(Append(s, m)) = Elems(s) \cup {m}
           /\ \A c : Once(s, c) /\ (m.client = c => c \notin Senders(s)) => Once(Append(s, m), c)
<1> DEFINE a == Append(s, m)
           n == Len(s)
<1>1. /\ a \in Seq(M) /\ DOMAIN s = 1..n /\ DOMAIN a = 1..n + 1 /\ n \in Nat
      /\ a[n + 1] = m /\ \A i \in 1..n : a[i] = s[i]
  OBVIOUS
<1>2. 1..n + 1 = (1..n) \cup {n + 1} /\ n + 1 \notin 1..n
  BY <1>1
<1> HIDE DEF a, n
<1>3. Senders(a) = Senders(s) \cup {m.client} /\ Elems(a) = Elems(s) \cup {m}
  BY <1>1, <1>2 DEF Senders, Elems
<1>4. \A c : Once(s, c) /\ (m.client = c => c \notin Senders(s)) => Once(a, c)
  BY <1>1, <1>2 DEF Senders, Once
<1>5. QED
  BY <1>1, <1>3, <1>4 DEF a

(* one less, *)
LEMMA OneLess ==
    ASSUME NEW M, NEW s \in Seq(M), s # <<>>
    PROVE  /\ Tail(s) \in Seq(M) /\ Head(s) \in M /\ Head(s) = s[1]
           /\ Senders(s) = Senders(Tail(s)) \cup {Head(s).client}
           /\ Elems(s) = Elems(Tail(s)) \cup {Head(s)}
           /\ \A c : Once(s, c) => /\ Once(Tail(s), c)
                                   /\ Head(s).client = c => c \notin Senders(Tail(s))
<1> DEFINE t == Tail(s)
           h == Head(s)
           n == Len(s)
<1>1. /\ t \in Seq(M) /\ h \in M /\ h = s[1] /\ n \in Nat \ {0}
      /\ DOMAIN s = 1..n /\ DOMAIN t = 1..n - 1 /\ \A i \in 1..n - 1 : t[i] = s[i + 1]
  OBVIOUS
<1> HIDE DEF t, h, n
<1>2. /\ 1 \in 1..n /\ \A i \in 1..n : i # 1 => i - 1 \in 1..n - 1 /\ (i - 1) + 1 = i
      /\ \A i \in 1..n - 1 : i + 1 \in 1..n /\ i + 1 # 1
  BY <1>1
<1>3. \A i \in 1..n : i # 1 => s[i] = t[i - 1]
  BY <1>1, <1>2
<1>4. Senders(s) = Senders(t) \cup {h.client} /\ Elems(s) = Elems(t) \cup {h}
  <2>1. \A i \in 1..n : s[i] \in Elems(t) \cup {h}
    BY <1>1, <1>2, <1>3, ZenonT(30) DEF Elems
  <2>2. \A i \in 1..n - 1 : t[i] \in Elems(s)
    BY <1>1, <1>2 DEF Elems
  <2>3. h \in Elems(s)
    BY <1>1, <1>2 DEF Elems
  <2>4. Elems(s) = Elems(t) \cup {h}
    BY <1>1, <2>1, <2>2, <2>3 DEF Elems
  <2>5. QED
    BY <1>1, <2>4, SendersAre
<1>5. ASSUME NEW c, Once(s, c) PROVE Once(t, c) /\ (h.client = c => c \notin Senders(t))
  <2>1. ASSUME NEW i \in 1..n - 1, NEW j \in 1..n - 1, t[i].client = c, t[j].client = c
        PROVE  i = j
    <3>1. i + 1 = j + 1
      BY <1>1, <1>2, <1>5, <2>1 DEF Once
    <3>2. i \in Int /\ j \in Int
      BY <1>1
    <3>3. QED
      BY <3>1, <3>2
  <2>2. ASSUME h.client = c, NEW i \in 1..n - 1, t[i].client = c
        PROVE  FALSE
    BY <1>1, <1>2, <1>5, <2>2, SMTT(30) DEF Once
  <2>3. QED
    BY <1>1, <2>1, <2>2 DEF Once, Senders
<1>6. QED
  BY <1>1, <1>4, <1>5 DEF t, h

(* a queue in two parts. *)
LEMMA Parts ==
    ASSUME NEW M, NEW s \in Seq(M), NEW k \in 0..Len(s)
    PROVE  LET a == SubSeq(s, 1, k)
               b == SubSeq(s, k + 1, Len(s))
           IN  /\ a \in Seq(M) /\ b \in Seq(M)
               /\ Senders(s) = Senders(a) \cup Senders(b) /\ Elems(s) = Elems(a) \cup Elems(b)
               /\ \A c : Once(s, c) => /\ Once(a, c) /\ Once(b, c)
                                        /\ c \notin Senders(a) \cap Senders(b)
<1> DEFINE a == SubSeq(s, 1, k)
           b == SubSeq(s, k + 1, Len(s))
           n == Len(s)
<1>1. /\ a \in Seq(M) /\ b \in Seq(M) /\ n \in Nat /\ k \in 0..n /\ DOMAIN s = 1..n
      /\ DOMAIN a = 1..k /\ \A i \in 1..k : a[i] = s[i]
      /\ DOMAIN b = 1..n - k /\ \A i \in 1..n - k : b[i] = s[k + i]
  OBVIOUS
<1> HIDE DEF a, b, n
<1>2. /\ \A i \in 1..k : i \in 1..n
      /\ \A i \in 1..n - k : k + i \in 1..n /\ k + i \notin 1..k
      /\ \A i \in 1..n : i \notin 1..k => i - k \in 1..n - k /\ k + (i - k) = i
  BY <1>1
<1>3. Senders(s) = Senders(a) \cup Senders(b) /\ Elems(s) = Elems(a) \cup Elems(b)
  <2>1. \A i \in 1..n : (i \in 1..k /\ s[i] = a[i]) \/ (i - k \in 1..n - k /\ s[i] = b[i - k])
    BY <1>1, <1>2
  <2>2. \A i \in 1..n : s[i] \in Elems(a) \cup Elems(b)
    BY <1>1, <2>1 DEF Elems
  <2>3. \A i \in 1..k : a[i] \in Elems(s)
    BY <1>1, <1>2 DEF Elems
  <2>4. \A i \in 1..n - k : b[i] \in Elems(s)
    BY <1>1, <1>2 DEF Elems
  <2>5. Elems(s) = Elems(a) \cup Elems(b)
    BY <1>1, <2>2, <2>3, <2>4, ZenonT(30) DEF Elems
  <2>6. QED
    BY <1>1, <2>5, SendersAre
<1>4. ASSUME NEW c, Once(s, c) PROVE Once(a, c) /\ Once(b, c) /\ c \notin Senders(a) \cap Senders(b)
  <2>1. Once(a, c)
    BY <1>1, <1>2, <1>4 DEF Once
  <2>2. ASSUME NEW i \in 1..n - k, NEW j \in 1..n - k, b[i].client = c, b[j].client = c
        PROVE  i = j
    <3>1. k + i = k + j
      BY <1>1, <1>2, <1>4, <2>2 DEF Once
    <3>2. i \in Int /\ j \in Int /\ k \in Int
      BY <1>1
    <3>3. QED
      BY <3>1, <3>2
  <2>3. ASSUME NEW i \in 1..k, NEW j \in 1..n - k, a[i].client = c, b[j].client = c
        PROVE  FALSE
    <3>1. i \in 1..n /\ k + j \in 1..n /\ k + j \notin 1..k
      BY <1>2
    <3>2. s[i].client = c /\ s[k + j].client = c
      BY <1>1, <2>3
    <3>3. i = k + j
      BY <1>1, <1>4, <3>1, <3>2 DEF Once
    <3>4. QED
      BY <3>1, <3>3
  <2>4. Once(b, c)
    BY <1>1, <2>2 DEF Once
  <2>5. c \notin Senders(a) \cap Senders(b)
    <3>1. c \in Senders(a) => \E i \in 1..k : a[i].client = c
      BY <1>1 DEF Senders
    <3>2. c \in Senders(b) => \E j \in 1..n - k : b[j].client = c
      BY <1>1 DEF Senders
    <3>3. QED
      BY <2>3, <3>1, <3>2
  <2>6. QED
    BY <2>1, <2>4, <2>5
<1>5. QED
  BY <1>1, <1>3, <1>4 DEF a, b, n

(* and two queues in one. *)
LEMMA Both ==
    ASSUME NEW M, NEW s \in Seq(M), NEW t \in Seq(M)
    PROVE  /\ s \o t \in Seq(M)
           /\ Senders(s \o t) = Senders(s) \cup Senders(t) /\ Elems(s \o t) = Elems(s) \cup Elems(t)
<1> DEFINE a == s \o t
           n == Len(s)
           k == Len(t)
<1>1. /\ a \in Seq(M) /\ n \in Nat /\ k \in Nat /\ DOMAIN s = 1..n /\ DOMAIN t = 1..k
      /\ DOMAIN a = 1..n + k /\ \A i \in 1..n + k : a[i] = IF i <= n THEN s[i] ELSE t[i - n]
  OBVIOUS
<1> HIDE DEF a, n, k
<1>2. /\ \A i \in 1..n : i \in 1..n + k /\ i <= n
      /\ \A i \in 1..k : n + i \in 1..n + k /\ ~(n + i <= n) /\ (n + i) - n = i
      /\ \A i \in 1..n + k : i <= n => i \in 1..n
      /\ \A i \in 1..n + k : ~(i <= n) => i - n \in 1..k
  BY <1>1
<1>3. ASSUME NEW i \in 1..n + k PROVE a[i] \in Elems(s) \cup Elems(t)
  <2>1. CASE i <= n
    <3>1. i \in DOMAIN s /\ a[i] = s[i]
      BY <1>1, <1>2, <2>1
    <3>2. QED
      BY <3>1 DEF Elems
  <2>2. CASE ~(i <= n)
    <3>1. i - n \in DOMAIN t /\ a[i] = t[i - n]
      BY <1>1, <1>2, <2>2
    <3>2. QED
      BY <3>1 DEF Elems
  <2>3. QED
    BY <2>1, <2>2
<1>4. \A i \in 1..n : s[i] \in Elems(a)
  BY <1>1, <1>2 DEF Elems
<1>5. \A i \in 1..k : t[i] \in Elems(a)
  <2>1. \A i \in 1..k : n + i \in DOMAIN a /\ a[n + i] = t[i]
    BY <1>1, <1>2
  <2>2. QED
    BY <2>1 DEF Elems
<1>6. Elems(a) = Elems(s) \cup Elems(t)
  <2>1. Elems(a) \subseteq Elems(s) \cup Elems(t)
    BY <1>1, <1>3 DEF Elems
  <2>2. Elems(s) \subseteq Elems(a) /\ Elems(t) \subseteq Elems(a)
    BY <1>1, <1>4, <1>5 DEF Elems
  <2>3. QED
    BY <2>1, <2>2
<1>7. Senders(a) = Senders(s) \cup Senders(t)
  BY <1>1, <1>6, SendersAre
<1>8. QED
  BY <1>1, <1>6, <1>7 DEF a

(* Requesters are clients. *)
LEMMA SendersTyped ==
    ASSUME NEW s, s \in Seq(Message) \/ s \in Seq(Routed)
    PROVE  Senders(s) \subseteq Clients
<1>1. \A m \in Message \cup Routed : m.client \in Clients
  BY DEF Message, Routed
<1>2. Senders(s) = {m.client : m \in Elems(s)} /\ Elems(s) \subseteq Message \cup Routed
  BY SendersAre
<1>3. QED
  BY <1>1, <1>2

(* A queue that holds one message at most. *)
LEMMA Single ==
    ASSUME NEW M, NEW s \in Seq(M), s # <<>>, Len(s) <= 1
    PROVE  s = <<s[1]>> /\ s[1] \in M /\ Head(s) = s[1] /\ Tail(s) = <<>>
<1>1. Len(s) = 1 /\ s[1] \in M /\ Head(s) = s[1]
  <2>1. Len(s) \in Nat /\ DOMAIN s = 1..Len(s)
    OBVIOUS
  <2>2. Len(s) # 0
    BY <2>1
  <2>3. Len(s) = 1
    BY <2>1, <2>2
  <2>4. QED
    BY <2>3
<1>2. Len(Tail(s)) = 0 /\ Tail(s) \in Seq(M)
  BY <1>1
<1>3. Tail(s) = <<>>
  BY <1>2
<1>4. s = <<s[1]>>
  BY <1>1
<1>5. QED
  BY <1>1, <1>3, <1>4

LEMMA First ==
    ASSUME NEW M, NEW m \in M
    PROVE  <<m>> = Append(<<>>, m) /\ <<m>> \in Seq(M) /\ Len(<<m>>) = 1 /\ <<m>> # <<>>
  OBVIOUS

-----------------------------------------------------------------------------
(* Where a client's message is. *)

Queues == [n \in Places |-> Queue(n)]

(* It is in one queue, or in none; Q says what is in each. *)
Alone(Q, c, somewhere) ==
    /\ \A n \in Places : Once(Q[n], c)
    /\ \A n, m \in Places : c \in Senders(Q[n]) /\ c \in Senders(Q[m]) => n = m
    /\ (\E n \in Places : c \in Senders(Q[n])) <=> somewhere

(* A message goes from one queue to another. *)
LEMMA Moved ==
    ASSUME NEW Q, NEW R, NEW c, NEW somewhere, Alone(Q, c, somewhere),
           NEW a \in Places, NEW b \in Places, a # b,
           NEW M, Q[a] \in Seq(M), Q[a] # <<>>, NEW N, Q[b] \in Seq(N),
           NEW m \in N, m.client = Head(Q[a]).client,
           R[a] = Tail(Q[a]), R[b] = Append(Q[b], m),
           \A n \in Places : n \notin {a, b} => R[n] = Q[n]
    PROVE  Alone(R, c, somewhere)
<1>1. Once(Q[a], c) /\ Once(Q[b], c)
  BY DEF Alone
<1>2. /\ Senders(Q[a]) = Senders(R[a]) \cup {m.client}
      /\ Once(R[a], c) /\ (m.client = c => c \notin Senders(R[a]))
  BY <1>1, OneLess
<1>3. /\ Senders(R[b]) = Senders(Q[b]) \cup {m.client}
      /\ (m.client = c => c \notin Senders(Q[b])) => Once(R[b], c)
  BY <1>1, OneMore
<1>4. \A n, k \in Places : c \in Senders(Q[n]) /\ c \in Senders(Q[k]) => n = k
  BY DEF Alone
<1>5. m.client = c => c \notin Senders(Q[b])
  BY <1>2, <1>4
<1>6. \A n \in Places : Once(R[n], c)
  BY <1>2, <1>3, <1>5 DEF Alone
<1>7. CASE m.client = c
  <2>1. \A n \in Places : c \in Senders(R[n]) <=> n = b
    BY <1>2, <1>3, <1>4, <1>7
  <2>2. somewhere
    BY <1>2, <1>7 DEF Alone
  <2>3. QED
    BY <1>6, <2>1, <2>2 DEF Alone
<1>8. CASE m.client # c
  <2>1. \A n \in Places : c \in Senders(R[n]) <=> c \in Senders(Q[n])
    BY <1>2, <1>3, <1>8
  <2>2. QED
    BY <1>4, <1>6, <2>1 DEF Alone
<1>9. QED
  BY <1>7, <1>8

(* Messages are dropped: those of the clients in gone, from one queue each.*)
LEMMA Dropped ==
    ASSUME NEW Q, NEW R, NEW c, NEW somewhere, Alone(Q, c, somewhere), NEW gone,
           \A n \in Places :
               /\ Once(Q[n], c) => Once(R[n], c)
               /\ c \in Senders(R[n]) => c \in Senders(Q[n])
               /\ c \in Senders(Q[n]) => c \in Senders(R[n]) \/ c \in gone,
           c \in gone => \E n \in Places : c \in Senders(Q[n]) /\ c \notin Senders(R[n])
    PROVE  Alone(R, c, somewhere /\ c \notin gone) /\ (c \in gone => somewhere)
<1>1. \A n, k \in Places : c \in Senders(Q[n]) /\ c \in Senders(Q[k]) => n = k
  BY DEF Alone
<1>2. c \in gone => \A n \in Places : c \notin Senders(R[n])
  BY <1>1
<1>3. \A n \in Places : Once(R[n], c)
  BY DEF Alone
<1>4. QED
  BY <1>1, <1>2, <1>3 DEF Alone

(* Nothing is dropped in between. *)
LEMMA Unmoved ==
    ASSUME NEW Q, NEW R, NEW c, NEW somewhere, Alone(Q, c, somewhere),
           \A n \in Places : R[n] = Q[n]
    PROVE  Alone(R, c, somewhere)
  BY DEF Alone

(* A request is made. *)
LEMMA Made ==
    ASSUME NEW Q, NEW R, NEW c, NEW somewhere, Alone(Q, c, somewhere),
           NEW b \in Places, NEW N, Q[b] \in Seq(N), NEW m \in N, R[b] = Append(Q[b], m),
           m.client = c => ~somewhere,
           \A n \in Places : n # b => R[n] = Q[n]
    PROVE  Alone(R, c, somewhere \/ m.client = c)
<1>1. m.client = c => \A n \in Places : c \notin Senders(Q[n])
  BY DEF Alone
<1>2. /\ Senders(R[b]) = Senders(Q[b]) \cup {m.client}
      /\ Once(R[b], c)
  <2>1. Once(Q[b], c)
    BY DEF Alone
  <2>2. QED
    BY <1>1, <2>1, OneMore
<1>3. \A n \in Places : /\ Once(R[n], c)
                        /\ c \in Senders(R[n]) <=> c \in Senders(Q[n]) \/ (n = b /\ m.client = c)
  BY <1>2 DEF Alone
<1>4. QED
  BY <1>1, <1>3 DEF Alone

(* So it can be counted. *)
LEMMA Counted ==
    ASSUME NEW c, NEW somewhere, Alone(Queues, c, somewhere)
    PROVE  Copies(c) = IF somewhere THEN 1 ELSE 0
<1> DEFINE S == UNION {{n} \X {i \in DOMAIN Queue(n) : Queue(n)[i].client = c} : n \in Places}
<1>1. \A n \in Places : Queues[n] = Queue(n)
  BY DEF Queues
<1>2. CASE ~somewhere
  <2>1. \A n \in Places : \A i \in DOMAIN Queue(n) : Queue(n)[i].client # c
    BY <1>1, <1>2 DEF Alone, Senders
  <2>2. S = {}
    BY <2>1
  <2>3. QED
    BY <1>2, <2>2, FS_EmptySet DEF Copies
<1>3. CASE somewhere
  <2>1. PICK n \in Places : c \in Senders(Queue(n))
    BY <1>1, <1>3 DEF Alone
  <2>2. PICK i \in DOMAIN Queue(n) : Queue(n)[i].client = c
    BY <2>1 DEF Senders
  <2>3. \A m \in Places : m # n => \A j \in DOMAIN Queue(m) : Queue(m)[j].client # c
    BY <1>1, <2>1 DEF Alone, Senders
  <2>4. \A j \in DOMAIN Queue(n) : Queue(n)[j].client = c => j = i
    BY <1>1, <2>2 DEF Alone, Once
  <2>5. S = {<<n, i>>}
    BY <2>2, <2>3, <2>4
  <2>6. QED
    BY <1>3, <2>5, FS_Singleton DEF Copies
<1>4. QED
  BY <1>2, <1>3

-----------------------------------------------------------------------------
(* The invariant. *)

LineType == [client : Clients, used : BOOLEAN, held : BOOLEAN, out : Seq(Message),
             in : Seq(Message), id : Ids \cup {0}]

RepType == [state : {"away", "ready", "busy"}, request : Seq(Routed)]

(* The types, one by one. *)
NetTypes ==
    /\ line \in [Lines -> LineType]
    /\ inbox \in [Ids -> Seq(Message)] /\ outbox \in [Ids -> Seq(Message)]

WorkTypes ==
    /\ held \in Seq(Routed) /\ Len(held) <= 1
    /\ given \in [Workers -> Seq(Routed)] /\ answers \in [Workers -> Seq(Routed)]
    /\ rep \in [Workers -> RepType]

LifeTypes ==
    /\ service \in Kinds /\ running \in BOOLEAN /\ finish \in BOOLEAN
    /\ owner \in {"made", "set up", "waiting", "gone"}
    /\ at \in {"none", "loop", "first", "to dealer", "second", "to router", "ended"}

ReqTypes ==
    /\ req \in [Clients -> [waiting : BOOLEAN, line : Lines \cup {0}]]
    /\ ids \in Ids \cup {0} /\ faults \in 0..MaxFaults /\ lost \subseteq Clients

Types == NetTypes /\ WorkTypes /\ LifeTypes /\ ReqTypes

Linked == {l \in Lines : line[l].id # 0}

(* Messages that have a number with them. *)
Routing ==
    Elems(held) \cup UNION {Elems(given[w]) \cup Elems(answers[w]) \cup Elems(rep[w].request) :
                               w \in Workers}

(* A number belongs to one connection, and one that was not given yet to   *)
(* none, and no message.                                                   *)
Numbered ==
    /\ ids <= Cardinality(Linked) + faults
    /\ \A l \in Lines : line[l].id <= ids
    /\ \A l, k \in Lines : line[l].id # 0 /\ line[l].id = line[k].id => l = k
    /\ \A k \in Ids : k > ids => inbox[k] = <<>> /\ outbox[k] = <<>>
    /\ \A m \in Routing : m.id <= ids

(* The messages on a line, and those with its number, are of its client. *)
Tagged ==
    \A l \in Lines :
        /\ \A m \in Elems(line[l].out) \cup Elems(line[l].in) : m.client = line[l].client
        /\ line[l].id # 0 =>
              /\ \A m \in Elems(inbox[line[l].id]) \cup Elems(outbox[line[l].id]) :
                    m.client = line[l].client
              /\ \A m \in Routing : m.id = line[l].id => m.client = line[l].client

(* Where the Broker's thread has a message, and a worker. *)
HeldOK ==
    /\ held # <<>> <=> at \in {"to dealer", "to router"}
    /\ owner = "made" => at = "none"

RepOK ==
    \A w \in Workers : \/ rep[w].state = "busy" /\ Len(rep[w].request) = 1
                       \/ rep[w].state # "busy" /\ rep[w].request = <<>>

UnusedOK ==
    \A l \in Lines : ~line[l].used => /\ ~line[l].held /\ line[l].id = 0
                                      /\ line[l].out = <<>> /\ line[l].in = <<>>

Located == \A c \in Clients : Alone(Queues, c, req[c].waiting /\ c \notin lost)

XInv == Types /\ Numbered /\ Tagged /\ HeldOK /\ RepOK /\ UnusedOK /\ Located

-----------------------------------------------------------------------------
(* What is in each queue. *)
LEMMA QueuesAre ==
    /\ \A l \in Lines : /\ <<"out", l>> \in Places /\ <<"in", l>> \in Places
                        /\ Queues[<<"out", l>>] = line[l].out /\ Queues'[<<"out", l>>] = line'[l].out
                        /\ Queues[<<"in", l>>] = line[l].in /\ Queues'[<<"in", l>>] = line'[l].in
    /\ \A k \in Ids : /\ <<"inbox", k>> \in Places /\ <<"outbox", k>> \in Places
                      /\ Queues[<<"inbox", k>>] = inbox[k] /\ Queues'[<<"inbox", k>>] = inbox'[k]
                      /\ Queues[<<"outbox", k>>] = outbox[k] /\ Queues'[<<"outbox", k>>] = outbox'[k]
    /\ \A w \in Workers :
          /\ <<"given", w>> \in Places /\ <<"answers", w>> \in Places /\ <<"request", w>> \in Places
          /\ Queues[<<"given", w>>] = given[w] /\ Queues'[<<"given", w>>] = given'[w]
          /\ Queues[<<"answers", w>>] = answers[w] /\ Queues'[<<"answers", w>>] = answers'[w]
          /\ Queues[<<"request", w>>] = rep[w].request /\ Queues'[<<"request", w>>] = rep'[w].request
    /\ <<"held", 0>> \in Places /\ Queues[<<"held", 0>>] = held /\ Queues'[<<"held", 0>>] = held'
<1>1. /\ \A n \in Places : Queues[n] = Queue(n)
      /\ \A n \in Places : Queues'[n] = Queue(n)'
  BY DEF Queues
<1>2. \A l \in Lines : /\ <<"out", l>> \in Places /\ <<"in", l>> \in Places
                       /\ Queue(<<"out", l>>) = line[l].out /\ Queue(<<"out", l>>)' = line'[l].out
                       /\ Queue(<<"in", l>>) = line[l].in /\ Queue(<<"in", l>>)' = line'[l].in
  BY DEF Places, Queue
<1>3. \A k \in Ids : /\ <<"inbox", k>> \in Places /\ <<"outbox", k>> \in Places
                     /\ Queue(<<"inbox", k>>) = inbox[k] /\ Queue(<<"inbox", k>>)' = inbox'[k]
                     /\ Queue(<<"outbox", k>>) = outbox[k] /\ Queue(<<"outbox", k>>)' = outbox'[k]
  BY DEF Places, Queue
<1>4. \A w \in Workers :
          /\ <<"given", w>> \in Places /\ <<"answers", w>> \in Places /\ <<"request", w>> \in Places
          /\ Queue(<<"given", w>>) = given[w] /\ Queue(<<"given", w>>)' = given'[w]
          /\ Queue(<<"answers", w>>) = answers[w] /\ Queue(<<"answers", w>>)' = answers'[w]
          /\ Queue(<<"request", w>>) = rep[w].request /\ Queue(<<"request", w>>)' = rep'[w].request
  BY DEF Places, Queue
<1>5. <<"held", 0>> \in Places /\ Queue(<<"held", 0>>) = held /\ Queue(<<"held", 0>>)' = held'
  BY DEF Places, Queue
<1>6. QED
  BY <1>1, <1>2, <1>3, <1>4, <1>5

(* Which queues a step leaves alone. *)
LEMMA Others ==
    ASSUME NEW A,
           \A l \in Lines : <<"out", l>> \in A \/ line'[l].out = line[l].out,
           \A l \in Lines : <<"in", l>> \in A \/ line'[l].in = line[l].in,
           \A k \in Ids : <<"inbox", k>> \in A \/ inbox'[k] = inbox[k],
           \A k \in Ids : <<"outbox", k>> \in A \/ outbox'[k] = outbox[k],
           \A w \in Workers : <<"given", w>> \in A \/ given'[w] = given[w],
           \A w \in Workers : <<"answers", w>> \in A \/ answers'[w] = answers[w],
           \A w \in Workers : <<"request", w>> \in A \/ rep'[w].request = rep[w].request,
           <<"held", 0>> \in A \/ held' = held
    PROVE  \A n \in Places : n \notin A => Queues'[n] = Queues[n]
<1> SUFFICES ASSUME NEW n \in Places, n \notin A PROVE Queues'[n] = Queues[n]
  OBVIOUS
<1>1. \/ n \in {"out", "in"} \X Lines \/ n \in {"inbox", "outbox"} \X Ids
      \/ n \in {"given", "answers", "request"} \X Workers \/ n = <<"held", 0>>
  BY DEF Places
<1>2. CASE n \in {"out", "in"} \X Lines
  <2>1. PICK l \in Lines : n = <<"out", l>> \/ n = <<"in", l>>
    BY <1>2
  <2>2. CASE n = <<"out", l>>
    BY <2>2, QueuesAre
  <2>3. CASE n = <<"in", l>>
    BY <2>3, QueuesAre
  <2>4. QED
    BY <2>1, <2>2, <2>3
<1>3. CASE n \in {"inbox", "outbox"} \X Ids
  <2>1. PICK k \in Ids : n = <<"inbox", k>> \/ n = <<"outbox", k>>
    BY <1>3
  <2>2. CASE n = <<"inbox", k>>
    BY <2>2, QueuesAre
  <2>3. CASE n = <<"outbox", k>>
    BY <2>3, QueuesAre
  <2>4. QED
    BY <2>1, <2>2, <2>3
<1>4. CASE n \in {"given", "answers", "request"} \X Workers
  <2>1. PICK w \in Workers : n = <<"given", w>> \/ n = <<"answers", w>> \/ n = <<"request", w>>
    BY <1>4
  <2>2. CASE n = <<"given", w>>
    BY <2>2, QueuesAre
  <2>3. CASE n = <<"answers", w>>
    BY <2>3, QueuesAre
  <2>4. CASE n = <<"request", w>>
    BY <2>4, QueuesAre
  <2>5. QED
    BY <2>1, <2>2, <2>3, <2>4
<1>5. CASE n = <<"held", 0>>
  BY <1>5, QueuesAre
<1>6. QED
  BY <1>1, <1>2, <1>3, <1>4, <1>5

LEMMA AllTheSame ==
    ASSUME \A l \in Lines : line'[l].out = line[l].out /\ line'[l].in = line[l].in,
           inbox' = inbox, outbox' = outbox, given' = given, answers' = answers,
           \A w \in Workers : rep'[w].request = rep[w].request, held' = held
    PROVE  \A n \in Places : Queues'[n] = Queues[n]
<1> DEFINE A == {0} \ {0}
<1>1. \A n \in Places : n \notin A
  OBVIOUS
<1> HIDE DEF A
<1>2. \A n \in Places : n \notin A => Queues'[n] = Queues[n]
  BY Others
<1>3. QED
  BY <1>1, <1>2

(* The bounds. *)
LEMMA Finite ==
    ASSUME Sizes, Types
    PROVE  /\ Cardinality(Lines) \in Nat /\ IsFiniteSet(Linked) /\ Cardinality(Linked) \in Nat
           /\ Cardinality(Linked) <= Cardinality(Lines)
           /\ Ids = 1..Cardinality(Lines) + MaxFaults /\ 0 \notin Ids /\ MaxFaults \in Nat
           /\ \A l \in Lines : line[l].id \in Nat
           /\ ids \in Nat /\ faults \in Nat /\ \A k \in Ids : k \in Nat /\ k # 0
<1>1. Linked \subseteq Lines
  BY DEF Linked
<1>2. /\ Cardinality(Lines) \in Nat /\ IsFiniteSet(Linked) /\ Cardinality(Linked) \in Nat
      /\ Cardinality(Linked) <= Cardinality(Lines)
  BY <1>1, FS_Subset, FS_CardinalityType DEF Sizes
<1>3. Ids = 1..Cardinality(Lines) + MaxFaults /\ 0 \notin Ids /\ MaxFaults \in Nat
  BY <1>2 DEF Ids, Sizes
<1>4. \A l \in Lines : line[l].id \in Ids \cup {0}
  BY DEF Types, NetTypes, LineType
<1>5. ids \in Nat /\ faults \in Nat
  BY <1>2, <1>3 DEF Types, ReqTypes
<1>6. \A k \in Ids : k \in Nat /\ k # 0
  BY <1>2, <1>3
<1>7. QED
  BY <1>2, <1>3, <1>4, <1>5, <1>6

(* A line with another record. *)
LEMMA LineWith ==
    ASSUME NEW l \in Lines, NEW x \in LineType, line \in [Lines -> LineType],
           line' = [line EXCEPT ![l] = x]
    PROVE  /\ line' \in [Lines -> LineType] /\ line'[l] = x
           /\ \A k \in Lines : k # l => line'[k] = line[k]
<1> HIDE DEF LineType
<1>1. QED
  OBVIOUS

(* or with other messages. *)
LEMMA LineOut ==
    ASSUME NEW f \in [Lines -> LineType], NEW l \in Lines, NEW q \in Seq(Message)
    PROVE  LET g == [f EXCEPT ![l].out = q] IN
           /\ g \in [Lines -> LineType] /\ g[l].out = q
           /\ \A j \in Lines : /\ g[j].client = f[j].client /\ g[j].used = f[j].used
                               /\ g[j].held = f[j].held /\ g[j].id = f[j].id
                               /\ g[j].in = f[j].in /\ (j # l => g[j].out = f[j].out)
  BY DEF LineType

LEMMA LineIn ==
    ASSUME NEW f \in [Lines -> LineType], NEW l \in Lines, NEW q \in Seq(Message)
    PROVE  LET g == [f EXCEPT ![l].in = q] IN
           /\ g \in [Lines -> LineType] /\ g[l].in = q
           /\ \A j \in Lines : /\ g[j].client = f[j].client /\ g[j].used = f[j].used
                               /\ g[j].held = f[j].held /\ g[j].id = f[j].id
                               /\ g[j].out = f[j].out /\ (j # l => g[j].in = f[j].in)
  BY DEF LineType

(* A message that is moved, or dropped, leaves the others where they are. *)
LEMMA Relabelled ==
    ASSUME NEW Q, NEW c, NEW x, NEW y, Alone(Q, c, x), x <=> y
    PROVE  Alone(Q, c, y)
  BY DEF Alone

LEMMA Removed ==
    ASSUME NEW Q, NEW R, NEW c, NEW somewhere, Alone(Q, c, somewhere),
           NEW a \in Places, NEW M, Q[a] \in Seq(M), Q[a] # <<>>, R[a] = Tail(Q[a]),
           \A n \in Places : n # a => R[n] = Q[n]
    PROVE  Alone(R, c, somewhere /\ c # Head(Q[a]).client)
<1> DEFINE gone == {Head(Q[a]).client}
<1>1. Once(Q[a], c)
  BY DEF Alone
<1>2. /\ Once(R[a], c) /\ Senders(Q[a]) = Senders(R[a]) \cup gone
      /\ c \in gone => c \notin Senders(R[a])
  BY <1>1, OneLess
<1> HIDE DEF gone
<1>3. \A n \in Places :
          /\ Once(Q[n], c) => Once(R[n], c)
          /\ c \in Senders(R[n]) => c \in Senders(Q[n])
          /\ c \in Senders(Q[n]) => c \in Senders(R[n]) \/ c \in gone
  BY <1>2
<1>4. c \in gone => \E n \in Places : c \in Senders(Q[n]) /\ c \notin Senders(R[n])
  BY <1>2
<1>5. Alone(R, c, somewhere /\ c \notin gone)
  BY <1>3, <1>4, Dropped
<1>6. QED
  BY <1>5, Relabelled DEF gone

LEMMA StillLocated ==
    ASSUME Located, \A n \in Places : Queues'[n] = Queues[n], lost' = lost,
           \A c \in Clients : req'[c].waiting = req[c].waiting
    PROVE  Located'
<1> SUFFICES ASSUME NEW c \in Clients PROVE Alone(Queues', c, req'[c].waiting /\ c \notin lost')
  BY DEF Located
<1>1. Alone(Queues, c, req[c].waiting /\ c \notin lost)
  BY DEF Located
<1>2. Alone(Queues', c, req[c].waiting /\ c \notin lost)
  BY <1>1, Unmoved
<1>3. QED
  BY <1>2, Relabelled

LEMMA MovedLocated ==
    ASSUME Located, lost' = lost, req' = req,
           NEW a \in Places, NEW b \in Places, a # b,
           NEW M, Queues[a] \in Seq(M), Queues[a] # <<>>, NEW N, Queues[b] \in Seq(N),
           NEW m \in N, m.client = Head(Queues[a]).client,
           Queues'[a] = Tail(Queues[a]), Queues'[b] = Append(Queues[b], m),
           \A n \in Places : n \notin {a, b} => Queues'[n] = Queues[n]
    PROVE  Located'
<1> SUFFICES ASSUME NEW c \in Clients PROVE Alone(Queues', c, req'[c].waiting /\ c \notin lost')
  BY DEF Located
<1>1. Alone(Queues, c, req[c].waiting /\ c \notin lost)
  BY DEF Located
<1>2. Alone(Queues', c, req[c].waiting /\ c \notin lost)
  BY <1>1, Moved
<1>3. QED
  BY <1>2, Relabelled

LEMMA LostLocated ==
    ASSUME Located, req' = req,
           NEW a \in Places, NEW M, Queues[a] \in Seq(M), Queues[a] # <<>>,
           lost' = lost \cup {Head(Queues[a]).client},
           Queues'[a] = Tail(Queues[a]), \A n \in Places : n # a => Queues'[n] = Queues[n]
    PROVE  Located'
<1> SUFFICES ASSUME NEW c \in Clients PROVE Alone(Queues', c, req'[c].waiting /\ c \notin lost')
  BY DEF Located
<1> DEFINE x == req[c].waiting /\ c \notin lost
<1>1. Alone(Queues, c, x)
  BY DEF Located
<1> HIDE DEF x
<1>2. Alone(Queues', c, x /\ c # Head(Queues[a]).client)
  BY <1>1, Removed
<1>3. QED
  BY <1>2, Relabelled DEF x

(* What Numbered and Tagged say in a state where no number was given out. *)
LEMMA StillNumbered ==
    ASSUME Numbered, ids' = ids, faults \in Nat, ids \in Nat, Cardinality(Linked) \in Nat,
           faults' \in {faults, faults + 1}, \A l \in Lines : line'[l].id = line[l].id,
           \A k \in Ids : k > ids => inbox'[k] = <<>> /\ outbox'[k] = <<>>,
           \A m \in Routing' : m.id <= ids
    PROVE  Numbered'
<1>1. Linked' = Linked
  BY DEF Linked
<1>2. ids' <= Cardinality(Linked)' + faults'
  BY <1>1 DEF Numbered
<1>3. /\ \A l \in Lines : line'[l].id <= ids'
      /\ \A l, k \in Lines : line'[l].id # 0 /\ line'[l].id = line'[k].id => l = k
      /\ \A k \in Ids : k > ids' => inbox'[k] = <<>> /\ outbox'[k] = <<>>
      /\ \A m \in Routing' : m.id <= ids'
  BY DEF Numbered
<1>4. QED
  BY <1>2, <1>3 DEF Numbered

LEMMA StillRouting ==
    ASSUME UNCHANGED <<held, workVars>>
    PROVE  Routing' = Routing
  BY DEF Routing, workVars

LEMMA RoutingWithin ==
    ASSUME NEW S, Elems(held') \subseteq S,
           \A w \in Workers : /\ Elems(given'[w]) \subseteq S /\ Elems(answers'[w]) \subseteq S
                              /\ Elems(rep'[w].request) \subseteq S
    PROVE  Routing' \subseteq S
  BY DEF Routing

(* The messages that have a number are those of the Broker and the workers.*)
LEMMA RoutingHas ==
    /\ Elems(held) \subseteq Routing
    /\ \A w \in Workers : /\ Elems(given[w]) \subseteq Routing /\ Elems(answers[w]) \subseteq Routing
                          /\ Elems(rep[w].request) \subseteq Routing
  BY DEF Routing

LEMMA StillTagged ==
    ASSUME \A j \in Lines : line'[j].client = line[j].client /\ line'[j].id \in {line[j].id, 0},
           \A j \in Lines : \A r \in Elems(line'[j].out) \cup Elems(line'[j].in) :
               r.client = line[j].client,
           \A j \in Lines : line[j].id # 0 =>
               \A r \in Elems(inbox'[line[j].id]) : r.client = line[j].client,
           \A j \in Lines : line[j].id # 0 =>
               \A r \in Elems(outbox'[line[j].id]) : r.client = line[j].client,
           \A j \in Lines : line[j].id # 0 =>
               \A r \in Routing' : r.id = line[j].id => r.client = line[j].client
    PROVE  Tagged'
<1> SUFFICES ASSUME NEW j \in Lines
    PROVE  /\ \A r \in Elems(line'[j].out) \cup Elems(line'[j].in) : r.client = line'[j].client
           /\ line'[j].id # 0 =>
                 /\ \A r \in Elems(inbox'[line'[j].id]) \cup Elems(outbox'[line'[j].id]) :
                       r.client = line'[j].client
                 /\ \A r \in Routing' : r.id = line'[j].id => r.client = line'[j].client
  BY DEF Tagged
<1>1. line'[j].id # 0 => line'[j].id = line[j].id /\ line[j].id # 0
  OBVIOUS
<1>2. QED
  BY <1>1

(* The same, in the words of the state before. *)
LEMMA TaggedHere ==
    ASSUME Tagged
    PROVE  /\ \A j \in Lines : \A r \in Elems(line[j].out) \cup Elems(line[j].in) :
                  r.client = line[j].client
           /\ \A j \in Lines : line[j].id # 0 =>
                  \A r \in Elems(inbox[line[j].id]) : r.client = line[j].client
           /\ \A j \in Lines : line[j].id # 0 =>
                  \A r \in Elems(outbox[line[j].id]) : r.client = line[j].client
           /\ \A j \in Lines : line[j].id # 0 =>
                  \A r \in Routing : r.id = line[j].id => r.client = line[j].client
  BY DEF Tagged

(* A connection has one line. *)
LEMMA OneLine ==
    ASSUME XInv, NEW l \in Lines, NEW j \in Lines, line[j].id # 0
    PROVE  line[j].id \in Ids /\ (j # l => line[j].id # line[l].id)
  BY DEF XInv, Types, NetTypes, LineType, Numbered

LEMMA RoutingTyped ==
    ASSUME Types
    PROVE  Routing \subseteq Routed
<1>1. Elems(held) \subseteq Routed
  BY SendersAre DEF Types, WorkTypes
<1>2. ASSUME NEW w \in Workers
      PROVE  /\ Elems(given[w]) \subseteq Routed /\ Elems(answers[w]) \subseteq Routed
             /\ Elems(rep[w].request) \subseteq Routed
  <2>1. /\ given[w] \in Seq(Routed) /\ answers[w] \in Seq(Routed)
        /\ rep[w].request \in Seq(Routed)
    BY DEF Types, WorkTypes, RepType
  <2>2. QED
    BY <2>1, SendersAre
<1>3. QED
  BY <1>1, <1>2 DEF Routing

-----------------------------------------------------------------------------
(* The steps of the connections. *)

LEMMA TransmitStep ==
    ASSUME Sizes, XInv, NEW l \in Lines, Transmit(l)
    PROVE  XInv'
<1> DEFINE k == line[l].id
           m == Head(line[l].out)
<1>1. /\ k \in Ids /\ line[l].out \in Seq(Message) /\ line[l].out # <<>>
      /\ inbox \in [Ids -> Seq(Message)] /\ line \in [Lines -> LineType]
  BY DEF XInv, Types, NetTypes, LineType, Transmit
<1>2. /\ Tail(line[l].out) \in Seq(Message) /\ m \in Message
      /\ Elems(line[l].out) = Elems(Tail(line[l].out)) \cup {m}
  BY <1>1, OneLess
<1>3. /\ Append(inbox[k], m) \in Seq(Message)
      /\ Elems(Append(inbox[k], m)) = Elems(inbox[k]) \cup {m}
  BY <1>1, <1>2, OneMore
<1>4. /\ line' \in [Lines -> LineType]
      /\ \A j \in Lines : /\ line'[j].client = line[j].client /\ line'[j].used = line[j].used
                          /\ line'[j].held = line[j].held /\ line'[j].id = line[j].id
                          /\ line'[j].in = line[j].in /\ (j # l => line'[j].out = line[j].out)
      /\ line'[l].out = Tail(line[l].out)
  BY <1>1, <1>2 DEF Transmit, LineType
<1>5. /\ inbox' \in [Ids -> Seq(Message)] /\ inbox'[k] = Append(inbox[k], m)
      /\ \A j \in Ids : j # k => inbox'[j] = inbox[j]
  BY <1>1, <1>3 DEF Transmit
<1>6. UNCHANGED <<lifeVars, req, outbox, ids, held, workVars, faults, lost>>
  BY DEF Transmit
<1> HIDE DEF k, m
<1>7. Types'
  BY <1>4, <1>5, <1>6 DEF XInv, Types, NetTypes, WorkTypes, LifeTypes, ReqTypes, lifeVars, workVars
<1>8. Routing' = Routing
  BY <1>6, StillRouting
<1>9. Numbered'
  <2>1. k <= ids
    BY DEF XInv, Numbered, k
  <2>2. ids \in Nat /\ k \in Nat /\ faults \in Nat /\ Cardinality(Linked) \in Nat
    BY Finite DEF XInv, k
  <2>3. \A j \in Ids : j > ids => inbox'[j] = <<>> /\ outbox'[j] = <<>>
    BY <1>5, <1>6, <2>1, <2>2 DEF XInv, Numbered
  <2>4. \A r \in Routing' : r.id <= ids
    BY <1>8 DEF XInv, Numbered
  <2>5. QED
    BY <1>4, <1>6, <2>2, <2>3, <2>4, StillNumbered DEF XInv
<1>10. Tagged'
  <2>1. m.client = line[l].client
    BY <1>2 DEF XInv, Tagged, m
  <2>2. \A j \in Lines : line'[j].client = line[j].client /\ line'[j].id \in {line[j].id, 0}
    BY <1>4
  <2>3. \A j \in Lines : \A r \in Elems(line'[j].out) \cup Elems(line'[j].in) :
           r.client = line[j].client
    BY <1>2, <1>4, TaggedHere DEF XInv
  <2>4. ASSUME NEW j \in Lines, line[j].id # 0, NEW r \in Elems(inbox'[line[j].id])
        PROVE  r.client = line[j].client
    <3>1. CASE j = l
      BY <1>3, <1>5, <2>1, <2>4, <3>1, TaggedHere DEF XInv, k
    <3>2. CASE j # l
      BY <1>5, <2>4, <3>2, OneLine, TaggedHere DEF XInv, k
    <3>3. QED
      BY <3>1, <3>2
  <2>5. outbox' = outbox
    BY <1>6
  <2>6. QED
    BY <1>8, <2>2, <2>3, <2>4, <2>5, StillTagged, TaggedHere DEF XInv
<1>11. HeldOK' /\ RepOK' /\ UnusedOK'
  <2>1. line[l].used
    BY <1>1 DEF XInv, UnusedOK
  <2>2. QED
    BY <1>4, <1>6, <2>1 DEF XInv, HeldOK, RepOK, UnusedOK, lifeVars, workVars
<1>12. Located'
  <2> DEFINE a == <<"out", l>>
             b == <<"inbox", k>>
  <2>1. /\ a \in Places /\ b \in Places /\ a # b
        /\ Queues[a] = line[l].out /\ Queues[b] = inbox[k]
        /\ Queues'[a] = Tail(line[l].out) /\ Queues'[b] = Append(inbox[k], m)
    BY <1>1, <1>4, <1>5, QueuesAre DEF k
  <2>2. \A n \in Places : n \notin {a, b} => Queues'[n] = Queues[n]
    BY <1>4, <1>5, <1>6, Others DEF workVars
  <2>3. inbox[k] \in Seq(Message)
    BY <1>1 DEF k
  <2> HIDE DEF a, b
  <2>4. Queues[a] \in Seq(Message) /\ Queues[a] # <<>> /\ Queues[b] \in Seq(Message)
        /\ m \in Message /\ m.client = Head(Queues[a]).client
        /\ Queues'[a] = Tail(Queues[a]) /\ Queues'[b] = Append(Queues[b], m)
    BY <1>1, <1>2, <2>1, <2>3 DEF m
  <2>5. Located /\ lost' = lost /\ req' = req
    BY <1>6 DEF XInv
  <2>6. QED
    BY <2>1, <2>2, <2>4, <2>5, MovedLocated
<1>13. QED
  BY <1>7, <1>9, <1>10, <1>11, <1>12 DEF XInv

LEMMA ReturnStep ==
    ASSUME Sizes, XInv, NEW l \in Lines, Return(l)
    PROVE  XInv'
<1> DEFINE k == line[l].id
           m == Head(outbox[k])
<1>1. /\ k \in Ids /\ line[l].in \in Seq(Message) /\ outbox[k] \in Seq(Message) /\ outbox[k] # <<>>
      /\ outbox \in [Ids -> Seq(Message)] /\ line \in [Lines -> LineType]
  BY DEF XInv, Types, NetTypes, LineType, Return
<1>2. /\ Tail(outbox[k]) \in Seq(Message) /\ m \in Message
      /\ Elems(outbox[k]) = Elems(Tail(outbox[k])) \cup {m}
  BY <1>1, OneLess
<1>3. /\ Append(line[l].in, m) \in Seq(Message)
      /\ Elems(Append(line[l].in, m)) = Elems(line[l].in) \cup {m}
  BY <1>1, <1>2, OneMore
<1>4. /\ line' \in [Lines -> LineType]
      /\ \A j \in Lines : /\ line'[j].client = line[j].client /\ line'[j].used = line[j].used
                          /\ line'[j].held = line[j].held /\ line'[j].id = line[j].id
                          /\ line'[j].out = line[j].out /\ (j # l => line'[j].in = line[j].in)
      /\ \/ line'[l].in = Append(line[l].in, m) /\ lost' = lost
         \/ line'[l].in = line[l].in /\ Lose(<<m>>)
  <2>1. CASE line[l].held
    <3> DEFINE q == Append(line[l].in, m)
    <3>1. line' = [line EXCEPT ![l].in = q] /\ lost' = lost /\ q \in Seq(Message)
      BY <1>3, <2>1 DEF Return
    <3> HIDE DEF q
    <3>2. /\ line' \in [Lines -> LineType] /\ line'[l].in = q
          /\ \A j \in Lines : /\ line'[j].client = line[j].client /\ line'[j].used = line[j].used
                              /\ line'[j].held = line[j].held /\ line'[j].id = line[j].id
                              /\ line'[j].out = line[j].out /\ (j # l => line'[j].in = line[j].in)
      BY <1>1, <3>1 DEF LineType
    <3>3. QED
      BY <3>1, <3>2 DEF q
  <2>2. CASE ~line[l].held
    <3>1. line' = line /\ Lose(<<m>>)
      BY <2>2 DEF Return
    <3>2. QED
      BY <1>1, <3>1
  <2>3. QED
    BY <2>1, <2>2
<1>5. /\ outbox' \in [Ids -> Seq(Message)] /\ outbox'[k] = Tail(outbox[k])
      /\ \A j \in Ids : j # k => outbox'[j] = outbox[j]
  BY <1>1, <1>2 DEF Return
<1>6. UNCHANGED <<lifeVars, req, inbox, ids, held, workVars, faults>>
  BY DEF Return
<1> HIDE DEF k, m
<1>7. Senders(<<m>>) = {m.client}
  BY OneMessage
<1>8. Types'
  <2>1. lost' \subseteq Clients
    BY <1>2, <1>4, <1>7 DEF XInv, Types, ReqTypes, Lose, Message
  <2>2. QED
    BY <1>4, <1>5, <1>6, <2>1
       DEF XInv, Types, NetTypes, WorkTypes, LifeTypes, ReqTypes, lifeVars, workVars
<1>9. Routing' = Routing
  BY <1>6, StillRouting
<1>10. Numbered'
  <2>1. k <= ids
    BY DEF XInv, Numbered, k
  <2>2. ids \in Nat /\ k \in Nat /\ faults \in Nat /\ Cardinality(Linked) \in Nat
    BY Finite DEF XInv, k
  <2>3. \A j \in Ids : j > ids => inbox'[j] = <<>> /\ outbox'[j] = <<>>
    BY <1>5, <1>6, <2>1, <2>2 DEF XInv, Numbered
  <2>4. \A r \in Routing' : r.id <= ids
    BY <1>9 DEF XInv, Numbered
  <2>5. QED
    BY <1>4, <1>6, <2>2, <2>3, <2>4, StillNumbered DEF XInv
<1>11. m.client = line[l].client
  BY <1>1, <1>2, TaggedHere, Finite DEF XInv, k, m
<1>12. Tagged'
  <2>1. \A j \in Lines : line'[j].client = line[j].client /\ line'[j].id \in {line[j].id, 0}
    BY <1>4
  <2>2. ASSUME NEW j \in Lines, NEW r \in Elems(line'[j].out) \cup Elems(line'[j].in)
        PROVE  r.client = line[j].client
    <3>1. r \in Elems(line[j].out) \cup Elems(line[j].in) \/ (j = l /\ r = m)
      <4>1. line'[j].out = line[j].out
        BY <1>4
      <4>2. r \in Elems(line'[j].in) => r \in Elems(line[j].in) \/ (j = l /\ r = m)
        <5>1. CASE j = l
          BY <1>3, <1>4, <5>1
        <5>2. CASE j # l
          BY <1>4, <5>2
        <5>3. QED
          BY <5>1, <5>2
      <4>3. QED
        BY <2>2, <4>1, <4>2
    <3>2. QED
      BY <1>11, <3>1, TaggedHere DEF XInv
  <2>3. \A j \in Ids : Elems(outbox'[j]) \subseteq Elems(outbox[j])
    BY <1>2, <1>5
  <2>4. \A j \in Lines : line[j].id # 0 =>
           \A r \in Elems(outbox'[line[j].id]) : r.client = line[j].client
    BY <2>3, OneLine, TaggedHere DEF XInv
  <2>5. inbox' = inbox
    BY <1>6
  <2>6. QED
    BY <1>9, <2>1, <2>2, <2>4, <2>5, StillTagged, TaggedHere DEF XInv
<1>13. HeldOK' /\ RepOK' /\ UnusedOK'
  <2>1. line[l].used
    BY <1>1, Finite DEF XInv, UnusedOK, k
  <2>2. QED
    BY <1>4, <1>6, <2>1 DEF XInv, HeldOK, RepOK, UnusedOK, lifeVars, workVars
<1>14. Located'
  <2> DEFINE a == <<"outbox", k>>
             b == <<"in", l>>
  <2>1. /\ a \in Places /\ b \in Places /\ a # b
        /\ Queues[a] = outbox[k] /\ Queues[b] = line[l].in
        /\ Queues'[a] = Tail(outbox[k]) /\ Queues'[b] = line'[l].in
    BY <1>1, <1>5, QueuesAre DEF k
  <2>2. \A n \in Places : n \notin {a, b} => Queues'[n] = Queues[n]
    BY <1>4, <1>5, <1>6, Others DEF workVars
  <2> HIDE DEF a, b
  <2>3. /\ Queues[a] \in Seq(Message) /\ Queues[a] # <<>> /\ Queues[b] \in Seq(Message)
        /\ m \in Message /\ m.client = Head(Queues[a]).client /\ Queues'[a] = Tail(Queues[a])
    BY <1>1, <1>2, <2>1 DEF m, k
  <2>4. Located /\ req' = req
    BY <1>6 DEF XInv
  <2>5. CASE line'[l].in = Append(line[l].in, m) /\ lost' = lost
    <3>1. Queues'[b] = Append(Queues[b], m)
      BY <2>1, <2>5
    <3>2. QED
      BY <2>1, <2>2, <2>3, <2>4, <2>5, <3>1, MovedLocated, SMTT(30)
  <2>6. CASE line'[l].in = line[l].in /\ Lose(<<m>>)
    <3>1. \A n \in Places : n # a => Queues'[n] = Queues[n]
      BY <2>1, <2>2, <2>6
    <3>2. lost' = lost \cup {Head(Queues[a]).client}
      BY <1>7, <2>3, <2>6 DEF Lose
    <3>3. QED
      BY <2>1, <2>3, <2>4, <3>1, <3>2, LostLocated
  <2>7. QED
    BY <1>4, <2>5, <2>6
<1>15. QED
  BY <1>8, <1>10, <1>12, <1>13, <1>14 DEF XInv

(* The numbers go as far as the connections that were made. *)
LEMMA LinkStep ==
    ASSUME Sizes, XInv, NEW l \in Lines, Link(l)
    PROVE  XInv'
<1>1. /\ line \in [Lines -> LineType] /\ line[l].id = 0
      /\ inbox \in [Ids -> Seq(Message)] /\ outbox \in [Ids -> Seq(Message)]
  BY DEF XInv, Types, NetTypes, Link
<1>2. /\ ids \in Nat /\ faults \in Nat /\ MaxFaults \in Nat /\ faults <= MaxFaults
      /\ Cardinality(Lines) \in Nat /\ Cardinality(Linked) \in Nat /\ IsFiniteSet(Linked)
      /\ Ids = 1..Cardinality(Lines) + MaxFaults /\ 0 \notin Ids
      /\ \A j \in Lines : line[j].id \in Nat
  BY Finite DEF XInv, Types, ReqTypes
<1>3. l \notin Linked /\ Linked \cup {l} \subseteq Lines
  BY <1>1 DEF Linked
<1>4. /\ Cardinality(Linked \cup {l}) = Cardinality(Linked) + 1
      /\ Cardinality(Linked \cup {l}) <= Cardinality(Lines)
  BY <1>2, <1>3, FS_AddElement, FS_Subset DEF Sizes
<1>5. ids <= Cardinality(Linked) + faults
  BY DEF XInv, Numbered
<1>6. ids + 1 \in Ids
  BY <1>2, <1>4, <1>5
<1>7. /\ line' \in [Lines -> LineType]
      /\ \A j \in Lines : /\ line'[j].client = line[j].client /\ line'[j].used = line[j].used
                          /\ line'[j].held = line[j].held /\ (j # l => line'[j].id = line[j].id)
                          /\ line'[j].out = line[j].out /\ line'[j].in = line[j].in
      /\ line'[l].id = ids + 1 /\ ids' = ids + 1
  BY <1>1, <1>6 DEF Link, LineType
<1>8. UNCHANGED <<lifeVars, req, inbox, outbox, held, workVars, faults, lost>>
  BY DEF Link
<1>9. Types'
  BY <1>6, <1>7, <1>8 DEF XInv, Types, NetTypes, WorkTypes, LifeTypes, ReqTypes, lifeVars, workVars
<1>10. Routing' = Routing
  BY <1>8, StillRouting
<1>11. \A j \in Lines : line[j].id <= ids
  BY DEF XInv, Numbered
<1>12. Numbered'
  <2>1. Linked' = Linked \cup {l}
    <3>1. \A j \in Lines : line'[j].id # 0 <=> line[j].id # 0 \/ j = l
      BY <1>2, <1>7
    <3>2. QED
      BY <3>1 DEF Linked
  <2>2. ids' <= Cardinality(Linked)' + faults'
    BY <1>2, <1>4, <1>5, <1>7, <1>8, <2>1
  <2>3. \A j \in Lines : line'[j].id <= ids'
    BY <1>2, <1>7, <1>11
  <2>4. \A j, i \in Lines : line'[j].id # 0 /\ line'[j].id = line'[i].id => j = i
    <3>1. \A j \in Lines : line[j].id # ids + 1
      BY <1>2, <1>11
    <3>2. QED
      BY <1>7, <3>1 DEF XInv, Numbered
  <2>5. \A j \in Ids : j > ids' => inbox'[j] = <<>> /\ outbox'[j] = <<>>
    <3>1. \A j \in Ids : j > ids' => j > ids
      BY <1>2, <1>7
    <3>2. QED
      BY <1>8, <3>1 DEF XInv, Numbered
  <2>6. \A r \in Routing' : r.id <= ids'
    <3>1. \A r \in Routing : r.id \in Nat
      BY RoutingTyped, <1>2 DEF XInv, Routed
    <3>2. QED
      BY <1>2, <1>7, <1>10, <3>1 DEF XInv, Numbered
  <2>7. QED
    BY <2>2, <2>3, <2>4, <2>5, <2>6 DEF Numbered
<1>13. Tagged'
  <2>1. /\ inbox[ids + 1] = <<>> /\ outbox[ids + 1] = <<>>
        /\ \A r \in Routing : r.id # ids + 1
    <3>1. ids + 1 > ids /\ \A n \in Nat : n <= ids => n # ids + 1
      BY <1>2
    <3>2. \A r \in Routing : r.id \in Nat /\ r.id <= ids
      BY RoutingTyped, <1>2 DEF XInv, Routed, Numbered
    <3>3. QED
      BY <1>6, <3>1, <3>2 DEF XInv, Numbered
  <2>2. Elems(<<>>) = {}
    BY NoMessage
  <2>3. ASSUME NEW j \in Lines
        PROVE  /\ \A r \in Elems(line'[j].out) \cup Elems(line'[j].in) : r.client = line'[j].client
               /\ line'[j].id # 0 =>
                     /\ \A r \in Elems(inbox[line'[j].id]) \cup Elems(outbox[line'[j].id]) :
                           r.client = line'[j].client
                     /\ \A r \in Routing : r.id = line'[j].id => r.client = line'[j].client
    <3>1. CASE j = l
      BY <1>7, <2>1, <2>2, <3>1, TaggedHere DEF XInv
    <3>2. CASE j # l
      BY <1>7, <3>2, TaggedHere DEF XInv
    <3>3. QED
      BY <3>1, <3>2
  <2>4. QED
    BY <1>8, <1>10, <2>3 DEF Tagged
<1>14. HeldOK' /\ RepOK' /\ UnusedOK'
  <2>1. line[l].used
    BY DEF XInv, UnusedOK, Link
  <2>2. QED
    BY <1>7, <1>8, <2>1, ZenonT(30) DEF XInv, HeldOK, RepOK, UnusedOK, lifeVars, workVars
<1>15. Located'
  <2>1. \A n \in Places : Queues'[n] = Queues[n]
    BY <1>7, <1>8, AllTheSame DEF workVars
  <2>2. QED
    BY <1>8, <2>1, StillLocated DEF XInv
<1>16. QED
  BY <1>9, <1>12, <1>13, <1>14, <1>15 DEF XInv

(* A break takes one number away, and every fault allows for one more. *)
LEMMA BreakStep ==
    ASSUME Sizes, XInv, NEW l \in Lines, BreakLine(l)
    PROVE  XInv'
<1> DEFINE k == line[l].id
<1>1. /\ k \in Ids /\ line[l].out \in Seq(Message) /\ outbox[k] \in Seq(Message)
      /\ outbox \in [Ids -> Seq(Message)] /\ line \in [Lines -> LineType]
  BY DEF XInv, Types, NetTypes, LineType, BreakLine
<1>2. PICK n \in 0..Len(line[l].out) :
         /\ line' = [line EXCEPT ![l].id = 0,
                                 ![l].out = SubSeq(@, n + 1, Len(@))]
         /\ Lose(outbox[k] \o SubSeq(line[l].out, 1, n))
  BY DEF BreakLine
<1> DEFINE s == SubSeq(line[l].out, 1, n)
           t == SubSeq(line[l].out, n + 1, Len(line[l].out))
<1>3. /\ s \in Seq(Message) /\ t \in Seq(Message)
      /\ Senders(line[l].out) = Senders(s) \cup Senders(t)
      /\ Elems(line[l].out) = Elems(s) \cup Elems(t)
      /\ \A c : Once(line[l].out, c) => /\ Once(s, c) /\ Once(t, c)
                                        /\ c \notin Senders(s) \cap Senders(t)
  BY <1>1, Parts
<1> DEFINE gone == Senders(outbox[k] \o s)
<1> HIDE DEF k, s, t
<1>4. gone = Senders(outbox[k]) \cup Senders(s)
  BY <1>1, <1>3, Both
<1>5. lost' = lost \cup gone /\ line' = [line EXCEPT ![l].id = 0, ![l].out = t]
  BY <1>2 DEF Lose, k, s, t
<1> HIDE DEF gone
<1>6. /\ line' \in [Lines -> LineType]
      /\ \A j \in Lines : /\ line'[j].client = line[j].client /\ line'[j].used = line[j].used
                          /\ line'[j].held = line[j].held /\ line'[j].in = line[j].in
                          /\ (j # l => line'[j].out = line[j].out /\ line'[j].id = line[j].id)
      /\ line'[l].out = t /\ line'[l].id = 0
  BY <1>1, <1>3, <1>5 DEF LineType
<1>7. <<>> \in Seq(Message) /\ Elems(<<>>) = {} /\ Senders(<<>>) = {} /\ \A c : Once(<<>>, c)
  BY NoMessage
<1>8. /\ outbox' \in [Ids -> Seq(Message)] /\ outbox'[k] = <<>>
      /\ \A j \in Ids : j # k => outbox'[j] = outbox[j]
  BY <1>1, <1>7 DEF BreakLine, k
<1>9. /\ UNCHANGED <<lifeVars, req, inbox, ids, held, workVars>>
      /\ faults < MaxFaults /\ faults' = faults + 1
  BY DEF BreakLine, Fault
<1>10. /\ ids \in Nat /\ faults \in Nat /\ MaxFaults \in Nat /\ k \in Nat \ {0}
       /\ Cardinality(Linked) \in Nat /\ IsFiniteSet(Linked)
  BY <1>1, Finite DEF XInv
<1>11. Types'
  <2>1. gone \subseteq Clients
    BY <1>1, <1>3, <1>4, SendersTyped
  <2>2. lost' \subseteq Clients /\ faults' \in 0..MaxFaults
    BY <1>5, <1>9, <1>10, <2>1 DEF XInv, Types, ReqTypes
  <2>3. QED
    BY <1>6, <1>8, <1>9, <2>2
       DEF XInv, Types, NetTypes, WorkTypes, LifeTypes, ReqTypes, lifeVars, workVars
<1>12. Routing' = Routing
  BY <1>9, StillRouting
<1>13. Numbered'
  <2>1. Linked' = Linked \ {l} /\ l \in Linked
    <3>1. \A j \in Lines : line'[j].id # 0 <=> line[j].id # 0 /\ j # l
      BY <1>6
    <3>2. QED
      BY <1>10, <3>1 DEF Linked, k
  <2>2. Cardinality(Linked \ {l}) = Cardinality(Linked) - 1
    BY <1>10, <2>1, FS_RemoveElement
  <2>3. ids' <= Cardinality(Linked)' + faults'
    <3>1. ids <= Cardinality(Linked) + faults
      BY DEF XInv, Numbered
    <3>2. QED
      BY <1>9, <1>10, <2>1, <2>2, <3>1
  <2>4. /\ \A j \in Lines : line'[j].id <= ids'
        /\ \A j, i \in Lines : line'[j].id # 0 /\ line'[j].id = line'[i].id => j = i
    BY <1>6, <1>9, <1>10 DEF XInv, Numbered
  <2>5. \A j \in Ids : j > ids' => inbox'[j] = <<>> /\ outbox'[j] = <<>>
    BY <1>8, <1>9 DEF XInv, Numbered
  <2>6. \A r \in Routing' : r.id <= ids'
    BY <1>9, <1>12 DEF XInv, Numbered
  <2>7. QED
    BY <2>3, <2>4, <2>5, <2>6 DEF Numbered
<1>14. Tagged'
  <2>1. \A j \in Lines : line'[j].client = line[j].client /\ line'[j].id \in {line[j].id, 0}
    BY <1>6
  <2>2. \A j \in Lines : \A r \in Elems(line'[j].out) \cup Elems(line'[j].in) :
           r.client = line[j].client
    <3>1. \A j \in Lines : Elems(line'[j].out) \subseteq Elems(line[j].out)
      BY <1>3, <1>6
    <3>2. QED
      BY <1>6, <3>1, TaggedHere DEF XInv
  <2>3. \A j \in Ids : Elems(outbox'[j]) \subseteq Elems(outbox[j])
    BY <1>7, <1>8
  <2>4. \A j \in Lines : line[j].id # 0 =>
           \A r \in Elems(outbox'[line[j].id]) : r.client = line[j].client
    BY <2>3, OneLine, TaggedHere DEF XInv
  <2>5. inbox' = inbox
    BY <1>9
  <2>6. QED
    BY <1>12, <2>1, <2>2, <2>4, <2>5, StillTagged, TaggedHere DEF XInv
<1>15. HeldOK' /\ RepOK' /\ UnusedOK'
  <2>1. line[l].used
    BY <1>10 DEF XInv, UnusedOK, k
  <2>2. QED
    BY <1>6, <1>9, <2>1 DEF XInv, HeldOK, RepOK, UnusedOK, lifeVars, workVars
<1>16. Located'
  <2> DEFINE a == <<"outbox", k>>
             b == <<"out", l>>
  <2>1. /\ a \in Places /\ b \in Places /\ a # b
        /\ Queues[a] = outbox[k] /\ Queues[b] = line[l].out
        /\ Queues'[a] = <<>> /\ Queues'[b] = t
    BY <1>1, <1>6, <1>8, QueuesAre DEF k
  <2>2. \A p \in Places : p \notin {a, b} => Queues'[p] = Queues[p]
    BY <1>6, <1>8, <1>9, Others DEF workVars
  <2> HIDE DEF a, b
  <2> SUFFICES ASSUME NEW c \in Clients PROVE Alone(Queues', c, req'[c].waiting /\ c \notin lost')
    BY DEF Located
  <2> DEFINE x == req[c].waiting /\ c \notin lost
  <2>3. Alone(Queues, c, x)
    BY DEF XInv, Located
  <2>4. x /\ c \notin gone <=> req'[c].waiting /\ c \notin lost'
    BY <1>5, <1>9
  <2> HIDE DEF x
  <2>5. Once(Queues[a], c) /\ Once(Queues[b], c)
    BY <2>1, <2>3 DEF Alone
  <2>6. \A p \in Places : /\ Once(Queues[p], c) => Once(Queues'[p], c)
                          /\ c \in Senders(Queues'[p]) => c \in Senders(Queues[p])
                          /\ c \in Senders(Queues[p]) => c \in Senders(Queues'[p]) \/ c \in gone
    BY <1>3, <1>4, <1>7, <2>1, <2>2, <2>5
  <2>7. c \in gone => \E p \in Places : c \in Senders(Queues[p]) /\ c \notin Senders(Queues'[p])
    BY <1>3, <1>4, <1>7, <2>1, <2>5
  <2>8. Alone(Queues', c, x /\ c \notin gone)
    BY <2>3, <2>6, <2>7, Dropped
  <2>9. QED
    BY <2>4, <2>8, Relabelled
<1>17. QED
  BY <1>11, <1>13, <1>14, <1>15, <1>16 DEF XInv

-----------------------------------------------------------------------------
(* The steps of the requesters. *)

LEMMA ConnectStep ==
    ASSUME Sizes, XInv, NEW c \in Clients, Connect(c)
    PROVE  XInv'
<1>1. PICK l \in Lines :
         /\ ~line[l].used
         /\ line' = [line EXCEPT ![l] = [NoLine EXCEPT !.client = c, !.used = TRUE, !.held = TRUE]]
  BY DEF Connect
<1> DEFINE x == [NoLine EXCEPT !.client = c, !.used = TRUE, !.held = TRUE]
<1>2. <<>> \in Seq(Message) /\ Elems(<<>>) = {}
  BY NoMessage
<1>3. /\ x \in LineType /\ x.client = c /\ x.used /\ x.held /\ x.out = <<>> /\ x.in = <<>> /\ x.id = 0
  BY <1>2 DEF NoLine, LineType
<1> HIDE DEF x
<1>4. /\ line' \in [Lines -> LineType] /\ line'[l] = x
      /\ \A j \in Lines : j # l => line'[j] = line[j]
  BY <1>1, <1>3, LineWith DEF XInv, Types, NetTypes, x
<1>5. ~line[l].held /\ line[l].id = 0 /\ line[l].out = <<>> /\ line[l].in = <<>>
  BY <1>1 DEF XInv, UnusedOK
<1>6. UNCHANGED <<lifeVars, req, inbox, outbox, ids, held, workVars, faults, lost>>
  BY DEF Connect
<1>7. \A j \in Lines : line'[j].id = line[j].id /\ line'[j].out = line[j].out /\ line'[j].in = line[j].in
  BY <1>3, <1>4, <1>5
<1>8. Types'
  BY <1>4, <1>6 DEF XInv, Types, NetTypes, WorkTypes, LifeTypes, ReqTypes, lifeVars, workVars
<1>9. Routing' = Routing
  BY <1>6, StillRouting
<1>10. Numbered'
  <2>1. ids \in Nat /\ faults \in Nat /\ Cardinality(Linked) \in Nat
    BY Finite DEF XInv
  <2>2. QED
    BY <1>6, <1>7, <1>9, <2>1, StillNumbered DEF XInv, Numbered
<1>11. Tagged'
  <2>1. ASSUME NEW j \in Lines
        PROVE  /\ \A r \in Elems(line'[j].out) \cup Elems(line'[j].in) : r.client = line'[j].client
               /\ line'[j].id # 0 =>
                     /\ \A r \in Elems(inbox[line'[j].id]) \cup Elems(outbox[line'[j].id]) :
                           r.client = line'[j].client
                     /\ \A r \in Routing : r.id = line'[j].id => r.client = line'[j].client
    <3>1. CASE j = l
      BY <1>2, <1>3, <1>4, <3>1
    <3>2. CASE j # l
      BY <1>4, <3>2, TaggedHere DEF XInv
    <3>3. QED
      BY <3>1, <3>2
  <2>2. QED
    BY <1>6, <1>9, <2>1 DEF Tagged
<1>12. HeldOK' /\ RepOK' /\ UnusedOK'
  BY <1>3, <1>4, <1>6, ZenonT(30) DEF XInv, HeldOK, RepOK, UnusedOK, lifeVars, workVars
<1>13. Located'
  <2>1. \A n \in Places : Queues'[n] = Queues[n]
    BY <1>6, <1>7, AllTheSame DEF workVars
  <2>2. QED
    BY <1>6, <2>1, StillLocated DEF XInv
<1>14. QED
  BY <1>8, <1>10, <1>11, <1>12, <1>13 DEF XInv

LEMMA DisconnectStep ==
    ASSUME Sizes, XInv, NEW c \in Clients, Disconnect(c)
    PROVE  XInv'
<1>1. PICK l \in LinesOf(c) :
         /\ line' = [line EXCEPT ![l].held = FALSE, ![l].in = <<>>]
         /\ req' = [req EXCEPT ![c].line = IF @ = l THEN 0 ELSE @]
         /\ lost' = lost \cup Senders(line[l].in)
  BY DEF Disconnect, Lose
<1>2. /\ l \in Lines /\ line \in [Lines -> LineType] /\ line[l].in \in Seq(Message) /\ line[l].held
      /\ req \in [Clients -> [waiting : BOOLEAN, line : Lines \cup {0}]]
  BY DEF XInv, Types, NetTypes, ReqTypes, LineType, LinesOf
<1>3. <<>> \in Seq(Message) /\ Elems(<<>>) = {} /\ Senders(<<>>) = {} /\ \A d : Once(<<>>, d)
  BY NoMessage
<1>4. /\ line' \in [Lines -> LineType]
      /\ \A j \in Lines : /\ line'[j].client = line[j].client /\ line'[j].used = line[j].used
                          /\ line'[j].id = line[j].id /\ line'[j].out = line[j].out
                          /\ (j # l => line'[j].held = line[j].held /\ line'[j].in = line[j].in)
      /\ line'[l].in = <<>> /\ ~line'[l].held
  BY <1>1, <1>2, <1>3 DEF LineType
<1>5. /\ req' \in [Clients -> [waiting : BOOLEAN, line : Lines \cup {0}]]
      /\ \A d \in Clients : req'[d].waiting = req[d].waiting
  BY <1>1, <1>2
<1>6. /\ UNCHANGED <<lifeVars, inbox, outbox, ids, held, workVars>>
      /\ faults < MaxFaults /\ faults' = faults + 1
  BY DEF Disconnect, Fault
<1>7. ids \in Nat /\ faults \in Nat /\ MaxFaults \in Nat /\ Cardinality(Linked) \in Nat
  BY Finite DEF XInv
<1>8. Types'
  <2>1. Senders(line[l].in) \subseteq Clients
    BY <1>2, SendersTyped
  <2>2. lost' \subseteq Clients /\ faults' \in 0..MaxFaults
    BY <1>1, <1>6, <1>7, <2>1 DEF XInv, Types, ReqTypes
  <2>3. QED
    BY <1>4, <1>5, <1>6, <2>2
       DEF XInv, Types, NetTypes, WorkTypes, LifeTypes, ReqTypes, lifeVars, workVars
<1>9. Routing' = Routing
  BY <1>6, StillRouting
<1>10. Numbered'
  BY <1>4, <1>6, <1>7, <1>9, StillNumbered DEF XInv, Numbered
<1>11. Tagged'
  <2>1. \A j \in Lines : line'[j].client = line[j].client /\ line'[j].id \in {line[j].id, 0}
    BY <1>4
  <2>2. \A j \in Lines : \A r \in Elems(line'[j].out) \cup Elems(line'[j].in) :
           r.client = line[j].client
    <3>1. \A j \in Lines : Elems(line'[j].in) \subseteq Elems(line[j].in)
      BY <1>3, <1>4
    <3>2. QED
      BY <1>4, <3>1, TaggedHere DEF XInv
  <2>3. inbox' = inbox /\ outbox' = outbox
    BY <1>6
  <2>4. QED
    BY <1>9, <2>1, <2>2, <2>3, StillTagged, TaggedHere DEF XInv
<1>12. HeldOK' /\ RepOK' /\ UnusedOK'
  BY <1>2, <1>4, <1>6, ZenonT(30) DEF XInv, HeldOK, RepOK, UnusedOK, lifeVars, workVars
<1>13. Located'
  <2> DEFINE a == <<"in", l>>
             gone == Senders(line[l].in)
  <2>1. a \in Places /\ Queues[a] = line[l].in /\ Queues'[a] = <<>>
    BY <1>2, <1>4, QueuesAre
  <2>2. \A p \in Places : p \notin {a} => Queues'[p] = Queues[p]
    BY <1>4, <1>6, Others DEF workVars
  <2> HIDE DEF a
  <2> SUFFICES ASSUME NEW d \in Clients PROVE Alone(Queues', d, req'[d].waiting /\ d \notin lost')
    BY DEF Located
  <2> DEFINE x == req[d].waiting /\ d \notin lost
  <2>3. Alone(Queues, d, x)
    BY DEF XInv, Located
  <2>4. x /\ d \notin gone <=> req'[d].waiting /\ d \notin lost'
    BY <1>1, <1>5
  <2>5. \A p \in Places : /\ Once(Queues[p], d) => Once(Queues'[p], d)
                          /\ d \in Senders(Queues'[p]) => d \in Senders(Queues[p])
                          /\ d \in Senders(Queues[p]) => d \in Senders(Queues'[p]) \/ d \in gone
    BY <1>3, <2>1, <2>2
  <2>6. d \in gone => \E p \in Places : d \in Senders(Queues[p]) /\ d \notin Senders(Queues'[p])
    BY <1>3, <2>1
  <2> HIDE DEF x, gone
  <2>7. Alone(Queues', d, x /\ d \notin gone)
    BY <2>3, <2>5, <2>6, Dropped
  <2>8. QED
    BY <2>4, <2>7, Relabelled
<1>14. QED
  BY <1>8, <1>10, <1>11, <1>12, <1>13 DEF XInv

(* A requester that may send has nothing left to eat. *)
LEMMA NothingToEat ==
    ASSUME XInv, NEW c \in Clients, ~req[c].waiting, NEW l \in LinesOf(c)
    PROVE  line[l].in = <<>>
<1>1. l \in Lines /\ line[l].client = c /\ line[l].in \in Seq(Message)
  BY DEF XInv, Types, NetTypes, LineType, LinesOf
<1>2. c \notin Senders(line[l].in)
  <2>1. Alone(Queues, c, req[c].waiting /\ c \notin lost)
    BY DEF XInv, Located
  <2>2. <<"in", l>> \in Places /\ Queues[<<"in", l>>] = line[l].in
    BY <1>1, QueuesAre
  <2>3. QED
    BY <2>1, <2>2 DEF Alone
<1>3. \A m \in Elems(line[l].in) : m.client = c
  BY <1>1, TaggedHere DEF XInv
<1>4. Senders(line[l].in) = {m.client : m \in Elems(line[l].in)}
  BY <1>1, SendersAre
<1>5. Senders(line[l].in) = {}
  BY <1>2, <1>3, <1>4
<1>6. QED
  BY <1>1, <1>5, SendersAre

LEMMA SendStep ==
    ASSUME Sizes, XInv, NEW c \in Clients, SendRequest(c)
    PROVE  XInv'
<1>1. PICK l \in LinesOf(c) :
         /\ req' = [req EXCEPT ![c] = [waiting |-> TRUE, line |-> l]]
         /\ line' = [Eaten(c) EXCEPT ![l].out = Append(@, [client |-> c])]
  BY DEF SendRequest
<1> DEFINE m == [client |-> c]
           q == Append(line[l].out, m)
<1>2. /\ l \in Lines /\ line \in [Lines -> LineType] /\ line[l].out \in Seq(Message)
      /\ line[l].held /\ line[l].client = c /\ m \in Message /\ m.client = c
      /\ ~req[c].waiting /\ req \in [Clients -> [waiting : BOOLEAN, line : Lines \cup {0}]]
  BY DEF XInv, Types, NetTypes, ReqTypes, LineType, LinesOf, Message, SendRequest
<1>3. /\ Eaten(c) \in [Lines -> LineType]
      /\ \A j \in Lines : /\ Eaten(c)[j].client = line[j].client /\ Eaten(c)[j].used = line[j].used
                          /\ Eaten(c)[j].held = line[j].held /\ Eaten(c)[j].id = line[j].id
                          /\ Eaten(c)[j].out = line[j].out /\ Eaten(c)[j].in = line[j].in
  <2>1. ASSUME NEW j \in Lines
        PROVE  /\ Eaten(c)[j] \in LineType
               /\ Eaten(c)[j].client = line[j].client /\ Eaten(c)[j].used = line[j].used
               /\ Eaten(c)[j].held = line[j].held /\ Eaten(c)[j].id = line[j].id
               /\ Eaten(c)[j].out = line[j].out /\ Eaten(c)[j].in = line[j].in
    <3>1. CASE j \in LinesOf(c)
      <4>1. Eaten(c)[j] = [line[j] EXCEPT !.in = <<>>] /\ line[j].in = <<>>
        BY <1>2, <3>1, NothingToEat DEF Eaten
      <4>2. line[j] \in LineType /\ <<>> \in Seq(Message)
        BY <1>2, NoMessage
      <4>3. QED
        BY <4>1, <4>2 DEF LineType
    <3>2. CASE j \notin LinesOf(c)
      BY <1>2, <3>2 DEF Eaten
    <3>3. QED
      BY <3>1, <3>2
  <2>2. Eaten(c) = [j \in Lines |-> Eaten(c)[j]]
    BY DEF Eaten
  <2>3. QED
    BY <2>1, <2>2
<1> DEFINE E == Eaten(c)
<1>4. line' = [E EXCEPT ![l].out = q]
  BY <1>1, <1>2, <1>3
<1>5. /\ q \in Seq(Message) /\ Elems(q) = Elems(line[l].out) \cup {m}
  BY <1>2, OneMore
<1> HIDE DEF E, m, q
<1>6. /\ line' \in [Lines -> LineType]
      /\ \A j \in Lines : /\ line'[j].client = line[j].client /\ line'[j].used = line[j].used
                          /\ line'[j].held = line[j].held /\ line'[j].id = line[j].id
                          /\ line'[j].in = line[j].in /\ (j # l => line'[j].out = line[j].out)
      /\ line'[l].out = q
  <2>1. /\ E \in [Lines -> LineType]
        /\ \A j \in Lines : /\ E[j].client = line[j].client /\ E[j].used = line[j].used
                            /\ E[j].held = line[j].held /\ E[j].id = line[j].id
                            /\ E[j].out = line[j].out /\ E[j].in = line[j].in
    BY <1>3 DEF E
  <2>2. /\ line' \in [Lines -> LineType]
        /\ \A j \in Lines : /\ line'[j].client = E[j].client /\ line'[j].used = E[j].used
                            /\ line'[j].held = E[j].held /\ line'[j].id = E[j].id
                            /\ line'[j].in = E[j].in /\ (j # l => line'[j].out = E[j].out)
        /\ line'[l].out = q
    BY <1>2, <1>4, <1>5, <2>1, LineOut
  <2>3. QED
    BY <1>2, <2>1, <2>2
<1>7. /\ req' \in [Clients -> [waiting : BOOLEAN, line : Lines \cup {0}]]
      /\ req'[c].waiting /\ \A d \in Clients : d # c => req'[d] = req[d]
  BY <1>1, <1>2
<1>8. /\ UNCHANGED <<lifeVars, inbox, outbox, ids, held, workVars, faults>>
      /\ lost' = lost \ {c}
  BY DEF SendRequest
<1>9. Types'
  BY <1>6, <1>7, <1>8 DEF XInv, Types, NetTypes, WorkTypes, LifeTypes, ReqTypes, lifeVars, workVars
<1>10. Routing' = Routing
  BY <1>8, StillRouting
<1>11. Numbered'
  <2>1. ids \in Nat /\ faults \in Nat /\ Cardinality(Linked) \in Nat
    BY Finite DEF XInv
  <2>2. QED
    BY <1>6, <1>8, <1>10, <2>1, StillNumbered DEF XInv, Numbered
<1>12. Tagged'
  <2>1. \A j \in Lines : line'[j].client = line[j].client /\ line'[j].id \in {line[j].id, 0}
    BY <1>6
  <2>2. ASSUME NEW j \in Lines, NEW r \in Elems(line'[j].out) \cup Elems(line'[j].in)
        PROVE  r.client = line[j].client
    <3>1. r \in Elems(line[j].out) \cup Elems(line[j].in) \/ (j = l /\ r = m)
      <4>1. CASE j = l
        BY <1>5, <1>6, <2>2, <4>1
      <4>2. CASE j # l
        BY <1>6, <2>2, <4>2
      <4>3. QED
        BY <4>1, <4>2
    <3>2. QED
      BY <1>2, <3>1, TaggedHere DEF XInv
  <2>3. inbox' = inbox /\ outbox' = outbox
    BY <1>8
  <2>4. QED
    BY <1>10, <2>1, <2>2, <2>3, StillTagged, TaggedHere DEF XInv
<1>13. HeldOK' /\ RepOK' /\ UnusedOK'
  <2>1. line[l].used
    BY <1>2 DEF XInv, UnusedOK
  <2>2. QED
    BY <1>6, <1>8, <2>1 DEF XInv, HeldOK, RepOK, UnusedOK, lifeVars, workVars
<1>14. Located'
  <2> DEFINE b == <<"out", l>>
  <2>1. b \in Places /\ Queues[b] \in Seq(Message) /\ Queues'[b] = Append(Queues[b], m)
    BY <1>2, <1>6, QueuesAre DEF q
  <2>2. \A p \in Places : p \notin {b} => Queues'[p] = Queues[p]
    BY <1>6, <1>8, Others DEF workVars
  <2> HIDE DEF b
  <2> SUFFICES ASSUME NEW d \in Clients PROVE Alone(Queues', d, req'[d].waiting /\ d \notin lost')
    BY DEF Located
  <2> DEFINE x == req[d].waiting /\ d \notin lost
  <2>3. Alone(Queues, d, x)
    BY DEF XInv, Located
  <2>4. x \/ m.client = d <=> req'[d].waiting /\ d \notin lost'
    BY <1>2, <1>7, <1>8
  <2>5. m.client = d => ~x
    BY <1>2
  <2> HIDE DEF x
  <2>6. m \in Message /\ \A p \in Places : p # b => Queues'[p] = Queues[p]
    BY <1>2, <2>2
  <2>7. Alone(Queues', d, x \/ m.client = d)
    BY <2>1, <2>3, <2>5, <2>6, Made
  <2>8. QED
    BY <2>4, <2>7, Relabelled
<1>15. QED
  BY <1>9, <1>11, <1>12, <1>13, <1>14 DEF XInv

LEMMA ReceiveStep ==
    ASSUME Sizes, XInv, NEW c \in Clients, ReceiveAnswer(c)
    PROVE  XInv'
<1>1. PICK l \in LinesOf(c) :
         /\ line[l].in # <<>>
         /\ line' = [line EXCEPT ![l].in = Tail(@)]
         /\ \/ req' = [req EXCEPT ![c].waiting = FALSE] /\ UNCHANGED lost
            \/ UNCHANGED req /\ Lose(<<Head(line[l].in)>>)
  BY DEF ReceiveAnswer
<1> DEFINE m == Head(line[l].in)
<1>2. /\ l \in Lines /\ line \in [Lines -> LineType] /\ line[l].in \in Seq(Message)
      /\ line[l].client = c /\ req[c].waiting
      /\ req \in [Clients -> [waiting : BOOLEAN, line : Lines \cup {0}]]
  BY DEF XInv, Types, NetTypes, ReqTypes, LineType, LinesOf, ReceiveAnswer
<1>3. /\ Tail(line[l].in) \in Seq(Message) /\ m \in Message
      /\ Elems(line[l].in) = Elems(Tail(line[l].in)) \cup {m}
  BY <1>1, <1>2, OneLess
<1>4. m.client = c
  BY <1>2, <1>3, TaggedHere DEF XInv
<1>5. /\ line' \in [Lines -> LineType]
      /\ \A j \in Lines : /\ line'[j].client = line[j].client /\ line'[j].used = line[j].used
                          /\ line'[j].held = line[j].held /\ line'[j].id = line[j].id
                          /\ line'[j].out = line[j].out /\ (j # l => line'[j].in = line[j].in)
      /\ line'[l].in = Tail(line[l].in)
  <2> DEFINE q == Tail(line[l].in)
  <2>1. line' = [line EXCEPT ![l].in = q] /\ q \in Seq(Message)
    BY <1>1, <1>3
  <2> HIDE DEF q
  <2>2. /\ line' \in [Lines -> LineType] /\ line'[l].in = q
        /\ \A j \in Lines : /\ line'[j].client = line[j].client /\ line'[j].used = line[j].used
                            /\ line'[j].held = line[j].held /\ line'[j].id = line[j].id
                            /\ line'[j].out = line[j].out /\ (j # l => line'[j].in = line[j].in)
    BY <1>2, <2>1, LineIn, SMTT(30)
  <2>3. QED
    BY <2>2 DEF q
<1> HIDE DEF m
<1>6. Lose(<<m>>) => lost' = lost \cup {c}
  BY <1>4, OneMessage DEF Lose
<1>7. /\ req' \in [Clients -> [waiting : BOOLEAN, line : Lines \cup {0}]]
      /\ \A d \in Clients : d # c => req'[d].waiting = req[d].waiting
      /\ \/ ~req'[c].waiting /\ lost' = lost
         \/ req' = req /\ lost' = lost \cup {c}
  <2>1. CASE req' = [req EXCEPT ![c].waiting = FALSE] /\ lost' = lost
    BY <1>2, <2>1
  <2>2. CASE req' = req /\ Lose(<<Head(line[l].in)>>)
    BY <1>2, <1>6, <2>2 DEF m
  <2>3. QED
    BY <1>1, <2>1, <2>2
<1>8. UNCHANGED <<lifeVars, inbox, outbox, ids, held, workVars, faults>>
  BY DEF ReceiveAnswer
<1>9. Types'
  BY <1>5, <1>7, <1>8 DEF XInv, Types, NetTypes, WorkTypes, LifeTypes, ReqTypes, lifeVars, workVars
<1>10. Routing' = Routing
  BY <1>8, StillRouting
<1>11. Numbered'
  <2>1. ids \in Nat /\ faults \in Nat /\ Cardinality(Linked) \in Nat
    BY Finite DEF XInv
  <2>2. QED
    BY <1>5, <1>8, <1>10, <2>1, StillNumbered DEF XInv, Numbered
<1>12. Tagged'
  <2>1. \A j \in Lines : line'[j].client = line[j].client /\ line'[j].id \in {line[j].id, 0}
    BY <1>5
  <2>2. \A j \in Lines : \A r \in Elems(line'[j].out) \cup Elems(line'[j].in) :
           r.client = line[j].client
    <3>1. \A j \in Lines : Elems(line'[j].in) \subseteq Elems(line[j].in)
      BY <1>3, <1>5
    <3>2. QED
      BY <1>5, <3>1, TaggedHere DEF XInv
  <2>3. inbox' = inbox /\ outbox' = outbox
    BY <1>8
  <2>4. QED
    BY <1>10, <2>1, <2>2, <2>3, StillTagged, TaggedHere DEF XInv
<1>13. HeldOK' /\ RepOK' /\ UnusedOK'
  <2>1. line[l].used
    BY <1>1, <1>2 DEF XInv, UnusedOK
  <2>2. QED
    BY <1>5, <1>8, <2>1 DEF XInv, HeldOK, RepOK, UnusedOK, lifeVars, workVars
<1>14. Located'
  <2> DEFINE a == <<"in", l>>
  <2>1. /\ a \in Places /\ Queues[a] \in Seq(Message) /\ Queues[a] # <<>>
        /\ Queues'[a] = Tail(Queues[a]) /\ Head(Queues[a]).client = c
    BY <1>1, <1>2, <1>4, <1>5, QueuesAre DEF m
  <2>2. \A p \in Places : p \notin {a} => Queues'[p] = Queues[p]
    BY <1>5, <1>8, Others DEF workVars
  <2> HIDE DEF a
  <2> SUFFICES ASSUME NEW d \in Clients PROVE Alone(Queues', d, req'[d].waiting /\ d \notin lost')
    BY DEF Located
  <2> DEFINE x == req[d].waiting /\ d \notin lost
  <2>3. Alone(Queues, d, x)
    BY DEF XInv, Located
  <2>4. x /\ d # Head(Queues[a]).client <=> req'[d].waiting /\ d \notin lost'
    BY <1>7, <2>1
  <2> HIDE DEF x
  <2>5. Alone(Queues', d, x /\ d # Head(Queues[a]).client)
    BY <2>1, <2>2, <2>3, Removed
  <2>6. QED
    BY <2>4, <2>5, Relabelled
<1>15. QED
  BY <1>9, <1>11, <1>12, <1>13, <1>14 DEF XInv

-----------------------------------------------------------------------------
(* The steps of the Broker's thread. *)

(* Messages that have their number go from hand to hand. *)
LEMMA NetStill ==
    ASSUME Sizes, XInv, UNCHANGED netVars, faults' \in {faults, faults + 1}, Routing' \subseteq Routing
    PROVE  NetTypes' /\ Numbered' /\ Tagged' /\ UnusedOK'
<1>1. line' = line /\ inbox' = inbox /\ outbox' = outbox /\ ids' = ids
  BY DEF netVars
<1>2. ids \in Nat /\ faults \in Nat /\ Cardinality(Linked) \in Nat
  BY Finite DEF XInv
<1>3. Numbered'
  <2>1. \A k \in Ids : k > ids => inbox'[k] = <<>> /\ outbox'[k] = <<>>
    BY <1>1 DEF XInv, Numbered
  <2>2. \A m \in Routing' : m.id <= ids
    BY DEF XInv, Numbered
  <2>3. \A l \in Lines : line'[l].id = line[l].id
    BY <1>1
  <2>4. QED
    BY <1>1, <1>2, <2>1, <2>2, <2>3, StillNumbered DEF XInv
<1>4. Tagged'
  BY <1>1, StillTagged, TaggedHere DEF XInv
<1>5. QED
  BY <1>1, <1>3, <1>4 DEF XInv, Types, NetTypes, UnusedOK

LEMMA FromRouterStep ==
    ASSUME Sizes, XInv, FromRouter
    PROVE  XInv'
<1>1. at = "first" /\ held = <<>>
  BY DEF XInv, HeldOK, FromRouter
<1>2. UNCHANGED <<req, line, outbox, ids, workVars, faults, lost>>
  BY DEF FromRouter
<1>3. CASE Goto("second") /\ UNCHANGED <<inbox, held>>
  <2>1. Routing' = Routing
    BY <1>2, <1>3, StillRouting
  <2>2. UNCHANGED netVars
    BY <1>2, <1>3 DEF netVars
  <2>3. NetTypes' /\ Numbered' /\ Tagged' /\ UnusedOK'
    BY <1>2, <2>1, <2>2, NetStill
  <2>4. at' = "second" /\ UNCHANGED <<service, running, finish, owner>>
    BY <1>3 DEF Goto
  <2>5. Types' /\ HeldOK' /\ RepOK'
    BY <1>1, <1>2, <1>3, <2>3, <2>4
       DEF XInv, Types, WorkTypes, LifeTypes, ReqTypes, HeldOK, RepOK, workVars
  <2>6. \A n \in Places : Queues'[n] = Queues[n]
    BY <1>2, <1>3, AllTheSame DEF workVars
  <2>7. Located'
    BY <1>2, <2>6, StillLocated DEF XInv
  <2>8. QED
    BY <2>3, <2>5, <2>7 DEF XInv
<1>4. ASSUME NEW k \in Ids, inbox[k] # <<>>, inbox' = [inbox EXCEPT ![k] = Tail(@)],
             held' = <<[id |-> k, client |-> Head(inbox[k]).client]>>, Goto("to dealer")
      PROVE  XInv'
  <2> DEFINE m == [id |-> k, client |-> Head(inbox[k]).client]
  <2>1. inbox \in [Ids -> Seq(Message)] /\ inbox[k] \in Seq(Message)
    BY DEF XInv, Types, NetTypes
  <2>2. /\ Tail(inbox[k]) \in Seq(Message) /\ Head(inbox[k]) \in Message
        /\ Elems(inbox[k]) = Elems(Tail(inbox[k])) \cup {Head(inbox[k])}
    BY <1>4, <2>1, OneLess
  <2>3. m \in Routed /\ m.client = Head(inbox[k]).client /\ m.id = k
    BY <2>2 DEF Routed, Message
  <2>4. /\ inbox' \in [Ids -> Seq(Message)] /\ inbox'[k] = Tail(inbox[k])
        /\ \A j \in Ids : j # k => inbox'[j] = inbox[j]
    BY <1>4, <2>1, <2>2
  <2>5. held' = <<m>> /\ at' = "to dealer" /\ UNCHANGED <<service, running, finish, owner>>
    BY <1>4 DEF Goto
  <2> HIDE DEF m
  <2>6. /\ Elems(held') = {m} /\ held' \in Seq(Routed) /\ Len(held') <= 1 /\ held' # <<>>
        /\ held \in Seq(Routed) /\ held' = Append(held, m)
    <3>1. Elems(<<m>>) = {m} /\ held \in Seq(Routed)
      BY <1>1, OneMessage, NoMessage
    <3>2. /\ <<m>> = Append(<<>>, m) /\ <<m>> \in Seq(Routed) /\ Len(<<m>>) = 1 /\ <<m>> # <<>>
      BY <2>3, First
    <3>3. held' = Append(held, m) /\ held' \in Seq(Routed) /\ Len(held') = 1 /\ held' # <<>>
      BY <1>1, <2>5, <3>2, Zenon
    <3>4. Elems(held') = {m} /\ held \in Seq(Routed)
      BY <2>5, <3>1, Zenon
    <3>5. QED
      BY <3>3, <3>4
  <2>7. Types'
    BY <1>2, <2>4, <2>5, <2>6 DEF XInv, Types, NetTypes, WorkTypes, LifeTypes, ReqTypes, workVars
  <2>8. Routing' \subseteq Routing \cup {m}
    <3> DEFINE S == Routing \cup {m}
    <3>1. /\ Elems(held') \subseteq S
          /\ \A w \in Workers : /\ Elems(given'[w]) \subseteq S /\ Elems(answers'[w]) \subseteq S
                                /\ Elems(rep'[w].request) \subseteq S
      BY <1>2, <2>6, RoutingHas DEF workVars
    <3> HIDE DEF S
    <3>2. Routing' \subseteq S
      BY <3>1, RoutingWithin
    <3>3. QED
      BY <3>2 DEF S
  <2>9. Numbered'
    <3>1. ids \in Nat /\ faults \in Nat /\ Cardinality(Linked) \in Nat /\ k \in Nat
      BY Finite DEF XInv
    <3>2. k <= ids
      <4>1. ~(k > ids)
        BY <1>4 DEF XInv, Numbered
      <4>2. QED
        BY <3>1, <4>1
    <3>3. \A j \in Ids : j > ids => inbox'[j] = <<>> /\ outbox'[j] = <<>>
      <4>1. \A j \in Ids : j > ids => j # k
        BY <3>1, <3>2
      <4>2. outbox' = outbox
        BY <1>2
      <4>3. QED
        BY <2>4, <4>1, <4>2 DEF XInv, Numbered
    <3>4. \A r \in Routing' : r.id <= ids
      BY <2>3, <2>8, <3>2 DEF XInv, Numbered
    <3>5. \A l \in Lines : line'[l].id = line[l].id
      BY <1>2
    <3>6. QED
      BY <1>2, <3>1, <3>3, <3>4, <3>5, StillNumbered DEF XInv
  <2>10. Tagged'
    <3>1. line' = line /\ outbox' = outbox
      BY <1>2
    <3>2. \A j \in Ids : Elems(inbox'[j]) \subseteq Elems(inbox[j])
      BY <2>2, <2>4
    <3>3. \A j \in Lines : line[j].id # 0 =>
             \A r \in Elems(inbox'[line[j].id]) : r.client = line[j].client
      BY <3>2, OneLine, TaggedHere DEF XInv
    <3>4. ASSUME NEW j \in Lines, line[j].id # 0, NEW r \in Routing', r.id = line[j].id
          PROVE  r.client = line[j].client
      <4>1. CASE r \in Routing
        BY <3>4, <4>1, TaggedHere DEF XInv
      <4>2. CASE r = m
        <5>1. line[j].id = k
          BY <2>3, <3>4, <4>2
        <5>2. \A q \in Elems(inbox[k]) : q.client = line[j].client
          BY <3>4, <5>1, TaggedHere DEF XInv
        <5>3. QED
          BY <2>2, <2>3, <4>2, <5>2
      <4>3. QED
        BY <2>8, <4>1, <4>2
    <3>5. QED
      BY <3>1, <3>3, <3>4, StillTagged, TaggedHere DEF XInv
  <2>11. HeldOK' /\ RepOK' /\ UnusedOK'
    BY <1>1, <1>2, <2>5, <2>6 DEF XInv, HeldOK, RepOK, UnusedOK, workVars
  <2>12. Located'
    <3> DEFINE a == <<"inbox", k>>
               b == <<"held", 0>>
    <3>1. /\ a \in Places /\ b \in Places /\ a # b
          /\ Queues[a] = inbox[k] /\ Queues[b] = held
          /\ Queues'[a] = Tail(inbox[k]) /\ Queues'[b] = held'
      BY <2>4, QueuesAre
    <3>2. \A p \in Places : p \notin {a, b} => Queues'[p] = Queues[p]
      BY <1>2, <2>4, Others DEF workVars
    <3> HIDE DEF a, b
    <3>3. /\ Queues[a] \in Seq(Message) /\ Queues[a] # <<>> /\ Queues[b] \in Seq(Routed)
          /\ m.client = Head(Queues[a]).client
          /\ Queues'[a] = Tail(Queues[a]) /\ Queues'[b] = Append(Queues[b], m)
      BY <1>4, <2>1, <2>3, <2>6, <3>1
    <3>4. Located /\ lost' = lost /\ req' = req
      BY <1>2 DEF XInv
    <3>5. QED
      BY <2>3, <3>1, <3>2, <3>3, <3>4, MovedLocated, SMTT(30)
  <2>13. QED
    BY <2>7, <2>9, <2>10, <2>11, <2>12 DEF XInv
<1>5. QED
  BY <1>3, <1>4 DEF FromRouter

LEMMA ToDealerStep ==
    ASSUME Sizes, XInv, ToDealer
    PROVE  XInv'
<1> DEFINE m == held[1]
           b == <<"held", 0>>
<1>1. at = "to dealer" /\ held # <<>> /\ held \in Seq(Routed) /\ Len(held) <= 1
  BY DEF XInv, Types, WorkTypes, HeldOK, ToDealer
<1>2. held = <<m>> /\ m \in Routed /\ Head(held) = m /\ Tail(held) = <<>>
  BY <1>1, Single
<1>3. Senders(held) = {m.client} /\ Elems(held) = {m} /\ Elems(<<>>) = {} /\ <<>> \in Seq(Routed)
  BY <1>2, OneMessage, NoMessage
<1>4. /\ UNCHANGED <<req, netVars, answers, rep, faults>>
      /\ held' = <<>> /\ held' \in Seq(Routed) /\ Len(held') <= 1
  <2>1. UNCHANGED <<req, netVars, answers, rep, faults>> /\ held' = <<>>
    BY DEF ToDealer
  <2>2. Len(held') = 0 /\ held' \in Seq(Routed)
    BY <2>1, NoMessage
  <2>3. QED
    BY <2>1, <2>2
<1>5. at' = "first" /\ UNCHANGED <<service, running, finish, owner>>
  BY DEF ToDealer, Goto
<1>6. /\ b \in Places /\ Queues[b] \in Seq(Routed) /\ Queues[b] # <<>> /\ Head(Queues[b]) = m
      /\ Queues'[b] = Tail(Queues[b])
  BY <1>1, <1>2, <1>4, QueuesAre
<1> HIDE DEF m, b
<1>7. CASE Lose(held) /\ UNCHANGED given
  <2>1. Routing' \subseteq Routing
    BY <1>3, <1>4, <1>7, RoutingHas, RoutingWithin
  <2>2. NetTypes' /\ Numbered' /\ Tagged' /\ UnusedOK'
    BY <1>4, <2>1, NetStill
  <2>3. lost' = lost \cup {m.client} /\ m.client \in Clients
    BY <1>2, <1>3, <1>7 DEF Lose, Routed
  <2>4. Types' /\ HeldOK' /\ RepOK'
    <3>1. WorkTypes'
      BY <1>4, <1>7 DEF XInv, Types, WorkTypes
    <3>2. LifeTypes' /\ ReqTypes'
      BY <1>4, <1>5, <2>3 DEF XInv, Types, LifeTypes, ReqTypes, netVars
    <3>3. HeldOK' /\ RepOK'
      BY <1>1, <1>4, <1>5 DEF XInv, HeldOK, RepOK
    <3>4. QED
      BY <2>2, <3>1, <3>2, <3>3 DEF Types
  <2>5. \A p \in Places : p \notin {b} => Queues'[p] = Queues[p]
    BY <1>4, <1>7, Others DEF netVars, b
  <2>6. Located'
    BY <1>4, <1>6, <2>3, <2>5, LostLocated DEF XInv
  <2>7. QED
    BY <2>2, <2>4, <2>6 DEF XInv
<1>8. ASSUME NEW w \in Able, given' = [given EXCEPT ![w] = Append(@, held[1])], UNCHANGED lost
      PROVE  XInv'
  <2> DEFINE c == <<"given", w>>
  <2>1. /\ w \in Workers /\ given \in [Workers -> Seq(Routed)] /\ given[w] \in Seq(Routed)
    BY DEF XInv, Types, WorkTypes, Able
  <2>2. /\ Append(given[w], m) \in Seq(Routed)
        /\ Elems(Append(given[w], m)) = Elems(given[w]) \cup {m}
    BY <1>2, <2>1, OneMore
  <2>3. /\ given' \in [Workers -> Seq(Routed)] /\ given'[w] = Append(given[w], m)
        /\ \A v \in Workers : v # w => given'[v] = given[v]
    BY <1>8, <2>1, <2>2 DEF m
  <2>4. Routing' \subseteq Routing
    <3>1. m \in Routing
      BY <1>3, RoutingHas
    <3>2. \A v \in Workers : Elems(given'[v]) \subseteq Routing
      BY <2>2, <2>3, <3>1, RoutingHas
    <3>3. QED
      BY <1>3, <1>4, <3>2, RoutingHas, RoutingWithin
  <2>5. NetTypes' /\ Numbered' /\ Tagged' /\ UnusedOK'
    BY <1>4, <2>4, NetStill
  <2>6. Types' /\ HeldOK' /\ RepOK'
    <3>1. WorkTypes'
      BY <1>4, <2>3 DEF XInv, Types, WorkTypes
    <3>2. LifeTypes' /\ ReqTypes'
      BY <1>4, <1>5, <1>8 DEF XInv, Types, LifeTypes, ReqTypes, netVars
    <3>3. HeldOK' /\ RepOK'
      BY <1>1, <1>4, <1>5 DEF XInv, HeldOK, RepOK
    <3>4. QED
      BY <2>5, <3>1, <3>2, <3>3 DEF Types
  <2>7. /\ c \in Places /\ b # c /\ Queues[c] = given[w] /\ Queues'[c] = given'[w]
    BY <2>1, QueuesAre DEF b
  <2>8. \A p \in Places : p \notin {b, c} => Queues'[p] = Queues[p]
    BY <1>4, <2>3, Others DEF netVars, b
  <2> HIDE DEF c
  <2>9. Queues[c] \in Seq(Routed) /\ Queues'[c] = Append(Queues[c], m)
    BY <2>1, <2>3, <2>7
  <2>10. m.client = Head(Queues[b]).client /\ Located /\ lost' = lost /\ req' = req
    BY <1>4, <1>6, <1>8 DEF XInv
  <2>11. Located'
    BY <1>2, <1>6, <2>7, <2>8, <2>9, <2>10, MovedLocated
  <2>12. QED
    BY <2>5, <2>6, <2>11 DEF XInv
<1>9. QED
  BY <1>7, <1>8 DEF ToDealer

LEMMA FromDealerStep ==
    ASSUME Sizes, XInv, FromDealer
    PROVE  XInv'
<1>1. at = "second" /\ held = <<>>
  BY DEF XInv, HeldOK, FromDealer
<1>2. UNCHANGED <<req, netVars, given, rep, faults, lost>>
  BY DEF FromDealer
<1>3. CASE Goto("loop") /\ UNCHANGED <<answers, held>>
  <2>1. Routing' \subseteq Routing
    BY <1>2, <1>3, StillRouting DEF workVars
  <2>2. NetTypes' /\ Numbered' /\ Tagged' /\ UnusedOK'
    BY <1>2, <2>1, NetStill
  <2>3. at' = "loop" /\ UNCHANGED <<service, running, finish, owner>>
    BY <1>3 DEF Goto
  <2>4. Types' /\ HeldOK' /\ RepOK'
    BY <1>1, <1>2, <1>3, <2>2, <2>3
       DEF XInv, Types, WorkTypes, LifeTypes, ReqTypes, HeldOK, RepOK, netVars
  <2>5. \A n \in Places : Queues'[n] = Queues[n]
    BY <1>2, <1>3, AllTheSame DEF netVars
  <2>6. Located'
    BY <1>2, <2>5, StillLocated DEF XInv
  <2>7. QED
    BY <2>2, <2>4, <2>6 DEF XInv
<1>4. ASSUME NEW w \in Workers, answers[w] # <<>>, answers' = [answers EXCEPT ![w] = Tail(@)],
             held' = <<Head(answers[w])>>, Goto("to router")
      PROVE  XInv'
  <2> DEFINE m == Head(answers[w])
  <2>1. answers \in [Workers -> Seq(Routed)] /\ answers[w] \in Seq(Routed)
    BY DEF XInv, Types, WorkTypes
  <2>2. /\ Tail(answers[w]) \in Seq(Routed) /\ m \in Routed
        /\ Elems(answers[w]) = Elems(Tail(answers[w])) \cup {m}
    BY <1>4, <2>1, OneLess
  <2>3. /\ answers' \in [Workers -> Seq(Routed)] /\ answers'[w] = Tail(answers[w])
        /\ \A v \in Workers : v # w => answers'[v] = answers[v]
    BY <1>4, <2>1, <2>2
  <2>4. held' = <<m>> /\ at' = "to router" /\ UNCHANGED <<service, running, finish, owner>>
    BY <1>4 DEF Goto
  <2> HIDE DEF m
  <2>5. /\ Elems(held') = {m} /\ held' \in Seq(Routed) /\ Len(held') <= 1 /\ held' # <<>>
        /\ held \in Seq(Routed) /\ held' = Append(held, m)
    <3>1. Elems(<<m>>) = {m} /\ held \in Seq(Routed)
      BY <1>1, OneMessage, NoMessage
    <3>2. /\ <<m>> = Append(<<>>, m) /\ <<m>> \in Seq(Routed) /\ Len(<<m>>) = 1 /\ <<m>> # <<>>
      BY <2>2, First
    <3>3. held' = Append(held, m) /\ held' \in Seq(Routed) /\ Len(held') = 1 /\ held' # <<>>
      BY <1>1, <2>4, <3>2, Zenon
    <3>4. Elems(held') = {m} /\ held \in Seq(Routed)
      BY <2>4, <3>1, Zenon
    <3>5. QED
      BY <3>3, <3>4
  <2>6. Routing' \subseteq Routing
    <3>1. m \in Routing /\ \A v \in Workers : Elems(answers'[v]) \subseteq Elems(answers[v])
      BY <2>2, <2>3, RoutingHas
    <3>2. QED
      BY <1>2, <2>5, <3>1, RoutingHas, RoutingWithin, SMTT(30)
  <2>7. NetTypes' /\ Numbered' /\ Tagged' /\ UnusedOK'
    BY <1>2, <2>6, NetStill
  <2>8. Types' /\ HeldOK' /\ RepOK'
    <3>1. WorkTypes'
      BY <1>2, <2>3, <2>5 DEF XInv, Types, WorkTypes
    <3>2. LifeTypes' /\ ReqTypes'
      BY <1>2, <2>4 DEF XInv, Types, LifeTypes, ReqTypes, netVars
    <3>3. HeldOK' /\ RepOK'
      BY <1>1, <1>2, <2>4, <2>5 DEF XInv, HeldOK, RepOK
    <3>4. QED
      BY <2>7, <3>1, <3>2, <3>3 DEF Types
  <2>9. Located'
    <3> DEFINE a == <<"answers", w>>
               b == <<"held", 0>>
    <3>1. /\ a \in Places /\ b \in Places /\ a # b
          /\ Queues[a] = answers[w] /\ Queues[b] = held
          /\ Queues'[a] = Tail(answers[w]) /\ Queues'[b] = held'
      BY <2>3, QueuesAre
    <3>2. \A p \in Places : p \notin {a, b} => Queues'[p] = Queues[p]
      BY <1>2, <2>3, Others DEF netVars
    <3> HIDE DEF a, b
    <3>3. /\ Queues[a] \in Seq(Routed) /\ Queues[a] # <<>> /\ Queues[b] \in Seq(Routed)
          /\ m.client = Head(Queues[a]).client
          /\ Queues'[a] = Tail(Queues[a]) /\ Queues'[b] = Append(Queues[b], m)
      BY <1>4, <2>1, <2>5, <3>1 DEF m
    <3>4. Located /\ lost' = lost /\ req' = req
      BY <1>2 DEF XInv
    <3>5. QED
      BY <2>2, <3>1, <3>2, <3>3, <3>4, MovedLocated
  <2>10. QED
    BY <2>7, <2>8, <2>9 DEF XInv
<1>5. QED
  BY <1>3, <1>4 DEF FromDealer

(* The number finds the line of the one who asked. *)
LEMMA ToRouterStep ==
    ASSUME Sizes, XInv, ToRouter
    PROVE  XInv'
<1> DEFINE m == held[1]
           k == m.id
           q == [client |-> m.client]
           a == <<"held", 0>>
<1>1. at = "to router" /\ held # <<>> /\ held \in Seq(Routed) /\ Len(held) <= 1
  BY DEF XInv, Types, WorkTypes, HeldOK, ToRouter
<1>2. held = <<m>> /\ m \in Routed /\ Head(held) = m /\ Tail(held) = <<>>
  BY <1>1, Single
<1>3. /\ Senders(held) = {m.client} /\ Elems(held) = {m} /\ Elems(<<>>) = {}
      /\ k \in Ids /\ q \in Message /\ q.client = m.client /\ m.client \in Clients
  BY <1>2, OneMessage, NoMessage DEF Routed, Message
<1>4. /\ UNCHANGED <<req, line, inbox, ids, workVars, faults>>
      /\ held' = <<>> /\ held' \in Seq(Routed) /\ Len(held') <= 1
  <2>1. UNCHANGED <<req, line, inbox, ids, workVars, faults>> /\ held' = <<>>
    BY DEF ToRouter
  <2>2. Len(held') = 0 /\ held' \in Seq(Routed)
    BY <2>1, NoMessage
  <2>3. QED
    BY <2>1, <2>2
<1>5. at' = "second" /\ UNCHANGED <<service, running, finish, owner>>
  BY DEF ToRouter, Goto
<1>6. /\ a \in Places /\ Queues[a] \in Seq(Routed) /\ Queues[a] # <<>> /\ Head(Queues[a]) = m
      /\ Queues'[a] = Tail(Queues[a])
  BY <1>1, <1>2, <1>4, QueuesAre
<1>7. \/ Lose(held) /\ UNCHANGED outbox
      \/ /\ \E l \in Lines : line[l].id = k
         /\ outbox' = [outbox EXCEPT ![k] = Append(@, q)] /\ UNCHANGED lost
  BY DEF ToRouter
<1> HIDE DEF a
<1>8. Routing' \subseteq Routing /\ m \in Routing
  BY <1>3, <1>4, RoutingHas, RoutingWithin DEF workVars
<1> HIDE DEF m, k, q
<1>9. WorkTypes' /\ LifeTypes' /\ HeldOK' /\ RepOK'
  <2>1. WorkTypes'
    BY <1>4 DEF XInv, Types, WorkTypes, workVars
  <2>2. LifeTypes'
    BY <1>5 DEF XInv, Types, LifeTypes
  <2>3. HeldOK' /\ RepOK'
    BY <1>1, <1>4, <1>5 DEF XInv, HeldOK, RepOK, workVars
  <2>4. QED
    BY <2>1, <2>2, <2>3
<1>10. CASE Lose(held) /\ UNCHANGED outbox
  <2>1. UNCHANGED netVars
    BY <1>4, <1>10 DEF netVars
  <2>2. NetTypes' /\ Numbered' /\ Tagged' /\ UnusedOK'
    BY <1>4, <1>8, <2>1, NetStill
  <2>3. lost' = lost \cup {m.client}
    BY <1>3, <1>10 DEF Lose
  <2>4. ReqTypes'
    BY <1>3, <1>4, <2>3 DEF XInv, Types, ReqTypes
  <2>5. \A p \in Places : p \notin {a} => Queues'[p] = Queues[p]
    BY <1>4, <1>10, Others DEF workVars, a
  <2>6. Located'
    BY <1>4, <1>6, <2>3, <2>5, LostLocated DEF XInv
  <2>7. QED
    BY <1>9, <2>2, <2>4, <2>6 DEF XInv, Types
<1>11. CASE /\ \E l \in Lines : line[l].id = k
            /\ outbox' = [outbox EXCEPT ![k] = Append(@, q)] /\ UNCHANGED lost
  <2> DEFINE b == <<"outbox", k>>
  <2>1. outbox \in [Ids -> Seq(Message)] /\ outbox[k] \in Seq(Message)
    BY <1>3 DEF XInv, Types, NetTypes
  <2>2. /\ Append(outbox[k], q) \in Seq(Message)
        /\ Elems(Append(outbox[k], q)) = Elems(outbox[k]) \cup {q}
    BY <1>3, <2>1, OneMore
  <2>3. /\ outbox' \in [Ids -> Seq(Message)] /\ outbox'[k] = Append(outbox[k], q)
        /\ \A j \in Ids : j # k => outbox'[j] = outbox[j]
    BY <1>3, <1>11, <2>1, <2>2
  <2>4. NetTypes' /\ ReqTypes' /\ UnusedOK'
    BY <1>4, <1>11, <2>3 DEF XInv, Types, NetTypes, ReqTypes, UnusedOK
  <2>5. Numbered'
    <3>1. ids \in Nat /\ faults \in Nat /\ Cardinality(Linked) \in Nat /\ k \in Nat
      BY <1>3, Finite DEF XInv
    <3>2. k <= ids /\ \A r \in Routing' : r.id <= ids
      BY <1>8 DEF XInv, Numbered, k
    <3>3. \A j \in Ids : j > ids => j # k
      BY <3>1, <3>2
    <3>4. \A j \in Ids : j > ids => inbox'[j] = <<>> /\ outbox'[j] = <<>>
      BY <1>4, <2>3, <3>3 DEF XInv, Numbered
    <3>5. QED
      BY <1>4, <3>1, <3>2, <3>4, StillNumbered DEF XInv
  <2>6. Tagged'
    <3>1. line' = line /\ inbox' = inbox
      BY <1>4
    <3>2. ASSUME NEW j \in Lines, line[j].id # 0, NEW r \in Elems(outbox'[line[j].id])
          PROVE  r.client = line[j].client
      <4>1. line[j].id \in Ids
        BY <3>2, OneLine
      <4>2. CASE line[j].id = k
        <5>1. m.client = line[j].client
          BY <1>8, <3>2, <4>2, TaggedHere DEF XInv, k
        <5>2. r \in Elems(outbox[line[j].id]) \/ r = q
          BY <2>2, <2>3, <3>2, <4>2
        <5>3. QED
          BY <1>3, <3>2, <5>1, <5>2, TaggedHere DEF XInv
      <4>3. CASE line[j].id # k
        BY <2>3, <3>2, <4>1, <4>3, TaggedHere DEF XInv
      <4>4. QED
        BY <4>2, <4>3
    <3>3. \A j \in Lines : line[j].id # 0 =>
             \A r \in Routing' : r.id = line[j].id => r.client = line[j].client
      BY <1>8, TaggedHere DEF XInv
    <3>4. QED
      BY <3>1, <3>2, <3>3, StillTagged, TaggedHere DEF XInv
  <2>7. /\ b \in Places /\ a # b /\ Queues[b] = outbox[k] /\ Queues'[b] = outbox'[k]
    BY <1>3, QueuesAre DEF a
  <2>8. \A p \in Places : p \notin {a, b} => Queues'[p] = Queues[p]
    BY <1>4, <2>3, Others DEF workVars, a
  <2> HIDE DEF b
  <2>9. Queues[b] \in Seq(Message) /\ Queues'[b] = Append(Queues[b], q)
    BY <2>1, <2>3, <2>7
  <2>10. q.client = Head(Queues[a]).client /\ Located /\ lost' = lost /\ req' = req
    BY <1>3, <1>4, <1>6, <1>11 DEF XInv
  <2>11. Located'
    BY <1>3, <1>6, <2>7, <2>8, <2>9, <2>10, MovedLocated, SMTT(30)
  <2>12. QED
    BY <1>9, <2>4, <2>5, <2>6, <2>11 DEF XInv, Types
<1>12. QED
  BY <1>7, <1>10, <1>11

-----------------------------------------------------------------------------
(* The steps of the workers. *)

LEMMA JoinStep ==
    ASSUME Sizes, XInv, NEW w \in Workers, Join(w)
    PROVE  XInv'
<1>1. /\ UNCHANGED <<lifeVars, req, netVars, held, given, answers, faults, lost>>
      /\ rep[w].state = "away" /\ rep' = [rep EXCEPT ![w].state = "ready"]
  BY DEF Join
<1>2. rep \in [Workers -> RepType]
  BY DEF XInv, Types, WorkTypes
<1>3. /\ rep' \in [Workers -> RepType] /\ rep'[w].state = "ready"
      /\ \A v \in Workers : /\ rep'[v].request = rep[v].request
                            /\ v # w => rep'[v].state = rep[v].state
  BY <1>1, <1>2 DEF RepType
<1>4. Routing' \subseteq Routing
  BY <1>1, <1>3, RoutingHas, RoutingWithin
<1>5. NetTypes' /\ Numbered' /\ Tagged' /\ UnusedOK'
  BY <1>1, <1>4, NetStill
<1>6. Types' /\ HeldOK'
  BY <1>1, <1>3, <1>5 DEF XInv, Types, WorkTypes, LifeTypes, ReqTypes, HeldOK, lifeVars, netVars
<1>7. RepOK'
  BY <1>1, <1>3 DEF XInv, RepOK
<1>8. Located'
  <2>1. \A n \in Places : Queues'[n] = Queues[n]
    BY <1>1, <1>3, AllTheSame DEF netVars
  <2>2. QED
    BY <1>1, <2>1, StillLocated DEF XInv
<1>9. QED
  BY <1>5, <1>6, <1>7, <1>8 DEF XInv

LEMMA TakeStep ==
    ASSUME Sizes, XInv, NEW w \in Workers, TakeRequest(w)
    PROVE  XInv'
<1> DEFINE m == Head(given[w])
<1>1. /\ UNCHANGED <<lifeVars, req, netVars, held, answers, faults, lost>>
      /\ rep[w].state = "ready" /\ given[w] # <<>> /\ given' = [given EXCEPT ![w] = Tail(@)]
      /\ rep' = [rep EXCEPT ![w] = [state |-> "busy", request |-> <<m>>]]
  BY DEF TakeRequest
<1>2. /\ given \in [Workers -> Seq(Routed)] /\ given[w] \in Seq(Routed)
      /\ rep \in [Workers -> RepType] /\ rep[w].request = <<>>
  BY <1>1 DEF XInv, Types, WorkTypes, RepOK
<1>3. /\ Tail(given[w]) \in Seq(Routed) /\ m \in Routed
      /\ Elems(given[w]) = Elems(Tail(given[w])) \cup {m}
  BY <1>1, <1>2, OneLess
<1> DEFINE x == <<m>>
<1>4. /\ x = Append(<<>>, m) /\ x \in Seq(Routed) /\ Len(x) = 1
      /\ Elems(x) = {m} /\ <<>> \in Seq(Routed)
  BY <1>3, First, OneMessage, NoMessage
<1> HIDE DEF m, x
<1>5. /\ given' \in [Workers -> Seq(Routed)] /\ given'[w] = Tail(given[w])
      /\ \A v \in Workers : v # w => given'[v] = given[v]
  BY <1>1, <1>2, <1>3
<1>6. /\ rep' \in [Workers -> RepType] /\ rep'[w].state = "busy" /\ rep'[w].request = x
      /\ \A v \in Workers : v # w => rep'[v] = rep[v]
  BY <1>1, <1>2, <1>4 DEF RepType, x
<1>7. Routing' \subseteq Routing
  <2>1. m \in Routing /\ \A v \in Workers : Elems(given'[v]) \subseteq Elems(given[v])
    BY <1>3, <1>5, RoutingHas
  <2>2. \A v \in Workers : Elems(rep'[v].request) \subseteq Routing
    BY <1>4, <1>6, <2>1, RoutingHas
  <2>3. QED
    BY <1>1, <2>1, <2>2, RoutingHas, RoutingWithin
<1>8. NetTypes' /\ Numbered' /\ Tagged' /\ UnusedOK'
  BY <1>1, <1>7, NetStill
<1>9. Types' /\ HeldOK'
  BY <1>1, <1>5, <1>6, <1>8
     DEF XInv, Types, WorkTypes, LifeTypes, ReqTypes, HeldOK, lifeVars, netVars
<1>10. RepOK'
  BY <1>4, <1>6 DEF XInv, RepOK
<1>11. Located'
  <2> DEFINE a == <<"given", w>>
             b == <<"request", w>>
  <2>1. /\ a \in Places /\ b \in Places /\ a # b
        /\ Queues[a] = given[w] /\ Queues[b] = rep[w].request
        /\ Queues'[a] = Tail(given[w]) /\ Queues'[b] = x
    BY <1>5, <1>6, QueuesAre
  <2>2. \A p \in Places : p \notin {a, b} => Queues'[p] = Queues[p]
    BY <1>1, <1>5, <1>6, Others DEF netVars
  <2> HIDE DEF a, b
  <2>3. /\ Queues[a] \in Seq(Routed) /\ Queues[a] # <<>> /\ Queues[b] \in Seq(Routed)
        /\ m.client = Head(Queues[a]).client
        /\ Queues'[a] = Tail(Queues[a]) /\ Queues'[b] = Append(Queues[b], m)
    BY <1>1, <1>2, <1>4, <2>1 DEF m
  <2>4. Located /\ lost' = lost /\ req' = req
    BY <1>1 DEF XInv
  <2>5. QED
    BY <1>3, <2>1, <2>2, <2>3, <2>4, MovedLocated, SMTT(30)
<1>12. QED
  BY <1>8, <1>9, <1>10, <1>11 DEF XInv

(* A busy worker has one request, which is its answer. *)
LEMMA AnswerStep ==
    ASSUME Sizes, XInv, NEW w \in Workers, Answer(w)
    PROVE  XInv'
<1> DEFINE r == rep[w].request
           m == r[1]
<1>1. /\ UNCHANGED <<lifeVars, req, netVars, held, given, faults, lost>>
      /\ rep[w].state = "busy" /\ answers' = [answers EXCEPT ![w] = @ \o r]
      /\ rep' = [rep EXCEPT ![w] = [state |-> "ready", request |-> <<>>]]
  BY DEF Answer
<1>2. /\ answers \in [Workers -> Seq(Routed)] /\ answers[w] \in Seq(Routed)
      /\ rep \in [Workers -> RepType] /\ r \in Seq(Routed) /\ Len(r) = 1
  BY <1>1 DEF XInv, Types, WorkTypes, RepOK, RepType
<1> HIDE DEF r
<1>3. r # <<>> /\ Len(r) <= 1
  <2>1. Len(r) = 1 /\ Len(<<>>) = 0
    BY <1>2, NoMessage
  <2>2. QED
    BY <2>1
<1>4. r = <<m>> /\ m \in Routed /\ Head(r) = m /\ Tail(r) = <<>>
  BY <1>2, <1>3, Single
<1> HIDE DEF m
<1>5. answers[w] \o r = Append(answers[w], m)
  BY <1>2, <1>4
<1>6. Elems(r) = {m} /\ Elems(<<>>) = {} /\ <<>> \in Seq(Routed)
  BY <1>4, OneMessage, NoMessage
<1> DEFINE x == Append(answers[w], m)
<1>7. x \in Seq(Routed) /\ Elems(x) = Elems(answers[w]) \cup {m}
  BY <1>2, <1>4, OneMore
<1>8. answers' = [answers EXCEPT ![w] = x]
  BY <1>1, <1>5
<1> HIDE DEF x
<1>9. /\ answers' \in [Workers -> Seq(Routed)] /\ answers'[w] = x
      /\ \A v \in Workers : v # w => answers'[v] = answers[v]
  BY <1>2, <1>7, <1>8
<1>10. /\ rep' \in [Workers -> RepType] /\ rep'[w].state = "ready" /\ rep'[w].request = <<>>
       /\ \A v \in Workers : v # w => rep'[v] = rep[v]
  BY <1>1, <1>2, <1>6 DEF RepType
<1>11. Routing' \subseteq Routing
  <2>1. m \in Routing
    BY <1>6, RoutingHas DEF r
  <2>2. \A v \in Workers : /\ Elems(answers'[v]) \subseteq Routing
                           /\ Elems(rep'[v].request) \subseteq Routing
    BY <1>6, <1>7, <1>9, <1>10, <2>1, RoutingHas
  <2>3. QED
    BY <1>1, <2>2, RoutingHas, RoutingWithin
<1>12. NetTypes' /\ Numbered' /\ Tagged' /\ UnusedOK'
  BY <1>1, <1>11, NetStill
<1>13. Types' /\ HeldOK'
  BY <1>1, <1>9, <1>10, <1>12
     DEF XInv, Types, WorkTypes, LifeTypes, ReqTypes, HeldOK, lifeVars, netVars
<1>14. RepOK'
  BY <1>10 DEF XInv, RepOK
<1>15. Located'
  <2> DEFINE a == <<"request", w>>
             b == <<"answers", w>>
  <2>1. /\ a \in Places /\ b \in Places /\ a # b
        /\ Queues[a] = r /\ Queues[b] = answers[w]
        /\ Queues'[a] = <<>> /\ Queues'[b] = x
    BY <1>9, <1>10, QueuesAre DEF r
  <2>2. \A p \in Places : p \notin {a, b} => Queues'[p] = Queues[p]
    BY <1>1, <1>9, <1>10, Others DEF netVars
  <2> HIDE DEF a, b
  <2>3. /\ Queues[a] \in Seq(Routed) /\ Queues[a] # <<>> /\ Queues[b] \in Seq(Routed)
        /\ m.client = Head(Queues[a]).client
        /\ Queues'[a] = Tail(Queues[a]) /\ Queues'[b] = Append(Queues[b], m)
    BY <1>2, <1>3, <1>4, <2>1 DEF x
  <2>4. Located /\ lost' = lost /\ req' = req
    BY <1>1 DEF XInv
  <2>5. QED
    BY <1>4, <2>1, <2>2, <2>3, <2>4, MovedLocated
<1>16. QED
  BY <1>12, <1>13, <1>14, <1>15 DEF XInv

LEMMA CrashStep ==
    ASSUME Sizes, XInv, NEW w \in Workers, Crash(w)
    PROVE  XInv'
<1> DEFINE r == rep[w].request
<1>1. /\ UNCHANGED <<lifeVars, req, netVars, held>>
      /\ faults < MaxFaults /\ faults' = faults + 1
      /\ given' = [given EXCEPT ![w] = <<>>]
      /\ rep' = [rep EXCEPT ![w] = [state |-> "away", request |-> <<>>]]
  BY DEF Crash, Fault
<1>2. /\ answers \in [Workers -> Seq(Routed)] /\ answers[w] \in Seq(Routed)
      /\ given \in [Workers -> Seq(Routed)] /\ given[w] \in Seq(Routed)
      /\ rep \in [Workers -> RepType] /\ r \in Seq(Routed)
  BY DEF XInv, Types, WorkTypes, RepType
<1>3. PICK n \in 0..Len(answers[w]) :
         /\ answers' = [answers EXCEPT ![w] = SubSeq(@, 1, n)]
         /\ Lose(given[w] \o rep[w].request \o SubSeq(answers[w], n + 1, Len(answers[w])))
  BY DEF Crash
<1> DEFINE s == SubSeq(answers[w], 1, n)
           t == SubSeq(answers[w], n + 1, Len(answers[w]))
<1>4. /\ s \in Seq(Routed) /\ t \in Seq(Routed)
      /\ Senders(answers[w]) = Senders(s) \cup Senders(t)
      /\ Elems(answers[w]) = Elems(s) \cup Elems(t)
      /\ \A c : Once(answers[w], c) => /\ Once(s, c) /\ Once(t, c)
                                       /\ c \notin Senders(s) \cap Senders(t)
  BY <1>2, Parts
<1>5. answers' = [answers EXCEPT ![w] = s] /\ lost' = lost \cup Senders(given[w] \o r \o t)
  BY <1>3 DEF Lose
<1> HIDE DEF r, s, t
<1>6. given[w] \o r \in Seq(Routed) /\ Senders(given[w] \o r) = Senders(given[w]) \cup Senders(r)
  BY <1>2, Both
<1> DEFINE gone == Senders(given[w]) \cup Senders(r) \cup Senders(t)
<1>7. lost' = lost \cup gone /\ gone \subseteq Clients
  <2>1. Senders(given[w] \o r \o t) = gone
    <3> DEFINE u == given[w] \o r
    <3> HIDE DEF u
    <3>1. u \in Seq(Routed) /\ Senders(u) = Senders(given[w]) \cup Senders(r)
      BY <1>6 DEF u
    <3>2. Senders(u \o t) = Senders(u) \cup Senders(t)
      BY <1>4, <3>1, Both
    <3>3. QED
      BY <3>1, <3>2 DEF u
  <2>2. gone \subseteq Clients
    BY <1>2, <1>4, SendersTyped
  <2>3. QED
    BY <1>5, <2>1, <2>2
<1> HIDE DEF gone
<1>8. <<>> \in Seq(Routed) /\ Elems(<<>>) = {} /\ Senders(<<>>) = {} /\ \A c : Once(<<>>, c)
  BY NoMessage
<1>9. /\ given' \in [Workers -> Seq(Routed)] /\ given'[w] = <<>>
      /\ \A v \in Workers : v # w => given'[v] = given[v]
  BY <1>1, <1>2, <1>8
<1>10. /\ answers' \in [Workers -> Seq(Routed)] /\ answers'[w] = s
       /\ \A v \in Workers : v # w => answers'[v] = answers[v]
  BY <1>2, <1>4, <1>5
<1>11. /\ rep' \in [Workers -> RepType] /\ rep'[w].state = "away" /\ rep'[w].request = <<>>
       /\ \A v \in Workers : v # w => rep'[v] = rep[v]
  BY <1>1, <1>2, <1>8 DEF RepType
<1>12. Routing' \subseteq Routing
  <2>1. \A v \in Workers : /\ Elems(given'[v]) \subseteq Routing
                           /\ Elems(answers'[v]) \subseteq Routing
                           /\ Elems(rep'[v].request) \subseteq Routing
    BY <1>4, <1>8, <1>9, <1>10, <1>11, RoutingHas
  <2>2. QED
    BY <1>1, <2>1, RoutingHas, RoutingWithin
<1>13. NetTypes' /\ Numbered' /\ Tagged' /\ UnusedOK'
  BY <1>1, <1>12, NetStill
<1>14. Types' /\ HeldOK'
  <2>1. faults \in Nat /\ MaxFaults \in Nat
    BY Finite DEF XInv
  <2>2. faults' \in 0..MaxFaults /\ lost' \subseteq Clients
    BY <1>1, <1>7, <2>1 DEF XInv, Types, ReqTypes
  <2>3. WorkTypes' /\ LifeTypes' /\ ReqTypes' /\ HeldOK'
    BY <1>1, <1>9, <1>10, <1>11, <2>2
       DEF XInv, Types, WorkTypes, LifeTypes, ReqTypes, HeldOK, lifeVars, netVars
  <2>4. QED
    BY <1>13, <2>3 DEF Types
<1>15. RepOK'
  BY <1>11 DEF XInv, RepOK
<1>16. Located'
  <2> DEFINE a == <<"given", w>>
             b == <<"answers", w>>
             d == <<"request", w>>
  <2>1. /\ a \in Places /\ b \in Places /\ d \in Places /\ a # b /\ a # d /\ b # d
        /\ Queues[a] = given[w] /\ Queues[b] = answers[w] /\ Queues[d] = r
        /\ Queues'[a] = <<>> /\ Queues'[b] = s /\ Queues'[d] = <<>>
    BY <1>9, <1>10, <1>11, QueuesAre DEF r
  <2>2. \A p \in Places : p \notin {a, b, d} => Queues'[p] = Queues[p]
    BY <1>1, <1>9, <1>10, <1>11, Others DEF netVars
  <2> HIDE DEF a, b, d
  <2> SUFFICES ASSUME NEW c \in Clients PROVE Alone(Queues', c, req'[c].waiting /\ c \notin lost')
    BY DEF Located
  <2> DEFINE x == req[c].waiting /\ c \notin lost
  <2>3. Alone(Queues, c, x)
    BY DEF XInv, Located
  <2>4. x /\ c \notin gone <=> req'[c].waiting /\ c \notin lost'
    BY <1>1, <1>7
  <2> HIDE DEF x
  <2>5. Once(Queues[a], c) /\ Once(Queues[b], c) /\ Once(Queues[d], c)
    BY <2>1, <2>3 DEF Alone
  <2>6. \A p \in Places : /\ Once(Queues[p], c) => Once(Queues'[p], c)
                          /\ c \in Senders(Queues'[p]) => c \in Senders(Queues[p])
                          /\ c \in Senders(Queues[p]) => c \in Senders(Queues'[p]) \/ c \in gone
    BY <1>4, <1>8, <2>1, <2>2, <2>5 DEF gone
  <2>7. c \in gone => \E p \in Places : c \in Senders(Queues[p]) /\ c \notin Senders(Queues'[p])
    BY <1>4, <1>8, <2>1, <2>5 DEF gone
  <2>8. Alone(Queues', c, x /\ c \notin gone)
    BY <2>3, <2>6, <2>7, Dropped
  <2>9. QED
    BY <2>4, <2>8, Relabelled
<1>17. QED
  BY <1>13, <1>14, <1>15, <1>16 DEF XInv

-----------------------------------------------------------------------------
(* Steps that leave the exchange as it is. *)
LEMMA LifeStep ==
    ASSUME Sizes, XInv, UNCHANGED Rest,
           Setup \/ Destroy \/ Destroyed \/ Enter \/ Leave \/ UNCHANGED lifeVars
    PROVE  XInv'
<1>1. UNCHANGED <<req, netVars, held, given, answers, rep, faults, lost>>
  BY DEF Rest, workVars
<1>2. Routing' \subseteq Routing
  BY <1>1, StillRouting DEF workVars
<1>3. NetTypes' /\ Numbered' /\ Tagged' /\ UnusedOK'
  BY <1>1, <1>2, NetStill
<1>4. LifeTypes' /\ HeldOK'
  BY <1>1 DEF XInv, Types, LifeTypes, HeldOK, Setup, Destroy, Destroyed, Enter, Leave, lifeVars
<1>5. WorkTypes' /\ ReqTypes' /\ RepOK'
  BY <1>1 DEF XInv, Types, WorkTypes, ReqTypes, RepOK, netVars
<1>6. Located'
  <2>1. \A n \in Places : Queues'[n] = Queues[n]
    BY <1>1, AllTheSame DEF netVars
  <2>2. QED
    BY <1>1, <2>1, StillLocated DEF XInv
<1>7. QED
  BY <1>3, <1>4, <1>5, <1>6 DEF XInv, Types

LEMMA ExchangeInit ==
    ASSUME Sizes, ExInit
    PROVE  XInv
<1>1. <<>> \in Seq(Message) /\ <<>> \in Seq(Routed) /\ Len(<<>>) = 0
  BY NoMessage
<1>2. Senders(<<>>) = {} /\ Elems(<<>>) = {} /\ \A c : Once(<<>>, c)
  BY NoMessage
<1>3. NoLine \in LineType /\ ~NoLine.used /\ ~NoLine.held /\ NoLine.id = 0
      /\ NoLine.out = <<>> /\ NoLine.in = <<>>
  BY <1>1 DEF NoLine, LineType, Sizes
<1>4. Types
  <2>1. NetTypes
    BY <1>1, <1>3 DEF ExInit, NetTypes
  <2>2. WorkTypes
    BY <1>1 DEF ExInit, WorkTypes, RepType
  <2>3. LifeTypes
    BY DEF ExInit, LifeInit, LifeTypes
  <2>4. ReqTypes
    BY DEF ExInit, ReqTypes, Sizes
  <2>5. QED
    BY <2>1, <2>2, <2>3, <2>4 DEF Types
<1>5. Routing = {}
  BY <1>2 DEF ExInit, Routing
<1>6. Numbered
  <2>1. Cardinality(Linked) \in Nat
    BY <1>4, Finite
  <2>2. /\ \A l \in Lines : line[l].id = 0
        /\ \A k \in Ids : inbox[k] = <<>> /\ outbox[k] = <<>>
    BY <1>3 DEF ExInit
  <2>3. ids = 0 /\ faults = 0
    BY DEF ExInit
  <2>4. QED
    BY <1>5, <2>1, <2>2, <2>3 DEF Numbered
<1>7. Tagged
  BY <1>2, <1>3 DEF ExInit, Tagged
<1>8. HeldOK /\ RepOK /\ UnusedOK
  BY <1>3 DEF ExInit, LifeInit, HeldOK, RepOK, UnusedOK
<1>9. Located
  <2>1. \A n \in Places : Queue(n) = <<>>
    <3>1. /\ \A l \in Lines : line[l].out = <<>> /\ line[l].in = <<>>
          /\ \A k \in Ids : inbox[k] = <<>> /\ outbox[k] = <<>>
          /\ \A w \in Workers : given[w] = <<>> /\ answers[w] = <<>> /\ rep[w].request = <<>>
          /\ held = <<>>
      BY <1>3 DEF ExInit
    <3>2. QED
      BY <3>1 DEF Places, Queue
  <2>2. \A n \in Places : Queues[n] = <<>>
    BY <2>1 DEF Queues
  <2>3. \A c \in Clients : ~req[c].waiting
    BY DEF ExInit
  <2>4. QED
    BY <1>2, <2>2, <2>3 DEF Located, Alone
<1>10. QED
  BY <1>4, <1>6, <1>7, <1>8, <1>9 DEF XInv

LEMMA ExchangeStep ==
    ASSUME Sizes, XInv, [ExNext]_exVars
    PROVE  XInv'
<1>1. CASE UNCHANGED exVars
  <2>1. UNCHANGED Rest /\ UNCHANGED lifeVars
    BY <1>1 DEF exVars, Rest
  <2>2. QED
    BY <2>1, LifeStep
<1>2. CASE Owner \/ Closed
  BY <1>2, LifeStep DEF Owner, Closed
<1>3. CASE Thread
  BY <1>3, LifeStep, FromRouterStep, ToDealerStep, FromDealerStep, ToRouterStep DEF Thread
<1>4. ASSUME NEW c \in Clients, SendRequest(c) \/ ReceiveAnswer(c) \/ Connect(c) \/ Disconnect(c)
      PROVE  XInv'
  BY <1>4, SendStep, ReceiveStep, ConnectStep, DisconnectStep
<1>5. ASSUME NEW l \in Lines, Link(l) \/ Transmit(l) \/ Return(l) \/ BreakLine(l)
      PROVE  XInv'
  BY <1>5, LinkStep, TransmitStep, ReturnStep, BreakStep
<1>6. ASSUME NEW w \in Workers, Join(w) \/ TakeRequest(w) \/ Answer(w) \/ Crash(w)
      PROVE  XInv'
  BY <1>6, JoinStep, TakeStep, AnswerStep, CrashStep
<1>7. QED
  BY <1>1, <1>2, <1>3, <1>4, <1>5, <1>6 DEF ExNext

-----------------------------------------------------------------------------
(* The inductive invariant: every message there is belongs to a requester  *)
(* that waits and is in one queue of those a request and its answer go     *)
(* through; messages on a connection, or with its number, are of the one   *)
(* whose line it is, and numbers are not given out twice.                  *)
THEOREM ExchangeInvariant == Sizes => (ExSpec => []XInv)
<1> SUFFICES ASSUME Sizes PROVE ExSpec => []XInv
  OBVIOUS
<1>1. ExInit => XInv
  BY ExchangeInit
<1>2. XInv /\ [ExNext]_exVars => XInv'
  BY ExchangeStep
<1>3. QED
  BY <1>1, <1>2, PTL DEF ExSpec

(* However connections break, workers die and requesters disconnect: a     *)
(* requester that waits has its request or the answer in one place, unless *)
(* it was dropped where the code drops messages, and what comes back is    *)
(* the answer to the one who asked (req_t, router_t::identify_peer, the    *)
(* loop of Broker::setup, rep_t).                                          *)
THEOREM RequestsCounted == Sizes => (ExSpec => []RequestsAccounted)
<1> SUFFICES ASSUME Sizes PROVE ExSpec => []RequestsAccounted
  OBVIOUS
<1>1. ASSUME Types PROVE ExTypeOK
  BY <1>1 DEF Types, NetTypes, WorkTypes, LifeTypes, ReqTypes, ExTypeOK, LineType, RepType
<1>2. ASSUME XInv PROVE Accounted
  <2>1. Matched
    BY <1>2, TaggedHere DEF XInv, Matched, Elems
  <2>2. ASSUME NEW c \in Clients
        PROVE  Copies(c) = IF req[c].waiting /\ c \notin lost THEN 1 ELSE 0
    BY <1>2, Counted DEF XInv, Located
  <2>3. QED
    BY <2>1, <2>2 DEF Accounted
<1>3. XInv => RequestsAccounted
  BY <1>1, <1>2 DEF XInv, RequestsAccounted
<1>4. QED
  BY <1>3, ExchangeInvariant, PTL

=============================================================================
