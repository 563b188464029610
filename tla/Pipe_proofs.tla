---------------------------- MODULE Pipe_proofs ----------------------------
(***************************************************************************)
(* That no assertion of a pipe fails, that no command reaches an end that  *)
(* is deallocated, and that no end uses a ypipe that is, for any marks,    *)
(* messages and number of lost connections, whoever begins to terminate    *)
(* and whatever crosses the handshake.  The program raises a mark before   *)
(* it uses the pipe, and calls unbind of subscribers only.                 *)
(*                                                                         *)
(* PInv has two parts.  Good is about the pair of ends: ten states of the  *)
(* handshake (Shape), rows of commands in order, the ypipes each end has,  *)
(* which of them are deallocated, and frames that have an end.  Fits is    *)
(* about the session with an engine.  Each operator of Pipe has a lemma    *)
(* that it keeps Good (...Keeps), each action one that it keeps PInv       *)
(* (...Step).  Kin and Lax are the changes that a session notices little   *)
(* enough of to keep Fits.                                                 *)
(***************************************************************************)
EXTENDS Pipe, FiniteSetTheorems, TLAPS

Hypotheses ==
    /\ Careful
    /\ Unbinds \subseteq {"sub"}
    /\ Marks \subseteq Nat
    /\ MaxLosses \in Nat

-----------------------------------------------------------------------------
(* Types. *)

Frames == {"more", "end", "delimiter"}

Neutral == {"activate_read", "activate_write", "pipe_hwm"}

Commands == [type : Neutral \cup {"hiccup", "pipe_term", "pipe_term_ack", "term"}, arg : Int]

EndType ==
    [state : States, delay : BOOLEAN, inActive : BOOLEAN, outActive : BOOLEAN,
     in : 1..2 + MaxLosses, out : 0..2 + MaxLosses,
     hwm : Nat, lwm : Int, read : Nat, written : Int, peersRead : Int]

YpipeType == [draft : Seq(Frames), queue : Seq(Frames), asleep : BOOLEAN, freed : BOOLEAN]

PairType ==
    [ends : [Ends -> EndType], pipes : [1..2 + MaxLosses -> YpipeType],
     cmds : [Ends -> Seq(Commands)], failed : BOOLEAN]

-----------------------------------------------------------------------------
(* What is true of a pair of ends q that belongs to a socket of kind k.    *)

Has(s, type) == \E i \in 1..Len(s) : s[i].type = type

(* A row of commands: an end says nothing more about the pipe when it has  *)
(* acknowledged, and makes no new ypipe when it has asked to terminate.    *)
RowOK(s) ==
    \A i, j \in 1..Len(s) : i < j =>
        /\ s[i].type = "pipe_term_ack" => s[j].type = "term"
        /\ s[i].type = "pipe_term" => s[j].type \notin {"pipe_term", "hiccup"}
        /\ s[i].type = "hiccup" /\ s[j].type = "hiccup" => s[i].arg < s[j].arg

RowsOK(q) ==
    /\ \A e \in Ends : RowOK(q.cmds[e])
    /\ ~Has(q.cmds["socket"], "term") /\ ~Has(q.cmds["session"], "hiccup")

None(s) == ~Has(s, "pipe_term") /\ ~Has(s, "pipe_term_ack")
Asks(s) == Has(s, "pipe_term") /\ ~Has(s, "pipe_term_ack")
Acks(s) == ~Has(s, "pipe_term") /\ Has(s, "pipe_term_ack")
Both(s) == Has(s, "pipe_term") /\ Has(s, "pipe_term_ack")

(* The handshake: the states of e and of the other end, and what is under  *)
(* way to e and to the other.                                              *)
Shape(q, e) ==
    LET s == q.ends[e].state
        t == q.ends[Other(e)].state
        c == q.cmds[e]
        d == q.cmds[Other(e)]
    IN  \/ s = "active" /\ t = "active" /\ None(c) /\ None(d)
        \/ s = "term_req_sent1" /\ t \in {"active", "delimiter_received"} /\ None(c) /\ Asks(d)
        \/ s = "term_req_sent1" /\ t = "waiting_for_delimiter" /\ None(c) /\ None(d)
        \/ s = "term_req_sent1" /\ t = "term_ack_sent" /\ Acks(c) /\ None(d)
        \/ s = "gone" /\ t = "term_ack_sent" /\ None(c) /\ Acks(d)
        \/ s = "term_req_sent1" /\ t = "term_req_sent1" /\ Asks(c) /\ Asks(d)
        \/ s = "term_req_sent2" /\ t = "term_req_sent1" /\ None(c) /\ Both(d)
        \/ s = "term_req_sent2" /\ t = "term_req_sent2" /\ Acks(c) /\ Acks(d)
        \/ s = "gone" /\ t = "term_req_sent2" /\ None(c) /\ Acks(d)
        \/ s = "gone" /\ t = "gone" /\ None(c) /\ None(d)

ShapeOK(q) == \E e \in Ends : Shape(q, e)

(* Only the session is still told to terminate when its end is gone. *)
GoneOK(q) ==
    \A e \in Ends : q.ends[e].state = "gone" =>
        \A i \in 1..Len(q.cmds[e]) : q.cmds[e][i].type = "term"

Silent == {"term_ack_sent", "term_req_sent2", "gone"}

(* Which ypipes the ends have. *)
OutOK(q) ==
    /\ \A e \in Ends : q.ends[e].out = 0 <=> q.ends[e].state \in Silent
    /\ q.ends["socket"].in = 1 /\ q.ends["session"].out \in {0, 1}
    /\ q.ends["session"].in >= 2
    /\ q.ends["socket"].out # 0 => q.ends["socket"].out \in 2..q.ends["session"].in

(* The ypipes the session made and the socket has not heard of yet. *)
ChainOK(q) ==
    LET c == q.cmds["socket"]
        in == q.ends["session"].in
        out == q.ends["socket"].out
    IN  /\ \A i \in 1..Len(c) : c[i].type = "hiccup" =>
              /\ c[i].arg \in 3..in /\ c[i].arg > out /\ ~q.pipes[c[i].arg].freed
              /\ q.ends["socket"].state \notin Silent \cup {"waiting_for_delimiter"}
        /\ ~Has(c, "hiccup") => out \in {0, in}
        /\ Has(c, "hiccup") => \E i \in 1..Len(c) : c[i].type = "hiccup" /\ c[i].arg = in

(* Which of them are deallocated. *)
FreedOK(q) ==
    LET in == q.ends["session"].in
        out == q.ends["socket"].out
    IN  /\ out # 0 => ~q.pipes[out].freed
        /\ q.pipes[1].freed <=> q.ends["socket"].state = "gone"
        /\ q.pipes[in].freed <=> q.ends["session"].state = "gone"
        /\ in > 2 /\ out # 2 => q.pipes[2].freed
        /\ \A i \in in + 1..2 + MaxLosses : ~q.pipes[i].freed

(* Frames that a reader can find: no message without its end. *)
FramesOK(s) ==
    \A i \in 1..Len(s) : s[i] = "more" => i < Len(s) /\ s[i + 1] \in {"more", "end"}

YpipeOK(y, q, k, i) ==
    /\ \A j \in 1..Len(y.draft) : y.draft[j] = "more"
    /\ FramesOK(y.queue)
    /\ (\E j \in 1..Len(y.queue) : y.queue[j] = "delimiter") =>
          q.ends[IF i = 1 THEN "session" ELSE "socket"].state # "active"
    /\ k = "sub" /\ i >= 2 =>
          y.draft = <<>> /\ \A j \in 1..Len(y.queue) : y.queue[j] # "more"

YpipesOK(q, k) == \A i \in 1..2 + MaxLosses : YpipeOK(q.pipes[i], q, k, i)

Good(q, k) ==
    /\ q \in PairType
    /\ RowsOK(q) /\ ShapeOK(q) /\ GoneOK(q)
    /\ OutOK(q) /\ ChainOK(q) /\ FreedOK(q)
    /\ YpipesOK(q, k)
    /\ ~q.failed

(* The session is not told to terminate before its pipe's end is. *)
ToldFirst(q) ==
    LET c == q.cmds["session"] IN
    q.ends["session"].state \in {"active", "delimiter_received"} =>
        \A i \in 1..Len(c) : c[i].type = "term" =>
            \E j \in 1..i - 1 : c[j].type = "pipe_term"

(* With an engine g, a message half read or not, h, and l lost connections *)
(* a session that may be in the middle of a message waits for its end,     *)
(* which is there, and is told first what happens to the pipe.             *)
Fits(q, k, g, h, l) ==
    /\ g \in {"up", "down", "none"} /\ h \in BOOLEAN
    /\ l \in 0..MaxLosses /\ q.ends["session"].in <= 2 + l
    /\ k # "sub" /\ q.ends["session"].state \in {"active", "waiting_for_delimiter"} =>
          q.ends["session"].delay
    /\ h => g = "up" /\ k # "sub" /\ Readable(q, "session")
    /\ k # "sub" /\ g # "none" => ToldFirst(q)

PInv == Good(p, kind) /\ Fits(p, kind, engine, halfRead, losses)


-----------------------------------------------------------------------------
(* Ends, and rows of commands. *)

LEMMA Two ==
    /\ Ends = {"socket", "session"}
    /\ \A e \in Ends : Other(e) \in Ends /\ Other(e) # e /\ Other(Other(e)) = e
    /\ Other("socket") = "session" /\ Other("session") = "socket"
BY DEF Ends, Other

(* What a row holds when a command is sent. *)
LEMMA HasAppend ==
    ASSUME NEW s \in Seq(Commands), NEW c \in Commands, NEW t
    PROVE  /\ Append(s, c) \in Seq(Commands)
           /\ Has(Append(s, c), t) <=> Has(s, t) \/ c.type = t
<1>1. /\ Append(s, c) \in Seq(Commands) /\ Len(Append(s, c)) = Len(s) + 1
      /\ \A i \in 1..Len(s) : Append(s, c)[i] = s[i]
      /\ Append(s, c)[Len(s) + 1] = c
  OBVIOUS
<1>2. QED
  BY <1>1 DEF Has

(* What a row holds when its first command is taken. *)
LEMMA HasTail ==
    ASSUME NEW s \in Seq(Commands), s # <<>>, NEW t
    PROVE  /\ Head(s) \in Commands /\ Tail(s) \in Seq(Commands)
           /\ Has(s, t) <=> Head(s).type = t \/ Has(Tail(s), t)
<1>1. /\ Head(s) \in Commands /\ Tail(s) \in Seq(Commands) /\ Len(Tail(s)) = Len(s) - 1
      /\ Head(s) = s[1] /\ Len(s) \in Nat \ {0}
      /\ \A i \in 1..Len(s) - 1 : Tail(s)[i] = s[i + 1]
  OBVIOUS
<1>2. ASSUME Has(s, t) PROVE Head(s).type = t \/ Has(Tail(s), t)
  <2>1. PICK i \in 1..Len(s) : s[i].type = t
    BY <1>2 DEF Has
  <2>2. CASE i = 1
    BY <1>1, <2>1, <2>2
  <2>3. CASE i # 1
    <3>1. i - 1 \in 1..Len(s) - 1 /\ (i - 1) + 1 = i
      BY <1>1, <2>3
    <3>2. Tail(s)[i - 1] = s[i]
      BY <1>1, <3>1
    <3>3. QED
      BY <1>1, <2>1, <3>1, <3>2 DEF Has
  <2>4. QED
    BY <2>2, <2>3
<1>3. ASSUME Head(s).type = t \/ Has(Tail(s), t) PROVE Has(s, t)
  <2>1. 1 \in 1..Len(s) /\ \A i \in 1..Len(s) - 1 : i + 1 \in 1..Len(s)
    BY <1>1
  <2>2. QED
    BY <1>1, <1>3, <2>1 DEF Has
<1>4. QED
  BY <1>1, <1>2, <1>3

(* A command that its sender may still send leaves the row in order. *)
LEMMA RowAppend ==
    ASSUME NEW s \in Seq(Commands), NEW c \in Commands, RowOK(s),
           c.type = "term" \/ ~Has(s, "pipe_term_ack"),
           c.type \in {"pipe_term", "hiccup"} => ~Has(s, "pipe_term"),
           c.type = "hiccup" => \A i \in 1..Len(s) : s[i].type = "hiccup" => s[i].arg < c.arg
    PROVE  RowOK(Append(s, c))
<1>1. /\ Append(s, c) \in Seq(Commands) /\ Len(Append(s, c)) = Len(s) + 1
      /\ \A i \in 1..Len(s) : Append(s, c)[i] = s[i]
      /\ Append(s, c)[Len(s) + 1] = c
  OBVIOUS
<1> SUFFICES ASSUME NEW i \in 1..Len(s) + 1, NEW j \in 1..Len(s) + 1, i < j
             PROVE  LET a == Append(s, c)[i]
                        b == Append(s, c)[j]
                    IN  /\ a.type = "pipe_term_ack" => b.type = "term"
                        /\ a.type = "pipe_term" => b.type \notin {"pipe_term", "hiccup"}
                        /\ a.type = "hiccup" /\ b.type = "hiccup" => a.arg < b.arg
  BY <1>1 DEF RowOK
<1>2. i \in 1..Len(s) /\ (j \in 1..Len(s) \/ j = Len(s) + 1)
  OBVIOUS
<1>3. CASE j \in 1..Len(s)
  BY <1>1, <1>2, <1>3 DEF RowOK
<1>4. CASE j = Len(s) + 1
  BY <1>1, <1>2, <1>4 DEF Has
<1>5. QED
  BY <1>2, <1>3, <1>4

(* A row stays in order, and what its first command says of the rest. *)
LEMMA RowTail ==
    ASSUME NEW s \in Seq(Commands), s # <<>>, RowOK(s)
    PROVE  /\ RowOK(Tail(s))
           /\ Head(s).type = "pipe_term_ack" =>
                 \A i \in 1..Len(Tail(s)) : Tail(s)[i].type = "term"
           /\ Head(s).type = "pipe_term" =>
                 ~Has(Tail(s), "pipe_term") /\ ~Has(Tail(s), "hiccup")
           /\ Head(s).type = "hiccup" =>
                 \A i \in 1..Len(Tail(s)) : Tail(s)[i].type = "hiccup" =>
                     Head(s).arg < Tail(s)[i].arg
<1>1. /\ Tail(s) \in Seq(Commands) /\ Len(Tail(s)) = Len(s) - 1
      /\ Head(s) = s[1] /\ Len(s) \in Nat \ {0}
      /\ \A i \in 1..Len(s) - 1 : Tail(s)[i] = s[i + 1]
  OBVIOUS
<1>2. \A i \in 1..Len(s) - 1 : i + 1 \in 1..Len(s) /\ 1 < i + 1
  BY <1>1
<1>3. QED
  BY <1>1, <1>2 DEF RowOK, Has

-----------------------------------------------------------------------------
(* What is not part of the invariant may change. *)

Alike(q, n) ==
    /\ n \in PairType
    /\ n.cmds = q.cmds /\ n.failed = q.failed
    /\ \A e \in Ends : /\ n.ends[e].state = q.ends[e].state
                       /\ n.ends[e].in = q.ends[e].in /\ n.ends[e].out = q.ends[e].out
    /\ \A i \in 1..2 + MaxLosses : /\ n.pipes[i].draft = q.pipes[i].draft
                                   /\ n.pipes[i].queue = q.pipes[i].queue
                                   /\ n.pipes[i].freed = q.pipes[i].freed

(* The fields of a pair, one by one. *)
LEMMA Typed ==
    ASSUME NEW q \in PairType, NEW e \in Ends
    PROVE  /\ q.cmds[e] \in Seq(Commands)
           /\ q.ends[e].state \in States /\ q.ends[e].delay \in BOOLEAN
           /\ q.ends[e].in \in 1..2 + MaxLosses /\ q.ends[e].out \in 0..2 + MaxLosses
           /\ q.ends[e].inActive \in BOOLEAN
           /\ q.ends[e].hwm \in Nat /\ q.ends[e].lwm \in Int /\ q.ends[e].read \in Nat
           /\ q.ends[e].written \in Int /\ q.ends[e].peersRead \in Int
           /\ \A i \in 1..2 + MaxLosses :
                 /\ q.pipes[i].draft \in Seq(Frames) /\ q.pipes[i].queue \in Seq(Frames)
                 /\ q.pipes[i].freed \in BOOLEAN
           /\ q.failed \in BOOLEAN
BY DEF PairType, EndType, YpipeType


-----------------------------------------------------------------------------
(* Parts of a change: the ypipes are as before, an end is, a command is    *)
(* sent to e or taken by e.                                                *)

SamePipes(q, n) ==
    \A i \in 1..2 + MaxLosses : /\ n.pipes[i].draft = q.pipes[i].draft
                                /\ n.pipes[i].queue = q.pipes[i].queue
                                /\ n.pipes[i].freed = q.pipes[i].freed

SameEnd(q, n, e) ==
    /\ n.ends[e].state = q.ends[e].state
    /\ n.ends[e].in = q.ends[e].in /\ n.ends[e].out = q.ends[e].out

Sent(q, n, e, c) ==
    /\ n.cmds[e] = Append(q.cmds[e], c) /\ n.cmds[Other(e)] = q.cmds[Other(e)]

Taken(q, n, e) ==
    /\ q.cmds[e] # <<>>
    /\ n.cmds[e] = Tail(q.cmds[e]) /\ n.cmds[Other(e)] = q.cmds[Other(e)]

(* The ypipes' frames are as before, and no end becomes active. *)
LEMMA FramesKept ==
    ASSUME NEW k, NEW q, NEW n, YpipesOK(q, k),
           \A i \in 1..2 + MaxLosses : /\ n.pipes[i].draft = q.pipes[i].draft
                                       /\ n.pipes[i].queue = q.pipes[i].queue,
           \A e \in Ends : n.ends[e].state = "active" => q.ends[e].state = "active"
    PROVE  YpipesOK(n, k)
<1>1. /\ n.ends["socket"].state = "active" => q.ends["socket"].state = "active"
      /\ n.ends["session"].state = "active" => q.ends["session"].state = "active"
  BY Two
<1>2. SUFFICES ASSUME NEW i \in 1..2 + MaxLosses
               PROVE  YpipeOK(n.pipes[i], n, k, i)
  BY DEF YpipesOK
<1>3. YpipeOK(q.pipes[i], q, k, i)
  BY DEF YpipesOK
<1>4. n.pipes[i].draft = q.pipes[i].draft /\ n.pipes[i].queue = q.pipes[i].queue
  OBVIOUS
<1>5. QED
  BY <1>1, <1>3, <1>4 DEF YpipeOK

(* The same, with what is deallocated as before. *)
LEMMA YpipesKept ==
    ASSUME NEW k, NEW q, NEW n, YpipesOK(q, k), SamePipes(q, n),
           \A e \in Ends : n.ends[e].state = "active" => q.ends[e].state = "active"
    PROVE  YpipesOK(n, k)
BY FramesKept DEF SamePipes

SameHiccups(s, d) ==
    /\ \A i \in 1..Len(d) : d[i].type = "hiccup" => \E j \in 1..Len(s) : s[j] = d[i]
    /\ \A j \in 1..Len(s) : s[j].type = "hiccup" => \E i \in 1..Len(d) : s[j] = d[i]

(* No hiccup is added or lost by another command that is sent, *)
LEMMA HiccupsAppend ==
    ASSUME NEW s \in Seq(Commands), NEW c \in Commands, c.type # "hiccup"
    PROVE  SameHiccups(s, Append(s, c))
<1>1. /\ Len(Append(s, c)) = Len(s) + 1 /\ Append(s, c)[Len(s) + 1] = c /\ Len(s) \in Nat
      /\ \A i \in 1..Len(s) : i \in 1..Len(s) + 1 /\ Append(s, c)[i] = s[i]
  OBVIOUS
<1>2. \A i \in 1..Len(s) + 1 : i \in 1..Len(s) \/ i = Len(s) + 1
  BY <1>1
<1>3. QED
  BY <1>1, <1>2 DEF SameHiccups

(* What is left when the first command of a row is taken. *)
LEMMA RowTaken ==
    ASSUME NEW s \in Seq(Commands), s # <<>>
    PROVE  /\ Len(Tail(s)) = Len(s) - 1 /\ Len(s) \in Nat
           /\ \A i \in 1..Len(Tail(s)) : i + 1 \in 1..Len(s) /\ Tail(s)[i] = s[i + 1]
           /\ \A i \in 1..Len(s) : \/ s[i] = Head(s)
                                   \/ i - 1 \in 1..Len(Tail(s)) /\ Tail(s)[i - 1] = s[i]
<1>1. /\ Len(Tail(s)) = Len(s) - 1 /\ Head(s) = s[1] /\ Len(s) \in Nat \ {0}
      /\ \A i \in 1..Len(s) - 1 : Tail(s)[i] = s[i + 1]
  OBVIOUS
<1>2. ASSUME NEW i \in 1..Len(s), i # 1
      PROVE  i - 1 \in 1..Len(Tail(s)) /\ Tail(s)[i - 1] = s[i]
  <2>1. i - 1 \in 1..Len(s) - 1 /\ (i - 1) + 1 = i
    BY <1>1, <1>2
  <2>2. QED
    BY <1>1, <2>1
<1>3. \A i \in 1..Len(Tail(s)) : i + 1 \in 1..Len(s) /\ Tail(s)[i] = s[i + 1]
  BY <1>1
<1>4. QED
  BY <1>1, <1>2, <1>3

(* nor by another command that is taken. *)
LEMMA HiccupsTail ==
    ASSUME NEW s \in Seq(Commands), s # <<>>, Head(s).type # "hiccup"
    PROVE  SameHiccups(s, Tail(s))
BY RowTaken DEF SameHiccups

(* The new ypipes under way, when no hiccup is sent or taken. *)
LEMMA ChainKept ==
    ASSUME MaxLosses \in Nat, NEW q \in PairType, NEW n, ChainOK(q),
           n.ends["session"].in = q.ends["session"].in,
           n.ends["socket"].out = q.ends["socket"].out,
           q.ends["socket"].state \notin Silent \cup {"waiting_for_delimiter"} =>
               n.ends["socket"].state \notin Silent \cup {"waiting_for_delimiter"},
           \A i \in 3..q.ends["session"].in : n.pipes[i].freed = q.pipes[i].freed,
           SameHiccups(q.cmds["socket"], n.cmds["socket"])
    PROVE  ChainOK(n)
<1> USE DEF SameHiccups
<1> DEFINE s == q.cmds["socket"]
           d == n.cmds["socket"]
           in == q.ends["session"].in
           out == q.ends["socket"].out
<1>1. ASSUME NEW i \in 1..Len(d), d[i].type = "hiccup"
      PROVE  /\ d[i].arg \in 3..in /\ d[i].arg > out /\ ~n.pipes[d[i].arg].freed
             /\ n.ends["socket"].state \notin Silent \cup {"waiting_for_delimiter"}
  <2>1. PICK j \in 1..Len(s) : s[j] = d[i]
    BY <1>1
  <2>2. /\ s[j].arg \in 3..in /\ s[j].arg > out /\ ~q.pipes[s[j].arg].freed
        /\ q.ends["socket"].state \notin Silent \cup {"waiting_for_delimiter"}
    BY <1>1, <2>1 DEF ChainOK
  <2>3. QED
    BY <2>1, <2>2, SMTT(30)
<1>2. Has(d, "hiccup") <=> Has(s, "hiccup")
  BY SMTT(30) DEF Has
<1>3. Has(s, "hiccup") => \E i \in 1..Len(d) : d[i].type = "hiccup" /\ d[i].arg = in
  BY DEF ChainOK
<1>4. ~Has(s, "hiccup") => out \in {0, in}
  BY DEF ChainOK
<1>5. QED
  BY <1>1, <1>2, <1>3, <1>4 DEF ChainOK

(* The handshake allows an end that may still speak only a peer that       *)
(* listens.                                                                *)
LEMMA Listens ==
    ASSUME NEW q, ShapeOK(q), NEW e \in Ends, q.ends[e].state \notin Silent
    PROVE  /\ ~Has(q.cmds[Other(e)], "pipe_term_ack")
           /\ q.ends[Other(e)].state # "gone"
           /\ q.ends[e].state \in {"active", "delimiter_received"} =>
                 /\ ~Has(q.cmds[Other(e)], "pipe_term")
                 /\ q.ends[Other(e)].state \in {"active", "term_req_sent1"}
                 /\ q.ends[Other(e)].state = "term_req_sent1" =>
                       Has(q.cmds[e], "pipe_term") /\ ~Has(q.cmds[e], "pipe_term_ack")
<1>1. PICK x \in Ends : Shape(q, x)
  BY DEF ShapeOK
<1>2. (x = e \/ x = Other(e)) /\ Other(e) # e /\ Other(Other(e)) = e
  BY Two
<1>3. CASE x = e
  BY <1>1, <1>2, <1>3 DEF Shape, None, Asks, Acks, Both, Silent
<1>4. CASE x = Other(e)
  BY <1>1, <1>2, <1>4 DEF Shape, None, Asks, Acks, Both, Silent
<1>5. QED
  BY <1>2, <1>3, <1>4

(* A command that is no part of the handshake: a wake-up, a count, a mark. *)
LEMMA SendKeeps ==
    ASSUME MaxLosses \in Nat, NEW k, NEW q, NEW n, Good(q, k), n \in PairType,
           NEW e \in Ends, NEW c \in Commands,
           \/ c.type \in Neutral /\ q.ends[e].state \notin Silent
           \/ c.type = "term" /\ e = "socket",
           Sent(q, n, Other(e), c), SamePipes(q, n), \A x \in Ends : SameEnd(q, n, x),
           n.failed = q.failed
    PROVE  Good(n, k)
<1> DEFINE o == Other(e)
<1> USE DEF SameEnd
<1>1. o \in Ends /\ Other(o) = e /\ e # o /\ "socket" \in Ends /\ "session" \in Ends
      /\ \A x \in Ends : x = e \/ x = o
  BY Two
<1>2. q.cmds[o] \in Seq(Commands) /\ q.cmds[e] \in Seq(Commands)
  BY <1>1, Typed DEF Good
<1>3. /\ c.type = "term" \/ ~Has(q.cmds[o], "pipe_term_ack")
      /\ c.type # "term" => q.ends[o].state # "gone"
      /\ c.type = "term" => o = "session"
  BY Listens, Two DEF Good, Neutral
<1>4. c.type \notin {"pipe_term", "pipe_term_ack", "hiccup"}
  BY DEF Neutral
<1>5. \A t : Has(n.cmds[o], t) <=> Has(q.cmds[o], t) \/ c.type = t
  BY <1>1, <1>2, HasAppend DEF Sent
<1>6. n.cmds[e] = q.cmds[e] /\ n.cmds[o] = Append(q.cmds[o], c)
  BY <1>1 DEF Sent
<1>7. /\ Len(n.cmds[o]) = Len(q.cmds[o]) + 1 /\ n.cmds[o][Len(q.cmds[o]) + 1] = c
      /\ \A i \in 1..Len(q.cmds[o]) : n.cmds[o][i] = q.cmds[o][i]
      /\ Len(q.cmds[o]) \in Nat
  BY <1>2, <1>6
<1>8. RowsOK(n)
  <2>1. RowOK(n.cmds[o])
    BY <1>1, <1>2, <1>3, <1>4, <1>6, RowAppend DEF Good, RowsOK
  <2>2. QED
    BY <1>1, <1>3, <1>4, <1>5, <1>6, <2>1 DEF Good, RowsOK
<1>9. ShapeOK(n)
  <2>1. PICK x \in Ends : Shape(q, x)
    BY DEF Good, ShapeOK
  <2>2. \A t \in {"pipe_term", "pipe_term_ack"}, y \in Ends : Has(n.cmds[y], t) <=> Has(q.cmds[y], t)
    BY <1>1, <1>4, <1>5, <1>6
  <2>3. Shape(n, x)
    BY <1>1, <2>1, <2>2 DEF Shape, None, Asks, Acks, Both
  <2>4. QED
    BY <2>3 DEF ShapeOK
<1>10. GoneOK(n)
  <2> SUFFICES ASSUME NEW x \in Ends, n.ends[x].state = "gone", NEW i \in 1..Len(n.cmds[x])
               PROVE  n.cmds[x][i].type = "term"
    BY DEF GoneOK
  <2>1. \A j \in 1..Len(q.cmds[x]) : q.cmds[x][j].type = "term"
    BY DEF Good, GoneOK
  <2>2. CASE x = e
    BY <1>6, <2>1, <2>2
  <2>3. CASE x = o
    <3>1. c.type = "term"
      BY <1>3, <2>3
    <3>2. i \in 1..Len(q.cmds[o]) \/ i = Len(q.cmds[o]) + 1
      BY <1>7, <2>3
    <3>3. QED
      BY <1>7, <2>1, <2>3, <3>1, <3>2
  <2>4. QED
    BY <1>1, <2>2, <2>3
<1>11. OutOK(n)
  BY <1>1 DEF Good, OutOK
<1>12. ChainOK(n)
  <2>1. \A i \in 3..q.ends["session"].in : i \in 1..2 + MaxLosses
    BY <1>1, Typed DEF Good
  <2>2. SameHiccups(q.cmds["socket"], n.cmds["socket"])
    <3>1. CASE o # "socket"
      BY <1>1, <1>6, <3>1 DEF SameHiccups
    <3>2. CASE o = "socket"
      BY <1>2, <1>4, <1>6, <3>2, HiccupsAppend
    <3>3. QED
      BY <3>1, <3>2
  <2>3. QED
    BY <1>1, <2>1, <2>2, ChainKept DEF Good, SamePipes
<1>13. FreedOK(n)
  <2>1. /\ q.ends["session"].in \in 1..2 + MaxLosses
        /\ q.ends["socket"].out \in 0..2 + MaxLosses
    BY <1>1, Typed DEF Good
  <2>2. QED
    BY <1>1, <2>1 DEF Good, FreedOK, SamePipes
<1>14. YpipesOK(n, k)
  BY YpipesKept DEF Good
<1>15. QED
  BY <1>8, <1>9, <1>10, <1>11, <1>12, <1>13, <1>14 DEF Good

(* The same, when none is under way. *)
LEMMA ChainEmpty ==
    ASSUME NEW q, NEW n, ChainOK(q),
           ~Has(q.cmds["socket"], "hiccup"), ~Has(n.cmds["socket"], "hiccup"),
           n.ends["session"].in = q.ends["session"].in,
           n.ends["socket"].out \in {0, q.ends["socket"].out}
    PROVE  ChainOK(n)
BY DEF ChainOK, Has

(* Nothing is deallocated, and no end becomes or stops being gone. *)
LEMMA FreedKept ==
    ASSUME MaxLosses \in Nat, NEW q \in PairType, NEW n, FreedOK(q),
           \A i \in 1..2 + MaxLosses : n.pipes[i].freed = q.pipes[i].freed,
           n.ends["session"].in = q.ends["session"].in,
           \/ n.ends["socket"].out = q.ends["socket"].out
           \/ n.ends["socket"].out = 0 /\ q.ends["socket"].out \in {0, q.ends["session"].in},
           \A e \in Ends : n.ends[e].state = "gone" <=> q.ends[e].state = "gone"
    PROVE  FreedOK(n)
<1>1. "socket" \in Ends /\ "session" \in Ends
  BY Two
<1>2. /\ q.ends["session"].in \in 1..2 + MaxLosses
      /\ q.ends["socket"].out \in 0..2 + MaxLosses
  BY <1>1, Typed
<1>3. 2 \in 1..2 + MaxLosses /\ 1 \in 1..2 + MaxLosses
  OBVIOUS
<1>4. CASE n.ends["socket"].out = q.ends["socket"].out
  BY <1>1, <1>2, <1>3, <1>4 DEF FreedOK
<1>5. CASE n.ends["socket"].out = 0 /\ q.ends["socket"].out \in {0, q.ends["session"].in}
  BY <1>1, <1>2, <1>3, <1>5 DEF FreedOK
<1>6. QED
  BY <1>4, <1>5

(* A command that is no part of the handshake is taken. *)
LEMMA TakeKeeps ==
    ASSUME MaxLosses \in Nat, NEW k, NEW q, NEW n, Good(q, k), n \in PairType,
           NEW e \in Ends, Taken(q, n, e), Head(q.cmds[e]).type \in Neutral \cup {"term"},
           SamePipes(q, n), \A x \in Ends : SameEnd(q, n, x), n.failed = q.failed
    PROVE  Good(n, k)
<1> DEFINE o == Other(e)
           c == Head(q.cmds[e])
<1> USE DEF SameEnd
<1>1. o \in Ends /\ Other(o) = e /\ e # o /\ "socket" \in Ends /\ "session" \in Ends
      /\ \A x \in Ends : x = e \/ x = o
  BY Two
<1>2. q.cmds[o] \in Seq(Commands) /\ q.cmds[e] \in Seq(Commands) /\ q.cmds[e] # <<>>
  BY <1>1, Typed DEF Good, Taken
<1>3. c.type \notin {"pipe_term", "pipe_term_ack", "hiccup"}
  BY DEF Neutral
<1>4. n.cmds[o] = q.cmds[o] /\ n.cmds[e] = Tail(q.cmds[e])
  BY <1>1 DEF Taken
<1>5. \A t \in {"pipe_term", "pipe_term_ack", "hiccup"}, x \in Ends :
          Has(n.cmds[x], t) <=> Has(q.cmds[x], t)
  <2>1. \A t : Has(q.cmds[e], t) <=> c.type = t \/ Has(Tail(q.cmds[e]), t)
    BY <1>2, HasTail
  <2>2. QED
    BY <1>1, <1>3, <1>4, <2>1
<1>6. RowsOK(n)
  <2>1. RowOK(n.cmds[e])
    BY <1>2, <1>4, RowTail DEF Good, RowsOK
  <2>2. Has(n.cmds["socket"], "term") => Has(q.cmds["socket"], "term")
    BY <1>1, <1>2, <1>4, HasTail
  <2>3. QED
    BY <1>1, <1>4, <1>5, <2>1, <2>2 DEF Good, RowsOK
<1>7. ShapeOK(n)
  <2>1. PICK x \in Ends : Shape(q, x)
    BY DEF Good, ShapeOK
  <2>2. Shape(n, x)
    BY <1>1, <1>5, <2>1 DEF Shape, None, Asks, Acks, Both
  <2>3. QED
    BY <2>2 DEF ShapeOK
<1>8. \A i \in 1..Len(n.cmds[e]) : i + 1 \in 1..Len(q.cmds[e]) /\ n.cmds[e][i] = q.cmds[e][i + 1]
  BY <1>2, <1>4, RowTaken
<1>9. GoneOK(n)
  <2> SUFFICES ASSUME NEW x \in Ends, n.ends[x].state = "gone", NEW i \in 1..Len(n.cmds[x])
               PROVE  n.cmds[x][i].type = "term"
    BY DEF GoneOK
  <2>1. \A j \in 1..Len(q.cmds[x]) : q.cmds[x][j].type = "term"
    BY DEF Good, GoneOK
  <2>2. CASE x = e
    BY <1>8, <2>1, <2>2
  <2>3. CASE x = o
    BY <1>4, <2>1, <2>3
  <2>4. QED
    BY <1>1, <2>2, <2>3
<1>10. OutOK(n)
  BY <1>1 DEF Good, OutOK
<1>11. ChainOK(n)
  <2>1. \A i \in 3..q.ends["session"].in : i \in 1..2 + MaxLosses
    BY <1>1, Typed DEF Good
  <2>2. SameHiccups(q.cmds["socket"], n.cmds["socket"])
    <3>1. CASE o = "socket"
      BY <1>4, <3>1 DEF SameHiccups
    <3>2. CASE e = "socket"
      BY <1>2, <1>3, <1>4, <3>2, HiccupsTail
    <3>3. QED
      BY <1>1, <3>1, <3>2
  <2>3. QED
    BY <1>1, <2>1, <2>2, ChainKept DEF Good, SamePipes
<1>12. FreedOK(n)
  BY <1>1, FreedKept DEF Good, SamePipes
<1>13. YpipesOK(n, k)
  BY YpipesKept DEF Good
<1>14. QED
  BY <1>6, <1>7, <1>9, <1>10, <1>11, <1>12, <1>13 DEF Good

(* What speaks of the ends and their commands alone. *)
LEMMA EndsKeep ==
    ASSUME MaxLosses \in Nat, NEW k, NEW q, NEW n, Good(q, k),
           \A e \in Ends : SameEnd(q, n, e), n.cmds = q.cmds,
           \A i \in 1..2 + MaxLosses : n.pipes[i].freed = q.pipes[i].freed
    PROVE  RowsOK(n) /\ ShapeOK(n) /\ GoneOK(n) /\ OutOK(n) /\ ChainOK(n) /\ FreedOK(n)
<1> USE DEF SameEnd
<1>1. "socket" \in Ends /\ "session" \in Ends /\ \A e \in Ends : Other(e) \in Ends
  BY Two
<1>2. RowsOK(n)
  BY DEF Good, RowsOK
<1>3. ShapeOK(n)
  <2>1. PICK e \in Ends : Shape(q, e)
    BY DEF Good, ShapeOK
  <2>2. Shape(n, e)
    BY <1>1, <2>1 DEF Shape
  <2>3. QED
    BY <2>2 DEF ShapeOK
<1>4. GoneOK(n)
  BY DEF Good, GoneOK
<1>5. OutOK(n)
  BY <1>1 DEF Good, OutOK
<1>6. ChainOK(n)
  <2>1. \A j \in 3..q.ends["session"].in : j \in 1..2 + MaxLosses
    BY <1>1, Typed DEF Good
  <2>2. SameHiccups(q.cmds["socket"], n.cmds["socket"])
    BY DEF SameHiccups
  <2>3. QED
    BY <1>1, <2>1, <2>2, ChainKept DEF Good
<1>7. FreedOK(n)
  BY <1>1, FreedKept DEF Good
<1>8. QED
  BY <1>2, <1>3, <1>4, <1>5, <1>6, <1>7

(* What the invariant does not speak of may change. *)
LEMMA AlikeKeeps ==
    ASSUME MaxLosses \in Nat, NEW k, NEW q, NEW n, Good(q, k), Alike(q, n)
    PROVE  Good(n, k)
<1>1. \A e \in Ends : SameEnd(q, n, e)
  BY DEF Alike, SameEnd
<1>2. SamePipes(q, n)
  BY DEF Alike, SamePipes
<1>3. RowsOK(n) /\ ShapeOK(n) /\ GoneOK(n) /\ OutOK(n) /\ ChainOK(n) /\ FreedOK(n)
  BY <1>1, EndsKeep DEF Alike
<1>4. YpipesOK(n, k)
  BY <1>1, <1>2, YpipesKept DEF Good, SameEnd
<1>5. QED
  BY <1>3, <1>4 DEF Good, Alike

(* Frames are written to ypipe i or leave it. *)
LEMMA YpipeKeeps ==
    ASSUME MaxLosses \in Nat, NEW k, NEW q, NEW n, Good(q, k), n \in PairType,
           NEW i \in 1..2 + MaxLosses,
           \A e \in Ends : SameEnd(q, n, e),
           n.cmds = q.cmds, n.failed = q.failed,
           \A j \in 1..2 + MaxLosses : n.pipes[j].freed = q.pipes[j].freed,
           \A j \in 1..2 + MaxLosses : j # i => /\ n.pipes[j].draft = q.pipes[j].draft
                                               /\ n.pipes[j].queue = q.pipes[j].queue,
           YpipeOK(n.pipes[i], q, k, i)
    PROVE  Good(n, k)
<1>1. RowsOK(n) /\ ShapeOK(n) /\ GoneOK(n) /\ OutOK(n) /\ ChainOK(n) /\ FreedOK(n)
  BY EndsKeep
<1>2. n.ends["socket"].state = q.ends["socket"].state
      /\ n.ends["session"].state = q.ends["session"].state
  BY Two DEF SameEnd
<1>3. ASSUME NEW j \in 1..2 + MaxLosses
      PROVE  YpipeOK(n.pipes[j], n, k, j)
  <2>1. YpipeOK(n.pipes[j], q, k, j)
    <3>1. CASE j = i
      BY <3>1
    <3>2. CASE j # i
      <4>1. YpipeOK(q.pipes[j], q, k, j)
        BY DEF YpipesOK, Good
      <4>2. n.pipes[j].draft = q.pipes[j].draft /\ n.pipes[j].queue = q.pipes[j].queue
        BY <3>2
      <4>3. QED
        BY <4>1, <4>2 DEF YpipeOK
    <3>3. QED
      BY <3>1, <3>2
  <2>2. QED
    BY <1>2, <2>1 DEF YpipeOK
<1>4. QED
  BY <1>1, <1>3 DEF Good, YpipesOK

-----------------------------------------------------------------------------
(* The steps of the handshake. *)

(* What a row of commands holds after one of a type is sent or taken.      *)
LEMMA HasSent ==
    ASSUME NEW q \in PairType, NEW n, NEW e \in Ends, NEW c \in Commands, Sent(q, n, e, c)
    PROVE  /\ n.cmds[Other(e)] = q.cmds[Other(e)]
           /\ n.cmds[e] = Append(q.cmds[e], c)
           /\ \A t : Has(n.cmds[e], t) <=> Has(q.cmds[e], t) \/ c.type = t
BY Typed, HasAppend DEF Sent

(* The same, for a command sent by e to the other end. *)
LEMMA HasSentTo ==
    ASSUME NEW q \in PairType, NEW n, NEW e \in Ends, NEW c \in Commands, Sent(q, n, Other(e), c)
    PROVE  /\ n.cmds[e] = q.cmds[e]
           /\ n.cmds[Other(e)] = Append(q.cmds[Other(e)], c)
           /\ \A t : Has(n.cmds[Other(e)], t) <=> Has(q.cmds[Other(e)], t) \/ c.type = t
<1>1. Other(e) \in Ends /\ Other(Other(e)) = e
  BY Two
<1>2. n.cmds[e] = q.cmds[e] /\ n.cmds[Other(e)] = Append(q.cmds[Other(e)], c)
  BY <1>1 DEF Sent
<1>3. q.cmds[Other(e)] \in Seq(Commands)
  BY <1>1, Typed
<1>4. QED
  BY <1>2, <1>3, HasAppend

(* Both rows stay in order when a command is sent, *)
LEMMA RowsSent ==
    ASSUME NEW q \in PairType, NEW n, NEW e \in Ends, NEW c \in Commands, Sent(q, n, e, c),
           RowsOK(q), RowOK(Append(q.cmds[e], c)),
           c.type = "term" => e = "session", c.type = "hiccup" => e = "socket"
    PROVE  RowsOK(n)
<1>1. Other(e) \in Ends /\ \A x \in Ends : x = e \/ x = Other(e)
  BY Two
<1>0. /\ n.cmds[Other(e)] = q.cmds[Other(e)]
      /\ n.cmds[e] = Append(q.cmds[e], c)
      /\ \A t : Has(n.cmds[e], t) <=> Has(q.cmds[e], t) \/ c.type = t
  BY HasSent
<1>2. \A x \in Ends : RowOK(n.cmds[x])
  BY <1>0, <1>1 DEF RowsOK
<1>3. "socket" \in Ends /\ "session" \in Ends /\ "socket" # "session"
  BY Two
<1>4. ~Has(n.cmds["socket"], "term") /\ ~Has(n.cmds["session"], "hiccup")
  BY <1>0, <1>1, <1>3 DEF RowsOK
<1>5. QED
  BY <1>2, <1>4 DEF RowsOK

(* terminate: e asks. *)
LEMMA AskKeeps ==
    ASSUME MaxLosses \in Nat, NEW k, NEW q, NEW n, Good(q, k), n \in PairType,
           NEW e \in Ends, NEW c \in Commands, c.type = "pipe_term",
           q.ends[e].state \in {"active", "delimiter_received"},
           n.ends[e].state = "term_req_sent1",
           n.ends[e].in = q.ends[e].in, n.ends[e].out = q.ends[e].out,
           SameEnd(q, n, Other(e)), Sent(q, n, Other(e), c),
           SamePipes(q, n), n.failed = q.failed
    PROVE  Good(n, k)
<1> DEFINE o == Other(e)
<1>1. /\ o \in Ends /\ Other(o) = e /\ e # o /\ "socket" \in Ends /\ "session" \in Ends
      /\ \A x \in Ends : x = e \/ x = o
  BY Two
<1>2. q \in PairType /\ q.cmds[o] \in Seq(Commands)
  BY <1>1, Typed DEF Good
<1>3. /\ ~Has(q.cmds[o], "pipe_term_ack") /\ ~Has(q.cmds[o], "pipe_term")
      /\ q.ends[o].state \in {"active", "term_req_sent1"}
  BY Listens DEF Good, Silent
<1>4. /\ n.cmds[e] = q.cmds[e] /\ n.cmds[o] = Append(q.cmds[o], c)
      /\ \A t : Has(n.cmds[o], t) <=> Has(q.cmds[o], t) \/ c.type = t
  BY <1>2, HasSentTo
<1>5. RowsOK(n)
  <2>1. RowOK(Append(q.cmds[o], c))
    BY <1>1, <1>2, <1>3, RowAppend DEF Good, RowsOK
  <2>2. QED
    BY <1>1, <1>2, <2>1, RowsSent DEF Good
<1>6. n.ends[o].state = q.ends[o].state /\ n.ends[o].in = q.ends[o].in /\ n.ends[o].out = q.ends[o].out
  BY DEF SameEnd
<1>7. ShapeOK(n)
  <2>1. PICK x \in Ends : Shape(q, x)
    BY DEF Good, ShapeOK
  <2>2. CASE x = e
    <3>1. Shape(n, e)
      BY <1>1, <1>3, <1>4, <1>6, <2>1, <2>2 DEF Shape, None, Asks, Acks, Both
    <3>2. QED
      BY <3>1 DEF ShapeOK
  <2>3. CASE x = o
    <3>1. CASE q.ends[o].state = "active"
      <4>1. Shape(n, e)
        BY <1>1, <1>3, <1>4, <1>6, <2>1, <2>3, <3>1 DEF Shape, None, Asks, Acks, Both
      <4>2. QED
        BY <4>1 DEF ShapeOK
    <3>2. CASE q.ends[o].state = "term_req_sent1"
      <4>1. Shape(n, o)
        BY <1>1, <1>3, <1>4, <1>6, <2>1, <2>3, <3>2 DEF Shape, None, Asks, Acks, Both
      <4>2. QED
        BY <1>1, <4>1 DEF ShapeOK
    <3>3. QED
      BY <1>3, <3>1, <3>2
  <2>4. QED
    BY <1>1, <2>2, <2>3
<1>8. \A x \in Ends : n.ends[x].state # "gone" /\ q.ends[x].state # "gone"
  BY <1>1, <1>3, <1>6
<1>9. OutOK(n)
  BY <1>1, <1>6 DEF Good, OutOK, Silent
<1>10. ChainOK(n)
  <2>1. \A i \in 3..q.ends["session"].in : i \in 1..2 + MaxLosses
    BY <1>1, <1>2, Typed
  <2>2. SameHiccups(q.cmds["socket"], n.cmds["socket"])
    <3>1. CASE o # "socket"
      BY <1>1, <1>4, <3>1 DEF SameHiccups
    <3>2. CASE o = "socket"
      BY <1>2, <1>4, <3>2, HiccupsAppend
    <3>3. QED
      BY <3>1, <3>2
  <2>3. n.ends["socket"].state \notin Silent \cup {"waiting_for_delimiter"}
    BY <1>1, <1>3, <1>6 DEF Silent
  <2>4. QED
    BY <1>1, <1>2, <1>6, <2>1, <2>2, <2>3, ChainKept DEF Good, SamePipes
<1>11. FreedOK(n)
  BY <1>1, <1>2, <1>6, <1>8, FreedKept DEF Good, SamePipes
<1>12. YpipesOK(n, k)
  BY <1>1, <1>6, YpipesKept DEF Good
<1>13. QED
  BY <1>5, <1>7, <1>8, <1>9, <1>10, <1>11, <1>12 DEF Good, GoneOK

(* The delimiter is read before the other end asks. *)
LEMMA DelimiterKeeps ==
    ASSUME MaxLosses \in Nat, NEW k, NEW q, NEW n, Good(q, k), n \in PairType,
           NEW e \in Ends,
           q.ends[e].state = "active", q.ends[Other(e)].state # "active",
           n.ends[e].state = "delimiter_received",
           n.ends[e].in = q.ends[e].in, n.ends[e].out = q.ends[e].out,
           SameEnd(q, n, Other(e)), n.cmds = q.cmds,
           SamePipes(q, n), n.failed = q.failed
    PROVE  Good(n, k)
<1> DEFINE o == Other(e)
<1>1. /\ o \in Ends /\ Other(o) = e /\ e # o /\ "socket" \in Ends /\ "session" \in Ends
      /\ \A x \in Ends : x = e \/ x = o
  BY Two
<1>2. q \in PairType
  BY DEF Good
<1>3. q.ends[o].state = "term_req_sent1"
  BY Listens DEF Good, Silent
<1>4. RowsOK(n)
  BY DEF Good, RowsOK
<1>5. n.ends[o].state = q.ends[o].state /\ n.ends[o].in = q.ends[o].in /\ n.ends[o].out = q.ends[o].out
  BY DEF SameEnd
<1>6. ShapeOK(n)
  <2>1. PICK x \in Ends : Shape(q, x)
    BY DEF Good, ShapeOK
  <2>2. x = o
    BY <1>1, <1>3, <2>1 DEF Shape
  <2>3. Shape(n, o)
    BY <1>1, <1>3, <1>5, <2>1, <2>2 DEF Shape
  <2>4. QED
    BY <1>1, <2>3 DEF ShapeOK
<1>7. \A x \in Ends : n.ends[x].state # "gone" /\ q.ends[x].state # "gone"
  BY <1>1, <1>3, <1>5
<1>8. OutOK(n)
  BY <1>1, <1>5 DEF Good, OutOK, Silent
<1>9. ChainOK(n)
  <2>1. \A i \in 3..q.ends["session"].in : i \in 1..2 + MaxLosses
    BY <1>1, <1>2, Typed
  <2>2. SameHiccups(q.cmds["socket"], n.cmds["socket"])
    BY DEF SameHiccups
  <2>3. n.ends["socket"].state \notin Silent \cup {"waiting_for_delimiter"}
    BY <1>1, <1>3, <1>5 DEF Silent
  <2>4. QED
    BY <1>1, <1>2, <1>5, <2>1, <2>2, <2>3, ChainKept DEF Good, SamePipes
<1>10. FreedOK(n)
  BY <1>1, <1>2, <1>5, <1>7, FreedKept DEF Good, SamePipes
<1>11. YpipesOK(n, k)
  BY <1>1, <1>5, YpipesKept DEF Good
<1>12. QED
  BY <1>4, <1>6, <1>7, <1>8, <1>9, <1>10, <1>11 DEF Good, GoneOK

(* Taken from a row: what the handshake knows of it. *)
LEMMA HasTaken ==
    ASSUME NEW q \in PairType, NEW n, NEW e \in Ends, Taken(q, n, e)
    PROVE  /\ q.cmds[e] \in Seq(Commands) /\ q.cmds[e] # <<>>
           /\ Head(q.cmds[e]) \in Commands
           /\ n.cmds[Other(e)] = q.cmds[Other(e)]
           /\ n.cmds[e] = Tail(q.cmds[e])
           /\ \A t : Has(q.cmds[e], t) <=> Head(q.cmds[e]).type = t \/ Has(n.cmds[e], t)
BY Typed, HasTail DEF Taken

(* and when one is taken. *)
LEMMA RowsTaken ==
    ASSUME NEW q \in PairType, NEW n, NEW e \in Ends, Taken(q, n, e), RowsOK(q)
    PROVE  RowsOK(n)
<1>1. Other(e) \in Ends /\ \A x \in Ends : x = e \/ x = Other(e)
  BY Two
<1>2. /\ q.cmds[e] \in Seq(Commands) /\ q.cmds[e] # <<>>
      /\ n.cmds[Other(e)] = q.cmds[Other(e)]
      /\ n.cmds[e] = Tail(q.cmds[e])
      /\ \A t : Has(n.cmds[e], t) => Has(q.cmds[e], t)
  BY HasTaken
<1>3. RowOK(Tail(q.cmds[e]))
  BY <1>2, RowTail DEF RowsOK
<1>4. \A x \in Ends : RowOK(n.cmds[x])
  BY <1>1, <1>2, <1>3 DEF RowsOK
<1>5. "socket" \in Ends /\ "session" \in Ends
  BY Two
<1>6. ~Has(n.cmds["socket"], "term") /\ ~Has(n.cmds["session"], "hiccup")
  BY <1>1, <1>2, <1>5 DEF RowsOK
<1>7. QED
  BY <1>4, <1>6 DEF RowsOK

(* e is asked, and waits for the delimiter. *)
LEMMA WaitKeeps ==
    ASSUME MaxLosses \in Nat, NEW k, NEW q, NEW n, Good(q, k), n \in PairType,
           NEW e \in Ends, Taken(q, n, e), Head(q.cmds[e]).type = "pipe_term",
           q.ends[e].state \in {"active", "delimiter_received"},
           n.ends[e].state = "waiting_for_delimiter",
           n.ends[e].in = q.ends[e].in, n.ends[e].out = q.ends[e].out,
           SameEnd(q, n, Other(e)),
           SamePipes(q, n), n.failed = q.failed
    PROVE  Good(n, k)
<1> DEFINE o == Other(e)
<1>1. /\ o \in Ends /\ Other(o) = e /\ e # o /\ "socket" \in Ends /\ "session" \in Ends
      /\ \A x \in Ends : x = e \/ x = o
  BY Two
<1>2. q \in PairType
  BY DEF Good
<1>3. /\ q.cmds[e] \in Seq(Commands) /\ q.cmds[e] # <<>>
      /\ n.cmds[o] = q.cmds[o] /\ n.cmds[e] = Tail(q.cmds[e])
      /\ \A t : Has(q.cmds[e], t) <=> "pipe_term" = t \/ Has(n.cmds[e], t)
  BY <1>2, HasTaken
<1>4. RowsOK(n)
  BY <1>2, RowsTaken DEF Good
<1>5. n.ends[o].state = q.ends[o].state /\ n.ends[o].in = q.ends[o].in /\ n.ends[o].out = q.ends[o].out
  BY DEF SameEnd
<1>6. ~Has(n.cmds[e], "pipe_term") /\ ~Has(n.cmds[e], "hiccup")
  BY <1>3, RowTail DEF Good, RowsOK
<1>7. /\ q.ends[o].state \in {"active", "term_req_sent1"}
      /\ ~Has(q.cmds[o], "pipe_term_ack") /\ ~Has(q.cmds[o], "pipe_term")
  BY Listens DEF Good, Silent
<1>8. ShapeOK(n)
  <2>1. PICK x \in Ends : Shape(q, x)
    BY DEF Good, ShapeOK
  <2>2. x = o
    BY <1>1, <1>3, <2>1 DEF Shape, None
  <2>3. Shape(n, o)
    BY <1>1, <1>3, <1>5, <1>6, <1>7, <2>1, <2>2 DEF Shape, None, Asks, Acks, Both
  <2>4. QED
    BY <1>1, <2>3 DEF ShapeOK
<1>9. \A x \in Ends : n.ends[x].state # "gone" /\ q.ends[x].state # "gone"
  BY <1>1, <1>5, <1>7
<1>10. OutOK(n)
  BY <1>1, <1>5 DEF Good, OutOK, Silent
<1>11. ChainOK(n)
  <2>1. CASE e = "socket"
    <3>1. ~Has(q.cmds["socket"], "hiccup") /\ ~Has(n.cmds["socket"], "hiccup")
      BY <1>3, <1>6, <2>1
    <3>2. QED
      BY <1>1, <1>5, <2>1, <3>1, ChainEmpty DEF Good
  <2>2. CASE o = "socket"
    <3>1. \A i \in 3..q.ends["session"].in : i \in 1..2 + MaxLosses
      BY <1>1, <1>2, Typed
    <3>2. SameHiccups(q.cmds["socket"], n.cmds["socket"])
      BY <1>3, <2>2 DEF SameHiccups
    <3>3. n.ends["socket"].state = q.ends["socket"].state
      BY <1>5, <2>2
    <3>4. QED
      BY <1>1, <1>2, <1>5, <3>1, <3>2, <3>3, ChainKept DEF Good, SamePipes
  <2>3. QED
    BY <1>1, <2>1, <2>2
<1>12. FreedOK(n)
  BY <1>1, <1>2, <1>5, <1>9, FreedKept DEF Good, SamePipes
<1>13. YpipesOK(n, k)
  BY <1>1, <1>5, YpipesKept DEF Good
<1>14. QED
  BY <1>4, <1>8, <1>9, <1>10, <1>11, <1>12, <1>13 DEF Good, GoneOK

(* e has read everything that was under way, and acknowledges. *)
LEMMA AckKeeps ==
    ASSUME MaxLosses \in Nat, NEW k, NEW q, NEW n, Good(q, k), n \in PairType,
           NEW e \in Ends, NEW c \in Commands, c.type = "pipe_term_ack",
           q.ends[e].state = "waiting_for_delimiter",
           n.ends[e].state = "term_ack_sent",
           n.ends[e].in = q.ends[e].in, n.ends[e].out = 0,
           SameEnd(q, n, Other(e)), Sent(q, n, Other(e), c),
           SamePipes(q, n), n.failed = q.failed
    PROVE  Good(n, k)
<1> DEFINE o == Other(e)
<1>1. /\ o \in Ends /\ Other(o) = e /\ e # o /\ "socket" \in Ends /\ "session" \in Ends
      /\ \A x \in Ends : x = e \/ x = o
  BY Two
<1>2. q \in PairType /\ q.cmds[o] \in Seq(Commands)
  BY <1>1, Typed DEF Good
<1>3. /\ n.cmds[e] = q.cmds[e] /\ n.cmds[o] = Append(q.cmds[o], c)
      /\ \A t : Has(n.cmds[o], t) <=> Has(q.cmds[o], t) \/ c.type = t
  BY <1>2, HasSentTo
<1>4. Shape(q, o) /\ None(q.cmds[o]) /\ None(q.cmds[e]) /\ q.ends[o].state = "term_req_sent1"
  <2>1. PICK x \in Ends : Shape(q, x)
    BY DEF Good, ShapeOK
  <2>2. x = o
    BY <1>1, <2>1 DEF Shape
  <2>3. QED
    BY <1>1, <2>1, <2>2 DEF Shape
<1>5. n.ends[o].state = q.ends[o].state /\ n.ends[o].in = q.ends[o].in /\ n.ends[o].out = q.ends[o].out
  BY DEF SameEnd
<1>6. RowsOK(n)
  <2>1. RowOK(Append(q.cmds[o], c))
    BY <1>1, <1>2, <1>4, RowAppend DEF Good, RowsOK, None
  <2>2. QED
    BY <1>1, <1>2, <2>1, RowsSent DEF Good
<1>7. ShapeOK(n)
  <2>1. Shape(n, o)
    BY <1>1, <1>3, <1>4, <1>5 DEF Shape, None, Asks, Acks, Both
  <2>2. QED
    BY <1>1, <2>1 DEF ShapeOK
<1>8. \A x \in Ends : n.ends[x].state # "gone" /\ q.ends[x].state # "gone"
  BY <1>1, <1>4, <1>5
<1>9. OutOK(n)
  BY <1>1, <1>5 DEF Good, OutOK, Silent
<1>10. e = "socket" => ~Has(q.cmds["socket"], "hiccup")
  BY DEF Good, ChainOK, Has
<1>11. ChainOK(n)
  <2>1. CASE e = "socket"
    <3>1. ~Has(q.cmds["socket"], "hiccup") /\ ~Has(n.cmds["socket"], "hiccup")
      BY <1>3, <1>10, <2>1
    <3>2. QED
      BY <1>1, <1>5, <2>1, <3>1, ChainEmpty DEF Good
  <2>2. CASE o = "socket"
    <3>1. \A i \in 3..q.ends["session"].in : i \in 1..2 + MaxLosses
      BY <1>1, <1>2, Typed
    <3>2. SameHiccups(q.cmds["socket"], n.cmds["socket"])
      BY <1>2, <1>3, <2>2, HiccupsAppend
    <3>3. n.ends["socket"].state = q.ends["socket"].state
      BY <1>5, <2>2
    <3>4. QED
      BY <1>1, <1>2, <1>5, <2>2, <3>1, <3>2, <3>3, ChainKept DEF Good, SamePipes
  <2>3. QED
    BY <1>1, <2>1, <2>2
<1>12. FreedOK(n)
  <2>1. e = "socket" => q.ends["socket"].out \in {0, q.ends["session"].in}
    BY <1>10 DEF Good, ChainOK
  <2>2. n.ends["session"].in = q.ends["session"].in
    BY <1>1, <1>5
  <2>3. \/ n.ends["socket"].out = q.ends["socket"].out
        \/ n.ends["socket"].out = 0 /\ q.ends["socket"].out \in {0, q.ends["session"].in}
    BY <1>1, <1>5, <2>1
  <2>4. QED
    BY <1>2, <1>8, <2>2, <2>3, FreedKept DEF Good, SamePipes
<1>13. YpipesOK(n, k)
  BY <1>1, <1>5, YpipesKept DEF Good
<1>14. QED
  BY <1>6, <1>7, <1>8, <1>9, <1>11, <1>12, <1>13 DEF Good, GoneOK

(* Both ends have asked: e acknowledges at once. *)
LEMMA CrossKeeps ==
    ASSUME MaxLosses \in Nat, NEW k, NEW q, NEW n, Good(q, k), n \in PairType,
           NEW e \in Ends, NEW c \in Commands, c.type = "pipe_term_ack",
           q.cmds[e] # <<>>, Head(q.cmds[e]).type = "pipe_term",
           n.cmds[e] = Tail(q.cmds[e]), n.cmds[Other(e)] = Append(q.cmds[Other(e)], c),
           q.ends[e].state = "term_req_sent1",
           n.ends[e].state = "term_req_sent2",
           n.ends[e].in = q.ends[e].in, n.ends[e].out = 0,
           SameEnd(q, n, Other(e)),
           SamePipes(q, n), n.failed = q.failed
    PROVE  Good(n, k)
<1> DEFINE o == Other(e)
<1>1. /\ o \in Ends /\ Other(o) = e /\ e # o /\ "socket" \in Ends /\ "session" \in Ends
      /\ \A x \in Ends : x = e \/ x = o
  BY Two
<1>2. q \in PairType /\ q.cmds[o] \in Seq(Commands) /\ q.cmds[e] \in Seq(Commands)
  BY <1>1, Typed DEF Good
<1>3. /\ \A t : Has(q.cmds[e], t) <=> "pipe_term" = t \/ Has(n.cmds[e], t)
      /\ \A t : Has(n.cmds[o], t) <=> Has(q.cmds[o], t) \/ "pipe_term_ack" = t
  BY <1>1, <1>2, HasTail, HasAppend
<1>4. RowOK(q.cmds[e]) /\ RowOK(q.cmds[o])
  BY <1>1 DEF Good, RowsOK
<1>5. ~Has(n.cmds[e], "pipe_term") /\ ~Has(n.cmds[e], "hiccup")
  BY <1>2, <1>4, RowTail
<1>6. n.ends[o].state = q.ends[o].state /\ n.ends[o].in = q.ends[o].in /\ n.ends[o].out = q.ends[o].out
  BY DEF SameEnd
<1>7. Has(q.cmds[e], "pipe_term")
  BY <1>3
<1>8. PICK x \in Ends : Shape(q, x)
  BY DEF Good, ShapeOK
<1>9. ~Has(q.cmds[o], "pipe_term_ack") /\ q.ends[o].state # "gone"
  <2>1. CASE x = e
    BY <1>1, <1>7, <1>8, <2>1 DEF Shape, None, Asks, Acks, Both
  <2>2. CASE x = o
    BY <1>1, <1>7, <1>8, <2>2 DEF Shape, None, Asks, Acks, Both
  <2>3. QED
    BY <1>1, <2>1, <2>2
<1>10. ShapeOK(n)
  <2>1. CASE x = e
    <3>1. Shape(n, e)
      BY <1>1, <1>3, <1>5, <1>6, <1>7, <1>8, <2>1 DEF Shape, None, Asks, Acks, Both
    <3>2. QED
      BY <3>1 DEF ShapeOK
  <2>2. CASE x = o
    <3>1. CASE q.ends[o].state = "term_req_sent1"
      <4>1. Shape(n, e)
        BY <1>1, <1>3, <1>5, <1>6, <1>7, <1>8, <2>2, <3>1 DEF Shape, None, Asks, Acks, Both
      <4>2. QED
        BY <4>1 DEF ShapeOK
    <3>2. CASE q.ends[o].state # "term_req_sent1"
      <4>1. Shape(n, o)
        BY <1>1, <1>3, <1>5, <1>6, <1>7, <1>8, <2>2, <3>2 DEF Shape, None, Asks, Acks, Both
      <4>2. QED
        BY <1>1, <4>1 DEF ShapeOK
    <3>3. QED
      BY <3>1, <3>2
  <2>3. QED
    BY <1>1, <2>1, <2>2
<1>11. RowsOK(n)
  <2>1. RowOK(n.cmds[e])
    BY <1>2, <1>4, RowTail
  <2>2. RowOK(n.cmds[o])
    BY <1>2, <1>4, <1>9, RowAppend
  <2>3. \A y \in Ends : RowOK(n.cmds[y])
    BY <1>1, <2>1, <2>2
  <2>4. ~Has(q.cmds["socket"], "term") /\ ~Has(q.cmds["session"], "hiccup")
    BY DEF Good, RowsOK
  <2>5. ~Has(n.cmds["socket"], "term") /\ ~Has(n.cmds["session"], "hiccup")
    BY <1>1, <1>3, <2>4
  <2>6. QED
    BY <2>3, <2>5 DEF RowsOK
<1>12. \A y \in Ends : n.ends[y].state # "gone" /\ q.ends[y].state # "gone"
  BY <1>1, <1>6, <1>9
<1>13. OutOK(n)
  BY <1>1, <1>6 DEF Good, OutOK, Silent
<1>14. e = "socket" => ~Has(q.cmds["socket"], "hiccup")
  BY <1>3, <1>5
<1>15. ChainOK(n)
  <2>1. CASE e = "socket"
    <3>1. ~Has(q.cmds["socket"], "hiccup") /\ ~Has(n.cmds["socket"], "hiccup")
      BY <1>5, <1>14, <2>1
    <3>2. QED
      BY <1>1, <1>6, <2>1, <3>1, ChainEmpty DEF Good
  <2>2. CASE o = "socket"
    <3>1. \A i \in 3..q.ends["session"].in : i \in 1..2 + MaxLosses
      BY <1>1, <1>2, Typed
    <3>2. SameHiccups(q.cmds["socket"], n.cmds["socket"])
      BY <1>2, <2>2, HiccupsAppend
    <3>3. n.ends["socket"].state = q.ends["socket"].state
      BY <1>6, <2>2
    <3>4. QED
      BY <1>1, <1>2, <1>6, <2>2, <3>1, <3>2, <3>3, ChainKept DEF Good, SamePipes
  <2>3. QED
    BY <1>1, <2>1, <2>2
<1>16. FreedOK(n)
  <2>1. e = "socket" => q.ends["socket"].out \in {0, q.ends["session"].in}
    BY <1>14 DEF Good, ChainOK
  <2>2. n.ends["session"].in = q.ends["session"].in
    BY <1>1, <1>6
  <2>3. \/ n.ends["socket"].out = q.ends["socket"].out
        \/ n.ends["socket"].out = 0 /\ q.ends["socket"].out \in {0, q.ends["session"].in}
    BY <1>1, <1>6, <2>1
  <2>4. QED
    BY <1>2, <1>12, <2>2, <2>3, FreedKept DEF Good, SamePipes
<1>17. YpipesOK(n, k)
  BY <1>1, <1>6, YpipesKept DEF Good
<1>18. QED
  BY <1>10, <1>11, <1>12, <1>13, <1>15, <1>16, <1>17 DEF Good, GoneOK

(* The end that is acknowledged, and the other one. *)
LEMMA AckShape ==
    ASSUME NEW q, ShapeOK(q), NEW e \in Ends,
           Has(q.cmds[e], "pipe_term_ack"), ~Has(q.cmds[e], "pipe_term")
    PROVE  LET s == q.ends[e].state
               t == q.ends[Other(e)].state
               d == q.cmds[Other(e)]
           IN  \/ s = "term_req_sent1" /\ t = "term_ack_sent" /\ None(d)
               \/ s = "term_ack_sent" /\ t = "gone" /\ None(d)
               \/ s = "term_req_sent2" /\ t = "term_req_sent2" /\ Acks(d)
               \/ s = "term_req_sent2" /\ t = "gone" /\ None(d)
<1>1. PICK x \in Ends : Shape(q, x)
  BY DEF ShapeOK
<1>2. (x = e \/ x = Other(e)) /\ Other(e) # e /\ Other(Other(e)) = e
  BY Two
<1>3. CASE x = e
  BY <1>1, <1>2, <1>3 DEF Shape, None, Asks, Acks, Both
<1>4. CASE x = Other(e)
  BY <1>1, <1>2, <1>4 DEF Shape, None, Asks, Acks, Both
<1>5. QED
  BY <1>2, <1>3, <1>4

(* e is acknowledged, and goes with the ypipe it read. *)
LEMMA GoKeeps ==
    ASSUME MaxLosses \in Nat, NEW k, NEW q, NEW n, Good(q, k), n \in PairType,
           NEW e \in Ends, NEW c \in Commands, c.type = "pipe_term_ack",
           q.cmds[e] # <<>>, Head(q.cmds[e]).type = "pipe_term_ack",
           n.cmds[e] = Tail(q.cmds[e]),
           n.cmds[Other(e)] = IF q.ends[e].state = "term_req_sent1"
                              THEN Append(q.cmds[Other(e)], c) ELSE q.cmds[Other(e)],
           n.ends[e].state = "gone",
           n.ends[e].in = q.ends[e].in, n.ends[e].out = 0,
           SameEnd(q, n, Other(e)),
           \A i \in 1..2 + MaxLosses : /\ n.pipes[i].draft = q.pipes[i].draft
                                       /\ n.pipes[i].queue = q.pipes[i].queue,
           n.pipes[q.ends[e].in].freed,
           \A i \in 1..2 + MaxLosses : i # q.ends[e].in => n.pipes[i].freed = q.pipes[i].freed,
           n.failed = q.failed
    PROVE  Good(n, k) /\ q.ends[e].state \in {"term_req_sent1", "term_req_sent2", "term_ack_sent"}
<1> DEFINE o == Other(e)
<1>1. /\ o \in Ends /\ Other(o) = e /\ e # o /\ "socket" \in Ends /\ "session" \in Ends
      /\ \A x \in Ends : x = e \/ x = o
  BY Two
<1>2. q \in PairType /\ q.cmds[o] \in Seq(Commands) /\ q.cmds[e] \in Seq(Commands)
  BY <1>1, Typed DEF Good
<1>3. \A t : Has(q.cmds[e], t) <=> "pipe_term_ack" = t \/ Has(n.cmds[e], t)
  BY <1>1, <1>2, HasTail
<1>4. RowOK(q.cmds[e]) /\ RowOK(q.cmds[o])
  BY <1>1 DEF Good, RowsOK
<1>5. \A i \in 1..Len(n.cmds[e]) : n.cmds[e][i].type = "term"
  BY <1>2, <1>4, RowTail
<1>6. \A t : t # "term" => ~Has(n.cmds[e], t)
  BY <1>5 DEF Has
<1>7. n.ends[o].state = q.ends[o].state /\ n.ends[o].in = q.ends[o].in /\ n.ends[o].out = q.ends[o].out
  BY DEF SameEnd
<1>8. /\ Has(q.cmds[e], "pipe_term_ack") /\ ~Has(q.cmds[e], "pipe_term")
      /\ ~Has(q.cmds[e], "hiccup")
  BY <1>3, <1>6
<1>10. /\ q.ends[e].state \in {"term_req_sent1", "term_req_sent2", "term_ack_sent"}
       /\ q.ends[o].state \in {"term_ack_sent", "term_req_sent2", "gone"}
       /\ q.ends[e].state = "term_req_sent1" => q.ends[o].state = "term_ack_sent" /\ None(q.cmds[o])
       /\ q.ends[e].state = "term_req_sent2" =>
             \/ q.ends[o].state = "term_req_sent2" /\ Acks(q.cmds[o])
             \/ q.ends[o].state = "gone" /\ None(q.cmds[o])
       /\ q.ends[e].state = "term_ack_sent" => q.ends[o].state = "gone" /\ None(q.cmds[o])
  <2>1. ShapeOK(q)
    BY DEF Good
  <2>2. \/ q.ends[e].state = "term_req_sent1" /\ q.ends[o].state = "term_ack_sent" /\ None(q.cmds[o])
        \/ q.ends[e].state = "term_ack_sent" /\ q.ends[o].state = "gone" /\ None(q.cmds[o])
        \/ q.ends[e].state = "term_req_sent2" /\ q.ends[o].state = "term_req_sent2" /\ Acks(q.cmds[o])
        \/ q.ends[e].state = "term_req_sent2" /\ q.ends[o].state = "gone" /\ None(q.cmds[o])
    BY <1>8, <2>1, AckShape
  <2>3. CASE q.ends[e].state = "term_req_sent1"
    BY <2>2, <2>3
  <2>4. CASE q.ends[e].state = "term_req_sent2"
    BY <2>2, <2>4
  <2>5. CASE q.ends[e].state = "term_ack_sent"
    BY <2>2, <2>5
  <2>6. QED
    BY <2>2, <2>3, <2>4, <2>5
<1>11. \A t : t # "pipe_term_ack" => (Has(n.cmds[o], t) <=> Has(q.cmds[o], t))
  BY <1>1, <1>2, HasAppend
<1>12. /\ q.ends[e].state = "term_req_sent1" => Has(n.cmds[o], "pipe_term_ack")
       /\ q.ends[e].state # "term_req_sent1" => n.cmds[o] = q.cmds[o]
  BY <1>1, <1>2, HasAppend
<1>13. ShapeOK(n)
  <2>1. CASE q.ends[o].state = "gone"
    <3>1. Shape(n, e)
      BY <1>1, <1>6, <1>7, <1>10, <1>12, <2>1 DEF Shape, None
    <3>2. QED
      BY <3>1 DEF ShapeOK
  <2>2. CASE q.ends[o].state # "gone"
    <3>1. Shape(n, e)
      BY <1>1, <1>6, <1>7, <1>10, <1>11, <1>12, <2>2 DEF Shape, None, Acks
    <3>2. QED
      BY <3>1 DEF ShapeOK
  <2>3. QED
    BY <2>1, <2>2
<1>14. RowsOK(n)
  <2>1. RowOK(n.cmds[e])
    BY <1>2, <1>4, RowTail
  <2>2. RowOK(n.cmds[o])
    <3>1. CASE q.ends[e].state = "term_req_sent1"
      <4>1. ~Has(q.cmds[o], "pipe_term_ack") /\ n.cmds[o] = Append(q.cmds[o], c)
        BY <1>10, <3>1 DEF None
      <4>2. QED
        BY <1>2, <1>4, <4>1, RowAppend
    <3>2. QED
      BY <1>4, <1>12, <3>1
  <2>3. \A y \in Ends : RowOK(n.cmds[y])
    BY <1>1, <2>1, <2>2
  <2>4. ~Has(q.cmds["socket"], "term") /\ ~Has(q.cmds["session"], "hiccup")
    BY DEF Good, RowsOK
  <2>5. ~Has(n.cmds["socket"], "term") /\ ~Has(n.cmds["session"], "hiccup")
    BY <1>1, <1>3, <1>11, <2>4
  <2>6. QED
    BY <2>3, <2>5 DEF RowsOK
<1>15. GoneOK(n)
  <2>1. n.ends[o].state = "gone" => n.cmds[o] = q.cmds[o]
    BY <1>7, <1>10, <1>12
  <2>2. n.ends[o].state = "gone" => \A i \in 1..Len(n.cmds[o]) : n.cmds[o][i].type = "term"
    <3>1. q.ends[o].state = "gone" => \A i \in 1..Len(q.cmds[o]) : q.cmds[o][i].type = "term"
      BY <1>1 DEF Good, GoneOK
    <3>2. QED
      BY <1>7, <2>1, <3>1
  <2> SUFFICES ASSUME NEW x \in Ends, n.ends[x].state = "gone", NEW i \in 1..Len(n.cmds[x])
               PROVE  n.cmds[x][i].type = "term"
    BY DEF GoneOK
  <2>3. CASE x = e
    BY <1>5, <2>3
  <2>4. CASE x = o
    BY <2>2, <2>4
  <2>5. QED
    BY <1>1, <2>3, <2>4
<1>16. OutOK(n)
  BY <1>1, <1>7 DEF Good, OutOK, Silent
<1>17. ~Has(q.cmds["socket"], "hiccup")
  <2>1. CASE e = "socket"
    BY <1>8, <2>1
  <2>2. CASE o = "socket"
    BY <1>10, <2>2 DEF Good, ChainOK, Has, Silent
  <2>3. QED
    BY <1>1, <2>1, <2>2
<1>18. ChainOK(n)
  <2>1. ~Has(n.cmds["socket"], "hiccup")
    BY <1>1, <1>6, <1>11, <1>17
  <2>2. QED
    BY <1>1, <1>7, <1>17, <2>1, ChainEmpty DEF Good
<1>19. FreedOK(n)
  <2>1. /\ q.ends["session"].in \in 2..2 + MaxLosses /\ q.ends["socket"].in = 1
        /\ q.ends["socket"].out \in {0, q.ends["session"].in}
    <3>1. q.ends["session"].in \in 1..2 + MaxLosses
      BY <1>1, <1>2, Typed
    <3>2. q.ends["session"].in >= 2 /\ q.ends["socket"].in = 1
      BY DEF Good, OutOK
    <3>3. q.ends["socket"].out \in {0, q.ends["session"].in}
      BY <1>17 DEF Good, ChainOK
    <3>4. QED
      BY <3>1, <3>2, <3>3
  <2>2. n.ends["socket"].out = 0
    <3>1. e = "session" => q.ends["socket"].out = 0
      BY <1>1, <1>10 DEF Good, OutOK, Silent
    <3>2. QED
      BY <1>1, <1>7, <3>1
  <2>3. n.ends["session"].in = q.ends["session"].in
    BY <1>1, <1>7
  <2>4. FreedOK(q)
    BY DEF Good
  <2>5. 1 \in 1..2 + MaxLosses /\ 2 \in 1..2 + MaxLosses
    OBVIOUS
  <2>6. CASE e = "socket"
    <3>1. n.pipes[1].freed /\ \A i \in 2..2 + MaxLosses : n.pipes[i].freed = q.pipes[i].freed
      BY <2>1, <2>6
    <3>2. n.ends["session"].state = q.ends["session"].state
      BY <1>1, <1>7, <2>6
    <3>3. QED
      BY <2>1, <2>2, <2>3, <2>4, <2>5, <2>6, <3>1, <3>2, SMTT(30) DEF FreedOK
  <2>7. CASE e = "session"
    <3>1. /\ n.pipes[q.ends["session"].in].freed
          /\ \A i \in 1..2 + MaxLosses : i # q.ends["session"].in => n.pipes[i].freed = q.pipes[i].freed
      BY <2>1, <2>7
    <3>2. n.ends["socket"].state = q.ends["socket"].state
      BY <1>1, <1>7, <2>7
    <3>3. QED
      BY <2>1, <2>2, <2>3, <2>4, <2>5, <2>7, <3>1, <3>2 DEF FreedOK
  <2>8. QED
    BY <1>1, <2>6, <2>7
<1>20. YpipesOK(n, k)
  BY <1>1, <1>7, FramesKept DEF Good
<1>21. QED
  BY <1>10, <1>13, <1>14, <1>15, <1>16, <1>18, <1>19, <1>20 DEF Good

(* The session takes a new ypipe to read from, and says so. *)
LEMMA HiccupKeeps ==
    ASSUME MaxLosses \in Nat, NEW k, NEW q, NEW n, Good(q, k), n \in PairType,
           NEW c \in Commands, c.type = "hiccup",
           c.arg \in 1..2 + MaxLosses, c.arg > q.ends["session"].in,
           q.ends["session"].state = "active",
           n.ends["session"].state = q.ends["session"].state,
           n.ends["session"].in = c.arg, n.ends["session"].out = q.ends["session"].out,
           SameEnd(q, n, "socket"), Sent(q, n, "socket", c),
           SamePipes(q, n), n.failed = q.failed
    PROVE  Good(n, k)
<1> DEFINE s == q.cmds["socket"]
           d == n.cmds["socket"]
           in == q.ends["session"].in
           out == q.ends["socket"].out
<1>1. /\ "socket" \in Ends /\ "session" \in Ends /\ \A x \in Ends : x = "socket" \/ x = "session"
      /\ Other("socket") = "session" /\ Other("session") = "socket"
  BY Two
<1>2. /\ q \in PairType /\ s \in Seq(Commands)
      /\ in \in 1..2 + MaxLosses /\ out \in 0..2 + MaxLosses
  BY <1>1, Typed DEF Good
<1>3. /\ ~Has(s, "pipe_term") /\ ~Has(s, "pipe_term_ack")
      /\ q.ends["socket"].state \in {"active", "term_req_sent1"}
  <2>1. ShapeOK(q) /\ q.ends["session"].state \notin Silent
    BY DEF Good, Silent
  <2>2. QED
    BY <1>1, <2>1, Listens
<1>4. /\ n.cmds["session"] = q.cmds["session"] /\ d = Append(s, c)
      /\ \A t : Has(d, t) <=> Has(s, t) \/ c.type = t
  <2>1. n.cmds["session"] = q.cmds["session"] /\ d = Append(s, c)
    BY <1>1 DEF Sent
  <2>2. QED
    BY <1>2, <2>1, HasAppend
<1>5. /\ n.ends["socket"].state = q.ends["socket"].state
      /\ n.ends["socket"].in = q.ends["socket"].in /\ n.ends["socket"].out = out
  BY DEF SameEnd
<1>6. /\ Len(d) = Len(s) + 1 /\ Len(s) \in Nat /\ d[Len(s) + 1] = c
      /\ \A i \in 1..Len(s) : d[i] = s[i]
  BY <1>2, <1>4
<1>7. /\ in >= 2 /\ out \in 2..in /\ OutOK(q)
  <2>1. OutOK(q) /\ in >= 2
    BY DEF Good, OutOK
  <2>2. out # 0
    BY <1>1, <1>3, <2>1 DEF OutOK, Silent
  <2>3. QED
    BY <2>1, <2>2 DEF OutOK
<1>8. \A i \in 1..Len(s) : s[i].type = "hiccup" =>
          s[i].arg \in 3..in /\ s[i].arg > out /\ ~q.pipes[s[i].arg].freed
  BY DEF Good, ChainOK
<1>9. RowsOK(n)
  <2>1. RowOK(Append(s, c))
    BY <1>1, <1>2, <1>3, <1>8, RowAppend, SMTT(30) DEF Good, RowsOK
  <2>2. QED
    BY <1>1, <1>2, <2>1, RowsSent DEF Good
<1>10. ShapeOK(n)
  <2>1. PICK x \in Ends : Shape(q, x)
    BY DEF Good, ShapeOK
  <2>2. \A t \in {"pipe_term", "pipe_term_ack"}, y \in Ends : Has(n.cmds[y], t) <=> Has(q.cmds[y], t)
    BY <1>1, <1>4
  <2>3. \A y \in Ends : n.ends[y].state = q.ends[y].state /\ Other(y) \in Ends
    BY <1>1, <1>5
  <2>4. Shape(n, x)
    BY <2>1, <2>2, <2>3 DEF Shape, None, Asks, Acks, Both
  <2>5. QED
    BY <2>4 DEF ShapeOK
<1>11. \A x \in Ends : n.ends[x].state # "gone" /\ q.ends[x].state # "gone"
  BY <1>1, <1>3, <1>5
<1>12. OutOK(n)
  <2>1. \A x \in Ends : n.ends[x].state = q.ends[x].state /\ n.ends[x].out = q.ends[x].out
    BY <1>1, <1>5
  <2>2. n.ends["session"].in >= 2 /\ out \in 2..n.ends["session"].in
    BY <1>2, <1>7
  <2>3. QED
    BY <1>1, <1>5, <1>7, <2>1, <2>2 DEF OutOK
<1>13. ~q.pipes[c.arg].freed
  BY <1>2 DEF Good, FreedOK
<1>14. ChainOK(n)
  <2>1. ASSUME NEW i \in 1..Len(d), d[i].type = "hiccup"
        PROVE  /\ d[i].arg \in 3..c.arg /\ d[i].arg > out /\ ~n.pipes[d[i].arg].freed
               /\ n.ends["socket"].state \notin Silent \cup {"waiting_for_delimiter"}
    <3>1. n.ends["socket"].state \notin Silent \cup {"waiting_for_delimiter"}
      BY <1>3, <1>5 DEF Silent
    <3>2. CASE i \in 1..Len(s)
      <4>1. s[i].arg \in 3..in /\ s[i].arg > out /\ ~q.pipes[s[i].arg].freed
        BY <1>6, <1>8, <2>1, <3>2
      <4>2. s[i].arg \in 3..c.arg /\ s[i].arg \in 1..2 + MaxLosses
        BY <1>2, <4>1, SMTT(30)
      <4>3. QED
        <5>1. ~n.pipes[s[i].arg].freed
          BY <4>1, <4>2 DEF SamePipes
        <5>2. d[i] = s[i]
          BY <1>6, <3>2
        <5>3. QED
          BY <3>1, <4>1, <4>2, <5>1, <5>2
    <3>3. CASE i = Len(s) + 1
      <4>1. d[i] = c
        BY <1>6, <3>3
      <4>2. c.arg \in 3..c.arg /\ c.arg > out /\ c.arg \in 1..2 + MaxLosses
        BY <1>2, <1>7
      <4>3. ~n.pipes[c.arg].freed
        BY <1>13, <4>2 DEF SamePipes
      <4>4. QED
        BY <3>1, <4>1, <4>2, <4>3
    <3>4. i \in 1..Len(s) \/ i = Len(s) + 1
      BY <1>6
    <3>5. QED
      BY <3>2, <3>3, <3>4
  <2>2. Has(d, "hiccup") /\ \E i \in 1..Len(d) : d[i].type = "hiccup" /\ d[i].arg = c.arg
    <3>1. Len(s) + 1 \in 1..Len(d)
      BY <1>6
    <3>2. QED
      BY <1>6, <3>1 DEF Has
  <2>3. QED
    BY <1>5, <2>1, <2>2 DEF ChainOK
<1>15. FreedOK(n)
  <2>1. /\ out # 0 => ~q.pipes[out].freed
        /\ q.pipes[1].freed <=> q.ends["socket"].state = "gone"
        /\ in > 2 /\ out # 2 => q.pipes[2].freed
        /\ \A i \in in + 1..2 + MaxLosses : ~q.pipes[i].freed
    BY DEF Good, FreedOK
  <2>2. /\ 1 \in 1..2 + MaxLosses /\ 2 \in 1..2 + MaxLosses
        /\ \A i \in c.arg + 1..2 + MaxLosses : i \in in + 1..2 + MaxLosses /\ i \in 1..2 + MaxLosses
    BY <1>2
  <2>3. \A i \in 1..2 + MaxLosses : n.pipes[i].freed = q.pipes[i].freed
    BY DEF SamePipes
  <2>4. out # 0 => ~n.pipes[out].freed
    BY <1>2, <2>1, <2>3, SMTT(30)
  <2>5. n.pipes[1].freed <=> n.ends["socket"].state = "gone"
    BY <1>5, <2>1, <2>2, <2>3
  <2>6. n.pipes[c.arg].freed <=> n.ends["session"].state = "gone"
    BY <1>1, <1>11, <1>13, <2>3
  <2>7. c.arg > 2 /\ out # 2 => n.pipes[2].freed
    <3>1. out # 2 => in > 2
      BY <1>2, <1>7
    <3>2. QED
      BY <2>1, <2>2, <2>3, <3>1
  <2>8. \A i \in c.arg + 1..2 + MaxLosses : ~n.pipes[i].freed
    BY <2>1, <2>2, <2>3
  <2>9. QED
    BY <1>5, <2>4, <2>5, <2>6, <2>7, <2>8 DEF FreedOK
<1>16. YpipesOK(n, k)
  BY <1>1, <1>5, YpipesKept DEF Good
<1>17. QED
  BY <1>9, <1>10, <1>11, <1>12, <1>14, <1>15, <1>16 DEF Good, GoneOK

(* The socket takes it to write to, and deallocates the one before. *)
LEMMA NewPipeKeeps ==
    ASSUME MaxLosses \in Nat, NEW k, NEW q, NEW n, Good(q, k), n \in PairType,
           Taken(q, n, "socket"), Head(q.cmds["socket"]).type = "hiccup",
           n.ends["socket"].state = q.ends["socket"].state,
           n.ends["socket"].in = q.ends["socket"].in,
           n.ends["socket"].out = Head(q.cmds["socket"]).arg,
           SameEnd(q, n, "session"),
           \A i \in 1..2 + MaxLosses : /\ n.pipes[i].draft = q.pipes[i].draft
                                       /\ n.pipes[i].queue = q.pipes[i].queue,
           n.pipes[q.ends["socket"].out].freed,
           \A i \in 1..2 + MaxLosses :
               i # q.ends["socket"].out => n.pipes[i].freed = q.pipes[i].freed,
           n.failed = q.failed
    PROVE  Good(n, k)
<1> DEFINE s == q.cmds["socket"]
           d == n.cmds["socket"]
           in == q.ends["session"].in
           out == q.ends["socket"].out
           new == Head(s).arg
<1>1. /\ "socket" \in Ends /\ "session" \in Ends /\ \A x \in Ends : x = "socket" \/ x = "session"
      /\ Other("socket") = "session" /\ Other("session") = "socket"
  BY Two
<1>2. /\ q \in PairType /\ in \in 1..2 + MaxLosses /\ out \in 0..2 + MaxLosses
  BY <1>1, Typed DEF Good
<1>3. /\ s \in Seq(Commands) /\ s # <<>>
      /\ n.cmds["session"] = q.cmds["session"] /\ d = Tail(s)
      /\ \A t : Has(s, t) <=> "hiccup" = t \/ Has(d, t)
  <2>1. \A x \in Ends : Taken(q, n, x) =>
            /\ q.cmds[x] \in Seq(Commands) /\ q.cmds[x] # <<>>
            /\ n.cmds[Other(x)] = q.cmds[Other(x)] /\ n.cmds[x] = Tail(q.cmds[x])
            /\ \A t : Has(q.cmds[x], t) <=> Head(q.cmds[x]).type = t \/ Has(n.cmds[x], t)
    BY <1>2, HasTaken
  <2>2. QED
    BY <1>1, <2>1
<1>4. RowsOK(n)
  BY <1>1, <1>2, RowsTaken DEF Good
<1>5. /\ n.ends["session"].state = q.ends["session"].state
      /\ n.ends["session"].in = in /\ n.ends["session"].out = q.ends["session"].out
  BY DEF SameEnd
<1>6. /\ Len(d) = Len(s) - 1 /\ Len(s) \in Nat \ {0} /\ s[1] = Head(s)
      /\ \A i \in 1..Len(d) : i + 1 \in 1..Len(s) /\ d[i] = s[i + 1]
      /\ \A i \in 1..Len(s) : s[i] = Head(s) \/ (i - 1 \in 1..Len(d) /\ d[i - 1] = s[i])
  BY <1>3, RowTaken
<1>7. \A i \in 1..Len(d) : d[i].type = "hiccup" => new < d[i].arg
  BY <1>1, <1>3, RowTail DEF Good, RowsOK
<1>8. \A i \in 1..Len(s) : s[i].type = "hiccup" =>
          /\ s[i].arg \in 3..in /\ s[i].arg > out /\ ~q.pipes[s[i].arg].freed
          /\ q.ends["socket"].state \notin Silent \cup {"waiting_for_delimiter"}
  BY DEF Good, ChainOK
<1>9. /\ new \in 3..in /\ new > out /\ ~q.pipes[new].freed
      /\ q.ends["socket"].state \notin Silent \cup {"waiting_for_delimiter"}
  <2>1. 1 \in 1..Len(s)
    BY <1>6
  <2>2. QED
    BY <1>6, <1>8, <2>1
<1>10. OutOK(q) /\ out \in 2..in
  BY <1>1, <1>9 DEF Good, OutOK
<1>11. \A x \in Ends : n.ends[x].state = q.ends[x].state /\ Other(x) \in Ends
  BY <1>1, <1>5
<1>12. ShapeOK(n)
  <2>1. PICK x \in Ends : Shape(q, x)
    BY DEF Good, ShapeOK
  <2>2. \A t \in {"pipe_term", "pipe_term_ack"}, y \in Ends : Has(n.cmds[y], t) <=> Has(q.cmds[y], t)
    BY <1>1, <1>3
  <2>3. Shape(n, x)
    BY <1>11, <2>1, <2>2 DEF Shape, None, Asks, Acks, Both
  <2>4. QED
    BY <2>3 DEF ShapeOK
<1>13. GoneOK(n)
  <2>1. n.ends["socket"].state # "gone"
    BY <1>9 DEF Silent
  <2>2. QED
    BY <1>1, <1>3, <1>5, <2>1 DEF Good, GoneOK
<1>14. OutOK(n)
  <2>1. new \in 2..in /\ new # 0
    BY <1>2, <1>9
  <2>2. QED
    BY <1>1, <1>5, <1>9, <1>10, <2>1 DEF OutOK
<1>15. ChainOK(n)
  <2>1. ASSUME NEW i \in 1..Len(d), d[i].type = "hiccup"
        PROVE  /\ d[i].arg \in 3..in /\ d[i].arg > new /\ ~n.pipes[d[i].arg].freed
               /\ n.ends["socket"].state \notin Silent \cup {"waiting_for_delimiter"}
    <3>1. d[i].arg \in 3..in /\ d[i].arg > out /\ ~q.pipes[d[i].arg].freed
      <4>1. i + 1 \in 1..Len(s) /\ d[i] = s[i + 1]
        BY <1>6
      <4>2. QED
        BY <1>8, <2>1, <4>1
    <3>2. d[i].arg > new
      BY <1>2, <1>7, <1>9, <2>1, <3>1
    <3>3. d[i].arg \in 1..2 + MaxLosses /\ d[i].arg # out
      BY <1>2, <3>1
    <3>4. QED
      BY <1>9, <3>1, <3>2, <3>3
  <2>2. PICK j \in 1..Len(s) : s[j].type = "hiccup" /\ s[j].arg = in
    BY <1>3 DEF Good, ChainOK
  <2>3. CASE s[j] = Head(s)
    <3>1. new = in
      BY <2>2, <2>3
    <3>2. \A i \in 1..Len(d) : d[i].type # "hiccup"
      BY <1>2, <2>1, <3>1, SMTT(30)
    <3>3. ~Has(d, "hiccup")
      BY <3>2 DEF Has
    <3>4. QED
      BY <1>5, <3>1, <3>2, <3>3 DEF ChainOK
  <2>4. CASE j - 1 \in 1..Len(d) /\ d[j - 1] = s[j]
    <3>1. Has(d, "hiccup") /\ \E i \in 1..Len(d) : d[i].type = "hiccup" /\ d[i].arg = in
      BY <2>2, <2>4 DEF Has
    <3>2. QED
      BY <1>5, <2>1, <3>1 DEF ChainOK
  <2>5. QED
    BY <1>6, <2>3, <2>4
<1>16. FreedOK(n)
  <2>1. /\ q.pipes[1].freed <=> q.ends["socket"].state = "gone"
        /\ q.pipes[in].freed <=> q.ends["session"].state = "gone"
        /\ in > 2 /\ out # 2 => q.pipes[2].freed
        /\ \A i \in in + 1..2 + MaxLosses : ~q.pipes[i].freed
    BY DEF Good, FreedOK
  <2>2. \A i \in 1..2 + MaxLosses : i # out => n.pipes[i].freed = q.pipes[i].freed
    OBVIOUS
  <2>3. ~n.pipes[new].freed
    BY <1>2, <1>9, <2>2
  <2>4. n.pipes[1].freed <=> n.ends["socket"].state = "gone"
    <3>1. 1 \in 1..2 + MaxLosses /\ 1 # out
      BY <1>2, <1>10
    <3>2. QED
      BY <2>1, <2>2, <3>1
  <2>5. n.pipes[in].freed <=> n.ends["session"].state = "gone"
    <3>1. in # out
      BY <1>2, <1>9
    <3>2. QED
      BY <1>2, <1>5, <2>1, <2>2, <3>1
  <2>6. n.pipes[2].freed
    <3>1. 2 \in 1..2 + MaxLosses /\ in > 2
      BY <1>2, <1>9
    <3>2. CASE out = 2
      BY <3>2
    <3>3. CASE out # 2
      BY <2>1, <2>2, <3>1, <3>3
    <3>4. QED
      BY <3>2, <3>3
  <2>7. \A i \in in + 1..2 + MaxLosses : ~n.pipes[i].freed
    <3>1. \A i \in in + 1..2 + MaxLosses : i \in 1..2 + MaxLosses /\ i # out
      BY <1>2, <1>10
    <3>2. QED
      BY <2>1, <2>2, <3>1
  <2>8. QED
    BY <1>5, <2>3, <2>4, <2>5, <2>6, <2>7 DEF FreedOK
<1>17. YpipesOK(n, k)
  BY <1>11, FramesKept DEF Good
<1>18. QED
  BY <1>4, <1>12, <1>13, <1>14, <1>15, <1>16, <1>17 DEF Good

-----------------------------------------------------------------------------
(* What the session's end keeps of its state, and whether it can read.     *)

Lax(q, n) ==
    /\ n.ends["session"].in = q.ends["session"].in
    /\ n.ends["session"].state \in {"active", "waiting_for_delimiter"} =>
          /\ n.ends["session"].state = q.ends["session"].state
          /\ n.ends["session"].delay = q.ends["session"].delay
    /\ ToldFirst(q) => ToldFirst(n)

Kin(q, n) == Lax(q, n) /\ (Readable(q, "session") => Readable(n, "session"))

(* Steps can be composed. *)
LEMMA KinTrans ==
    ASSUME NEW q, NEW m, NEW n
    PROVE  /\ Kin(q, q) /\ Lax(q, q)
           /\ Lax(q, m) /\ Lax(m, n) => Lax(q, n)
           /\ Kin(q, m) /\ Kin(m, n) => Kin(q, n)
<1> HIDE DEF ToldFirst, Readable
<1>1. Lax(q, q) /\ (Lax(q, m) /\ Lax(m, n) => Lax(q, n))
  BY DEF Lax
<1>2. QED
  BY <1>1 DEF Kin

(* A step that keeps what the session reads keeps what its engine needs. *)
LEMMA KinFits ==
    ASSUME NEW k, NEW g, NEW h, NEW l, NEW q, NEW n, Fits(q, k, g, h, l), Kin(q, n)
    PROVE  Fits(n, k, g, h, l)
BY DEF Fits, Kin, Lax

(* The same for other steps, when no message is half read. *)
LEMMA LaxFits ==
    ASSUME NEW k, NEW g, NEW h, NEW l, NEW q, NEW n, Fits(q, k, g, h, l), Lax(q, n)
    PROVE  Fits(n, k, g, FALSE, l)
BY DEF Fits, Lax

(* Commands other than "term" do not make ToldFirst false. *)
LEMMA ToldKept ==
    ASSUME NEW q, NEW n, q.cmds["session"] \in Seq(Commands), NEW c \in Commands,
           n.ends["session"].state \in {"active", "delimiter_received"} =>
               q.ends["session"].state \in {"active", "delimiter_received"},
           \/ n.cmds["session"] = q.cmds["session"]
           \/ n.cmds["session"] = Append(q.cmds["session"], c) /\ c.type # "term",
           ToldFirst(q)
    PROVE  ToldFirst(n)
<1>1. CASE n.cmds["session"] = q.cmds["session"]
  BY <1>1 DEF ToldFirst
<1>2. CASE n.cmds["session"] = Append(q.cmds["session"], c) /\ c.type # "term"
  <2> DEFINE s == q.cmds["session"]
             d == n.cmds["session"]
  <2>1. /\ Len(d) = Len(s) + 1 /\ Len(s) \in Nat /\ d[Len(s) + 1] = c
        /\ \A i \in 1..Len(s) : d[i] = s[i]
    BY <1>2
  <2> SUFFICES ASSUME n.ends["session"].state \in {"active", "delimiter_received"},
                      NEW i \in 1..Len(d), d[i].type = "term"
               PROVE  \E j \in 1..i - 1 : d[j].type = "pipe_term"
    BY DEF ToldFirst
  <2>2. i \in 1..Len(s) /\ s[i].type = "term"
    BY <1>2, <2>1
  <2>3. PICK j \in 1..i - 1 : s[j].type = "pipe_term"
    BY <2>2 DEF ToldFirst
  <2>4. j \in 1..Len(s)
    BY <2>1, <2>2
  <2>5. QED
    BY <2>1, <2>3, <2>4
<1>3. QED
  BY <1>1, <1>2

(* When the session's end stays as it is and its next frame does. *)
LEMMA KinIs ==
    ASSUME NEW q \in PairType, NEW n, NEW c \in Commands,
           n.ends["session"].in = q.ends["session"].in,
           n.ends["session"].state = q.ends["session"].state,
           n.ends["session"].delay = q.ends["session"].delay,
           n.ends["session"].inActive = q.ends["session"].inActive,
           \/ n.cmds["session"] = q.cmds["session"]
           \/ n.cmds["session"] = Append(q.cmds["session"], c) /\ c.type # "term",
           LET s == q.pipes[q.ends["session"].in].queue
               d == n.pipes[q.ends["session"].in].queue
           IN  s # <<>> => d # <<>> /\ Head(d) = Head(s)
    PROVE  Kin(q, n)
<1>1. q.cmds["session"] \in Seq(Commands)
  BY Two, Typed
<1>2. ToldFirst(q) => ToldFirst(n)
  BY <1>1, ToldKept
<1>3. Lax(q, n)
  BY <1>2 DEF Lax
<1>4. Readable(q, "session") => Readable(n, "session")
  BY DEF Readable, MayRead, Inbound
<1>5. QED
  BY <1>3, <1>4 DEF Kin

-----------------------------------------------------------------------------
(* Sending, drafting and flushing. *)

LEMMA SendIs ==
    ASSUME NEW q \in PairType, NEW e \in Ends, NEW arg \in Int,
           NEW t \in Neutral \cup {"hiccup", "pipe_term", "pipe_term_ack", "term"}
    PROVE  LET n == Send(q, e, t, arg)
               c == [type |-> t, arg |-> arg]
           IN  /\ n \in PairType /\ c \in Commands /\ c.type = t /\ c.arg = arg
               /\ n.ends = q.ends /\ n.pipes = q.pipes /\ n.failed = q.failed
               /\ n.cmds[e] = Append(q.cmds[e], c)
               /\ n.cmds[Other(e)] = q.cmds[Other(e)]
               /\ Sent(q, n, e, c) /\ SamePipes(q, n)
               /\ \A x \in Ends : SameEnd(q, n, x)
<1> DEFINE n == Send(q, e, t, arg)
           c == [type |-> t, arg |-> arg]
<1>1. c \in Commands /\ c.type = t /\ c.arg = arg
  BY DEF Commands
<1>2. Other(e) \in Ends /\ Other(e) # e
  BY Two
<1>3. /\ q.cmds \in [Ends -> Seq(Commands)] /\ Append(q.cmds[e], c) \in Seq(Commands)
  BY <1>1, Typed DEF PairType
<1>4. /\ n.ends = q.ends /\ n.pipes = q.pipes /\ n.failed = q.failed
      /\ n.cmds = [q.cmds EXCEPT ![e] = Append(q.cmds[e], c)]
  BY DEF Send, PairType
<1>5. n.cmds \in [Ends -> Seq(Commands)]
  BY <1>3, <1>4
<1>6. n \in PairType
  BY <1>3 DEF Send, PairType
<1>7. n.cmds[e] = Append(q.cmds[e], c) /\ n.cmds[Other(e)] = q.cmds[Other(e)]
  BY <1>2, <1>3, <1>4
<1>8. QED
  BY <1>1, <1>4, <1>6, <1>7 DEF Sent, SamePipes, SameEnd

(* An end, or a ypipe, is changed. *)
LEMMA EndIs ==
    ASSUME NEW q \in PairType, NEW e \in Ends, NEW x \in EndType
    PROVE  LET n == [q EXCEPT !.ends[e] = x]
           IN  /\ n \in PairType /\ n.ends[e] = x /\ n.ends[Other(e)] = q.ends[Other(e)]
               /\ n.pipes = q.pipes /\ n.cmds = q.cmds /\ n.failed = q.failed
BY Two DEF PairType

(* A ypipe is changed. *)
LEMMA YpipeIs ==
    ASSUME NEW q \in PairType, NEW i \in 1..2 + MaxLosses, NEW y \in YpipeType
    PROVE  LET n == [q EXCEPT !.pipes[i] = y]
           IN  /\ n \in PairType /\ n.pipes[i] = y
               /\ \A j \in 1..2 + MaxLosses : j # i => n.pipes[j] = q.pipes[j]
               /\ n.ends = q.ends /\ n.cmds = q.cmds /\ n.failed = q.failed
BY DEF PairType

(* A draft of an unfinished message has no whole message; *)
LEMMA WholeNone ==
    ASSUME NEW d \in Seq(Frames), \A j \in 1..Len(d) : d[j] = "more"
    PROVE  Whole(d) = 0 /\ SubSeq(d, 1, 0) = <<>>
<1>1. DOMAIN d = 1..Len(d)
  OBVIOUS
<1>2. {i \in DOMAIN d : d[i] # "more"} = {}
  BY <1>1
<1>3. QED
  BY <1>2 DEF Whole

(* with the last frame, or a delimiter, it is whole. *)
LEMMA WholeAll ==
    ASSUME NEW d \in Seq(Frames), NEW f \in Frames, f # "more"
    PROVE  /\ Append(d, f) \in Seq(Frames)
           /\ Whole(Append(d, f)) = Len(d) + 1
           /\ SubSeq(Append(d, f), 1, Len(d) + 1) = Append(d, f)
           /\ SubSeq(Append(d, f), Len(d) + 2, Len(Append(d, f))) = <<>>
<1> DEFINE s == Append(d, f)
           last == {i \in DOMAIN s : s[i] # "more"}
<1>1. /\ s \in Seq(Frames) /\ Len(s) = Len(d) + 1 /\ Len(d) \in Nat
      /\ s[Len(d) + 1] = f /\ DOMAIN s = 1..Len(d) + 1
  OBVIOUS
<1>2. Len(d) + 1 \in last /\ \A i \in last : i <= Len(d) + 1
  BY <1>1
<1>3. \A i \in last : (\A j \in last : j <= i) => i = Len(d) + 1
  BY <1>1, <1>2
<1>4. (CHOOSE i \in last : \A j \in last : j <= i) = Len(d) + 1
  BY <1>2, <1>3
<1>5. last # {}
  BY <1>2
<1>6. Whole(s) = Len(d) + 1
  BY <1>4, <1>5 DEF Whole
<1>7. SubSeq(s, 1, Len(d) + 1) = s
  BY <1>1
<1>8. SubSeq(s, Len(d) + 2, Len(s)) = <<>>
  BY <1>1
<1>9. QED
  BY <1>1, <1>6, <1>7, <1>8

(* What a ypipe is made of. *)
LEMMA DraftsOpen ==
    ASSUME NEW k, NEW q, Good(q, k), NEW i \in 1..2 + MaxLosses
    PROVE  /\ q.pipes[i] \in YpipeType /\ YpipeOK(q.pipes[i], q, k, i)
           /\ q.pipes[i].draft \in Seq(Frames) /\ q.pipes[i].queue \in Seq(Frames)
           /\ q.pipes[i].freed \in BOOLEAN
BY DEF Good, PairType, YpipesOK, YpipeType

(* Ypipe i is changed to y. *)
Put(q, n, i, y) == n = [q EXCEPT !.pipes[i] = y]

(* A ypipe is changed in its frames only. *)
LEMMA PipeKeeps ==
    ASSUME MaxLosses \in Nat, NEW k, NEW q, Good(q, k), NEW i \in 1..2 + MaxLosses,
           NEW y \in YpipeType, y.freed = q.pipes[i].freed, YpipeOK(y, q, k, i),
           NEW n, Put(q, n, i, y)
    PROVE  /\ n \in PairType /\ Good(n, k) /\ Lax(q, n)
           /\ n.ends = q.ends /\ n.cmds = q.cmds /\ n.failed = q.failed
           /\ n.pipes[i] = y
           /\ (i = q.ends["session"].in /\ q.pipes[i].queue # <<>> =>
                  y.queue # <<>> /\ Head(y.queue) = Head(q.pipes[i].queue))
                => Kin(q, n)
<1>1. q \in PairType
  BY DEF Good
<1>2. /\ n \in PairType /\ n.pipes[i] = y
      /\ \A j \in 1..2 + MaxLosses : j # i => n.pipes[j] = q.pipes[j]
      /\ n.ends = q.ends /\ n.cmds = q.cmds /\ n.failed = q.failed
  BY <1>1, YpipeIs DEF Put
<1>3. \A e \in Ends : SameEnd(q, n, e)
  BY <1>2 DEF SameEnd
<1>4. \A j \in 1..2 + MaxLosses : n.pipes[j].freed = q.pipes[j].freed
  BY <1>2
<1>5. YpipeOK(n.pipes[i], q, k, i)
  BY <1>2
<1>6. Good(n, k)
  <2>1. \A j \in 1..2 + MaxLosses : j # i => /\ n.pipes[j].draft = q.pipes[j].draft
                                              /\ n.pipes[j].queue = q.pipes[j].queue
    BY <1>2
  <2>2. QED
    BY <1>2, <1>3, <1>4, <1>5, <2>1, YpipeKeeps
<1>7. Lax(q, n)
  BY <1>2 DEF Lax, ToldFirst
<1>8. ASSUME i = q.ends["session"].in /\ q.pipes[i].queue # <<>> =>
                y.queue # <<>> /\ Head(y.queue) = Head(q.pipes[i].queue)
      PROVE  Kin(q, n)
  <2>1. q.ends["session"].in \in 1..2 + MaxLosses
    BY <1>1, Two, Typed
  <2>2. Readable(q, "session") => Readable(n, "session")
    BY <1>2, <1>8, <2>1 DEF Readable, MayRead, Inbound
  <2>3. QED
    BY <1>7, <2>2 DEF Kin
<1>9. QED
  BY <1>2, <1>6, <1>7, <1>8

(* rollback *)
LEMMA RollbackKeeps ==
    ASSUME MaxLosses \in Nat, NEW k, NEW q, Good(q, k), NEW e \in Ends
    PROVE  LET n == Rollback(q, e)
           IN  /\ Good(n, k) /\ Kin(q, n)
               /\ n.ends = q.ends /\ n.cmds = q.cmds /\ n.failed = q.failed
               /\ q.ends[e].out # 0 => n.pipes[q.ends[e].out].draft = <<>>
<1>1. q \in PairType /\ q.ends[e].out \in 0..2 + MaxLosses
  BY Typed DEF Good
<1>2. CASE q.ends[e].out = 0
  BY <1>2, KinTrans DEF Rollback
<1>3. CASE q.ends[e].out # 0
  <2>1. PICK i \in 1..2 + MaxLosses : i = q.ends[e].out
    BY <1>1, <1>3
  <2> DEFINE y == [q.pipes[i] EXCEPT !.draft = <<>>]
             n == [q EXCEPT !.pipes[i] = y]
  <2>2. /\ q.pipes[i] \in YpipeType /\ YpipeOK(q.pipes[i], q, k, i)
        /\ q.pipes[i].draft \in Seq(Frames)
    BY DraftsOpen
  <2>3. SubSeq(q.pipes[i].draft, 1, Whole(q.pipes[i].draft)) = <<>>
    BY <2>2, WholeNone DEF YpipeOK
  <2>4. Rollback(q, e) = n
    BY <1>3, <2>1, <2>3 DEF Rollback
  <2>5. /\ y \in YpipeType /\ y.draft = <<>> /\ y.queue = q.pipes[i].queue
        /\ y.freed = q.pipes[i].freed
    <3>1. <<>> \in Seq(Frames)
      OBVIOUS
    <3>2. QED
      BY <2>2, <3>1 DEF YpipeType
  <2> HIDE DEF y, n
  <2>6. YpipeOK(y, q, k, i)
    BY <2>2, <2>5 DEF YpipeOK
  <2>7. /\ Good(n, k) /\ Kin(q, n) /\ n.pipes[i] = y
        /\ n.ends = q.ends /\ n.cmds = q.cmds /\ n.failed = q.failed
    <3>1. Put(q, n, i, y)
      BY DEF n, Put
    <3>2. q.pipes[i].queue # <<>> => y.queue # <<>> /\ Head(y.queue) = Head(q.pipes[i].queue)
      BY <2>5
    <3>3. /\ Good(n, k) /\ n.pipes[i] = y
          /\ n.ends = q.ends /\ n.cmds = q.cmds /\ n.failed = q.failed
          /\ (i = q.ends["session"].in /\ q.pipes[i].queue # <<>> =>
                 y.queue # <<>> /\ Head(y.queue) = Head(q.pipes[i].queue))
               => Kin(q, n)
      BY <2>5, <2>6, <3>1, PipeKeeps
    <3>4. QED
      BY <3>2, <3>3
  <2>8. QED
    BY <2>1, <2>4, <2>5, <2>7
<1>4. QED
  BY <1>2, <1>3

(* flush, with nothing whole to flush *)
LEMMA FlushNothing ==
    ASSUME NEW k, NEW q, Good(q, k), NEW e \in Ends
    PROVE  Flush(q, e) = q
<1>1. q.ends[e].out \in 0..2 + MaxLosses
  BY Typed DEF Good
<1>2. CASE q.ends[e].out = 0
  BY <1>2 DEF Flush
<1>3. CASE q.ends[e].out # 0
  <2>1. PICK i \in 1..2 + MaxLosses : i = q.ends[e].out
    BY <1>1, <1>3
  <2>2. q.pipes[i].draft \in Seq(Frames) /\ YpipeOK(q.pipes[i], q, k, i)
    BY DraftsOpen
  <2>3. Whole(q.pipes[i].draft) = 0
    BY <2>2, WholeNone DEF YpipeOK
  <2>4. QED
    BY <2>1, <2>3 DEF Flush
<1>4. QED
  BY <1>2, <1>3

(* A command other than term changes nothing the session can read. *)
LEMMA SentKin ==
    ASSUME NEW q \in PairType, NEW n, NEW e \in Ends, NEW c \in Commands,
           c.type # "term", Sent(q, n, e, c), n.pipes = q.pipes, n.ends = q.ends
    PROVE  Kin(q, n)
<1>1. \/ n.cmds["session"] = q.cmds["session"]
      \/ n.cmds["session"] = Append(q.cmds["session"], c)
  BY Two DEF Sent
<1>2. QED
  BY <1>1, KinIs

(* A command that is no part of the handshake is sent to the other end. *)
LEMMA NeutralKeeps ==
    ASSUME MaxLosses \in Nat, NEW k, NEW q, Good(q, k), NEW e \in Ends,
           q.ends[e].state \notin Silent, NEW t \in Neutral, NEW arg \in Int,
           NEW n, n = Send(q, Other(e), t, arg)
    PROVE  Good(n, k) /\ Kin(q, n) /\ n.ends = q.ends /\ n.pipes = q.pipes
<1> DEFINE c == [type |-> t, arg |-> arg]
<1>1. Other(e) \in Ends /\ t # "term" /\ q \in PairType
  BY Two DEF Neutral, Good
<1>2. /\ n \in PairType /\ c \in Commands /\ c.type = t
      /\ n.ends = q.ends /\ n.pipes = q.pipes /\ n.failed = q.failed
      /\ Sent(q, n, Other(e), c) /\ SamePipes(q, n)
      /\ \A x \in Ends : SameEnd(q, n, x)
  BY <1>1, SendIs
<1> HIDE DEF c
<1>3. Good(n, k)
  BY <1>1, <1>2, SendKeeps
<1>4. Kin(q, n)
  BY <1>1, <1>2, SentKin
<1>5. QED
  BY <1>2, <1>3, <1>4

(* What the reader finds when a draft is ended by f and flushed. *)
LEMMA FramesJoin ==
    ASSUME NEW s \in Seq(Frames), FramesOK(s),
           NEW d \in Seq(Frames), \A j \in 1..Len(d) : d[j] = "more",
           NEW f \in Frames, f = "end" \/ (f = "delimiter" /\ d = <<>>)
    PROVE  LET t == s \o Append(d, f)
           IN  /\ t \in Seq(Frames) /\ FramesOK(t) /\ t # <<>>
               /\ s # <<>> => Head(t) = Head(s)
               /\ \A j \in 1..Len(t) : \/ j \in 1..Len(s) /\ t[j] = s[j]
                                       \/ t[j] = f
                                       \/ t[j] = "more" /\ d # <<>>
<1> DEFINE t == s \o Append(d, f)
<1>1. /\ t \in Seq(Frames) /\ Len(t) = Len(s) + Len(d) + 1
      /\ Len(s) \in Nat /\ Len(d) \in Nat
  OBVIOUS
<1>2. /\ \A j \in 1..Len(s) : t[j] = s[j]
      /\ \A j \in Len(s) + 1..Len(s) + Len(d) : t[j] = "more"
      /\ t[Len(s) + Len(d) + 1] = f
  <2>1. /\ Append(d, f) \in Seq(Frames) /\ Len(Append(d, f)) = Len(d) + 1
        /\ \A j \in 1..Len(d) : Append(d, f)[j] = "more"
        /\ Append(d, f)[Len(d) + 1] = f
    OBVIOUS
  <2>2. \A j \in 1..Len(t) : t[j] = IF j <= Len(s) THEN s[j] ELSE Append(d, f)[j - Len(s)]
    BY <2>1
  <2>3. \A j \in 1..Len(s) : t[j] = s[j]
    BY <1>1, <2>2
  <2>4. ASSUME NEW j \in Len(s) + 1..Len(s) + Len(d)
        PROVE  t[j] = "more"
    <3>1. j - Len(s) \in 1..Len(d) /\ j \in 1..Len(t) /\ ~(j <= Len(s))
      BY <1>1
    <3>2. QED
      BY <2>1, <2>2, <3>1
  <2>5. t[Len(s) + Len(d) + 1] = f
    <3>1. LET j == Len(s) + Len(d) + 1
          IN  j - Len(s) = Len(d) + 1 /\ j \in 1..Len(t) /\ ~(j <= Len(s))
      BY <1>1
    <3>2. QED
      BY <2>1, <2>2, <3>1
  <2>6. QED
    BY <2>3, <2>4, <2>5
<1> HIDE DEF t
<1>3. \A j \in 1..Len(t) : \/ j \in 1..Len(s)
                           \/ j \in Len(s) + 1..Len(s) + Len(d)
                           \/ j = Len(s) + Len(d) + 1
  BY <1>1
<1>4. Len(d) > 0 => d # <<>>
  OBVIOUS
<1>5. \A j \in 1..Len(t) : \/ j \in 1..Len(s) /\ t[j] = s[j]
                           \/ t[j] = f
                           \/ t[j] = "more" /\ d # <<>>
  BY <1>1, <1>2, <1>3, <1>4
<1>6. FramesOK(t)
  <2> SUFFICES ASSUME NEW j \in 1..Len(t), t[j] = "more"
               PROVE  j < Len(t) /\ t[j + 1] \in {"more", "end"}
    BY DEF FramesOK
  <2>1. CASE j \in 1..Len(s)
    <3>1. j < Len(s) /\ s[j + 1] \in {"more", "end"}
      BY <1>2, <2>1 DEF FramesOK
    <3>2. j + 1 \in 1..Len(s)
      BY <1>1, <2>1, <3>1
    <3>3. QED
      BY <1>1, <1>2, <2>1, <3>1, <3>2
  <2>2. CASE j \in Len(s) + 1..Len(s) + Len(d)
    <3>1. Len(d) > 0 /\ f = "end"
      BY <1>1, <1>4, <2>2
    <3>2. j + 1 \in Len(s) + 1..Len(s) + Len(d) \/ j + 1 = Len(s) + Len(d) + 1
      BY <1>1, <2>2
    <3>3. QED
      BY <1>1, <1>2, <2>2, <3>1, <3>2
  <2>3. CASE j = Len(s) + Len(d) + 1
    BY <1>2, <2>3
  <2>4. QED
    BY <1>3, <2>1, <2>2, <2>3
<1>7. t # <<>> /\ (s # <<>> => Head(t) = Head(s))
  <2>1. t # <<>>
    BY <1>1
  <2>2. ASSUME s # <<>> PROVE Head(t) = Head(s)
    <3>1. 1 \in 1..Len(s) /\ Head(s) = s[1]
      BY <2>2
    <3>2. Head(t) = t[1]
      BY <1>1
    <3>3. QED
      BY <1>2, <3>1, <3>2
  <2>3. QED
    BY <2>1, <2>2
<1>8. QED
  BY <1>1, <1>5, <1>6, <1>7 DEF t

(* The draft of ypipe i is ended by f, and joins the queue. *)
Joined(y, f) ==
    [y EXCEPT !.queue = @ \o Append(y.draft, f), !.draft = <<>>, !.asleep = FALSE]

(* The last frame, or the delimiter, is written and flushed. *)
LEMMA JoinKeeps ==
    ASSUME MaxLosses \in Nat, NEW k, NEW q, Good(q, k), NEW i \in 1..2 + MaxLosses,
           NEW f \in {"end", "delimiter"},
           f = "delimiter" => /\ q.pipes[i].draft = <<>>
                              /\ q.ends[IF i = 1 THEN "session" ELSE "socket"].state # "active",
           NEW m, Put(q, m, i, Joined(q.pipes[i], f))
    PROVE  m \in PairType /\ Good(m, k) /\ Kin(q, m) /\ m.ends = q.ends
<1> DEFINE d == q.pipes[i].draft
           s == q.pipes[i].queue
           t == s \o Append(d, f)
           y == Joined(q.pipes[i], f)
<1>1. /\ q.pipes[i] \in YpipeType /\ YpipeOK(q.pipes[i], q, k, i)
      /\ d \in Seq(Frames) /\ s \in Seq(Frames)
  BY DraftsOpen
<1>2. f \in Frames /\ (f = "end" \/ (f = "delimiter" /\ d = <<>>))
  BY DEF Frames
<1>3. FramesOK(s) /\ \A j \in 1..Len(d) : d[j] = "more"
  BY <1>1 DEF YpipeOK
<1>4. /\ t \in Seq(Frames) /\ FramesOK(t) /\ t # <<>>
      /\ s # <<>> => Head(t) = Head(s)
      /\ \A j \in 1..Len(t) : \/ j \in 1..Len(s) /\ t[j] = s[j]
                              \/ t[j] = f
                              \/ t[j] = "more" /\ d # <<>>
  <2> HIDE DEF d, s
  <2>1. QED
    BY <1>1, <1>2, <1>3, FramesJoin
<1>5. <<>> \in Seq(Frames) /\ FALSE \in BOOLEAN
  OBVIOUS
<1> HIDE DEF t
<1>6. /\ y \in YpipeType /\ y.freed = q.pipes[i].freed /\ y.draft = <<>> /\ y.queue = t
  BY <1>1, <1>4, <1>5 DEF YpipeType, Joined, t
<1> HIDE DEF y
<1>7. YpipeOK(y, q, k, i)
  <2>1. (\E j \in 1..Len(t) : t[j] = "delimiter") =>
            q.ends[IF i = 1 THEN "session" ELSE "socket"].state # "active"
    BY <1>1, <1>4 DEF YpipeOK
  <2>2. k = "sub" /\ i >= 2 => \A j \in 1..Len(t) : t[j] # "more"
    BY <1>1, <1>4 DEF YpipeOK
  <2>3. \A j \in 1..Len(y.draft) : y.draft[j] = "more"
    BY <1>6
  <2>4. QED
    BY <1>4, <1>6, <2>1, <2>2, <2>3 DEF YpipeOK
<1>8. Put(q, m, i, y)
  BY DEF y
<1>9. /\ m \in PairType /\ Good(m, k) /\ m.ends = q.ends
      /\ (i = q.ends["session"].in /\ q.pipes[i].queue # <<>> =>
             y.queue # <<>> /\ Head(y.queue) = Head(q.pipes[i].queue))
           => Kin(q, m)
  BY <1>6, <1>7, <1>8, PipeKeeps
<1>10. QED
  BY <1>4, <1>6, <1>9

(* What flush does then: a sleeping reader is told. *)
LEMMA FlushEnd ==
    ASSUME NEW q \in PairType, NEW e \in Ends, NEW i \in 1..2 + MaxLosses,
           i = q.ends[e].out, q.ends[e].state # "term_ack_sent",
           NEW f \in {"end", "delimiter"}, MaxLosses \in Nat,
           NEW n, Put(q, n, i, Joined(q.pipes[i], f))
    PROVE  Flush(Draft(q, e, f), e) =
               IF q.pipes[i].asleep THEN Send(n, Other(e), "activate_read", 0) ELSE n
<1> DEFINE d == q.pipes[i].draft
           q1 == Draft(q, e, f)
           y1 == q1.pipes[i]
           m == [q EXCEPT !.pipes[i] = Joined(q.pipes[i], f)]
           num == Whole(y1.draft)
           flushed == [q1 EXCEPT !.pipes[i] =
                          [y1 EXCEPT !.queue = @ \o SubSeq(y1.draft, 1, num),
                                     !.draft = SubSeq(@, num + 1, Len(@)),
                                     !.asleep = FALSE]]
<1>1. q.pipes[i] \in YpipeType /\ d \in Seq(Frames) /\ f \in Frames /\ f # "more" /\ i # 0
  BY Typed DEF Frames, PairType
<1>2. q1 = [q EXCEPT !.pipes[i].draft = Append(@, f)]
  BY DEF Draft
<1>3. q1.ends = q.ends /\ y1 = [q.pipes[i] EXCEPT !.draft = Append(d, f)]
  BY <1>1, <1>2 DEF PairType
<1>4. /\ y1.draft = Append(d, f) /\ y1.asleep = q.pipes[i].asleep
      /\ y1.queue = q.pipes[i].queue
  BY <1>1, <1>3 DEF YpipeType
<1>5. /\ num = Len(d) + 1 /\ num # 0
      /\ SubSeq(Append(d, f), 1, Len(d) + 1) = Append(d, f)
      /\ SubSeq(Append(d, f), Len(d) + 1 + 1, Len(Append(d, f))) = <<>>
  <2>1. Len(d) \in Nat /\ Len(d) + 1 + 1 = Len(d) + 2 /\ Len(d) + 1 # 0
    <3> HIDE DEF d
    <3>1. QED
      BY <1>1
  <2>2. /\ Whole(Append(d, f)) = Len(d) + 1
        /\ SubSeq(Append(d, f), 1, Len(d) + 1) = Append(d, f)
        /\ SubSeq(Append(d, f), Len(d) + 2, Len(Append(d, f))) = <<>>
    <3> HIDE DEF d
    <3>1. QED
      BY <1>1, WholeAll
  <2>3. QED
    BY <1>4, <2>1, <2>2
<1>6. flushed = m
  <2>1. [y1 EXCEPT !.queue = @ \o SubSeq(y1.draft, 1, num),
                   !.draft = SubSeq(@, num + 1, Len(@)), !.asleep = FALSE]
        = [y1 EXCEPT !.queue = @ \o Append(d, f), !.draft = <<>>, !.asleep = FALSE]
    BY <1>4, <1>5
  <2>2. [y1 EXCEPT !.queue = @ \o Append(d, f), !.draft = <<>>, !.asleep = FALSE]
        = Joined(q.pipes[i], f)
    BY <1>1, <1>3 DEF YpipeType, Joined
  <2>3. flushed = [q1 EXCEPT !.pipes[i] = Joined(q.pipes[i], f)]
    BY <2>1, <2>2
  <2>4. [q1 EXCEPT !.pipes[i] = Joined(q.pipes[i], f)] = m
    <3> DEFINE J == Joined(q.pipes[i], f)
    <3> HIDE DEF J
    <3>1. q1.pipes = [q.pipes EXCEPT ![i].draft = Append(@, f)]
      BY <1>2 DEF PairType
    <3>2. [q1.pipes EXCEPT ![i] = J] = [q.pipes EXCEPT ![i] = J]
      BY <3>1 DEF PairType
    <3>3. [q1 EXCEPT !.pipes = [q1.pipes EXCEPT ![i] = J]]
          = [q EXCEPT !.pipes = [q.pipes EXCEPT ![i] = J]]
      BY <1>2, <3>2 DEF PairType
    <3>4. QED
      BY <3>3 DEF J
  <2>5. QED
    BY <2>3, <2>4
<1>7. q1.ends[e].out = i /\ q1.ends[e].state # "term_ack_sent"
  BY <1>3
<1>8. Flush(q1, e) = IF y1.asleep THEN Send(flushed, Other(e), "activate_read", 0) ELSE flushed
  <2> HIDE DEF q1
  <2>1. QED
    BY <1>1, <1>5, <1>7 DEF Flush
<1>9. n = m
  BY DEF Put
<1>10. QED
  BY <1>4, <1>6, <1>8, <1>9

(* A message, or the flow, is ended and flushed. *)
LEMMA EndKeeps ==
    ASSUME MaxLosses \in Nat, NEW k, NEW q, Good(q, k), NEW e \in Ends,
           q.ends[e].out # 0, NEW f \in {"end", "delimiter"},
           f = "delimiter" => /\ q.ends[e].state # "active"
                              /\ q.pipes[q.ends[e].out].draft = <<>>,
           NEW n, n = Flush(Draft(q, e, f), e)
    PROVE  Good(n, k) /\ Kin(q, n) /\ n.ends = q.ends
<1>1. q \in PairType /\ q.ends[e].out \in 0..2 + MaxLosses
  BY Typed DEF Good
<1>2. PICK i \in 1..2 + MaxLosses : i = q.ends[e].out
  BY <1>1
<1> DEFINE m == [q EXCEPT !.pipes[i] = Joined(q.pipes[i], f)]
<1>3. q.ends[e].state \notin Silent
  BY DEF Good, OutOK
<1>4. n = IF q.pipes[i].asleep THEN Send(m, Other(e), "activate_read", 0) ELSE m
  <2>1. q.ends[e].state # "term_ack_sent"
    BY <1>3 DEF Silent
  <2>2. Flush(Draft(q, e, f), e) =
            IF q.pipes[i].asleep THEN Send(m, Other(e), "activate_read", 0) ELSE m
    <3>1. Put(q, m, i, Joined(q.pipes[i], f))
      BY DEF Put
    <3> HIDE DEF m
    <3>2. QED
      BY <1>1, <1>2, <2>1, <3>1, FlushEnd
  <2>3. QED
    BY <2>2
<1>5. e = IF i = 1 THEN "session" ELSE "socket"
  <2>1. OutOK(q) /\ (e = "socket" \/ e = "session") /\ q.ends["session"].in \in Nat
    BY <1>1, Two, Typed DEF Good
  <2>2. e = "socket" => i # 1
    BY <1>2, <2>1 DEF OutOK
  <2>3. e = "session" => i = 1
    BY <1>2, <2>1 DEF OutOK
  <2>4. QED
    BY <2>1, <2>2, <2>3
<1>6. m \in PairType /\ Good(m, k) /\ Kin(q, m) /\ m.ends = q.ends
  <2>1. Put(q, m, i, Joined(q.pipes[i], f))
    BY DEF Put
  <2> HIDE DEF m
  <2>2. f = "delimiter" => /\ q.pipes[i].draft = <<>>
                           /\ q.ends[IF i = 1 THEN "session" ELSE "socket"].state # "active"
    BY <1>2, <1>5
  <2>3. QED
    BY <2>1, <2>2, JoinKeeps
<1> HIDE DEF m
<1>7. CASE ~q.pipes[i].asleep
  BY <1>4, <1>6, <1>7
<1>8. CASE q.pipes[i].asleep
  <2>1. "activate_read" \in Neutral /\ 0 \in Int /\ m.ends[e].state \notin Silent
    BY <1>3, <1>6 DEF Neutral
  <2>2. n = Send(m, Other(e), "activate_read", 0)
    BY <1>4, <1>8
  <2>3. Good(n, k) /\ Kin(m, n) /\ n.ends = m.ends
    BY <1>6, <2>1, <2>2, NeutralKeeps
  <2>4. QED
    BY <1>6, <2>3, KinTrans
<1>9. QED
  BY <1>7, <1>8

-----------------------------------------------------------------------------
(* Writing. *)

(* What the invariant does not speak of is changed in the end e.           *)
PutEnd(q, n, e, x) == n = [q EXCEPT !.ends[e] = x]

(* An end changes in its counters, marks, flags or its delay, *)
LEMMA EndGood ==
    ASSUME MaxLosses \in Nat, NEW k, NEW q, Good(q, k), NEW e \in Ends, NEW x \in EndType,
           x.state = q.ends[e].state, x.in = q.ends[e].in, x.out = q.ends[e].out,
           NEW n, PutEnd(q, n, e, x)
    PROVE  /\ n \in PairType /\ Good(n, k)
           /\ n.ends[e] = x /\ n.ends[Other(e)] = q.ends[Other(e)]
           /\ n.pipes = q.pipes /\ n.cmds = q.cmds /\ n.failed = q.failed
<1>1. q \in PairType /\ Other(e) \in Ends /\ \A y \in Ends : y = e \/ y = Other(e)
  BY Two DEF Good
<1>2. /\ n \in PairType /\ n.ends[e] = x /\ n.ends[Other(e)] = q.ends[Other(e)]
      /\ n.pipes = q.pipes /\ n.cmds = q.cmds /\ n.failed = q.failed
  BY <1>1, EndIs DEF PutEnd
<1>3. \A y \in Ends : /\ n.ends[y].state = q.ends[y].state
                      /\ n.ends[y].in = q.ends[y].in /\ n.ends[y].out = q.ends[y].out
  BY <1>1, <1>2
<1>4. Alike(q, n)
  BY <1>2, <1>3 DEF Alike
<1>5. Good(n, k)
  BY <1>4, AlikeKeeps
<1>6. QED
  BY <1>2, <1>5

(* or in all of these but its delay. *)
LEMMA EndKept ==
    ASSUME MaxLosses \in Nat, NEW k, NEW q, Good(q, k), NEW e \in Ends, NEW x \in EndType,
           x.state = q.ends[e].state, x.delay = q.ends[e].delay,
           x.in = q.ends[e].in, x.out = q.ends[e].out,
           NEW n, PutEnd(q, n, e, x)
    PROVE  /\ n \in PairType /\ Good(n, k) /\ Lax(q, n)
           /\ n.ends[e] = x /\ n.ends[Other(e)] = q.ends[Other(e)]
           /\ n.pipes = q.pipes /\ n.cmds = q.cmds /\ n.failed = q.failed
           /\ (q.ends["session"].inActive => n.ends["session"].inActive) => Kin(q, n)
<1>1. \A y \in Ends : y = e \/ y = Other(e)
  BY Two
<1>2. /\ n \in PairType /\ Good(n, k) /\ n.ends[e] = x /\ n.ends[Other(e)] = q.ends[Other(e)]
      /\ n.pipes = q.pipes /\ n.cmds = q.cmds /\ n.failed = q.failed
  BY EndGood
<1>3. \A y \in Ends : /\ n.ends[y].state = q.ends[y].state /\ n.ends[y].delay = q.ends[y].delay
                      /\ n.ends[y].in = q.ends[y].in
  BY <1>1, <1>2
<1>4. /\ n.ends["session"].state = q.ends["session"].state
      /\ n.ends["session"].delay = q.ends["session"].delay
      /\ n.ends["session"].in = q.ends["session"].in
  BY <1>3, Two
<1>5. Lax(q, n)
  BY <1>2, <1>4 DEF Lax, ToldFirst
<1>6. (q.ends["session"].inActive => n.ends["session"].inActive) =>
          (Readable(q, "session") => Readable(n, "session"))
  BY <1>2, <1>4 DEF Readable, MayRead, Inbound
<1>7. QED
  BY <1>2, <1>5, <1>6 DEF Kin

(* A frame of a message is written. *)
LEMMA DraftKeeps ==
    ASSUME MaxLosses \in Nat, NEW k, NEW q, Good(q, k), NEW e \in Ends,
           q.ends[e].out # 0, k # "sub" \/ e = "session",
           NEW n, n = Draft(q, e, "more")
    PROVE  Good(n, k) /\ Kin(q, n)
<1>1. q \in PairType /\ q.ends[e].out \in 0..2 + MaxLosses
  BY Typed DEF Good
<1>2. PICK i \in 1..2 + MaxLosses : i = q.ends[e].out
  BY <1>1
<1> DEFINE d == q.pipes[i].draft
           y == [q.pipes[i] EXCEPT !.draft = Append(d, "more")]
<1>3. /\ q.pipes[i] \in YpipeType /\ YpipeOK(q.pipes[i], q, k, i) /\ d \in Seq(Frames)
  BY DraftsOpen
<1>4. \A j \in 1..Len(d) : d[j] = "more"
  BY <1>3 DEF YpipeOK
<1>5. /\ Append(d, "more") \in Seq(Frames)
      /\ \A j \in 1..Len(Append(d, "more")) : Append(d, "more")[j] = "more"
  <2>1. "more" \in Frames
    BY DEF Frames
  <2> HIDE DEF d
  <2>2. QED
    BY <1>3, <1>4, <2>1
<1>6. /\ y \in YpipeType /\ y.draft = Append(d, "more") /\ y.queue = q.pipes[i].queue
      /\ y.freed = q.pipes[i].freed
  BY <1>3, <1>5 DEF YpipeType
<1> HIDE DEF d
<1>7. k = "sub" => ~(i >= 2)
  <2>1. e = "session" => i = 1
    BY <1>2 DEF Good, OutOK
  <2>2. QED
    BY <2>1
<1>8. Put(q, n, i, y)
  BY <1>2 DEF Put, Draft, d
<1> HIDE DEF y
<1>9. YpipeOK(y, q, k, i)
  BY <1>3, <1>5, <1>6, <1>7 DEF YpipeOK
<1>10. Good(n, k) /\ Kin(q, n)
  <2>1. q.pipes[i].queue # <<>> => y.queue # <<>> /\ Head(y.queue) = Head(q.pipes[i].queue)
    BY <1>6
  <2>2. /\ Good(n, k)
        /\ (i = q.ends["session"].in /\ q.pipes[i].queue # <<>> =>
               y.queue # <<>> /\ Head(y.queue) = Head(q.pipes[i].queue))
             => Kin(q, n)
    BY <1>6, <1>8, <1>9, PipeKeeps
  <2>3. QED
    BY <2>1, <2>2
<1>11. QED
  BY <1>10

(* A pipe that is full, or ends, refuses the frame. *)
LEMMA RefusedKeeps ==
    ASSUME MaxLosses \in Nat, NEW k, NEW q, Good(q, k), NEW e \in Ends, ~Writable(q, e),
           NEW f, NEW n, n = WriteFrame(q, e, f)
    PROVE  Good(n, k) /\ Kin(q, n)
<1> DEFINE x == [q.ends[e] EXCEPT !.outActive = @ /\ q.ends[e].state # "active"]
<1>1. q \in PairType /\ q.ends[e] \in EndType
  BY DEF Good, PairType
<1>2. /\ x \in EndType /\ x.state = q.ends[e].state /\ x.delay = q.ends[e].delay
      /\ x.in = q.ends[e].in /\ x.out = q.ends[e].out /\ x.inActive = q.ends[e].inActive
  BY <1>1 DEF EndType
<1>3. PutEnd(q, n, e, x)
  BY DEF PutEnd, WriteFrame
<1> HIDE DEF x
<1>4. /\ Good(n, k) /\ n.ends[e] = x /\ n.ends[Other(e)] = q.ends[Other(e)]
      /\ (q.ends["session"].inActive => n.ends["session"].inActive) => Kin(q, n)
  BY <1>2, <1>3, EndKept
<1>5. q.ends["session"].inActive => n.ends["session"].inActive
  BY <1>2, <1>4, Two
<1>6. QED
  BY <1>4, <1>5

(* A frame is accepted: the pipe is as if its count had been changed       *)
(* before.                                                                 *)
LEMMA AcceptedIs ==
    ASSUME MaxLosses \in Nat, NEW k, NEW q, Good(q, k), NEW e \in Ends, Writable(q, e),
           NEW f \in {"more", "end"}
    PROVE  /\ q.ends[e].out # 0
           /\ \E m : /\ Good(m, k) /\ Kin(q, m) /\ m.ends[e].out = q.ends[e].out
                     /\ WriteFrame(q, e, f) = Draft(m, e, f)
<1>1. q \in PairType /\ q.ends[e] \in EndType /\ q.ends[e].out \in 0..2 + MaxLosses
  BY Typed DEF Good, PairType
<1>2. q.ends[e].out # 0
  BY DEF Writable, Good, OutOK, Silent
<1> DEFINE w == q.ends[e].written + IF f = "end" THEN 1 ELSE 0
           x == [q.ends[e] EXCEPT !.written = w]
           m == [q EXCEPT !.ends[e] = x]
<1>3. w \in Int
  BY <1>1 DEF EndType
<1> HIDE DEF w
<1>4. /\ x \in EndType /\ x.state = q.ends[e].state /\ x.delay = q.ends[e].delay
      /\ x.in = q.ends[e].in /\ x.out = q.ends[e].out /\ x.inActive = q.ends[e].inActive
  BY <1>1, <1>3 DEF EndType
<1>5. PutEnd(q, m, e, x)
  BY DEF PutEnd
<1>6. WriteFrame(q, e, f) = [Draft(q, e, f) EXCEPT !.ends[e].written = w]
  BY DEF WriteFrame, Draft, PairType, w
<1>7. [Draft(q, e, f) EXCEPT !.ends[e].written = w] = Draft(m, e, f)
  <2>1. m.ends[e].out = q.ends[e].out
    BY <1>1 DEF PairType, EndType
  <2>2. QED
    BY <1>1, <2>1 DEF Draft, PairType
<1> HIDE DEF m, x
<1>8. /\ Good(m, k) /\ m.ends[e] = x /\ m.ends[Other(e)] = q.ends[Other(e)]
      /\ (q.ends["session"].inActive => m.ends["session"].inActive) => Kin(q, m)
  BY <1>4, <1>5, EndKept
<1>9. q.ends["session"].inActive => m.ends["session"].inActive
  BY <1>4, <1>8, Two
<1>10. QED
  BY <1>2, <1>4, <1>6, <1>7, <1>8, <1>9

(* write, of the frames of a message *)
LEMMA WriteKeeps ==
    ASSUME MaxLosses \in Nat, NEW k, NEW q, Good(q, k), NEW e \in Ends, Writable(q, e)
    PROVE  /\ k # "sub" \/ e = "session" =>
                 Good(WriteFrame(q, e, "more"), k) /\ Kin(q, WriteFrame(q, e, "more"))
           /\ LET n == Flush(WriteFrame(q, e, "end"), e)
              IN  Good(n, k) /\ Kin(q, n)
<1>1. ASSUME k # "sub" \/ e = "session"
      PROVE  Good(WriteFrame(q, e, "more"), k) /\ Kin(q, WriteFrame(q, e, "more"))
  <2>1. PICK m : /\ Good(m, k) /\ Kin(q, m) /\ m.ends[e].out # 0
                 /\ WriteFrame(q, e, "more") = Draft(m, e, "more")
    BY AcceptedIs
  <2>2. Good(Draft(m, e, "more"), k) /\ Kin(m, Draft(m, e, "more"))
    BY <1>1, <2>1, DraftKeeps
  <2>3. QED
    BY <2>1, <2>2, KinTrans
<1>2. LET n == Flush(WriteFrame(q, e, "end"), e)
      IN  Good(n, k) /\ Kin(q, n)
  <2>1. PICK m : /\ Good(m, k) /\ Kin(q, m) /\ m.ends[e].out # 0
                 /\ WriteFrame(q, e, "end") = Draft(m, e, "end")
    BY AcceptedIs
  <2> DEFINE n == Flush(Draft(m, e, "end"), e)
  <2>2. Good(n, k) /\ Kin(m, n)
    BY <2>1, EndKeeps
  <2>3. QED
    BY <2>1, <2>2, KinTrans
<1>3. QED
  BY <1>1, <1>2

-----------------------------------------------------------------------------
(* Terminating. *)

LEMMA DelimitKeeps ==
    ASSUME MaxLosses \in Nat, NEW k, NEW q, Good(q, k), NEW e \in Ends,
           q.ends[e].state # "active", NEW n, n = Delimit(q, e)
    PROVE  Good(n, k) /\ Kin(q, n) /\ \A x \in Ends : SameEnd(q, n, x)
<1> DEFINE x == [q.ends[e] EXCEPT !.outActive = FALSE]
           m == [q EXCEPT !.ends[e] = x]
<1>1. q \in PairType /\ q.ends[e] \in EndType
  BY DEF Good, PairType
<1>2. /\ x \in EndType /\ x.state = q.ends[e].state /\ x.delay = q.ends[e].delay
      /\ x.in = q.ends[e].in /\ x.out = q.ends[e].out /\ x.inActive = q.ends[e].inActive
  BY <1>1 DEF EndType
<1>3. PutEnd(q, m, e, x)
  BY DEF PutEnd
<1>30. m = [q EXCEPT !.ends[e].outActive = FALSE]
  OBVIOUS
<1> HIDE DEF m, x
<1>4. /\ Good(m, k) /\ m.ends[e] = x /\ m.ends[Other(e)] = q.ends[Other(e)]
      /\ (q.ends["session"].inActive => m.ends["session"].inActive) => Kin(q, m)
  BY <1>2, <1>3, EndKept
<1>5. Kin(q, m)
  BY <1>2, <1>4, Two
<1>6. \A y \in Ends : SameEnd(q, m, y)
  BY <1>2, <1>4, Two DEF SameEnd
<1>7. CASE q.ends[e].out = 0
  <2>1. n = m
    BY <1>30, <1>7 DEF Delimit
  <2>2. QED
    BY <1>4, <1>5, <1>6, <2>1
<1>8. CASE q.ends[e].out # 0
  <2> DEFINE r == Rollback(m, e)
  <2>1. n = Flush(Draft(r, e, "delimiter"), e)
    BY <1>30, <1>8 DEF Delimit
  <2> HIDE DEF r
  <2>2. /\ Good(r, k) /\ Kin(m, r) /\ r.ends = m.ends
        /\ m.ends[e].out # 0 => r.pipes[m.ends[e].out].draft = <<>>
    BY <1>4, RollbackKeeps DEF r
  <2>3. /\ r.ends[e].out # 0 /\ r.ends[e].state # "active"
        /\ r.pipes[r.ends[e].out].draft = <<>>
    BY <1>2, <1>4, <1>8, <2>2
  <2>4. Good(n, k) /\ Kin(r, n) /\ n.ends = r.ends
    BY <2>1, <2>2, <2>3, EndKeeps
  <2>5. Kin(q, n)
    BY <1>5, <2>2, <2>4, KinTrans
  <2>6. \A y \in Ends : SameEnd(q, n, y)
    BY <1>6, <2>2, <2>4 DEF SameEnd
  <2>7. QED
    BY <2>4, <2>5, <2>6
<1>9. QED
  BY <1>7, <1>8

(* An end lets go of its ypipe, and says so. *)
Answered(q, n, e, s) ==
    n = [Send(q, Other(e), "pipe_term_ack", 0) EXCEPT !.ends[e].out = 0, !.ends[e].state = s]

(* What the answer changes. *)
LEMMA AnsweredIs ==
    ASSUME MaxLosses \in Nat, NEW q \in PairType, NEW e \in Ends, NEW s \in States,
           NEW n, Answered(q, n, e, s)
    PROVE  LET c == [type |-> "pipe_term_ack", arg |-> 0]
           IN  /\ n \in PairType /\ c \in Commands /\ c.type = "pipe_term_ack"
               /\ n.ends[e].state = s /\ n.ends[e].out = 0
               /\ n.ends[e].in = q.ends[e].in
               /\ n.ends[Other(e)] = q.ends[Other(e)] /\ SameEnd(q, n, Other(e))
               /\ Sent(q, n, Other(e), c) /\ n.pipes = q.pipes /\ SamePipes(q, n)
               /\ n.failed = q.failed
<1> DEFINE c == [type |-> "pipe_term_ack", arg |-> 0]
           m == Send(q, Other(e), "pipe_term_ack", 0)
           x == [q.ends[e] EXCEPT !.out = 0, !.state = s]
<1>1. Other(e) \in Ends /\ q.ends[e] \in EndType
  BY Two DEF PairType
<1>2. /\ m \in PairType /\ c \in Commands /\ c.type = "pipe_term_ack"
      /\ m.ends = q.ends /\ m.pipes = q.pipes /\ m.failed = q.failed
      /\ Sent(q, m, Other(e), c) /\ SamePipes(q, m)
  BY <1>1, SendIs
<1>3. n = [m EXCEPT !.ends[e].out = 0, !.ends[e].state = s]
  BY DEF Answered
<1> HIDE DEF m
<1>4. n = [m EXCEPT !.ends[e] = x]
  BY <1>2, <1>3 DEF PairType
<1>5. x \in EndType /\ x.out = 0 /\ x.state = s /\ x.in = q.ends[e].in
  <2>1. 0 \in 0..2 + MaxLosses
    OBVIOUS
  <2>2. QED
    BY <1>1, <2>1 DEF EndType
<1> HIDE DEF x
<1>6. /\ n \in PairType /\ n.ends[e] = x /\ n.ends[Other(e)] = m.ends[Other(e)]
      /\ n.pipes = m.pipes /\ n.cmds = m.cmds /\ n.failed = m.failed
  BY <1>2, <1>4, <1>5, EndIs
<1>7. Sent(q, n, Other(e), c) /\ SamePipes(q, n) /\ SameEnd(q, n, Other(e))
  BY <1>2, <1>6 DEF Sent, SamePipes, SameEnd
<1>8. QED
  BY <1>2, <1>5, <1>6, <1>7

(* The answer of an end that has nothing left to read. *)
LEMMA AckedIs ==
    ASSUME MaxLosses \in Nat, NEW q \in PairType, NEW e \in Ends, NEW n, n = Acked(q, e)
    PROVE  LET c == [type |-> "pipe_term_ack", arg |-> 0]
           IN  /\ n \in PairType /\ c \in Commands /\ c.type = "pipe_term_ack"
               /\ n.ends[e].state = "term_ack_sent" /\ n.ends[e].out = 0
               /\ n.ends[e].in = q.ends[e].in
               /\ n.ends[Other(e)] = q.ends[Other(e)] /\ SameEnd(q, n, Other(e))
               /\ Sent(q, n, Other(e), c) /\ n.pipes = q.pipes /\ SamePipes(q, n)
               /\ n.failed = q.failed
<1>1. Answered(q, n, e, "term_ack_sent") /\ "term_ack_sent" \in States
  BY DEF Answered, Acked, States
<1>2. QED
  BY <1>1, AnsweredIs

(* The answer, as the session sees it. *)
LEMMA AckedLax ==
    ASSUME NEW q \in PairType, NEW n, NEW e \in Ends, NEW c \in Commands, c.type # "term",
           n.ends[e].state \notin {"active", "delimiter_received", "waiting_for_delimiter"},
           n.ends[e].in = q.ends[e].in,
           n.ends[Other(e)] = q.ends[Other(e)], Sent(q, n, Other(e), c),
           n.pipes = q.pipes
    PROVE  Lax(q, n) /\ (e = "socket" => Kin(q, n))
<1>1. CASE e = "socket"
  <2>1. n.ends["session"] = q.ends["session"] /\ n.cmds["session"] = Append(q.cmds["session"], c)
    BY <1>1, Two DEF Sent
  <2>2. Kin(q, n)
    BY <2>1, KinIs
  <2>3. QED
    BY <2>2 DEF Kin
<1>2. CASE e = "session"
  <2>1. /\ n.ends["session"].state \notin
                {"active", "delimiter_received", "waiting_for_delimiter"}
        /\ n.ends["session"].in = q.ends["session"].in
    BY <1>2
  <2>2. ToldFirst(n)
    BY <2>1 DEF ToldFirst
  <2>3. QED
    BY <1>2, <2>1, <2>2 DEF Lax
<1>3. QED
  BY <1>1, <1>2, Two

(* The answer, when the delimiter has been read or need not be. *)
LEMMA AckedKeeps ==
    ASSUME MaxLosses \in Nat, NEW k, NEW q, Good(q, k), NEW e \in Ends,
           q.ends[e].state = "waiting_for_delimiter", NEW n, n = Acked(q, e)
    PROVE  /\ Good(n, k) /\ Lax(q, n) /\ (e = "socket" => Kin(q, n))
           /\ n.ends[e].state = "term_ack_sent"
<1> DEFINE c == [type |-> "pipe_term_ack", arg |-> 0]
<1>1. q \in PairType
  BY DEF Good
<1>2. /\ n \in PairType /\ c \in Commands /\ c.type = "pipe_term_ack"
      /\ n.ends[e].state = "term_ack_sent" /\ n.ends[e].out = 0
      /\ n.ends[e].in = q.ends[e].in
      /\ n.ends[Other(e)] = q.ends[Other(e)] /\ SameEnd(q, n, Other(e))
      /\ Sent(q, n, Other(e), c) /\ n.pipes = q.pipes /\ SamePipes(q, n)
      /\ n.failed = q.failed
  BY <1>1, AckedIs
<1> HIDE DEF c
<1>3. Good(n, k)
  BY <1>2, AckKeeps
<1>4. Lax(q, n) /\ (e = "socket" => Kin(q, n))
  BY <1>1, <1>2, AckedLax
<1>5. QED
  BY <1>2, <1>3, <1>4

(* terminate: the owner of the session's end learns from its state whether *)
(* anything is left to read.                                               *)
LEMMA TerminateKeeps ==
    ASSUME MaxLosses \in Nat, NEW k, NEW q, Good(q, k), NEW e \in Ends,
           q.ends[e].state # "gone", NEW delay \in BOOLEAN, NEW n, n = Terminate(q, e, delay)
    PROVE  /\ Good(n, k) /\ n.ends[e].state \notin {"active", "delimiter_received"}
           /\ e = "socket" => Kin(q, n)
           /\ e = "session" =>
                 /\ n.ends["session"].in = q.ends["session"].in
                 /\ n.ends["session"].state = "waiting_for_delimiter" =>
                       /\ q.ends["session"].state = "waiting_for_delimiter"
                       /\ delay /\ n.ends["session"].delay
                       /\ Readable(q, "session") => Readable(n, "session")
<1> DEFINE x == [q.ends[e] EXCEPT !.delay = delay]
           q1 == [q EXCEPT !.ends[e] = x]
           state == q.ends[e].state
<1>1. q \in PairType /\ q.ends[e] \in EndType /\ Other(e) \in Ends /\ state \in States
  BY Two, Typed DEF Good, PairType
<1>2. /\ x \in EndType /\ x.state = q.ends[e].state /\ x.delay = delay
      /\ x.in = q.ends[e].in /\ x.out = q.ends[e].out /\ x.inActive = q.ends[e].inActive
  BY <1>1 DEF EndType
<1>3. PutEnd(q, q1, e, x)
  BY DEF PutEnd
<1>4. n = CASE state \in {"term_req_sent1", "term_req_sent2", "term_ack_sent"} -> q1
            [] state \in {"active", "delimiter_received"} ->
                  Delimit([Send(q1, Other(e), "pipe_term", 0) EXCEPT !.ends[e].state = "term_req_sent1"], e)
            [] state = "waiting_for_delimiter" ->
                  Delimit(IF delay THEN q1 ELSE Acked(Rollback(q1, e), e), e)
  BY DEF Terminate
<1> HIDE DEF q1, x
<1>5. /\ q1 \in PairType /\ Good(q1, k)
      /\ q1.ends[e] = x /\ q1.ends[Other(e)] = q.ends[Other(e)]
      /\ q1.pipes = q.pipes /\ q1.cmds = q.cmds /\ q1.failed = q.failed
  BY <1>2, <1>3, EndGood
<1>6. e = "socket" => Kin(q, q1)
  <2> SUFFICES ASSUME e = "socket" PROVE Kin(q, q1)
    OBVIOUS
  <2>1. q1.ends["session"] = q.ends["session"]
    BY <1>5, Two
  <2>2. QED
    BY <1>5, <2>1 DEF Kin, Lax, ToldFirst, Readable, MayRead, Inbound
<1>7. CASE state \in {"term_req_sent1", "term_req_sent2", "term_ack_sent"}
  <2>1. n = q1
    BY <1>4, <1>7
  <2>2. /\ n.ends[e].state \notin {"active", "delimiter_received", "waiting_for_delimiter"}
        /\ n.ends[e].in = q.ends[e].in
    BY <1>2, <1>5, <1>7, <2>1
  <2>3. QED
    BY <1>5, <1>6, <2>1, <2>2
<1>8. CASE state \in {"active", "delimiter_received"}
  <2> DEFINE c == [type |-> "pipe_term", arg |-> 0]
             m == Send(q1, Other(e), "pipe_term", 0)
             z == [x EXCEPT !.state = "term_req_sent1"]
             r == [m EXCEPT !.ends[e] = z]
  <2>1. n = Delimit([m EXCEPT !.ends[e].state = "term_req_sent1"], e)
    BY <1>4, <1>8
  <2>2. /\ m \in PairType /\ c \in Commands /\ c.type = "pipe_term"
        /\ m.ends = q1.ends /\ m.pipes = q1.pipes /\ m.failed = q1.failed
        /\ Sent(q1, m, Other(e), c) /\ SamePipes(q1, m)
    BY <1>1, <1>5, SendIs
  <2> HIDE DEF m, c
  <2>3. [m EXCEPT !.ends[e].state = "term_req_sent1"] = r
    BY <1>5, <2>2 DEF PairType
  <2>4. z \in EndType /\ z.state = "term_req_sent1" /\ z.in = x.in /\ z.out = x.out
    BY <1>2 DEF EndType, States
  <2> HIDE DEF z
  <2>5. /\ r \in PairType /\ r.ends[e] = z /\ r.ends[Other(e)] = m.ends[Other(e)]
        /\ r.pipes = m.pipes /\ r.cmds = m.cmds /\ r.failed = m.failed
    BY <2>2, <2>4, EndIs
  <2> HIDE DEF r
  <2>6. Sent(q1, r, Other(e), c) /\ SamePipes(q1, r) /\ SameEnd(q1, r, Other(e))
    BY <2>2, <2>5 DEF Sent, SamePipes, SameEnd
  <2>7. q1.ends[e].state \in {"active", "delimiter_received"}
    BY <1>2, <1>5, <1>8
  <2>8. r.ends[e].in = q1.ends[e].in /\ r.ends[e].out = q1.ends[e].out
        /\ r.ends[e].state = "term_req_sent1" /\ r.failed = q1.failed
    BY <1>5, <2>2, <2>4, <2>5
  <2>9. Good(r, k)
    BY <1>5, <2>2, <2>5, <2>6, <2>7, <2>8, AskKeeps
  <2>10. Good(n, k) /\ Kin(r, n) /\ SameEnd(r, n, e)
    <3>1. n = Delimit(r, e) /\ r.ends[e].state # "active"
      BY <2>1, <2>3, <2>8
    <3>2. QED
      BY <2>9, <3>1, DelimitKeeps
  <2>11. n.ends[e].state = "term_req_sent1" /\ n.ends[e].in = q.ends[e].in
    BY <1>2, <1>5, <2>8, <2>10 DEF SameEnd
  <2>12. ASSUME e = "socket" PROVE Kin(q, n)
    <3>1. r.ends["session"] = q1.ends["session"] /\ Sent(q1, r, "session", c)
      BY <2>2, <2>5, <2>6, <2>12, Two
    <3>2. r.cmds["session"] = Append(q1.cmds["session"], c) /\ r.pipes = q1.pipes /\ c.type # "term"
      BY <2>2, <2>5, <3>1 DEF Sent
    <3>3. Kin(q1, r)
      BY <1>5, <2>2, <3>1, <3>2, KinIs
    <3>4. QED
      BY <1>6, <2>10, <2>12, <3>3, KinTrans
  <2>13. QED
    BY <2>10, <2>11, <2>12
<1>9. CASE state = "waiting_for_delimiter" /\ delay
  <2>1. n = Delimit(q1, e) /\ q1.ends[e].state = "waiting_for_delimiter"
    BY <1>2, <1>4, <1>5, <1>9
  <2>2. Good(n, k) /\ Kin(q1, n) /\ SameEnd(q1, n, e)
    BY <1>5, <2>1, DelimitKeeps
  <2>3. n.ends[e].state = "waiting_for_delimiter" /\ n.ends[e].in = q.ends[e].in
    BY <1>2, <1>5, <2>1, <2>2 DEF SameEnd
  <2>4. ASSUME e = "session"
        PROVE  n.ends["session"].delay /\ (Readable(q, "session") => Readable(n, "session"))
    <3>1. n.ends["session"].delay
      BY <1>2, <1>5, <1>9, <2>2, <2>3, <2>4 DEF Kin, Lax
    <3>2. Readable(q, "session") => Readable(q1, "session")
      BY <1>2, <1>5, <2>4 DEF Readable, MayRead, Inbound
    <3>3. QED
      BY <2>2, <3>1, <3>2 DEF Kin
  <2>5. e = "socket" => Kin(q, n)
    BY <1>6, <2>2, KinTrans
  <2>6. QED
    BY <1>9, <2>2, <2>3, <2>4, <2>5
<1>10. CASE state = "waiting_for_delimiter" /\ ~delay
  <2> DEFINE b == Rollback(q1, e)
             a == Acked(b, e)
  <2>1. n = Delimit(a, e)
    BY <1>4, <1>10
  <2>2. Good(b, k) /\ Kin(q1, b) /\ b.ends = q1.ends
    BY <1>5, RollbackKeeps
  <2>3. b.ends[e].state = "waiting_for_delimiter"
    BY <1>2, <1>5, <1>10, <2>2
  <2>4. /\ Good(a, k) /\ Lax(b, a) /\ (e = "socket" => Kin(b, a))
        /\ a.ends[e].state = "term_ack_sent"
    <3> HIDE DEF b
    <3>1. QED
      BY <2>2, <2>3, AckedKeeps
  <2> HIDE DEF a, b
  <2>5. Good(n, k) /\ Kin(a, n) /\ SameEnd(a, n, e)
    BY <2>1, <2>4, DelimitKeeps
  <2>6. n.ends[e].state = "term_ack_sent"
    BY <2>4, <2>5 DEF SameEnd
  <2>7. e = "session" => n.ends["session"].in = q.ends["session"].in
    BY <1>2, <1>5, <2>2, <2>4, <2>5 DEF Kin, Lax
  <2>8. e = "socket" => Kin(q, n)
    BY <1>6, <2>2, <2>4, <2>5, KinTrans
  <2>9. QED
    BY <2>5, <2>6, <2>7, <2>8
<1>11. QED
  BY <1>1, <1>7, <1>8, <1>9, <1>10 DEF States

(* An end that waits for the delimiter and is told to linger waits on. *)
LEMMA TerminateWaits ==
    ASSUME MaxLosses \in Nat, NEW k, NEW q, Good(q, k), NEW e \in Ends,
           q.ends[e].state = "waiting_for_delimiter",
           NEW delay \in BOOLEAN, delay, NEW n, n = Terminate(q, e, delay)
    PROVE  n.ends[e].state = "waiting_for_delimiter"
<1> DEFINE x == [q.ends[e] EXCEPT !.delay = delay]
           q1 == [q EXCEPT !.ends[e] = x]
<1>1. q.ends[e] \in EndType
  BY DEF Good, PairType
<1>2. /\ x \in EndType /\ x.state = q.ends[e].state
      /\ x.in = q.ends[e].in /\ x.out = q.ends[e].out
  BY <1>1 DEF EndType
<1>3. PutEnd(q, q1, e, x)
  BY DEF PutEnd
<1>4. n = Delimit(q1, e)
  BY DEF Terminate
<1> HIDE DEF q1, x
<1>5. Good(q1, k) /\ q1.ends[e] = x
  BY <1>2, <1>3, EndGood
<1>6. q1.ends[e].state = "waiting_for_delimiter"
  BY <1>2, <1>5
<1>7. SameEnd(q1, n, e)
  BY <1>4, <1>5, <1>6, DelimitKeeps
<1>8. QED
  BY <1>6, <1>7 DEF SameEnd

-----------------------------------------------------------------------------
(* Reading. *)

LEMMA FramesTail ==
    ASSUME NEW s \in Seq(Frames), s # <<>>, FramesOK(s)
    PROVE  /\ Tail(s) \in Seq(Frames) /\ FramesOK(Tail(s))
           /\ 1 \in 1..Len(s) /\ s[1] = Head(s)
           /\ \A j \in 1..Len(Tail(s)) : j + 1 \in 1..Len(s) /\ Tail(s)[j] = s[j + 1]
           /\ Head(s) = "more" => Tail(s) # <<>> /\ Head(Tail(s)) \in {"more", "end"}
<1>1. /\ Tail(s) \in Seq(Frames) /\ Len(Tail(s)) = Len(s) - 1
      /\ Head(s) = s[1] /\ Len(s) \in Nat \ {0}
      /\ \A j \in 1..Len(s) - 1 : Tail(s)[j] = s[j + 1]
  OBVIOUS
<1>2. \A j \in 1..Len(Tail(s)) : j + 1 \in 1..Len(s) /\ Tail(s)[j] = s[j + 1]
  BY <1>1
<1>3. FramesOK(Tail(s))
  <2> SUFFICES ASSUME NEW j \in 1..Len(Tail(s)), Tail(s)[j] = "more"
               PROVE  j < Len(Tail(s)) /\ Tail(s)[j + 1] \in {"more", "end"}
    BY DEF FramesOK
  <2>1. j + 1 \in 1..Len(s) /\ s[j + 1] = "more"
    BY <1>2
  <2>2. j + 1 < Len(s) /\ s[j + 1 + 1] \in {"more", "end"}
    BY <2>1 DEF FramesOK
  <2>3. j + 1 \in 1..Len(Tail(s))
    BY <1>1, <2>2
  <2>4. QED
    BY <1>1, <1>2, <2>2, <2>3
<1>4. 1 \in 1..Len(s)
  BY <1>1
<1>5. Head(s) = "more" => Tail(s) # <<>> /\ Head(Tail(s)) \in {"more", "end"}
  <2> SUFFICES ASSUME Head(s) = "more"
               PROVE  Tail(s) # <<>> /\ Head(Tail(s)) \in {"more", "end"}
    OBVIOUS
  <2>1. 1 < Len(s) /\ s[1 + 1] \in {"more", "end"}
    BY <1>1, <1>4 DEF FramesOK
  <2>2. 1 \in 1..Len(Tail(s)) /\ 1 \in 1..Len(s) - 1
    BY <1>1, <2>1
  <2>3. Tail(s) # <<>> /\ Head(Tail(s)) = Tail(s)[1]
    <3>1. \A u \in Seq(Frames) : 1 \in 1..Len(u) => u # <<>> /\ Head(u) = u[1]
      OBVIOUS
    <3>2. QED
      BY <1>1, <2>2, <3>1
  <2>4. QED
    BY <1>1, <2>1, <2>2, <2>3
<1>6. QED
  BY <1>1, <1>2, <1>3, <1>4, <1>5

(* The ypipe an end reads from, and who writes to it. *)
LEMMA InIs ==
    ASSUME MaxLosses \in Nat, NEW k, NEW q, Good(q, k), NEW e \in Ends
    PROVE  /\ q.ends[e].in \in 1..2 + MaxLosses
           /\ (IF q.ends[e].in = 1 THEN "session" ELSE "socket") = Other(e)
           /\ e = "socket" => q.ends[e].in # q.ends["session"].in
<1>1. /\ "socket" \in Ends /\ "session" \in Ends /\ (e = "socket" \/ e = "session")
      /\ Other("socket") = "session" /\ Other("session") = "socket"
  BY Two
<1>2. q.ends[e].in \in 1..2 + MaxLosses /\ q.ends["session"].in \in 1..2 + MaxLosses
  BY <1>1, Typed DEF Good
<1>3. q.ends["socket"].in = 1 /\ q.ends["session"].in >= 2
  BY DEF Good, OutOK
<1>4. QED
  BY <1>1, <1>2, <1>3

(* A frame leaves the ypipe that e reads. *)
Popped(q, n, e) == n = [q EXCEPT !.pipes[q.ends[e].in].queue = Tail(@)]

(* A frame is read. *)
LEMMA PopKeeps ==
    ASSUME MaxLosses \in Nat, NEW k, NEW q, Good(q, k), NEW e \in Ends,
           Inbound(q, e) # <<>>,
           NEW n, Popped(q, n, e)
    PROVE  /\ Good(n, k) /\ Lax(q, n) /\ (e = "socket" => Kin(q, n))
           /\ n.ends = q.ends /\ n.cmds = q.cmds
           /\ Inbound(n, e) = Tail(Inbound(q, e))
           /\ Head(Inbound(q, e)) = "delimiter" => q.ends[Other(e)].state # "active"
           /\ Head(Inbound(q, e)) = "more" =>
                 Inbound(n, e) # <<>> /\ Head(Inbound(n, e)) \in {"more", "end"}
<1>1. PICK i \in 1..2 + MaxLosses : i = q.ends[e].in
  BY InIs
<1> DEFINE s == q.pipes[i].queue
           y == [q.pipes[i] EXCEPT !.queue = Tail(s)]
<1>2. /\ q.pipes[i] \in YpipeType /\ YpipeOK(q.pipes[i], q, k, i)
      /\ s \in Seq(Frames)
  BY DraftsOpen
<1>3. s # <<>> /\ FramesOK(s)
  BY <1>1, <1>2 DEF Inbound, YpipeOK
<1>4. /\ Tail(s) \in Seq(Frames) /\ FramesOK(Tail(s))
      /\ 1 \in 1..Len(s) /\ s[1] = Head(s)
      /\ \A j \in 1..Len(Tail(s)) : j + 1 \in 1..Len(s) /\ Tail(s)[j] = s[j + 1]
      /\ Head(s) = "more" => Tail(s) # <<>> /\ Head(Tail(s)) \in {"more", "end"}
  <2> HIDE DEF s
  <2>1. QED
    BY <1>2, <1>3, FramesTail
<1>5. /\ y \in YpipeType /\ y.queue = Tail(s) /\ y.draft = q.pipes[i].draft
      /\ y.freed = q.pipes[i].freed
  BY <1>2, <1>4 DEF YpipeType
<1>6. Put(q, n, i, y)
  BY <1>1 DEF Put, Popped
<1> HIDE DEF y
<1>7. YpipeOK(y, q, k, i)
  <2>1. \A j \in 1..Len(y.queue) : \E l \in 1..Len(s) : y.queue[j] = s[l]
    BY <1>4, <1>5
  <2>2. QED
    BY <1>2, <1>4, <1>5, <2>1 DEF YpipeOK
<1>8. /\ Good(n, k) /\ Lax(q, n) /\ n.ends = q.ends /\ n.cmds = q.cmds
      /\ n.pipes[i] = y
      /\ (i = q.ends["session"].in /\ q.pipes[i].queue # <<>> =>
             y.queue # <<>> /\ Head(y.queue) = Head(q.pipes[i].queue))
           => Kin(q, n)
  <2>1. y \in YpipeType /\ y.freed = q.pipes[i].freed
    BY <1>5
  <2>2. QED
    BY <1>6, <1>7, <2>1, PipeKeeps
<1>9. e = "socket" => i # q.ends["session"].in
  BY <1>1, InIs
<1>10. Inbound(q, e) = s /\ Inbound(n, e) = Tail(s)
  BY <1>1, <1>5, <1>8 DEF Inbound
<1>11. Head(s) = "delimiter" => q.ends[Other(e)].state # "active"
  <2>1. (IF i = 1 THEN "session" ELSE "socket") = Other(e)
    BY <1>1, InIs
  <2>2. QED
    BY <1>2, <1>4, <2>1 DEF YpipeOK
<1> HIDE DEF s
<1>12. QED
  BY <1>4, <1>8, <1>9, <1>10, <1>11

(* The delimiter is taken. *)
LEMMA DelimiterTaken ==
    ASSUME MaxLosses \in Nat, NEW k, NEW q, Good(q, k), NEW e \in Ends,
           q.ends[e].state \in {"active", "waiting_for_delimiter"},
           q.ends[Other(e)].state # "active",
           NEW n, n = ProcessDelimiter(q, e)
    PROVE  Good(n, k) /\ Lax(q, n) /\ (e = "socket" => Kin(q, n))
<1>1. CASE q.ends[e].state = "active"
  <2> DEFINE x == [q.ends[e] EXCEPT !.state = "delimiter_received"]
  <2>1. q \in PairType /\ q.ends[e] \in EndType
    BY DEF Good, PairType
  <2>2. n = [q EXCEPT !.ends[e] = x]
    BY <1>1 DEF ProcessDelimiter
  <2>3. /\ x \in EndType /\ x.state = "delimiter_received"
        /\ x.in = q.ends[e].in /\ x.out = q.ends[e].out
    BY <2>1 DEF EndType, States
  <2> HIDE DEF x
  <2>4. /\ n \in PairType /\ n.ends[e] = x /\ n.ends[Other(e)] = q.ends[Other(e)]
        /\ n.pipes = q.pipes /\ n.cmds = q.cmds /\ n.failed = q.failed
    BY <2>1, <2>2, <2>3, EndIs
  <2>5. SameEnd(q, n, Other(e)) /\ SamePipes(q, n)
    BY <2>4 DEF SameEnd, SamePipes
  <2>6. Good(n, k)
    BY <1>1, <2>3, <2>4, <2>5, DelimiterKeeps
  <2>7. CASE e = "socket"
    <3>1. n.ends["session"] = q.ends["session"]
      BY <2>4, <2>7, Two
    <3>2. Kin(q, n)
      BY <2>4, <3>1 DEF Kin, Lax, ToldFirst, Readable, MayRead, Inbound
    <3>3. QED
      BY <2>6, <3>2 DEF Kin
  <2>8. CASE e = "session"
    <3>1. n.ends["session"].state = "delimiter_received" /\ n.ends["session"].in = q.ends["session"].in
      BY <2>3, <2>4, <2>8
    <3>2. Lax(q, n)
      BY <1>1, <2>4, <2>8, <3>1 DEF Lax, ToldFirst
    <3>3. QED
      BY <2>6, <2>8, <3>2
  <2>9. QED
    BY <2>7, <2>8, Two
<1>2. CASE q.ends[e].state # "active"
  <2>1. n = Acked(q, e) /\ q.ends[e].state = "waiting_for_delimiter"
    BY <1>2 DEF ProcessDelimiter
  <2>2. QED
    BY <2>1, AckedKeeps
<1>3. QED
  BY <1>1, <1>2

(* A reader finds nothing, or the delimiter. *)
LEMMA ReadNothingKeeps ==
    ASSUME MaxLosses \in Nat, NEW k, NEW q, Good(q, k), NEW e \in Ends,
           ~Readable(q, e), NEW n, n = ReadNothing(q, e)
    PROVE  Good(n, k) /\ Lax(q, n) /\ (e = "socket" => Kin(q, n))
<1>1. CASE ~MayRead(q, e)
  <2>1. n = q
    BY <1>1 DEF ReadNothing
  <2>2. QED
    BY <2>1, KinTrans
<1>2. CASE MayRead(q, e) /\ Inbound(q, e) = <<>>
  <2>1. PICK i \in 1..2 + MaxLosses : i = q.ends[e].in
    BY InIs
  <2> DEFINE x == [q.ends[e] EXCEPT !.inActive = FALSE]
             m == [q EXCEPT !.ends[e] = x]
             y == [q.pipes[i] EXCEPT !.asleep = TRUE]
  <2>2. q \in PairType /\ q.ends[e] \in EndType /\ q.pipes[i] \in YpipeType
    BY DEF Good, PairType
  <2>3. /\ x \in EndType /\ x.state = q.ends[e].state /\ x.delay = q.ends[e].delay
        /\ x.in = q.ends[e].in /\ x.out = q.ends[e].out
    BY <2>2 DEF EndType
  <2>4. PutEnd(q, m, e, x)
    BY DEF PutEnd
  <2>5. n = [q EXCEPT !.ends[e].inActive = FALSE, !.pipes[i].asleep = TRUE]
    BY <1>2, <2>1 DEF ReadNothing
  <2>6. Put(m, n, i, y)
    BY <2>2, <2>5 DEF Put, PairType
  <2>7. /\ y \in YpipeType /\ y.freed = q.pipes[i].freed
        /\ y.draft = q.pipes[i].draft /\ y.queue = q.pipes[i].queue
    BY <2>2 DEF YpipeType
  <2> HIDE DEF x, y, m
  <2>8. /\ m \in PairType /\ Good(m, k) /\ Lax(q, m)
        /\ m.ends[e] = x /\ m.ends[Other(e)] = q.ends[Other(e)]
        /\ m.pipes = q.pipes /\ m.cmds = q.cmds /\ m.failed = q.failed
        /\ (q.ends["session"].inActive => m.ends["session"].inActive) => Kin(q, m)
    BY <2>3, <2>4, EndKept
  <2>9. YpipeOK(y, m, k, i) /\ y.freed = m.pipes[i].freed
    <3>1. YpipeOK(m.pipes[i], m, k, i)
      BY <2>8, DraftsOpen
    <3>2. m.pipes[i] = q.pipes[i]
      BY <2>8
    <3>3. QED
      BY <2>7, <3>1, <3>2 DEF YpipeOK
  <2>10. Good(n, k) /\ Kin(m, n)
    <3>1. /\ Good(n, k)
          /\ (i = m.ends["session"].in /\ m.pipes[i].queue # <<>> =>
                 y.queue # <<>> /\ Head(y.queue) = Head(m.pipes[i].queue))
               => Kin(m, n)
      BY <2>6, <2>7, <2>8, <2>9, PipeKeeps
    <3>2. y.queue = m.pipes[i].queue
      BY <2>7, <2>8
    <3>3. QED
      BY <3>1, <3>2
  <2>11. Lax(q, n)
    BY <2>8, <2>10, KinTrans DEF Kin
  <2>12. e = "socket" => Kin(q, n)
    <3>1. e = "socket" => m.ends["session"] = q.ends["session"]
      BY <2>8, Two
    <3>2. QED
      BY <2>8, <2>10, <3>1, KinTrans
  <2>13. QED
    BY <2>10, <2>11, <2>12
<1>3. CASE MayRead(q, e) /\ Inbound(q, e) # <<>>
  <2> DEFINE m == [q EXCEPT !.pipes[q.ends[e].in].queue = Tail(@)]
  <2>1. n = ProcessDelimiter(m, e) /\ Head(Inbound(q, e)) = "delimiter"
    BY <1>3 DEF ReadNothing, Readable
  <2>2. /\ Good(m, k) /\ Lax(q, m) /\ (e = "socket" => Kin(q, m)) /\ m.ends = q.ends
        /\ Head(Inbound(q, e)) = "delimiter" => q.ends[Other(e)].state # "active"
    <3>1. Popped(q, m, e)
      BY DEF Popped
    <3> HIDE DEF m
    <3>2. QED
      BY <1>3, <3>1, PopKeeps
  <2> HIDE DEF m
  <2>3. m.ends[e].state \in {"active", "waiting_for_delimiter"}
    BY <1>3, <2>2 DEF MayRead
  <2>4. Good(n, k) /\ Lax(m, n) /\ (e = "socket" => Kin(m, n))
    BY <2>1, <2>2, <2>3, DelimiterTaken
  <2>5. QED
    BY <2>2, <2>4, KinTrans
<1>4. QED
  BY <1>1, <1>2, <1>3

(* A reader finds a frame; what is left of a message is there. *)
LEMMA ReadFrameKeeps ==
    ASSUME MaxLosses \in Nat, NEW k, NEW q, Good(q, k), NEW e \in Ends,
           Readable(q, e), NEW n, n = ReadFrame(q, e)
    PROVE  /\ Good(n, k) /\ Lax(q, n) /\ (e = "socket" => Kin(q, n))
           /\ e = "session" /\ Head(Inbound(q, e)) = "more" => Readable(n, "session")
           /\ n.ends[e].state = q.ends[e].state
<1> DEFINE last == IF Head(Inbound(q, e)) = "end" THEN 1 ELSE 0
           m == [q EXCEPT !.pipes[q.ends[e].in].queue = Tail(@)]
           x == [q.ends[e] EXCEPT !.read = @ + last]
           r == [m EXCEPT !.ends[e] = x]
<1>1. q \in PairType /\ q.ends[e] \in EndType /\ last \in Nat
  BY DEF Good, PairType
<1>2. Inbound(q, e) # <<>> /\ Head(Inbound(q, e)) # "delimiter" /\ MayRead(q, e)
  BY DEF Readable
<1>3. [q EXCEPT !.pipes[q.ends[e].in].queue = Tail(@), !.ends[e].read = @ + last] = r
  BY <1>1 DEF PairType
<1>4. n = Acknowledge(r, e)
  BY <1>3 DEF ReadFrame
<1>5. /\ Good(m, k) /\ Lax(q, m) /\ (e = "socket" => Kin(q, m))
      /\ m.ends = q.ends /\ Inbound(m, e) = Tail(Inbound(q, e))
      /\ Head(Inbound(q, e)) = "more" =>
            Inbound(m, e) # <<>> /\ Head(Inbound(m, e)) \in {"more", "end"}
  <2>1. Popped(q, m, e)
    BY DEF Popped
  <2> HIDE DEF m
  <2>2. QED
    BY <1>2, <2>1, PopKeeps
<1> HIDE DEF m, last
<1>6. /\ x \in EndType /\ x.state = m.ends[e].state /\ x.delay = m.ends[e].delay
      /\ x.in = m.ends[e].in /\ x.out = m.ends[e].out /\ x.inActive = m.ends[e].inActive
  <2>1. /\ x \in EndType /\ x.state = q.ends[e].state /\ x.delay = q.ends[e].delay
        /\ x.in = q.ends[e].in /\ x.out = q.ends[e].out /\ x.inActive = q.ends[e].inActive
    BY <1>1 DEF EndType
  <2> HIDE DEF x
  <2>2. QED
    BY <1>5, <2>1
<1>7. PutEnd(m, r, e, x)
  BY DEF PutEnd
<1> HIDE DEF x, r
<1>8. /\ Good(r, k) /\ r.ends[e] = x /\ r.ends[Other(e)] = m.ends[Other(e)]
      /\ r.pipes = m.pipes /\ r \in PairType
      /\ (m.ends["session"].inActive => r.ends["session"].inActive) => Kin(m, r)
  BY <1>5, <1>6, <1>7, EndKept
<1>9. Kin(m, r)
  BY <1>6, <1>8, Two
<1>10. Good(n, k) /\ Kin(r, n) /\ n.ends = r.ends
  <2>1. CASE n = r
    BY <1>8, <2>1, KinTrans
  <2>2. CASE n # r
    <3>1. n = Send(r, Other(e), "activate_write", r.ends[e].read)
      BY <1>4, <2>2 DEF Acknowledge
    <3>2. /\ "activate_write" \in Neutral /\ r.ends[e].read \in Int
          /\ r.ends[e].state \notin Silent
      <4>1. r.ends[e].state \in {"active", "waiting_for_delimiter"}
        BY <1>2, <1>5, <1>6, <1>8 DEF MayRead
      <4>2. r.ends[e].read \in Nat
        BY <1>8, Typed
      <4>3. QED
        BY <4>1, <4>2 DEF Neutral, Silent
    <3>3. QED
      BY <1>8, <3>1, <3>2, NeutralKeeps
  <2>3. QED
    BY <2>1, <2>2
<1>11. Lax(q, n)
  BY <1>5, <1>9, <1>10, KinTrans DEF Kin
<1>12. e = "socket" => Kin(q, n)
  BY <1>5, <1>9, <1>10, KinTrans
<1>13. ASSUME e = "session", Head(Inbound(q, e)) = "more"
       PROVE  Readable(n, "session")
  <2>1. Inbound(m, "session") # <<>> /\ Head(Inbound(m, "session")) # "delimiter"
    BY <1>5, <1>13
  <2>2. MayRead(m, "session")
    BY <1>2, <1>5, <1>13 DEF MayRead
  <2>3. Readable(m, "session")
    BY <2>1, <2>2 DEF Readable
  <2>4. QED
    BY <1>9, <1>10, <2>3 DEF Kin
<1>14. n.ends[e].state = q.ends[e].state
  BY <1>5, <1>6, <1>8, <1>10
<1>15. QED
  BY <1>10, <1>11, <1>12, <1>13, <1>14

(* read and check_read *)
LEMMA ReadKeeps ==
    ASSUME MaxLosses \in Nat, NEW k, NEW q, Good(q, k), NEW e \in Ends,
           NEW n, n = Read(q, e)
    PROVE  /\ Good(n, k) /\ Lax(q, n) /\ (e = "socket" => Kin(q, n))
           /\ e = "session" /\ Readable(q, "session") /\ Head(Inbound(q, "session")) = "more" =>
                 Readable(n, "session")
           /\ Readable(q, e) => n.ends[e].state = q.ends[e].state
<1>1. CASE Readable(q, e)
  <2>1. n = ReadFrame(q, e)
    BY <1>1 DEF Read
  <2>2. QED
    BY <1>1, <2>1, ReadFrameKeeps
<1>2. CASE ~Readable(q, e)
  <2>1. n = ReadNothing(q, e)
    BY <1>2 DEF Read
  <2>2. Good(n, k) /\ Lax(q, n) /\ (e = "socket" => Kin(q, n))
    BY <1>2, <2>1, ReadNothingKeeps
  <2>3. QED
    BY <1>2, <2>2
<1>3. QED
  BY <1>1, <1>2

(* check_read *)
LEMMA CheckReadKeeps ==
    ASSUME MaxLosses \in Nat, NEW k, NEW q, Good(q, k), NEW e \in Ends,
           NEW n, n = CheckRead(q, e)
    PROVE  Good(n, k) /\ Lax(q, n) /\ (Readable(q, e) => n = q)
<1>1. CASE Readable(q, e)
  BY <1>1, KinTrans DEF CheckRead
<1>2. CASE ~Readable(q, e)
  <2>1. n = ReadNothing(q, e)
    BY <1>2 DEF CheckRead
  <2>2. Good(n, k) /\ Lax(q, n)
    BY <1>2, <2>1, ReadNothingKeeps
  <2>3. QED
    BY <1>2, <2>2
<1>3. QED
  BY <1>1, <1>2

-----------------------------------------------------------------------------
(* Commands. *)

TakeFrom(q, n, e) == q.cmds[e] # <<>> /\ n = [q EXCEPT !.cmds[e] = Tail(@)]

(* What taking a command changes. *)
LEMMA TakenIs ==
    ASSUME NEW q \in PairType, NEW e \in Ends, NEW n, TakeFrom(q, n, e)
    PROVE  /\ n \in PairType /\ n.ends = q.ends /\ n.pipes = q.pipes /\ n.failed = q.failed
           /\ Taken(q, n, e) /\ SamePipes(q, n) /\ \A x \in Ends : SameEnd(q, n, x)
           /\ q.cmds[e] \in Seq(Commands) /\ q.cmds[e] # <<>>
           /\ Head(q.cmds[e]) \in Commands
<1>1. q.cmds[e] \in Seq(Commands) /\ q.cmds[e] # <<>> /\ q.cmds \in [Ends -> Seq(Commands)]
  BY DEF TakeFrom, PairType
<1>2. Tail(q.cmds[e]) \in Seq(Commands) /\ Head(q.cmds[e]) \in Commands
  BY <1>1
<1>3. /\ n \in PairType /\ n.ends = q.ends /\ n.pipes = q.pipes /\ n.failed = q.failed
      /\ n.cmds = [q.cmds EXCEPT ![e] = Tail(q.cmds[e])]
  BY <1>1, <1>2 DEF TakeFrom, PairType
<1>4. n.cmds[e] = Tail(q.cmds[e]) /\ n.cmds[Other(e)] = q.cmds[Other(e)]
  BY <1>1, <1>3, Two
<1>5. QED
  BY <1>1, <1>2, <1>3, <1>4 DEF Taken, SamePipes, SameEnd

(* The session is still told of the pipe first. *)
LEMMA TakenTold ==
    ASSUME NEW q \in PairType, NEW n, NEW e \in Ends, Taken(q, n, e),
           n.ends["session"].state \in {"active", "delimiter_received"} =>
               /\ q.ends["session"].state \in {"active", "delimiter_received"}
               /\ e = "session" => Head(q.cmds[e]).type # "pipe_term",
           ToldFirst(q)
    PROVE  ToldFirst(n)
<1>1. CASE e = "socket"
  <2>1. n.cmds["session"] = q.cmds["session"]
    BY <1>1, Two DEF Taken
  <2>2. QED
    BY <2>1 DEF ToldFirst
<1>2. CASE e = "session"
  <2> DEFINE s == q.cmds["session"]
             d == n.cmds["session"]
  <2>1. s \in Seq(Commands) /\ s # <<>> /\ d = Tail(s)
    BY <1>2, Typed DEF Taken
  <2> HIDE DEF s, d
  <2>2. /\ Len(d) = Len(s) - 1 /\ Len(s) \in Nat
        /\ \A i \in 1..Len(d) : i + 1 \in 1..Len(s) /\ d[i] = s[i + 1]
        /\ \A i \in 1..Len(s) : \/ s[i] = Head(s)
                                \/ i - 1 \in 1..Len(d) /\ d[i - 1] = s[i]
    BY <2>1, RowTaken
  <2> SUFFICES ASSUME n.ends["session"].state \in {"active", "delimiter_received"},
                      NEW i \in 1..Len(d), d[i].type = "term"
               PROVE  \E j \in 1..i - 1 : d[j].type = "pipe_term"
    BY DEF ToldFirst, d
  <2>3. i + 1 \in 1..Len(s) /\ s[i + 1].type = "term" /\ Head(s).type # "pipe_term"
    BY <1>2, <2>2 DEF s
  <2>4. PICK j \in 1..i + 1 - 1 : s[j].type = "pipe_term"
    BY <2>3 DEF ToldFirst, s
  <2>5. j \in 1..Len(s)
    BY <2>2, <2>3
  <2>6. j - 1 \in 1..Len(d) /\ d[j - 1] = s[j]
    BY <2>2, <2>3, <2>4, <2>5
  <2>7. j - 1 \in 1..i - 1
    BY <2>2, <2>6
  <2>8. QED
    BY <2>4, <2>6, <2>7
<1>3. QED
  BY <1>1, <1>2, Two

(* A command that is no part of the handshake is taken. *)
LEMMA NeutralTaken ==
    ASSUME MaxLosses \in Nat, NEW k, NEW q, Good(q, k), NEW e \in Ends,
           NEW n, TakeFrom(q, n, e), Head(q.cmds[e]).type \in Neutral \cup {"term"}
    PROVE  Good(n, k) /\ Kin(q, n) /\ n.ends = q.ends /\ n.pipes = q.pipes
<1>1. q \in PairType
  BY DEF Good
<1>2. /\ n \in PairType /\ n.ends = q.ends /\ n.pipes = q.pipes /\ n.failed = q.failed
      /\ Taken(q, n, e) /\ SamePipes(q, n) /\ \A x \in Ends : SameEnd(q, n, x)
  BY <1>1, TakenIs
<1>3. Good(n, k)
  BY <1>2, TakeKeeps
<1>4. ToldFirst(q) => ToldFirst(n)
  BY <1>1, <1>2, TakenTold DEF Neutral
<1>5. Kin(q, n)
  BY <1>2, <1>4 DEF Kin, Lax, Readable, MayRead, Inbound
<1>6. QED
  BY <1>2, <1>3, <1>5

(* activate_read, while the session has a connection or not *)
LEMMA ActivateReadKeeps ==
    ASSUME MaxLosses \in Nat, NEW k, NEW q, Good(q, k), NEW e \in Ends,
           NEW n, n = ActivateRead(q, e)
    PROVE  Good(n, k) /\ Lax(q, n) /\ (engine = "up" => Kin(q, n))
<1> DEFINE x == [q.ends[e] EXCEPT !.inActive = TRUE]
           m == [q EXCEPT !.ends[e] = x]
<1>1. q \in PairType /\ q.ends[e] \in EndType
  BY DEF Good, PairType
<1>2. /\ x \in EndType /\ x.state = q.ends[e].state /\ x.delay = q.ends[e].delay
      /\ x.in = q.ends[e].in /\ x.out = q.ends[e].out /\ x.inActive
  BY <1>1 DEF EndType
<1>3. PutEnd(q, m, e, x)
  BY DEF PutEnd
<1>4. \/ n = q
      \/ n = m
      \/ engine # "up" /\ n = CheckRead(m, e)
  BY DEF ActivateRead
<1> HIDE DEF m, x
<1>5. /\ Good(m, k) /\ Lax(q, m)
      /\ m.ends[e] = x /\ m.ends[Other(e)] = q.ends[Other(e)]
      /\ (q.ends["session"].inActive => m.ends["session"].inActive) => Kin(q, m)
  BY <1>2, <1>3, EndKept
<1>6. Kin(q, m)
  BY <1>2, <1>5, Two
<1>7. CASE n = q
  BY <1>7, KinTrans
<1>8. CASE n = m
  BY <1>5, <1>6, <1>8
<1>9. CASE engine # "up" /\ n = CheckRead(m, e)
  <2>1. Good(n, k) /\ Lax(m, n)
    BY <1>5, <1>9, CheckReadKeeps
  <2>2. QED
    BY <1>5, <1>9, <2>1, KinTrans
<1>10. QED
  BY <1>4, <1>7, <1>8, <1>9

(* activate_write *)
LEMMA ActivateWriteKeeps ==
    ASSUME MaxLosses \in Nat, NEW k, NEW q, Good(q, k), NEW e \in Ends, NEW num \in Int,
           NEW n, n = ActivateWrite(q, e, num)
    PROVE  Good(n, k) /\ Kin(q, n)
<1> DEFINE x == [q.ends[e] EXCEPT !.peersRead = num,
                                  !.outActive = @ \/ q.ends[e].state = "active"]
<1>1. q \in PairType /\ q.ends[e] \in EndType
  BY DEF Good, PairType
<1>2. /\ x \in EndType /\ x.state = q.ends[e].state /\ x.delay = q.ends[e].delay
      /\ x.in = q.ends[e].in /\ x.out = q.ends[e].out /\ x.inActive = q.ends[e].inActive
  BY <1>1 DEF EndType
<1>3. PutEnd(q, n, e, x)
  BY <1>1 DEF PutEnd, ActivateWrite, PairType
<1> HIDE DEF x
<1>4. /\ Good(n, k) /\ n.ends[e] = x /\ n.ends[Other(e)] = q.ends[Other(e)]
      /\ (q.ends["session"].inActive => n.ends["session"].inActive) => Kin(q, n)
  BY <1>2, <1>3, EndKept
<1>5. QED
  BY <1>2, <1>4, Two

(* pipe_hwm, and the mark of the end that sends it *)
Lowered(q, n, e, low) == n = [q EXCEPT !.ends[e].lwm = low]

(* The low water mark is set. *)
LEMMA LowMarkKeeps ==
    ASSUME MaxLosses \in Nat, NEW k, NEW q, Good(q, k), NEW e \in Ends, NEW mark \in Int,
           NEW n, Lowered(q, n, e, LowMark(mark))
    PROVE  Good(n, k) /\ Kin(q, n)
<1> DEFINE x == [q.ends[e] EXCEPT !.lwm = LowMark(mark)]
<1>1. q \in PairType /\ q.ends[e] \in EndType
  BY DEF Good, PairType
<1>2. LowMark(mark) \in Int
  BY DEF LowMark
<1>3. PutEnd(q, n, e, x)
  BY DEF PutEnd, Lowered
<1>4. /\ x \in EndType /\ x.state = q.ends[e].state /\ x.delay = q.ends[e].delay
      /\ x.in = q.ends[e].in /\ x.out = q.ends[e].out /\ x.inActive = q.ends[e].inActive
  BY <1>1, <1>2 DEF EndType
<1> HIDE DEF x
<1>5. /\ Good(n, k) /\ n.ends[e] = x /\ n.ends[Other(e)] = q.ends[Other(e)]
      /\ (q.ends["session"].inActive => n.ends["session"].inActive) => Kin(q, n)
  BY <1>3, <1>4, EndKept
<1>6. QED
  BY <1>4, <1>5, Two

(* The high water mark is set, while the pipe is active. *)
LEMMA MarkKeeps ==
    ASSUME MaxLosses \in Nat, NEW k, NEW q, Good(q, k), NEW mark \in Nat,
           q.ends["socket"].state = "active",
           NEW n, n = Send([q EXCEPT !.ends["socket"].hwm = mark], "session", "pipe_hwm", mark)
    PROVE  Good(n, k) /\ Kin(q, n)
<1> DEFINE x == [q.ends["socket"] EXCEPT !.hwm = mark]
           m == [q EXCEPT !.ends["socket"] = x]
<1>1. /\ "socket" \in Ends /\ "session" \in Ends /\ "socket" # "session"
      /\ Other("socket") = "session"
  BY Two
<1>2. q \in PairType /\ q.ends["socket"] \in EndType
  BY <1>1 DEF Good, PairType
<1>3. /\ x \in EndType /\ x.state = q.ends["socket"].state /\ x.delay = q.ends["socket"].delay
      /\ x.in = q.ends["socket"].in /\ x.out = q.ends["socket"].out
  BY <1>2 DEF EndType
<1>4. PutEnd(q, m, "socket", x)
  BY DEF PutEnd
<1>5. n = Send(m, Other("socket"), "pipe_hwm", mark)
  BY <1>1
<1> HIDE DEF m, x
<1>6. /\ Good(m, k) /\ m.ends["socket"] = x
      /\ m.ends[Other("socket")] = q.ends[Other("socket")]
      /\ (q.ends["session"].inActive => m.ends["session"].inActive) => Kin(q, m)
  BY <1>1, <1>3, <1>4, EndKept
<1>7. Kin(q, m)
  BY <1>1, <1>6
<1>8. "pipe_hwm" \in Neutral /\ mark \in Int /\ m.ends["socket"].state \notin Silent
  BY <1>3, <1>6 DEF Neutral, Silent
<1>9. Good(n, k) /\ Kin(m, n)
  BY <1>1, <1>5, <1>6, <1>8, NeutralKeeps
<1>10. QED
  BY <1>7, <1>9, KinTrans

(* Whom pipe_term may reach. *)
LEMMA AskedShape ==
    ASSUME NEW q, ShapeOK(q), NEW e \in Ends, Has(q.cmds[e], "pipe_term")
    PROVE  q.ends[e].state \in {"active", "delimiter_received", "term_req_sent1"}
<1>1. PICK x \in Ends : Shape(q, x)
  BY DEF ShapeOK
<1>2. (x = e \/ x = Other(e)) /\ Other(e) # e /\ Other(Other(e)) = e
  BY Two
<1>3. CASE x = e
  BY <1>1, <1>2, <1>3 DEF Shape, None, Asks, Acks, Both
<1>4. CASE x = Other(e)
  BY <1>1, <1>2, <1>4 DEF Shape, None, Asks, Acks, Both
<1>5. QED
  BY <1>2, <1>3, <1>4

Waits(q, w, e) == w = [q EXCEPT !.ends[e].state = "waiting_for_delimiter"]

(* pipe_term, for an end that still waits for the delimiter. *)
LEMMA AskedToWait ==
    ASSUME MaxLosses \in Nat, NEW k, NEW q0, Good(q0, k), NEW e \in Ends,
           NEW q, TakeFrom(q0, q, e), Head(q0.cmds[e]).type = "pipe_term",
           q0.ends[e].state \in {"active", "delimiter_received"},
           NEW w, Waits(q, w, e)
    PROVE  /\ Good(w, k) /\ w \in PairType
           /\ w.ends[e].state = "waiting_for_delimiter"
           /\ w.ends[e].in = q0.ends[e].in
           /\ w.ends[e].delay = q0.ends[e].delay
           /\ w.ends[e].inActive = q0.ends[e].inActive
           /\ w.ends[Other(e)] = q0.ends[Other(e)]
           /\ w.pipes = q0.pipes /\ w.cmds = q.cmds /\ w.failed = q0.failed
<1> DEFINE x == [q.ends[e] EXCEPT !.state = "waiting_for_delimiter"]
<1>1. q0 \in PairType
  BY DEF Good
<1>2. /\ q \in PairType /\ q.ends = q0.ends /\ q.pipes = q0.pipes /\ q.failed = q0.failed
      /\ Taken(q0, q, e)
  BY <1>1, TakenIs
<1>3. PutEnd(q, w, e, x) /\ q.ends[e] \in EndType
  BY <1>2 DEF PutEnd, PairType, Waits
<1>4. /\ x \in EndType /\ x.state = "waiting_for_delimiter" /\ x.delay = q.ends[e].delay
      /\ x.in = q.ends[e].in /\ x.out = q.ends[e].out /\ x.inActive = q.ends[e].inActive
  BY <1>3 DEF EndType, States
<1> HIDE DEF x
<1>5. /\ w \in PairType /\ w.ends[e] = x /\ w.ends[Other(e)] = q.ends[Other(e)]
      /\ w.pipes = q.pipes /\ w.cmds = q.cmds /\ w.failed = q.failed
  BY <1>2, <1>3, <1>4, EndIs DEF PutEnd
<1>6. Taken(q0, w, e) /\ SamePipes(q0, w) /\ SameEnd(q0, w, Other(e))
  BY <1>2, <1>5 DEF Taken, SamePipes, SameEnd
<1>7. /\ w.ends[e].state = "waiting_for_delimiter" /\ w.ends[e].in = q0.ends[e].in
      /\ w.ends[e].out = q0.ends[e].out /\ w.failed = q0.failed
  BY <1>2, <1>4, <1>5
<1>8. Good(w, k)
  BY <1>5, <1>6, <1>7, WaitKeeps
<1>9. QED
  BY <1>2, <1>4, <1>5, <1>7, <1>8

(* pipe_term, for the end in each of its states *)
LEMMA ProcessPipeTermKeeps ==
    ASSUME MaxLosses \in Nat, NEW k, NEW q0, Good(q0, k), NEW e \in Ends,
           NEW q, TakeFrom(q0, q, e), Head(q0.cmds[e]).type = "pipe_term",
           NEW n, n = ProcessPipeTerm(q, e)
    PROVE  /\ Good(n, k)
           /\ e = "socket" => Kin(q0, n)
           /\ e = "session" =>
                 /\ n.ends["session"].in = q0.ends["session"].in
                 /\ n.ends["session"].state \notin {"active", "delimiter_received"}
                 /\ n.ends["session"].state = "waiting_for_delimiter" =>
                       n.ends["session"].delay
                 /\ q0.ends["session"].delay /\ Readable(q0, "session") =>
                       Readable(n, "session")
<1> DEFINE state == q0.ends[e].state
           c == [type |-> "pipe_term_ack", arg |-> 0]
<1>1. q0 \in PairType /\ Other(e) \in Ends
  BY Two DEF Good
<1>2. /\ q \in PairType /\ q.ends = q0.ends /\ q.pipes = q0.pipes /\ q.failed = q0.failed
      /\ Taken(q0, q, e) /\ SamePipes(q0, q)
      /\ q0.cmds[e] \in Seq(Commands) /\ q0.cmds[e] # <<>>
  BY <1>1, TakenIs
<1>3. q.cmds[e] = Tail(q0.cmds[e]) /\ q.cmds[Other(e)] = q0.cmds[Other(e)]
  BY <1>2 DEF Taken
<1>4. state \in {"active", "delimiter_received", "term_req_sent1"}
  <2>1. Has(q0.cmds[e], "pipe_term")
    BY <1>2, HasTail
  <2>2. QED
    BY <2>1, AskedShape DEF Good
<1>5. ASSUME Good(n, k), n \in PairType,
             n.ends[e].state \notin {"active", "delimiter_received", "waiting_for_delimiter"},
             n.ends[e].in = q0.ends[e].in, n.ends[Other(e)] = q0.ends[Other(e)],
             Sent(q, n, Other(e), c), n.pipes = q0.pipes,
             state # "active" \/ ~q0.ends[e].delay
      PROVE  /\ e = "socket" => Kin(q0, n)
             /\ e = "session" =>
                   /\ n.ends["session"].in = q0.ends["session"].in
                   /\ n.ends["session"].state \notin
                          {"active", "delimiter_received", "waiting_for_delimiter"}
                   /\ ~(q0.ends["session"].delay /\ Readable(q0, "session"))
  <2>1. CASE e = "socket"
    <3>1. c \in Commands /\ c.type # "term"
      BY DEF Commands
    <3>2. n.ends["session"] = q0.ends["session"]
          /\ n.cmds["session"] = Append(q0.cmds["session"], c)
      BY <1>3, <1>5, <2>1, Two DEF Sent
    <3> HIDE DEF c
    <3>3. Kin(q0, n)
      BY <1>1, <1>5, <3>1, <3>2, KinIs
    <3>4. QED
      BY <2>1, <3>3
  <2>2. CASE e = "session"
    BY <1>4, <1>5, <2>2 DEF Readable, MayRead
  <2>3. QED
    BY <2>1, <2>2, Two
<1>6. CASE state = "active" /\ q0.ends[e].delay
  <2>1. Waits(q, n, e)
    BY <1>2, <1>6 DEF ProcessPipeTerm, Waits
  <2> q0.ends[e].state \in {"active", "delimiter_received"}
    BY <1>6
  <2>2. /\ Good(n, k) /\ n \in PairType
        /\ n.ends[e].state = "waiting_for_delimiter"
        /\ n.ends[e].in = q0.ends[e].in
        /\ n.ends[e].delay = q0.ends[e].delay
        /\ n.ends[e].inActive = q0.ends[e].inActive
        /\ n.ends[Other(e)] = q0.ends[Other(e)]
        /\ n.pipes = q0.pipes /\ n.cmds = q.cmds
    BY <2>1, AskedToWait
  <2>3. CASE e = "socket"
    <3>1. n.ends["session"] = q0.ends["session"] /\ n.cmds["session"] = q0.cmds["session"]
      BY <1>3, <2>2, <2>3, Two
    <3>2. Kin(q0, n)
      BY <2>2, <3>1 DEF Kin, Lax, ToldFirst, Readable, MayRead, Inbound
    <3>3. QED
      BY <2>2, <2>3, <3>2
  <2>4. CASE e = "session"
    <3>1. Readable(q0, "session") => Readable(n, "session")
      BY <2>2, <2>4 DEF Readable, MayRead, Inbound
    <3>2. QED
      BY <1>6, <2>2, <2>4, <3>1
  <2>5. QED
    BY <2>3, <2>4, Two
<1>7. CASE (state = "active" /\ ~q0.ends[e].delay) \/ state = "delimiter_received"
  <2> DEFINE w == [q EXCEPT !.ends[e].state = "waiting_for_delimiter"]
  <2>1. n = Acked(q, e) /\ Waits(q, w, e)
    BY <1>2, <1>7 DEF ProcessPipeTerm, Waits
  <2> HIDE DEF w
  <2>2. /\ Good(w, k) /\ w \in PairType
        /\ w.ends[e].state = "waiting_for_delimiter" /\ w.ends[e].in = q0.ends[e].in
        /\ w.ends[Other(e)] = q0.ends[Other(e)]
        /\ w.pipes = q0.pipes /\ w.cmds = q.cmds /\ w.failed = q0.failed
    BY <1>7, <2>1, AskedToWait
  <2>3. /\ n \in PairType /\ c \in Commands /\ c.type = "pipe_term_ack"
        /\ n.ends[e].state = "term_ack_sent" /\ n.ends[e].out = 0
        /\ n.ends[e].in = q.ends[e].in
        /\ n.ends[Other(e)] = q.ends[Other(e)]
        /\ Sent(q, n, Other(e), c) /\ n.pipes = q.pipes
        /\ n.failed = q.failed
    BY <1>2, <2>1, AckedIs
  <2> HIDE DEF c
  <2>4. Sent(w, n, Other(e), c) /\ SamePipes(w, n) /\ SameEnd(w, n, Other(e))
    BY <1>2, <2>2, <2>3 DEF Sent, SamePipes, SameEnd
  <2>5. n.ends[e].in = w.ends[e].in /\ n.failed = w.failed
    BY <1>2, <2>2, <2>3
  <2>6. Good(n, k)
    BY <2>2, <2>3, <2>4, <2>5, AckKeeps
  <2>7. n.ends[e].in = q0.ends[e].in /\ n.ends[Other(e)] = q0.ends[Other(e)] /\ n.pipes = q0.pipes
    BY <1>2, <2>3
  <2>8. QED
    BY <1>5, <1>7, <2>3, <2>6, <2>7
<1>8. CASE state = "term_req_sent1"
  <2>1. Answered(q, n, e, "term_req_sent2") /\ "term_req_sent2" \in States
    BY <1>2, <1>8 DEF ProcessPipeTerm, Answered, States
  <2>2. /\ n \in PairType /\ c \in Commands /\ c.type = "pipe_term_ack"
        /\ n.ends[e].state = "term_req_sent2" /\ n.ends[e].out = 0
        /\ n.ends[e].in = q.ends[e].in
        /\ n.ends[Other(e)] = q.ends[Other(e)]
        /\ Sent(q, n, Other(e), c) /\ n.pipes = q.pipes
        /\ n.failed = q.failed
    BY <1>2, <2>1, AnsweredIs
  <2> HIDE DEF c
  <2>3. n.cmds[e] = Tail(q0.cmds[e]) /\ n.cmds[Other(e)] = Append(q0.cmds[Other(e)], c)
    BY <1>3, <2>2, Two DEF Sent
  <2>4. SamePipes(q0, n) /\ SameEnd(q0, n, Other(e))
    BY <1>2, <2>2 DEF SamePipes, SameEnd
  <2>5. n.ends[e].in = q0.ends[e].in /\ n.ends[Other(e)] = q0.ends[Other(e)]
        /\ n.pipes = q0.pipes /\ n.failed = q0.failed
    BY <1>2, <2>2
  <2>6. Good(n, k)
    BY <1>2, <1>8, <2>2, <2>3, <2>4, <2>5, CrossKeeps
  <2>7. QED
    BY <1>5, <1>8, <2>2, <2>5, <2>6
<1>9. QED
  BY <1>4, <1>6, <1>7, <1>8

(* pipe_term_ack: the end and its inbound ypipe are deallocated. *)
Goes(a, n, e) ==
    n = [a EXCEPT !.ends[e].state = "gone", !.ends[e].out = 0,
                  !.pipes[a.ends[e].in].freed = TRUE]

(* What the deallocation changes. *)
LEMMA GoesIs ==
    ASSUME MaxLosses \in Nat, NEW a \in PairType, NEW e \in Ends, NEW n, Goes(a, n, e)
    PROVE  /\ n \in PairType /\ n.cmds = a.cmds /\ n.failed = a.failed
           /\ n.ends[e].state = "gone" /\ n.ends[e].out = 0 /\ n.ends[e].in = a.ends[e].in
           /\ n.ends[Other(e)] = a.ends[Other(e)] /\ SameEnd(a, n, Other(e))
           /\ \A i \in 1..2 + MaxLosses : /\ n.pipes[i].draft = a.pipes[i].draft
                                          /\ n.pipes[i].queue = a.pipes[i].queue
           /\ n.pipes[a.ends[e].in].freed
           /\ \A i \in 1..2 + MaxLosses : i # a.ends[e].in => n.pipes[i].freed = a.pipes[i].freed
<1>1. PICK in \in 1..2 + MaxLosses : in = a.ends[e].in
  BY Typed
<1> DEFINE x == [a.ends[e] EXCEPT !.state = "gone", !.out = 0]
           r == [a EXCEPT !.ends[e] = x]
           y == [a.pipes[in] EXCEPT !.freed = TRUE]
<1>2. a.ends[e] \in EndType /\ a.pipes[in] \in YpipeType /\ Other(e) \in Ends
  BY Two DEF PairType
<1>3. x \in EndType /\ x.state = "gone" /\ x.out = 0 /\ x.in = a.ends[e].in
  <2>1. 0 \in 0..2 + MaxLosses /\ "gone" \in States
    BY DEF States
  <2>2. QED
    BY <1>2, <2>1 DEF EndType
<1>4. /\ y \in YpipeType /\ y.freed
      /\ y.draft = a.pipes[in].draft /\ y.queue = a.pipes[in].queue
  BY <1>2 DEF YpipeType
<1>5. n = [r EXCEPT !.pipes[in] = y]
  BY <1>1 DEF Goes, PairType
<1> HIDE DEF x, y
<1>6. /\ r \in PairType /\ r.ends[e] = x /\ r.ends[Other(e)] = a.ends[Other(e)]
      /\ r.pipes = a.pipes /\ r.cmds = a.cmds /\ r.failed = a.failed
  BY <1>3, EndIs
<1> HIDE DEF r
<1>7. /\ n \in PairType /\ n.pipes[in] = y
      /\ \A j \in 1..2 + MaxLosses : j # in => n.pipes[j] = r.pipes[j]
      /\ n.ends = r.ends /\ n.cmds = r.cmds /\ n.failed = r.failed
  BY <1>4, <1>5, <1>6, YpipeIs
<1>8. SameEnd(a, n, Other(e)) /\ n.ends[Other(e)] = a.ends[Other(e)]
  BY <1>6, <1>7 DEF SameEnd
<1>9. \A i \in 1..2 + MaxLosses : /\ n.pipes[i].draft = a.pipes[i].draft
                                  /\ n.pipes[i].queue = a.pipes[i].queue
                                  /\ i # in => n.pipes[i].freed = a.pipes[i].freed
  BY <1>4, <1>6, <1>7
<1>10. QED
  BY <1>1, <1>3, <1>4, <1>6, <1>7, <1>8, <1>9

(* Whom pipe_term_ack may reach. *)
LEMMA AcknowledgedShape ==
    ASSUME NEW k, NEW q, Good(q, k), NEW e \in Ends, q.cmds[e] # <<>>,
           Head(q.cmds[e]).type = "pipe_term_ack"
    PROVE  q.ends[e].state \in {"term_req_sent1", "term_req_sent2", "term_ack_sent"}
<1>1. q.cmds[e] \in Seq(Commands) /\ RowOK(q.cmds[e])
  BY Typed DEF Good, RowsOK
<1>2. Has(q.cmds[e], "pipe_term_ack") /\ ~Has(q.cmds[e], "pipe_term")
  <2>1. \A i \in 1..Len(Tail(q.cmds[e])) : Tail(q.cmds[e])[i].type = "term"
    BY <1>1, RowTail
  <2>2. ~Has(Tail(q.cmds[e]), "pipe_term")
    BY <2>1 DEF Has
  <2>3. QED
    BY <1>1, <2>2, HasTail
<1>3. QED
  BY <1>2, AckShape DEF Good

(* pipe_term_ack, for the end in each of its states *)
LEMMA ProcessPipeTermAckKeeps ==
    ASSUME MaxLosses \in Nat, NEW k, NEW q0, Good(q0, k), NEW e \in Ends,
           NEW q, TakeFrom(q0, q, e), Head(q0.cmds[e]).type = "pipe_term_ack",
           NEW n, n = ProcessPipeTermAck(q, e)
    PROVE  /\ Good(n, k)
           /\ e = "socket" => Kin(q0, n)
           /\ e = "session" =>
                 /\ n.ends["session"].in = q0.ends["session"].in
                 /\ n.ends["session"].state = "gone"
                 /\ ~Readable(q0, "session")
<1> DEFINE state == q0.ends[e].state
           c == [type |-> "pipe_term_ack", arg |-> 0]
           a == IF state = "term_req_sent1" THEN Send(q, Other(e), "pipe_term_ack", 0) ELSE q
<1>1. q0 \in PairType /\ Other(e) \in Ends
  BY Two DEF Good
<1>2. /\ q \in PairType /\ q.ends = q0.ends /\ q.pipes = q0.pipes /\ q.failed = q0.failed
      /\ Taken(q0, q, e)
      /\ q0.cmds[e] \in Seq(Commands) /\ q0.cmds[e] # <<>>
  BY <1>1, TakenIs
<1>3. q.cmds[e] = Tail(q0.cmds[e]) /\ q.cmds[Other(e)] = q0.cmds[Other(e)]
  BY <1>2 DEF Taken
<1>4. state \in {"term_req_sent1", "term_req_sent2", "term_ack_sent"}
  BY <1>2, AcknowledgedShape
<1>5. c \in Commands /\ c.type = "pipe_term_ack" /\ c.type # "term"
  BY DEF Commands
<1>6. /\ a \in PairType /\ a.ends = q0.ends /\ a.pipes = q0.pipes /\ a.failed = q0.failed
      /\ a.cmds[e] = Tail(q0.cmds[e])
      /\ a.cmds[Other(e)] = IF state = "term_req_sent1"
                            THEN Append(q0.cmds[Other(e)], c) ELSE q0.cmds[Other(e)]
  <2>1. CASE state = "term_req_sent1"
    <3> DEFINE m == Send(q, Other(e), "pipe_term_ack", 0)
    <3>1. /\ m \in PairType /\ m.ends = q.ends /\ m.pipes = q.pipes /\ m.failed = q.failed
          /\ m.cmds[Other(e)] = Append(q.cmds[Other(e)], c)
          /\ m.cmds[Other(Other(e))] = q.cmds[Other(Other(e))]
      BY <1>1, <1>2, SendIs
    <3> HIDE DEF m
    <3>2. a = m
      BY <2>1 DEF m
    <3>3. m.cmds[e] = Tail(q0.cmds[e]) /\ m.cmds[Other(e)] = Append(q0.cmds[Other(e)], c)
      BY <1>3, <3>1, Two
    <3> HIDE DEF a, c
    <3>4. QED
      BY <1>2, <2>1, <3>1, <3>2, <3>3
  <2>2. CASE state # "term_req_sent1"
    BY <1>2, <1>3, <2>2
  <2>3. QED
    BY <2>1, <2>2
<1>7. Goes(a, n, e)
  <2>1. [q EXCEPT !.failed = q.failed] = q
    BY <1>2 DEF PairType
  <2>2. CASE state = "term_req_sent1"
    <3>1. a = Send(q, Other(e), "pipe_term_ack", 0) /\ a.ends[e].in = q.ends[e].in
      BY <1>2, <1>6, <2>2
    <3> HIDE DEF a
    <3>2. n = [a EXCEPT !.ends[e].state = "gone", !.ends[e].out = 0,
                        !.pipes[q.ends[e].in].freed = TRUE]
      BY <1>2, <2>2, <3>1 DEF ProcessPipeTermAck
    <3>3. QED
      BY <3>1, <3>2 DEF Goes
  <2>3. CASE state # "term_req_sent1"
    <3>1. a = q /\ a.ends[e].in = q.ends[e].in
      BY <2>3
    <3> HIDE DEF a
    <3>2. Fail(q, state \in {"term_ack_sent", "term_req_sent2"}) = q
      <4>1. q.failed \in BOOLEAN
        BY <1>2 DEF PairType
      <4>2. (q.failed \/ ~(state \in {"term_ack_sent", "term_req_sent2"})) = q.failed
        BY <1>4, <2>3, <4>1
      <4>3. QED
        BY <2>1, <4>2 DEF Fail
    <3>3. n = [a EXCEPT !.ends[e].state = "gone", !.ends[e].out = 0,
                        !.pipes[q.ends[e].in].freed = TRUE]
      BY <1>2, <2>3, <3>1, <3>2 DEF ProcessPipeTermAck
    <3>4. QED
      BY <3>1, <3>3 DEF Goes
  <2>4. QED
    BY <2>2, <2>3
<1> HIDE DEF a, c
<1>8. /\ n \in PairType /\ n.cmds = a.cmds /\ n.failed = a.failed
      /\ n.ends[e].state = "gone" /\ n.ends[e].out = 0 /\ n.ends[e].in = a.ends[e].in
      /\ n.ends[Other(e)] = a.ends[Other(e)] /\ SameEnd(a, n, Other(e))
      /\ \A i \in 1..2 + MaxLosses : /\ n.pipes[i].draft = a.pipes[i].draft
                                     /\ n.pipes[i].queue = a.pipes[i].queue
      /\ n.pipes[a.ends[e].in].freed
      /\ \A i \in 1..2 + MaxLosses : i # a.ends[e].in => n.pipes[i].freed = a.pipes[i].freed
  BY <1>6, <1>7, GoesIs, SMTT(30)
<1>9. /\ n.cmds[e] = Tail(q0.cmds[e])
      /\ n.cmds[Other(e)] = IF state = "term_req_sent1"
                            THEN Append(q0.cmds[Other(e)], c) ELSE q0.cmds[Other(e)]
      /\ n.ends[e].in = q0.ends[e].in
      /\ n.ends[Other(e)] = q0.ends[Other(e)] /\ SameEnd(q0, n, Other(e))
      /\ n.failed = q0.failed
  BY <1>6, <1>8 DEF SameEnd
<1>10. /\ \A i \in 1..2 + MaxLosses : /\ n.pipes[i].draft = q0.pipes[i].draft
                                      /\ n.pipes[i].queue = q0.pipes[i].queue
       /\ n.pipes[q0.ends[e].in].freed
       /\ \A i \in 1..2 + MaxLosses : i # q0.ends[e].in => n.pipes[i].freed = q0.pipes[i].freed
  BY <1>6, <1>8
<1>11. Good(n, k)
  BY <1>2, <1>5, <1>8, <1>9, <1>10, GoKeeps
<1>12. CASE e = "socket"
  <2>1. /\ n.ends["session"] = q0.ends["session"]
        /\ \/ n.cmds["session"] = q0.cmds["session"]
           \/ n.cmds["session"] = Append(q0.cmds["session"], c)
    BY <1>9, <1>12, Two
  <2>2. q0.ends["session"].in \in 1..2 + MaxLosses
    BY <1>1, Typed, Two
  <2>3. n.pipes[q0.ends["session"].in].queue = q0.pipes[q0.ends["session"].in].queue
    BY <1>10, <2>2
  <2>4. Kin(q0, n)
    BY <1>1, <1>5, <2>1, <2>3, KinIs
  <2>5. QED
    BY <1>11, <1>12, <2>4
<1>13. CASE e = "session"
  <2>1. ~Readable(q0, "session")
    BY <1>4, <1>13 DEF Readable, MayRead
  <2>2. QED
    BY <1>8, <1>9, <1>11, <1>13, <2>1
<1>14. QED
  BY <1>12, <1>13, Two

-----------------------------------------------------------------------------
(* hiccup: the socket writes to the session's new ypipe.                   *)
Renews(q, n, out, i, num) ==
    n = [q EXCEPT !.pipes[out].freed = TRUE,
                  !.ends["socket"].out = i, !.ends["socket"].outActive = TRUE,
                  !.ends["socket"].written = @ - num]

Frees(q, n, i) ==
    /\ \A j \in 1..2 + MaxLosses : /\ n.pipes[j].draft = q.pipes[j].draft
                                   /\ n.pipes[j].queue = q.pipes[j].queue
    /\ n.pipes[i].freed
    /\ \A j \in 1..2 + MaxLosses : j # i => n.pipes[j].freed = q.pipes[j].freed

(* What the new ypipe changes. *)
LEMMA RenewsIs ==
    ASSUME MaxLosses \in Nat, NEW q \in PairType, NEW i \in 1..2 + MaxLosses,
           NEW out \in 1..2 + MaxLosses, NEW num \in Nat, NEW n, Renews(q, n, out, i, num)
    PROVE  /\ n \in PairType /\ n.cmds = q.cmds /\ n.failed = q.failed
           /\ n.ends["socket"].out = i /\ n.ends["socket"].state = q.ends["socket"].state
           /\ n.ends["socket"].in = q.ends["socket"].in
           /\ n.ends["session"] = q.ends["session"]
           /\ Frees(q, n, out)
<1> DEFINE x == [q.ends["socket"] EXCEPT !.out = i, !.outActive = TRUE,
                                         !.written = q.ends["socket"].written - num]
           z == [q.pipes[out] EXCEPT !.freed = TRUE]
           r == [q EXCEPT !.pipes[out] = z]
<1>1. "socket" \in Ends /\ Other("socket") = "session"
  BY Two
<1>2. /\ q.ends["socket"] \in EndType /\ q.pipes[out] \in YpipeType
      /\ q.ends["socket"].written \in Int
  BY <1>1, Typed DEF PairType
<1>3. q.ends["socket"].written - num \in Int /\ i \in 0..2 + MaxLosses
  BY <1>2
<1>4. /\ x \in EndType /\ x.out = i /\ x.state = q.ends["socket"].state
      /\ x.in = q.ends["socket"].in
  BY <1>2, <1>3 DEF EndType
<1>5. /\ z \in YpipeType /\ z.freed
      /\ z.draft = q.pipes[out].draft /\ z.queue = q.pipes[out].queue
  BY <1>2 DEF YpipeType
<1>6. n = [r EXCEPT !.ends["socket"] = x]
  BY <1>1, ZenonT(30) DEF Renews, PairType
<1> HIDE DEF x, z
<1>7. /\ r \in PairType /\ r.pipes[out] = z
      /\ \A j \in 1..2 + MaxLosses : j # out => r.pipes[j] = q.pipes[j]
      /\ r.ends = q.ends /\ r.cmds = q.cmds /\ r.failed = q.failed
  BY <1>5, YpipeIs
<1> HIDE DEF r
<1>8. /\ n \in PairType /\ n.ends["socket"] = x
      /\ n.ends[Other("socket")] = r.ends[Other("socket")]
      /\ n.pipes = r.pipes /\ n.cmds = r.cmds /\ n.failed = r.failed
  BY <1>1, <1>4, <1>6, <1>7, EndIs
<1>9. Frees(q, n, out)
  BY <1>5, <1>7, <1>8 DEF Frees
<1>10. QED
  BY <1>1, <1>4, <1>7, <1>8, <1>9

(* It depends on the ypipes only. *)
LEMMA FreesFrom ==
    ASSUME NEW q, NEW r, q.pipes = r.pipes, NEW n, NEW i, Frees(q, n, i)
    PROVE  Frees(r, n, i)
BY DEF Frees

(* hiccup, for a socket that still writes: the ypipe is one that exists. *)
LEMMA ProcessHiccupKeeps ==
    ASSUME MaxLosses \in Nat, NEW k, NEW q0, Good(q0, k), NEW q, TakeFrom(q0, q, "socket"),
           Head(q0.cmds["socket"]).type = "hiccup",
           NEW n, n = ProcessHiccup(q, Head(q0.cmds["socket"]).arg)
    PROVE  Good(n, k) /\ Kin(q0, n)
<1> DEFINE s == q0.cmds["socket"]
<1>1. q0 \in PairType /\ "socket" \in Ends /\ "session" \in Ends /\ Other("socket") = "session"
  BY Two DEF Good
<1>2. /\ q \in PairType /\ q.ends = q0.ends /\ q.pipes = q0.pipes /\ q.failed = q0.failed
      /\ Taken(q0, q, "socket")
      /\ s \in Seq(Commands) /\ s # <<>> /\ Head(s) \in Commands
  BY <1>1, TakenIs
<1>3. /\ Head(s).arg \in 3..q0.ends["session"].in
      /\ q0.ends["socket"].state \notin Silent
  <2>1. 1 \in 1..Len(s) /\ s[1] = Head(s)
    BY <1>2
  <2>2. s[1].type = "hiccup"
    BY <2>1
  <2>3. /\ s[1].arg \in 3..q0.ends["session"].in
        /\ q0.ends["socket"].state \notin Silent
    BY <2>1, <2>2 DEF Good, ChainOK
  <2>4. QED
    BY <2>1, <2>3
<1>4. /\ q0.ends["session"].in \in 1..2 + MaxLosses
      /\ q0.ends["socket"].out \in 0..2 + MaxLosses /\ q0.ends["socket"].out # 0
  BY <1>1, <1>3, Typed DEF Good, OutOK
<1>5. PICK i \in 1..2 + MaxLosses : i = Head(s).arg
  BY <1>3, <1>4
<1>6. PICK out \in 1..2 + MaxLosses : out = q.ends["socket"].out
  BY <1>2, <1>4
<1> DEFINE y == q.pipes[out]
           unread == y.queue \o SubSeq(y.draft, 1, Whole(y.draft))
           ends == {j \in DOMAIN unread : unread[j] # "more"}
           num == Cardinality(ends)
<1>8. num \in Nat
  <2>1. YpipeOK(y, q0, k, out) /\ y \in YpipeType
    BY <1>2, DraftsOpen
  <2> HIDE DEF y
  <2>2. /\ y.queue \in Seq(Frames) /\ y.draft \in Seq(Frames)
        /\ \A j \in 1..Len(y.draft) : y.draft[j] = "more"
    BY <2>1 DEF YpipeOK, YpipeType
  <2>3. SubSeq(y.draft, 1, Whole(y.draft)) = <<>>
    BY <2>2, WholeNone
  <2>4. unread = y.queue \o <<>>
    BY <2>3
  <2> HIDE DEF unread
  <2>5. DOMAIN unread = 1..Len(unread) /\ Len(unread) \in Int
    BY <2>2, <2>4
  <2>6. IsFiniteSet(1..Len(unread))
    BY <2>5, FS_Interval
  <2>7. ends \in SUBSET (1..Len(unread))
    BY <2>5
  <2>8. IsFiniteSet(ends)
    BY <2>6, <2>7, FS_Subset
  <2>9. QED
    BY <2>8, FS_CardinalityType
<1>9. Renews(q, n, out, i, num)
  <2>1. q.ends["socket"].out # 0
    BY <1>6
  <2>2. QED
    BY <1>5, <1>6, <2>1 DEF ProcessHiccup, Renews
<1> HIDE DEF num, y, unread, ends
<1>13. /\ n \in PairType /\ n.cmds = q.cmds /\ n.failed = q.failed
       /\ n.ends["socket"].out = i /\ n.ends["socket"].state = q.ends["socket"].state
       /\ n.ends["socket"].in = q.ends["socket"].in
       /\ n.ends["session"] = q.ends["session"]
  BY <1>2, <1>8, <1>9, RenewsIs
<1>14. Frees(q, n, out) /\ out = q0.ends["socket"].out
  BY <1>2, <1>6, <1>8, <1>9, RenewsIs
<1>15. /\ Taken(q0, n, "socket") /\ n.ends["session"] = q0.ends["session"]
       /\ SameEnd(q0, n, "session")
  BY <1>2, <1>13 DEF Taken, SameEnd
<1>16. /\ n.ends["socket"].state = q0.ends["socket"].state
       /\ n.ends["socket"].in = q0.ends["socket"].in
       /\ n.ends["socket"].out = Head(s).arg /\ n.failed = q0.failed
  BY <1>2, <1>5, <1>13
<1>17. /\ n.pipes[q0.ends["socket"].out].freed
       /\ \A j \in 1..2 + MaxLosses : /\ n.pipes[j].draft = q0.pipes[j].draft
                                      /\ n.pipes[j].queue = q0.pipes[j].queue
       /\ \A j \in 1..2 + MaxLosses :
              j # q0.ends["socket"].out => n.pipes[j].freed = q0.pipes[j].freed
  <2>1. Frees(q0, n, out)
    BY <1>2, <1>14, FreesFrom
  <2>2. Frees(q0, n, q0.ends["socket"].out)
    BY <1>14, <2>1
  <2>3. QED
    BY <2>2 DEF Frees
<1>18. Good(n, k)
  <2>1. n \in PairType /\ Taken(q0, n, "socket") /\ SameEnd(q0, n, "session")
    BY <1>13, <1>15
  <2> HIDE DEF s
  <2>2. QED
    BY <1>16, <1>17, <2>1, NewPipeKeeps DEF s
<1>19. /\ n.cmds["session"] = q0.cmds["session"]
       /\ n.pipes[q0.ends["session"].in].queue = q0.pipes[q0.ends["session"].in].queue
  BY <1>1, <1>4, <1>15, <1>17 DEF Taken
<1>20. Kin(q0, n)
  BY <1>1, <1>2, <1>15, <1>19, KinIs
<1>21. QED
  BY <1>18, <1>20

(* hiccup, by the session that lost its connection *)
LEMMA HiccupIs ==
    ASSUME MaxLosses \in Nat, NEW k, NEW q, Good(q, k), NEW i \in 1..2 + MaxLosses,
           i > q.ends["session"].in, NEW n, n = Hiccup(q, i)
    PROVE  /\ Good(n, k) /\ n.ends["session"].in <= i
           /\ n.ends["session"].state = q.ends["session"].state
           /\ n.ends["session"].delay = q.ends["session"].delay
           /\ ToldFirst(q) => ToldFirst(n)
<1>1. q \in PairType /\ "session" \in Ends /\ "socket" \in Ends
      /\ Other("socket") = "session" /\ Other("session") = "socket"
  BY Two DEF Good
<1>2. q.ends["session"] \in EndType /\ q.ends["session"].in \in 1..2 + MaxLosses
  BY <1>1, Typed DEF PairType
<1>3. CASE q.ends["session"].state # "active"
  BY <1>2, <1>3 DEF Hiccup
<1>4. CASE q.ends["session"].state = "active"
  <2> DEFINE x == [q.ends["session"] EXCEPT !.in = i, !.inActive = TRUE]
             r == [q EXCEPT !.ends["session"] = x]
             c == [type |-> "hiccup", arg |-> i]
  <2> HIDE DEF c
  <2>1. n = Send(r, "socket", "hiccup", i)
    <3>1. [q EXCEPT !.ends["session"].in = i, !.ends["session"].inActive = TRUE] = r
      BY <1>1 DEF PairType
    <3>2. QED
      BY <1>4, <3>1 DEF Hiccup
  <2>2. /\ x \in EndType /\ x.in = i /\ x.out = q.ends["session"].out
        /\ x.state = q.ends["session"].state /\ x.delay = q.ends["session"].delay
    BY <1>2 DEF EndType
  <2> HIDE DEF x
  <2>3. /\ r \in PairType /\ r.ends["session"] = x
        /\ r.ends[Other("session")] = q.ends[Other("session")]
        /\ r.pipes = q.pipes /\ r.cmds = q.cmds /\ r.failed = q.failed
    BY <1>1, <2>2, EndIs
  <2> HIDE DEF r
  <2>4. /\ n \in PairType /\ c \in Commands /\ c.type = "hiccup" /\ c.arg = i
        /\ n.ends = r.ends /\ n.pipes = r.pipes /\ n.failed = r.failed
        /\ n.cmds["socket"] = Append(r.cmds["socket"], c)
        /\ n.cmds[Other("socket")] = r.cmds[Other("socket")]
    <3>1. i \in Int /\ r \in PairType /\ "socket" \in Ends
      BY <1>1, <2>3
    <3> DEFINE m == Send(r, "socket", "hiccup", i)
    <3>2. /\ m \in PairType /\ m.ends = r.ends /\ m.pipes = r.pipes /\ m.failed = r.failed
          /\ m.cmds["socket"] = Append(r.cmds["socket"], c)
          /\ m.cmds[Other("socket")] = r.cmds[Other("socket")]
      BY <3>1, SendIs DEF c
    <3>3. c \in Commands /\ c.type = "hiccup" /\ c.arg = i
      BY <3>1 DEF c, Commands
    <3>4. n = m
      BY <2>1
    <3> HIDE DEF m
    <3>5. QED
      BY <3>2, <3>3, <3>4
  <2>5. Sent(q, n, "socket", c) /\ SamePipes(q, n) /\ SameEnd(q, n, "socket")
    BY <1>1, <2>3, <2>4 DEF Sent, SamePipes, SameEnd
  <2>6. /\ n.ends["session"].state = q.ends["session"].state
        /\ n.ends["session"].delay = q.ends["session"].delay
        /\ n.ends["session"].in = i /\ n.ends["session"].out = q.ends["session"].out
        /\ n.cmds["session"] = q.cmds["session"] /\ n.failed = q.failed
    BY <1>1, <2>2, <2>3, <2>4
  <2>7. Good(n, k)
    BY <1>4, <2>4, <2>5, <2>6, HiccupKeeps
  <2>8. ToldFirst(q) => ToldFirst(n)
    BY <2>6 DEF ToldFirst
  <2>9. QED
    BY <2>6, <2>7, <2>8
<1>5. QED
  BY <1>3, <1>4

-----------------------------------------------------------------------------
(* What the session does when it has lost its connection, and when it is   *)
(* told to terminate.                                                      *)

LEMMA CleanPipesKeeps ==
    ASSUME MaxLosses \in Nat, NEW k, NEW q, Good(q, k),
           halfRead => Readable(q, "session"), NEW n, n = CleanPipes(q)
    PROVE  Good(n, k) /\ Lax(q, n) /\ n.ends["session"].state = q.ends["session"].state
<1> DEFINE b == Rollback(q, "session")
<1>1. "session" \in Ends
  BY Two
<1>2. Good(b, k) /\ Kin(q, b) /\ b.ends = q.ends
  BY <1>1, RollbackKeeps
<1> HIDE DEF b
<1>3. b \in PairType /\ b.failed \in BOOLEAN
  BY <1>2 DEF Good, PairType
<1>4. Flush(b, "session") = b
  BY <1>1, <1>2, FlushNothing
<1>5. n = IF halfRead THEN Read(Fail(b, Readable(b, "session")), "session") ELSE b
  BY <1>4 DEF CleanPipes, b
<1>6. CASE halfRead
  <2>1. Readable(b, "session")
    BY <1>2, <1>6 DEF Kin
  <2>2. Fail(b, Readable(b, "session")) = b
    <3>1. (b.failed \/ ~Readable(b, "session")) = b.failed
      BY <1>3, <2>1
    <3>2. [b EXCEPT !.failed = b.failed] = b
      BY <1>3 DEF PairType
    <3>3. QED
      BY <3>1, <3>2 DEF Fail
  <2>3. n = Read(b, "session")
    BY <1>5, <1>6, <2>2
  <2>4. Good(n, k) /\ Lax(b, n) /\ n.ends["session"].state = b.ends["session"].state
    BY <1>1, <1>2, <2>1, <2>3, ReadKeeps
  <2>5. QED
    BY <1>2, <2>4, KinTrans DEF Kin
<1>7. CASE ~halfRead
  BY <1>2, <1>5, <1>7 DEF Kin
<1>8. QED
  BY <1>6, <1>7

(* term, sent to the session *)
LEMMA TermKeeps ==
    ASSUME MaxLosses \in Nat, NEW k, NEW q, Good(q, k), NEW n, n = Send(q, "session", "term", 0)
    PROVE  /\ Good(n, k) /\ n.ends = q.ends /\ n.pipes = q.pipes
           /\ (q.ends["session"].state \in {"active", "delimiter_received"} =>
                   Has(q.cmds["session"], "pipe_term"))
                 => Kin(q, n)
<1> DEFINE c == [type |-> "term", arg |-> 0]
           s == q.cmds["session"]
           d == n.cmds["session"]
<1>1. q \in PairType /\ "session" \in Ends /\ "socket" \in Ends /\ Other("socket") = "session"
  BY Two DEF Good
<1>2. /\ n \in PairType /\ c \in Commands /\ c.type = "term"
      /\ n.ends = q.ends /\ n.pipes = q.pipes /\ n.failed = q.failed
      /\ n.cmds["session"] = Append(q.cmds["session"], c)
      /\ Sent(q, n, "session", c) /\ SamePipes(q, n)
      /\ \A x \in Ends : SameEnd(q, n, x)
  BY <1>1, SendIs
<1> HIDE DEF c
<1>3. Good(n, k)
  <2>1. Sent(q, n, Other("socket"), c)
    BY <1>1, <1>2
  <2>2. QED
    BY <1>1, <1>2, <2>1, SendKeeps
<1>4. ASSUME q.ends["session"].state \in {"active", "delimiter_received"} =>
                 Has(s, "pipe_term"),
             ToldFirst(q)
      PROVE  ToldFirst(n)
  <2>1. /\ s \in Seq(Commands) /\ Len(s) \in Nat /\ Len(d) = Len(s) + 1
        /\ \A i \in 1..Len(s) : d[i] = s[i]
    <3>1. s \in Seq(Commands) /\ d = Append(s, c)
      BY <1>1, <1>2, Typed
    <3> HIDE DEF s, d
    <3>2. QED
      BY <3>1
  <2> SUFFICES ASSUME q.ends["session"].state \in {"active", "delimiter_received"},
                      NEW i \in 1..Len(d), d[i].type = "term"
               PROVE  \E j \in 1..i - 1 : d[j].type = "pipe_term"
    BY <1>2 DEF ToldFirst
  <2> HIDE DEF d
  <2>2. CASE i \in 1..Len(s)
    <3>1. PICK j \in 1..i - 1 : s[j].type = "pipe_term"
      BY <1>4, <2>1, <2>2 DEF ToldFirst
    <3>2. j \in 1..Len(s)
      BY <2>1, <2>2
    <3>3. QED
      BY <2>1, <3>1, <3>2
  <2>3. CASE i = Len(s) + 1
    <3>1. PICK j \in 1..Len(s) : s[j].type = "pipe_term"
      BY <1>4 DEF Has
    <3>2. j \in 1..i - 1
      BY <2>1, <2>3
    <3>3. QED
      BY <2>1, <3>1, <3>2
  <2>4. QED
    BY <2>1, <2>2, <2>3
<1>5. ASSUME q.ends["session"].state \in {"active", "delimiter_received"} =>
                 Has(s, "pipe_term")
      PROVE  Kin(q, n)
  <2>1. ToldFirst(q) => ToldFirst(n)
    BY <1>4, <1>5
  <2>2. QED
    BY <1>2, <2>1 DEF Kin, Lax, Readable, MayRead, Inbound
<1>6. QED
  BY <1>2, <1>3, <1>5

(* The socket has left the pipe. *)
LEMMA LeftTold ==
    ASSUME NEW q, ShapeOK(q), q.ends["socket"].state # "active"
    PROVE  q.ends["session"].state \in {"active", "delimiter_received"} =>
               Has(q.cmds["session"], "pipe_term")
<1>1. "session" \in Ends /\ Other("session") = "socket"
  BY Two
<1>2. ASSUME q.ends["session"].state \in {"active", "delimiter_received"}
      PROVE  Has(q.cmds["session"], "pipe_term")
  <2>1. q.ends["session"].state \notin Silent
    BY <1>2 DEF Silent
  <2>2. QED
    BY <1>1, <1>2, <2>1, Listens
<1>3. QED
  BY <1>2

-----------------------------------------------------------------------------
(* Every step keeps the invariant.                                         *)

LEMMA Stays ==
    ASSUME PInv, UNCHANGED <<kind, engine, halfRead, losses>>, Good(p', kind), Kin(p, p')
    PROVE  PInv'
<1>1. Fits(p', kind, engine, halfRead, losses)
  BY KinFits DEF PInv
<1>2. QED
  BY <1>1 DEF PInv

(* The socket or the session writes. *)
LEMMA WriteStep ==
    ASSUME Hypotheses, PInv, NEW e \in Ends, Write(e)
    PROVE  PInv'
<1>1. MaxLosses \in Nat /\ Good(p, kind)
  BY DEF Hypotheses, PInv
<1>2. PICK more \in BOOLEAN :
          LET frame == IF more THEN "more" ELSE "end"
              q == WriteFrame(p, e, frame)
          IN  IF Writable(p, e)
              THEN /\ more => ~parts[e] /\ ~(e = "socket" /\ kind = "sub")
                   /\ p' = IF more THEN q ELSE Flush(q, e)
              ELSE /\ more = FALSE
                   /\ p' = IF parts[e] /\ e = "socket" THEN Rollback(q, e) ELSE q
  BY DEF Write
<1>3. UNCHANGED <<kind, engine, halfRead, losses>>
  BY DEF Write
<1>4. CASE Writable(p, e) /\ more
  <2>1. p' = WriteFrame(p, e, "more") /\ (kind # "sub" \/ e = "session")
    BY <1>2, <1>4, Two
  <2>2. Good(p', kind) /\ Kin(p, p')
    BY <1>1, <1>4, <2>1, WriteKeeps
  <2>3. QED
    BY <1>3, <2>2, Stays
<1>5. CASE Writable(p, e) /\ ~more
  <2>1. p' = Flush(WriteFrame(p, e, "end"), e)
    BY <1>2, <1>5
  <2>2. Good(p', kind) /\ Kin(p, p')
    BY <1>1, <1>5, <2>1, WriteKeeps
  <2>3. QED
    BY <1>3, <2>2, Stays
<1>6. CASE ~Writable(p, e)
  <2> DEFINE q == WriteFrame(p, e, "end")
  <2>1. p' = q \/ p' = Rollback(q, e)
    BY <1>2, <1>6
  <2>2. Good(q, kind) /\ Kin(p, q)
    BY <1>1, <1>6, RefusedKeeps
  <2> HIDE DEF q
  <2>3. Good(Rollback(q, e), kind) /\ Kin(q, Rollback(q, e))
    BY <1>1, <2>2, RollbackKeeps
  <2>4. Kin(p, Rollback(q, e))
    BY <2>2, <2>3, KinTrans
  <2>5. Good(p', kind) /\ Kin(p, p')
    BY <2>1, <2>2, <2>3, <2>4
  <2>6. QED
    BY <1>3, <2>5, Stays
<1>7. QED
  BY <1>4, <1>5, <1>6

(* The socket reads. *)
LEMMA ReceiveStep ==
    ASSUME Hypotheses, PInv, Receive
    PROVE  PInv'
<1>1. MaxLosses \in Nat /\ Good(p, kind) /\ "socket" \in Ends
  BY Two DEF Hypotheses, PInv
<1>2. p' = Read(p, "socket") /\ UNCHANGED <<kind, engine, halfRead, losses>>
  BY DEF Receive
<1>3. Good(p', kind) /\ Kin(p, p')
  BY <1>1, <1>2, ReadKeeps
<1>4. QED
  BY <1>2, <1>3, Stays

(* The socket terminates its end before the session is told. *)
LEMMA CloseStep ==
    ASSUME Hypotheses, PInv, Close
    PROVE  PInv'
<1> DEFINE q == IF Alive("socket") THEN Terminate(p, "socket", FALSE) ELSE p
<1>1. MaxLosses \in Nat /\ Good(p, kind) /\ "socket" \in Ends
  BY Two DEF Hypotheses, PInv
<1>2. /\ p' = q \/ p' = Send(q, "session", "term", 0)
      /\ UNCHANGED <<kind, engine, halfRead, losses>>
  BY DEF Close
<1>3. Good(q, kind) /\ Kin(p, q) /\ q.ends["socket"].state # "active"
  <2>1. CASE Alive("socket")
    <3>1. PICK delay \in BOOLEAN : delay = FALSE
      OBVIOUS
    <3>2. q = Terminate(p, "socket", delay) /\ p.ends["socket"].state # "gone"
      BY <2>1, <3>1 DEF Alive
    <3> HIDE DEF q
    <3>3. QED
      BY <1>1, <3>2, TerminateKeeps
  <2>2. CASE ~Alive("socket")
    <3>1. q = p /\ q.ends["socket"].state # "active"
      BY <2>2 DEF Alive
    <3> HIDE DEF q
    <3>2. QED
      BY <1>1, <3>1, KinTrans
  <2>3. QED
    BY <2>1, <2>2
<1> HIDE DEF q
<1>4. CASE p' = q
  BY <1>2, <1>3, <1>4, Stays
<1>5. CASE p' = Send(q, "session", "term", 0)
  <2>1. q.ends["session"].state \in {"active", "delimiter_received"} =>
            Has(q.cmds["session"], "pipe_term")
    BY <1>3, LeftTold DEF Good
  <2>2. Good(p', kind) /\ Kin(q, p')
    BY <1>1, <1>3, <1>5, <2>1, TermKeeps
  <2>3. Kin(p, p')
    BY <1>3, <2>2, KinTrans
  <2>4. QED
    BY <1>2, <2>2, <2>3, Stays
<1>6. QED
  BY <1>2, <1>4, <1>5

(* Only a subscriber's listener ends sessions. *)
LEMMA UnbindStep ==
    ASSUME Hypotheses, PInv, Unbind
    PROVE  PInv'
<1>1. MaxLosses \in Nat /\ Good(p, kind) /\ kind = "sub"
  BY DEF Hypotheses, PInv, Unbind
<1>2. p' = Send(p, "session", "term", 0) /\ UNCHANGED <<kind, engine, halfRead, losses>>
  BY DEF Unbind
<1>3. Good(p', kind) /\ p'.ends = p.ends /\ p'.pipes = p.pipes
  BY <1>1, <1>2, TermKeeps
<1>4. Fits(p', kind, engine, halfRead, losses)
  BY <1>1, <1>3 DEF PInv, Fits, Readable, MayRead, Inbound
<1>5. QED
  BY <1>2, <1>3, <1>4 DEF PInv

(* A careful program raises the mark. *)
LEMMA SetMarkStep ==
    ASSUME Hypotheses, PInv, NEW mark \in Marks, SetMark(mark)
    PROVE  PInv'
<1>1. MaxLosses \in Nat /\ Good(p, kind) /\ Careful /\ mark \in Nat
  BY DEF Hypotheses, PInv
<1>2. /\ p.ends["socket"].state = "active"
      /\ p' = Send([p EXCEPT !.ends["socket"].hwm = mark], "session", "pipe_hwm", mark)
      /\ UNCHANGED <<kind, engine, halfRead, losses>>
  BY <1>1 DEF SetMark
<1>3. Good(p', kind) /\ Kin(p, p')
  BY <1>1, <1>2, MarkKeeps
<1>4. QED
  BY <1>2, <1>3, Stays

(* A message half read whose end is there. *)
LEMMA FitsHalf ==
    ASSUME NEW q, NEW k, NEW g, NEW h \in BOOLEAN, NEW l, Fits(q, k, g, FALSE, l),
           h => g = "up" /\ k # "sub" /\ Readable(q, "session")
    PROVE  Fits(q, k, g, h, l)
BY DEF Fits

(* The session's engine reads. *)
LEMMA PullStep ==
    ASSUME Hypotheses, PInv, Pull
    PROVE  PInv'
<1>1. MaxLosses \in Nat /\ Good(p, kind) /\ Fits(p, kind, engine, halfRead, losses)
      /\ "session" \in Ends
  BY Two DEF Hypotheses, PInv
<1>2. /\ engine = "up" /\ p' = Read(p, "session")
      /\ halfRead' = IF Readable(p, "session") THEN Head(Inbound(p, "session")) = "more"
                     ELSE halfRead
      /\ UNCHANGED <<kind, engine, losses>>
  BY DEF Pull
<1>3. /\ Good(p', kind) /\ Lax(p, p')
      /\ Readable(p, "session") /\ Head(Inbound(p, "session")) = "more" =>
            Readable(p', "session")
  BY <1>1, <1>2, ReadKeeps
<1>4. Fits(p', kind, engine, FALSE, losses)
  BY <1>1, <1>3, LaxFits
<1>5. CASE Readable(p, "session")
  <2>1. halfRead' \in BOOLEAN /\ (halfRead' => Head(Inbound(p, "session")) = "more")
    BY <1>2, <1>5
  <2>2. Head(Inbound(p, "session")) = "more" => kind # "sub"
    <3> DEFINE in == p.ends["session"].in
               s == p.pipes[in].queue
    <3>1. p \in PairType /\ in \in 1..2 + MaxLosses /\ in >= 2
      BY <1>1, Typed DEF Good, OutOK
    <3>2. s \in Seq(Frames) /\ s # <<>>
      BY <1>1, <1>5, <3>1, DraftsOpen DEF Readable, Inbound
    <3>3. 1 \in 1..Len(s) /\ s[1] = Head(s)
      BY <3>2
    <3>4. YpipeOK(p.pipes[in], p, kind, in)
      BY <1>1, <3>1, DraftsOpen
    <3>5. kind = "sub" => \A j \in 1..Len(s) : s[j] # "more"
      BY <3>1, <3>4 DEF YpipeOK
    <3>6. QED
      BY <3>3, <3>5 DEF Inbound
  <2>3. halfRead' => engine = "up" /\ kind # "sub" /\ Readable(p', "session")
    BY <1>2, <1>3, <1>5, <2>1, <2>2
  <2>4. Fits(p', kind, engine, halfRead', losses)
    BY <1>4, <2>1, <2>3, FitsHalf
  <2>5. QED
    BY <1>2, <1>3, <2>4 DEF PInv
<1>6. CASE ~Readable(p, "session")
  <2>1. ~halfRead' /\ halfRead' \in BOOLEAN
    BY <1>1, <1>2, <1>6 DEF Fits
  <2>2. Fits(p', kind, engine, halfRead', losses)
    BY <1>4, <2>1, FitsHalf
  <2>3. QED
    BY <1>2, <1>3, <2>2 DEF PInv
<1>7. QED
  BY <1>5, <1>6

(* The part of Fits that the end of a connection must keep. *)
LEMMA FitsLost ==
    ASSUME MaxLosses \in Nat, NEW q, NEW n, NEW k, NEW g, NEW h, NEW l,
           Fits(q, k, g, h, l), l < MaxLosses,
           n.ends["session"].in \in Int, n.ends["session"].in <= 2 + (l + 1),
           k # "sub" /\ n.ends["session"].state \in {"active", "waiting_for_delimiter"} =>
               n.ends["session"].delay,
           NEW f \in {"down", "none"},
           k # "sub" /\ f # "none" => ToldFirst(n)
    PROVE  Fits(n, k, f, FALSE, l + 1)
<1>1. l \in 0..MaxLosses /\ l + 1 \in 0..MaxLosses
  BY DEF Fits
<1>2. QED
  BY <1>1 DEF Fits

(* The connection is lost, and will be made again. *)
LEMMA LoseStep ==
    ASSUME Hypotheses, PInv, Lose
    PROVE  PInv'
<1>1. MaxLosses \in Nat /\ Good(p, kind) /\ Fits(p, kind, engine, halfRead, losses)
      /\ "session" \in Ends
  BY Two DEF Hypotheses, PInv
<1> DEFINE q == CleanPipes(p)
           i == 2 + losses'
           r == IF kind = "sub" THEN Hiccup(q, i) ELSE q
<1>2. /\ engine = "up" /\ losses < MaxLosses /\ losses' = losses + 1
      /\ engine' = "down" /\ halfRead' = FALSE /\ kind' = kind
      /\ p' = IF ~Alive("session") THEN p ELSE CheckRead(r, "session")
  BY DEF Lose
<1>3. /\ losses \in 0..MaxLosses /\ p.ends["session"].in \in Int
      /\ p.ends["session"].in <= 2 + losses
      /\ i \in 1..2 + MaxLosses /\ p.ends["session"].in < i
  <2>1. losses \in 0..MaxLosses /\ p.ends["session"].in <= 2 + losses
    BY <1>1 DEF Fits
  <2>2. p.ends["session"].in \in Int
    BY <1>1, Typed DEF Good
  <2>3. QED
    BY <1>1, <1>2, <2>1, <2>2
<1>4. /\ kind # "sub" /\ p.ends["session"].state \in {"active", "waiting_for_delimiter"} =>
             p.ends["session"].delay
      /\ kind # "sub" => ToldFirst(p)
  BY <1>1, <1>2 DEF Fits
<1>5. SUFFICES Good(p', kind) /\ Fits(p', kind, "down", FALSE, losses + 1)
  BY <1>2 DEF PInv
<1>6. CASE ~Alive("session")
  <2>1. p' = p
    BY <1>2, <1>6
  <2>2. p.ends["session"].in <= 2 + (losses + 1)
    BY <1>3
  <2>3. Fits(p, kind, "down", FALSE, losses + 1)
    BY <1>1, <1>2, <1>3, <1>4, <2>2, FitsLost
  <2>4. QED
    BY <1>1, <2>1, <2>3
<1>7. CASE Alive("session")
  <2>1. Good(q, kind) /\ Lax(p, q)
    <3>1. halfRead => Readable(p, "session")
      BY <1>1 DEF Fits
    <3>2. QED
      BY <1>1, <3>1, CleanPipesKeeps
  <2> HIDE DEF q
  <2>2. /\ Good(r, kind) /\ r.ends["session"].in \in Int /\ r.ends["session"].in <= i
        /\ kind # "sub" => Lax(p, r)
    <3>1. q.ends["session"].in = p.ends["session"].in
      BY <2>1 DEF Lax
    <3>2. CASE kind = "sub"
      <4>1. r = Hiccup(q, i) /\ i > q.ends["session"].in
        BY <1>3, <3>1, <3>2
      <4> HIDE DEF r, i
      <4>2. Good(r, kind) /\ r.ends["session"].in <= i
        BY <1>1, <1>3, <2>1, <4>1, HiccupIs
      <4>3. r.ends["session"].in \in Int
        BY <1>1, <4>2, Typed DEF Good
      <4>4. QED
        BY <3>2, <4>2, <4>3
    <3>3. CASE kind # "sub"
      <4>1. r = q
        BY <3>3
      <4> HIDE DEF r
      <4>2. QED
        BY <1>3, <2>1, <3>1, <4>1
    <3>4. QED
      BY <3>2, <3>3
  <2>3. p' = CheckRead(r, "session")
    BY <1>2, <1>7
  <2> HIDE DEF r
  <2>4. Good(p', kind) /\ Lax(r, p')
    BY <1>1, <2>2, <2>3, CheckReadKeeps
  <2>5. p'.ends["session"].in \in Int /\ p'.ends["session"].in <= 2 + (losses + 1)
    BY <1>2, <2>2, <2>4 DEF Lax
  <2>6. /\ kind # "sub" /\ p'.ends["session"].state \in {"active", "waiting_for_delimiter"} =>
               p'.ends["session"].delay
        /\ kind # "sub" => ToldFirst(p')
    <3>1. kind # "sub" => Lax(p, p')
      BY <2>2, <2>4, KinTrans
    <3>2. QED
      BY <1>4, <3>1 DEF Lax
  <2>7. Fits(p', kind, "down", FALSE, losses + 1)
    BY <1>1, <1>2, <2>5, <2>6, FitsLost
  <2>8. QED
    BY <2>4, <2>7
<1>8. QED
  BY <1>6, <1>7

(* It is made again. *)
LEMMA ReconnectStep ==
    ASSUME Hypotheses, PInv, Reconnect
    PROVE  PInv'
<1>1. /\ engine = "down" /\ engine' = "up"
      /\ UNCHANGED <<kind, p, halfRead, losses>>
  BY DEF Reconnect
<1>2. Fits(p, kind, engine, halfRead, losses)
  BY DEF PInv
<1>3. Fits(p, kind, "up", halfRead, losses)
  BY <1>1, <1>2 DEF Fits
<1>4. QED
  BY <1>1, <1>3 DEF PInv

(* An accepted connection is lost: the session ends. *)
LEMMA LoseAcceptedStep ==
    ASSUME Hypotheses, PInv, LoseAccepted
    PROVE  PInv'
<1>1. MaxLosses \in Nat /\ Good(p, kind) /\ Fits(p, kind, engine, halfRead, losses)
      /\ "session" \in Ends
  BY Two DEF Hypotheses, PInv
<1> DEFINE q == CleanPipes(p)
           r == IF pending THEN Terminate(q, "session", FALSE)
                ELSE IF closed THEN q ELSE Send(q, "session", "term", 0)
           Delays(n) == kind # "sub" /\ n.ends["session"].state \in {"active", "waiting_for_delimiter"} =>
                            n.ends["session"].delay
<1>2. /\ losses < MaxLosses /\ losses' = losses + 1
      /\ engine' = "none" /\ halfRead' = FALSE /\ kind' = kind
      /\ p' = IF ~Alive("session") THEN p ELSE CheckRead(r, "session")
  BY DEF LoseAccepted
<1>3. /\ losses \in 0..MaxLosses /\ p.ends["session"].in <= 2 + losses
      /\ p.ends["session"].in \in Int /\ Delays(p)
  BY <1>1, Typed DEF Fits, Good
<1>4. SUFFICES /\ Good(p', kind) /\ Delays(p')
               /\ p'.ends["session"].in = p.ends["session"].in
  <2>1. p'.ends["session"].in \in Int /\ p'.ends["session"].in <= 2 + (losses + 1)
    BY <1>3, <1>4
  <2>2. Fits(p', kind, "none", FALSE, losses + 1)
    BY <1>1, <1>2, <1>4, <2>1, FitsLost
  <2>3. QED
    BY <1>2, <1>4, <2>2 DEF PInv
<1>5. CASE ~Alive("session")
  BY <1>1, <1>2, <1>3, <1>5
<1>6. CASE Alive("session")
  <2>1. Good(q, kind) /\ Lax(p, q) /\ q.ends["session"].state # "gone"
    <3>1. halfRead => Readable(p, "session")
      BY <1>1 DEF Fits
    <3>2. /\ Good(q, kind) /\ Lax(p, q)
          /\ q.ends["session"].state = p.ends["session"].state
      BY <1>1, <3>1, CleanPipesKeeps
    <3>3. QED
      BY <1>6, <3>2 DEF Alive
  <2>2. Delays(q) /\ q.ends["session"].in = p.ends["session"].in
    BY <1>3, <2>1 DEF Lax
  <2> HIDE DEF q
  <2>3. /\ Good(r, kind) /\ Delays(r)
        /\ r.ends["session"].in = p.ends["session"].in
    <3>1. CASE pending
      <4>1. PICK delay \in BOOLEAN : delay = FALSE
        OBVIOUS
      <4>2. r = Terminate(q, "session", delay)
        BY <3>1, <4>1
      <4> HIDE DEF r
      <4>3. /\ Good(r, kind) /\ r.ends["session"].state # "active"
            /\ r.ends["session"].in = q.ends["session"].in
            /\ r.ends["session"].state = "waiting_for_delimiter" => delay
        BY <1>1, <2>1, <4>2, TerminateKeeps
      <4>4. QED
        BY <2>2, <4>1, <4>3
    <3>2. CASE ~pending /\ closed
      <4>1. r = q
        BY <3>2
      <4> HIDE DEF r
      <4>2. QED
        BY <2>1, <2>2, <4>1
    <3>3. CASE ~pending /\ ~closed
      <4>1. r = Send(q, "session", "term", 0)
        BY <3>3
      <4> HIDE DEF r
      <4>2. Good(r, kind) /\ r.ends = q.ends
        BY <1>1, <2>1, <4>1, TermKeeps
      <4>3. QED
        BY <2>2, <4>2
    <3>4. QED
      BY <3>1, <3>2, <3>3
  <2>4. p' = CheckRead(r, "session")
    BY <1>2, <1>6
  <2> HIDE DEF r
  <2>5. Good(p', kind) /\ Lax(r, p')
    BY <1>1, <2>3, <2>4, CheckReadKeeps
  <2>6. QED
    BY <2>3, <2>5 DEF Lax
<1>7. QED
  BY <1>5, <1>6

(* term, for a session whose end is not gone *)
LEMMA ProcessTermKeeps ==
    ASSUME MaxLosses \in Nat, NEW q0, Good(q0, kind),
           Fits(q0, kind, engine, halfRead, losses),
           NEW q, TakeFrom(q0, q, "session"), Head(q0.cmds["session"]).type = "term",
           q0.ends["session"].state # "gone",
           NEW n, n = ProcessTerm(q)
    PROVE  Good(n, kind) /\ Fits(n, kind, engine, halfRead, losses)
<1>1. "session" \in Ends
  BY Two
<1>2. PICK delay \in BOOLEAN : delay <=> (Linger # 0)
  OBVIOUS
<1> DEFINE r == Terminate(q, "session", delay)
<1>3. Good(q, kind) /\ Kin(q0, q) /\ q.ends = q0.ends
  BY <1>1, NeutralTaken
<1>4. Fits(q, kind, engine, halfRead, losses)
  BY <1>3, KinFits
<1>5. Terminate(q, "session", Linger # 0) = r
  <2>1. CASE delay
    <3>1. (Linger # 0) = TRUE /\ delay = TRUE
      BY <1>2, <2>1
    <3>2. QED
      BY <3>1
  <2>2. CASE ~delay
    <3>1. (Linger # 0) = FALSE /\ delay = FALSE
      BY <1>2, <2>2
    <3>2. QED
      BY <3>1
  <2>3. QED
    BY <2>1, <2>2
<1>6. n = IF engine = "up" THEN r ELSE CheckRead(r, "session")
  BY <1>5 DEF ProcessTerm
<1>7. /\ Good(r, kind) /\ r.ends["session"].state \notin {"active", "delimiter_received"}
      /\ r.ends["session"].in = q.ends["session"].in
      /\ r.ends["session"].state = "waiting_for_delimiter" =>
            /\ delay /\ r.ends["session"].delay
            /\ Readable(q, "session") => Readable(r, "session")
  BY <1>1, <1>3, TerminateKeeps
<1>8. halfRead => Readable(r, "session")
  <2> SUFFICES ASSUME halfRead PROVE Readable(r, "session")
    OBVIOUS
  <2>1. kind # "sub" /\ engine = "up" /\ Readable(q, "session")
    BY <1>4 DEF Fits
  <2>2. ToldFirst(q0)
    BY <2>1 DEF Fits
  <2>3. q0.ends["session"].state # "active"
    <3>1. q0.cmds["session"] \in Seq(Commands) /\ q0.cmds["session"] # <<>>
      BY <1>1, Typed DEF Good, TakeFrom
    <3>2. 1 \in 1..Len(q0.cmds["session"]) /\ q0.cmds["session"][1] = Head(q0.cmds["session"])
      BY <3>1
    <3>3. q0.cmds["session"][1].type = "term" /\ ~ \E j \in 1..1 - 1 : TRUE
      BY <3>2
    <3>4. QED
      BY <2>2, <3>2, <3>3 DEF ToldFirst
  <2>4. q.ends["session"].state = "waiting_for_delimiter"
    BY <1>3, <2>1, <2>3 DEF Readable, MayRead
  <2>5. delay
    BY <1>2, <2>1 DEF Linger
  <2> HIDE DEF r
  <2>6. r.ends["session"].state = "waiting_for_delimiter"
    BY <1>1, <1>3, <2>4, <2>5, TerminateWaits DEF r
  <2>7. QED
    BY <1>7, <2>1, <2>6
<1> HIDE DEF r
<1>9. ToldFirst(r)
  BY <1>7 DEF ToldFirst
<1>10. Fits(r, kind, engine, halfRead, losses)
  BY <1>4, <1>7, <1>8, <1>9 DEF Fits
<1>11. CASE engine = "up"
  BY <1>6, <1>7, <1>10, <1>11
<1>12. CASE engine # "up"
  <2>1. Good(n, kind) /\ Lax(r, n)
    BY <1>1, <1>6, <1>7, <1>12, CheckReadKeeps
  <2>2. Fits(n, kind, engine, FALSE, losses)
    BY <1>10, <2>1, LaxFits
  <2>3. ~halfRead /\ halfRead \in BOOLEAN
    BY <1>10, <1>12 DEF Fits
  <2>4. Fits(n, kind, engine, halfRead, losses)
    BY <2>2, <2>3, FitsHalf
  <2>5. QED
    BY <2>1, <2>4
<1>13. QED
  BY <1>11, <1>12

(* The handshake, as its steps leave the session. *)
LEMMA FitsAsked ==
    ASSUME NEW q, NEW n, NEW k, NEW g, NEW h, NEW l, Fits(q, k, g, h, l),
           n.ends["session"].in = q.ends["session"].in,
           n.ends["session"].state \notin {"active", "delimiter_received"},
           n.ends["session"].state = "waiting_for_delimiter" => n.ends["session"].delay,
           q.ends["session"].delay /\ Readable(q, "session") => Readable(n, "session")
    PROVE  Fits(n, k, g, h, l)
<1>1. ToldFirst(n)
  BY DEF ToldFirst
<1>2. h => Readable(n, "session")
  <2> SUFFICES ASSUME h PROVE Readable(n, "session")
    OBVIOUS
  <2>1. k # "sub" /\ Readable(q, "session")
    BY DEF Fits
  <2>2. q.ends["session"].delay
    BY <2>1 DEF Fits, Readable, MayRead
  <2>3. QED
    BY <2>1, <2>2
<1>3. QED
  BY <1>1, <1>2 DEF Fits

(* One case for each type of command. *)
LEMMA ProcessStep ==
    ASSUME Hypotheses, PInv, NEW e \in Ends, Process(e)
    PROVE  PInv'
<1> DEFINE c == Head(p.cmds[e])
           q == [p EXCEPT !.cmds[e] = Tail(@)]
<1>1. MaxLosses \in Nat /\ Good(p, kind) /\ Fits(p, kind, engine, halfRead, losses)
      /\ p \in PairType
  BY DEF Hypotheses, PInv, Good
<1>2. p.cmds[e] # <<>> /\ UNCHANGED <<kind, engine, halfRead, losses>>
  BY DEF Process
<1>3. p' = IF ~Alive(e) THEN Fail(q, c.type = "term")
           ELSE CASE c.type = "term" -> ProcessTerm(q)
                  [] c.type = "activate_read" -> ActivateRead(q, e)
                  [] c.type = "activate_write" -> ActivateWrite(q, e, c.arg)
                  [] c.type = "hiccup" -> ProcessHiccup(q, c.arg)
                  [] c.type = "pipe_hwm" -> [q EXCEPT !.ends[e].lwm = LowMark(c.arg)]
                  [] c.type = "pipe_term" -> ProcessPipeTerm(q, e)
                  [] c.type = "pipe_term_ack" -> ProcessPipeTermAck(q, e)
  BY DEF Process
<1>4. TakeFrom(p, q, e)
  BY <1>2 DEF TakeFrom
<1> HIDE DEF q
<1>5. q \in PairType /\ p.cmds[e] \in Seq(Commands) /\ c \in Commands
  BY <1>1, <1>4, TakenIs
<1>6. c.type \in Neutral \cup {"hiccup", "pipe_term", "pipe_term_ack", "term"} /\ c.arg \in Int
  BY <1>5 DEF Commands
<1>7. ASSUME Good(p', kind), Fits(p', kind, engine, halfRead, losses)
      PROVE  PInv'
  BY <1>2, <1>7 DEF PInv
<1>8. ASSUME Good(p', kind), Kin(p, p')
      PROVE  PInv'
  BY <1>2, <1>8, Stays
<1>9. 1 \in 1..Len(p.cmds[e]) /\ p.cmds[e][1] = c
  BY <1>2, <1>5
<1>10. ASSUME c.type \in Neutral \cup {"term"}
       PROVE  Good(q, kind) /\ Kin(p, q) /\ Fits(q, kind, engine, halfRead, losses)
  <2>1. Good(q, kind) /\ Kin(p, q)
    BY <1>1, <1>4, <1>10, NeutralTaken
  <2>2. QED
    BY <1>1, <2>1, KinFits
<1>11. CASE ~Alive(e)
  <2>1. c.type = "term"
    BY <1>1, <1>9, <1>11 DEF Alive, Good, GoneOK
  <2>2. Fail(q, c.type = "term") = q
    <3>1. q.failed \in BOOLEAN /\ [q EXCEPT !.failed = q.failed] = q
      BY <1>5 DEF PairType
    <3>2. (q.failed \/ ~(c.type = "term")) = q.failed
      BY <2>1, <3>1
    <3>3. QED
      BY <3>1, <3>2 DEF Fail
  <2>3. p' = q
    BY <1>3, <1>11, <2>2
  <2>4. QED
    BY <1>8, <1>10, <2>1, <2>3
<1>12. CASE Alive(e) /\ c.type = "term"
  <2>1. e = "session"
    <3>1. ~Has(p.cmds["socket"], "term")
      BY <1>1 DEF Good, RowsOK
    <3>2. Has(p.cmds[e], "term")
      BY <1>9, <1>12 DEF Has
    <3>3. QED
      BY <3>1, <3>2, Two
  <2>2. p' = ProcessTerm(q)
    BY <1>3, <1>12
  <2>3. /\ TakeFrom(p, q, "session") /\ Head(p.cmds["session"]).type = "term"
        /\ p.ends["session"].state # "gone"
    BY <1>4, <1>12, <2>1 DEF Alive
  <2>4. Good(p', kind) /\ Fits(p', kind, engine, halfRead, losses)
    BY <1>1, <2>2, <2>3, ProcessTermKeeps
  <2>5. QED
    BY <1>7, <2>4
<1>13. CASE Alive(e) /\ c.type = "activate_read"
  <2>1. p' = ActivateRead(q, e)
    BY <1>3, <1>13
  <2>2. Good(q, kind) /\ Kin(p, q) /\ Fits(q, kind, engine, halfRead, losses)
    BY <1>10, <1>13 DEF Neutral
  <2>3. Good(p', kind) /\ Lax(q, p') /\ (engine = "up" => Kin(q, p'))
    BY <1>1, <2>1, <2>2, ActivateReadKeeps
  <2>4. CASE engine = "up"
    BY <1>8, <2>2, <2>3, <2>4, KinTrans
  <2>5. CASE engine # "up"
    <3>1. Fits(p', kind, engine, FALSE, losses)
      BY <2>2, <2>3, LaxFits
    <3>2. ~halfRead /\ halfRead \in BOOLEAN
      BY <1>1, <2>5 DEF Fits
    <3>3. Fits(p', kind, engine, halfRead, losses)
      BY <3>1, <3>2, FitsHalf
    <3>4. QED
      BY <1>7, <2>3, <3>3
  <2>6. QED
    BY <2>4, <2>5
<1>14. CASE Alive(e) /\ c.type = "activate_write"
  <2>1. p' = ActivateWrite(q, e, c.arg)
    BY <1>3, <1>14
  <2>2. Good(q, kind) /\ Kin(p, q)
    BY <1>10, <1>14 DEF Neutral
  <2>3. Good(p', kind) /\ Kin(q, p')
    BY <1>1, <1>6, <2>1, <2>2, ActivateWriteKeeps
  <2>4. QED
    BY <1>8, <2>2, <2>3, KinTrans
<1>15. CASE Alive(e) /\ c.type = "hiccup"
  <2>1. e = "socket"
    <3>1. ~Has(p.cmds["session"], "hiccup")
      BY <1>1 DEF Good, RowsOK
    <3>2. Has(p.cmds[e], "hiccup")
      BY <1>9, <1>15 DEF Has
    <3>3. QED
      BY <3>1, <3>2, Two
  <2>2. p' = ProcessHiccup(q, c.arg)
    BY <1>3, <1>15
  <2>3. /\ TakeFrom(p, q, "socket") /\ Head(p.cmds["socket"]).type = "hiccup"
        /\ p' = ProcessHiccup(q, Head(p.cmds["socket"]).arg)
    BY <1>4, <1>15, <2>1, <2>2
  <2>4. Good(p', kind) /\ Kin(p, p')
    BY <1>1, <2>3, ProcessHiccupKeeps
  <2>5. QED
    BY <1>8, <2>4
<1>16. CASE Alive(e) /\ c.type = "pipe_hwm"
  <2>1. Lowered(q, p', e, LowMark(c.arg))
    BY <1>3, <1>16 DEF Lowered
  <2>2. Good(q, kind) /\ Kin(p, q)
    BY <1>10, <1>16 DEF Neutral
  <2>3. Good(p', kind) /\ Kin(q, p')
    BY <1>1, <1>6, <2>1, <2>2, LowMarkKeeps
  <2>4. QED
    BY <1>8, <2>2, <2>3, KinTrans
<1>17. CASE Alive(e) /\ c.type = "pipe_term"
  <2>1. p' = ProcessPipeTerm(q, e)
    BY <1>3, <1>17
  <2>2. /\ Good(p', kind)
        /\ e = "socket" => Kin(p, p')
        /\ e = "session" =>
              /\ p'.ends["session"].in = p.ends["session"].in
              /\ p'.ends["session"].state \notin {"active", "delimiter_received"}
              /\ p'.ends["session"].state = "waiting_for_delimiter" =>
                    p'.ends["session"].delay
              /\ p.ends["session"].delay /\ Readable(p, "session") =>
                    Readable(p', "session")
    BY <1>1, <1>4, <1>17, <2>1, ProcessPipeTermKeeps
  <2>3. CASE e = "socket"
    BY <1>8, <2>2, <2>3
  <2>4. CASE e = "session"
    <3>1. Fits(p', kind, engine, halfRead, losses)
      BY <1>1, <2>2, <2>4, FitsAsked
    <3>2. QED
      BY <1>7, <2>2, <3>1
  <2>5. QED
    BY <2>3, <2>4, Two
<1>18. CASE Alive(e) /\ c.type = "pipe_term_ack"
  <2>1. p' = ProcessPipeTermAck(q, e)
    BY <1>3, <1>18
  <2>2. /\ Good(p', kind)
        /\ e = "socket" => Kin(p, p')
        /\ e = "session" =>
              /\ p'.ends["session"].in = p.ends["session"].in
              /\ p'.ends["session"].state = "gone"
              /\ ~Readable(p, "session")
    BY <1>1, <1>4, <1>18, <2>1, ProcessPipeTermAckKeeps
  <2>3. CASE e = "socket"
    BY <1>8, <2>2, <2>3
  <2>4. CASE e = "session"
    <3>1. Fits(p', kind, engine, halfRead, losses)
      BY <1>1, <2>2, <2>4, FitsAsked
    <3>2. QED
      BY <1>7, <2>2, <3>1
  <2>5. QED
    BY <2>3, <2>4, Two
<1>19. QED
  BY <1>6, <1>11, <1>12, <1>13, <1>14, <1>15, <1>16, <1>17, <1>18 DEF Neutral

-----------------------------------------------------------------------------
(* Initially.                                                              *)

LEMMA InitHolds ==
    ASSUME Hypotheses, Init
    PROVE  PInv
<1>1. /\ MaxLosses \in Nat /\ Marks \subseteq Nat
      /\ "socket" \in Ends /\ "session" \in Ends /\ "socket" # "session"
      /\ Other("socket") = "session" /\ Other("session") = "socket"
      /\ \A e \in Ends : e = "socket" \/ e = "session"
  BY Two DEF Hypotheses
<1>2. /\ engine = "up" /\ halfRead = FALSE /\ losses = 0
  BY DEF Init
<1>3. PICK mark \in Marks :
          p = [ends |-> [e \in Ends |-> NewEnd(e, mark)],
               pipes |-> [i \in 1..2 + MaxLosses |-> NewPipe],
               cmds |-> [e \in Ends |-> <<>>],
               failed |-> FALSE]
  BY DEF Init
<1>4. LowMark(mark) \in Int /\ mark \in Nat
  BY <1>1 DEF LowMark
<1>5. ASSUME NEW e \in Ends
      PROVE  NewEnd(e, mark) \in EndType
  <2>1. /\ (IF e = "socket" THEN 1 ELSE 2) \in 1..2 + MaxLosses
        /\ (IF e = "socket" THEN 2 ELSE 1) \in 0..2 + MaxLosses
    BY <1>1
  <2>2. (~(e = "socket" /\ kind = "push")) \in BOOLEAN /\ "active" \in States
    BY DEF States
  <2>3. QED
    BY <1>4, <2>1, <2>2 DEF NewEnd, EndType
<1>6. NewPipe \in YpipeType
  BY DEF NewPipe, YpipeType
<1>7. p \in PairType /\ ~p.failed
  BY <1>3, <1>5, <1>6 DEF PairType
<1>8. /\ \A e \in Ends : /\ p.ends[e].state = "active" /\ p.cmds[e] = <<>>
                         /\ p.ends[e].in = IF e = "socket" THEN 1 ELSE 2
                         /\ p.ends[e].out = IF e = "socket" THEN 2 ELSE 1
                         /\ p.ends[e].delay = ~(e = "socket" /\ kind = "push")
      /\ \A i \in 1..2 + MaxLosses : /\ p.pipes[i].draft = <<>> /\ p.pipes[i].queue = <<>>
                                     /\ p.pipes[i].freed = FALSE
  BY <1>3 DEF NewEnd, NewPipe
<1>9. \A e \in Ends : Len(p.cmds[e]) = 0 /\ \A t : ~Has(p.cmds[e], t)
  BY <1>8 DEF Has
<1>10. RowsOK(p)
  <2>1. \A e \in Ends : RowOK(p.cmds[e])
    BY <1>9 DEF RowOK
  <2>2. QED
    BY <1>1, <1>9, <2>1 DEF RowsOK
<1>11. ShapeOK(p)
  <2>1. Shape(p, "socket")
    BY <1>1, <1>8, <1>9 DEF Shape, None
  <2>2. QED
    BY <1>1, <2>1 DEF ShapeOK
<1>12. GoneOK(p)
  BY <1>8 DEF GoneOK
<1>13. OutOK(p)
  BY <1>1, <1>8 DEF OutOK, Silent
<1>14. ChainOK(p)
  <2>1. /\ ~Has(p.cmds["socket"], "hiccup") /\ Len(p.cmds["socket"]) = 0
        /\ p.ends["session"].in = 2 /\ p.ends["socket"].out = 2
    BY <1>1, <1>8, <1>9
  <2>2. QED
    BY <2>1 DEF ChainOK
<1>15. FreedOK(p)
  <2>1. /\ p.ends["session"].in = 2 /\ p.ends["socket"].out = 2
        /\ p.ends["session"].state = "active" /\ p.ends["socket"].state = "active"
    BY <1>1, <1>8
  <2>2. \A i \in 1..2 + MaxLosses : ~p.pipes[i].freed
    BY <1>8
  <2>3. 1 \in 1..2 + MaxLosses /\ 2 \in 1..2 + MaxLosses
        /\ \A i \in 2 + 1..2 + MaxLosses : i \in 1..2 + MaxLosses
    BY <1>1
  <2>4. QED
    BY <2>1, <2>2, <2>3 DEF FreedOK
<1>16. YpipesOK(p, kind)
  <2> SUFFICES ASSUME NEW i \in 1..2 + MaxLosses
               PROVE  YpipeOK(p.pipes[i], p, kind, i)
    BY DEF YpipesOK
  <2>1. p.pipes[i].draft = <<>> /\ p.pipes[i].queue = <<>>
    BY <1>8
  <2>2. QED
    BY <2>1 DEF YpipeOK, FramesOK
<1>17. Good(p, kind)
  BY <1>7, <1>10, <1>11, <1>12, <1>13, <1>14, <1>15, <1>16 DEF Good
<1>18. Fits(p, kind, engine, halfRead, losses)
  <2>1. ToldFirst(p)
    BY <1>1, <1>9 DEF ToldFirst
  <2>2. p.ends["session"].in = 2 /\ p.ends["session"].delay
    BY <1>1, <1>8
  <2>3. Fits(p, kind, "up", FALSE, 0)
    BY <1>1, <2>1, <2>2 DEF Fits
  <2>4. QED
    BY <1>2, <2>3
<1>19. QED
  BY <1>17, <1>18 DEF PInv

(* The invariant holds in every reachable state: each end is in one of the *)
(* ten shapes of the handshake, its ypipes are those that are not          *)
(* deallocated, and a message half read has its end in the pipe.           *)
THEOREM PipeInvariant == Hypotheses => (Spec => []PInv)
<1> SUFFICES ASSUME Hypotheses PROVE Spec => []PInv
  OBVIOUS
<1>1. Init => PInv
  BY InitHolds
<1>2. PInv /\ [Next]_vars => PInv'
  <2> SUFFICES ASSUME PInv, [Next]_vars PROVE PInv'
    OBVIOUS
  <2>1. CASE \E e \in Ends : Write(e)
    BY <2>1, WriteStep
  <2>2. CASE \E e \in Ends : Process(e)
    BY <2>2, ProcessStep
  <2>3. CASE Receive
    BY <2>3, ReceiveStep
  <2>4. CASE Close
    BY <2>4, CloseStep
  <2>5. CASE Unbind
    BY <2>5, UnbindStep
  <2>6. CASE \E mark \in Marks : SetMark(mark)
    BY <2>6, SetMarkStep
  <2>7. CASE Pull
    BY <2>7, PullStep
  <2>8. CASE Lose
    BY <2>8, LoseStep
  <2>9. CASE Reconnect
    BY <2>9, ReconnectStep
  <2>10. CASE LoseAccepted
    BY <2>10, LoseAcceptedStep
  <2>11. CASE UNCHANGED vars
    <3>1. UNCHANGED <<kind, p, engine, halfRead, losses>>
      BY <2>11 DEF vars
    <3>2. QED
      BY <3>1 DEF PInv
  <2>12. QED
    BY <2>1, <2>2, <2>3, <2>4, <2>5, <2>6, <2>7, <2>8, <2>9, <2>10, <2>11 DEF Next
<1>3. QED
  BY <1>1, <1>2, PTL DEF Spec

(* No assertion of pipe_t or session_base_t fails: no command reaches an   *)
(* end that is deallocated, none comes in a state that does not expect it, *)
(* and the rest of a message half read is there when a connection is lost. *)
THEOREM NothingFails == Hypotheses => (Spec => []NoFailure)
<1> SUFFICES ASSUME Hypotheses PROVE Spec => []NoFailure
  OBVIOUS
<1>1. PInv => NoFailure
  BY DEF PInv, Good, NoFailure
<1>2. QED
  BY <1>1, PipeInvariant, PTL

(* No end uses a ypipe that is deallocated, whatever hiccup crosses the    *)
(* handshake, and both ends gone leave none behind.                        *)
THEOREM NothingDangles == Hypotheses => (Spec => []NoDangling)
<1> SUFFICES ASSUME Hypotheses PROVE Spec => []NoDangling
  OBVIOUS
<1>1. PInv => NoDangling
  <2> SUFFICES ASSUME PInv PROVE NoDangling
    OBVIOUS
  <2>1. /\ "socket" \in Ends /\ "session" \in Ends /\ Other("session") = "socket"
        /\ \A e \in Ends : e = "socket" \/ e = "session"
    BY Two
  <2>2. /\ ShapeOK(p) /\ p.ends["socket"].in = 1 /\ p.ends["session"].out \in {0, 1}
        /\ p.ends["session"].in >= 2 /\ p.ends["session"].in \in Int
        /\ \A e \in Ends : p.ends[e].out = 0 <=> p.ends[e].state \in Silent
    BY <2>1, Typed DEF PInv, Good, OutOK
  <2>3. /\ p.ends["socket"].out # 0 => ~p.pipes[p.ends["socket"].out].freed
        /\ p.pipes[1].freed <=> p.ends["socket"].state = "gone"
        /\ p.pipes[p.ends["session"].in].freed <=> p.ends["session"].state = "gone"
        /\ p.ends["session"].in > 2 /\ p.ends["socket"].out # 2 => p.pipes[2].freed
    BY DEF PInv, Good, FreedOK
  <2>4. p.ends["session"].out # 0 => p.ends["socket"].state # "gone"
    BY <2>1, <2>2, Listens
  <2>5. ASSUME NEW e \in Ends, Alive(e)
        PROVE  /\ ~p.pipes[p.ends[e].in].freed
               /\ p.ends[e].out # 0 => ~p.pipes[p.ends[e].out].freed
    <3>1. CASE e = "socket"
      BY <2>2, <2>3, <2>5, <3>1 DEF Alive
    <3>2. CASE e = "session"
      BY <2>2, <2>3, <2>4, <2>5, <3>2 DEF Alive
    <3>3. QED
      BY <2>1, <3>1, <3>2
  <2>6. ASSUME \A e \in Ends : ~Alive(e)
        PROVE  /\ p.pipes[1].freed /\ p.pipes[2].freed
               /\ p.pipes[p.ends["session"].in].freed
    <3>1. p.ends["socket"].state = "gone" /\ p.ends["session"].state = "gone"
      BY <2>1, <2>6 DEF Alive
    <3>2. p.ends["socket"].out = 0
      BY <2>1, <2>2, <3>1 DEF Silent
    <3>3. p.ends["session"].in = 2 \/ p.ends["session"].in > 2
      BY <2>2
    <3>4. QED
      BY <2>3, <3>1, <3>2, <3>3
  <2>7. QED
    BY <2>5, <2>6 DEF NoDangling
<1>2. QED
  BY <1>1, PipeInvariant, PTL
=============================================================================
