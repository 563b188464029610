------------------------------- MODULE PubSub -------------------------------
(***************************************************************************)
(* Publishers and subscribers together: the subscription plane of          *)
(* Subscription, and on top of it the way a message takes, frame by frame: *)
(* Publisher::send and sendMultipart, the distribution to the matching     *)
(* pipes (xpub_t, dist_t), the bounded pipe that refuses a frame, the      *)
(* connection that breaks under it and the receiving SUB socket, which     *)
(* filters once more before Subscriber::receiveMultipart returns.          *)
(***************************************************************************)
EXTENDS Subscription

CONSTANTS Topics,       \* topics of messages
          Covers,       \* Covers[f]: topics that begin with filter f
          Hwms,         \* values of the send high water mark; 0 is "no limit"
          MaxMsgs,      \* bound: messages published by one publisher
          MaxParts,     \* bound: frames of a message
          MidMessage    \* setSendHighWaterMark may come between two frames

ASSUME CoversAssumption == /\ Covers \in [Filters -> SUBSET Topics]
                           /\ Covers[All] = Topics

ASSUME DataAssumption == /\ Hwms \subseteq Nat /\ Hwms # {}
                         /\ MaxMsgs \in Nat /\ MaxParts \in Nat \ {0}
                         /\ MidMessage \in BOOLEAN

VARIABLES
    sent,       \* sent[p]: messages published, topic and parts written so far
    more,       \* more[p]: xpub_t::_more, a message is being sent
    hwm,        \* hwm[p]: ZMQ_SNDHWM of the publisher
    eligible,   \* dist_t: pipes a new message may be written to
    matching,   \* dist_t: pipes the message in progress is written to
    inflight,   \* inflight[l]: pipe_t::_msgs_written - _peers_msgs_read
    stream,     \* stream[l]: frames written and not yet received
    got         \* got[l]: the last message delivered to the application

dataVars == <<sent, more, hwm, eligible, matching, inflight, stream, got>>

vars == <<subVars, dataVars>>

Frames == [msg : Nat, part : Nat, more : BOOLEAN]

PipesOf(p) == Subs \X {p}

Wanted(F, t) == \E f \in F : t \in Covers[f]

(* pipe_t::check_hwm *)
Full(l) == hwm[l[2]] > 0 /\ inflight[l] >= hwm[l[2]]

Init ==
    /\ SubInit
    /\ sent = [p \in Pubs |-> <<>>]
    /\ more = [p \in Pubs |-> FALSE]
    /\ hwm \in [Pubs -> Hwms]
    /\ eligible = {}
    /\ matching = {}
    /\ inflight = [l \in Links |-> 0]
    /\ stream = [l \in Links |-> <<>>]
    /\ got = [l \in Links |-> [msg |-> 0, parts |-> 0]]

-----------------------------------------------------------------------------
(* Mutant of Distribute: a pipe counts frames instead of messages. *)
DistributeCountingFrames(p, targets, frame) ==
    LET refused == {l \in targets : Full(l)}
        written == targets \ refused
    IN  /\ eligible' = eligible \ refused
        /\ matching' = (matching \ PipesOf(p)) \cup (IF frame.more THEN written ELSE {})
        /\ stream' = [l \in Links |-> IF l \in written THEN Append(stream[l], frame)
                                                       ELSE stream[l]]
        /\ inflight' = [l \in Links |-> IF l \in written THEN inflight[l] + 1
                                                         ELSE inflight[l]]

(* Mutant of Distribute: one full pipe keeps the frame from all of them. *)
DistributeAllOrNone(p, targets, frame) ==
    LET refused == {l \in targets : Full(l)}
        written == IF refused = {} THEN targets ELSE {}
    IN  /\ eligible' = eligible \ refused
        /\ matching' = (matching \ PipesOf(p)) \cup (IF frame.more THEN written ELSE {})
        /\ stream' = [l \in Links |-> IF l \in written THEN Append(stream[l], frame)
                                                       ELSE stream[l]]
        /\ inflight' = [l \in Links |-> IF l \in written /\ ~frame.more
                                        THEN inflight[l] + 1 ELSE inflight[l]]

(* One frame to the target pipes.  A full pipe refuses it and leaves the   *)
(* distribution until its reader acknowledges; a pipe counts a message     *)
(* when it takes the last frame.                                           *)
Distribute(p, targets, frame) ==
    LET refused == {l \in targets : Full(l)}
        written == targets \ refused
    IN  /\ eligible' = eligible \ refused
        /\ matching' = (matching \ PipesOf(p)) \cup (IF frame.more THEN written ELSE {})
        /\ stream' = [l \in Links |-> IF l \in written THEN Append(stream[l], frame)
                                                       ELSE stream[l]]
        /\ inflight' = [l \in Links |-> IF l \in written /\ ~frame.more
                                        THEN inflight[l] + 1 ELSE inflight[l]]

(* The first frame selects the pipes, by the publisher's table. *)
SendFirst(p, t, m) ==
    /\ ~more[p]
    /\ Len(sent[p]) < MaxMsgs
    /\ m => MaxParts > 1
    /\ sent' = [sent EXCEPT ![p] = Append(@, [topic |-> t, parts |-> 1])]
    /\ more' = [more EXCEPT ![p] = m]
    /\ Distribute(p, {l \in eligible \cap PipesOf(p) : Wanted(trie[l], t)},
                  [msg |-> Len(sent[p]) + 1, part |-> 1, more |-> m])
    /\ UNCHANGED <<subVars, hwm, got>>

(* The following frames go where the first one went. *)
SendNext(p, m) ==
    LET n == Len(sent[p])
        k == sent[p][n].parts + 1
    IN  /\ more[p]
        /\ m => k < MaxParts
        /\ sent' = [sent EXCEPT ![p][n].parts = k]
        /\ more' = [more EXCEPT ![p] = m]
        /\ Distribute(p, matching \cap PipesOf(p), [msg |-> n, part |-> k, more |-> m])
        /\ UNCHANGED <<subVars, hwm, got>>

(* The mark of every pipe changes at once, whatever is in it. *)
SetSendHighWaterMark(p, h) ==
    /\ MidMessage \/ ~more[p]
    /\ hwm[p] # h
    /\ hwm' = [hwm EXCEPT ![p] = h]
    /\ UNCHANGED <<subVars, sent, more, eligible, matching, inflight, stream, got>>

(* Mutant of Acknowledge: the reader reports a message more than there is. *)
AcknowledgeTooMuch(l) ==
    /\ link[l] = "up"
    /\ \E n \in -1..inflight[l] - 1 : inflight' = [inflight EXCEPT ![l] = n]
    /\ eligible' = eligible \cup {l}
    /\ UNCHANGED <<subVars, sent, more, hwm, matching, stream, got>>

(* The reading side of the pipe reports how far it got; a pipe that        *)
(* refused a frame takes part in the distribution again.                   *)
Acknowledge(l) ==
    /\ link[l] = "up"
    /\ \E n \in 0..inflight[l] - 1 : inflight' = [inflight EXCEPT ![l] = n]
    /\ eligible' = eligible \cup {l}
    /\ UNCHANGED <<subVars, sent, more, hwm, matching, stream, got>>

(* The frames that end a message, and the first of them. *)
Ends(q) == {i \in 1..Len(q) : ~q[i].more}

FirstEnds(q) == {i \in Ends(q) : \A j \in 1..i - 1 : q[j].more}

(* Mutant of Receive: hands a message out and leaves it in the queue. *)
ReceivePeeking(l) ==
    LET q == stream[l] IN
    \E n \in FirstEnds(q) :
        /\ got' = [got EXCEPT ![l] = [msg |-> q[1].msg, parts |-> n]]
        /\ UNCHANGED <<subVars, sent, more, hwm, eligible, matching, inflight, stream>>

(* Mutant of Receive: stops at a message no subscription matches. *)
ReceiveStopping(l) ==
    LET q == stream[l] IN
    \E n \in FirstEnds(q) :
        /\ Wanted(Live(l[1]), sent[l[2]][q[1].msg].topic)
        /\ stream' = [stream EXCEPT ![l] = SubSeq(q, n + 1, Len(q))]
        /\ got' = [got EXCEPT ![l] = [msg |-> q[1].msg, parts |-> n]]
        /\ UNCHANGED <<subVars, sent, more, hwm, eligible, matching, inflight>>

(* xsub_t takes the next message, the frames up to the first without the   *)
(* more flag, and hands it out if a live subscription matches it; any      *)
(* other message is dropped.                                               *)
Receive(l) ==
    LET q == stream[l]
        topic == sent[l[2]][q[1].msg].topic
    IN  \E n \in FirstEnds(q) :
        /\ stream' = [stream EXCEPT ![l] = SubSeq(q, n + 1, Len(q))]
        /\ got' = IF Wanted(Live(l[1]), topic)
                  THEN [got EXCEPT ![l] = [msg |-> q[1].msg, parts |-> n]]
                  ELSE got
        /\ UNCHANGED <<subVars, sent, more, hwm, eligible, matching, inflight>>

-----------------------------------------------------------------------------
(* The publisher's end of a connection comes and goes with it. *)
Attach(l) ==
    /\ Establish(l)
    /\ eligible' = eligible \cup {l}
    /\ UNCHANGED <<sent, more, hwm, matching, inflight, stream, got>>

(* Mutant of Detach: the pipe stays among the matching ones. *)
DetachStillMatching(l) ==
    /\ eligible' = eligible \ {l}
    /\ inflight' = [inflight EXCEPT ![l] = 0]
    /\ UNCHANGED matching

(* dist_t::pipe_terminated, and a new pipe starts with its counts at 0. *)
Detach(l) ==
    /\ eligible' = eligible \ {l}
    /\ matching' = matching \ {l}
    /\ inflight' = [inflight EXCEPT ![l] = 0]

(* Mutant of Break: a message may be cut off anywhere. *)
BreakMidMessage(l) ==
    /\ LinkDown(l)
    /\ Detach(l)
    /\ \E n \in 0..Len(stream[l]) : stream' = [stream EXCEPT ![l] = SubSeq(@, 1, n)]
    /\ UNCHANGED <<sent, more, hwm, got>>

(* What the subscriber's end received completely stays readable; what was  *)
(* on its way, and a message cut off in the middle, is gone.               *)
Break(l) ==
    /\ LinkDown(l)
    /\ Detach(l)
    /\ \E n \in Ends(stream[l]) \cup {0} :
          stream' = [stream EXCEPT ![l] = SubSeq(@, 1, n)]
    /\ UNCHANGED <<sent, more, hwm, got>>

Leave(s, p) ==
    /\ Disconnect(s, p)
    /\ Detach(<<s, p>>)
    /\ stream' = [stream EXCEPT ![<<s, p>>] = <<>>]
    /\ UNCHANGED <<sent, more, hwm, got>>

(* The calls and commands that do not touch a message. *)
Subscribe ==
    /\ \/ \E s \in Subs : \/ \E f \in Filters : AddFilter(s, f) \/ RemoveFilter(s, f)
                          \/ RemoveAllFilters(s)
                          \/ \E p \in Pubs : Connect(s, p)
       \/ \E l \in Links : ProcessHiccup(l) \/ ProcessCommand(l)
    /\ UNCHANGED dataVars

Next ==
    \/ Subscribe
    \/ \E s \in Subs, p \in Pubs : Leave(s, p)
    \/ \E l \in Links : Attach(l) \/ Break(l) \/ Acknowledge(l) \/ Receive(l)
    \/ \E p \in Pubs : \/ \E m \in BOOLEAN : \/ SendNext(p, m)
                                             \/ \E t \in Topics : SendFirst(p, t, m)
                       \/ \E h \in Hwms : SetSendHighWaterMark(p, h)

(* As SubFairness, and the subscriber's frame loop reads what is there. *)
Fairness == \A l \in Links : /\ WF_vars(Attach(l))
                             /\ WF_vars(ProcessHiccup(l) /\ UNCHANGED dataVars)
                             /\ WF_vars(ProcessCommand(l) /\ UNCHANGED dataVars)
                             /\ WF_vars(Receive(l))

Spec == Init /\ [][Next]_vars /\ Fairness

-----------------------------------------------------------------------------
TypeOK ==
    /\ SubTypeOK
    /\ sent \in [Pubs -> Seq([topic : Topics, parts : Nat \ {0}])]
    /\ more \in [Pubs -> BOOLEAN]
    /\ hwm \in [Pubs -> Hwms]
    /\ eligible \subseteq Links
    /\ matching \subseteq Links
    /\ inflight \in [Links -> Nat]
    /\ stream \in [Links -> Seq(Frames)]
    /\ got \in [Links -> [msg : Nat, parts : Nat]]

(* A queue is a row of whole messages: each starts with its part 1 and     *)
(* goes on part by part, and only the message the publisher is still       *)
(* writing to this very pipe may lack its end, through refused frames,     *)
(* lost connections and new pipes in the middle of a message (dist_t,      *)
(* pipe_t::write, session_base_t::engine_error).                           *)
WholeMessages ==
    \A l \in Links :
        LET q == stream[l]
            p == l[2]
            n == Len(q)
        IN  /\ \A i \in 1..n :
                  IF i > 1 /\ q[i - 1].more
                  THEN q[i].msg = q[i - 1].msg /\ q[i].part = q[i - 1].part + 1
                  ELSE q[i].part = 1
            /\ \A i \in 1..n : ~q[i].more => q[i].part = sent[p][q[i].msg].parts
            /\ n > 0 /\ q[n].more <=> l \in matching
            /\ l \in matching => /\ more[p]
                                 /\ q[n].msg = Len(sent[p])
                                 /\ q[n].part = sent[p][Len(sent[p])].parts

(* Nothing arrives twice or out of order, even over a reconnect: a queue   *)
(* runs through increasing messages, all later than the last one           *)
(* delivered, and nothing of an open message is complete.                  *)
InOrder ==
    \A l \in Links :
        LET q == stream[l]
            p == l[2]
        IN  /\ \A i \in 1..Len(q) : got[l].msg < q[i].msg /\ q[i].msg <= Len(sent[p])
            /\ \A i, j \in 1..Len(q) :
                  i < j => /\ q[i].msg <= q[j].msg
                           /\ ~q[i].more => q[i].msg < q[j].msg
            /\ \A i \in 1..Len(q) : more[p] /\ ~q[i].more => q[i].msg < Len(sent[p])

(* The sets of dist_t: only pipes of live connections take part, and       *)
(* matching pipes have a message to finish.                                *)
DistOK ==
    /\ matching \subseteq eligible
    /\ \A l \in eligible : link[l] = "up"
    /\ \A l \in matching : more[l[2]]
    /\ \A p \in Pubs : more[p] => sent[p] # <<>>

(* A pipe in the middle of a message has room for the rest of it. *)
RoomKept == \A l \in matching : ~Full(l)

(* Every command of the subscriber has been applied. *)
Settled(l) == link[l] = "up" /\ l \notin hiccuped /\ cmds[l] = <<>>

(* Once its commands have been applied, the publisher routes a message by  *)
(* the subscriber's own filters, and the message is lost only to the full  *)
(* pipe of that subscriber, never to another's (xpub_t::xsend).            *)
Routes ==
    \A l \in Links :
        LET p == l[2]
            n == Len(sent'[p])
        IN  n > Len(sent[p]) /\ Settled(l) /\ l \in eligible /\ ~Full(l) =>
               (stream'[l] # stream[l]) = Wanted(Live(l[1]), sent'[p][n].topic)

RoutesBySubscription == [][Routes]_vars

(* A message that reached the end of a queue does not stay there: the      *)
(* subscriber's loop takes it out, wanted or not (xsub_t::xhas_in).        *)
EventuallyDrained == \A l \in Links : <>[](Ends(stream[l]) = {})

(* The links keep the promise of Channel. *)
C == INSTANCE Channel

ImplementsChannel == C!ChanSpec

(* "zmq ensures atomic delivery of messages" (zmq_addon.hpp): what a       *)
(* receiver collects up to the first frame without the more flag is one    *)
(* message of the publisher.                                               *)
AtomicDelivery ==
    \A l \in Links : \A n \in FirstEnds(stream[l]) :
        \A i \in 1..n : stream[l][i].msg = stream[l][1].msg
=============================================================================
