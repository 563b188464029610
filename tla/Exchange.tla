----------------------------- MODULE Exchange ------------------------------
(***************************************************************************)
(* Request sockets, a Broker and workers.  A request travels from a REQ    *)
(* socket over a connection to the Broker's ROUTER, which puts the number  *)
(* of the connection before it; the Broker's thread hands it to the DEALER,*)
(* which gives it to one of the connected workers (REP sockets); the reply *)
(* goes back with the same number, which the ROUTER looks up.              *)
(*                                                                         *)
(* Connections break and are made again under a new number, requesters     *)
(* connect and disconnect as they like, workers die, and nobody tells a    *)
(* requester: it may not ask again before it has its answer.               *)
(***************************************************************************)
EXTENDS Service, Integers, Sequences, FiniteSets

CONSTANTS Clients, Workers,
          Lines,        \* bound: pipes of Request sockets, by number
          MaxFaults,    \* bound: connections that break, workers that die, disconnects
          WorkerHwm     \* messages the DEALER queues for a worker

VARIABLES
    req,        \* req[c]: req_t::_receiving_reply, _reply_pipe
    line,       \* line[l]: a pipe of a REQ socket and the session at its end
    inbox,      \* inbox[k]: messages in the ROUTER's pipe from connection k
    outbox,     \* outbox[k]: messages on their way back over connection k
    ids,        \* router_t::_next_integral_routing_id
    held,       \* the Broker's m: at most one message
    given,      \* given[w]: messages on their way to worker w
    answers,    \* answers[w]: messages on their way from worker w
    rep,        \* rep[w]: "away", "ready" or "busy", and its request
    faults,     \* faults so far
    lost        \* history: clients whose last request, or its answer, was dropped

netVars == <<line, inbox, outbox, ids>>

workVars == <<given, answers, rep>>

exVars == <<lifeVars, req, netVars, held, workVars, faults, lost>>

(* Every line is connected once, and again after a break. *)
Ids == 1..Cardinality(Lines) + MaxFaults

NoLine == [client |-> CHOOSE c \in Clients : TRUE, used |-> FALSE, held |-> FALSE,
           out |-> <<>>, in |-> <<>>, id |-> 0]

ExInit ==
    /\ LifeInit
    /\ req = [c \in Clients |-> [waiting |-> FALSE, line |-> 0]]
    /\ line = [l \in Lines |-> NoLine]
    /\ inbox = [k \in Ids |-> <<>>] /\ outbox = [k \in Ids |-> <<>>]
    /\ ids = 0
    /\ held = <<>>
    /\ given = [w \in Workers |-> <<>>] /\ answers = [w \in Workers |-> <<>>]
    /\ rep = [w \in Workers |-> [state |-> "away", request |-> <<>>]]
    /\ faults = 0
    /\ lost = {}

(* The lines in the pipe list of a client's socket. *)
LinesOf(c) == {l \in Lines : line[l].held /\ line[l].client = c}

(* The requesters of the messages in s. *)
Senders(s) == {s[i].client : i \in DOMAIN s}

Fault == faults < MaxFaults /\ faults' = faults + 1

Lose(s) == lost' = lost \cup Senders(s)

-----------------------------------------------------------------------------
(* The application of a Request socket.                                    *)

(* What has come in, by any pipe of the socket, is dropped. *)
Eaten(c) == [l \in Lines |-> IF l \in LinesOf(c) THEN [line[l] EXCEPT !.in = <<>>] ELSE line[l]]

(* Mutant of SendRequest: as with ZMQ_REQ_RELAXED. *)
SendRelaxed(c) ==
    \E l \in LinesOf(c) :
       /\ req' = [req EXCEPT ![c] = [waiting |-> TRUE, line |-> l]]
       /\ line' = [Eaten(c) EXCEPT ![l].out = Append(@, [client |-> c])]
       /\ lost' = lost \ {c}
       /\ UNCHANGED <<lifeVars, inbox, outbox, ids, held, workVars, faults>>

(* req_t::xsend: the load balancer chooses a pipe, whatever has come in is *)
(* eaten, the request is written.  Before the answer has come, send throws.*)
SendRequest(c) ==
    /\ ~req[c].waiting
    /\ \E l \in LinesOf(c) :
          /\ req' = [req EXCEPT ![c] = [waiting |-> TRUE, line |-> l]]
          /\ line' = [Eaten(c) EXCEPT ![l].out = Append(@, [client |-> c])]
    /\ lost' = lost \ {c}
    /\ UNCHANGED <<lifeVars, inbox, outbox, ids, held, workVars, faults>>

(* req_t::xrecv, recv_reply_pipe: what comes from another pipe than the    *)
(* request went to is dropped, if that pipe is still there.                *)
ReceiveAnswer(c) ==
    /\ req[c].waiting
    /\ \E l \in LinesOf(c) :
          /\ line[l].in # <<>>
          /\ line' = [line EXCEPT ![l].in = Tail(@)]
          /\ IF req[c].line \in {0, l}
             THEN req' = [req EXCEPT ![c].waiting = FALSE] /\ UNCHANGED lost
             ELSE UNCHANGED req /\ Lose(<<Head(line[l].in)>>)
    /\ UNCHANGED <<lifeVars, inbox, outbox, ids, held, workVars, faults>>

Connect(c) ==
    \E l \in Lines :
       /\ ~line[l].used /\ \A k \in Lines : k < l => line[k].used
       /\ line' = [line EXCEPT ![l] = [NoLine EXCEPT !.client = c, !.used = TRUE, !.held = TRUE]]
       /\ UNCHANGED <<lifeVars, req, inbox, outbox, ids, held, workVars, faults, lost>>

(* disconnect: what came in is dropped, what is to go out still goes       *)
(* (req_t::xpipe_terminated, the linger time is unlimited).                *)
Disconnect(c) ==
    \E l \in LinesOf(c) :
       /\ Fault
       /\ line' = [line EXCEPT ![l].held = FALSE, ![l].in = <<>>]
       /\ req' = [req EXCEPT ![c].line = IF @ = l THEN 0 ELSE @]
       /\ Lose(line[l].in)
       /\ UNCHANGED <<lifeVars, inbox, outbox, ids, held, workVars>>

-----------------------------------------------------------------------------
(* Connections.                                                            *)

(* A session connects; the ROUTER numbers the connection (identify_peer).  *)
Link(l) ==
    /\ line[l].id = 0 /\ (line[l].held \/ line[l].out # <<>>)
    /\ owner = "set up"
    /\ ids' = ids + 1
    /\ line' = [line EXCEPT ![l].id = ids + 1]
    /\ UNCHANGED <<lifeVars, req, inbox, outbox, held, workVars, faults, lost>>

Transmit(l) ==
    /\ line[l].id # 0 /\ line[l].out # <<>>
    /\ inbox' = [inbox EXCEPT ![line[l].id] = Append(@, Head(line[l].out))]
    /\ line' = [line EXCEPT ![l].out = Tail(@)]
    /\ UNCHANGED <<lifeVars, req, outbox, ids, held, workVars, faults, lost>>

(* The reply reaches the REQ socket's pipe, unless that was disconnected. *)
Return(l) ==
    /\ line[l].id # 0
    /\ outbox[line[l].id] # <<>>
    /\ outbox' = [outbox EXCEPT ![line[l].id] = Tail(@)]
    /\ LET m == Head(outbox[line[l].id]) IN
       IF line[l].held THEN line' = [line EXCEPT ![l].in = Append(@, m)] /\ UNCHANGED lost
       ELSE Lose(<<m>>) /\ UNCHANGED line
    /\ UNCHANGED <<lifeVars, req, inbox, ids, held, workVars, faults>>

(* The connection breaks: replies under way are lost, and so may be the    *)
(* requests the engine has taken out of the pipe.  The pipe itself stays,  *)
(* for the next connection.                                                *)
BreakLine(l) ==
    LET k == line[l].id IN
    /\ k # 0
    /\ Fault
    /\ outbox' = [outbox EXCEPT ![k] = <<>>]
    /\ \E n \in 0..Len(line[l].out) :
          /\ line' = [line EXCEPT ![l].id = 0, ![l].out = SubSeq(@, n + 1, Len(@))]
          /\ Lose(outbox[k] \o SubSeq(line[l].out, 1, n))
    /\ UNCHANGED <<lifeVars, req, inbox, ids, held, workVars>>

-----------------------------------------------------------------------------
(* The Broker's thread.                                                    *)

(* Mutant of FromRouter: does not come to the second socket.               *)
FromRouterOnly ==
    /\ at = "first"
    /\ IF \E k \in Ids : inbox[k] # <<>>
       THEN \E k \in Ids : /\ inbox[k] # <<>>
                           /\ inbox' = [inbox EXCEPT ![k] = Tail(@)]
                           /\ held' = <<[id |-> k, client |-> Head(inbox[k]).client]>>
                           /\ Goto("to dealer")
       ELSE Goto("loop") /\ UNCHANGED <<inbox, held>>
    /\ UNCHANGED <<req, line, outbox, ids, workVars, faults, lost>>

(* while(router.hasWaitingMessage()) router.receiveMultipart(m) *)
FromRouter ==
    /\ at = "first"
    /\ IF \E k \in Ids : inbox[k] # <<>>
       THEN \E k \in Ids : /\ inbox[k] # <<>>
                           /\ inbox' = [inbox EXCEPT ![k] = Tail(@)]
                           /\ held' = <<[id |-> k, client |-> Head(inbox[k]).client]>>
                           /\ Goto("to dealer")
       ELSE Goto("second") /\ UNCHANGED <<inbox, held>>
    /\ UNCHANGED <<req, line, outbox, ids, workVars, faults, lost>>

(* Workers whose pipes the DEALER may write to (lb_t::sendpipe). *)
Able == {w \in Workers : rep[w].state # "away" /\ Len(given[w]) < WorkerHwm}

(* dealer.sendMultipart(std::move(m)) does not wait, and its result is not *)
(* looked at: without a worker the request is gone.                        *)
ToDealer ==
    /\ at = "to dealer"
    /\ IF Able = {} THEN Lose(held) /\ UNCHANGED given
       ELSE /\ \E w \in Able : given' = [given EXCEPT ![w] = Append(@, held[1])]
            /\ UNCHANGED lost
    /\ held' = <<>>
    /\ Goto("first")
    /\ UNCHANGED <<req, netVars, answers, rep, faults>>

(* while(dealer.hasWaitingMessage()) dealer.receiveMultipart(m) *)
FromDealer ==
    /\ at = "second"
    /\ IF \E w \in Workers : answers[w] # <<>>
       THEN \E w \in Workers : /\ answers[w] # <<>>
                               /\ answers' = [answers EXCEPT ![w] = Tail(@)]
                               /\ held' = <<Head(answers[w])>>
                               /\ Goto("to router")
       ELSE Goto("loop") /\ UNCHANGED <<answers, held>>
    /\ UNCHANGED <<req, netVars, given, rep, faults, lost>>

(* router.sendMultipart(std::move(m)): to a connection that is no more, the*)
(* reply is dropped (router_t::xsend).                                     *)
ToRouter ==
    /\ at = "to router"
    /\ LET k == held[1].id IN
       IF \E l \in Lines : line[l].id = k
       THEN outbox' = [outbox EXCEPT ![k] = Append(@, [client |-> held[1].client])]
            /\ UNCHANGED lost
       ELSE Lose(held) /\ UNCHANGED outbox
    /\ held' = <<>>
    /\ Goto("second")
    /\ UNCHANGED <<req, line, inbox, ids, workVars, faults>>

-----------------------------------------------------------------------------
(* The workers.                                                            *)

Join(w) ==
    /\ rep[w].state = "away"
    /\ owner = "set up"
    /\ rep' = [rep EXCEPT ![w].state = "ready"]
    /\ UNCHANGED <<lifeVars, req, netVars, held, given, answers, faults, lost>>

(* rep_t::xrecv: the envelope goes to the reply pipe. *)
TakeRequest(w) ==
    /\ rep[w].state = "ready" /\ given[w] # <<>>
    /\ rep' = [rep EXCEPT ![w] = [state |-> "busy", request |-> <<Head(given[w])>>]]
    /\ given' = [given EXCEPT ![w] = Tail(@)]
    /\ UNCHANGED <<lifeVars, req, netVars, held, answers, faults, lost>>

(* rep_t::xsend: one answer to each request. *)
Answer(w) ==
    /\ rep[w].state = "busy"
    /\ answers' = [answers EXCEPT ![w] = @ \o rep[w].request]
    /\ rep' = [rep EXCEPT ![w] = [state |-> "ready", request |-> <<>>]]
    /\ UNCHANGED <<lifeVars, req, netVars, held, given, faults, lost>>

(* A worker dies with what it has and what was queued for it; some of its  *)
(* answers have reached the DEALER's pipe.                                 *)
Crash(w) ==
    /\ rep[w].state # "away"
    /\ Fault
    /\ \E n \in 0..Len(answers[w]) :
          /\ answers' = [answers EXCEPT ![w] = SubSeq(@, 1, n)]
          /\ Lose(given[w] \o rep[w].request \o SubSeq(answers[w], n + 1, Len(answers[w])))
    /\ given' = [given EXCEPT ![w] = <<>>]
    /\ rep' = [rep EXCEPT ![w] = [state |-> "away", request |-> <<>>]]
    /\ UNCHANGED <<lifeVars, req, netVars, held>>

-----------------------------------------------------------------------------
Rest == <<req, netVars, held, workVars, faults, lost>>

Owner == (Setup \/ Destroy) /\ UNCHANGED Rest

Closed == Destroyed /\ UNCHANGED Rest

Thread == \/ (Enter \/ Leave) /\ UNCHANGED Rest
          \/ FromRouter \/ ToDealer \/ FromDealer \/ ToRouter

(* With the Broker gone there is no more exchange to speak of. *)
ExNext ==
    /\ owner # "gone"
    /\ \/ Owner \/ Closed \/ Thread
       \/ \E c \in Clients : SendRequest(c) \/ ReceiveAnswer(c) \/ Connect(c) \/ Disconnect(c)
       \/ \E l \in Lines : Link(l) \/ Transmit(l) \/ Return(l) \/ BreakLine(l)
       \/ \E w \in Workers : Join(w) \/ TakeRequest(w) \/ Answer(w) \/ Crash(w)

(* The Broker's thread runs on, requesters read what comes, connections    *)
(* that are up carry what is written, workers answer.                      *)
ExFairness ==
    /\ WF_exVars(Thread) /\ WF_exVars(Closed)
    /\ \A c \in Clients : WF_exVars(ReceiveAnswer(c))
    /\ \A l \in Lines : WF_exVars(Link(l)) /\ WF_exVars(Transmit(l)) /\ WF_exVars(Return(l))
    /\ \A w \in Workers : WF_exVars(TakeRequest(w)) /\ WF_exVars(Answer(w))

ExSpec == ExInit /\ [][ExNext]_exVars /\ ExFairness

-----------------------------------------------------------------------------
Message == [client : Clients]
Routed == [id : Ids, client : Clients]

ExTypeOK ==
    /\ service \in Kinds /\ {running, finish} \subseteq BOOLEAN
    /\ owner \in {"made", "set up", "waiting", "gone"}
    /\ at \in {"none", "loop", "first", "to dealer", "second", "to router", "ended"}
    /\ req \in [Clients -> [waiting : BOOLEAN, line : Lines \cup {0}]]
    /\ line \in [Lines -> [client : Clients, used : BOOLEAN, held : BOOLEAN, out : Seq(Message),
                           in : Seq(Message), id : Ids \cup {0}]]
    /\ {inbox, outbox} \subseteq [Ids -> Seq(Message)]
    /\ ids \in Ids \cup {0} /\ faults \in 0..MaxFaults
    /\ held \in Seq(Routed) /\ Len(held) <= 1
    /\ {given, answers} \subseteq [Workers -> Seq(Routed)]
    /\ rep \in [Workers -> [state : {"away", "ready", "busy"}, request : Seq(Routed)]]
    /\ lost \subseteq Clients

(* The queues a message can be in, and how many of a client are in them. *)
Places ==
    ({"out", "in"} \X Lines) \cup ({"inbox", "outbox"} \X Ids)
    \cup ({"given", "answers", "request"} \X Workers) \cup {<<"held", 0>>}

Queue(n) ==
    CASE n[1] = "out" -> line[n[2]].out
      [] n[1] = "in" -> line[n[2]].in
      [] n[1] = "inbox" -> inbox[n[2]]
      [] n[1] = "outbox" -> outbox[n[2]]
      [] n[1] = "given" -> given[n[2]]
      [] n[1] = "answers" -> answers[n[2]]
      [] n[1] = "request" -> rep[n[2]].request
      [] n[1] = "held" -> held

Copies(c) ==
    Cardinality(UNION {{n} \X {i \in DOMAIN Queue(n) : Queue(n)[i].client = c} : n \in Places})

(* An answer comes back to the one who asked: the number put on a          *)
(* connection is never another's (identify_peer).                          *)
Matched ==
    \A l \in Lines : \A m \in {line[l].in[i] : i \in DOMAIN line[l].in} : m.client = line[l].client

(* A requester that waits has its request or the answer to it in exactly   *)
(* one place, or it was dropped where the code drops messages, which are   *)
(* the steps that name `lost'; a requester that does not wait has left     *)
(* nothing behind that could be taken for an answer to its next request    *)
(* (req_t::xsend, xrecv, the Broker's loop, rep_t, router_t::              *)
(* identify_peer).                                                         *)
Accounted ==
    /\ Matched
    /\ \A c \in Clients : Copies(c) = IF req[c].waiting /\ c \notin lost THEN 1 ELSE 0

(* What the run checks and RequestsCounted proves. *)
RequestsAccounted == ExTypeOK /\ Accounted

(* With a Broker at work no requester waits for ever, unless its request   *)
(* or the answer was dropped (the loop of Broker::setup serves both sides).*)
Answered ==
    \A c \in Clients : []<>(~req[c].waiting \/ c \in lost \/ owner # "set up")

(* The destructor of a Broker that was set up does not wait for ever, with *)
(* requesters and workers at work all the while.                           *)
Destructs == <>[](owner # "waiting" \/ at = "none")
=============================================================================
