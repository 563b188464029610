------------------------------- MODULE Inproc -------------------------------
(***************************************************************************)
(* Connections inside the process.  There is no session: the two ends of a *)
(* pipe belong to two sockets, found by name in the context.  A connect    *)
(* that comes before the bind leaves its pipe with the context, the end of *)
(* the socket still to come in the hands of the one that connects; a bind  *)
(* takes what is left for it over, and so do, when the context ends,       *)
(* sockets made for nothing else.  Meanwhile sockets take connections      *)
(* back, unbind and are closed, each in a thread of its own.               *)
(*                                                                         *)
(* There is one name.  Pipes carry routing ids and delimiters, no messages *)
(* of the application.                                                     *)
(***************************************************************************)
EXTENDS Integers, Sequences, SequencesExt, FiniteSetsExt

CONSTANTS Binders,      \* sockets of the application that may bind
          Connecters,   \* ...and that may connect, ROUTER and REP excepted
          Spares,       \* those the context makes when it ends
          Pairs,        \* sockets that are of type PAIR, the spare ones among them
          Routers,      \* ...with recv_routing_id: ROUTER, REP
          Writers,      \* ...that never read: PUSH
          Conns,        \* bound: calls of connect
          Ending,       \* bound: whether zmq_ctx_term is called
          Marks,        \* high water marks, 0 for none
          Default,      \* the mark of options nobody set
          MaxTunes,     \* bound: calls that set a mark of a socket in use
          None

(* Every connection left with the context may need a socket.               *)
Socks == Binders \cup Connecters

All == Socks \cup Spares

Ends == {"connect", "bind"}

Other(e) == IF e = "connect" THEN "bind" ELSE "connect"

VARIABLES
    sock,       \* sock[s]: what socket_base_t and own_t keep
    conn,       \* conn[c]: the pipe of a call of connect
    queue,      \* queue[s]: the commands in the mailbox of s
    registry,   \* ctx_t::_endpoints
    pending,    \* ctx_t::_pending_connections
    failed,     \* an assertion has failed or a command met what is not there
    at,         \* at[s]: the call that is under way
    term,       \* zmq_ctx_term: "no", "connecting" or "stopped"
    toBind,     \* the connections it has still to provide for
    tunes       \* calls that set marks

callVars == <<at, term, toBind, tunes>>

vars == <<sock, conn, queue, registry, pending, failed, callVars>>

(* due is _sent_seqnum - _processed_seqnum, main is pair_t::_pipe.         *)
NewSocket == [life |-> "open", due |-> 0, acks |-> 0, stopped |-> FALSE, main |-> <<>>,
              snd |-> Default, rcv |-> Default]

(* sink is the socket an end is attached to, slot the one in whose mailbox *)
(* its commands come, in what it has to read; -1 stands for no boost.      *)
NoEnd == [state |-> "none", delay |-> TRUE, slot |-> None, sink |-> None, in |-> <<>>,
          hwm |-> 0, lwm |-> 0, inBoost |-> -1, outBoost |-> -1]

NoConn == [ends |-> [e \in Ends |-> NoEnd], snd |-> 0, rcv |-> 0, listed |-> FALSE,
           late |-> FALSE]

NoEndpoint == [socket |-> None, snd |-> 0, rcv |-> 0]

Idle == [call |-> "none", conn |-> None, peer |-> NoEndpoint]

Init ==
    /\ sock \in [All -> {[NewSocket EXCEPT !.snd = m, !.rcv = n] : m \in Marks, n \in Marks}
                        \cup {[NewSocket EXCEPT !.life = "unborn"]}]
    /\ \A s \in All : sock[s].life = "unborn" <=> s \in Spares
    /\ conn = [c \in Conns |-> NoConn]
    /\ queue = [s \in All |-> <<>>]
    /\ registry = NoEndpoint /\ pending = <<>>
    /\ failed = FALSE
    /\ at = [s \in All |-> Idle]
    /\ term = "no" /\ toBind = <<>> /\ tunes = 0

(* As in Ownership, a handler is the composition of operators on the state *)
(* of the objects.                                                         *)
Now == [sock |-> sock, conn |-> conn, queue |-> queue, registry |-> registry,
        pending |-> pending, failed |-> failed]

Becomes(w) ==
    /\ sock' = w.sock /\ conn' = w.conn /\ queue' = w.queue
    /\ registry' = w.registry /\ pending' = w.pending /\ failed' = w.failed

Check(w, holds) == [w EXCEPT !.failed = @ \/ ~holds]

Send(w, slot, type, c, e, arg) ==
    [w EXCEPT !.queue[slot] = Append(@, [type |-> type, conn |-> c, end |-> e, arg |-> arg])]

SendToEnd(w, c, e, type) == Send(w, w.conn[c].ends[e].slot, type, c, e, None)

Terminating(w, s) == w.sock[s].life = "reaped"

-----------------------------------------------------------------------------
(* Marks. *)

Low(hwm) == (hwm + 1) \div 2

Plus(mark, boost) == IF mark = 0 \/ boost = 0 THEN 0 ELSE IF boost > 0 THEN mark + boost ELSE mark

(* set_hwms *)
SetMarks(end, in, out) ==
    [end EXCEPT !.lwm = Low(Plus(in, end.inBoost)), !.hwm = Plus(out, end.outBoost)]

(* Mutant of Boost: the peer's marks are taken for each other. *)
BoostSwapped(end, in, out) == [end EXCEPT !.inBoost = out, !.outBoost = in]

Boost(end, in, out) == [end EXCEPT !.inBoost = in, !.outBoost = out]

-----------------------------------------------------------------------------
(* own_t and pipe_t; see Ownership and Pipe.                               *)

(* Mutant of CheckTermAcks: does not wait for commands under way. *)
CheckTermAcksAtOnce(w, s) ==
    IF ~(Terminating(w, s) /\ w.sock[s].acks = 0) THEN w
    ELSE Check([w EXCEPT !.sock[s].life = "dead"], w.sock[s].main = <<>>)

CheckTermAcks(w, s) ==
    IF ~(Terminating(w, s) /\ w.sock[s].due = 0 /\ w.sock[s].acks = 0) THEN w
    ELSE Check([w EXCEPT !.sock[s].life = "dead"], w.sock[s].main = <<>>)

ProcessSeqnum(w, s) == CheckTermAcks([w EXCEPT !.sock[s].due = @ - 1], s)

Enter(w, c, e, state) == [w EXCEPT !.conn[c].ends[e].state = state]

Acknowledge(w, c, e, state) == SendToEnd(Enter(w, c, e, state), c, Other(e), "pipe_term_ack")

Write(w, c, e, what) == [w EXCEPT !.conn[c].ends[Other(e)].in = Append(@, what)]

TerminatePipe(w, c, e, delay) ==
    LET v == [w EXCEPT !.conn[c].ends[e].delay = delay]
        state == w.conn[c].ends[e].state
    IN  CASE state \in {"active", "delimiter_received"} ->
                Write(SendToEnd(Enter(v, c, e, "term_req_sent1"), c, Other(e), "pipe_term"),
                      c, e, "delimiter")
          [] state = "waiting_for_delimiter" /\ ~delay -> Acknowledge(v, c, e, "term_ack_sent")
          [] state = "waiting_for_delimiter" /\ delay -> Write(v, c, e, "delimiter")
          [] OTHER -> v

ReadDelimiter(w, c, e) ==
    LET v == [w EXCEPT !.conn[c].ends[e].in = Tail(@)] IN
    IF w.conn[c].ends[e].state = "active" THEN Enter(v, c, e, "delimiter_received")
    ELSE Acknowledge(v, c, e, "term_ack_sent")

ProcessPipeTerm(w, c, e) ==
    LET end == w.conn[c].ends[e] IN
    CASE end.state = "active" /\ end.delay -> Enter(w, c, e, "waiting_for_delimiter")
      [] end.state = "active" /\ ~end.delay -> Acknowledge(w, c, e, "term_ack_sent")
      [] end.state = "delimiter_received" -> Acknowledge(w, c, e, "term_ack_sent")
      [] end.state = "term_req_sent1" -> Acknowledge(w, c, e, "term_req_sent2")
      [] OTHER -> Check(w, FALSE)

(* socket_base_t::pipe_terminated and pair_t::xpipe_terminated *)
PipeTerminated(w, s, c, e) ==
    LET v == [w EXCEPT !.sock[s].main = IF @ = <<c, e>> THEN <<>> ELSE @,
                       !.conn[c].listed = @ /\ e # "connect"]
    IN  IF Terminating(w, s) THEN CheckTermAcks([v EXCEPT !.sock[s].acks = @ - 1], s) ELSE v

ProcessPipeTermAck(w, c, e) ==
    LET end == w.conn[c].ends[e]
        v == IF end.sink = None THEN Check(w, FALSE)
             ELSE PipeTerminated(Enter(w, c, e, "gone"), end.sink, c, e)
    IN  IF end.state = "term_req_sent1" THEN Acknowledge(v, c, e, "gone")
        ELSE Check(v, end.state \in {"term_ack_sent", "term_req_sent2"})

-----------------------------------------------------------------------------
(* Sockets. *)

(* What the types do with a new pipe: a PAIR has one and refuses another,  *)
(* one that only writes does not wait for a delimiter, a ROUTER reads who  *)
(* is there.                                                               *)
AttachByType(w, s, c, e) ==
    CASE s \in Pairs /\ w.sock[s].main = <<>> -> [w EXCEPT !.sock[s].main = <<c, e>>]
      [] s \in Pairs /\ w.sock[s].main # <<>> -> TerminatePipe(w, c, e, FALSE)
      [] s \in Writers -> [w EXCEPT !.conn[c].ends[e].delay = FALSE]
      [] s \in Routers -> [w EXCEPT !.conn[c].ends[e].in = Tail(@)]
      [] OTHER -> w

(* Mutant of AttachPipe: a pipe that comes late is not told to go. *)
AttachPipeLate(w, s, c, e) == AttachByType([w EXCEPT !.conn[c].ends[e].sink = s], s, c, e)

(* The sink can be set once only. *)
AttachPipe(w, s, c, e) ==
    LET v == AttachByType(Check([w EXCEPT !.conn[c].ends[e].sink = s],
                                 w.conn[c].ends[e].sink = None), s, c, e)
    IN  IF Terminating(w, s) THEN TerminatePipe([v EXCEPT !.sock[s].acks = @ + 1], c, e, FALSE)
        ELSE v

Attached(w, s) ==
    {<<c, e>> \in Conns \X Ends : w.conn[c].ends[e].sink = s /\ w.conn[c].ends[e].state # "gone"}

(* process_term *)
Terminate(w, s) ==
    LET v == IF w.registry.socket = s THEN [w EXCEPT !.registry = NoEndpoint] ELSE w
        u == FoldSet(LAMBDA p, x : TerminatePipe(x, p[1], p[2], FALSE), v, Attached(w, s))
    IN  CheckTermAcks([u EXCEPT !.sock[s].life = "reaped",
                                !.sock[s].acks = @ + Cardinality(Attached(w, s))], s)

-----------------------------------------------------------------------------
(* The context: connect_inproc_sockets takes over what was left with it.   *)
(* The one that connects sent its routing id in any case; here it is       *)
(* dropped, or left for a ROUTER to read.                                  *)

Drop(w, c) ==
    LET end == w.conn[c].ends["bind"]
        v == [w EXCEPT !.conn[c].ends["bind"].in = Tail(@)]
    IN  Check(IF end.lwm > 0 THEN SendToEnd(v, c, "connect", "activate_write") ELSE v,
               /\ end.state \in {"active", "waiting_for_delimiter"}
               /\ end.in # <<>> /\ Head(end.in) = "id")

TakeOver(w, b, c) ==
    LET k == w.conn[c]
        owned == [w EXCEPT !.sock[b].due = @ + 1, !.conn[c].ends["bind"].slot = b]
        v == IF b \in Routers THEN owned ELSE Drop(owned, c)
    IN  [v EXCEPT
           !.conn[c].ends["connect"] =
               SetMarks(Boost(@, w.registry.snd, w.registry.rcv), k.rcv, k.snd),
           !.conn[c].ends["bind"] =
               SetMarks(Boost(@, k.snd, k.rcv), w.registry.rcv, w.registry.snd)]

(* bind_side: within the call of bind. *)
ConnectPendingOne(w, b, c) ==
    LET v == ProcessSeqnum(AttachPipe(TakeOver(w, b, c), b, c, "bind"), b)
    IN  Send(v, v.conn[c].ends["connect"].slot, "inproc_connected", c, "none", None)

(* connect_side *)
ConnectDirectly(w, c) ==
    Send(TakeOver(w, w.registry.socket, c), w.registry.socket, "bind", c, "none", None)

(* pipepair *)
NewPipe(w, s, c, parent, out, in) ==
    [w EXCEPT !.conn[c] =
        [NoConn EXCEPT
           !.ends = [e \in Ends |->
              [NoEnd EXCEPT !.state = "active", !.slot = IF e = "connect" THEN s ELSE parent,
                            !.hwm = IF e = "connect" THEN out ELSE in,
                            !.lwm = Low(IF e = "connect" THEN in ELSE out)]],
           !.snd = w.sock[s].snd, !.rcv = w.sock[s].rcv, !.late = (term # "no")]]

(* The end of the socket that connects; the call remembers it. *)
AttachOwn(w, s, c) ==
    LET v == AttachPipe(w, s, c, "connect")
    IN  [v EXCEPT !.conn[c].listed = TRUE]

-----------------------------------------------------------------------------
(* Commands. *)

Process(w, s, x) ==
    CASE x.type = "stop" -> [w EXCEPT !.sock[s].stopped = TRUE]
      [] x.type = "bind" -> ProcessSeqnum(AttachPipe(w, s, x.conn, "bind"), s)
      [] x.type = "inproc_connected" -> ProcessSeqnum(w, s)
      [] x.type = "activate_write" -> w
      [] x.type = "pipe_hwm" ->
            [w EXCEPT !.conn[x.conn].ends[x.end] = SetMarks(@, x.arg[1], x.arg[2])]
      [] x.type = "pipe_term" -> ProcessPipeTerm(w, x.conn, x.end)
      [] x.type = "pipe_term_ack" -> ProcessPipeTermAck(w, x.conn, x.end)

There(w, x) ==
    x.end # "none" =>
        w.conn[x.conn].ends[x.end].state \notin {"none", "gone"}

(* Any call of the application, or the reaper, processes the commands.     *)
ProcessCommand(s) ==
    /\ at[s].call = "none" /\ sock[s].life \in {"open", "reaped"}
    /\ queue[s] # <<>>
    /\ LET x == Head(queue[s])
           w == [Now EXCEPT !.queue[s] = Tail(@)]
       IN  Becomes(IF There(w, x) THEN Process(w, s, x) ELSE Check(w, FALSE))
    /\ UNCHANGED callVars

-----------------------------------------------------------------------------
(* Calls of the application.  bind, connect and disconnect process all     *)
(* commands first.                                                         *)

Ready(s) == sock[s].life = "open" /\ ~sock[s].stopped /\ at[s].call = "none" /\ queue[s] = <<>>

(* register_endpoint *)
Register(s) ==
    /\ Ready(s) /\ s \in Binders \cup Spares
    /\ registry.socket = None
    /\ Becomes([Now EXCEPT !.registry = [socket |-> s, snd |-> sock[s].snd, rcv |-> sock[s].rcv]])
    /\ at' = [at EXCEPT ![s].call = "bind"]
    /\ UNCHANGED <<term, toBind, tunes>>

(* connect_pending *)
ConnectPending(s) ==
    /\ at[s].call = "bind"
    /\ LET w == FoldLeft(LAMBDA v, c : ConnectPendingOne(v, s, c), Now, pending)
       IN  Becomes([w EXCEPT !.pending = <<>>])
    /\ at' = [at EXCEPT ![s] = Idle]
    /\ UNCHANGED <<term, toBind, tunes>>

(* find_endpoint: who is found cannot go before the command `bind' comes.  *)
FindEndpoint(s, c) ==
    /\ Ready(s)
    /\ conn[c] = NoConn /\ \A r \in All : at[r].conn # c
    /\ at' = [at EXCEPT ![s] = [call |-> "connect", conn |-> c, peer |-> registry]]
    /\ Becomes(IF registry.socket = None THEN Now
               ELSE [Now EXCEPT !.sock[registry.socket].due = @ + 1])
    /\ UNCHANGED <<term, toBind, tunes>>

(* The peer was found. *)
ConnectFound(s) ==
    /\ at[s].call = "connect" /\ at[s].peer.socket # None
    /\ LET c == at[s].conn
           b == at[s].peer
           v == NewPipe(Now, s, c, b.socket, Plus(sock[s].snd, b.rcv), Plus(sock[s].rcv, b.snd))
           u == [v EXCEPT !.conn[c].ends["connect"] = Boost(@, b.snd, b.rcv),
                          !.conn[c].ends["bind"] = Boost(@, sock[s].snd, sock[s].rcv)]
           x == IF b.socket \in Routers THEN Write(u, c, "connect", "id") ELSE u
       IN  Becomes(AttachOwn(Send(x, b.socket, "bind", c, "none", None), s, c))
    /\ at' = [at EXCEPT ![s] = Idle]
    /\ UNCHANGED <<term, toBind, tunes>>

(* Mutant of Pend: does not look again whether there is an endpoint. *)
PendAnyway(w, s, c) == [w EXCEPT !.sock[s].due = @ + 1, !.pending = Append(@, c)]

(* pend_connection *)
Pend(w, s, c) ==
    IF w.registry.socket = None
    THEN [w EXCEPT !.sock[s].due = @ + 1, !.pending = Append(@, c)]
    ELSE ConnectDirectly(w, c)

(* No one was found: both ends are with the socket that connects, and its  *)
(* routing id is in the pipe, whoever may come.                            *)
ConnectPended(s) ==
    /\ at[s].call = "connect" /\ at[s].peer.socket = None
    /\ LET c == at[s].conn
           v == NewPipe(Now, s, c, s, sock[s].snd, sock[s].rcv)
           u == [v EXCEPT !.conn[c].ends["connect"] = Boost(@, Default, Default),
                          !.conn[c].ends["bind"] = Boost(@, sock[s].snd, sock[s].rcv)]
       IN  Becomes(AttachOwn(Pend(Write(u, c, "connect", "id"), s, c), s, c))
    /\ at' = [at EXCEPT ![s] = Idle]
    /\ UNCHANGED <<term, toBind, tunes>>

Listed(s) == {c \in Conns : conn[c].listed /\ conn[c].ends["connect"].sink = s}

(* term_endpoint: unbind if the name is this socket's, disconnect if not.  *)
TermEndpoint(s) ==
    /\ s \in Socks /\ Ready(s)
    /\ \/ /\ registry.socket = s
          /\ Becomes([Now EXCEPT !.registry = NoEndpoint])
       \/ /\ registry.socket # s /\ Listed(s) # {}
          /\ LET w == FoldSet(LAMBDA c, v : TerminatePipe(v, c, "connect", TRUE), Now, Listed(s))
             IN  Becomes([w EXCEPT !.conn = [c \in Conns |->
                             [w.conn[c] EXCEPT !.listed = @ /\ c \notin Listed(s)]]])
    /\ UNCHANGED callVars

(* A receive finds a delimiter. *)
CheckRead(s, c, e) ==
    /\ sock[s].life = "open" /\ at[s].call = "none" /\ s \notin Writers
    /\ conn[c].ends[e].sink = s
    /\ conn[c].ends[e].state \in {"active", "waiting_for_delimiter"}
    /\ conn[c].ends[e].in # <<>>
    /\ Becomes(ReadDelimiter(Now, c, e))
    /\ UNCHANGED callVars

(* setReceiveHighWaterMark, setSendHighWaterMark: update_pipe_options.     *)
SetMark(s, snd, rcv) ==
    /\ tunes < MaxTunes /\ s \in Socks
    /\ sock[s].life = "open" /\ ~sock[s].stopped /\ at[s].call = "none"
    /\ snd = sock[s].snd \/ rcv = sock[s].rcv
    /\ LET set(w, p) ==
              LET v == [w EXCEPT !.conn[p[1]].ends[p[2]] = SetMarks(@, rcv, snd)]
                  peer == Other(p[2])
              IN  Send(v, v.conn[p[1]].ends[peer].slot, "pipe_hwm", p[1], peer, <<snd, rcv>>)
           w == FoldSet(LAMBDA p, v : set(v, p), Now, Attached(Now, s))
       IN  Becomes([w EXCEPT !.sock[s].snd = snd, !.sock[s].rcv = rcv])
    /\ tunes' = tunes + 1
    /\ UNCHANGED <<at, term, toBind>>

(* zmq_close, and the reaper's part of it. *)
Close(s) ==
    /\ s \in Socks
    /\ sock[s].life = "open" /\ at[s].call = "none"
    /\ Becomes([Now EXCEPT !.sock[s].life = "closed"])
    /\ UNCHANGED callVars

Reap(s) ==
    /\ sock[s].life = "closed"
    /\ Becomes(Terminate(Now, s))
    /\ UNCHANGED callVars

-----------------------------------------------------------------------------
(* zmq_ctx_term connects what is pending first, by a PAIR for each.        *)

(* Mutant of Orphans: nobody provides for connections that are pending. *)
OrphansLeft == <<>>

Orphans == pending

BeginTerm ==
    /\ Ending /\ term = "no"
    /\ term' = "connecting" /\ toBind' = Orphans
    /\ UNCHANGED <<sock, conn, queue, registry, pending, failed, at, tunes>>

NewSpare ==
    /\ term = "connecting" /\ toBind # <<>>
    /\ \A r \in Spares : sock[r].life # "open"
    /\ LET s == CHOOSE r \in Spares : sock[r].life = "unborn"
       IN  Becomes([Now EXCEPT !.sock[s].life = "open"])
    /\ UNCHANGED callVars

(* It has bound, or the name is taken. *)
CloseSpare(s) ==
    /\ s \in Spares /\ sock[s].life = "open" /\ at[s].call = "none"
    /\ registry.socket # None
    /\ Becomes([Now EXCEPT !.sock[s].life = "closed"])
    /\ toBind' = Tail(toBind)
    /\ UNCHANGED <<at, term, tunes>>

(* To one that is being closed it makes no difference. *)
Stop ==
    /\ term = "connecting" /\ toBind = <<>>
    /\ term' = "stopped"
    /\ Becomes([Now EXCEPT !.queue = [s \in All |->
                    IF sock[s].life = "open"
                    THEN Append(queue[s], [type |-> "stop", conn |-> None, end |-> "none",
                                           arg |-> None])
                    ELSE queue[s]]])
    /\ UNCHANGED <<at, toBind, tunes>>

-----------------------------------------------------------------------------
Reaper(s) == Reap(s) \/ (ProcessCommand(s) /\ sock[s].life = "reaped")

(* A thread goes through with the call it is in. *)
InCall(s) == ConnectPending(s) \/ ConnectFound(s) \/ ConnectPended(s)

SpareStep == NewSpare \/ \E s \in Spares : Register(s) \/ CloseSpare(s)

Next ==
    \/ \E s \in All : ProcessCommand(s) \/ Reap(s) \/ InCall(s) \/ Register(s)
    \/ \E s \in Connecters, c \in Conns : FindEndpoint(s, c)
    \/ \E s \in Socks, c \in Conns, e \in Ends : CheckRead(s, c, e)
    \/ \E s \in Socks : \/ TermEndpoint(s) \/ Close(s)
                        \/ \E m, n \in Marks : SetMark(s, m, n)
    \/ BeginTerm \/ NewSpare \/ Stop
    \/ \E s \in Spares : CloseSpare(s)

(* Weak fairness, with what enables each step said in words of the state:  *)
(* the reaper and the calls under way go on, zmq_ctx_term goes through.    *)
Reapable(s) == sock[s].life = "closed" \/ (sock[s].life = "reaped" /\ queue[s] # <<>>)

Binding == term = "connecting" /\ toBind # <<>> /\ \A s \in Spares : at[s].call = "none"

Stoppable == term = "connecting" /\ toBind = <<>>

Fairness ==
    /\ \A s \in All : /\ []<>~Reapable(s) \/ []<><<Reaper(s)>>_vars
                      /\ []<>(at[s].call = "none") \/ []<><<InCall(s)>>_vars
    /\ []<>~Binding \/ []<><<SpareStep>>_vars
    /\ []<>~Stoppable \/ []<><<Stop>>_vars

Spec == Init /\ [][Next]_vars /\ Fairness

-----------------------------------------------------------------------------
TypeOK ==
    /\ \A s \in All : /\ sock[s].life \in {"unborn", "open", "closed", "reaped", "dead"}
                      /\ sock[s].due \in Nat /\ sock[s].acks \in Nat
                      /\ sock[s].main \in {<<>>} \cup Conns \X Ends
    /\ \A c \in Conns, e \in Ends : conn[c].ends[e].sink \in All \cup {None}
    /\ registry.socket \in All \cup {None}
    /\ pending \in Seq(Conns) /\ toBind \in Seq(Conns)
    /\ failed \in BOOLEAN
    /\ term \in {"no", "connecting", "stopped"}

(* No assertion fails and no command comes to what is not there: a pipe    *)
(* changes hands between threads while its other end is terminated.        *)
NoFailure == ~failed

(* When a socket goes, no one can send it a command or find it any more:   *)
(* not by its name, not as one who waits for a bind, not as the owner of   *)
(* an end of a pipe, not as the peer that a call has just found.           *)
GoesLast ==
    \A s \in All : sock[s].life = "dead" =>
        /\ \A x \in Range(queue[s]) : x.type = "stop"
        /\ registry.socket # s
        /\ \A c \in Conns, e \in Ends :
              s \in {conn[c].ends[e].slot, conn[c].ends[e].sink} =>
                  conn[c].ends[e].state = "gone"
        /\ \A r \in All : at[r].peer.socket # s

(* While a name is bound no connection waits for it to be bound, except    *)
(* for those that this bind is about to take over.                         *)
NoneOverlooked ==
    registry.socket # None /\ at[registry.socket].call # "bind" => pending = <<>>

(* The end of a socket that binds finds the routing id of its peer exactly *)
(* if it looks for one, whichever of the two was there first.              *)
IdsWhereExpected ==
    \A c \in Conns :
        LET end == conn[c].ends["bind"] IN end.sink # None => "id" \notin Range(end.in)

(* The reader of a pipe acknowledges before the writer's mark is reached,  *)
(* and does so at all if the writer has a mark.                            *)
LowIsReached ==
    \A c \in Conns, e \in Ends :
        LET end == conn[c].ends[e]
            peer == conn[c].ends[Other(e)]
            settled == \A s \in All : \A i \in DOMAIN queue[s] :
                           ~(queue[s][i].type = "pipe_hwm" /\ queue[s][i].conn = c)
        IN  settled /\ end.hwm > 0 => peer.lwm \in 1..end.hwm

(* With every socket of the application closed, all go: also those that    *)
(* wait for a bind that never came, once the context ends.  Only a         *)
(* connection that is left with the context after it has looked what there *)
(* is stays, and its socket with it.                                       *)
AllGo ==
    \/ <>[](\/ \E s \in Socks : sock[s].life = "open"
            \/ pending # <<>> /\ (term = "no" \/ \E c \in Range(pending) : conn[c].late))
    \/ <>[](\A s \in All : sock[s].life \in {"unborn", "dead"})
=============================================================================
