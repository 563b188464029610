----------------------------- MODULE Ownership ------------------------------
(***************************************************************************)
(* How a socket goes.  Its listeners and sessions, their sessions and      *)
(* connecters form a tree (own_t); each object lives in a thread of its    *)
(* own choice and the tree changes while it is being taken down: a         *)
(* listener accepts, a connecter connects, a session reconnects.  Nothing  *)
(* but commands connects the threads, one mailbox for each.  An object     *)
(* goes when its children and pipes have acknowledged and when every       *)
(* command counted for it (inc_seqnum, process_seqnum) has been processed. *)
(*                                                                         *)
(* Pipes carry no messages here, only their delimiter; Pipe has the rest.  *)
(***************************************************************************)
EXTENDS Integers, Sequences, FiniteSetsExt

CONSTANTS Socket,       \* the socket at the root
          Listeners, Accepteds, Connects, Connecters,   \* addresses for each class
          App, IoThreads,
          Delays,       \* pipe_t::_delay at the socket's end: not for PUB and PUSH
          MaxEndpoints, \* bound: calls of bind and connect
          None

Objects == Listeners \cup Accepteds \cup Connects \cup Connecters

Sessions == Accepteds \cup Connects

VARIABLES
    obj,        \* obj[o]: what own_t and the classes keep, see Unborn
    pipe,       \* pipe[s]: the two ends of the pipe of session s
    queue,      \* queue[t]: commands to the objects of thread t
    endpoints,  \* socket_base_t::_endpoints
    failed      \* an assertion has failed, or a command met a destroyed object

vars == <<obj, pipe, queue, endpoints, failed>>

(* due is _sent_seqnum - _processed_seqnum. *)
Unborn == [life |-> "unborn", thread |-> App, owner |-> None, owned |-> {}, due |-> 0,
           acks |-> 0, terminating |-> FALSE, pending |-> FALSE,
           busy |-> FALSE]  \* plugged and polling, or with an engine

NoEnd == [state |-> "none", attached |-> FALSE, delimiter |-> FALSE]

Init ==
    /\ obj = [o \in Objects \cup {Socket} |->
                 IF o = Socket THEN [Unborn EXCEPT !.life = "alive"] ELSE Unborn]
    /\ pipe = [s \in Sessions |-> [socket |-> NoEnd, session |-> NoEnd]]
    /\ queue = [t \in IoThreads \cup {App} |-> <<>>]
    /\ endpoints = {}
    /\ failed = FALSE

(* A handler goes through several objects of its thread and sends commands *)
(* on the way; it is the composition of operators on the whole state.      *)
Now == [obj |-> obj, pipe |-> pipe, queue |-> queue, failed |-> failed]

Becomes(w) == obj' = w.obj /\ pipe' = w.pipe /\ queue' = w.queue /\ failed' = w.failed

Assert(w, holds) == [w EXCEPT !.failed = @ \/ ~holds]

(* A command to object o, or to one end of its pipe. *)
Send(w, type, o, arg, side) ==
    LET t == IF side = "socket" THEN App ELSE w.obj[o].thread
    IN  [w EXCEPT !.queue[t] = Append(@, [type |-> type, to |-> o, arg |-> arg, side |-> side])]

(* ...one that inc_seqnum counts. *)
SendCounted(w, type, o, arg) ==
    LET v == Send(w, type, o, arg, "own") IN [v EXCEPT !.obj[o].due = @ + 1]

-----------------------------------------------------------------------------
(* own_t                                                                   *)

(* Mutant of CheckTermAcks: does not wait for commands under way. *)
CheckTermAcksAtOnce(w, o) ==
    LET me == w.obj[o]
        v == IF me.owner = None THEN w ELSE Send(w, "term_ack", me.owner, o, "own")
    IN  IF ~(me.terminating /\ me.acks = 0 /\ me.life = "alive") THEN w
        ELSE Assert([v EXCEPT !.obj[o].life = "dead"],
                    me.owned = {} /\ (o \in Sessions => w.pipe[o].session.state \in {"none", "gone"}))

(* check_term_acks, process_destroy; the assertions of the destructors. *)
CheckTermAcks(w, o) ==
    LET me == w.obj[o]
        last == me.terminating /\ me.due = 0 /\ me.acks = 0
        v == IF me.owner = None THEN w ELSE Send(w, "term_ack", me.owner, o, "own")
    IN  IF ~last THEN w
        ELSE Assert([v EXCEPT !.obj[o].life = "dead"],
                    me.owned = {} /\ (o \in Sessions => w.pipe[o].session.state \in {"none", "gone"}))

ProcessSeqnum(w, o) == CheckTermAcks([w EXCEPT !.obj[o].due = @ - 1], o)

LaunchChild(w, owner, o, t) ==
    LET v == [w EXCEPT !.obj[o].life = "alive", !.obj[o].thread = t, !.obj[o].owner = owner]
    IN  SendCounted(SendCounted(v, "plug", o, None), "own", owner, o)

ProcessOwn(w, o, child) ==
    IF w.obj[o].terminating
    THEN Send([w EXCEPT !.obj[o].acks = @ + 1], "term", child, None, "own")
    ELSE [w EXCEPT !.obj[o].owned = @ \cup {child}]

ProcessTermReq(w, o, child) ==
    IF w.obj[o].terminating \/ child \notin w.obj[o].owned THEN w
    ELSE Send([w EXCEPT !.obj[o].owned = @ \ {child}, !.obj[o].acks = @ + 1], "term", child, None, "own")

OwnProcessTerm(w, o) ==
    LET children == w.obj[o].owned
        told == FoldSet(LAMBDA c, v : Send(v, "term", c, None, "own"), w, children)
    IN  CheckTermAcks([Assert(told, ~w.obj[o].terminating) EXCEPT
                          !.obj[o].owned = {}, !.obj[o].acks = @ + Cardinality(children),
                          !.obj[o].terminating = TRUE], o)

UnregisterTermAck(w, o) ==
    CheckTermAcks(Assert([w EXCEPT !.obj[o].acks = @ - 1], w.obj[o].acks > 0), o)

(* terminate(), of an object that has an owner *)
Terminate(w, o) ==
    IF w.obj[o].terminating THEN w ELSE Send(w, "term_req", w.obj[o].owner, o, "own")

-----------------------------------------------------------------------------
(* pipe_t, the end `side' of the pipe of session s; it has no messages.    *)

Other(side) == IF side = "socket" THEN "session" ELSE "socket"

Enter(w, s, side, state) == [w EXCEPT !.pipe[s][side].state = state]

Acknowledge(w, s, side, state) ==
    Send(Enter(w, s, side, state), "pipe_term_ack", s, None, Other(side))

(* terminate(delay): a delimiter is left for the peer. *)
TerminatePipe(w, s, side, delay) ==
    LET delimited == [w EXCEPT !.pipe[s][Other(side)].delimiter = TRUE] IN
    CASE w.pipe[s][side].state \in {"active", "delimiter_received"} ->
            Send(Enter(delimited, s, side, "term_req_sent1"), "pipe_term", s, None, Other(side))
      [] w.pipe[s][side].state = "waiting_for_delimiter" /\ ~delay ->
            Acknowledge(w, s, side, "term_ack_sent")
      [] w.pipe[s][side].state = "waiting_for_delimiter" /\ delay -> delimited
      [] OTHER -> w

(* check_read finds the delimiter: process_delimiter. *)
ReadDelimiter(w, s, side) ==
    LET v == [w EXCEPT !.pipe[s][side].delimiter = FALSE] IN
    CASE w.pipe[s][side].delimiter /\ w.pipe[s][side].state = "active" ->
            Enter(v, s, side, "delimiter_received")
      [] w.pipe[s][side].delimiter /\ w.pipe[s][side].state = "waiting_for_delimiter" ->
            Acknowledge(v, s, side, "term_ack_sent")
      [] OTHER -> w

ProcessPipeTerm(w, s, side) ==
    CASE w.pipe[s][side].state = "active" /\ (side = "session" \/ Delays) ->
            Enter(w, s, side, "waiting_for_delimiter")
      [] w.pipe[s][side].state = "active" -> Acknowledge(w, s, side, "term_ack_sent")
      [] w.pipe[s][side].state = "delimiter_received" -> Acknowledge(w, s, side, "term_ack_sent")
      [] w.pipe[s][side].state = "term_req_sent1" -> Acknowledge(w, s, side, "term_req_sent2")
      [] OTHER -> Assert(w, FALSE)

(* pipe_terminated of the socket or the session at this end. *)
PipeTerminated(w, s, side) ==
    IF side = "socket"
    THEN IF w.obj[Socket].terminating THEN UnregisterTermAck(w, Socket) ELSE w
    ELSE IF w.obj[s].pending THEN OwnProcessTerm([w EXCEPT !.obj[s].pending = FALSE], s)
         ELSE w

(* The sink may go here, so that the end is gone before it. *)
ProcessPipeTermAck(w, s, side) ==
    LET state == w.pipe[s][side].state
        v == [Enter(w, s, side, "gone") EXCEPT !.pipe[s][side].attached = FALSE]
        u == PipeTerminated(v, s, side)
    IN  IF state = "term_req_sent1" THEN Acknowledge(u, s, side, "gone")
        ELSE Assert(u, state \in {"term_ack_sent", "term_req_sent2"})

-----------------------------------------------------------------------------
(* Handlers of the socket and the sessions.                                *)

Pipes(w) == {s \in Sessions : w.pipe[s].socket.attached}

(* zmq_close: the reaper takes the socket over and terminates it. *)
SocketProcessTerm(w) ==
    LET v == FoldSet(LAMBDA s, u : TerminatePipe(u, s, "socket", FALSE), w, Pipes(w))
    IN  OwnProcessTerm([v EXCEPT !.obj[Socket].acks = @ + Cardinality(Pipes(w))], Socket)

(* Mutant of AttachPipe: a pipe that comes late is not told to go. *)
AttachPipeLate(w, s) == [w EXCEPT !.pipe[s].socket.attached = TRUE]

AttachPipe(w, s) ==
    LET v == [w EXCEPT !.pipe[s].socket.attached = TRUE] IN
    IF w.obj[Socket].terminating
    THEN TerminatePipe([v EXCEPT !.obj[Socket].acks = @ + 1], s, "socket", FALSE)
    ELSE v

NewPipe(w, s) == [w EXCEPT !.pipe[s] = [socket |-> [NoEnd EXCEPT !.state = "active"],
                                        session |-> [NoEnd EXCEPT !.state = "active"]]]

HasPipe(w, s) == w.pipe[s].session.state \notin {"none", "gone"}

(* An engine comes; the first one brings the pipe of an accepted session. *)
ProcessAttach(w, s) ==
    LET v == IF HasPipe(w, s) \/ w.obj[s].terminating THEN w
             ELSE SendCounted(NewPipe(w, s), "bind", Socket, s)
    IN  Assert([v EXCEPT !.obj[s].busy = TRUE], ~w.obj[s].busy)

SessionProcessTerm(w, s, linger) ==
    LET v == TerminatePipe([w EXCEPT !.obj[s].pending = TRUE], s, "session", linger)
    IN  Assert(IF ~HasPipe(w, s) THEN OwnProcessTerm(w, s)
               ELSE IF w.obj[s].busy THEN v ELSE ReadDelimiter(v, s, "session"),
               ~w.obj[s].pending)

StartConnecting(w, s) ==
    {LaunchChild(w, s, k, t) : k \in {k \in Connecters : w.obj[k].life = "unborn"}, t \in IoThreads}

-----------------------------------------------------------------------------
(* What each command does (object_t::process_command). *)

Plug(w, o) ==
    IF o \in Connects THEN StartConnecting(w, o)
    ELSE IF o \in Accepteds THEN {w}
    ELSE {[w EXCEPT !.obj[o].busy = TRUE]}

Term(w, o) ==
    IF o \in Sessions THEN {SessionProcessTerm(w, o, linger) : linger \in BOOLEAN}
    ELSE {OwnProcessTerm([w EXCEPT !.obj[o].busy = FALSE], o)}

Process(w, c) ==
    CASE c.type = "plug" -> {ProcessSeqnum(v, c.to) : v \in Plug(w, c.to)}
      [] c.type = "own" -> {ProcessSeqnum(ProcessOwn(w, c.to, c.arg), c.to)}
      [] c.type = "attach" -> {ProcessSeqnum(ProcessAttach(w, c.to), c.to)}
      [] c.type = "bind" -> {ProcessSeqnum(AttachPipe(w, c.arg), c.to)}
      [] c.type = "term_req" -> {ProcessTermReq(w, c.to, c.arg)}
      [] c.type = "term" -> Term(w, c.to)
      [] c.type = "term_ack" -> {UnregisterTermAck(w, c.to)}
      [] c.type = "pipe_term" -> {ProcessPipeTerm(w, c.to, c.side)}
      [] c.type = "pipe_term_ack" -> {ProcessPipeTermAck(w, c.to, c.side)}

(* The destination is where it was when the command was sent. *)
Arrives(w, c) ==
    IF c.side = "own" THEN w.obj[c.to].life = "alive"
    ELSE w.pipe[c.to][c.side].state \notin {"none", "gone"}

ProcessCommand(t) ==
    /\ queue[t] # <<>>
    /\ LET c == Head(queue[t])
           w == [Now EXCEPT !.queue[t] = Tail(@)]
       IN  IF Arrives(w, c) THEN \E v \in Process(w, c) : Becomes(v)
           ELSE Becomes(Assert(w, FALSE))
    /\ UNCHANGED endpoints

-----------------------------------------------------------------------------
(* The application's calls, until it closes the socket.                    *)

Open == ~obj[Socket].terminating

MayAdd ==
    Open /\ Cardinality({o \in Listeners \cup Connects : obj[o].life # "unborn"}) < MaxEndpoints

Bind(l) ==
    /\ MayAdd /\ obj[l].life = "unborn"
    /\ \E t \in IoThreads : Becomes(LaunchChild(Now, Socket, l, t))
    /\ endpoints' = endpoints \cup {l}

Connect(s) ==
    /\ MayAdd /\ obj[s].life = "unborn"
    /\ \E t \in IoThreads : Becomes(LaunchChild(AttachPipe(NewPipe(Now, s), s), Socket, s, t))
    /\ endpoints' = endpoints \cup {s}

(* disconnect or unbind processes all pending commands first. *)
TermEndpoint(o) ==
    /\ Open /\ o \in endpoints /\ queue[App] = <<>>
    /\ Becomes(ProcessTermReq(IF o \in Pipes(Now) THEN TerminatePipe(Now, o, "socket", FALSE) ELSE Now,
                              Socket, o))
    /\ endpoints' = endpoints \ {o}

Close ==
    /\ Open
    /\ Becomes(SocketProcessTerm(Now))
    /\ UNCHANGED endpoints

-----------------------------------------------------------------------------
(* What the network brings to the I/O threads.                             *)

Polling(o) == obj[o].life = "alive" /\ obj[o].busy

(* stream_listener_base_t::create_engine; the command `attach' is counted  *)
(* first and sent last.                                                    *)
Accept(l) ==
    /\ Polling(l)
    /\ \E s \in Accepteds, t \in IoThreads :
          /\ obj[s].life = "unborn"
          /\ Becomes(SendCounted(LaunchChild(Now, l, s, t), "attach", s, None))
    /\ UNCHANGED endpoints

(* stream_connecter_base_t::create_engine *)
Connected(k) ==
    /\ Polling(k)
    /\ Becomes(Terminate(SendCounted([Now EXCEPT !.obj[k].busy = FALSE], "attach", obj[k].owner, None), k))
    /\ UNCHANGED endpoints

(* engine_error: a session that connects does so again, unless the peer    *)
(* broke the protocol; any other goes.                                     *)
EngineError(s) ==
    /\ Polling(s)
    /\ \E protocol \in BOOLEAN :
          LET w == [Now EXCEPT !.obj[s].busy = FALSE]
              ends == IF ~obj[s].pending THEN {Terminate(w, s)}
                      ELSE IF HasPipe(w, s) THEN {TerminatePipe(w, s, "session", FALSE)} ELSE {w}
          IN  \E v \in IF s \in Connects /\ ~protocol THEN StartConnecting(w, s) ELSE ends :
                 Becomes(ReadDelimiter(v, s, "session"))
    /\ UNCHANGED endpoints

(* The delimiter is read: by the engine, by a session that has none, or by *)
(* a call of the application.                                              *)
CheckRead(s, side) ==
    /\ pipe[s][side].delimiter
    /\ pipe[s][side].state \in {"active", "waiting_for_delimiter"}
    /\ Becomes(ReadDelimiter(Now, s, side))
    /\ UNCHANGED endpoints

Next ==
    \/ \E t \in IoThreads \cup {App} : ProcessCommand(t)
    \/ \E l \in Listeners : Bind(l) \/ Accept(l)
    \/ \E s \in Connects : Connect(s)
    \/ \E o \in Objects : TermEndpoint(o)
    \/ Close
    \/ \E k \in Connecters : Connected(k)
    \/ \E s \in Sessions : \/ EngineError(s)
                            \/ \E side \in {"socket", "session"} : CheckRead(s, side)

(* The threads process their commands (the reaper does for a socket that   *)
(* is closed), and sessions read what is there.                            *)
Fairness ==
    /\ \A t \in IoThreads \cup {App} : WF_vars(ProcessCommand(t))
    /\ \A s \in Sessions : WF_vars(CheckRead(s, "session"))

Spec == Init /\ [][Next]_vars /\ Fairness

-----------------------------------------------------------------------------
TypeOK ==
    /\ obj \in [Objects \cup {Socket} ->
                  [life : {"unborn", "alive", "dead"}, thread : IoThreads \cup {App},
                   owner : Objects \cup {Socket, None}, owned : SUBSET Objects, due : Nat,
                   acks : Nat, terminating : BOOLEAN, pending : BOOLEAN, busy : BOOLEAN]]
    /\ endpoints \subseteq Objects
    /\ failed \in BOOLEAN

(* No command reaches an object or an end of a pipe that is not there any  *)
(* more, or not there yet, and no assertion of own_t, of the sessions or   *)
(* of the pipes fails, however the tree grows and shrinks meanwhile.       *)
NoFailure == ~failed

(* When the socket goes, and the context frees its slot, nothing is left   *)
(* that could still send it anything: no child of a child, no pipe, no     *)
(* command in any thread (check_term_acks).                                *)
SocketGoesLast ==
    obj[Socket].life = "dead" =>
        /\ \A o \in Objects : obj[o].life # "alive"
        /\ \A s \in Sessions : pipe[s].socket.state \in {"none", "gone"} /\ ~HasPipe(Now, s)
        /\ \A t \in DOMAIN queue : queue[t] = <<>>

(* A socket that is closed goes, with whatever connections come and break  *)
(* meanwhile: no one waits for an acknowledgement that does not come.      *)
Goes == <>[](Open \/ obj[Socket].life = "dead")
=============================================================================
