------------------------------- MODULE Poller -------------------------------
(***************************************************************************)
(* The thread that does the input and output: a loop that runs the timers  *)
(* that are due, waits for events of descriptors, hands each event to the  *)
(* object that asked for it, and processes the commands of its mailbox,    *)
(* which is one of the descriptors.  A handler may cancel timers and give  *)
(* up descriptors, its own and, by a command, those of others, while       *)
(* events for them are waiting in the array that epoll_wait has filled.    *)
(*                                                                         *)
(* The objects are those of one connection: a session that connects, one   *)
(* connecter after the other, and the engines they make.  All live in this *)
(* thread; Ownership has several threads and the whole tree, Engine what   *)
(* is read and written, Pipe the pipe of which only the end is here.       *)
(***************************************************************************)
EXTENDS Integers, Sequences, FiniteSetsExt, TLC

CONSTANTS MaxTries,        \* bound: connecters of the session
          ConnectTimeouts, \* whether options.connect_timeout is set
          Lingers          \* what the socket may linger: "none", "time", "ever"

Tries == 1..MaxTries

None == 0

VARIABLES
    session,     \* the session and its end of the pipe
    connecter,   \* connecter[k]: the k-th one
    engine,      \* engine[k]: the one it made
    timers,      \* poller_base_t::_timers, but for those that have run
    due,         \* those this run of execute_timers may still come to
    ran,         \* those it has run, which are in _timers until it ends
    entries,     \* the poll entries, the retired ones among them
    mailbox,     \* commands for the objects of this thread
    failed,      \* an assertion has failed or what is gone was used
    place,       \* in the loop: "timers", "wait", "events", "commands" or "over"
    batch,       \* what is left of what epoll_wait has returned
    app          \* "open", "closed" or "stopped"

objectVars == <<session, connecter, engine, timers, due, ran, entries, mailbox, failed>>

loopVars == <<place, batch>>

vars == <<objectVars, loopVars, app>>

Mailbox == <<"mailbox", None>>

(* left and delimited: messages, and behind them a delimiter, are in the   *)
(* session's inbound pipe; asleep: its reader has found it empty and waits *)
(* for activate_read; full is about the outbound one; told is what the     *)
(* socket has sent for its pipe; asked: the session wants to go and what   *)
(* became of its term_req.                                                 *)
NewPipe == [pipe |-> "active", left |-> FALSE, delimited |-> FALSE, asleep |-> FALSE,
            full |-> "no", told |-> "none"]

NewSession == [life |-> "alive", engine |-> None, owned |-> {}, due |-> 1, acks |-> 0,
               terminating |-> FALSE, pending |-> FALSE, lingers |-> FALSE, linger |-> "none",
               asked |-> "no"]

(* polling: the engine's entry is in the poller, unless _io_error. *)
NoConnecter == [life |-> "unborn", handle |-> FALSE, fd |-> FALSE, reconnects |-> FALSE,
                connects |-> FALSE, delayed |-> FALSE, terminating |-> FALSE, due |-> 0]

NoEngine == [life |-> "unborn", polling |-> FALSE, shaking |-> TRUE, shakes |-> FALSE,
             stopped |-> FALSE]

Command(type, k) == [type |-> type, to |-> k]

Init ==
    /\ session = NewSession @@ NewPipe
    /\ connecter = [k \in Tries |-> NoConnecter]
    /\ engine = [k \in Tries |-> NoEngine]
    /\ timers = {} /\ due = {} /\ ran = {}
    /\ entries = {[id |-> 1, sink |-> Mailbox, want |-> {"in"}, retired |-> FALSE]}
    /\ mailbox = <<Command("plug session", None)>>
    /\ failed = FALSE
    /\ place = "timers" /\ batch = {}
    /\ app = "open"

(* A handler maps the state of the objects and of the poller to a next     *)
(* one, or, if it depends on what the network does, to a set of them.      *)
Now == [session |-> session, connecter |-> connecter, engine |-> engine, timers |-> timers,
        due |-> due, ran |-> ran, entries |-> entries, mailbox |-> mailbox, failed |-> failed]

Becomes(w) ==
    /\ session' = w.session /\ connecter' = w.connecter /\ engine' = w.engine
    /\ timers' = w.timers /\ due' = w.due /\ ran' = w.ran /\ entries' = w.entries
    /\ mailbox' = w.mailbox /\ failed' = w.failed

Check(w, holds) == [w EXCEPT !.failed = @ \/ ~holds]

Send(w, type, k) == [w EXCEPT !.mailbox = Append(@, Command(type, k))]

SendCounted(w, type, k) == [Send(w, type, k) EXCEPT !.session.due = @ + 1]

-----------------------------------------------------------------------------
(* poller_base_t and epoll_t.  A timer is its id and the one it is for.    *)

AddTimer(w, t) == Check([w EXCEPT !.timers = @ \cup {t}], t \notin w.timers)

(* One that has run must not be erased before execute_timers does so. *)
CancelTimer(w, t) ==
    Check([w EXCEPT !.timers = @ \ {t}, !.due = @ \ {t}], t \in w.timers /\ t \notin w.ran)

Live(w, sink) == {x \in w.entries : x.sink = sink /\ ~x.retired}

AddFd(w, sink, want) ==
    LET id == CHOOSE i \in 1..Cardinality(w.entries) + 1 : \A x \in w.entries : x.id # i
    IN  [w EXCEPT !.entries =
            @ \cup {[id |-> id, sink |-> sink, want |-> want, retired |-> FALSE]}]

(* Mutant of RmFd: the entry is deleted at once. *)
RmFdAtOnce(w, sink) ==
    Check([w EXCEPT !.entries = @ \ Live(w, sink)], Live(w, sink) # {})

RmFd(w, sink) ==
    Check([w EXCEPT !.entries = (@ \ Live(w, sink))
                                 \cup {[x EXCEPT !.retired = TRUE] : x \in Live(w, sink)}],
          Live(w, sink) # {})

SetWant(w, sink, want) ==
    [w EXCEPT !.entries = (@ \ Live(w, sink))
                           \cup {[x EXCEPT !.want = want] : x \in Live(w, sink)}]

(* get_load *)
Load(w) == Cardinality({x \in w.entries : ~x.retired})

-----------------------------------------------------------------------------
(* own_t, for a connecter and for the session. *)

CheckConnecter(w, k) ==
    LET me == w.connecter[k] IN
    IF ~(me.terminating /\ me.due = 0) THEN w
    ELSE Check(Send([w EXCEPT !.connecter[k].life = "dead"], "term_ack", None),
               ~me.reconnects /\ ~me.connects /\ ~me.handle /\ ~me.fd)

Unplug(w, k) ==
    LET v == IF w.engine[k].shakes THEN CancelTimer(w, <<"handshake", k>>) ELSE w
        u == IF w.engine[k].polling THEN RmFd(v, <<"engine", k>>) ELSE v
    IN  [u EXCEPT !.engine[k] = [NoEngine EXCEPT !.life = "dead"]]

(* The destructor ends the timer and the engine. *)
CheckSession(w) ==
    LET me == w.session
        v == Check([w EXCEPT !.session.life = "dead"], me.owned = {} /\ me.pipe = "none")
        u == IF me.lingers THEN CancelTimer(v, <<"linger", None>>) ELSE v
    IN  IF ~(me.terminating /\ me.due = 0 /\ me.acks = 0) THEN w
        ELSE IF me.engine # None THEN Unplug(u, me.engine) ELSE u

SessionSeqnum(w) == CheckSession([w EXCEPT !.session.due = @ - 1])

(* launch_child *)
Launch(w, delayed) ==
    LET k == CHOOSE i \in Tries : /\ w.connecter[i].life = "unborn"
                                  /\ \A j \in 1..i - 1 : w.connecter[j].life # "unborn"
    IN  SendCounted(Send([w EXCEPT !.connecter[k] = [NoConnecter EXCEPT !.life = "alive", !.due = 1,
                                                               !.delayed = delayed]],
                         "plug", k), "own", k)

MayLaunch(w) == \E k \in Tries : w.connecter[k].life = "unborn"

-----------------------------------------------------------------------------
(* The session's end of the pipe. *)

(* Mutant of TerminatePipe: what waits for its delimiter goes on waiting. *)
TerminatePipeOnce(w, delay) ==
    IF w.session.pipe \in {"active", "received"} THEN [w EXCEPT !.session.pipe = "closing"] ELSE w

TerminatePipe(w, delay) ==
    IF \/ w.session.pipe \in {"active", "received"}
       \/ w.session.pipe = "draining" /\ ~delay
    THEN [w EXCEPT !.session.pipe = "closing"] ELSE w

(* All messages are read and what is behind them: pipe_t::read until it    *)
(* fails.                                                                  *)
ReadAll(w) ==
    IF w.session.asleep \/ w.session.pipe \notin {"active", "draining"} THEN w
    ELSE IF w.session.delimited
    THEN [w EXCEPT !.session.left = FALSE, !.session.delimited = FALSE,
                   !.session.pipe = IF @ = "active" THEN "received" ELSE "closing"]
    ELSE [w EXCEPT !.session.left = FALSE, !.session.asleep = TRUE]

(* pipe_t::check_read *)
CheckRead(w) == IF w.session.left THEN w ELSE ReadAll(w)

ProcessPipeTerm(w) ==
    Check([w EXCEPT !.session.pipe = IF @ = "active" THEN "draining" ELSE "closing"],
          w.session.pipe \in {"active", "received", "closing"})

(* own_t::process_term of the session *)
OwnProcessTerm(w) ==
    LET children == w.session.owned
        v == FoldSet(LAMBDA k, x : Send(x, "term", k), w, children)
    IN  CheckSession(Check([v EXCEPT !.session.owned = {}, !.session.terminating = TRUE,
                                     !.session.acks = @ + Cardinality(children)],
                           ~w.session.terminating))

PipeTerminated(w) ==
    LET v == IF w.session.lingers THEN CancelTimer(w, <<"linger", None>>) ELSE w
        u == [v EXCEPT !.session = NewPipe @@ [@ EXCEPT !.lingers = FALSE, !.pending = FALSE]]
        x == [u EXCEPT !.session.pipe = "none"]
    IN  Check(IF w.session.pending THEN OwnProcessTerm(x) ELSE x, w.session.pipe = "closing")

ProcessTerm(w) ==
    LET linger == w.session.linger
        v == Check([w EXCEPT !.session.pending = TRUE], ~w.session.pending)
        u == IF linger # "time" THEN v
             ELSE [AddTimer(v, <<"linger", None>>) EXCEPT !.session.lingers = TRUE]
        x == TerminatePipe(u, linger # "none")
    IN  IF w.session.pipe = "none" THEN OwnProcessTerm(w)
        ELSE IF w.session.engine = None THEN CheckRead(x) ELSE x

-----------------------------------------------------------------------------
(* stream_engine_t.  After an error the session has another connecter made,*)
(* or goes.                                                                *)

EngineError(w, reason) ==
    LET v == [w EXCEPT !.session.engine = None]
        u == CASE reason = "connection" -> Launch(v, TRUE)
               [] reason = "protocol" /\ v.session.pending -> TerminatePipe(v, FALSE)
               [] OTHER -> [v EXCEPT !.session.asked = IF v.session.terminating THEN @ ELSE "yes"]
    IN  CheckRead(u)

Error(w, k, reason) == Unplug(EngineError(w, reason), k)

Errors(w, k) == {Error(w, k, "protocol")}
                \cup IF MayLaunch(w) THEN {Error(w, k, "connection")} ELSE {}

Greeted(w, k) ==
    LET v == IF w.engine[k].shakes THEN CancelTimer(w, <<"handshake", k>>) ELSE w
    IN  [v EXCEPT !.engine[k].shaking = FALSE, !.engine[k].shakes = FALSE]

(* The pipe takes no more. *)
StopInput(w, k) ==
    [SetWant(w, <<"engine", k>>, {"out"}) EXCEPT
        !.engine[k].stopped = TRUE,
        !.session.full = IF w.session.pipe = "active" THEN "yes" ELSE @]

(* With its input stopped an engine only learns that the connection is     *)
(* lost.                                                                   *)
IoError(w, k) == [RmFd(w, <<"engine", k>>) EXCEPT !.engine[k].polling = FALSE]

EngineIn(w, k) ==
    LET v == Check(w, w.engine[k].life = "alive" /\ w.engine[k].polling) IN
    CASE w.engine[k].stopped -> {IoError(v, k)}
      [] w.engine[k].shaking -> {v, Greeted(v, k)} \cup Errors(v, k)
      [] OTHER -> {v, StopInput(v, k)} \cup Errors(v, k)

(* Some is written, or all there is. *)
EngineOut(w, k) ==
    LET v == Check(w, w.engine[k].life = "alive" /\ w.engine[k].polling) IN
    IF w.engine[k].shaking THEN {v}
    ELSE {v, ReadAll(v)}

Plug(w, k) ==
    LET v == AddFd(AddTimer(w, <<"handshake", k>>), <<"engine", k>>, {"in", "out"})
    IN  EngineIn([v EXCEPT !.engine[k].polling = TRUE, !.engine[k].shakes = TRUE], k)

ProcessAttach(w, k) ==
    LET v == IF w.session.pipe = "none" /\ ~w.session.terminating
             THEN [w EXCEPT !.session = NewPipe @@ @] ELSE w
        u == Check([v EXCEPT !.session.engine = k], w.session.engine = None)
    IN  {SessionSeqnum(x) : x \in Plug(u, k)}

RestartOutput(w, k) == IF w.engine[k].polling THEN EngineOut(w, k) ELSE {w}

(* What was left of the last read fills the pipe again, or goes in.        *)
RestartInput(w, k) ==
    LET v == Check(w, w.engine[k].stopped)
        u == [SetWant(v, <<"engine", k>>, {"in", "out"}) EXCEPT !.engine[k].stopped = FALSE]
    IN  {[v EXCEPT !.session.full = "yes"], Error(v, k, "protocol")}
        \cup IF w.engine[k].polling THEN EngineIn(u, k)
             ELSE IF MayLaunch(v) THEN {Error(v, k, "connection")} ELSE {}

ActivateRead(w) ==
    LET v == [w EXCEPT !.session.asleep = FALSE] IN
    IF w.session.pipe \notin {"active", "draining"} THEN {w}
    ELSE IF w.session.engine = None THEN {CheckRead(v)} ELSE RestartOutput(v, w.session.engine)

ActivateWrite(w) ==
    LET v == [w EXCEPT !.session.full = "no"] IN
    IF w.session.pipe # "active" THEN {w}
    ELSE IF w.session.engine = None THEN {v} ELSE RestartInput(v, w.session.engine)

-----------------------------------------------------------------------------
(* tcp_connecter_t *)

AddReconnectTimer(w, k) ==
    [AddTimer(w, <<"reconnect", k>>) EXCEPT !.connecter[k].reconnects = TRUE,
                                            !.connecter[k].fd = FALSE]

RmHandle(w, k) == [RmFd(w, <<"connecter", k>>) EXCEPT !.connecter[k].handle = FALSE]

CancelConnect(w, k) ==
    IF ~w.connecter[k].connects THEN w
    ELSE [CancelTimer(w, <<"connect", k>>) EXCEPT !.connecter[k].connects = FALSE]

CreateEngine(w, k) ==
    LET v == SendCounted([w EXCEPT !.connecter[k].fd = FALSE, !.engine[k].life = "alive"],
                         "attach", k)
    IN  IF w.connecter[k].terminating THEN v ELSE Send(v, "term_req", k)

ConnecterOut(w, k) ==
    LET v == RmHandle(CancelConnect(Check(w, w.connecter[k].life = "alive"), k), k)
    IN  {CreateEngine(v, k), AddReconnectTimer(v, k)}

StartConnecting(w, k) ==
    LET v == [w EXCEPT !.connecter[k].fd = TRUE, !.connecter[k].handle = TRUE]
        u == AddFd(v, <<"connecter", k>>, {"out"})
        x == IF ~ConnectTimeouts THEN u
             ELSE [AddTimer(u, <<"connect", k>>) EXCEPT !.connecter[k].connects = TRUE]
    IN  ConnecterOut(AddFd(v, <<"connecter", k>>, {}), k)
        \cup {x, AddReconnectTimer(w, k)}

PlugConnecter(w, k) ==
    LET started == IF w.connecter[k].delayed THEN {AddReconnectTimer(w, k)}
                   ELSE StartConnecting(w, k)
    IN  {CheckConnecter([v EXCEPT !.connecter[k].due = @ - 1], k) : v \in started}

(* Mutant of TermConnecter: a connection that is being made is not given up. *)
TermConnecterHandleKept(w, k) ==
    LET v == CancelConnect(w, k)
        u == IF ~v.connecter[k].reconnects THEN v
             ELSE [CancelTimer(v, <<"reconnect", k>>) EXCEPT !.connecter[k].reconnects = FALSE]
    IN  CheckConnecter([u EXCEPT !.connecter[k].terminating = TRUE, !.connecter[k].fd = FALSE,
                                 !.connecter[k].handle = FALSE], k)

TermConnecter(w, k) ==
    LET v == CancelConnect(w, k)
        u == IF ~v.connecter[k].reconnects THEN v
             ELSE [CancelTimer(v, <<"reconnect", k>>) EXCEPT !.connecter[k].reconnects = FALSE]
        x == IF u.connecter[k].handle THEN RmHandle(u, k) ELSE u
    IN  CheckConnecter([x EXCEPT !.connecter[k].terminating = TRUE, !.connecter[k].fd = FALSE], k)

-----------------------------------------------------------------------------
(* timer_event of each object *)
TimerEvent(w, t) ==
    LET k == t[2]
        late == Check([w EXCEPT !.connecter[k].connects = FALSE], w.connecter[k].life = "alive")
    IN  CASE t[1] = "linger" ->
               {TerminatePipe(Check([w EXCEPT !.session.lingers = FALSE],
                                    w.session.life = "alive" /\ w.session.pipe # "none"), FALSE)}
          [] t[1] = "handshake" ->
               {Error(Check([w EXCEPT !.engine[k].shakes = FALSE], w.engine[k].life = "alive"),
                      k, "connection") : x \in {n \in {1} : MayLaunch(w)}}
          [] t[1] = "reconnect" ->
               StartConnecting(Check([w EXCEPT !.connecter[k].reconnects = FALSE],
                                     w.connecter[k].life = "alive"), k)
          [] OTHER -> {AddReconnectTimer(RmHandle(late, k), k)}

(* process_own and process_term_req of the session *)
ProcessOwn(w, k) ==
    IF w.session.terminating
    THEN SessionSeqnum(Send([w EXCEPT !.session.acks = @ + 1], "term", k))
    ELSE SessionSeqnum([w EXCEPT !.session.owned = @ \cup {k}])

ProcessTermReq(w, k) ==
    IF w.session.terminating \/ k \notin w.session.owned THEN w
    ELSE Send([w EXCEPT !.session.owned = @ \ {k}, !.session.acks = @ + 1], "term", k)

ForConnecter == {"plug", "term"}
ForPipe == {"pipe_term", "activate_read", "activate_write", "pipe_term_ack"}

(* object_t::process_command; who it is for must not have been deleted. *)
Process(world, c) ==
    LET k == c.to
        there == CASE c.type \in ForConnecter -> world.connecter[k].life = "alive"
                   [] c.type \in ForPipe -> world.session.pipe # "none"
                   [] c.type = "stop" -> TRUE
                   [] OTHER -> world.session.life = "alive"
        w == Check(world, there)
    IN  CASE c.type = "plug session" -> {SessionSeqnum(Launch(w, FALSE))}
          [] c.type = "plug" -> PlugConnecter(w, k)
          [] c.type = "own" -> {ProcessOwn(w, k)}
          [] c.type = "term_req" -> {ProcessTermReq(w, k)}
          [] c.type = "term" -> {TermConnecter(w, k)}
          [] c.type = "term_ack" -> {CheckSession([w EXCEPT !.session.acks = @ - 1])}
          [] c.type = "attach" -> ProcessAttach(w, k)
          [] c.type = "pipe_term" -> {ProcessPipeTerm(w)}
          [] c.type = "activate_read" -> ActivateRead(w)
          [] c.type = "activate_write" -> ActivateWrite(w)
          [] c.type = "pipe_term_ack" -> {PipeTerminated(w)}
          [] c.type = "term session" -> {ProcessTerm(w)}
          [] OTHER -> {RmFd(w, Mailbox)}

-----------------------------------------------------------------------------
(* epoll_t::loop and poller_base_t::execute_timers. *)

RunTimer(t) ==
    /\ place = "timers" /\ t \in due
    /\ \E w \in TimerEvent([Now EXCEPT !.due = @ \ {t}, !.timers = @ \ {t}, !.ran = @ \cup {t}], t) :
          Becomes(w)
    /\ UNCHANGED <<loopVars, app>>

(* Those not run are not due yet.  Without descriptors the loop goes on    *)
(* only for the timers.                                                    *)
EndTimers ==
    /\ place = "timers"
    /\ ran' = {}
    /\ place' = IF Load(Now) > 0 THEN "wait" ELSE IF timers = {} THEN "over" ELSE "timers"
    /\ due' = IF place' = "timers" THEN timers ELSE {}
    /\ UNCHANGED <<session, connecter, engine, timers, entries, mailbox, failed, batch, app>>

(* An event for any descriptor but the mailbox's, which has one if there   *)
(* are commands.  Without events, epoll_wait returns for a timer; a signal *)
(* that interrupts it, which skips the rest of the loop, is left out.      *)
Wait ==
    /\ place = "wait"
    /\ \E f \in [{x \in entries : ~x.retired} -> SUBSET {"err", "in", "out"}] :
          /\ \A x \in DOMAIN f :
                f[x] \subseteq IF x.sink # Mailbox THEN x.want \cup {"err"}
                              ELSE IF mailbox # <<>> THEN {"in"} ELSE {}
          /\ \A x \in DOMAIN f : x.sink = Mailbox /\ mailbox # <<>> => f[x] = {"in"}
          /\ batch' = {[id |-> x.id, sink |-> x.sink, flags |-> f[x]] : x \in {y \in DOMAIN f : f[y] # {}}}
    /\ batch' # {} \/ timers # {}
    /\ place' = "events"
    /\ UNCHANGED <<objectVars, app>>

InEvent(w, sink) == IF sink[1] = "engine" THEN EngineIn(w, sink[2]) ELSE ConnecterOut(w, sink[2])

OutEvent(w, sink) == IF sink[1] = "engine" THEN EngineOut(w, sink[2]) ELSE ConnecterOut(w, sink[2])

(* pe->fd == retired_fd; the entry is still there. *)
Retired(w, id) == \E x \in w.entries : x.id = id /\ x.retired

(* One of the events of an entry, unless it is retired by now. *)
Given(w, item, flag) ==
    LET v == Check(w, \E x \in w.entries : x.id = item.id) IN
    IF flag \notin item.flags \/ Retired(w, item.id) THEN {v}
    ELSE IF flag = "out" THEN OutEvent(v, item.sink) ELSE InEvent(v, item.sink)

Handle(item) ==
    /\ place = "events" /\ item \in batch
    /\ batch' = batch \ {item}
    /\ IF item.sink = Mailbox
       THEN place' = "commands" /\ UNCHANGED objectVars
       ELSE /\ \E w \in UNION {UNION {Given(v, item, "in") : v \in Given(u, item, "out")} :
                                  u \in Given(Now, item, "err")} : Becomes(w)
            /\ UNCHANGED place
    /\ UNCHANGED app

(* io_thread_t::in_event, until the mailbox is empty *)
NextCommand ==
    /\ place = "commands"
    /\ IF mailbox = <<>> THEN place' = "events" /\ UNCHANGED objectVars
       ELSE /\ \E w \in Process([Now EXCEPT !.mailbox = Tail(@)], Head(mailbox)) : Becomes(w)
            /\ UNCHANGED place
    /\ UNCHANGED <<batch, app>>

EndBatch ==
    /\ place = "events" /\ batch = {}
    /\ entries' = {x \in entries : ~x.retired}
    /\ place' = "timers" /\ due' = timers
    /\ UNCHANGED <<session, connecter, engine, timers, ran, mailbox, failed, batch, app>>

ThreadStep ==
    \/ (\E t \in due : RunTimer(t)) \/ EndTimers \/ Wait \/ (\E item \in batch : Handle(item))
    \/ NextCommand \/ EndBatch

-----------------------------------------------------------------------------
(* The application's thread, and its socket. *)

Posted(commands) ==
    mailbox' = mailbox \o commands

OfPipe(type) == <<Command(type, None)>>

UnlessAsked == IF session.asked = "granted" THEN <<>> ELSE OfPipe("term session")

(* The socket ends its end of the pipe, behind the last messages, and the  *)
(* session: it is closed, or disconnects.                                  *)
Close(linger) ==
    /\ app = "open" /\ session.life = "alive" /\ linger \in Lingers
    /\ app' = "closed"
    /\ IF session.told # "none" \/ session.pipe = "none"
       THEN /\ Posted(UnlessAsked)
            /\ session' = [session EXCEPT !.linger = linger]
       ELSE /\ \E left \in BOOLEAN :
                  session' = [session EXCEPT !.linger = linger, !.told = "term", !.delimited = TRUE,
                                             !.left = left]
            /\ Posted(OfPipe("pipe_term")
                      \o (IF session.asleep THEN OfPipe("activate_read") ELSE <<>>) \o UnlessAsked)
    /\ UNCHANGED <<connecter, engine, timers, due, ran, entries, failed, loopVars>>

(* The socket's process_term_req: the session has asked to go. *)
Grant(linger) ==
    /\ app = "open" /\ session.asked = "yes" /\ linger \in Lingers
    /\ session' = [session EXCEPT !.asked = "granted", !.linger = linger]
    /\ Posted(OfPipe("term session"))
    /\ UNCHANGED <<connecter, engine, timers, due, ran, entries, failed, loopVars, app>>

(* The socket acknowledges the end of the pipe: when it is closed, or it   *)
(* has read what was in it.                                                *)
AckPipe ==
    /\ session.pipe = "closing" /\ session.told # "ack"
    /\ session' = [session EXCEPT !.told = "ack"]
    /\ Posted(OfPipe("pipe_term_ack"))
    /\ UNCHANGED <<connecter, engine, timers, due, ran, entries, failed, loopVars, app>>

MakeRoom ==
    /\ app = "open" /\ session.full = "yes" /\ session.pipe = "active"
    /\ session' = [session EXCEPT !.full = "told"]
    /\ Posted(OfPipe("activate_write"))
    /\ UNCHANGED <<connecter, engine, timers, due, ran, entries, failed, loopVars, app>>

(* The context ends, after the last socket (io_thread_t::stop). *)
Stop ==
    /\ app = "closed" /\ session.life = "dead"
    /\ app' = "stopped"
    /\ Posted(OfPipe("stop"))
    /\ UNCHANGED <<session, connecter, engine, timers, due, ran, entries, failed, loopVars>>

AppStep == (\E linger \in Lingers : Close(linger) \/ Grant(linger)) \/ AckPipe
           \/ MakeRoom \/ Stop

Next == ThreadStep \/ AppStep

(* Weak fairness, for the thread and its timer with what enables the step  *)
(* said in words of the state: the thread goes on unless it waits for the  *)
(* network alone, the linger timer is due some day, and so is the answer   *)
(* of a socket that is closed.                                             *)
Busy == place \in {"timers", "events", "commands"}
        \/ (place = "wait" /\ (mailbox # <<>> \/ timers # {}))

Lingering == <<"linger", None>> \in timers

Fairness ==
    /\ []<>~Busy \/ []<><<ThreadStep>>_vars
    /\ []<>~Lingering \/ []<><<RunTimer(<<"linger", None>>)>>_vars
    /\ WF_vars(app = "closed" /\ AckPipe)
    /\ WF_vars(Stop)

Spec == Init /\ [][Next]_vars /\ Fairness

-----------------------------------------------------------------------------
TimerNames == {<<"linger", None>>}
              \cup ({"handshake", "reconnect", "connect"} \X Tries)

Sinks == {Mailbox} \cup ({"engine", "connecter"} \X Tries)

TypeOK ==
    /\ timers \subseteq TimerNames /\ due \subseteq timers /\ ran \subseteq TimerNames
    /\ \A x \in entries : x.sink \in Sinks
    /\ place \in {"timers", "wait", "events", "commands", "over"}
    /\ app \in {"open", "closed", "stopped"}
    /\ session.owned \subseteq Tries /\ session.due \in Nat /\ session.acks \in Nat
    /\ session.pipe \in {"none", "active", "received", "draining", "closing"}

(* No assertion fails, and no event, timer or command comes to an object   *)
(* or to an entry that is gone (epoll_t::loop, cancel_timer).              *)
NoFailure == ~failed

(* What the objects remember of their timers and descriptors is what the   *)
(* poller has (_has_linger_timer, _reconnect_timer_started, _handle, ...). *)
Registered ==
    /\ (<<"linger", None>> \in timers) = session.lingers
    /\ \A k \in Tries :
          /\ (<<"handshake", k>> \in timers) = engine[k].shakes
          /\ (<<"reconnect", k>> \in timers) = connecter[k].reconnects
          /\ (<<"connect", k>> \in timers) = connecter[k].connects
          /\ (Live(Now, <<"engine", k>>) # {}) = engine[k].polling
          /\ (Live(Now, <<"connecter", k>>) # {}) = connecter[k].handle

Sent(type, k) == \E i \in 1..Len(mailbox) : mailbox[i] = Command(type, k)

(* A session without an engine that has neither ended nor asked to end has *)
(* exactly one connecter that will do something, or an engine on its way   *)
(* (session_base_t::reconnect, tcp_connecter_t).                           *)
KeepsTrying ==
    (/\ session.life = "alive" /\ session.engine = None /\ ~session.terminating
     /\ session.asked = "no" /\ session.pipe # "closing" /\ ~Sent("plug session", None)) =>
    Cardinality({k \in Tries : \/ Sent("attach", k)
                               \/ /\ connecter[k].life = "alive" /\ ~connecter[k].terminating
                                  /\ \/ Sent("plug", k)
                                     \/ connecter[k].reconnects \/ connecter[k].handle}) = 1

(* A session leaves nothing behind (own_t, ~session_base_t). *)
NoLeak ==
    session.life = "dead" =>
        /\ timers = {} /\ \A x \in entries : x.sink # Mailbox => x.retired
        /\ \A k \in Tries : connecter[k].life # "alive" /\ engine[k].life # "alive"

(* A socket that is closed and does not linger for ever lets the context   *)
(* end (session_base_t::process_term, timer_event).                        *)
Ends == []<>(app = "open" \/ session.linger = "ever" \/ place = "over")

(* "In case there's no engine and there's only delimiter in the pipe it    *)
(* wouldn't be ever read. Thus we check for it explicitly."                *)
(* (session_base.cpp)                                                      *)
DelimiterRead ==
    []<>~(session.pending /\ session.delimited /\ ~session.left /\ mailbox = <<>>
          /\ (session.engine # None => ~engine[session.engine].polling))
=============================================================================
