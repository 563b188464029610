-------------------------------- MODULE Pipe --------------------------------
(***************************************************************************)
(* pipe_t: the two ends of a connection between a socket and its session,  *)
(* each in a thread of its own.  Each end reads from one ypipe and writes  *)
(* to another, and the ends send each other commands: wake-ups, counts of  *)
(* messages read for the high water mark, the hiccup that replaces a ypipe *)
(* after a lost connection, and the handshake by which both ends and both  *)
(* ypipes are deallocated, once each, after the last frame is read.        *)
(*                                                                         *)
(* A method of pipe_t is an operator that maps the state of the pair, p,   *)
(* to the next one, so that methods can call each other as in the code.    *)
(***************************************************************************)
EXTENDS Integers, Sequences, FiniteSets, SequencesExt

CONSTANTS Kinds,        \* "sub", "push" and "other" sockets
          Marks,        \* high water marks, 0 for none
          Careful,      \* how setSendHighWaterMark is called, see SetMark
          Unbinds,      \* the kinds of sockets of which unbind may be called
          MaxMsgs,      \* MaxMsgs[mark][e]: bound, messages an end begins
          MaxLosses     \* bound: lost connections

Ends == {"socket", "session"}

Other(e) == IF e = "socket" THEN "session" ELSE "socket"

VARIABLES
    kind,       \* the socket's type, as far as pipes are concerned
    active,     \* session_base_t::_active: the session has connected itself
    p,          \* the pair: ends, ypipes, commands, failed assertions
    parts,      \* parts[e]: e has begun to write a message
    begun,      \* begun[e]: messages begun
    closed,     \* the socket disconnects or is closed
    engine,     \* the session's connection: "up", "down" or "none"
    halfRead,   \* session_base_t::_incomplete_in
    pending,    \* session_base_t::_pending
    losses      \* connections lost

vars == <<kind, active, p, parts, begun, closed, engine, halfRead, pending, losses>>

(* Mutant of Linger: every socket waits for its messages to be sent. *)
LingerAlways == -1

(* Only for a subscriber the socket says not to linger (xsub_t::xsub_t). *)
Linger == IF kind = "sub" THEN 0 ELSE -1

(* compute_lwm *)
LowMark(hwm) == (hwm + 1) \div 2

NewPipe == [draft |-> <<>>, queue |-> <<>>, asleep |-> FALSE, freed |-> FALSE]

(* pipepair: ypipe 1 leads to the socket, 2 to the session; the others are *)
(* those a hiccup makes.  A socket that only writes does not wait for a    *)
(* delimiter (set_nodelay).                                                *)
NewEnd(e, mark) ==
    [state |-> "active", delay |-> ~(e = "socket" /\ kind = "push"),
     inActive |-> TRUE, outActive |-> TRUE,
     in |-> IF e = "socket" THEN 1 ELSE 2, out |-> IF e = "socket" THEN 2 ELSE 1,
     hwm |-> mark, lwm |-> LowMark(mark), read |-> 0, written |-> 0, peersRead |-> 0]

Init ==
    /\ kind \in Kinds
    /\ active \in BOOLEAN
    /\ \E mark \in Marks :
          p = [ends |-> [e \in Ends |-> NewEnd(e, mark)],
               pipes |-> [i \in 1..2 + MaxLosses |-> NewPipe],
               cmds |-> [e \in Ends |-> <<>>],
               failed |-> FALSE]
    /\ parts = [e \in Ends |-> FALSE]
    /\ begun = [e \in Ends |-> 0]
    /\ closed = FALSE
    /\ engine = "up"
    /\ halfRead = FALSE /\ pending = FALSE
    /\ losses = 0

-----------------------------------------------------------------------------
(* The ypipes: what was drafted, what was flushed, whether the reader was  *)
(* told that there is nothing (see Ypipe).                                 *)

Fail(q, holds) == [q EXCEPT !.failed = @ \/ ~holds]

Send(q, e, type, arg) == [q EXCEPT !.cmds[e] = Append(@, [type |-> type, arg |-> arg])]

(* Length of the part of a draft that is made of whole messages. *)
Whole(draft) == LET last == {i \in DOMAIN draft : draft[i] # "more"}
                IN  IF last = {} THEN 0 ELSE CHOOSE i \in last : \A j \in last : j <= i

Draft(q, e, frame) == [q EXCEPT !.pipes[q.ends[e].out].draft = Append(@, frame)]

(* rollback: the frames of an unfinished message are taken back. *)
Rollback(q, e) ==
    LET out == q.ends[e].out
    IN  IF out = 0 THEN q ELSE [q EXCEPT !.pipes[out].draft = SubSeq(@, 1, Whole(@))]

(* flush: whole messages become readable; a sleeping reader is told. *)
Flush(q, e) ==
    LET out == q.ends[e].out
        y == q.pipes[out]
        n == Whole(y.draft)
        flushed == [q EXCEPT !.pipes[out] =
                       [y EXCEPT !.queue = @ \o SubSeq(y.draft, 1, n),
                                 !.draft = SubSeq(@, n + 1, Len(@)),
                                 !.asleep = FALSE]]
    IN  IF q.ends[e].state = "term_ack_sent" \/ out = 0 \/ n = 0 THEN q
        ELSE IF y.asleep THEN Send(flushed, Other(e), "activate_read", 0)
        ELSE flushed

-----------------------------------------------------------------------------
(* Reading. *)

(* Mutant of Acked: keeps the pointer to the outbound ypipe. *)
AckedKeepingPipe(q, e) ==
    [Send(q, Other(e), "pipe_term_ack", 0) EXCEPT !.ends[e].state = "term_ack_sent"]

(* The peer may deallocate the ypipe that leads to it from now on. *)
Acked(q, e) ==
    [Send(q, Other(e), "pipe_term_ack", 0) EXCEPT !.ends[e].out = 0, !.ends[e].state = "term_ack_sent"]

ProcessDelimiter(q, e) ==
    IF q.ends[e].state = "active" THEN [q EXCEPT !.ends[e].state = "delimiter_received"]
    ELSE Acked(q, e)

MayRead(q, e) == q.ends[e].inActive /\ q.ends[e].state \in {"active", "waiting_for_delimiter"}

Inbound(q, e) == q.pipes[q.ends[e].in].queue

(* Whether read or check_read find a frame of a message. *)
Readable(q, e) == MayRead(q, e) /\ Inbound(q, e) # <<>> /\ Head(Inbound(q, e)) # "delimiter"

(* What both do when they do not: fall asleep or take the delimiter. *)
ReadNothing(q, e) ==
    LET in == q.ends[e].in
    IN  IF ~MayRead(q, e) THEN q
        ELSE IF Inbound(q, e) = <<>>
        THEN [q EXCEPT !.ends[e].inActive = FALSE, !.pipes[in].asleep = TRUE]
        ELSE ProcessDelimiter([q EXCEPT !.pipes[in].queue = Tail(@)], e)

CheckRead(q, e) == IF Readable(q, e) THEN q ELSE ReadNothing(q, e)

(* Mutant of Acknowledge: acknowledges when the mark is passed by frames   *)
(* of the next round only.                                                 *)
AcknowledgeLate(q, e) ==
    LET lwm == q.ends[e].lwm + 2 IN
    IF lwm > 2 /\ q.ends[e].read % lwm = 0
    THEN Send(q, Other(e), "activate_write", q.ends[e].read) ELSE q

(* Every _lwm messages the writer is told how many have been read. *)
Acknowledge(q, e) ==
    LET lwm == q.ends[e].lwm IN
    IF lwm > 0 /\ q.ends[e].read % lwm = 0
    THEN Send(q, Other(e), "activate_write", q.ends[e].read) ELSE q

ReadFrame(q, e) ==
    LET last == IF Head(Inbound(q, e)) = "end" THEN 1 ELSE 0
    IN  Acknowledge([q EXCEPT !.pipes[q.ends[e].in].queue = Tail(@), !.ends[e].read = @ + last], e)

Read(q, e) == IF Readable(q, e) THEN ReadFrame(q, e) ELSE ReadNothing(q, e)

-----------------------------------------------------------------------------
(* Writing. *)

(* Mutant of Full: off by one. *)
FullPast(q, e) == LET x == q.ends[e] IN x.hwm > 0 /\ x.written - x.peersRead > x.hwm

Full(q, e) == LET x == q.ends[e] IN x.hwm > 0 /\ x.written - x.peersRead >= x.hwm

Writable(q, e) == q.ends[e].outActive /\ q.ends[e].state = "active" /\ ~Full(q, e)

(* write: refused by a full pipe, which then waits for activate_write. *)
WriteFrame(q, e, frame) ==
    IF Writable(q, e)
    THEN [Draft(q, e, frame) EXCEPT !.ends[e].written = @ + IF frame = "end" THEN 1 ELSE 0]
    ELSE [q EXCEPT !.ends[e].outActive = @ /\ q.ends[e].state # "active"]

-----------------------------------------------------------------------------
(* Termination. *)

(* The outbound flow stops with a delimiter, whatever the marks say. *)
Delimit(q, e) ==
    LET stopped == [q EXCEPT !.ends[e].outActive = FALSE]
    IN  IF q.ends[e].out = 0 THEN stopped
        ELSE Flush(Draft(Rollback(stopped, e), e, "delimiter"), e)

(* terminate(delay), called by the owner of e. *)
Terminate(q, e, delay) ==
    LET q1 == [q EXCEPT !.ends[e].delay = delay]
        state == q.ends[e].state
    IN  CASE state \in {"term_req_sent1", "term_req_sent2", "term_ack_sent"} -> q1
          [] state \in {"active", "delimiter_received"} ->
                Delimit([Send(q1, Other(e), "pipe_term", 0) EXCEPT !.ends[e].state = "term_req_sent1"], e)
          [] state = "waiting_for_delimiter" ->
                Delimit(IF delay THEN q1 ELSE Acked(Rollback(q1, e), e), e)

(* Mutant of ProcessPipeTerm: acknowledges with messages still to read. *)
ProcessPipeTermAtOnce(q, e) ==
    IF q.ends[e].state \in {"active", "delimiter_received"} THEN Acked(q, e)
    ELSE [Send(q, Other(e), "pipe_term_ack", 0) EXCEPT !.ends[e].out = 0, !.ends[e].state = "term_req_sent2"]

ProcessPipeTerm(q, e) ==
    LET state == q.ends[e].state
    IN  CASE state = "active" ->
                IF q.ends[e].delay THEN [q EXCEPT !.ends[e].state = "waiting_for_delimiter"] ELSE Acked(q, e)
          [] state = "delimiter_received" -> Acked(q, e)
          [] state = "term_req_sent1" ->
                [Send(q, Other(e), "pipe_term_ack", 0) EXCEPT !.ends[e].out = 0,
                                                              !.ends[e].state = "term_req_sent2"]
          [] OTHER -> Fail(q, FALSE)

(* The end deallocates its inbound ypipe and itself. *)
ProcessPipeTermAck(q, e) ==
    LET state == q.ends[e].state
        acked == IF state = "term_req_sent1" THEN Send(q, Other(e), "pipe_term_ack", 0)
                 ELSE Fail(q, state \in {"term_ack_sent", "term_req_sent2"})
    IN  [acked EXCEPT !.ends[e].state = "gone", !.ends[e].out = 0,
                      !.pipes[q.ends[e].in].freed = TRUE]

-----------------------------------------------------------------------------
(* Hiccup: the session's end takes a new inbound ypipe and leaves the old  *)
(* one to the socket's end, which deletes it with what was not read.       *)

Hiccup(q, i) ==
    IF q.ends["session"].state # "active" THEN q
    ELSE Send([q EXCEPT !.ends["session"].in = i, !.ends["session"].inActive = TRUE],
              "socket", "hiccup", i)

(* Mutant of ProcessHiccup: the messages are counted anew. *)
ProcessHiccupAnew(q, i) ==
    [q EXCEPT !.pipes[q.ends["socket"].out].freed = TRUE,
              !.ends["socket"].out = i, !.ends["socket"].outActive = TRUE,
              !.ends["socket"].written = 0]

ProcessHiccup(q, i) ==
    LET out == q.ends["socket"].out
        y == q.pipes[out]
        unread == y.queue \o SubSeq(y.draft, 1, Whole(y.draft))
        ends == {j \in DOMAIN unread : unread[j] # "more"}
    IN  IF out = 0 THEN Fail(q, FALSE)
        ELSE [q EXCEPT !.pipes[out].freed = TRUE,
                       !.ends["socket"].out = i, !.ends["socket"].outActive = TRUE,
                       !.ends["socket"].written = @ - Cardinality(ends)]

-----------------------------------------------------------------------------
(* The application's thread: the socket. *)

Alive(e) == p.ends[e].state # "gone"

(* One frame more; a writer in the middle of a message that is refused     *)
(* takes its frames back (lb_t::sendpipe, the session's engine waits).     *)
Write(e) ==
    /\ Alive(e)
    /\ e = "session" => engine = "up" /\ kind # "push"
    /\ parts[e] \/ (begun[e] < MaxMsgs[p.ends["socket"].hwm][e])
    /\ \E more \in BOOLEAN :
          LET frame == IF more THEN "more" ELSE "end"
              q == WriteFrame(p, e, frame)
          IN  IF Writable(p, e)
              THEN /\ more => ~parts[e] /\ ~(e = "socket" /\ kind = "sub")
                   /\ p' = IF more THEN q ELSE Flush(q, e)
                   /\ parts' = [parts EXCEPT ![e] = more]
                   /\ begun' = IF parts[e] THEN begun ELSE [begun EXCEPT ![e] = @ + 1]
              ELSE /\ more = FALSE
                   /\ p' = IF parts[e] /\ e = "socket" THEN Rollback(q, e) ELSE q
                   /\ parts' = [parts EXCEPT ![e] = @ /\ e # "socket"]
                   /\ UNCHANGED begun
    /\ UNCHANGED <<kind, active, closed, engine, halfRead, pending, losses>>

Receive ==
    /\ Alive("socket") /\ MayRead(p, "socket") /\ kind # "push"
    /\ p' = Read(p, "socket")
    /\ UNCHANGED <<kind, active, parts, begun, closed, engine, halfRead, pending, losses>>

(* disconnect or close: the pipe first, then the session is told. *)
Close ==
    /\ ~closed
    /\ closed' = TRUE
    /\ p' = LET q == IF Alive("socket") THEN Terminate(p, "socket", FALSE) ELSE p
            IN  IF engine = "none" THEN q ELSE Send(q, "session", "term", 0)
    /\ UNCHANGED <<kind, active, parts, begun, engine, halfRead, pending, losses>>

(* unbind: the listener ends its sessions; the pipe is not told. *)
Unbind ==
    /\ kind \in Unbinds /\ ~active
    /\ ~closed /\ Alive("session") /\ engine = "up"
    /\ closed' = TRUE
    /\ p' = Send(p, "session", "term", 0)
    /\ UNCHANGED <<kind, active, parts, begun, engine, halfRead, pending, losses>>

(* setSendHighWaterMark: update_pipe_options.  A careful program raises    *)
(* the mark before it uses the pipe, and not while the pipe is ending.     *)
SetMark(mark) ==
    /\ Alive("socket")
    /\ LET x == p.ends["socket"] IN
          /\ mark # x.hwm
          /\ Careful => mark > x.hwm /\ x.state = "active" /\ \A e \in Ends : begun[e] = 0
    /\ p' = Send([p EXCEPT !.ends["socket"].hwm = mark], "session", "pipe_hwm", mark)
    /\ UNCHANGED <<kind, active, parts, begun, closed, engine, halfRead, pending, losses>>

-----------------------------------------------------------------------------
(* The I/O thread: the session and its engine. *)

Pull ==
    /\ engine = "up" /\ Alive("session") /\ MayRead(p, "session")
    /\ p' = Read(p, "session")
    /\ halfRead' = IF Readable(p, "session") THEN Head(Inbound(p, "session")) = "more" ELSE halfRead
    /\ UNCHANGED <<kind, active, parts, begun, closed, engine, pending, losses>>

(* clean_pipes: no half message stays in the pipes; the rest of one that   *)
(* was half read is there, an assertion says.                              *)
CleanPipes(q) ==
    LET q1 == Flush(Rollback(q, "session"), "session")
    IN  IF halfRead THEN Read(Fail(q1, Readable(q1, "session")), "session") ELSE q1

(* engine_error: connections the session made are made again, and a        *)
(* subscriber's pipe hiccups; a session of an accepted connection ends.    *)
Lose ==
    /\ active /\ engine = "up" /\ losses < MaxLosses
    /\ losses' = losses + 1
    /\ engine' = "down"
    /\ p' = IF ~Alive("session") THEN p
            ELSE LET q == CleanPipes(p)
                 IN  CheckRead(IF kind = "sub" THEN Hiccup(q, 2 + losses') ELSE q, "session")
    /\ halfRead' = FALSE
    /\ parts' = [parts EXCEPT !["session"] = FALSE]
    /\ UNCHANGED <<kind, active, begun, closed, pending>>

Reconnect ==
    /\ engine = "down"
    /\ engine' = "up"
    /\ UNCHANGED <<kind, active, p, parts, begun, closed, halfRead, pending, losses>>

(* An accepted connection is lost: the session asks to be terminated, and  *)
(* its owner, the listener or the socket, sends it "term".                 *)
LoseAccepted ==
    /\ ~active /\ engine = "up" /\ losses < MaxLosses
    /\ losses' = losses + 1
    /\ engine' = "none"
    /\ p' = IF ~Alive("session") THEN p
            ELSE LET q == CleanPipes(p)
                     q1 == IF pending THEN Terminate(q, "session", FALSE)
                           ELSE IF closed THEN q ELSE Send(q, "session", "term", 0)
                 IN  CheckRead(q1, "session")
    /\ halfRead' = FALSE
    /\ parts' = [parts EXCEPT !["session"] = FALSE]
    /\ UNCHANGED <<kind, active, begun, closed, pending>>

-----------------------------------------------------------------------------
(* Commands. *)

(* session_base_t::process_term *)
ProcessTerm(q) ==
    LET q1 == Terminate(q, "session", Linger # 0)
    IN  IF engine = "up" THEN q1 ELSE CheckRead(q1, "session")

(* A pipe that becomes readable while the session has no engine is looked  *)
(* at for its delimiter (session_base_t::read_activated).                  *)
ActivateRead(q, e) ==
    LET q1 == [q EXCEPT !.ends[e].inActive = TRUE]
    IN  IF q.ends[e].inActive \/ q.ends[e].state \notin {"active", "waiting_for_delimiter"} THEN q
        ELSE IF e = "session" /\ engine # "up" THEN CheckRead(q1, e) ELSE q1

ActivateWrite(q, e, n) ==
    [q EXCEPT !.ends[e].peersRead = n,
              !.ends[e].outActive = @ \/ q.ends[e].state = "active"]

Process(e) ==
    /\ p.cmds[e] # <<>>
    /\ LET c == Head(p.cmds[e])
           q == [p EXCEPT !.cmds[e] = Tail(@)]
       IN  /\ p' = IF ~Alive(e) THEN Fail(q, c.type = "term")
                   ELSE CASE c.type = "term" -> ProcessTerm(q)
                          [] c.type = "activate_read" -> ActivateRead(q, e)
                          [] c.type = "activate_write" -> ActivateWrite(q, e, c.arg)
                          [] c.type = "hiccup" -> ProcessHiccup(q, c.arg)
                          [] c.type = "pipe_hwm" -> [q EXCEPT !.ends[e].lwm = LowMark(c.arg)]
                          [] c.type = "pipe_term" -> ProcessPipeTerm(q, e)
                          [] c.type = "pipe_term_ack" -> ProcessPipeTermAck(q, e)
           /\ pending' = (pending \/ (c.type = "term" /\ Alive(e)))
    /\ UNCHANGED <<kind, active, parts, begun, closed, engine, halfRead, losses>>

Next == \/ \E e \in Ends : Write(e) \/ Process(e)
        \/ Receive \/ Close \/ Unbind \/ \E mark \in Marks : SetMark(mark)
        \/ Pull \/ Lose \/ Reconnect \/ LoseAccepted

(* Both threads go on: the application's calls process commands and read,  *)
(* the I/O thread processes commands, reads while it is connected and      *)
(* connects again.                                                         *)
Fairness == /\ WF_vars(Process("socket") \/ Receive)
            /\ WF_vars(Process("session") \/ Pull \/ Reconnect)

Spec == Init /\ [][Next]_vars /\ Fairness

-----------------------------------------------------------------------------
States == {"active", "delimiter_received", "waiting_for_delimiter", "term_ack_sent",
           "term_req_sent1", "term_req_sent2", "gone"}

TypeOK ==
    /\ \A e \in Ends :
          LET x == p.ends[e] IN
          /\ x.state \in States
          /\ x.in \in 1..2 + MaxLosses /\ x.out \in 0..2 + MaxLosses
          /\ x.read \in Nat /\ x.hwm \in Nat /\ x.lwm \in Nat
          /\ x.state = "active" => x.peersRead \in 0..x.written
    /\ engine \in {"up", "down", "none"}
    /\ losses \in 0..MaxLosses

(* No assertion of pipe_t or session_base_t fails, and no command reaches  *)
(* an end that is deallocated.                                             *)
NoFailure == ~p.failed

(* No end uses a ypipe that is deallocated, and none is left behind: when  *)
(* both ends are gone, every ypipe they had is.                            *)
NoDangling ==
    /\ \A e \in Ends : Alive(e) =>
          /\ ~p.pipes[p.ends[e].in].freed
          /\ p.ends[e].out # 0 => ~p.pipes[p.ends[e].out].freed
    /\ (\A e \in Ends : ~Alive(e)) =>
          /\ p.pipes[1].freed /\ p.pipes[2].freed
          /\ p.pipes[p.ends["session"].in].freed

(* How many messages end in a sequence of frames. *)
Ended(s) == Cardinality({i \in DOMAIN s : s[i] = "end"})

(* The high water mark bounds the messages between the ends, also with     *)
(* acknowledgements late and after a hiccup.  The type invariant, which    *)
(* bounds what counts them, goes with it.                                  *)
Bounded ==
    /\ TypeOK
    /\ \A e \in Ends :
          LET x == p.ends[e]
              y == p.pipes[x.out]
          IN  x.hwm > 0 /\ x.out # 0 =>
                 Ended(y.queue \o y.draft) <= x.hwm

(* Infinite linger: whatever whole message the socket has written when it  *)
(* is closed was read by the session when its end goes, and what the       *)
(* session had written when its connection was lost was read by the        *)
(* application.                                                            *)
Lingers ==
    /\ kind # "sub" /\ losses = 0 /\ ~Alive("session") =>
          p.ends["session"].read = p.ends["socket"].written
    /\ kind = "other" /\ ~closed /\ ~Alive("socket") =>
          p.ends["socket"].read = p.ends["session"].written

(* A writer that a full pipe refused may write again.                      *)
Refills ==
    \A e \in Ends :
        p.ends[e].state = "active" /\ ~p.ends[e].outActive
            ~> p.ends[e].state # "active" \/ p.ends[e].outActive

(* An accepted connection is lost just when the socket is closed: the      *)
(* session's end, already waiting for the delimiter, is told to linger,    *)
(* and no engine will ever read the messages in front of it.               *)
Stranded ==
    /\ p.ends["session"].state = "waiting_for_delimiter"
    /\ engine = "none" /\ pending
    /\ Readable(p, "session")

(* Except for that race, closing ends: both ends are deallocated, whoever  *)
(* began and whatever hiccup, wake-up or message crosses the handshake.    *)
Terminates == closed ~> (\A e \in Ends : ~Alive(e)) \/ Stranded
=============================================================================
