------------------------------- MODULE Engine -------------------------------
(***************************************************************************)
(* The engines at the two ends of a TCP connection (stream_engine_t), each *)
(* between a socket's poller and the pipe of its session: the greeting and *)
(* the READY commands of ZMTP 3, messages out of the pipe into the socket  *)
(* and out of the socket into the pipe.  Both directions stop when there   *)
(* is nothing to do (nothing to send, a pipe that is full) and have to be  *)
(* started again by the right command.  One end was bound and gets a new   *)
(* session with every connection; the other keeps session and pipe and     *)
(* connects again.  Messages go to the one that connects, and before that  *)
(* a subscription goes the other way.                                      *)
(*                                                                         *)
(* A handler of an engine is a function of the end it runs at: from its    *)
(* record `s' before to its record after.                                  *)
(***************************************************************************)
EXTENDS Naturals, Sequences, SequencesExt

CONSTANTS Hwm,        \* high water mark of the pipe that messages arrive in
          Window,     \* items a direction of the connection holds
          Batch,      \* options_t::out_batch_size, in items
          MaxMsgs,    \* bound: messages written
          MaxLosses   \* bound: connections lost

VARIABLES conn,       \* the connection: "none", "up" or "lost"
          side,       \* the two ends
          sent,       \* number of messages written
          got,        \* the messages the application has read
          losses

vars == <<conn, side, sent, got, losses>>

Ends == {"bound", "connecting"}
Peer(e) == IF e = "bound" THEN "connecting" ELSE "bound"

(* What goes over the connection: three parts of a greeting (signature,    *)
(* major version, the rest), the command READY, and messages; subscription *)
(* is message 0.                                                           *)
Items == ({"greeting"} \X (1..3)) \cup {<<"ready", 0>>} \cup ({"message"} \X (0..MaxMsgs))

Greeting(n) == <<"greeting", n>>
Ready == <<"ready", 0>>
Message(n) == <<"message", n>>

(* The state of an engine before it is plugged. *)
NoEngine == [alive |-> FALSE, attached |-> FALSE,
             handshaking |-> TRUE, greetings |-> 0,            \* read so far
             outbuf |-> <<>>, inbuf |-> <<>>, held |-> <<>>,   \* _outpos, _inpos, decoder's message
             pollin |-> FALSE, pollout |-> FALSE,
             outputStopped |-> FALSE, inputStopped |-> FALSE, ioError |-> FALSE,
             readySent |-> FALSE, readyReceived |-> FALSE,     \* null_mechanism_t
             next |-> "handshake", process |-> "handshake",    \* _next_msg, _process_msg
             rc |-> "ok",                                      \* of the last call
             tx |-> <<>>]                                      \* written, not taken over yet

(* The session's end of a new pipe: `out' is to be sent; what has come is  *)
(* `unflushed' and then `in'.  `unread' counts what is written and, as far *)
(* as the session knows, not read.                                         *)
NewPipe == [out |-> <<>>, reader |-> "active", unflushed |-> <<>>, in |-> <<>>, unread |-> 0,
            writer |-> TRUE, acks |-> 0, owes |-> FALSE]

NoFailure == [failed |-> FALSE, spilled |-> FALSE, rx |-> <<>>]

Init ==
    /\ conn = "none" /\ sent = 0 /\ got = <<>> /\ losses = 0
    /\ side = [e \in Ends |-> NoEngine @@ [NewPipe EXCEPT !.owes = (e = "connecting")] @@ NoFailure]

-----------------------------------------------------------------------------
(* The session and its pipe.                                               *)

(* session_base_t::pull_msg into the encoder.  The reader of an empty pipe *)
(* is passive until the command activate_read.                             *)
Pull(s) ==
    IF s.reader # "active" THEN [s EXCEPT !.rc = "again"]
    ELSE IF s.out = <<>> THEN [s EXCEPT !.rc = "again", !.reader = "passive"]
    ELSE [s EXCEPT !.rc = "ok", !.outbuf = Append(@, Head(s.out)), !.out = Tail(@)]

(* session_base_t::push_msg of the decoder's message: pipe_t::write. *)
Push(s) ==
    IF s.writer /\ s.unread < Hwm
    THEN [s EXCEPT !.rc = "ok", !.unflushed = @ \o s.held, !.unread = @ + 1, !.held = <<>>]
    ELSE [s EXCEPT !.rc = "again", !.writer = FALSE]

Flush(s) == [s EXCEPT !.in = @ \o s.unflushed, !.unflushed = <<>>]

(* stream_engine_t::error: flush, session_base_t::engine_error, delete.    *)
(* The end that connects calls reconnect, which gives it a new pipe to     *)
(* read from (pipe_t::hiccup) and has it subscribe again; the session of   *)
(* the other end goes with its pipe.                                       *)
Error(e, s) ==
    LET f == Flush(s)
        p == IF e = "bound" THEN NewPipe
             ELSE [f EXCEPT !.out = <<>>, !.reader = "active", !.owes = TRUE]
    IN  [failed |-> s.failed \/ s.rc = "protocol",
         spilled |-> s.spilled \/ s.held # <<>> \/ s.inbuf # <<>>,
         attached |-> TRUE] @@ NoEngine @@ p @@ s

-----------------------------------------------------------------------------
(* Output.                                                                 *)

(* mechanism_ready; the metadata is compiled once. *)
MechanismReady(s) == [s EXCEPT !.next = "pull", !.process = "push", !.failed = @ \/ s.next = "pull"]

(* next_handshake_command or pull_and_encode. *)
NextMsg(s) ==
    IF s.next = "pull" THEN Pull(s)
    ELSE IF s.readySent /\ s.readyReceived THEN Pull(MechanismReady(s))
    ELSE IF s.readySent THEN [s EXCEPT !.rc = "again"]
    ELSE [s EXCEPT !.rc = "ok", !.outbuf = Append(@, Ready), !.readySent = TRUE]

(* The loop of out_event that loads messages into the encoder. *)
RECURSIVE Load(_)
Load(s) == IF Len(s.outbuf) >= Batch THEN s
           ELSE LET t == NextMsg(s) IN IF t.rc = "ok" THEN Load(t) ELSE t

(* tcp_write: as much as there is room for, and an error once the          *)
(* connection is lost.                                                     *)
Write(room, s) ==
    IF conn = "lost" THEN [s EXCEPT !.pollout = FALSE]
    ELSE LET n == IF room < Len(s.outbuf) THEN room ELSE Len(s.outbuf)
             t == [s EXCEPT !.tx = @ \o SubSeq(s.outbuf, 1, n),
                            !.outbuf = SubSeq(@, n + 1, Len(@))]
         IN  IF t.handshaking /\ t.outbuf = <<>> THEN [t EXCEPT !.pollout = FALSE] ELSE t

Room(e, s) == Window - Len(side[Peer(e)].rx) - Len(s.tx)

(* out_event *)
OutEvent(e, s) ==
    IF s.ioError THEN [s EXCEPT !.failed = TRUE]
    ELSE IF s.outbuf # <<>> THEN Write(Room(e, s), s)
    ELSE IF s.handshaking THEN s
    ELSE LET t == Load(s)
         IN  IF t.outbuf = <<>> THEN [t EXCEPT !.outputStopped = TRUE, !.pollout = FALSE]
             ELSE Write(Room(e, t), t)

RestartOutput(e, s) ==
    IF s.ioError THEN s
    ELSE OutEvent(e, IF s.outputStopped THEN [s EXCEPT !.outputStopped = FALSE, !.pollout = TRUE]
                     ELSE s)

-----------------------------------------------------------------------------
(* Input.                                                                  *)

(* process_handshake_command: the peer's READY, once. *)
HandshakeCommand(e, s) ==
    IF s.readyReceived \/ s.held # <<Ready>> THEN [s EXCEPT !.rc = "protocol"]
    ELSE LET t == [s EXCEPT !.readyReceived = TRUE, !.held = <<>>]
             u == IF t.readySent THEN MechanismReady(t) ELSE t
             v == IF u.outputStopped THEN RestartOutput(e, u) ELSE u
         IN  [v EXCEPT !.rc = "ok"]

(* process_msg of the decoder's message.  What decode_and_push has decoded *)
(* and could not push is pushed by push_one_then_decode_and_push.          *)
ProcessMsg(e, s) ==
    IF s.process = "handshake" THEN HandshakeCommand(e, s)
    ELSE LET t == Push(s)
         IN  [t EXCEPT !.process = IF t.rc = "again" THEN "push one" ELSE "push"]

(* The loop that decodes what was read and processes it. *)
RECURSIVE Decode(_, _)
Decode(e, s) ==
    IF s.inbuf = <<>> THEN [s EXCEPT !.rc = "ok"]
    ELSE LET t == ProcessMsg(e, [s EXCEPT !.inbuf = Tail(@), !.held = <<Head(s.inbuf)>>])
         IN  IF t.rc = "ok" THEN Decode(e, t) ELSE t

(* Mutant of Answer: the poller is not asked to write it. *)
AnswerSilently(s, part) ==
    IF part = 3 THEN s ELSE [s EXCEPT !.outbuf = Append(@, Greeting(part + 1))]

(* receive_greeting_versioned, after each part of the peer's greeting. *)
Answer(s, part) ==
    IF part = 3 THEN s
    ELSE [s EXCEPT !.outbuf = Append(@, Greeting(part + 1)),
                   !.pollout = @ \/ s.outbuf = <<>>]

(* handshake: receive_greeting, and when it is complete handshake_v3_0. *)
RECURSIVE Handshake(_)
Handshake(s) ==
    IF s.greetings = 3 THEN [s EXCEPT !.handshaking = FALSE, !.pollout = @ \/ s.outbuf = <<>>]
    ELSE IF s.rx = <<>> THEN s
    ELSE LET n == s.greetings + 1
         IN  Handshake(Answer([s EXCEPT !.rx = Tail(@), !.greetings = n,
                                        !.failed = @ \/ Head(s.rx) # Greeting(n)], n))

(* The part of in_event_internal behind the handshake. *)
Receive(e, s) ==
    IF s.inputStopped THEN [s EXCEPT !.ioError = TRUE, !.pollin = FALSE, !.pollout = FALSE]
    ELSE IF s.inbuf = <<>> /\ s.rx = <<>> THEN IF conn = "lost" THEN Error(e, s) ELSE s
    ELSE LET r == IF s.inbuf = <<>> THEN [s EXCEPT !.inbuf = s.rx, !.rx = <<>>] ELSE s
             t == Decode(e, r)
         IN  IF t.rc = "protocol" THEN Error(e, t)
             ELSE Flush(IF t.rc = "again" THEN [t EXCEPT !.inputStopped = TRUE, !.pollin = FALSE]
                        ELSE t)

(* in_event *)
InEvent(e, s) ==
    IF s.ioError THEN [s EXCEPT !.failed = TRUE]
    ELSE LET t == IF s.handshaking THEN Handshake(s) ELSE s
         IN  IF ~t.handshaking THEN Receive(e, t)
             ELSE IF conn = "lost" THEN Error(e, t)
             ELSE t

(* Mutant of RestartInput: it reads on without the message that was held.  *)
RestartInputAnew(e, s) ==
    IF ~s.inputStopped THEN [s EXCEPT !.failed = TRUE]
    ELSE LET t == Decode(e, s)
         IN  IF t.rc = "again" THEN Flush(t)
             ELSE IF t.ioError \/ t.rc = "protocol" THEN Error(e, t)
             ELSE Receive(e, Flush([t EXCEPT !.inputStopped = FALSE, !.pollin = TRUE]))

(* restart_input: the message that was held, what else was read, and then  *)
(* either the error met in the meantime or a read.                         *)
RestartInput(e, s) ==
    IF ~s.inputStopped THEN [s EXCEPT !.failed = TRUE]
    ELSE LET h == ProcessMsg(e, s)
             t == IF h.rc = "ok" THEN Decode(e, h) ELSE h
         IN  IF t.rc = "again" THEN Flush(t)
             ELSE IF t.ioError \/ t.rc = "protocol" THEN Error(e, t)
             ELSE Receive(e, Flush([t EXCEPT !.inputStopped = FALSE, !.pollin = TRUE]))

-----------------------------------------------------------------------------
(* Steps.                                                                  *)

(* The end after a handler; what was written is on its way to the peer,    *)
(* unless the connection is lost.                                          *)
Becomes(e, s) ==
    side' = [side EXCEPT ![e] = [s EXCEPT !.tx = <<>>, !.rc = "ok"],
                         ![Peer(e)].rx = IF conn = "up" THEN @ \o s.tx ELSE @]

(* The I/O thread of `e': the poller calls in_event when there is          *)
(* something to read, and whenever the connection is lost.                 *)
Readable(e) == /\ side[e].alive /\ ~side[e].ioError
               /\ conn = "lost" \/ (side[e].pollin /\ side[e].rx # <<>>)

PollIn(e) ==
    /\ Readable(e)
    /\ Becomes(e, InEvent(e, side[e]))
    /\ UNCHANGED <<conn, sent, got, losses>>

Writable(e) == /\ side[e].alive /\ ~side[e].ioError /\ side[e].pollout
               /\ conn = "lost" \/ Len(side[Peer(e)].rx) < Window

PollOut(e) ==
    /\ Writable(e)
    /\ Becomes(e, OutEvent(e, side[e]))
    /\ UNCHANGED <<conn, sent, got, losses>>

(* activate_read: session_base_t::read_activated. *)
ReadActivated(e) ==
    /\ side[e].reader = "woken"
    /\ LET s == [side[e] EXCEPT !.reader = "active"]
       IN  Becomes(e, IF s.alive THEN RestartOutput(e, s)
                      ELSE IF s.out = <<>> THEN [s EXCEPT !.reader = "passive"] ELSE s)
    /\ UNCHANGED <<conn, sent, got, losses>>

(* activate_write: pipe_t::process_activate_write and                      *)
(* session_base_t::write_activated.                                        *)
WriteActivated(e) ==
    /\ side[e].acks > 0
    /\ LET s == [side[e] EXCEPT !.acks = @ - 1, !.unread = @ - 1, !.writer = TRUE]
       IN  Becomes(e, IF side[e].writer \/ ~s.alive THEN s ELSE RestartInput(e, s))
    /\ UNCHANGED <<conn, sent, got, losses>>

(* A connection comes up, and each end gets an engine (plug), which begins *)
(* with the signature.                                                     *)
Connect ==
    /\ conn = "none"
    /\ conn' = "up"
    /\ side' = [e \in Ends |-> [side[e] EXCEPT !.rx = <<>>, !.attached = FALSE]]
    /\ UNCHANGED <<sent, got, losses>>

Attachable(e) == conn # "none" /\ ~side[e].alive /\ ~side[e].attached

Attach(e) ==
    /\ Attachable(e)
    /\ Becomes(e, InEvent(e, [side[e] EXCEPT !.alive = TRUE, !.attached = TRUE,
                                             !.pollin = TRUE, !.pollout = TRUE,
                                             !.outbuf = <<Greeting(1)>>]))
    /\ UNCHANGED <<conn, sent, got, losses>>

(* The connection is lost, with what is under way or without it. *)
Lose ==
    /\ conn = "up" /\ losses < MaxLosses
    /\ conn' = "lost" /\ losses' = losses + 1
    /\ \E kept \in BOOLEAN :
          side' = IF kept THEN side ELSE [e \in Ends |-> [side[e] EXCEPT !.rx = <<>>]]
    /\ UNCHANGED <<sent, got>>

(* The handshake timer: no greeting within options_t::handshake_ivl. *)
HandshakeTimeout(e) ==
    /\ side[e].alive /\ side[e].handshaking /\ losses < MaxLosses
    /\ conn' = "lost"
    /\ losses' = losses + 1
    /\ Becomes(e, Error(e, side[e]))
    /\ UNCHANGED <<sent, got>>

(* Both engines are gone. *)
Gone ==
    /\ conn = "lost" /\ \A e \in Ends : side[e].attached /\ ~side[e].alive
    /\ conn' = "none"
    /\ UNCHANGED <<side, sent, got, losses>>

(* The application writes and flushes: a passive reader gets a command. *)
Enqueue(e, m) ==
    side' = [side EXCEPT ![e].out = Append(@, m), ![e].owes = FALSE,
                         ![e].reader = IF @ = "passive" THEN "woken" ELSE @]

Send ==
    /\ sent < MaxMsgs /\ side["bound"].alive
    /\ sent' = sent + 1
    /\ Enqueue("bound", Message(sent + 1))
    /\ UNCHANGED <<conn, got, losses>>

Subscribe ==
    /\ side["connecting"].owes
    /\ Enqueue("connecting", Message(0))
    /\ UNCHANGED <<conn, sent, got, losses>>

(* The application reads, and acknowledges what it has read. *)
Read(e) ==
    /\ side[e].in # <<>>
    /\ side' = [side EXCEPT ![e].in = Tail(@), ![e].acks = @ + 1]
    /\ got' = IF e = "bound" THEN got ELSE Append(got, Head(side[e].in))
    /\ UNCHANGED <<conn, sent, losses>>

Next ==
    \/ Connect \/ Lose \/ Gone \/ Send \/ Subscribe
    \/ \E e \in Ends : \/ PollIn(e) \/ PollOut(e) \/ ReadActivated(e) \/ WriteActivated(e)
                       \/ Attach(e) \/ HandshakeTimeout(e) \/ Read(e)

(* The poller and the mailbox of each I/O thread are served, connections   *)
(* are accepted, and the applications go on reading.  Where it is written  *)
(* out, this is weak fairness: a handler that is called changes the state, *)
(* so that its action is enabled whenever there is a reason to call it.    *)
Fairness ==
    /\ WF_vars(Connect) /\ WF_vars(Gone) /\ WF_vars(Subscribe)
    /\ \A e \in Ends :
          /\ WF_vars(Read(e))
          /\ []<>~Readable(e) \/ []<><<PollIn(e)>>_vars
          /\ []<>~Writable(e) \/ []<><<PollOut(e)>>_vars
          /\ []<>(side[e].reader # "woken") \/ []<><<ReadActivated(e)>>_vars
          /\ []<>(side[e].acks = 0) \/ []<><<WriteActivated(e)>>_vars
          /\ []<>~Attachable(e) \/ []<><<Attach(e)>>_vars

Spec == Init /\ [][Next]_vars /\ Fairness

-----------------------------------------------------------------------------
TypeOK ==
    /\ conn \in {"none", "up", "lost"} /\ sent \in 0..MaxMsgs /\ losses \in 0..MaxLosses
    /\ got \in Seq(Items)
    /\ \A e \in Ends : LET s == side[e] IN
          /\ {s.alive, s.attached, s.handshaking, s.pollin, s.pollout, s.outputStopped,
              s.inputStopped, s.ioError, s.readySent, s.readyReceived, s.writer, s.owes,
              s.failed, s.spilled} \subseteq BOOLEAN
          /\ s.greetings \in 0..3 /\ s.unread \in 0..Hwm /\ s.acks \in 0..Hwm
          /\ {s.outbuf, s.inbuf, s.held, s.out, s.unflushed, s.in, s.rx} \subseteq Seq(Items)
          /\ s.tx = <<>> /\ s.rc = "ok" /\ Len(s.rx) <= Window
          /\ s.reader \in {"active", "passive", "woken"}
          /\ s.next \in {"handshake", "pull"} /\ s.process \in {"handshake", "push", "push one"}

(* The messages written and not yet read, in order. *)
Messages(s) == SelectSeq(s, LAMBDA i : i[1] = "message")
UnderWay == LET b == side["bound"]
                c == side["connecting"]
            IN  c.in \o c.unflushed \o c.held \o
                Messages(c.inbuf \o c.rx \o b.outbuf \o b.out)

(* Messages come in the order of writing, none twice, and none is lost     *)
(* before a connection is.                                                 *)
Carried ==
    /\ \A i, j \in DOMAIN got : i < j => got[i][2] < got[j][2]
    /\ losses = 0 => got \o UnderWay = [m \in 1..sent |-> Message(m)]

(* Whoever stopped waits for a command that is to come: the pipe is found  *)
(* full only by an engine that lives and holds the message (as             *)
(* restart_input asserts), then the application has something to read or   *)
(* has acknowledged; and with output stopped, messages in the pipe mean    *)
(* that activate_read is under way.                                        *)
StopsForReason ==
    \A e \in Ends : LET s == side[e] IN
        /\ ~s.writer => s.alive /\ s.inputStopped /\ s.unread > 0
        /\ s.unread = Len(s.in) + s.acks
        /\ s.inputStopped = (s.held # <<>>)
        /\ s.alive /\ ~s.ioError /\ s.outputStopped /\ s.next = "pull" /\ s.out # <<>>
              => s.reader = "woken"

(* No assertion of the engine fails, and an engine whose connection is     *)
(* lost goes only when all it has read is in the pipe.                     *)
NoFailures == \A e \in Ends : ~side[e].failed /\ ~side[e].spilled

(* On a connection that lasts, no message stays under way; as long as it   *)
(* does, Carried has it that the others were read.                         *)
Arrives ==
    \A m \in 1..MaxMsgs : []<>(Message(m) \notin ToSet(UnderWay) \/ conn = "lost")
=============================================================================
