------------------------------- MODULE Waiting -------------------------------
(***************************************************************************)
(* The calls of a socket that may have to wait: send, recv and zmq_poll,   *)
(* without waiting, for a time or for ever.  A call that finds no message  *)
(* (or no room) goes to sleep over the socket's mailbox; what wakes it is  *)
(* a command from the I/O thread that the other call, or an earlier look   *)
(* at the mailbox, may have taken already.  To save looks, send skips them *)
(* for a while after the last one and recv has one every PollRate calls.   *)
(* The context may end meanwhile, and a signal may interrupt the wait.     *)
(*                                                                         *)
(* The pipe is reduced to what matters here (see Pipe): whole messages,    *)
(* a reader that sleeps or not, a writer that was refused or not.          *)
(***************************************************************************)
EXTENDS Integers, Sequences, FiniteSets

CONSTANTS Cap,        \* bound: messages in the inbound pipe
          Hwm,        \* high water mark of the outbound pipe, not 0 (no limit)
          PollRate    \* inbound_poll_rate

(* compute_lwm: the peer acknowledges so many messages at once. *)
Lwm == (Hwm + 1) \div 2

VARIABLES
    inbound,     \* messages in the inbound pipe
    asleep,      \* its reader found it empty and has not been told otherwise
    inActive,    \* pipe_t::_in_active
    outbound,    \* messages in the outbound pipe
    unread,      \* those that, as far as the writer knows, have not been read
    owed,        \* those read and not acknowledged, pipe_t::_msgs_read % _lwm of the peer
    outActive,   \* pipe_t::_out_active
    telling,     \* the command the I/O thread is about to send, or "none"
    mailbox,     \* commands sent to the socket
    active,      \* mailbox_t::_active
    stopping,    \* the context has asked the socket to stop
    terminated,  \* socket_base_t::_ctx_terminated
    ticks,       \* socket_base_t::_ticks
    recent,      \* max_command_delay has not passed since _last_tsc
    op, wait,    \* the call: "send", "recv", "poll", and how long it may wait
    at,          \* where it is
    block,       \* whether this look at the mailbox may wait
    expired,     \* the time it may wait is over
    answer,      \* of the last call
    there        \* what it asked for was there when it began

pipeVars == <<inbound, asleep, inActive, outbound, unread, owed, outActive>>

peerVars == <<telling, stopping>>

callVars == <<op, wait, there>>

vars == <<pipeVars, peerVars, callVars, mailbox, active, terminated, ticks, recent, at, block,
          expired, answer>>

Init ==
    /\ inbound = 0 /\ asleep = TRUE /\ inActive = FALSE
    /\ outbound = 0 /\ unread = 0 /\ owed = 0 /\ outActive = TRUE
    /\ telling = "none" /\ stopping = FALSE
    /\ mailbox = <<>> /\ active = FALSE
    /\ terminated = FALSE
    /\ ticks = 0 /\ recent = FALSE
    /\ op = "none" /\ wait = "dont" /\ there = FALSE
    /\ at = "idle" /\ block = FALSE /\ expired = FALSE
    /\ answer = "none"

Readable == inActive /\ inbound > 0

Writable == outActive /\ unread < Hwm

(* Messages of which the writer will know that they were read, once it has *)
(* looked at its commands.                                                 *)
Acknowledged == Lwm * Cardinality({i \in DOMAIN mailbox : mailbox[i] = "activate_write"})

-----------------------------------------------------------------------------
(* Answers. *)

Return(a) ==
    /\ answer' = a
    /\ at' = "idle" /\ op' = "none" /\ wait' = "dont"
    /\ block' = FALSE /\ expired' = FALSE
    /\ UNCHANGED there

Proceed(place) ==
    /\ at' = place
    /\ UNCHANGED <<answer, callVars, expired>>

(* process_commands(timeout), and what comes then: "first" and "again" are *)
(* tries to send or receive, "last" the second of a call that does not     *)
(* wait, "events" asks for events.                                         *)
Look(place, mayWait) == Proceed(place) /\ block' = mayWait

Looking == at \in {"lookFirst", "lookLast", "lookAgain", "lookEvents"}

Then == CASE at = "lookFirst" -> "first"
          [] at = "lookLast" -> "last"
          [] at = "lookAgain" -> "again"
          [] at = "lookEvents" -> "events"

(* A command is in the mailbox: because the mailbox is active, or because  *)
(* of the signal.  After one command the look does not wait any more.      *)
TakeCommand ==
    /\ Looking /\ mailbox # <<>>
    /\ active' = TRUE
    /\ mailbox' = Tail(mailbox)
    /\ LET c == Head(mailbox) IN
          /\ inActive' = (inActive \/ c = "activate_read")
          /\ outActive' = (outActive \/ c = "activate_write")
          /\ unread' = IF c = "activate_write" THEN unread - Lwm ELSE unread
          /\ terminated' = (terminated \/ c = "stop")
    /\ block' = FALSE
    /\ UNCHANGED <<inbound, asleep, outbound, owed, peerVars, callVars, ticks, recent, at, expired,
                   answer>>

(* None is there: the mailbox becomes passive and waits, if it may. *)
Sleep ==
    /\ Looking /\ mailbox = <<>>
    /\ block /\ active
    /\ active' = FALSE
    /\ UNCHANGED <<pipeVars, peerVars, callVars, mailbox, terminated, ticks, recent, at, block,
                   expired, answer>>

(* The look is over.  The ticks of recv start anew, except after a look    *)
(* that waits; the end of the context ends the call.                       *)
Looked ==
    /\ Looking /\ mailbox = <<>>
    /\ ~block \/ expired
    /\ active' = FALSE
    /\ ticks' = IF op = "recv" /\ Then # "again" /\ ~terminated THEN 0 ELSE ticks
    /\ IF terminated THEN Return("terminated") ELSE Proceed(Then) /\ block' = FALSE
    /\ UNCHANGED <<pipeVars, peerVars, mailbox, terminated, recent>>

(* EINTR, while the thread waits in poll(). *)
Interrupt ==
    /\ mailbox = <<>> /\ ~active
    /\ at = "fd" \/ (Looking /\ block)
    /\ Return("interrupted")
    /\ UNCHANGED <<pipeVars, peerVars, mailbox, active, terminated, ticks, recent>>

-----------------------------------------------------------------------------
Calls == {"send", "recv", "poll"}
Waits == {"dont", "until", "ever"}

(* The call begins.  What it asks for counts as there if the I/O thread    *)
(* has told of it, and if the call is to look at its commands at all: send *)
(* does not so shortly after another, even if it does not wait.            *)
Begin(c, w) ==
    /\ at = "idle"
    /\ op' = c /\ wait' = w
    /\ there' = IF c = "send" THEN ~recent /\ unread < Hwm + Acknowledged
                ELSE inbound > 0 /\ telling # "activate_read"
    /\ expired' = FALSE /\ answer' = "none"

(* After the end of the context every call is refused. *)
Refuse(c, w) ==
    /\ terminated
    /\ at = "idle" /\ answer' = "terminated"
    /\ UNCHANGED <<pipeVars, peerVars, callVars, mailbox, active, terminated, ticks, recent, at,
                   block, expired>>

(* send: process_commands (0, true).  Where the processor's counter cannot *)
(* be had, or has jumped, every call looks.                                *)
Send(w) ==
    /\ ~terminated
    /\ Begin("send", w)
    /\ IF recent THEN at' = "first" /\ UNCHANGED recent
       ELSE at' = "lookFirst" /\ recent' \in BOOLEAN
    /\ block' = FALSE
    /\ UNCHANGED <<pipeVars, peerVars, mailbox, active, terminated, ticks>>

Recv(w) ==
    /\ ~terminated
    /\ Begin("recv", w)
    /\ ticks' = ticks + 1
    /\ at' = IF ticks + 1 = PollRate THEN "lookFirst" ELSE "first"
    /\ block' = FALSE
    /\ UNCHANGED <<pipeVars, peerVars, mailbox, active, terminated, recent>>

(* Mutant of FirstPass: zmq_poll begins with the wait. *)
FirstPassWaiting(w) == IF w = "dont" THEN "lookEvents" ELSE "fd"

(* compute_timeout: the first pass does not wait. *)
FirstPass(w) == "lookEvents"

Poll(w) ==
    /\ ~terminated
    /\ Begin("poll", w)
    /\ at' = FirstPass(w)
    /\ block' = FALSE
    /\ UNCHANGED <<pipeVars, peerVars, mailbox, active, terminated, ticks, recent>>

-----------------------------------------------------------------------------
(* A message is sent or received. *)
Try ==
    /\ at \in {"first", "last", "again"}
    /\ \/ /\ op = "send" /\ Writable
          /\ outbound' = outbound + 1 /\ unread' = unread + 1
          /\ UNCHANGED <<inbound, asleep, inActive, owed, outActive, ticks>>
       \/ /\ op = "recv" /\ Readable
          /\ inbound' = inbound - 1
          /\ ticks' = IF at = "again" THEN 0 ELSE ticks
          /\ UNCHANGED <<asleep, inActive, outbound, unread, owed, outActive>>
    /\ Return("done")
    /\ UNCHANGED <<peerVars, mailbox, active, terminated, recent>>

(* What the pipe is left with by one who found nothing in it, or no room.  *)
FoundNothing ==
    /\ IF op = "send" THEN outActive' = FALSE /\ UNCHANGED <<inActive, asleep>>
       ELSE inActive' = FALSE /\ asleep' = (asleep \/ inActive) /\ UNCHANGED outActive
    /\ UNCHANGED <<inbound, outbound, unread, owed>>

(* Mutant of SecondLook: a call that does not wait gives up at once. *)
SecondLookNot == Return("nothing")

(* recv looks at its commands once more; send has looked. *)
SecondLook == IF op = "recv" THEN Look("lookLast", FALSE) ELSE Return("nothing")

(* EAGAIN.  The first look of a recv that waits does not wait itself if    *)
(* ticks is 0; after a look that was of no use, time counts.               *)
TryInVain ==
    /\ at \in {"first", "last", "again"}
    /\ ~(IF op = "send" THEN Writable ELSE Readable)
    /\ FoundNothing
    /\ CASE at = "last" -> Return("nothing")
         [] at = "first" /\ wait = "dont" -> SecondLook
         [] at = "first" /\ wait # "dont" -> Look("lookAgain", op = "send" \/ ticks # 0)
         [] at = "again" -> IF expired THEN Return("nothing") ELSE Look("lookAgain", TRUE)
    /\ UNCHANGED <<peerVars, mailbox, active, terminated, ticks, recent>>

(* zmq_poll asks for ZMQ_EVENTS. *)
Events ==
    /\ at = "events"
    /\ IF Readable THEN Return("done") /\ UNCHANGED pipeVars
       ELSE /\ FoundNothing
            /\ IF wait = "dont" \/ expired THEN Return("nothing")
               ELSE Proceed("fd") /\ block' = FALSE
    /\ UNCHANGED <<peerVars, mailbox, active, terminated, ticks, recent>>

(* poll() on the mailbox's descriptor: a signal is there if the mailbox is *)
(* passive and has a command.                                              *)
WaitForFd ==
    /\ at = "fd"
    /\ (mailbox # <<>> /\ ~active) \/ expired
    /\ Look("lookEvents", FALSE)
    /\ UNCHANGED <<pipeVars, peerVars, mailbox, active, terminated, ticks, recent>>

-----------------------------------------------------------------------------
(* Around the call. *)

Expire ==
    /\ wait = "until" /\ ~expired
    /\ expired' = TRUE
    /\ UNCHANGED <<pipeVars, peerVars, callVars, mailbox, active, terminated, ticks, recent, at,
                   block, answer>>

Elapse ==
    /\ recent /\ recent' = FALSE
    /\ UNCHANGED <<pipeVars, peerVars, callVars, mailbox, active, terminated, ticks, at, block,
                   expired, answer>>

(* A message is flushed into the pipe; the I/O thread then wakes a reader  *)
(* that sleeps.                                                            *)
Arrive ==
    /\ telling = "none" /\ inbound < Cap
    /\ inbound' = inbound + 1
    /\ asleep' = FALSE
    /\ telling' = IF asleep THEN "activate_read" ELSE "none"
    /\ UNCHANGED <<inActive, outbound, unread, owed, outActive, stopping, callVars, mailbox, active,
                   terminated, ticks, recent, at, block, expired, answer>>

(* The I/O thread reads a message and acknowledges every Lwm of them. *)
Drain ==
    /\ telling = "none" /\ outbound > 0
    /\ outbound' = outbound - 1
    /\ owed' = IF owed + 1 = Lwm THEN 0 ELSE owed + 1
    /\ telling' = IF owed + 1 = Lwm THEN "activate_write" ELSE "none"
    /\ UNCHANGED <<inbound, asleep, inActive, unread, outActive, stopping, callVars, mailbox,
                   active, terminated, ticks, recent, at, block, expired, answer>>

Tell ==
    /\ telling # "none"
    /\ mailbox' = Append(mailbox, telling)
    /\ telling' = "none"
    /\ UNCHANGED <<pipeVars, stopping, callVars, active, terminated, ticks, recent, at, block,
                   expired, answer>>

(* zmq_ctx_term, in another thread. *)
Stop ==
    /\ ~stopping /\ stopping' = TRUE
    /\ mailbox' = Append(mailbox, "stop")
    /\ UNCHANGED <<pipeVars, telling, callVars, active, terminated, ticks, recent, at, block,
                   expired, answer>>

Step == TakeCommand \/ Sleep \/ Looked \/ Try \/ TryInVain \/ Events \/ WaitForFd

Next ==
    \/ Step \/ Interrupt
    \/ \E w \in Waits : Send(w) \/ Recv(w) \/ Poll(w)
    \/ \E c \in Calls, w \in Waits : Refuse(c, w)
    \/ Expire \/ Elapse
    \/ Arrive \/ Drain \/ Tell \/ Stop

(* The thread of a call runs while it can, the I/O thread goes through     *)
(* with what it began, and time passes.                                    *)
Fairness == WF_vars(Step) /\ WF_vars(Tell) /\ WF_vars(Expire)

Spec == Init /\ [][Next]_vars /\ Fairness

-----------------------------------------------------------------------------
TypeOK ==
    /\ inbound \in 0..Cap /\ outbound \in 0..unread /\ unread \in 0..Hwm
    /\ owed \in 0..Lwm - 1
    /\ asleep \in BOOLEAN /\ inActive \in BOOLEAN /\ outActive \in BOOLEAN
    /\ active \in BOOLEAN /\ stopping \in BOOLEAN /\ terminated \in BOOLEAN
    /\ recent \in BOOLEAN /\ block \in BOOLEAN /\ expired \in BOOLEAN /\ there \in BOOLEAN
    /\ telling \in {"none", "activate_read", "activate_write"}
    /\ mailbox \in Seq({"activate_read", "activate_write", "stop"})
    /\ ticks \in 0..PollRate
    /\ op \in Calls \cup {"none"} /\ wait \in Waits
    /\ at \in {"idle", "first", "last", "again", "events", "fd"} \/ Looking
    /\ answer \in {"none", "done", "nothing", "terminated", "interrupted"}

(* A call that answers that there is no message, or no room, was right     *)
(* when it began: what the mailbox has a command of is not overlooked.     *)
NothingIsTrue == answer = "nothing" => ~there

(* The mailbox is passive whenever zmq_poll waits for its descriptor and   *)
(* between calls, when an application may wait for it: only then a command *)
(* makes the descriptor readable.                                          *)
RestsPassive == at \in {"idle", "fd"} => ~active

(* A reader that will not look into the pipe, though there is a message,   *)
(* has the command that tells it under way.                                *)
Told ==
    inbound > 0 /\ ~inActive =>
        telling = "activate_read" \/ \E i \in DOMAIN mailbox : mailbox[i] = "activate_read"

(* What a call may rely on (socket_base_t::send, recv, zmq_poll,           *)
(* mailbox_t::recv); the type invariant goes with it.                      *)
CallsTold == TypeOK /\ NothingIsTrue /\ RestsPassive /\ Told

(* A call ends, unless it may wait for ever and there is nothing for it,   *)
(* and the context does not end (socket_base_t::send, recv, zmq_poll).     *)
CallsEnd ==
    \/ []<>(op = "none")
    \/ <>[](wait = "ever" /\ ~stopping /\ IF op = "send" THEN unread = Hwm ELSE inbound = 0)
=============================================================================
