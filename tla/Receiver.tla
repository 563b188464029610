------------------------------ MODULE Receiver ------------------------------
(***************************************************************************)
(* How a Subscriber reads: hasWaitingMessage, getNextMessage, receive and  *)
(* receiveMultipart on one SUB socket with several connections, frame by   *)
(* frame.  Three places remember that a message is half read: fq_t::_more  *)
(* (the pipe to go on with), xsub_t::_more (the next frame needs no        *)
(* subscription) and xsub_t::_message, the frame that hasWaitingMessage    *)
(* took out of its pipe ahead of time.  Besides, item.revents remembers    *)
(* the answer of the last poll.                                            *)
(*                                                                         *)
(* The application's calls are steps of one thread; messages arrive and    *)
(* commands come in from the I/O threads at any time, and a call processes *)
(* commands before it looks for a frame or when it finds none.             *)
(***************************************************************************)
EXTENDS Integers, Sequences, Functions

CONSTANTS Pubs,       \* endpoints the Subscriber connects to
          Topics,     \* topics of messages
          Cap,        \* bound: messages in a pipe
          MaxParts,   \* bound: frames of a message
          Ids,        \* messages of a connection are numbered modulo Ids
          Careful     \* the application disconnects only between messages

ASSUME BoundsAssumption == /\ Cap \in Nat \ {0} /\ MaxParts \in Nat \ {0}
                           /\ Ids \in Nat /\ Ids > 1

ASSUME CarefulAssumption == Careful \in BOOLEAN

VARIABLES
    pipe,       \* pipe[p]: "none", "active" or "ending" (waits for the peer's ack)
    queue,      \* queue[p]: frames of whole messages in the pipe of p
    active,     \* fq_t: the pipes to ask, in their order
    current,    \* fq_t::_current, an index into active
    fqMore,     \* fq_t::_more
    held,       \* xsub_t::_message if _has_message: at most one frame
    more,       \* xsub_t::_more
    skipping,   \* the rest of a message no subscription matches is popped
    wanted,     \* topics the subscriptions match
    revents,    \* item.revents & ZMQ_POLLIN
    call,       \* the call in progress: "idle", "poll", "recv" or "multi"
    blocked,    \* the receiving call found nothing
    answer,     \* of the last call: "poll" (a message waits), "true" or "no"
    seen        \* seen[p]: the mark of the last frame of p received or popped

fqVars == <<pipe, queue, active, current, fqMore>>

subVars == <<held, more, skipping, wanted>>

vars == <<fqVars, subVars, revents, call, blocked, answer, seen>>

Frame == [pub : Pubs, id : 0..Ids - 1, part : 1..MaxParts, more : BOOLEAN, topic : Topics]

Message(p, n, t, size) ==
    [i \in 1..size |-> [pub |-> p, id |-> n, part |-> i, more |-> i < size, topic |-> t]]

(* Which message a frame is of, and how much of it has come with it. *)
Mark(f) == [id |-> f.id, part |-> IF f.more THEN f.part ELSE 0]

Complete(m) == m.part = 0

(* The frames of p that are still to come, and the marks from the last one *)
(* behind the application on.                                              *)
Ahead(p) == IF held # <<>> /\ held[1].pub = p THEN held \o queue[p] ELSE queue[p]

Line(p) == <<seen[p]>> \o [i \in 1..Len(Ahead(p)) |-> Mark(Ahead(p)[i])]

Last(s) == s[Len(s)]

Readable(p) == pipe[p] = "active" /\ queue[p] # <<>>

Init ==
    /\ pipe = [p \in Pubs |-> "none"]
    /\ queue = [p \in Pubs |-> <<>>]
    /\ active = <<>>
    /\ current = 1
    /\ fqMore = FALSE
    /\ held = <<>>
    /\ more = FALSE
    /\ skipping = FALSE
    /\ wanted = {}
    /\ revents = FALSE
    /\ call = "idle"
    /\ blocked = FALSE
    /\ answer = "no"
    /\ seen = [p \in Pubs |-> [id |-> 0, part |-> 0]]

-----------------------------------------------------------------------------
(* Fair queueing. *)

(* The last of the active pipes takes the place of the i-th. *)
Without(q, i) == [j \in 1..Len(q) - 1 |-> IF j = i THEN q[Len(q)] ELSE q[j]]

(* Mutant of Rotate: stays with a pipe for as long as it has messages. *)
RotateNever(f) == current

(* Mutant of Rotate: moves on with every frame. *)
RotateByFrame(f) == (current % Len(active)) + 1

(* The next pipe's turn comes with the end of a message. *)
Rotate(f) == IF f.more THEN current ELSE (current % Len(active)) + 1

(* fq_t::recvpipe finds frame f in the current pipe. *)
Fetch(f) ==
    LET p == active[current] IN
    /\ active # <<>>
    /\ Readable(p)
    /\ f = Head(queue[p])
    /\ queue' = [queue EXCEPT ![p] = Tail(@)]
    /\ fqMore' = f.more
    /\ current' = Rotate(f)
    /\ UNCHANGED <<pipe, active>>

(* A call that looks for a frame in the pipes. *)
Fetching == call \in {"poll", "recv", "multi"} /\ ~blocked /\ held = <<>>

(* fq_t::recvpipe finds nothing in the current pipe and makes it passive;  *)
(* in the middle of a message its assertion ends the program.              *)
PassOver ==
    /\ Fetching
    /\ active # <<>>
    /\ ~Readable(active[current])
    /\ IF fqMore
       THEN call' = "aborted" /\ UNCHANGED <<active, current>>
       ELSE /\ active' = Without(active, current)
            /\ current' = IF current = Len(active) THEN 1 ELSE current
            /\ UNCHANGED call
    /\ UNCHANGED <<pipe, queue, fqMore, subVars, revents, blocked, answer, seen>>

(* No pipe has anything: the poll says no, a receiving call is stuck. *)
Exhausted ==
    /\ Fetching
    /\ active = <<>>
    /\ IF call = "poll"
       THEN call' = "idle" /\ revents' = FALSE /\ UNCHANGED blocked
       ELSE blocked' = TRUE /\ UNCHANGED <<call, revents>>
    /\ UNCHANGED <<fqVars, subVars, answer, seen>>

-----------------------------------------------------------------------------
(* The calls. *)

(* Mutant of HasWaitingMessage: looks for a frame although one is held. *)
HasWaitingMessageAgain ==
    /\ call = "idle"
    /\ IF more
       THEN revents' = TRUE /\ answer' = "poll" /\ UNCHANGED <<call, held>>
       ELSE call' = "poll" /\ answer' = "no" /\ held' = <<>> /\ UNCHANGED revents
    /\ UNCHANGED <<fqVars, more, skipping, wanted, blocked, seen>>

(* A message in progress or a frame held answers the poll at once. *)
HasWaitingMessage ==
    /\ call = "idle"
    /\ IF more \/ held # <<>>
       THEN revents' = TRUE /\ answer' = "poll" /\ UNCHANGED call
       ELSE call' = "poll" /\ answer' = "no" /\ UNCHANGED revents
    /\ UNCHANGED <<fqVars, subVars, blocked, seen>>

(* receive(data) takes one frame, receiveMultipart all of a message. *)
StartReceiving ==
    /\ \E c \in {"recv", "multi"} : call' = c
    /\ answer' = IF answer = "poll" THEN "poll" ELSE "no"

Receive ==
    /\ call = "idle"
    /\ StartReceiving
    /\ UNCHANGED <<fqVars, subVars, revents, blocked, seen>>

(* getNextMessage and getNextMessages trust the last poll. *)
GetNextMessage ==
    /\ call = "idle"
    /\ IF revents THEN StartReceiving ELSE answer' = "no" /\ UNCHANGED call
    /\ UNCHANGED <<fqVars, subVars, revents, blocked, seen>>

(* The frame goes to the application.  receive(Message &) answers whether  *)
(* it has the more flag, receive(MultipartMessage &) that it got a message.*)
Deliver(f) ==
    /\ more' = f.more
    /\ seen' = [seen EXCEPT ![f.pub] = Mark(f)]
    /\ IF call = "multi" /\ f.more THEN call' = call /\ answer' = "no"
       ELSE call' = "idle" /\ answer' = IF call = "multi" \/ f.more THEN "true" ELSE "no"

DeliverHeld ==
    /\ call \in {"recv", "multi"}
    /\ held # <<>>
    /\ Deliver(held[1])
    /\ held' = <<>>
    /\ UNCHANGED <<fqVars, skipping, wanted, revents, blocked>>

(* xsub_t::xrecv: a frame that continues a message, or starts one that is  *)
(* wanted.                                                                 *)
DeliverFetched ==
    /\ Fetching /\ call # "poll" /\ ~skipping
    /\ \E f \in Frame : Fetch(f) /\ (more \/ f.topic \in wanted) /\ Deliver(f)
    /\ UNCHANGED <<held, skipping, wanted, revents, blocked>>

(* Mutant of Hold: announces a message without looking at its topic. *)
HoldUnmatched ==
    /\ Fetching /\ call = "poll" /\ ~skipping
    /\ \E f \in Frame : /\ Fetch(f)
                        /\ IF f.topic \in wanted
                           THEN held' = <<f>> /\ UNCHANGED <<skipping, seen>>
                           ELSE held' = <<>> /\ skipping' = f.more
                                             /\ seen' = [seen EXCEPT ![f.pub] = Mark(f)]
    /\ revents' = TRUE /\ answer' = "poll"
    /\ call' = "idle"
    /\ UNCHANGED <<more, wanted, blocked>>

(* xsub_t::xhas_in keeps the first frame of a message that is wanted. *)
Hold ==
    /\ Fetching /\ call = "poll" /\ ~skipping
    /\ \E f \in Frame : Fetch(f) /\ f.topic \in wanted /\ held' = <<f>>
    /\ revents' = TRUE /\ answer' = "poll"
    /\ call' = "idle"
    /\ UNCHANGED <<more, skipping, wanted, blocked, seen>>

(* Both pop a message nobody wants, frame by frame. *)
Discard ==
    /\ Fetching
    /\ \E f \in Frame : /\ Fetch(f)
                        /\ skipping \/ (f.topic \notin wanted /\ (call = "poll" \/ ~more))
                        /\ skipping' = f.more
                        /\ seen' = [seen EXCEPT ![f.pub] = Mark(f)]
    /\ UNCHANGED <<held, more, wanted, revents, call, blocked, answer>>

(* A call that must not wait returns without a message.  receive(data)     *)
(* passes flags that were never initialised, so either may happen to it.   *)
GiveUp ==
    /\ blocked
    /\ blocked' = FALSE /\ call' = "idle" /\ answer' = "no"
    /\ UNCHANGED <<fqVars, subVars, revents, seen>>

(* addFilter and removeFilter. *)
Refilter(t) ==
    /\ call = "idle"
    /\ wanted' = IF t \in wanted THEN wanted \ {t} ELSE wanted \cup {t}
    /\ UNCHANGED <<fqVars, held, more, skipping, revents, call, blocked, answer, seen>>

(* A Subscriber without filters subscribes to everything as it connects;   *)
(* one that wants no topic may have filters for others.                    *)
Connect(p) ==
    /\ call = "idle"
    /\ pipe[p] = "none"
    /\ pipe' = [pipe EXCEPT ![p] = "active"]
    /\ active' = Append(active, p)
    /\ wanted' = wanted \/ (wanted = {} /\ wanted' = Topics)
    /\ UNCHANGED <<queue, current, fqMore, held, more, skipping, revents, call, blocked, answer,
                   seen>>

(* A pipe being terminated yields nothing any more, though fq_t knows it   *)
(* until the other end has agreed.                                         *)
Disconnect(p) ==
    /\ call = "idle"
    /\ Careful => ~more /\ (held # <<>> => ~held[1].more)
    /\ pipe[p] = "active"
    /\ pipe' = [pipe EXCEPT ![p] = "ending"]
    /\ queue' = [queue EXCEPT ![p] = <<>>]
    /\ UNCHANGED <<active, current, fqMore, subVars, revents, call, blocked, answer, seen>>

-----------------------------------------------------------------------------
(* The I/O threads, and the commands from them. *)

(* Mutant of Arrive: the session flushes the pipe after every frame. *)
ArriveByFrame(p) ==
    /\ pipe[p] = "active"
    /\ Len(queue[p]) < Cap
    /\ LET last == Last(Line(p)) IN
       \E t \in Topics, m \in BOOLEAN :
          /\ m => last.part < MaxParts
          /\ queue' = [queue EXCEPT ![p] = Append(@,
                [pub |-> p, id |-> IF Complete(last) THEN (last.id + 1) % Ids ELSE last.id,
                 part |-> last.part + 1, more |-> m, topic |-> t])]
    /\ UNCHANGED <<pipe, active, current, fqMore, subVars, revents, call, blocked, answer, seen>>

(* The session writes a message and flushes the pipe at its end. *)
Arrive(p) ==
    /\ pipe[p] = "active"
    /\ Len(SelectSeq(queue[p], LAMBDA f : ~f.more)) < Cap
    /\ \E t \in Topics, size \in 1..MaxParts :
          queue' = [queue EXCEPT ![p] = @ \o Message(p, (Last(Line(p)).id + 1) % Ids, t, size)]
    /\ UNCHANGED <<pipe, active, current, fqMore, subVars, revents, call, blocked, answer, seen>>

(* Commands are processed at the start of a call and while it waits. *)
Processing == call = "idle" \/ blocked

Activated(p) ==
    /\ Processing
    /\ Readable(p)
    /\ p \notin Range(active)
    /\ active' = Append(active, p)
    /\ blocked' = FALSE
    /\ UNCHANGED <<pipe, queue, current, fqMore, subVars, revents, call, answer, seen>>

(* Mutant of PipeTerminated: does not look after the index.                *)
PipeTerminatedIndexKept(p) ==
    /\ Processing
    /\ pipe[p] = "ending"
    /\ pipe' = [pipe EXCEPT ![p] = "none"]
    /\ active' = SelectSeq(active, LAMBDA q : q # p)
    /\ blocked' = FALSE
    /\ UNCHANGED <<queue, current, fqMore, subVars, revents, call, answer, seen>>

(* The other end agreed to the end of the pipe: fq_t::pipe_terminated.     *)
PipeTerminated(p) ==
    /\ Processing
    /\ pipe[p] = "ending"
    /\ pipe' = [pipe EXCEPT ![p] = "none"]
    /\ IF p \in Range(active)
       THEN \E i \in 1..Len(active) :
              /\ active[i] = p
              /\ active' = Without(active, i)
              /\ current' = IF current = Len(active) THEN 1 ELSE current
       ELSE UNCHANGED <<active, current>>
    /\ blocked' = FALSE
    /\ UNCHANGED <<queue, fqMore, subVars, revents, call, answer, seen>>

-----------------------------------------------------------------------------
(* Between a call and its answer. *)
Step == PassOver \/ Exhausted \/ DeliverHeld \/ DeliverFetched \/ Hold \/ Discard

Next ==
    \/ Step \/ GiveUp
    \/ HasWaitingMessage \/ Receive \/ GetNextMessage
    \/ \E t \in Topics : Refilter(t)
    \/ \E p \in Pubs : \/ Connect(p) \/ Disconnect(p)
                       \/ Arrive(p) \/ Activated(p) \/ PipeTerminated(p)

(* `while(hasWaitingMessage()) getNextMessage(m)', frame after frame. *)
Loop == IF answer = "poll" THEN GetNextMessage ELSE HasWaitingMessage

(* The loop goes on among the other calls; every call runs on and          *)
(* processes the commands that have come in.                               *)
Fairness ==
    /\ WF_vars(Step)
    /\ SF_vars(Loop)
    /\ \A p \in Pubs : SF_vars(Activated(p))

Spec == Init /\ [][Next]_vars /\ Fairness

-----------------------------------------------------------------------------
TypeOK ==
    /\ pipe \in [Pubs -> {"none", "active", "ending"}]
    /\ queue \in [Pubs -> Seq(Frame)]
    /\ active \in Seq(Pubs) /\ IsInjective(active)
    /\ current \in 1..Len(active) \/ current = 1
    /\ held \in Seq(Frame) /\ Len(held) <= 1
    /\ wanted \subseteq Topics
    /\ call \in {"idle", "poll", "recv", "multi", "aborted"}
    /\ answer \in {"poll", "true", "no"}
    /\ {fqMore, more, skipping, revents, blocked} \subseteq BOOLEAN
    /\ seen \in [Pubs -> [id : 0..Ids - 1, part : 0..MaxParts]]

(* One message is read at a time: the frames that leave the pipes, to the  *)
(* application or dropped, finish a message before another connection has  *)
(* its turn, and xsub_t::_more says whether one is unfinished.             *)
OneMessage ==
    /\ \A p, q \in Pubs : ~Complete(seen[p]) /\ ~Complete(seen[q]) => p = q
    /\ more \/ skipping <=> \E p \in Pubs : ~Complete(seen[p])

Follows(m, n) ==
    /\ n.id = IF Complete(m) THEN (m.id + 1) % Ids ELSE m.id
    /\ Complete(n) \/ n.part = m.part + 1

(* No frame is lost, repeated or overtaken between the pipe, the frame     *)
(* held and the application, by whatever mixture of polls, reads of one    *)
(* frame, reads of a message, filters and disconnects in between           *)
(* (xsub_t::xhas_in against xrecv).  The type invariant goes with it.      *)
NothingLost ==
    /\ TypeOK
    /\ \A p \in Pubs : \A i \in 1..Len(Line(p)) - 1 : Follows(Line(p)[i], Line(p)[i + 1])

(* The frame loop `while(hasWaitingMessage()) getNextMessage(m)' never     *)
(* hangs in receive, which may wait without limit: if nothing was read     *)
(* since a poll said yes, there is something, filters or connections       *)
(* removed since or not (xsub_t::xhas_in, pollitem item).                  *)
PollKeepsWord == blocked => answer # "poll"

(* "If we've already received the first part of the message we should get  *)
(* the remaining parts without blocking" (fq_t::recvpipe).                 *)
NoAbort == call # "aborted"

(* Fair queueing: no message waits for ever behind a busier connection,    *)
(* even one whose messages nobody wants (fq_t::recvpipe), provided that    *)
(* every call ends.  A poll that finds unwanted ones without end does not: *)
(* xhas_in never leaves its loop, as its TODO says; a publisher stops      *)
(* sending them when the cancellation has reached it.                      *)
TurnComes ==
    []<>Processing =>
        \A p \in Pubs, n \in 0..Ids - 1 : []<>~(Readable(p) /\ Head(queue[p]).id = n)
=============================================================================
