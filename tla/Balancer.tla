------------------------------ MODULE Balancer ------------------------------
(***************************************************************************)
(* How Push, and a Request or a Dealer, spread messages over connections   *)
(* (lb_t): frame by frame, the frames of a message to the pipe its first   *)
(* frame went to, the next message to the next pipe.  The pipe in turn is  *)
(* an index into an array whose elements move when a pipe fills up, comes  *)
(* back or terminates, and commands that do this are processed before      *)
(* every frame.                                                            *)
(***************************************************************************)
EXTENDS Integers, Sequences, Functions

CONSTANTS LbPipes,
          Hwm,        \* send high water mark: messages in a pipe
          MaxParts,   \* bound: frames of a message
          LbIds       \* messages are numbered modulo LbIds

VARIABLES
    state,      \* state[p]: "none", "open" or "ending" (waits for the last ack)
    active,     \* lb_t::_pipes up to _active
    current,    \* lb_t::_current, an index into active
    more,       \* lb_t::_more
    dropping,   \* lb_t::_dropping
    queue,      \* queue[p]: frames flushed to the session
    draft,      \* draft[p]: frames written and not flushed
    sending     \* the application's message: its number, size and next frame

turnVars == <<active, current, more, dropping>>

balancerVars == <<turnVars, state, queue, draft, sending>>

LbInit ==
    /\ state = [p \in LbPipes |-> "none"]
    /\ active = <<>> /\ current = 1
    /\ more = FALSE /\ dropping = FALSE
    /\ queue = [p \in LbPipes |-> <<>>] /\ draft = [p \in LbPipes |-> <<>>]
    /\ sending = [id |-> 0, size |-> 1, next |-> 1, waits |-> FALSE]

(* The array without its i-th element, whose place the last one takes. *)
Without(s, i) == [j \in 1..Len(s) - 1 |-> IF j = i THEN s[Len(s)] ELSE s[j]]

Frame == [id |-> sending.id, part |-> sending.next, more |-> sending.next < sending.size]

-----------------------------------------------------------------------------
(* The application: the frames of a message, one call of zmq_send each.    *)

(* The next message; `waits' unless it is sent with nonblocking. *)
NewMessage ==
    \E size \in 1..MaxParts, waits \in BOOLEAN :
        sending' = [id |-> (sending.id + 1) % LbIds, size |-> size, next |-> 1, waits |-> waits]

FrameSent == IF Frame.more THEN sending' = [sending EXCEPT !.next = @ + 1] ELSE NewMessage

(* The rest of a message that is being dropped. *)
SendDropped ==
    /\ dropping
    /\ more' = Frame.more /\ dropping' = Frame.more
    /\ FrameSent
    /\ UNCHANGED <<state, active, current, queue, draft>>

Messages(p) == Len(SelectSeq(queue[p], LAMBDA f : ~f.more))

(* pipe_t::check_write *)
Writable(p) == state[p] = "open" /\ Messages(p) < Hwm

(* Mutant of SendPipe: the turn passes on after every frame. *)
SendPipeByFrame ==
    /\ ~dropping /\ active # <<>>
    /\ LET p == active[current] IN
       /\ Writable(p)
       /\ more' = Frame.more
       /\ current' = IF current = Len(active) THEN 1 ELSE current + 1
       /\ IF Frame.more
          THEN draft' = [draft EXCEPT ![p] = Append(@, Frame)] /\ UNCHANGED queue
          ELSE /\ queue' = [queue EXCEPT ![p] = @ \o Append(draft[p], Frame)]
               /\ draft' = [draft EXCEPT ![p] = <<>>]
    /\ FrameSent
    /\ UNCHANGED <<state, active, dropping>>

(* lb_t::sendpipe: the pipe in turn takes the frame; after the last one it *)
(* is flushed, and the turn passes on.                                     *)
SendPipe ==
    /\ ~dropping /\ active # <<>>
    /\ LET p == active[current] IN
       /\ Writable(p)
       /\ more' = Frame.more
       /\ IF Frame.more
          THEN draft' = [draft EXCEPT ![p] = Append(@, Frame)] /\ UNCHANGED <<queue, current>>
          ELSE /\ queue' = [queue EXCEPT ![p] = @ \o Append(draft[p], Frame)]
               /\ draft' = [draft EXCEPT ![p] = <<>>]
               /\ current' = IF current = Len(active) THEN 1 ELSE current + 1
    /\ FrameSent
    /\ UNCHANGED <<state, active, dropping>>

(* It takes no message: the next pipe is tried. *)
PassOver ==
    /\ ~dropping /\ ~more /\ active # <<>>
    /\ ~Writable(active[current])
    /\ active' = Without(active, current)
    /\ current' = IF current = Len(active) THEN 1 ELSE current
    /\ UNCHANGED <<state, more, dropping, queue, draft, sending>>

(* It does not take the rest of the message, because it is ending: what it *)
(* has is taken back.  A send that waits says that all is well and the     *)
(* rest is dropped; one that does not fails, and the application gives the *)
(* message up (multipart_t::send) while lb_t drops what comes next.        *)
Break ==
    /\ ~dropping /\ more /\ active # <<>>
    /\ LET p == active[current] IN
       /\ ~Writable(p)
       /\ draft' = [draft EXCEPT ![p] = <<>>]
    /\ dropping' = Frame.more
    /\ more' = FALSE
    /\ IF sending.waits THEN FrameSent ELSE NewMessage
    /\ UNCHANGED <<state, active, current, queue>>

(* No pipe takes the message; a send that waits waits. *)
Refuse ==
    /\ ~dropping /\ active = <<>> /\ ~sending.waits
    /\ NewMessage
    /\ UNCHANGED <<state, turnVars, queue, draft>>

-----------------------------------------------------------------------------
(* Commands, processed when a call of zmq_send begins or waits.            *)

Attach(p) ==
    /\ state[p] = "none"
    /\ state' = [state EXCEPT ![p] = "open"]
    /\ queue' = [queue EXCEPT ![p] = <<>>] /\ draft' = [draft EXCEPT ![p] = <<>>]
    /\ active' = Append(active, p)
    /\ UNCHANGED <<current, more, dropping, sending>>

(* The session has read enough: lb_t::activated. *)
Activated(p) ==
    /\ state[p] = "open" /\ Messages(p) < Hwm
    /\ p \notin Range(active)
    /\ active' = Append(active, p)
    /\ UNCHANGED <<state, current, more, dropping, queue, draft, sending>>

(* The peer has gone: pipe_t::process_pipe_term. *)
PeerGone(p) ==
    /\ state[p] = "open"
    /\ state' = [state EXCEPT ![p] = "ending"]
    /\ UNCHANGED <<turnVars, queue, draft, sending>>

(* The last ack: lb_t::pipe_terminated.  The last pipe of the array takes  *)
(* the place of p; if it was the one in turn, the turn goes to the first,  *)
(* even in the middle of a message.                                        *)
PipeTerminated(p) ==
    /\ state[p] = "ending"
    /\ state' = [state EXCEPT ![p] = "none"]
    /\ draft' = [draft EXCEPT ![p] = <<>>]
    /\ IF p \in Range(active)
       THEN \E i \in 1..Len(active) :
              /\ active[i] = p
              /\ dropping' = (dropping \/ (i = current /\ more))
              /\ active' = Without(active, i)
              /\ current' = IF current = Len(active) THEN 1 ELSE current
       ELSE UNCHANGED <<active, current, dropping>>
    /\ UNCHANGED <<more, queue, sending>>

(* The session reads a message. *)
Drain(p) ==
    /\ \E last \in DOMAIN queue[p] :
          /\ ~queue[p][last].more /\ \A i \in 1..last - 1 : queue[p][i].more
          /\ queue' = [queue EXCEPT ![p] = SubSeq(@, last + 1, Len(@))]
    /\ UNCHANGED <<turnVars, state, draft, sending>>

LbNext ==
    \/ SendDropped \/ SendPipe \/ PassOver \/ Break \/ Refuse
    \/ \E p \in LbPipes : Attach(p) \/ Activated(p) \/ PeerGone(p) \/ PipeTerminated(p) \/ Drain(p)

LbSpec == LbInit /\ [][LbNext]_balancerVars

-----------------------------------------------------------------------------
Frames == [id : 0..LbIds - 1, part : 1..MaxParts, more : BOOLEAN]

LbTypeOK ==
    /\ state \in [LbPipes -> {"none", "open", "ending"}]
    /\ active \in Seq(LbPipes) /\ IsInjective(active)
    /\ current \in 1..Len(active) \/ current = 1
    /\ more \in BOOLEAN /\ dropping \in BOOLEAN
    /\ queue \in [LbPipes -> Seq(Frames)] /\ draft \in [LbPipes -> Seq(Frames)]
    /\ sending \in [id : 0..LbIds - 1, size : 1..MaxParts, next : 1..MaxParts, waits : BOOLEAN]
    /\ sending.next <= sending.size

(* The frames of a pipe follow each other as the application sent them. *)
Follows(f, g) ==
    IF f.more THEN g.id = f.id /\ g.part = f.part + 1 ELSE g.part = 1

(* What a peer can read is whole messages, in order: no message is begun   *)
(* on one connection and ended on another (lb_t::sendpipe,                 *)
(* pipe_terminated).  With at most two connections this is so whichever of *)
(* them come, fill up and go between two frames.  With three it is not:    *)
(* when one ends, the pipe in turn may be the one that is moved to its     *)
(* place, and PipeTerminated forgets it (run torn_push).                   *)
FramesInTurn ==
    \A p \in LbPipes : LET s == queue[p] \o draft[p] IN
        /\ s # <<>> => s[1].part = 1
        /\ \A i \in 1..Len(s) - 1 : Follows(s[i], s[i + 1])

(* The same, with the type invariant: whole messages over each of at most  *)
(* two connections of lb_t.                                                *)
WholePerPeer == LbTypeOK /\ FramesInTurn
=============================================================================
