-------------------------------- MODULE Dist ---------------------------------
(***************************************************************************)
(* dist_t: the pipes a PUB socket writes messages to and a SUB socket      *)
(* filters.  They are kept in one array, in which three counters mark off  *)
(* those the message in progress goes to, those it could go to and those   *)
(* the next one may go to; every operation exchanges entries at the marks, *)
(* and each pipe remembers where it is.  PubSub has sets instead.          *)
(*                                                                         *)
(* Entries count from 1 here.                                              *)
(***************************************************************************)
EXTENDS Naturals, Sequences, SequencesExt

CONSTANTS DistPipes,
          DistHwm,      \* the high water mark of each
          DistParts     \* bound: parts of a message

VARIABLES role,       \* "pub" or "sub": whose pipes they are
          dist,       \* dist_t, with the index of each pipe (array_item_t)
          ends,       \* ends[p]: the socket's end of pipe p
          took,       \* took[p]: parts of the last message that p took
          due,        \* pipes that could take it when it began
          parts,      \* parts of it
          forgotten   \* left out by dist_t but ready, since a hiccup

distVars == <<role, dist, ends, took, due, parts, forgotten>>

NoEnd == [state |-> "none", out |-> FALSE, inflight |-> 0]
FreshEnd == [state |-> "active", out |-> TRUE, inflight |-> 0]

DistInit ==
    /\ role \in {"pub", "sub"}
    /\ dist = [arr |-> <<>>, idx |-> [p \in DistPipes |-> 0],
               matching |-> 0, active |-> 0, eligible |-> 0, more |-> FALSE]
    /\ ends = [p \in DistPipes |-> NoEnd]
    /\ took = [p \in DistPipes |-> 0] /\ due = {} /\ parts = 0
    /\ forgotten = {}

-----------------------------------------------------------------------------
(* array_t *)
Swap(d, i, j) == [d EXCEPT !.arr = [@ EXCEPT ![i] = d.arr[j], ![j] = d.arr[i]],
                           !.idx = [@ EXCEPT ![d.arr[i]] = j, ![d.arr[j]] = i]]
PushBack(d, p) == [d EXCEPT !.arr = Append(@, p), !.idx[p] = Len(d.arr) + 1]
Erase(d, p) == LET end == Last(d.arr) IN
               [d EXCEPT !.arr = Front([@ EXCEPT ![d.idx[p]] = end]),
                         !.idx = [[@ EXCEPT ![end] = d.idx[p]] EXCEPT ![p] = 0]]

(* dist_t *)
AttachPipe(d, p) ==
    LET e == PushBack(d, p) IN
    IF d.more THEN [Swap(e, d.eligible + 1, Len(e.arr)) EXCEPT !.eligible = @ + 1]
    ELSE [Swap(e, d.active + 1, Len(e.arr)) EXCEPT !.active = @ + 1, !.eligible = @ + 1]

Match(d, p) ==
    IF d.idx[p] <= d.matching \/ d.idx[p] > d.eligible THEN d
    ELSE [Swap(d, d.idx[p], d.matching + 1) EXCEPT !.matching = @ + 1]

(* The pipes of the filters that match, one after the other. *)
AllMatched(d, named) ==
    LET after[n \in 0..Len(named)] == IF n = 0 THEN d ELSE Match(after[n - 1], named[n])
    IN  after[Len(named)]

(* Mutant of LeaveOut: the pipe changes places with the last eligible one. *)
LeaveOutAtOnce(d, p) ==
    [Swap(d, d.idx[p], d.eligible)
     EXCEPT !.matching = @ - 1, !.active = @ - 1, !.eligible = @ - 1]

(* What write does with a pipe that refuses. *)
LeaveOut(d, p) ==
    LET a == Swap(d, d.idx[p], d.matching)
        b == Swap(a, a.idx[p], d.active)
    IN  [Swap(b, d.active, d.eligible)
         EXCEPT !.matching = @ - 1, !.active = @ - 1, !.eligible = @ - 1]

ActivatePipe(d, p) ==
    LET e == IF d.eligible < Len(d.arr)
             THEN [Swap(d, d.idx[p], d.eligible + 1) EXCEPT !.eligible = @ + 1] ELSE d
    IN  IF ~d.more /\ d.active < Len(d.arr)
        THEN [Swap(e, e.eligible, d.active + 1) EXCEPT !.active = @ + 1]
        ELSE e

RemovePipe(d, p) ==
    LET a == IF d.idx[p] <= d.matching
             THEN [Swap(d, d.idx[p], d.matching) EXCEPT !.matching = @ - 1] ELSE d
        b == IF a.idx[p] <= a.active
             THEN [Swap(a, a.idx[p], a.active) EXCEPT !.active = @ - 1] ELSE a
        c == IF b.idx[p] <= b.eligible
             THEN [Swap(b, b.idx[p], b.eligible) EXCEPT !.eligible = @ - 1] ELSE b
    IN  Erase(c, p)

(* pipe_t::check_write and write, of a frame that is the last or not.      *)
Accepts(e) == e.out /\ e.state = "active" /\ e.inflight < DistHwm
Refused(e) == [e EXCEPT !.out = @ /\ e.state # "active"]
Written(e, more) == IF more THEN e ELSE [e EXCEPT !.inflight = @ + 1]

(* distribute: a pipe that refuses goes behind the marks, and the one that *)
(* comes to its place is tried next.  One matching pipe is done with each  *)
(* time.                                                                   *)
TryNext(s, more) ==
    LET p == s.dist.arr[s.at] IN
    IF Accepts(s.ends[p])
    THEN [s EXCEPT !.ends[p] = Written(@, more), !.took[p] = @ + 1, !.at = @ + 1]
    ELSE [s EXCEPT !.dist = LeaveOut(@, p), !.ends[p] = Refused(@)]

Distributed(s, more) ==
    LET after[n \in 0..s.dist.matching] ==
            IF n = 0 THEN s ELSE TryNext(after[n - 1], more)
    IN  after[s.dist.matching]

(* send_to_matching; xpub_t::xsend has no pipe matching after a message.   *)
SendToMatching(d, before, more) ==
    LET s == Distributed([dist |-> d, ends |-> ends, took |-> before, at |-> 1], more) IN
    /\ dist' = [s.dist EXCEPT !.active = IF more THEN @ ELSE s.dist.eligible,
                              !.matching = IF more \/ role = "sub" THEN @ ELSE 0,
                              !.more = more]
    /\ ends' = s.ends
    /\ took' = s.took

-----------------------------------------------------------------------------
Attached == {p \in DistPipes : ends[p].state # "none"}
NoParts == [p \in DistPipes |-> 0]

(* What is remembered of a message until it is over, or the pipe is.       *)
Remember(left) ==
    /\ took' = [p \in DistPipes |-> IF dist.more /\ p \in left THEN took[p] ELSE 0]
    /\ due' = IF dist.more THEN due \cap left ELSE {}
    /\ parts' = IF dist.more THEN parts ELSE 0

(* The first part of a message selects the pipes; mtrie_t::match names one *)
(* for each of its filters that matches, which are two here.               *)
SendFirst ==
    /\ role = "pub" /\ ~dist.more
    /\ \E wanted \in SUBSET Attached, more \in BOOLEAN :
          /\ \E named \in SetToSeqs(wanted) :
                SendToMatching(AllMatched(dist, named \o named), NoParts, more)
          /\ due' = {p \in wanted : Accepts(ends[p])}
    /\ parts' = 1
    /\ UNCHANGED <<role, forgotten>>

SendNext ==
    /\ dist.more
    /\ \E more \in {FALSE} \cup {parts + 1 < DistParts} : SendToMatching(dist, took, more)
    /\ parts' = parts + 1
    /\ UNCHANGED <<role, due, forgotten>>

(* A filter is set or removed (send_to_all). *)
SendToAll ==
    /\ role = "sub"
    /\ SendToMatching([dist EXCEPT !.matching = dist.active], NoParts, FALSE)
    /\ due' = {p \in DistPipes : Accepts(ends[p])} \ forgotten
    /\ parts' = 1
    /\ UNCHANGED <<role, forgotten>>

(* send_subscription: n filters are written past dist_t. *)
Apply(e, n) == IF e.inflight + n <= DistHwm THEN [e EXCEPT !.inflight = @ + n]
               ELSE [e EXCEPT !.inflight = DistHwm, !.out = FALSE]
Applied(e, p) == IF role = "pub" THEN ends' = [ends EXCEPT ![p] = e]
                 ELSE \E n \in 0..DistHwm + 1 : ends' = [ends EXCEPT ![p] = Apply(e, n)]

XAttachPipe(p) ==
    /\ ends[p].state = "none"
    /\ dist' = AttachPipe(dist, p)
    /\ Applied(FreshEnd, p)
    /\ Remember(DistPipes)
    /\ UNCHANGED <<role, forgotten>>

(* process_activate_write: the peer has read. *)
ProcessActivateWrite(p) ==
    /\ ends[p].state = "active"
    /\ \E n \in 0..ends[p].inflight - 1 :
          ends' = [ends EXCEPT ![p].inflight = n, ![p].out = TRUE]
    /\ dist' = IF ends[p].out THEN dist ELSE ActivatePipe(dist, p)
    /\ forgotten' = {f \in forgotten : dist'.idx[f] > dist'.eligible}
    /\ Remember(DistPipes)
    /\ UNCHANGED role

(* process_hiccup: what was not read is gone, and the pipe is ready again, *)
(* which xhiccuped does not tell dist_t.                                   *)
ProcessHiccup(p) ==
    /\ role = "sub" /\ ends[p].state = "active"
    /\ \E n \in 0..ends[p].inflight :
          Applied([ends[p] EXCEPT !.inflight = n, !.out = TRUE], p)
    /\ forgotten' = IF ends'[p].out /\ dist.idx[p] > dist.eligible
                    THEN forgotten \cup {p} ELSE forgotten \ {p}
    /\ Remember(DistPipes)
    /\ UNCHANGED <<role, dist>>

(* The end of a pipe begins when one of its ends is told, and dist_t hears *)
(* of it when both agree.                                                  *)
ProcessPipeTerm(p) ==
    /\ ends[p].state = "active"
    /\ ends' = [ends EXCEPT ![p].state = "closing"]
    /\ Remember(DistPipes)
    /\ UNCHANGED <<role, dist, forgotten>>

XPipeTerminated(p) ==
    /\ ends[p].state = "closing"
    /\ ends' = [ends EXCEPT ![p] = NoEnd]
    /\ dist' = RemovePipe(dist, p)
    /\ forgotten' = forgotten \ {p}
    /\ Remember(DistPipes \ {p})
    /\ UNCHANGED role

DistNext ==
    \/ SendFirst \/ SendNext \/ SendToAll
    \/ \E p \in DistPipes : \/ XAttachPipe(p) \/ ProcessActivateWrite(p) \/ ProcessHiccup(p)
                           \/ ProcessPipeTerm(p) \/ XPipeTerminated(p)

DistSpec == DistInit /\ [][DistNext]_distVars

-----------------------------------------------------------------------------
UpTo(n) == {dist.arr[i] : i \in 1..n}
ActivePipes == {p \in DistPipes : ends[p].state = "active"}

(* Every pipe is where it says, and the marks are in order.                *)
Marked ==
    /\ ToSet(dist.arr) = Attached /\ \A p \in Attached : dist.arr[dist.idx[p]] = p
    /\ dist.matching <= dist.active /\ dist.active <= dist.eligible
    /\ dist.eligible <= Len(dist.arr)
    /\ ~dist.more => dist.active = dist.eligible /\ (role = "pub" => dist.matching = 0)

(* Whoever could take a message when it began gets all of it, and nobody   *)
(* else any of it, unless the pipe is ended.                               *)
AllOrNothing ==
    /\ \A p \in ActivePipes : took[p] = IF p \in due THEN parts ELSE 0
    /\ dist.more => UpTo(dist.matching) \cap ActivePipes = due \cap ActivePipes

(* A pipe that is left out is full, so that it will be named again when    *)
(* its peer has read; but for a subscriber's after a hiccup.               *)
LeftOutForReason ==
    /\ \A p \in ActivePipes \ (UpTo(dist.eligible) \cup forgotten) : ~ends[p].out
    /\ \A p \in ActivePipes : ~ends[p].out => ends[p].inflight = DistHwm
    /\ role = "pub" => \A p \in ActivePipes : ends[p].out <=> p \in UpTo(dist.eligible)

(* Whatever the exchanges at the marks do to the order of the pipes, a     *)
(* message is written to all the pipes that can take it, or to the end of  *)
(* it to the same ones, and a pipe that cannot is left out until it can    *)
(* (dist_t).                                                               *)
DistributedRight == Marked /\ AllOrNothing /\ LeftOutForReason
=============================================================================
