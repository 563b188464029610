---------------------------- MODULE Subscription ----------------------------
(***************************************************************************)
(* The subscription plane of ofxZeroMQ: what Subscriber::addFilter,        *)
(* removeFilter, removeAllFilters, connect and disconnect do to the        *)
(* filters of a subscriber, how the commands they cause travel to a        *)
(* publisher, and what a lost connection does to them.                     *)
(*                                                                         *)
(* Three tables have to agree.  `filters' is the std::set of the           *)
(* Subscriber, `refs' the reference-counted trie of its SUB socket and     *)
(* `trie' the publisher's table of who wants what.  The first two belong   *)
(* to the subscriber's thread, the third to the publisher's; between them  *)
(* runs the pipe `cmds', which an I/O thread replaces when the connection  *)
(* breaks.                                                                 *)
(***************************************************************************)
EXTENDS Integers, Sequences, FiniteSets, Functions

CONSTANTS Subs,        \* Subscriber objects
          Pubs,        \* publisher endpoints they may connect to
          Filters,     \* filter strings
          All,         \* the empty filter "", which every message matches
          MaxCalls,    \* bound: calls of the subscribers' API
          MaxDrops     \* bound: connections lost

ASSUME FiltersAssumption == IsFiniteSet(Filters) /\ All \in Filters

ASSUME BoundsAssumption == MaxCalls \in Nat /\ MaxDrops \in Nat

VARIABLES
    filters,    \* filters[s]: Subscriber::filters
    refs,       \* refs[s][f]: reference count of f in the trie of the SUB socket
    link,       \* link[l]: "none" (no pipe), "down" (connecting) or "up"
    hiccuped,   \* links whose pipe the I/O thread replaced, unnoticed so far
    cmds,       \* cmds[l]: subscription commands in the current pipe
    trie,       \* trie[l]: filters the publisher holds for this connection
    calls,      \* API calls made
    drops       \* connections lost

subVars == <<filters, refs, link, hiccuped, cmds, trie, calls, drops>>

Links == Subs \X Pubs

Commands == [op : {"sub", "cancel"}, filter : Filters]

(* What the SUB socket is subscribed to. *)
Live(s) == {f \in Filters : refs[s][f] > 0}

(* The orders in which a table may be walked: one entry per filter. *)
Orders(F) == Bijection(1..Cardinality(F), F)

Batch(op, order) == [i \in 1..Len(order) |-> [op |-> op, filter |-> order[i]]]

(* A write made before a hiccup is noticed goes to the pipe that is about  *)
(* to be destroyed.                                                        *)
Writable(l) == link[l] # "none" /\ l \notin hiccuped

SendToAll(s, batch) ==
    cmds' = [l \in Links |-> IF l[1] = s /\ Writable(l) THEN cmds[l] \o batch
                                                        ELSE cmds[l]]

SubInit ==
    /\ filters = [s \in Subs |-> {}]
    /\ refs = [s \in Subs |-> [f \in Filters |-> 0]]
    /\ link = [l \in Links |-> "none"]
    /\ hiccuped = {}
    /\ cmds = [l \in Links |-> <<>>]
    /\ trie = [l \in Links |-> {}]
    /\ calls = 0
    /\ drops = 0

Call == calls < MaxCalls /\ calls' = calls + 1

-----------------------------------------------------------------------------
(* Every call subscribes again: the set ignores a duplicate, the trie      *)
(* counts it and the command is sent in any case.                          *)
AddFilter(s, f) ==
    /\ Call
    /\ filters' = [filters EXCEPT ![s] = @ \cup {f}]
    /\ refs' = [refs EXCEPT ![s][f] = @ + 1]
    /\ SendToAll(s, <<[op |-> "sub", filter |-> f]>>)
    /\ UNCHANGED <<link, hiccuped, trie, drops>>

(* trie_t::rm for each filter of F: a count goes down by one, not below 0. *)
Release(s, F) ==
    refs' = [refs EXCEPT ![s] =
                [f \in Filters |-> IF f \in F /\ @[f] > 0 THEN @[f] - 1 ELSE @[f]]]

(* Mutant of Cancelled: cancels without looking at the count. *)
CancelledUncounted(s, F) == F

(* The filters of F whose count reaches 0, the only ones cancelled.        *)
Cancelled(s, F) == {f \in F : refs[s][f] = 1}

(* removeFilter answers whether the set had the filter; without it there   *)
(* is nothing to do.                                                       *)
RemoveAnswer(s, f) == f \in filters[s]

(* Mutant of RemoveFilter: unsubscribes without asking the set. *)
RemoveFilterUnchecked(s, f) ==
    /\ Call
    /\ filters' = [filters EXCEPT ![s] = @ \ {f}]
    /\ refs' = [refs EXCEPT ![s][f] = @ - 1]
    /\ SendToAll(s, <<[op |-> "cancel", filter |-> f]>>)
    /\ UNCHANGED <<link, hiccuped, trie, drops>>

RemoveFilter(s, f) ==
    /\ Call
    /\ RemoveAnswer(s, f)
    /\ filters' = [filters EXCEPT ![s] = @ \ {f}]
    /\ Release(s, {f})
    /\ \E order \in Orders(Cancelled(s, {f})) : SendToAll(s, Batch("cancel", order))
    /\ UNCHANGED <<link, hiccuped, trie, drops>>

(* Mutant of RemoveAllFilters: forgets filters.clear(). *)
RemoveAllFiltersKeepsSet(s) ==
    /\ Call
    /\ filters[s] # {}
    /\ Release(s, filters[s])
    /\ \E order \in Orders(Cancelled(s, filters[s])) : SendToAll(s, Batch("cancel", order))
    /\ UNCHANGED <<filters, link, hiccuped, trie, drops>>

RemoveAllFilters(s) ==
    /\ Call
    /\ filters[s] # {}
    /\ filters' = [filters EXCEPT ![s] = {}]
    /\ Release(s, filters[s])
    /\ \E order \in Orders(Cancelled(s, filters[s])) : SendToAll(s, Batch("cancel", order))
    /\ UNCHANGED <<link, hiccuped, trie, drops>>

(* A subscriber without filters first adds "", on the connections it has   *)
(* too.  A new pipe starts with every live subscription; connecting twice  *)
(* to an endpoint makes no second pipe.                                    *)
Connect(s, p) ==
    LET added == IF filters[s] = {} THEN {All} ELSE {} IN
    /\ Call
    /\ filters' = [filters EXCEPT ![s] = @ \cup added]
    /\ refs' = [refs EXCEPT ![s] =
                   [f \in Filters |-> IF f \in added THEN @[f] + 1 ELSE @[f]]]
    /\ link' = [link EXCEPT ![<<s, p>>] = IF @ = "none" THEN "down" ELSE @]
    /\ \E order \in Orders(Live(s) \cup added), more \in Orders(added) :
          cmds' = [l \in Links |->
                      CASE l = <<s, p>> /\ link[l] = "none" -> Batch("sub", order)
                        [] l[1] = s /\ Writable(l) -> cmds[l] \o Batch("sub", more)
                        [] OTHER -> cmds[l]]
    /\ UNCHANGED <<hiccuped, trie, drops>>

(* The pipe is terminated and everything in it dropped (linger 0). *)
Disconnect(s, p) ==
    LET l == <<s, p>> IN
    /\ Call
    /\ link[l] # "none"
    /\ link' = [link EXCEPT ![l] = "none"]
    /\ hiccuped' = hiccuped \ {l}
    /\ cmds' = [cmds EXCEPT ![l] = <<>>]
    /\ trie' = [trie EXCEPT ![l] = {}]
    /\ UNCHANGED <<filters, refs, drops>>

-----------------------------------------------------------------------------
(* An I/O thread completes a connection, the first or a later one. *)
Establish(l) ==
    /\ link[l] = "down"
    /\ link' = [link EXCEPT ![l] = "up"]
    /\ UNCHANGED <<filters, refs, hiccuped, cmds, trie, calls, drops>>

(* The connection breaks.  The publisher forgets the peer; the session     *)
(* starts to reconnect and puts a fresh pipe in the place of the old one,  *)
(* which the subscriber's thread learns later.                             *)
LinkDown(l) ==
    /\ drops < MaxDrops
    /\ drops' = drops + 1
    /\ link[l] = "up"
    /\ link' = [link EXCEPT ![l] = "down"]
    /\ hiccuped' = hiccuped \cup {l}
    /\ cmds' = [cmds EXCEPT ![l] = <<>>]
    /\ trie' = [trie EXCEPT ![l] = {}]
    /\ UNCHANGED <<filters, refs, calls>>

(* Mutant of ProcessHiccup: takes the new pipe and sends nothing. *)
ProcessHiccupSilently(l) ==
    /\ l \in hiccuped
    /\ hiccuped' = hiccuped \ {l}
    /\ UNCHANGED <<filters, refs, link, cmds, trie, calls, drops>>

(* The subscriber's thread finds the new pipe and writes all live          *)
(* subscriptions to it.                                                    *)
ProcessHiccup(l) ==
    /\ l \in hiccuped
    /\ hiccuped' = hiccuped \ {l}
    /\ \E order \in Orders(Live(l[1])) : cmds' = [cmds EXCEPT ![l] = Batch("sub", order)]
    /\ UNCHANGED <<filters, refs, link, trie, calls, drops>>

(* The publisher applies the next command it received. *)
ProcessCommand(l) ==
    /\ link[l] = "up"
    /\ cmds[l] # <<>>
    /\ LET c == Head(cmds[l])
       IN  trie' = [trie EXCEPT ![l] = IF c.op = "sub" THEN @ \cup {c.filter}
                                                       ELSE @ \ {c.filter}]
    /\ cmds' = [cmds EXCEPT ![l] = Tail(@)]
    /\ UNCHANGED <<filters, refs, link, hiccuped, calls, drops>>

-----------------------------------------------------------------------------
SubNext ==
    \/ \E s \in Subs : \/ \E f \in Filters : AddFilter(s, f) \/ RemoveFilter(s, f)
                       \/ RemoveAllFilters(s)
                       \/ \E p \in Pubs : Connect(s, p) \/ Disconnect(s, p)
    \/ \E l \in Links : \/ Establish(l)
                        \/ LinkDown(l)
                        \/ ProcessHiccup(l)
                        \/ ProcessCommand(l)

(* The I/O threads keep reconnecting; the applications keep calling        *)
(* hasWaitingMessage and send from their frame loop, and every call        *)
(* processes what arrived for its socket.                                  *)
SubFairness == \A l \in Links : /\ WF_subVars(Establish(l))
                                /\ WF_subVars(ProcessHiccup(l))
                                /\ WF_subVars(ProcessCommand(l))

SubSpec == SubInit /\ [][SubNext]_subVars /\ SubFairness

-----------------------------------------------------------------------------
SubTypeOK ==
    /\ filters \in [Subs -> SUBSET Filters]
    /\ refs \in [Subs -> [Filters -> Nat]]
    /\ link \in [Links -> {"none", "down", "up"}]
    /\ hiccuped \subseteq Links
    /\ cmds \in [Links -> Seq(Commands)]
    /\ trie \in [Links -> SUBSET Filters]
    /\ calls \in 0..MaxCalls
    /\ drops \in 0..MaxDrops

(* A filter the Subscriber object lists is installed in its socket:        *)
(* removing one filter, or all, must never take away the subscription of   *)
(* a filter that stays (Subscriber::addFilter, removeFilter, connect).     *)
FiltersInstalled == \A s \in Subs : filters[s] \subseteq Live(s)

(* Whether a table T will hold filter f once the commands of q have been   *)
(* applied to it: the last command about f decides.                        *)
WillHold(q, T, f) ==
    \/ \E i \in 1..Len(q) : /\ q[i] = [op |-> "sub", filter |-> f]
                           /\ \A j \in i+1..Len(q) : q[j].filter # f
    \/ f \in T /\ \A i \in 1..Len(q) : q[i].filter # f

(* Whatever calls, connection losses and reconnects happened, in whatever  *)
(* order the threads noticed them, the publisher's table and the commands  *)
(* under way to it add up to the subscriber's live subscriptions, on every *)
(* connection whose last loss the subscriber has noticed (xsub_t::xsend,   *)
(* xattach_pipe and xhiccuped against xpub_t::xread_activated).            *)
Agreement ==
    \A l \in Links : Writable(l) =>
        \A f \in Filters : WillHold(cmds[l], trie[l], f) <=> f \in Live(l[1])

(* No table and no command outlives its connection; with it the           *)
(* properties above are inductive.                                         *)
NoStaleTable ==
    \A l \in Links : /\ link[l] # "up" \/ l \in hiccuped => trie[l] = {}
                     /\ l \in hiccuped => cmds[l] = <<>> /\ link[l] # "none"

(* README "support auto reconnect": when calls and failures stop, the      *)
(* publisher ends up with exactly the subscriptions of every connected     *)
(* subscriber.                                                             *)
EventuallyInstalled ==
    \A l \in Links : <>[](link[l] # "none" => link[l] = "up" /\ trie[l] = Live(l[1]))
=============================================================================
