-------------------------------- MODULE Tries --------------------------------
(***************************************************************************)
(* The tables behind subscribing: every subscriber's trie_t, which counts  *)
(* its filters, and the publisher's generic_mtrie_t, which has the pipes   *)
(* of those who want a filter.  A node keeps its children in a table that  *)
(* covers just the bytes in use, grows at both ends, and shrinks again     *)
(* when a child becomes redundant.  The other modules take these tables    *)
(* for the counts and sets they stand for; this one has the nodes.         *)
(***************************************************************************)
EXTENDS Naturals, Sequences, SequencesExt, FiniteSetsExt

CONSTANTS Subs,      \* the subscribers, and their pipes at the publisher
          Filters,   \* filters: sequences of bytes
          Data,      \* the messages they are compared with
          MaxRefs    \* bound: filters set at a time, counted as often as set

VARIABLES trie,      \* trie[s]: the root of a subscriber's table
          mtrie,     \* the root of the publisher's
          attached,  \* the subscribers that are connected
          count,     \* history: how often s has set a filter
          right      \* the answers of the last call were right

vars == <<trie, mtrie, attached, count, right>>

(* An entry of a table is a node or nothing: a sequence of at most one.  A *)
(* node's entries say who wants it: a number of times or a set of pipes.   *)
Nothing == <<>>
Node(entries) == [entries |-> entries, min |-> 0, table |-> <<>>, live |-> 0]

Init ==
    /\ trie = [s \in Subs |-> Node(0)] /\ mtrie = Node({})
    /\ attached = {} /\ count = [s \in Subs |-> [f \in Filters |-> 0]] /\ right = TRUE

-----------------------------------------------------------------------------
(* What both tables do with their nodes.                                   *)

Blank(k) == [i \in 1..k |-> Nothing]

(* The table reaches to `c'. *)
Extended(n, c) ==
    IF n.table = <<>> THEN [n EXCEPT !.min = c, !.table = Blank(1)]
    ELSE IF c < n.min THEN [n EXCEPT !.min = c, !.table = Blank(n.min - c) \o @]
    ELSE IF c >= n.min + Len(n.table)
         THEN [n EXCEPT !.table = @ \o Blank(c - n.min + 1 - Len(@))]
    ELSE n

Covers(n, c) == c >= n.min /\ c < n.min + Len(n.table)
Child(n, c) == IF Covers(n, c) THEN n.table[c - n.min + 1] ELSE Nothing

(* The table from one index to another. *)
Cut(n, i, j) == [n EXCEPT !.min = @ + i - 1, !.table = SubSeq(@, i, j)]

Lives(t) == {i \in DOMAIN t : t[i] # Nothing}

(* Mutant of Compacted: from the right, one entry too few is cut off.      *)
CompactedOnce(n, i) ==
    IF n.live = 1 THEN IF i = 1 THEN Cut(n, Len(n.table), Len(n.table)) ELSE Cut(n, 1, 1)
    ELSE IF i = 1 THEN Cut(n, Min(Lives(n.table)), Len(n.table))
    ELSE IF i = Len(n.table) THEN Cut(n, 1, i - 1)
    ELSE n

(* After child `i' has gone.  The last child left is at the other end:     *)
(* trie_t asserts that it is, generic_mtrie_t looks for it.  With more of  *)
(* them the table shrinks at the end where the child was.                  *)
Compacted(n, i) ==
    IF n.live = 1 THEN IF i = 1 THEN Cut(n, Len(n.table), Len(n.table)) ELSE Cut(n, 1, 1)
    ELSE IF i = 1 THEN Cut(n, Min(Lives(n.table)), Len(n.table))
    ELSE IF i = Len(n.table) THEN Cut(n, 1, Max(Lives(n.table)))
    ELSE n

Pruned(n, i) ==
    IF Len(n.table) = 1 THEN [n EXCEPT !.table = <<>>, !.live = @ - 1]
    ELSE Compacted([n EXCEPT !.table[i] = Nothing, !.live = @ - 1], i)

Redundant(n, none) == n.entries = none /\ n.live = 0

-----------------------------------------------------------------------------
(* The walk down a filter, which is the same for adding and for removing   *)
(* in both tables.                                                         *)

(* add: nodes are created on the way to the one that gets `entries'.       *)
RECURSIVE Inserted(_, _, _, _)
Inserted(n, f, none, entries) ==
    IF f = <<>> THEN [n EXCEPT !.entries = entries]
    ELSE LET m == Extended(n, Head(f))
             i == Head(f) - m.min + 1
             child == IF m.table[i] = Nothing THEN Node(none) ELSE m.table[i][1]
         IN  [m EXCEPT !.table[i] = <<Inserted(child, Tail(f), none, entries)>>,
                       !.live = IF m.table[i] = Nothing THEN @ + 1 ELSE @]

(* rm: redundant nodes are pruned on the way back. *)
RECURSIVE Removed(_, _, _, _)
Removed(n, f, none, entries) ==
    IF f = <<>> THEN [n EXCEPT !.entries = entries]
    ELSE LET child == Child(n, Head(f))
             i == Head(f) - n.min + 1
         IN  IF child = Nothing THEN n
             ELSE LET m == Removed(child[1], Tail(f), none, entries)
                  IN  IF Redundant(m, none) THEN Pruned(n, i) ELSE [n EXCEPT !.table[i] = <<m>>]

(* The entries at a filter's node, on which the answers depend. *)
RECURSIVE At(_, _, _)
At(n, f, none) == IF f = <<>> THEN n.entries
                  ELSE IF Child(n, Head(f)) = Nothing THEN none
                  ELSE At(Child(n, Head(f))[1], Tail(f), none)

-----------------------------------------------------------------------------
(* trie_t                                                                  *)

Add(t, f) == Inserted(t, f, 0, At(t, f, 0) + 1)
IsNew(t, f) == At(t, f, 0) = 1                       \* add's answer, afterwards

Rm(t, f) == IF At(t, f, 0) = 0 THEN t ELSE Removed(t, f, 0, At(t, f, 0) - 1)
IsGone(t, f) == At(t, f, 0) = 1                      \* rm's answer, before

(* check: is there a filter on the way? *)
RECURSIVE Check(_, _)
Check(n, data) ==
    \/ n.entries > 0
    \/ data # <<>> /\ Child(n, Head(data)) # Nothing /\ Check(Child(n, Head(data))[1], Tail(data))

(* apply: the filters, in the order of the walk. *)
RECURSIVE Apply(_, _)
Apply(n, f) ==
    (IF n.entries > 0 THEN <<f>> ELSE <<>>)
    \o FlattenSeq([i \in DOMAIN n.table |->
          IF n.table[i] = Nothing THEN <<>> ELSE Apply(n.table[i][1], Append(f, n.min + i - 1))])

-----------------------------------------------------------------------------
(* generic_mtrie_t                                                         *)

AddPipe(t, f, p) == Inserted(t, f, {}, At(t, f, {}) \cup {p})
RmPipe(t, f, p) == Removed(t, f, {}, At(t, f, {}) \ {p})

(* rm_result *)
RmResult(t, f, p) == LET S == At(t, f, {})
                     IN  IF p \notin S THEN "not_found"
                         ELSE IF S = {p} THEN "last_value_removed"
                         ELSE "values_remain"

(* rm of a pipe from every node, with the filters that nobody else wants.  *)
(* The table is cut to the children that remain.                           *)
RECURSIVE RmAll(_, _, _)
RmAll(n, f, p) ==
    LET own == n.entries = {p}
        below == [i \in DOMAIN n.table |->
                    IF n.table[i] = Nothing THEN [node |-> Node({}), unique |-> {}]
                    ELSE RmAll(n.table[i][1], Append(f, n.min + i - 1), p)]
        kept == {i \in DOMAIN n.table : ~Redundant(below[i].node, {})}
        m == [n EXCEPT !.entries = @ \ {p}, !.live = Cardinality(kept),
                       !.table = [i \in DOMAIN @ |-> IF i \in kept THEN <<below[i].node>> ELSE Nothing]]
    IN  [node |-> IF kept = {} THEN [m EXCEPT !.table = <<>>] ELSE Cut(m, Min(kept), Max(kept)),
         unique |-> UNION {below[i].unique : i \in DOMAIN n.table} \cup (IF own THEN {f} ELSE {})]

(* match: everybody on the way. *)
RECURSIVE Match(_, _)
Match(n, data) ==
    n.entries \cup (IF data = <<>> \/ Child(n, Head(data)) = Nothing THEN {}
                    ELSE Match(Child(n, Head(data))[1], Tail(data)))

-----------------------------------------------------------------------------
(* Calls.  A subscriber tells the publisher of every filter it sets, also  *)
(* if it has set it before, and of one it gives up for the last time; a    *)
(* new connection gets all filters, and one that ends takes its filters    *)
(* out of the publisher's table.                                           *)

Wants(f) == {s \in attached : count[s][f] > 0}

Subscribe(s, f) ==
    /\ MapThenSumSet(LAMBDA x : count[x[1]][x[2]], Subs \X Filters) < MaxRefs
    /\ LET t == Add(trie[s], f) IN
       /\ trie' = [trie EXCEPT ![s] = t]
       /\ mtrie' = IF s \in attached THEN AddPipe(mtrie, f, s) ELSE mtrie
       /\ right' = (IsNew(t, f) = (count[s][f] = 0))
    /\ count' = [count EXCEPT ![s][f] = @ + 1]
    /\ UNCHANGED attached

Unsubscribe(s, f) ==
    /\ LET gone == IsGone(trie[s], f) IN
       /\ trie' = [trie EXCEPT ![s] = Rm(@, f)]
       /\ mtrie' = IF gone /\ s \in attached THEN RmPipe(mtrie, f, s) ELSE mtrie
       /\ right' = /\ gone = (count[s][f] = 1)
                   /\ gone /\ s \in attached =>
                         RmResult(mtrie, f, s) = IF Wants(f) = {s} THEN "last_value_removed"
                                                 ELSE "values_remain"
    /\ count' = [count EXCEPT ![s][f] = IF @ = 0 THEN 0 ELSE @ - 1]
    /\ UNCHANGED attached

Attach(s) ==
    /\ s \notin attached
    /\ attached' = attached \cup {s}
    /\ mtrie' = FoldLeft(LAMBDA t, f : AddPipe(t, f, s), mtrie, Apply(trie[s], <<>>))
    /\ right' = TRUE
    /\ UNCHANGED <<trie, count>>

Detach(s) ==
    /\ s \in attached
    /\ attached' = attached \ {s}
    /\ LET r == RmAll(mtrie, <<>>, s) IN
       /\ mtrie' = r.node
       /\ right' = (r.unique = {f \in Filters : Wants(f) = {s}})
    /\ UNCHANGED <<trie, count>>

Next == \E s \in Subs : \/ Attach(s) \/ Detach(s)
                        \/ \E f \in Filters : Subscribe(s, f) \/ Unsubscribe(s, f)

Spec == Init /\ [][Next]_vars

-----------------------------------------------------------------------------
(* A node has as many children as it says, at both ends of its table, none *)
(* of them redundant.                                                      *)
RECURSIVE Sound(_, _)
Sound(n, none) ==
    /\ n.live = Cardinality(Lives(n.table))
    /\ n.table # <<>> => {1, Len(n.table)} \subseteq Lives(n.table)
    /\ \A i \in Lives(n.table) : ~Redundant(n.table[i][1], none) /\ Sound(n.table[i][1], none)

(* The tables say what the calls amount to: every filter is found with its *)
(* count and its pipes, a message is checked and matched against those     *)
(* that are set and no others, and every call was answered right.          *)
Agree ==
    /\ right
    /\ Sound(mtrie, {}) /\ \A s \in Subs : Sound(trie[s], 0)
    /\ \A f \in Filters : At(mtrie, f, {}) = Wants(f) /\ \A s \in Subs : At(trie[s], f, 0) = count[s][f]
    /\ \A s \in Subs : ToSet(Apply(trie[s], <<>>)) = {f \in Filters : count[s][f] > 0}
    /\ \A d \in Data : LET on == {s \in Subs : \E f \in Filters : IsPrefix(f, d) /\ count[s][f] > 0} IN
          Match(mtrie, d) = on \cap attached /\ \A s \in Subs : Check(trie[s], d) = (s \in on)
=============================================================================
