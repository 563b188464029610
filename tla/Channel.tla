------------------------------ MODULE Channel ------------------------------
(***************************************************************************)
(* What a publish-subscribe link promises, without saying how: a message   *)
(* grows part by part at the publisher and, once closed, may be delivered  *)
(* to a subscriber.  It is delivered whole or not at all, at most once and *)
(* in the order of publication; any message may be lost.                   *)
(***************************************************************************)
EXTENDS Integers, Sequences

CONSTANTS Subs, Pubs, Topics

VARIABLES sent,     \* sent[p]: messages of p, each a topic and a number of parts
          more,     \* more[p]: the last message of p is still open
          got       \* got[l]: the last message delivered on link l

chanVars == <<sent, more, got>>

ChanInit ==
    /\ sent = [p \in Pubs |-> <<>>]
    /\ more = [p \in Pubs |-> FALSE]
    /\ got = [l \in Subs \X Pubs |-> [msg |-> 0, parts |-> 0]]

Begin(p, t) ==
    /\ ~more[p]
    /\ sent' = [sent EXCEPT ![p] = Append(@, [topic |-> t, parts |-> 1])]
    /\ \E m \in BOOLEAN : more' = [more EXCEPT ![p] = m]
    /\ UNCHANGED got

Extend(p) ==
    /\ more[p]
    /\ sent' = [sent EXCEPT ![p][Len(sent[p])].parts = @ + 1]
    /\ \E m \in BOOLEAN : more' = [more EXCEPT ![p] = m]
    /\ UNCHANGED got

Deliver(l) ==
    LET p == l[2] IN
    \E n \in got[l].msg + 1 .. Len(sent[p]) :
        /\ n = Len(sent[p]) => ~more[p]
        /\ got' = [got EXCEPT ![l] = [msg |-> n, parts |-> sent[p][n].parts]]
        /\ UNCHANGED <<sent, more>>

ChanNext ==
    \/ \E p \in Pubs : Extend(p) \/ \E t \in Topics : Begin(p, t)
    \/ \E l \in Subs \X Pubs : Deliver(l)

ChanSpec == ChanInit /\ [][ChanNext]_chanVars
=============================================================================
