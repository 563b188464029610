------------------------------ MODULE Service -------------------------------
(***************************************************************************)
(* The life of a Broker or an XPubSubProxy: setup starts a detached        *)
(* thread, the destructor asks it to stop and waits until it says that it  *)
(* has, and only then are the sockets it uses closed.  Two flags carry     *)
(* this, is_running and is_finish.  No constructor gives them a value.     *)
(***************************************************************************)

CONSTANT Kinds      \* of {"Broker", "XPubSubProxy"}

VARIABLES
    service,    \* which of the two it is
    running,    \* is_running
    finish,     \* is_finish
    owner,      \* "made", "set up", "waiting" in the destructor, "gone"
    at          \* the thread: "none", "loop" (its condition), inside it, or "ended"

lifeVars == <<service, running, finish, owner, at>>

LifeInit ==
    /\ service \in Kinds
    /\ running \in BOOLEAN /\ finish \in BOOLEAN
    /\ owner = "made"
    /\ at = "none"

(* Both sockets are bound; if bind throws, nothing else happens, which     *)
(* is as if setup was not called.  XPubSubProxy::setup leaves the flags    *)
(* alone.                                                                  *)
Setup ==
    /\ owner = "made"
    /\ running' = IF service = "Broker" THEN TRUE ELSE running
    /\ finish' = IF service = "Broker" THEN FALSE ELSE finish
    /\ owner' = "set up"
    /\ at' = "loop"
    /\ UNCHANGED service

(* ~Broker, ~XPubSubProxy *)
Destroy ==
    /\ owner \in {"made", "set up"}
    /\ running' = FALSE
    /\ owner' = "waiting"
    /\ UNCHANGED <<service, finish, at>>

(* The wait is over; the sockets are members and are closed now. *)
Destroyed ==
    /\ owner = "waiting" /\ finish
    /\ owner' = "gone"
    /\ UNCHANGED <<service, running, finish, at>>

(* Mutant of Leave: the end of the loop is not announced. *)
LeaveSilently ==
    /\ at = "loop" /\ ~running
    /\ at' = "ended"
    /\ UNCHANGED <<service, running, finish, owner>>

(* while(is_running) is left. *)
Leave ==
    /\ at = "loop" /\ ~running
    /\ finish' = TRUE
    /\ at' = "ended"
    /\ UNCHANGED <<service, running, owner>>

(* while(is_running) goes around. *)
Enter ==
    /\ at = "loop" /\ running
    /\ at' = "first"
    /\ UNCHANGED <<service, running, finish, owner>>

Goto(place) ==
    /\ at' = place
    /\ UNCHANGED <<service, running, finish, owner>>

(* What an XPubSubProxy does in its loop: its SUB side never subscribes,   *)
(* so that it polls a socket to which no publisher sends.                  *)
Idle == /\ service = "XPubSubProxy" /\ at = "first"
        /\ Goto("loop")

LifeNext == Setup \/ Destroy \/ Destroyed \/ Leave \/ Enter \/ Idle

LifeSpec == LifeInit /\ [][LifeNext]_lifeVars

-----------------------------------------------------------------------------
(* The sockets are closed only when the thread that uses them has left its *)
(* loop, as the loop of the destructor is there to see to.                 *)
SocketsOutliveThread == owner = "gone" => at \in {"none", "ended"}
=============================================================================
