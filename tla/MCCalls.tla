------------------------------ MODULE MCCalls -------------------------------
(***************************************************************************)
(* Small instances of the parts that are about the threads of the          *)
(* application: its calls, what they wait for and what they find, put      *)
(* together as in MCParts.  A behaviour chooses one part and runs that.    *)
(* Waiting and Mailbox are extended, the others are instances.             *)
(***************************************************************************)
EXTENDS Waiting, Mailbox, TLC

VARIABLE part

waitingVars == vars

mailEntries == [more : {FALSE}]

-----------------------------------------------------------------------------
VARIABLES rPipe, rQueue, rActive, rCurrent, rFqMore, rHeld, rMore, rSkipping, rWanted, rRevents,
          rCall, rBlocked, rAnswer, rSeen

receiverVars == <<rPipe, rQueue, rActive, rCurrent, rFqMore, rHeld, rMore, rSkipping, rWanted,
                  rRevents, rCall, rBlocked, rAnswer, rSeen>>

publishers == {"p1", "p2"}

Reading == INSTANCE Receiver WITH
    Pubs <- publishers, Topics <- {"tA"}, Cap <- 1, MaxParts <- 2, Ids <- 2, Careful <- TRUE,
    pipe <- rPipe, queue <- rQueue, active <- rActive, current <- rCurrent, fqMore <- rFqMore,
    held <- rHeld, more <- rMore, skipping <- rSkipping, wanted <- rWanted,
    revents <- rRevents, call <- rCall, blocked <- rBlocked, answer <- rAnswer, seen <- rSeen

VARIABLES iSock, iConn, iQueue, iRegistry, iPending, iFailed, iAt, iTerm, iToBind, iTunes

inprocVars == <<iSock, iConn, iQueue, iRegistry, iPending, iFailed, iAt, iTerm, iToBind, iTunes>>

(* Two connections of a PAIR to a ROUTER; the context does not end, so the *)
(* spare socket is not made.                                               *)
Local == INSTANCE Inproc WITH
    Binders <- {"a"}, Connecters <- {"b"}, Spares <- {"x"}, Pairs <- {"b", "x"},
    Routers <- {"a"}, Writers <- {}, Conns <- {"c1", "c2"}, Ending <- FALSE, Marks <- {2},
    Default <- 3, MaxTunes <- 0, None <- "none",
    sock <- iSock, conn <- iConn, queue <- iQueue, registry <- iRegistry, pending <- iPending,
    failed <- iFailed, at <- iAt, term <- iTerm, toBind <- iToBind, tunes <- iTunes

(* One connection, to which the bind may never come before the end. *)
Orphan == INSTANCE Inproc WITH
    Binders <- {"a"}, Connecters <- {"b"}, Spares <- {"x"}, Pairs <- {"b", "x"},
    Routers <- {"a"}, Writers <- {}, Conns <- {"c1"}, Ending <- TRUE, Marks <- {2},
    Default <- 3, MaxTunes <- 0, None <- "none",
    sock <- iSock, conn <- iConn, queue <- iQueue, registry <- iRegistry, pending <- iPending,
    failed <- iFailed, at <- iAt, term <- iTerm, toBind <- iToBind, tunes <- iTunes

(* Marks of all sorts for a PUSH that connects; and the same marks on both *)
(* sides, set once more while it is connected.                             *)
Marked(marks, most) == INSTANCE Inproc WITH
    Binders <- {"a"}, Connecters <- {"b"}, Spares <- {"x"}, Pairs <- {"x"}, Routers <- {},
    Writers <- {"b"}, Conns <- {"c1"}, Ending <- FALSE, Marks <- marks, Default <- 3,
    MaxTunes <- most, None <- "none",
    sock <- iSock, conn <- iConn, queue <- iQueue, registry <- iRegistry, pending <- iPending,
    failed <- iFailed, at <- iAt, term <- iTerm, toBind <- iToBind, tunes <- iTunes

VARIABLES oSession, oConnecter, oEngine, oTimers, oDue, oRan, oEntries, oMailbox,
          oFailed, oPlace, oBatch, oApp

pollerVars == <<oSession, oConnecter, oEngine, oTimers, oDue, oRan, oEntries, oMailbox,
                oFailed, oPlace, oBatch, oApp>>

Io == INSTANCE Poller WITH
    MaxTries <- 2, ConnectTimeouts <- TRUE, Lingers <- {"none", "time"},
    session <- oSession, connecter <- oConnecter, engine <- oEngine, timers <- oTimers,
    due <- oDue, ran <- oRan, entries <- oEntries, mailbox <- oMailbox,
    failed <- oFailed, place <- oPlace, batch <- oBatch, app <- oApp

-----------------------------------------------------------------------------
callsVars == <<part, receiverVars, waitingVars, mailVars, inprocVars, pollerVars>>

CallsInit ==
    /\ part \in {"receiver", "waiting", "mail", "local", "orphan", "marked", "tuned", "poller"}
    /\ Init
    /\ MailInit
    /\ Reading!Init
    /\ Io!Init
    /\ IF part = "orphan" THEN Orphan!Init
       ELSE IF part = "tuned" THEN Marked({2}, 1)!Init
       ELSE IF part = "marked" THEN Marked({0, 1, 6}, 0)!Init
       ELSE Local!Init

ReceiverStep ==
    /\ part = "receiver" /\ Reading!Next
    /\ UNCHANGED <<part, waitingVars, mailVars, inprocVars, pollerVars>>

WaitingStep ==
    /\ part = "waiting" /\ Next
    /\ UNCHANGED <<part, receiverVars, mailVars, inprocVars, pollerVars>>

MailStep ==
    /\ part = "mail" /\ MailNext
    /\ UNCHANGED <<part, receiverVars, waitingVars, inprocVars, pollerVars>>

InprocStep ==
    /\ \/ part = "local" /\ Local!Next
       \/ part = "orphan" /\ Orphan!Next
       \/ part = "marked" /\ Marked({0, 1, 6}, 0)!Next
       \/ part = "tuned" /\ Marked({2}, 1)!Next
    /\ UNCHANGED <<part, receiverVars, waitingVars, mailVars, pollerVars>>

PollerStep ==
    /\ part = "poller" /\ Io!Next
    /\ UNCHANGED <<part, receiverVars, waitingVars, mailVars, inprocVars>>

CallsNext == ReceiverStep \/ WaitingStep \/ MailStep \/ InprocStep \/ PollerStep

Reaper(s) == \/ part = "local" /\ Local!Reaper(s)
             \/ part = "orphan" /\ Orphan!Reaper(s)

InCall(s) == \/ part = "local" /\ Local!InCall(s)
             \/ part = "orphan" /\ Orphan!InCall(s)

(* The fairness of each specification, for the part that runs; of what is  *)
(* not guarded nothing is enabled while another part runs.                 *)
CallsFairness ==
    /\ WF_receiverVars(part = "receiver" /\ Reading!Step)
    /\ SF_receiverVars(part = "receiver" /\ Reading!Loop)
    /\ \A p \in publishers : SF_receiverVars(part = "receiver" /\ Reading!Activated(p))
    /\ Fairness
    /\ \A s \in Senders :
          WF_mailVars(part = "mail" /\ (Flush(s) \/ FinishFlush(s) \/ Unlock(s) \/ Signal(s)))
    /\ WF_mailVars(part = "mail" /\ (Receive \/ Read \/ Prefetch \/ Wait))
    /\ []<>~(part = "poller" /\ Io!Busy) \/ []<><<part = "poller" /\ Io!ThreadStep>>_pollerVars
    /\ []<>~Io!Lingering \/ []<><<part = "poller" /\ Io!RunTimer(<<"linger", 0>>)>>_pollerVars
    /\ WF_pollerVars(part = "poller" /\ oApp = "closed" /\ Io!AckPipe)
    /\ WF_pollerVars(part = "poller" /\ Io!Stop)
    /\ \A s \in {"a", "b", "x"} :
          /\ []<>~(part \in {"local", "orphan"} /\ Local!Reapable(s)) \/ []<><<Reaper(s)>>_inprocVars
          /\ []<>~(part \in {"local", "orphan"} /\ iAt[s].call # "none") \/ []<><<InCall(s)>>_inprocVars
    /\ []<>~Orphan!Binding \/ []<><<part = "orphan" /\ Orphan!SpareStep>>_inprocVars
    /\ []<>~Orphan!Stoppable \/ []<><<part = "orphan" /\ Orphan!Stop>>_inprocVars

CallsSpec == CallsInit /\ [][CallsNext]_callsVars /\ CallsFairness

-----------------------------------------------------------------------------
(* Every message in a pipe of a subscriber gets its turn, even of a        *)
(* connection whose messages nobody wants, provided that every call ends   *)
(* (fq_t::recvpipe, xsub_t::xhas_in); and every command is received, when  *)
(* the senders stop (mailbox_t::recv).                                     *)
TurnComes == Reading!TurnComes /\ CommandsArrive

(* Nothing comes too late.  While pipes change hands between sockets that  *)
(* find each other by name, no assertion fails; who goes can not be found  *)
(* any more; no connection is overlooked; and a routing id is read by who  *)
(* expects it (ctx_t, socket_base_t).  While handlers cancel timers and    *)
(* give up descriptors that the poller is going through, what it has and   *)
(* what the objects remember agree, nothing comes to who is gone, nothing  *)
(* is left behind, and a session that is not to end goes on connecting     *)
(* (epoll_t::loop, poller_base_t, session_base_t::reconnect,               *)
(* tcp_connecter_t).                                                       *)
NothingTooLate ==
    /\ part = "local" => Local!TypeOK /\ Local!NoFailure /\ Local!GoesLast
                         /\ Local!NoneOverlooked /\ Local!IdsWhereExpected
    /\ part = "orphan" => Orphan!TypeOK /\ Orphan!NoFailure /\ Orphan!GoesLast
                          /\ Orphan!NoneOverlooked /\ Orphan!IdsWhereExpected
    /\ part = "marked" => Marked({0, 1, 6}, 0)!NoFailure /\ Marked({0, 1, 6}, 0)!GoesLast
                          /\ Marked({0, 1, 6}, 0)!LowIsReached
    /\ part = "tuned" => Marked({2}, 1)!NoneOverlooked /\ Marked({2}, 1)!LowIsReached
    /\ part = "poller" => Io!TypeOK /\ Io!NoFailure /\ Io!Registered /\ Io!KeepsTrying /\ Io!NoLeak

(* With every socket of the application closed, all go, and a session      *)
(* that lingers for some time lets the loop end (ctx_t::terminate,         *)
(* session_base_t::process_term, timer_event, io_thread_t::stop).          *)
AllGo == (part \in {"marked", "tuned"} \/ Local!AllGo) /\ Io!Ends
=============================================================================
