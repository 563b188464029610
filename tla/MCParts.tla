------------------------------ MODULE MCParts -------------------------------
(***************************************************************************)
(* Small instances of the parts that do not interact in their models, each *)
(* with variables of its own.  A behaviour chooses one part and runs that; *)
(* the others stay in one of their initial states.  So each property is    *)
(* about one part, and the states of the parts add up instead of           *)
(* multiplying.  The parts with proofs that state a property of this run   *)
(* are extended, the others are instances.                                 *)
(***************************************************************************)
EXTENDS Ypipe, Yqueue, Balancer, Exchange, Codec, Content, Dist, SequencesExt

VARIABLE part

ypipeVars == vars

ypipeEntries == [more : BOOLEAN]

(* The names of the instances of messages and of their topics. *)
topics == {"tA", "tB"}

-----------------------------------------------------------------------------
VARIABLES pFilters, pRefs, pLink, pHiccuped, pCmds, pTrie, pCalls, pDrops,
          pSent, pMore, pHwm, pEligible, pMatching, pInflight, pStream, pGot

dataVars == <<pSent, pMore, pHwm, pEligible, pMatching, pInflight, pStream, pGot>>

pubSubVars == <<pFilters, pRefs, pLink, pHiccuped, pCmds, pTrie, pCalls, pDrops, dataVars>>

PS == INSTANCE PubSub WITH
    Subs <- {"sub"}, Pubs <- {"pub"}, Filters <- {"", "A"}, All <- "",
    Topics <- topics, Covers <- ("" :> topics) @@ ("A" :> {"tA"}),
    Hwms <- {1}, MaxCalls <- 3, MaxDrops <- 1, MaxMsgs <- 2, MaxParts <- 1, MidMessage <- FALSE,
    filters <- pFilters, refs <- pRefs, link <- pLink, hiccuped <- pHiccuped, cmds <- pCmds,
    trie <- pTrie, calls <- pCalls, drops <- pDrops, sent <- pSent, more <- pMore, hwm <- pHwm,
    eligible <- pEligible, matching <- pMatching, inflight <- pInflight, stream <- pStream,
    got <- pGot

VARIABLES oObj, oPipe, oQueue, oEndpoints, oFailed

ownershipVars == <<oObj, oPipe, oQueue, oEndpoints, oFailed>>

ioThreads == {"io1", "io2"}
sessions == {"accepted", "connecting"}

Own == INSTANCE Ownership WITH
    Socket <- "socket", Listeners <- {"listener"}, Accepteds <- {"accepted"},
    Connects <- {"connecting"}, Connecters <- {"connecter 1", "connecter 2"},
    App <- "app", IoThreads <- ioThreads, Delays <- TRUE, MaxEndpoints <- 1, None <- "none",
    obj <- oObj, pipe <- oPipe, queue <- oQueue, endpoints <- oEndpoints, failed <- oFailed

VARIABLES xSockets, xTerminating, xCloser, xDone, xCall, xStops, xStopped, xClosed, xReaping,
          xFinishing, xReaper, xMade, xInterrupts

contextVars == <<xSockets, xTerminating, xCloser, xDone, xCall, xStops, xStopped, xClosed,
                 xReaping, xFinishing, xReaper, xMade, xInterrupts>>

slots == {1, 2}

Ctx == INSTANCE Context WITH
    Slots <- slots, MaxSockets <- 3, MaxInterrupts <- 1,
    sockets <- xSockets, terminating <- xTerminating, closer <- xCloser, done <- xDone,
    call <- xCall, stops <- xStops, stopped <- xStopped, closed <- xClosed, reaping <- xReaping,
    finishing <- xFinishing, reaper <- xReaper, made <- xMade, interrupts <- xInterrupts

VARIABLES nConn, nSide, nSent, nGot, nLosses

engineVars == <<nConn, nSide, nSent, nGot, nLosses>>

Wire == INSTANCE Engine WITH
    Hwm <- 1, Window <- 2, Batch <- 2, MaxMsgs <- 3, MaxLosses <- 1,
    conn <- nConn, side <- nSide, sent <- nSent, got <- nGot, losses <- nLosses

VARIABLES tTrie, tMtrie, tAttached, tCount, tRight

trieVars == <<tTrie, tMtrie, tAttached, tCount, tRight>>

Tables == INSTANCE Tries WITH
    Subs <- {"a", "b"}, Filters <- {<<>>, <<0>>, <<1>>, <<3>>, <<3, 1>>}, MaxRefs <- 3,
    Data <- {<<>>, <<0>>, <<1, 0>>, <<2>>, <<3>>, <<3, 0>>, <<3, 1>>, <<3, 1, 0>>, <<4>>},
    trie <- tTrie, mtrie <- tMtrie, attached <- tAttached, count <- tCount, right <- tRight

VARIABLES fSent, fEnc, fWire, fDec, fMem, fRefs, fAlive, fGot, fFreeing

framingVars == <<fSent, fEnc, fWire, fDec, fMem, fRefs, fAlive, fGot, fFreeing>>

Stream == INSTANCE Framing WITH
    Sizes <- {0, 1, 7}, Vsm <- 1, Short <- 1, Wide <- 2, InBatch <- 6, OutBatch <- 5,
    Window <- 6, Buffers <- {1, 2, 3, 4}, None <- 0, MaxMsgs <- 2,
    sent <- fSent, enc <- fEnc, wire <- fWire, dec <- fDec, mem <- fMem, refs <- fRefs,
    alive <- fAlive, got <- fGot, freeing <- fFreeing

(* An end of the connection while another part runs. *)
wireIdle == [field \in {"out", "outbuf", "rx", "inbuf", "held", "unflushed", "in"} |-> <<>>]

-----------------------------------------------------------------------------
partsVars == <<part, ypipeVars, yqueueVars, pubSubVars, exVars, codecVars,
               balancerVars, contentVars, ownershipVars, contextVars, engineVars, trieVars,
               framingVars, distVars>>

PartsInit ==
    /\ part \in {"ypipe", "queue", "pubsub", "exchange", "codec", "balancer", "content",
                 "ownership", "context", "engine", "tries", "framing", "dist"}
    /\ Init /\ (part = "ypipe" \/ reader = "awake")
    /\ YqueueInit /\ (part = "queue" \/ begin = 1)
    /\ PS!Init
    /\ ExInit /\ (part = "exchange" \/ ~(running \/ finish))
    /\ LbInit
    /\ ContentInit
    /\ Own!Init
    /\ Ctx!Init
    /\ IF part = "codec" THEN CodecInit
       ELSE sent = <<>> /\ frames = <<>> /\ targets = <<>> /\ converting = 0 /\ answer = "none"
    /\ IF part = "engine" THEN Wire!Init
       ELSE /\ nConn = "none" /\ nSide = [e \in Wire!Ends |-> wireIdle]
            /\ nSent = 0 /\ nGot = <<>> /\ nLosses = 0
    /\ IF part = "tries" THEN Tables!Init
       ELSE tTrie = <<>> /\ tMtrie = <<>> /\ tAttached = {} /\ tCount = <<>> /\ tRight = TRUE
    /\ Stream!Init
    /\ DistInit /\ (part = "dist" \/ role = "pub")

YpipeStep ==
    /\ part = "ypipe" /\ Next
    /\ UNCHANGED <<part, yqueueVars, pubSubVars, exVars, codecVars,
                   balancerVars, contentVars, ownershipVars, contextVars, engineVars, trieVars,
                   framingVars, distVars>>

QueueStep ==
    /\ part = "queue" /\ YqueueNext
    /\ UNCHANGED <<part, ypipeVars, pubSubVars, exVars, codecVars,
                   balancerVars, contentVars, ownershipVars, contextVars, engineVars, trieVars,
                   framingVars, distVars>>

PubSubStep ==
    /\ part = "pubsub" /\ PS!Next
    /\ UNCHANGED <<part, ypipeVars, yqueueVars, exVars, codecVars, balancerVars,
                   contentVars, ownershipVars, contextVars, engineVars, trieVars, framingVars,
                   distVars>>

ExchangeStep ==
    /\ part = "exchange" /\ ExNext
    /\ UNCHANGED <<part, ypipeVars, yqueueVars, pubSubVars, codecVars, balancerVars,
                   contentVars, ownershipVars, contextVars, engineVars, trieVars, framingVars,
                   distVars>>

CodecStep ==
    /\ part = "codec" /\ CodecNext
    /\ UNCHANGED <<part, ypipeVars, yqueueVars, pubSubVars, exVars,
                   balancerVars, contentVars, ownershipVars, contextVars, engineVars, trieVars,
                   framingVars, distVars>>

BalancerStep ==
    /\ part = "balancer" /\ LbNext
    /\ UNCHANGED <<part, ypipeVars, yqueueVars, pubSubVars, exVars, codecVars,
                   contentVars, ownershipVars, contextVars, engineVars, trieVars, framingVars,
                   distVars>>

ContentStep ==
    /\ part = "content" /\ ContentNext
    /\ UNCHANGED <<part, ypipeVars, yqueueVars, pubSubVars, exVars, codecVars,
                   balancerVars, ownershipVars, contextVars, engineVars, trieVars, framingVars,
                   distVars>>

OwnershipStep ==
    /\ part = "ownership" /\ Own!Next
    /\ UNCHANGED <<part, ypipeVars, yqueueVars, pubSubVars, exVars, codecVars,
                   balancerVars, contentVars, contextVars, engineVars, trieVars, framingVars,
                   distVars>>

ContextStep ==
    /\ part = "context" /\ Ctx!Next
    /\ UNCHANGED <<part, ypipeVars, yqueueVars, pubSubVars, exVars, codecVars,
                   balancerVars, contentVars, ownershipVars, engineVars, trieVars, framingVars,
                   distVars>>

EngineStep ==
    /\ part = "engine" /\ Wire!Next
    /\ UNCHANGED <<part, ypipeVars, yqueueVars, pubSubVars, exVars, codecVars,
                   balancerVars, contentVars, ownershipVars, contextVars, trieVars,
                   framingVars, distVars>>

TriesStep ==
    /\ part = "tries" /\ Tables!Next
    /\ UNCHANGED <<part, ypipeVars, yqueueVars, pubSubVars, exVars, codecVars,
                   balancerVars, contentVars, ownershipVars, contextVars, engineVars,
                   framingVars, distVars>>

FramingStep ==
    /\ part = "framing" /\ Stream!Next
    /\ UNCHANGED <<part, ypipeVars, yqueueVars, pubSubVars, exVars, codecVars,
                   balancerVars, contentVars, ownershipVars, contextVars, engineVars, trieVars,
                   distVars>>

DistStep ==
    /\ part = "dist" /\ DistNext
    /\ UNCHANGED <<part, ypipeVars, yqueueVars, pubSubVars, exVars, codecVars,
                   balancerVars, contentVars, ownershipVars, contextVars, engineVars, trieVars,
                   framingVars>>

PartsNext == \/ YpipeStep \/ QueueStep \/ PubSubStep \/ ExchangeStep
             \/ CodecStep \/ BalancerStep \/ ContentStep \/ OwnershipStep \/ ContextStep
             \/ EngineStep \/ TriesStep \/ FramingStep \/ DistStep

(* The fairness of each specification, for the part that runs. *)
PartsFairness ==
    /\ WF_ypipeVars(part = "ypipe" /\ FinishFlush)
    /\ WF_ypipeVars(part = "ypipe" /\ Wake)
    /\ WF_ypipeVars(part = "ypipe" /\ (CheckRead \/ Read \/ WakeUp))
    /\ \A l \in PS!Links :
          /\ WF_pubSubVars(part = "pubsub" /\ PS!Attach(l))
          /\ WF_pubSubVars(part = "pubsub" /\ PS!ProcessHiccup(l) /\ UNCHANGED dataVars)
          /\ WF_pubSubVars(part = "pubsub" /\ PS!ProcessCommand(l) /\ UNCHANGED dataVars)
          /\ WF_pubSubVars(part = "pubsub" /\ PS!Receive(l))
    /\ WF_exVars(part = "exchange" /\ Thread)
    /\ WF_exVars(part = "exchange" /\ Closed)
    /\ \A k \in Clients : WF_exVars(part = "exchange" /\ ReceiveAnswer(k))
    /\ \A l \in Lines : /\ WF_exVars(part = "exchange" /\ Link(l))
                       /\ WF_exVars(part = "exchange" /\ Transmit(l))
                       /\ WF_exVars(part = "exchange" /\ Return(l))
    /\ \A k \in Workers : /\ WF_exVars(part = "exchange" /\ TakeRequest(k))
                          /\ WF_exVars(part = "exchange" /\ Answer(k))
    /\ \A t \in ioThreads \cup {"app"} :
          WF_ownershipVars(part = "ownership" /\ Own!ProcessCommand(t))
    /\ \A s \in sessions : WF_ownershipVars(part = "ownership" /\ Own!CheckRead(s, "session"))
    /\ WF_contextVars(part = "context" /\ xTerminating /\ Ctx!Terminate)
    /\ WF_contextVars(part = "context" /\ Ctx!Terminated)
    /\ WF_contextVars(part = "context" /\ Ctx!Reap)
    /\ \A s \in slots : WF_contextVars(part = "context" /\ Ctx!ProcessStop(s))
    /\ WF_engineVars(part = "engine" /\ Wire!Connect)
    /\ WF_engineVars(part = "engine" /\ Wire!Gone)
    /\ WF_engineVars(part = "engine" /\ Wire!Subscribe)
    /\ \A e \in Wire!Ends :
          /\ WF_engineVars(part = "engine" /\ Wire!Read(e))
          /\ []<>~(part = "engine" /\ Wire!Readable(e)) \/ []<><<Wire!PollIn(e)>>_engineVars
          /\ []<>~(part = "engine" /\ Wire!Writable(e)) \/ []<><<Wire!PollOut(e)>>_engineVars
          /\ \/ []<>~(part = "engine" /\ nSide[e].reader = "woken")
             \/ []<><<Wire!ReadActivated(e)>>_engineVars
          /\ \/ []<>~(part = "engine" /\ nSide[e].acks > 0)
             \/ []<><<Wire!WriteActivated(e)>>_engineVars
          /\ []<>~(part = "engine" /\ Wire!Attachable(e)) \/ []<><<Wire!Attach(e)>>_engineVars

PartsSpec == PartsInit /\ [][PartsNext]_partsVars /\ PartsFairness

-----------------------------------------------------------------------------
(* Each part's type invariant goes with the first of its invariants.  That *)
(* an invariant is about its part only saves its evaluation on the others. *)

(* On a connection that lasts no message stays between the publisher's     *)
(* pipe and the subscriber (stream_engine_t).                              *)
AllArrive == Wire!Arrives

(* A message that reached the end of a subscriber's queue does not stay    *)
(* there, and once calls and losses stop, every publisher has the          *)
(* subscriber's filters (xsub_t::xhas_in, xhiccuped,                       *)
(* session_base_t::reconnect).                                             *)
EventuallyCurrent == PS!EventuallyDrained /\ PS!EventuallyInstalled

(* No requester of a Broker at work waits for ever, unless its request or  *)
(* the answer was dropped, and the destructor of a Broker that was set up  *)
(* comes to its end (Broker::setup, ~Broker).                              *)
Served == Answered /\ Destructs

(* While connections come and go under a socket that is closed, no command *)
(* meets a destroyed object and no assertion fails; when the socket goes,  *)
(* nothing is left that could still send to it; and the reaper says that   *)
(* it is done once, when the last socket is gone (own_t, pipe_t, ctx_t,    *)
(* reaper_t).                                                              *)
LastToGo ==
    /\ part = "ownership" => Own!TypeOK /\ Own!NoFailure /\ Own!SocketGoesLast
    /\ part = "context" => Ctx!TypeOK /\ Ctx!DoneOnceAndLast

(* A socket that is closed goes; no call stays blocked when the context    *)
(* ends, and with all sockets closed the program ends (own_t, pipe_t,      *)
(* ctx_t, reaper_t).                                                       *)
Closes == Own!Goes /\ Ctx!Ends

(* A message goes over a connection once and in order; who stops reading   *)
(* or writing waits for a command that comes; no assertion of the engine   *)
(* fails, also when the connection is lost and comes back with a pipe that *)
(* is full; and what was read of a lost connection reaches the application *)
(* (stream_engine_t).  A message is what was sent, whatever pieces its     *)
(* bytes came in, and the buffer it was received in is freed once, by the  *)
(* last message in it (v2_decoder_t, shared_message_memory_allocator).     *)
Carried ==
    /\ part = "engine" => Wire!TypeOK /\ Wire!Carried /\ Wire!StopsForReason /\ Wire!NoFailures
    /\ part = "framing" => Stream!TypeOK /\ Stream!Intact /\ Stream!Counted

(* The tables of filters say what the calls amount to (trie_t,             *)
(* generic_mtrie_t).                                                       *)
TablesAgree == part = "tries" => Tables!Agree
=============================================================================
