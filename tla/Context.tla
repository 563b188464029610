------------------------------ MODULE Context -------------------------------
(***************************************************************************)
(* The context all sockets share (get_context), and how it ends when the   *)
(* program does: its destructor tells every socket to stop, so that no     *)
(* call stays blocked, waits until the reaper's thread has destroyed the   *)
(* last one, and begins anew when a signal interrupts the wait.  Sockets   *)
(* are still being closed by other threads, such as a Broker's, meanwhile. *)
(***************************************************************************)
EXTENDS Integers, Sequences, FiniteSets

CONSTANTS Slots,            \* ctx_t::_slots for sockets
          MaxSockets,       \* bound: sockets ever made
          MaxInterrupts     \* bound: signals that interrupt the wait

VARIABLES
    sockets,        \* ctx_t::_sockets, by their slots
    terminating,    \* ctx_t::_terminating
    closer,         \* context_t::close: "idle", "waiting" or "returned"
    done,           \* ctx_t::_term_mailbox: commands `done' in it
    call,           \* call[s]: the application is "idle" or "blocked" in a call
    stops,          \* sockets with a command `stop' in the mailbox
    stopped,        \* sockets with _ctx_terminated set
    closed,         \* sockets the application has closed
    reaping,        \* sockets the reaper has taken over
    finishing,      \* the reaper is between destroy_socket and send_reaped
    reaper,         \* reaper_t: _terminating, _sockets and its mailbox
    made, interrupts

ctxVars == <<sockets, terminating>>

socketVars == <<call, stops, stopped, closed, reaping>>

vars == <<ctxVars, closer, done, socketVars, finishing, reaper, made, interrupts>>

Init ==
    /\ sockets = {} /\ terminating = FALSE
    /\ closer = "idle" /\ done = 0
    /\ call = [s \in Slots |-> "idle"]
    /\ stops = {} /\ stopped = {} /\ closed = {} /\ reaping = {}
    /\ finishing = FALSE
    /\ reaper = [terminating |-> FALSE, sockets |-> 0, mailbox |-> <<>>]
    /\ made = 0 /\ interrupts = 0

Tell(command) == reaper' = [reaper EXCEPT !.mailbox = Append(@, command)]

-----------------------------------------------------------------------------
(* The application's threads.                                              *)

CreateSocket(s) ==
    /\ s \notin sockets
    /\ ~terminating
    /\ made < MaxSockets
    /\ sockets' = sockets \cup {s}
    /\ made' = made + 1
    /\ UNCHANGED <<terminating, closer, done, socketVars, finishing, reaper, interrupts>>

(* A call that may wait, such as receive.  It processes commands first and *)
(* fails if one of them was to stop.                                       *)
Call(s) ==
    /\ s \in sockets \ closed /\ call[s] = "idle"
    /\ stopped' = IF s \in stops THEN stopped \cup {s} ELSE stopped
    /\ stops' = stops \ {s}
    /\ call' = [call EXCEPT ![s] = IF s \in stopped' THEN "idle" ELSE "blocked"]
    /\ UNCHANGED <<ctxVars, closer, done, closed, reaping, finishing, reaper, made, interrupts>>

Return(s) ==
    /\ call[s] = "blocked"
    /\ call' = [call EXCEPT ![s] = "idle"]
    /\ UNCHANGED <<ctxVars, closer, done, stops, stopped, closed, reaping, finishing, reaper, made, interrupts>>

(* A call that waits is interrupted. *)
ProcessStop(s) ==
    /\ s \in stops /\ call[s] = "blocked"
    /\ stops' = stops \ {s} /\ stopped' = stopped \cup {s}
    /\ call' = [call EXCEPT ![s] = "idle"]
    /\ UNCHANGED <<ctxVars, closer, done, closed, reaping, finishing, reaper, made, interrupts>>

Close(s) ==
    /\ s \in sockets \ closed /\ call[s] = "idle"
    /\ closed' = closed \cup {s}
    /\ Tell([type |-> "reap", socket |-> s])
    /\ UNCHANGED <<ctxVars, closer, done, call, stops, stopped, reaping, finishing, made, interrupts>>

-----------------------------------------------------------------------------
(* ~context_t, in the main thread: context_t::close calls ctx_t::terminate *)
(* until it is not interrupted.                                            *)

(* Mutant of Terminate: does not know that it was there before. *)
TerminateAgain ==
    /\ closer = "idle"
    /\ terminating' = TRUE
    /\ stops' = sockets
    /\ IF sockets = {} THEN Tell([type |-> "stop"]) ELSE UNCHANGED reaper
    /\ closer' = "waiting"
    /\ UNCHANGED <<sockets, done, call, stopped, closed, reaping, finishing, made, interrupts>>

Terminate ==
    /\ closer = "idle"
    /\ terminating' = TRUE
    /\ stops' = IF terminating THEN stops ELSE sockets
    /\ IF ~terminating /\ sockets = {} THEN Tell([type |-> "stop"]) ELSE UNCHANGED reaper
    /\ closer' = "waiting"
    /\ UNCHANGED <<sockets, done, call, stopped, closed, reaping, finishing, made, interrupts>>

(* EINTR *)
Interrupted ==
    /\ closer = "waiting" /\ interrupts < MaxInterrupts
    /\ closer' = "idle"
    /\ interrupts' = interrupts + 1
    /\ UNCHANGED <<ctxVars, done, socketVars, finishing, reaper, made>>

Terminated ==
    /\ closer = "waiting" /\ done > 0
    /\ done' = done - 1
    /\ closer' = "returned"
    /\ UNCHANGED <<ctxVars, socketVars, finishing, reaper, made, interrupts>>

-----------------------------------------------------------------------------
(* The reaper's thread.                                                    *)

Heads(command) ==
    /\ ~finishing
    /\ reaper.mailbox # <<>> /\ Head(reaper.mailbox).type = command

(* process_reap: from now on the socket's commands are processed here. *)
ProcessReap ==
    /\ Heads("reap")
    /\ LET s == Head(reaper.mailbox).socket IN
       /\ reaping' = reaping \cup {s}
       /\ stopped' = IF s \in stops THEN stopped \cup {s} ELSE stopped
       /\ stops' = stops \ {s}
    /\ reaper' = [reaper EXCEPT !.mailbox = Tail(@), !.sockets = @ + 1]
    /\ UNCHANGED <<ctxVars, closer, done, call, closed, finishing, made, interrupts>>

(* reaper_t::process_stop *)
ProcessReaperStop ==
    /\ Heads("stop")
    /\ reaper' = [reaper EXCEPT !.mailbox = Tail(@), !.terminating = TRUE]
    /\ done' = IF reaper.sockets = 0 THEN done + 1 ELSE done
    /\ UNCHANGED <<ctxVars, closer, socketVars, finishing, made, interrupts>>

ProcessReaped ==
    /\ Heads("reaped")
    /\ reaper' = [reaper EXCEPT !.mailbox = Tail(@), !.sockets = @ - 1]
    /\ done' = IF reaper.sockets = 1 /\ reaper.terminating THEN done + 1 ELSE done
    /\ UNCHANGED <<ctxVars, closer, socketVars, finishing, made, interrupts>>

(* Mutant of DestroySocket: leaves it to ctx_t::terminate to stop the reaper. *)
DestroySocketOnly(s) ==
    /\ ~finishing /\ s \in reaping
    /\ sockets' = sockets \ {s}
    /\ stops' = stops \ {s} /\ stopped' = stopped \ {s}
    /\ closed' = closed \ {s} /\ reaping' = reaping \ {s}
    /\ finishing' = TRUE
    /\ UNCHANGED <<terminating, reaper, closer, done, call, made, interrupts>>

(* check_destroy, when all of the socket has gone: its slot is free for    *)
(* another socket...                                                       *)
DestroySocket(s) ==
    /\ ~finishing /\ s \in reaping
    /\ sockets' = sockets \ {s}
    /\ IF terminating /\ sockets' = {} THEN Tell([type |-> "stop"]) ELSE UNCHANGED reaper
    /\ stops' = stops \ {s} /\ stopped' = stopped \ {s}
    /\ closed' = closed \ {s} /\ reaping' = reaping \ {s}
    /\ finishing' = TRUE
    /\ UNCHANGED <<terminating, closer, done, call, made, interrupts>>

(* ...before the reaper sends itself word of it. *)
SendReaped ==
    /\ finishing
    /\ Tell([type |-> "reaped"])
    /\ finishing' = FALSE
    /\ UNCHANGED <<ctxVars, closer, done, socketVars, made, interrupts>>

Reap == ProcessReap \/ ProcessReaperStop \/ ProcessReaped \/ SendReaped \/ \E s \in Slots : DestroySocket(s)

Next ==
    \/ \E s \in Slots : CreateSocket(s) \/ Call(s) \/ Return(s) \/ ProcessStop(s) \/ Close(s)
    \/ Terminate \/ Interrupted \/ Terminated
    \/ Reap

(* The destructor goes on, the reaper's thread works, a blocked call is    *)
(* woken by a command.  That a socket with nothing more to do is destroyed *)
(* is Ownership's; one with an unlimited linger time may never come there. *)
Fairness ==
    /\ WF_vars(terminating /\ Terminate) /\ WF_vars(Terminated)
    /\ WF_vars(Reap)
    /\ \A s \in Slots : WF_vars(ProcessStop(s))

Spec == Init /\ [][Next]_vars /\ Fairness

-----------------------------------------------------------------------------
TypeOK ==
    /\ {sockets, stops, stopped, closed, reaping} \subseteq SUBSET Slots
    /\ {terminating, finishing} \subseteq BOOLEAN
    /\ closer \in {"idle", "waiting", "returned"}
    /\ done \in Nat
    /\ call \in [Slots -> {"idle", "blocked"}]
    /\ reaper.terminating \in BOOLEAN /\ reaper.sockets \in Nat
    /\ made \in 0..MaxSockets /\ interrupts \in 0..MaxInterrupts

(* The reaper says that it is done once, when the last socket is gone and  *)
(* nothing more is on its way to it, however the wait was interrupted; so  *)
(* the context and the reaper's mailbox can be deleted (the assertion in   *)
(* ctx_t::terminate, and its `restarted').                                 *)
DoneOnceAndLast ==
    /\ done + (IF closer = "returned" THEN 1 ELSE 0) <= 1
    /\ done > 0 \/ closer = "returned" =>
          /\ sockets = {} /\ reaping = {} /\ ~finishing
          /\ reaper.mailbox = <<>> /\ reaper.sockets = 0

(* No call stays blocked when the context ends, and with all sockets       *)
(* closed the program ends (process_stop, destroy_socket, process_reaped). *)
Ends ==
    <>[](terminating => /\ \A s \in Slots : call[s] = "idle"
                        /\ sockets \subseteq closed => closer = "returned")
=============================================================================
