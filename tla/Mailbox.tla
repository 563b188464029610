------------------------------- MODULE Mailbox -------------------------------
(***************************************************************************)
(* mailbox_t: how threads send commands to a socket or an I/O thread.  Any *)
(* thread may send, one receives.  The senders take turns with a mutex and *)
(* write to one ypipe; a signaler, an eventfd that the receiver polls,     *)
(* wakes it up.  The receiver remembers in _active whether the pipe may    *)
(* have more, and does not touch it otherwise.                             *)
(***************************************************************************)
EXTENDS Integers, Sequences, FiniteSets

CONSTANTS Senders, Entries, MaxItems

VARIABLES
    cells, w, f, c, r, front,   \* mailbox_t::_cpipe, see Ypipe
    lock,       \* who holds mailbox_t::_sync; {} if no one does
    inSend,     \* inSend[s]: where s is in send
    boxActive,  \* mailbox_t::_active
    efd,        \* the counter of the eventfd
    recv        \* where the receiver is in recv

cpipeVars == <<cells, w, f, c, r, front>>

mailVars == <<cpipeVars, lock, inSend, boxActive, efd, recv>>

InSend(p) == {s \in Senders : inSend[s] = p}

P == INSTANCE Ypipe WITH
        writer <- IF InSend("setting") # {} THEN "flushing" ELSE "idle",
        reader <- IF boxActive THEN "awake" ELSE "asleep",
        owed <- Cardinality(InSend("owing") \cup InSend("signalling")),
        wake <- efd

(* The constructor has asked for a command once, in vain. *)
MailInit ==
    /\ cells = <<>>
    /\ w = 1 /\ f = 1 /\ r = 1 /\ front = 1
    /\ c = P!Null
    /\ lock = {}
    /\ inSend = [s \in Senders |-> "idle"]
    /\ boxActive = FALSE
    /\ efd = 0
    /\ recv = "idle"

-----------------------------------------------------------------------------
Go(s, p) == inSend' = [inSend EXCEPT ![s] = p]

(* Mutant of Lock: the mutex is there for the pipe's writer only. *)
LockNot(s) == UNCHANGED lock

Lock(s) == lock = {} /\ lock' = {s}

SendCommand(s, x) ==
    /\ inSend[s] = "idle"
    /\ Len(cells) < MaxItems
    /\ Lock(s)
    /\ P!Place(x)
    /\ Go(s, "placed")
    /\ UNCHANGED <<boxActive, efd, recv>>

Flush(s) ==
    /\ inSend[s] = "placed"
    /\ \/ P!FlushAwake /\ Go(s, "flushed")
       \/ P!FlushAsleep /\ Go(s, "setting")
    /\ UNCHANGED <<lock, boxActive, efd, recv>>

FinishFlush(s) ==
    /\ inSend[s] = "setting"
    /\ P!SetC
    /\ Go(s, "owing")
    /\ UNCHANGED <<lock, boxActive, efd, recv>>

Unlock(s) ==
    /\ lock = {s}
    /\ \/ inSend[s] = "flushed" /\ Go(s, "idle")
       \/ inSend[s] = "owing" /\ Go(s, "signalling")
    /\ lock' = {}
    /\ UNCHANGED <<cpipeVars, boxActive, efd, recv>>

(* The signal is sent outside of the mutex. *)
Signal(s) ==
    /\ inSend[s] = "signalling"
    /\ efd' = efd + 1
    /\ Go(s, "idle")
    /\ UNCHANGED <<cpipeVars, lock, boxActive, recv>>

-----------------------------------------------------------------------------
(* recv(): the pipe at once if it is active, the signaler otherwise. *)
Receive ==
    /\ recv = "idle"
    /\ recv' = IF boxActive THEN "reading" ELSE "waiting"
    /\ UNCHANGED <<cpipeVars, lock, inSend, boxActive, efd>>

(* A command is there. *)
Read ==
    /\ recv \in {"reading", "woken"}
    /\ P!Prefetched
    /\ P!Pop
    /\ recv' = "idle"
    /\ UNCHANGED <<lock, inSend, boxActive, efd>>

(* Mutant of Deactivate: a pipe that was empty is asked again. *)
DeactivateNot == UNCHANGED boxActive

Deactivate == boxActive' = FALSE

(* Nothing prefetched: the shared pointer tells.  Without a command the    *)
(* receiver becomes passive and waits for a signal; after a signal, an     *)
(* assertion says, that does not happen.                                   *)
Prefetch ==
    /\ recv \in {"reading", "woken"}
    /\ ~P!Prefetched
    /\ P!Prefetch
    /\ IF front # r' /\ r' # P!Null THEN UNCHANGED <<recv, boxActive>>
       ELSE IF recv = "reading" THEN recv' = "waiting" /\ Deactivate
       ELSE recv' = "aborted" /\ UNCHANGED boxActive
    /\ UNCHANGED <<lock, inSend, efd>>

(* Mutant of Woken: takes the signal and stays passive. *)
WokenPassive ==
    /\ efd > 0
    /\ efd' = efd - 1
    /\ recv' = "woken"
    /\ UNCHANGED boxActive

(* poll() sees the signal, recv_failable takes one of them. *)
Woken ==
    /\ efd > 0
    /\ efd' = efd - 1
    /\ recv' = "woken"
    /\ boxActive' = TRUE

Wait ==
    /\ recv = "waiting"
    /\ \/ Woken
       \/ efd = 0 /\ recv' = "idle" /\ UNCHANGED <<boxActive, efd>>
    /\ UNCHANGED <<cpipeVars, lock, inSend>>

MailNext ==
    \/ \E s \in Senders : \/ \E x \in Entries : SendCommand(s, x)
                          \/ Flush(s) \/ FinishFlush(s) \/ Unlock(s) \/ Signal(s)
    \/ Receive \/ Read \/ Prefetch \/ Wait

(* A thread in send goes through with it; the receiver, a frame loop or an *)
(* I/O thread, calls recv again and again.                                 *)
MailFairness ==
    /\ \A s \in Senders : WF_mailVars(Flush(s) \/ FinishFlush(s) \/ Unlock(s) \/ Signal(s))
    /\ WF_mailVars(Receive \/ Read \/ Prefetch \/ Wait)

MailSpec == MailInit /\ [][MailNext]_mailVars /\ MailFairness

-----------------------------------------------------------------------------
MailTypeOK ==
    /\ P!TypeOK
    /\ lock \subseteq Senders
    /\ inSend \in [Senders -> {"idle", "placed", "flushed", "setting", "owing", "signalling"}]
    /\ boxActive \in BOOLEAN
    /\ efd \in Nat
    /\ recv \in {"idle", "reading", "waiting", "woken", "aborted"}

(* The assertion of mailbox_t::recv: after a signal there is a command,    *)
(* whoever sent meanwhile and however many have been read.                 *)
SignalMeansCommand == recv # "aborted"

(* One signal at most is in the eventfd, so the receiver never has to give *)
(* signals back (signaler_t::recv_failable), and there is one exactly if   *)
(* the passive receiver has a command to read and no sender owes it one.   *)
(* The type invariant goes with it.                                        *)
OneSignal ==
    /\ MailTypeOK /\ SignalMeansCommand
    /\ efd <= 1
    /\ ~boxActive /\ front < w <=>
           efd + Cardinality(InSend("owing") \cup InSend("signalling")) = 1

(* With mutex and signaler around it, the pipe of commands is used as a    *)
(* ypipe has to be: one writer, and a reader that sleeps until it is woken.*)
ImplementsYpipe == P!Init /\ [][P!Next]_(P!vars)

(* Every command is received: when the senders stop, nothing is left.      *)
CommandsArrive == <>[](front = P!Back)
=============================================================================
