------------------------------- MODULE Worker -------------------------------
(***************************************************************************)
(* dev::Worker, the thread under the sealer, the consensus engine and both *)
(* synchronisation modules: m_state, the worker thread's loop and its      *)
(* owner's calls startWorking, stopWorking and terminate.  Steps under     *)
(* x_work are atomic; the thread's test of its loop condition and the test *)
(* of m_state in workLoop take no lock.  One owner calls at a time, as     *)
(* start, stop and the destructors of the modules do.                      *)
(***************************************************************************)
EXTENDS Naturals

VARIABLES
    workerState,    \* m_state
    workerThread,   \* where the thread is; "none" if m_work is null
    owner           \* the call the owner is in

workerVars == <<workerState, workerThread, owner>>

WorkerInit ==
    /\ workerState = "Starting"
    /\ workerThread = "none"
    /\ owner = "idle"

-----------------------------------------------------------------------------
(* The worker thread *)

\* while (m_state != Killing).
EnterLoop ==
    /\ workerThread = "loop"
    /\ workerThread' = IF workerState = "Killing" THEN "exited" ELSE "set"
    /\ UNCHANGED <<workerState, owner>>

SetStarted ==
    /\ workerThread = "set"
    /\ workerState' = "Started"
    /\ workerThread' = "work"
    /\ UNCHANGED owner

\* workLoop returns: it was told to, or doWork threw.
LeaveWorkLoop ==
    /\ workerThread = "work"
    /\ workerThread' = "done"
    /\ UNCHANGED <<workerState, owner>>

\* Mutant: the state before is not put back.
FinishStopped ==
    /\ workerThread = "done"
    /\ workerState' = "Stopped"
    /\ workerThread' = "park"
    /\ UNCHANGED owner

\* m_state.exchange(Stopped), undone if the thread is to die or to go on.
FinishWork ==
    /\ workerThread = "done"
    /\ workerState' = IF workerState \in {"Killing", "Starting"} THEN workerState ELSE "Stopped"
    /\ workerThread' = "park"
    /\ UNCHANGED owner

\* It waits while it is stopped.
Unpark ==
    /\ workerThread = "park"
    /\ workerState # "Stopped"
    /\ workerThread' = "loop"
    /\ UNCHANGED <<workerState, owner>>

-----------------------------------------------------------------------------
(* The owner *)

StartWorking ==
    /\ owner = "idle"
    /\ owner' = "starting"
    /\ IF workerThread = "none"
       THEN workerState' = "Starting" /\ workerThread' = "loop"
       ELSE /\ workerState' = IF workerState = "Stopped" THEN "Starting" ELSE workerState
            /\ UNCHANGED workerThread

StartReturns ==
    /\ owner = "starting"
    /\ workerState # "Starting"
    /\ owner' = "idle"
    /\ UNCHANGED <<workerState, workerThread>>

\* A thread that is not Started is left alone.
StopWorking ==
    /\ owner = "idle"
    /\ workerThread # "none"
    /\ workerState = "Started"
    /\ workerState' = "Stopping"
    /\ owner' = "stopping"
    /\ UNCHANGED workerThread

StopReturns ==
    /\ owner = "stopping"
    /\ workerState = "Stopped"
    /\ owner' = "idle"
    /\ UNCHANGED <<workerState, workerThread>>

Terminate ==
    /\ owner = "idle"
    /\ workerThread # "none"
    /\ workerState' = "Killing"
    /\ owner' = "joining"
    /\ UNCHANGED workerThread

\* The thread has been joined and m_work is reset.
Joined ==
    /\ owner = "joining"
    /\ workerThread = "exited"
    /\ workerThread' = "none"
    /\ owner' = "idle"
    /\ UNCHANGED workerState

WorkerNext ==
    \/ EnterLoop
    \/ SetStarted
    \/ LeaveWorkLoop
    \/ FinishWork
    \/ Unpark
    \/ StartWorking
    \/ StartReturns
    \/ StopWorking
    \/ StopReturns
    \/ Terminate
    \/ Joined

WorkerSpec == WorkerInit /\ [][WorkerNext]_workerVars

-----------------------------------------------------------------------------
\* Every wait of the owner comes to its end in finitely many steps of the
\* thread: while it waits the state is one that the thread still answers.
\* Terminate is not forgotten by a thread that finishes at that moment.  The
\* wait of stopWorking does not end early: while the state is Stopped the
\* thread is in no callback of the module, doWork and doneWorking are over.
OwnerAwaited ==
    /\ workerState = "Stopped" => workerThread = "park"
    /\ owner = "joining" => workerState = "Killing" /\ workerThread # "none"
    /\ owner = "stopping" =>
          \/ workerState = "Stopped"
          \/ workerState = "Stopping" /\ workerThread \in {"work", "done"}
    /\ owner = "starting" /\ workerState = "Starting" =>
          workerThread \in {"loop", "set", "park"}
=============================================================================
