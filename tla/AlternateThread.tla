--------------------------- MODULE AlternateThread --------------------------
(***************************************************************************)
(* src/src/bases/AlternateThreadPT.cxx: two threads that run alternately,  *)
(* as OptimizerAlg.cxx (OptimizerAlgASync) uses them: the master is the    *)
(* optimizer loop, in whichever thread of the executor handles its event;  *)
(* the slave runs the algorithm.  One mutex is handed over at each turn by *)
(* the waits on one condition, which test nothing.                         *)
(*                                                                         *)
(* The algorithm (startToTakeDecision) hands the control back after each   *)
(* turn or returns; it may not look whether it has to end.                 *)
(***************************************************************************)
EXTENDS Naturals

CONSTANTS
  Spurious,  \* a wait on a condition may end without a signal (POSIX)
  MaxAsks,   \* bound: how many decisions the master asks of a slave
  MaxSlaves  \* bound: how many slaves it starts

ASSUME AlternateAssumption ==
  Spurious \in BOOLEAN /\ MaxAsks \in Nat /\ MaxSlaves \in Nat

VARIABLES
  status,   \* _threadStatus
  mutex,    \* who holds _pingPongMutex: "master", "slave" or "free"
  master,   \* "out" (no call in progress, no slave), "running", "waiting", "woken", "failed"
  call,     \* the call the master is in, or was last in
  slave,    \* "none", "created", "running", "waiting", "woken", "cancelled", "ended"
  asked,    \* the number of turns given to this slave
  answered, \* the number of turns it has taken
  slaves    \* the number of slaves started

threadVars == <<status, mutex, master, call, slave, asked, answered, slaves>>

ThreadsInit ==
  /\ status = "UNEXISTING" /\ mutex = "free"
  /\ master = "out" /\ call = "none" /\ slave = "none"
  /\ asked = 0 /\ answered = 0 /\ slaves = 0

(* pthread_cond_signal: the other thread, if it waits, is to wake up.      *)
Signalled(state) == IF state = "waiting" THEN "woken" ELSE state

-----------------------------------------------------------------------------
(* The master                                                              *)

(* Mutant: start returns at once.                                          *)
MasterAfterCreateRuns == "running"

MasterAfterCreate == "waiting"

(* start: the slave is created with the mutex held, then the master waits. *)
StartSlave ==
  /\ master = "out" /\ status = "UNEXISTING" /\ mutex = "free"
  /\ slaves < MaxSlaves
  /\ slaves' = slaves + 1
  /\ slave' = "created" /\ master' = MasterAfterCreate /\ call' = "start"
  /\ asked' = 1 /\ answered' = 0
  /\ UNCHANGED <<status, mutex>>

(* signalAndWait, by the master.                                           *)
GiveTurn(c) ==
  /\ slave' = Signalled(slave)
  /\ master' = "waiting" /\ mutex' = "free" /\ call' = c
  /\ asked' = asked + 1
  /\ UNCHANGED <<answered, slaves>>

(* takeDecision, of a slave that has not returned (else the pool is empty  *)
(* and the loop does not ask).                                             *)
Ask ==
  /\ master = "running" /\ call \in {"start", "ask"}
  /\ status = "NORMAL_CYCLE" /\ asked <= MaxAsks
  /\ GiveTurn("ask")
  /\ UNCHANGED status

(* terminateSlaveThread: the slave is told to end.  Nothing is done if     *)
(* there is none, though a master that is back too early has the mutex.    *)
Terminate ==
  /\ master = "running" /\ call \in {"start", "ask"}
  /\ status # "READY_TO_JOIN"
  /\ IF status = "UNEXISTING"
       THEN master' = "out" /\ UNCHANGED <<status, mutex, call, slave, asked, answered, slaves>>
       ELSE status' = "TERMINATION_REQUESTED" /\ GiveTurn("terminate")

(* Mutant: the slave that does not end is not cancelled.                   *)
CancelledNot(state) == state

(* pthread_cancel: the thread ends in the wait where it handed back the    *)
(* control.                                                                *)
Cancelled(state) == IF state \in {"waiting", "woken"} THEN "cancelled" ELSE state

(* The slave has not ended: it is cancelled and the master waits again;    *)
(* then an assertion fails.                                                *)
Insist ==
  /\ master = "running" /\ call \in {"terminate", "cancel"}
  /\ status # "READY_TO_JOIN"
  /\ IF call = "cancel"
       THEN master' = "failed" /\ UNCHANGED <<mutex, call, slave, asked>>
       ELSE /\ slave' = Cancelled(slave)
            /\ master' = "waiting" /\ mutex' = "free" /\ call' = "cancel"
            /\ asked' = asked + 1
  /\ UNCHANGED <<status, answered, slaves>>

Join ==
  /\ master = "running" /\ status = "READY_TO_JOIN"
  /\ mutex' = "free" /\ slave' = "none" /\ status' = "UNEXISTING"
  /\ master' = "out"
  /\ UNCHANGED <<call, asked, answered, slaves>>

-----------------------------------------------------------------------------
(* The slave (runThread)                                                   *)

SlaveBegins ==
  /\ slave = "created" /\ mutex = "free"
  /\ mutex' = "slave" /\ slave' = "running"
  /\ status' = "NORMAL_CYCLE"
  /\ UNCHANGED <<master, call, asked, answered, slaves>>

(* signalMasterAndWait.                                                    *)
SlaveAnswers ==
  /\ slave = "running"
  /\ master' = Signalled(master)
  /\ slave' = "waiting" /\ mutex' = "free"
  /\ answered' = answered + 1
  /\ UNCHANGED <<status, call, asked, slaves>>

(* run has returned or the thread is cancelled: threadCleanupFct.          *)
SlaveEnds ==
  /\ slave = "running" \/ (slave = "cancelled" /\ mutex = "free")
  /\ status' = "READY_TO_JOIN"
  /\ master' = Signalled(master)
  /\ slave' = "ended" /\ mutex' = "free"
  /\ answered' = answered + 1
  /\ UNCHANGED <<call, asked, slaves>>

-----------------------------------------------------------------------------
(* The wait on the condition                                               *)

(* It may also end without a signal.                                       *)
MayWake(state) == state = "woken" \/ (Spurious /\ state = "waiting")

(* The thread takes the mutex again.                                       *)
MasterWakes ==
  /\ MayWake(master) /\ mutex = "free"
  /\ master' = "running" /\ mutex' = "master"
  /\ UNCHANGED <<status, call, slave, asked, answered, slaves>>

SlaveWakes ==
  /\ MayWake(slave) /\ mutex = "free"
  /\ slave' = "running" /\ mutex' = "slave"
  /\ UNCHANGED <<status, master, call, asked, answered, slaves>>

-----------------------------------------------------------------------------

Threads ==
  \/ Terminate
  \/ Insist
  \/ Join
  \/ SlaveBegins
  \/ SlaveAnswers
  \/ SlaveEnds
  \/ MasterWakes
  \/ SlaveWakes

ThreadsNext == StartSlave \/ Ask \/ Threads

ThreadsSpec == ThreadsInit /\ [][ThreadsNext]_threadVars

(* Threads that can run do, the algorithm ends its turns, and the loop     *)
(* finishes its algorithm.                                                 *)
FairThreads == ThreadsSpec /\ WF_threadVars(Threads)

-----------------------------------------------------------------------------
(* Properties                                                              *)

(* "This class guarantees that the two threads NEVER run concurrently"     *)
(* (AlternateThreadPT.hxx:35), and that they alternate: when the master    *)
(* goes on the slave has taken every turn it was given, and has handed     *)
(* back the control or ended; while the slave runs the master waits.       *)
Alternate ==
  /\ master = "running" => slave \in {"waiting", "ended"} /\ answered = asked
  /\ slave = "running" => master = "waiting"

(* Every slave that was created is joined in the end, one that does not    *)
(* look whether it has to end included, and the mutex is free for the next *)
(* one (AlternateThreadPT.cxx:68).                                         *)
SlavesAreJoined ==
  slave # "none" ~> (slave = "none" /\ mutex = "free" /\ master = "out")

(* "When the master thread calls start(), it will block and the slave      *)
(* thread will begin to execute the code in the method run()"              *)
(* (AlternateThreadPT.hxx:44).                                             *)
StartRunsSlave == master = "running" /\ call = "start" => status # "UNEXISTING"

=============================================================================
