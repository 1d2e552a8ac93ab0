------------------------------ MODULE Scheduler ------------------------------
(***************************************************************************)
(* The background scheduler of a running product: one tick after another   *)
(* sweeps the operation table, drives every pending operation under a      *)
(* concurrency bound and its endpoint's one-permit write gate, and runs    *)
(* the Task monitor beside the drives.  This module composes the store,    *)
(* the executor, the monitor and the BMC, and adds submission and crashes. *)
(***************************************************************************)
EXTENDS TaskMonitor, FiniteSets

CONSTANTS
    Endpoints,             \* the managed BMCs
    EndpointOf,            \* the endpoint each operation targets
    MaxConcurrentDrives    \* MAX_CONCURRENT_DRIVES

ASSUME EndpointAssumption == EndpointOf \in [Ops -> Endpoints]
ASSUME DrivesAssumption == MaxConcurrentDrives \in Nat \ {0}

VARIABLE gate              \* the operation holding each endpoint's write gate

vars == <<execVars, monitorVars, gate>>

Types ==
    /\ StoreTypeOK
    /\ BmcTypeOK
    /\ ExecTypeOK
    /\ MonitorTypeOK
    /\ gate \in [Endpoints -> Ops \cup {NoOp}]

\* The drives of the sweep that have started and not returned.
Driving == {o \in Ops : pc[o] \notin {"idle", "listed"}}

\* Every variable has its type, and a sweep never has more drives under way
\* than MAX_CONCURRENT_DRIVES, however many rows it lists.
TypeOK == Types /\ Cardinality(Driving) <= MaxConcurrentDrives

Init ==
    /\ StoreInit
    /\ BmcInit
    /\ ExecInit
    /\ MonitorInit
    /\ gate = [e \in Endpoints |-> NoOp]

\* A sweep has ended when every drive and the monitor pass have drained.
Drained == mpc = "off" /\ \A o \in Ops : pc[o] = "idle"

\* OperationEngine::create, one child of create_batch, or an accepted center
\* offer: a new Queued row.
Submit(o) ==
    /\ CreateOperation(o)
    /\ UNCHANGED <<bmcVars, driveVars, faults, monitorVars, gate>>

\* Mutant: an endpoint with another undecided operation counts as busy.
ListedOnIdleEndpoint(o) ==
    /\ state[o] \in (RecoverableStates \cup {"Queued"}) \ {"WaitingRemote"}
    /\ \A p \in Ops \ {o} : EndpointOf[p] = EndpointOf[o]
                              => state[p] \in TerminalStates \cup {"Absent"}

\* The listing of a sweep: recover_pending plus the queued rows, dispatched
\* by state.  WaitingRemote belongs to the monitor.
Listed(o) ==
    state[o] \in (RecoverableStates \cup {"Queued"}) \ {"WaitingRemote"}

StartTick ==
    /\ Drained
    /\ pc' = [o \in Ops |-> IF Listed(o) THEN "listed" ELSE "idle"]
    /\ mode' = [o \in Ops |-> IF state[o] \in {"Running", "Verifying"}
                              THEN "recover" ELSE "execute"]
    /\ mpc' = "list"
    /\ UNCHANGED <<storeVars, bmcVars, seen, loaded, faults, mlist, mop, mobs,
                   mloaded, gate>>

\* Mutant: only the drives that hold a permit are counted, not those that
\* wait for one.
StartDriveCountsWorking(o) ==
    /\ pc[o] = "listed"
    /\ Cardinality({p \in Ops : pc[p] \in WorkPcs}) < MaxConcurrentDrives
    /\ Goto(o, "gated")
    /\ UNCHANGED <<storeVars, bmcVars, mode, seen, loaded, faults, monitorVars,
                   gate>>

\* buffer_unordered polls at most MaxConcurrentDrives drives at a time.
StartDrive(o) ==
    /\ pc[o] = "listed"
    /\ Cardinality(Driving) < MaxConcurrentDrives
    /\ Goto(o, "gated")
    /\ UNCHANGED <<storeVars, bmcVars, mode, seen, loaded, faults, monitorVars,
                   gate>>

\* Mutant: a drive does not wait for the permit.
AcquireGateUngated(o) ==
    /\ pc[o] = "gated"
    /\ gate' = [gate EXCEPT ![EndpointOf[o]] = o]
    /\ Goto(o, "read")
    /\ UNCHANGED <<storeVars, bmcVars, mode, seen, loaded, faults, monitorVars>>

\* drive_one holds the endpoint's permit for the whole drive.
AcquireGate(o) ==
    /\ pc[o] = "gated"
    /\ gate[EndpointOf[o]] = NoOp
    /\ gate' = [gate EXCEPT ![EndpointOf[o]] = o]
    /\ Goto(o, "read")
    /\ UNCHANGED <<storeVars, bmcVars, mode, seen, loaded, faults, monitorVars>>

\* The permit is released when the drive returns.
ReleaseOnReturn(o) ==
    gate' = IF pc'[o] = "idle" THEN [gate EXCEPT ![EndpointOf[o]] = NoOp]
                               ELSE gate

Drive(o) == DriveWork(o) /\ ReleaseOnReturn(o) /\ UNCHANGED monitorVars
DriveFails(o) == DriveError(o) /\ ReleaseOnReturn(o) /\ UNCHANGED monitorVars

\* The process dies and is started again: what is not in the database is
\* gone, what the BMC is doing goes on.
Crash ==
    /\ TakeFault
    /\ pc' = [o \in Ops |-> "idle"]
    /\ mode' = [o \in Ops |-> "execute"]
    /\ seen' = [o \in Ops |-> "Absent"]
    /\ loaded' = [o \in Ops |-> "none"]
    /\ mpc' = "off"
    /\ mlist' = {}
    /\ mop' = NoOp
    /\ mobs' = "none"
    /\ mloaded' = "none"
    /\ gate' = [e \in Endpoints |-> NoOp]
    /\ UNCHANGED <<storeVars, bmcVars>>

\* The BMC acts on its own.
BmcStep(o) ==
    /\ BmcHandle(o) \/ BmcFinishTask(o) \/ BmcDropTask(o)
    /\ UNCHANGED <<storeVars, driveVars, faults, monitorVars, gate>>

Next ==
    \/ StartTick
    \/ Crash
    \/ MonitorWork /\ UNCHANGED gate
    \/ MonitorError /\ UNCHANGED gate
    \/ \E o \in Ops : \/ Submit(o)
                      \/ StartDrive(o)
                      \/ AcquireGate(o)
                      \/ Drive(o)
                      \/ DriveFails(o)
                      \/ BmcStep(o)

Spec == Init /\ [][Next]_vars

\* The process keeps being scheduled: ticks start, a started sweep makes
\* progress, and a BMC that is polled again and again eventually answers and
\* eventually finishes its Task.  Nothing is assumed about submissions,
\* crashes, failed calls or a BMC that drops or never handles a request.
Fairness ==
    /\ WF_vars(StartTick)
    /\ WF_vars(MonitorWork /\ UNCHANGED gate)
    /\ SF_vars(PollAnswered /\ UNCHANGED gate)
    /\ \A o \in Ops : /\ WF_vars(StartDrive(o))
                      /\ WF_vars(AcquireGate(o))
                      /\ WF_vars(Drive(o))
                      /\ WF_vars(BmcFinishTask(o) /\
                                 UNCHANGED <<storeVars, driveVars, faults,
                                             monitorVars, gate>>)

FairSpec == Spec /\ Fairness

-----------------------------------------------------------------------------
(* Safety.                                                                 *)

\* The write of an operation leaves the process at most once, across
\* crashes, recovery sweeps, failed store calls and resumed validations:
\* Running is persisted before the dispatch and neither recover_operation
\* nor a resumed execute_operation dispatches again (design section 13.5).
WriteSentAtMostOnce == \A o \in Ops : sent[o] <= 1

\* Succeeded is never recorded for a write that did not happen: a command
\* that asserts a durable result has that result on the BMC, any other
\* command was accepted by the BMC (recovery_judgement_proves_effect).
SucceededIsReal ==
    \A o \in Ops : state[o] = "Succeeded" =>
        IF o \in Provable THEN effect[o] # "absent"
                          ELSE remote[o] \in AcceptedWrites

\* An operation handed to the monitor always has its Task row, whatever
\* crash separated the two writes; the monitor's missing-row branch is dead.
WaitingHasTask ==
    \A o \in Ops : state[o] = "WaitingRemote" => task[o] # "none"

\* Once the Task of a write was recorded, a Failed verdict is right: the
\* monitor never gives up on a Task whose effect arrives.
TrackedFailureIsHonest ==
    \A o \in Provable :
        state[o] = "Failed" /\ task[o] # "none" => effect[o] # "written"

\* The writes of one endpoint are serial: two drives of the same endpoint
\* never work at the same time (design section 7.8).
EndpointWritesSerial ==
    \A o, p \in Ops :
        o # p /\ pc[o] \in WorkPcs /\ pc[p] \in WorkPcs
            => EndpointOf[o] # EndpointOf[p]

\* Section 16.3: no write without a durable start fact, and a terminal fact
\* never contradicts the state the operation ends in.
AuditMatchesOutcome ==
    \A o \in Ops :
        /\ sent[o] > 0 => "started" \in audit[o]
        /\ "succeeded" \in audit[o] => state[o] = "Succeeded"
        /\ "failed" \in audit[o] => state[o] \in {"Failed", "Unknown"}

\* The subsystem keeps the contract of OperationContract: every durable
\* change is one legal transition although the engine reads and writes in
\* two steps, and the write is issued once, in Running.
Contract == INSTANCE OperationContract
ImplementsContract == Contract!ContractSpec

-----------------------------------------------------------------------------
(* Liveness.                                                               *)

\* Every submitted operation is eventually decided: no interleaving of
\* crashes, failed calls and deferred polls strands it.
EventuallyDecided ==
    \A o \in Ops : state[o] = "Queued" ~> state[o] \in TerminalStates
==============================================================================
