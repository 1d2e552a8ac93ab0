--------------------------- MODULE SchedulerProofs ---------------------------
(***************************************************************************)
(* Proofs that IInv of SchedulerInvariant is inductive, that it implies    *)
(* the safety properties of Scheduler, and that Scheduler implements       *)
(* OperationContract, for any set of operations, endpoints and any number  *)
(* of crashes, failed calls and concurrent drives.                         *)
(*                                                                         *)
(* IInv is proved part by part: ControlInv (where each row is at each      *)
(* step of a drive or poll) carries itself; SlotInv, GateInv, AuditInv and *)
(* VerdictInv each need ControlInv only.                                   *)
(***************************************************************************)
EXTENDS SchedulerInvariant, FiniteSetTheorems, TLAPS

USE DEF Types, StoreTypeOK, BmcTypeOK, ExecTypeOK, MonitorTypeOK,
        storeVars, bmcVars, driveVars, execVars, monitorVars

-----------------------------------------------------------------------------
(* The control invariant.                                                  *)

\* An empty operation table satisfies the control invariant.
LEMMA ControlInit == Init => ControlInv
BY MaxFaultsAssumption, NoOpAssumption DEF Init, StoreInit, BmcInit, ExecInit,
   MonitorInit, ControlInv, MonitorOK, Polling,
   DriveOK, WriteOK, OperationStates, TerminalStates, TaskRows, DrivePcs, MonitorPcs, RemotePhases, Effects, AuditFacts, RunningPcs

\* What a persisted step of a drive writes and where the drive goes next.
Outcome(o, new, next) ==
    /\ state' = [state EXCEPT ![o] = new]
    /\ pc' = [pc EXCEPT ![o] = next]
    /\ loaded' = [loaded EXCEPT ![o] = "none"]
    /\ seen' \in [Ops -> OperationStates \cup {"Absent"}]
    /\ mode' \in [Ops -> {"execute", "recover"}]
    /\ \A p \in Ops \ {o} : seen'[p] = seen[p] /\ mode'[p] = mode[p]
    /\ UNCHANGED <<task, failureKind, audit, bmcVars, faults>>

\* The ten persisted steps of a drive: from which state, to which state.
StepOutcome(o) ==
    \/ pc[o] = "vstart" /\ state[o] = "Queued" /\ Outcome(o, "Validating", "vpass")
    \/ pc[o] = "vpass" /\ state[o] = "Validating" /\ Outcome(o, "Running", "dispatch")
    \/ pc[o] = "accept" /\ state[o] = "Running" /\ Outcome(o, "Verifying", "verify")
    \/ pc[o] = "rtstart" /\ state[o] = "Running" /\ Outcome(o, "WaitingRemote", "idle")
    \/ pc[o] = "passed" /\ state[o] = "Verifying" /\ Outcome(o, "Succeeded", "auditSuccess")
    \/ pc[o] = "backfill" /\ state[o] = "Running" /\ Outcome(o, "Verifying", "passed")
    \/ /\ pc[o] = "failed"
       /\ state[o] \in {"Queued", "Validating", "Running", "Verifying"}
       /\ Outcome(o, "Failed", "auditFailure")
    \/ pc[o] = "casFailed" /\ state[o] = "Running" /\ Outcome(o, "Failed", "auditFailure")
    \/ /\ pc[o] = "unknown"
       /\ state[o] \in {"Running", "Verifying"}
       /\ Outcome(o, "Unknown", "auditFailure")
    \/ pc[o] = "casUnknown" /\ state[o] = "Running" /\ Outcome(o, "Unknown", "auditFailure")

\* The second half of OperationEngine::apply in a drive: the row still is
\* what its first half read, so the write is neither lost nor stale.
LEMMA StepWriteOutcome ==
    ASSUME ControlInv, NEW o \in Ops, StepWrite(o)
    PROVE  StepOutcome(o)
<1>1. /\ pc[o] \in Steps
      /\ loaded[o] = state[o]
      /\ state[o] \notin TerminalStates
      /\ pc[o] \in CasSteps => state[o] = "Running"
  BY DEF StepWrite, ControlInv, DriveOK, Steps, CasSteps, TerminalStates,
     RunningPcs
<1>2. /\ state' = [state EXCEPT ![o] = transition(state[o], StepEvent(pc[o]))]
      /\ pc' = [pc EXCEPT ![o] = StepNext(pc[o])]
      /\ loaded' = [loaded EXCEPT ![o] = "none"]
      /\ UNCHANGED <<task, failureKind, audit, bmcVars, faults>>
  BY <1>1 DEF StepWrite, ApplyTransition, ApplyTransitionIfCurrent, Return, Goto
<1>3. /\ seen' \in [Ops -> OperationStates \cup {"Absent"}]
      /\ mode' \in [Ops -> {"execute", "recover"}]
      /\ \A p \in Ops \ {o} : seen'[p] = seen[p] /\ mode'[p] = mode[p]
  BY <1>1 DEF StepWrite, Return, ControlInv
<1>4. ASSUME NEW new, NEW next, transition(state[o], StepEvent(pc[o])) = new, StepNext(pc[o]) = next
      PROVE  Outcome(o, new, next)
  BY <1>2, <1>3, <1>4 DEF Outcome
<1>5. DriveOK(o)
  BY DEF ControlInv
<1> HIDE DEF Types
<1> USE DEF StepOutcome, StepEvent, StepNext, DriveOK, RunningPcs, transition
<1>vstart. CASE pc[o] = "vstart"
  BY <1>vstart, <1>4, <1>5
<1>vpass. CASE pc[o] = "vpass"
  BY <1>vpass, <1>4, <1>5
<1>accept. CASE pc[o] = "accept"
  BY <1>accept, <1>4, <1>5
<1>rtstart. CASE pc[o] = "rtstart"
  BY <1>rtstart, <1>4, <1>5
<1>passed. CASE pc[o] = "passed"
  BY <1>passed, <1>4, <1>5
<1>failed. CASE pc[o] = "failed"
  BY <1>failed, <1>4, <1>5
<1>unknown. CASE pc[o] = "unknown"
  BY <1>unknown, <1>4, <1>5
<1>backfill. CASE pc[o] = "backfill"
  BY <1>backfill, <1>4, <1>5
<1>casFailed. CASE pc[o] = "casFailed"
  BY <1>casFailed, <1>4, <1>5
<1>casUnknown. CASE pc[o] = "casUnknown"
  BY <1>casUnknown, <1>4, <1>5
<1> QED
  BY <1>1, <1>vstart, <1>vpass, <1>accept, <1>rtstart, <1>passed, <1>failed,
     <1>unknown, <1>backfill, <1>casFailed, <1>casUnknown DEF Steps

\* The persisted steps of a drive keep the control invariant.
LEMMA WriteControl ==
    ASSUME ControlInv, NEW o \in Ops, StepWrite(o), UNCHANGED monitorVars, ReleaseOnReturn(o)
    PROVE  ControlInv'
<1>1. PICK new \in OperationStates, next \in DrivePcs :
         /\ Outcome(o, new, next)
         /\ state[o] \notin TerminalStates \cup {"WaitingRemote"}
         /\ pc[o] \in Steps
         /\ \/ new = "Validating" /\ next = "vpass" /\ sent[o] = 0
            \/ new = "Running" /\ next = "dispatch" /\ sent[o] = 0
            \/ new = "Verifying" /\ next \in {"verify", "passed"}
            \/ new = "WaitingRemote" /\ next = "idle" /\ task[o] # "none"
            \/ new = "Succeeded" /\ next = "auditSuccess"
            \/ new \in {"Failed", "Unknown"} /\ next = "auditFailure"
  BY StepWriteOutcome DEF StepOutcome, ControlInv, WriteOK, OperationStates,
     TerminalStates, DrivePcs, WorkPcs, WaitingPcs, Steps
<1>2. Types'
  BY <1>1, EndpointAssumption DEF Outcome, ControlInv, ReleaseOnReturn
<1>3. MonitorOK'
  BY <1>1 DEF Outcome, ControlInv, MonitorOK, MonitorSteps, Polling, Steps
<1>4. ASSUME NEW p \in Ops PROVE DriveOK(p)' /\ WriteOK(p)'
  <2>1. CASE p = o
    BY <1>1, <2>1 DEF Outcome, ControlInv, DriveOK, WriteOK, EntryStates,
       RunningPcs, TerminalStates
  <2>2. CASE p # o
    BY <1>1, <2>2 DEF Outcome, ControlInv, DriveOK, WriteOK, EntryStates
  <2> QED BY <2>1, <2>2
<1> QED
  BY <1>2, <1>3, <1>4 DEF ControlInv

\* So does every step of a drive, the failing ones included.
LEMMA DriveControl ==
    ASSUME ControlInv, NEW o \in Ops, Drive(o) \/ DriveFails(o)
    PROVE  ControlInv'
<1> USE EndpointAssumption DEF ReleaseOnReturn, Return, Goto, ControlInv,
   MonitorOK,
        MonitorSteps, Polling, DriveOK, WriteOK, EntryStates, DrivePcs, WorkPcs,
        WaitingPcs, Steps, RunningPcs, OperationStates, TerminalStates
<1>0. UNCHANGED monitorVars /\ ReleaseOnReturn(o)
  BY DEF Drive, DriveFails
<1>ReadOperation. CASE ReadOperation(o)
  BY <1>0, <1>ReadOperation DEF ReadOperation
<1>StartAudit. CASE StartAudit(o)
  BY <1>0, <1>StartAudit DEF StartAudit, AppendAudit, AuditFacts
<1>Preflight. CASE Preflight(o)
  BY <1>0, <1>Preflight DEF Preflight
<1>ClassifyRefusal. CASE ClassifyRefusal(o)
  BY <1>0, <1>ClassifyRefusal DEF ClassifyRefusal, RecordFailureKind
<1>StepRead. CASE StepRead(o)
  BY <1>0, <1>StepRead DEF StepRead, StepEvent, CasSteps
<1>Dispatch. CASE Dispatch(o)
  BY <1>0, <1>Dispatch DEF Dispatch, SendWrite, RemotePhases
<1>ReceiveResponse. CASE ReceiveResponse(o)
  BY <1>0, <1>ReceiveResponse DEF ReceiveResponse
<1>SaveTask. CASE SaveTask(o)
  BY <1>0, <1>SaveTask, MaxFaultsAssumption DEF SaveTask, SaveRemoteTask,
     TaskRows, TakeFault
<1>VerifyTarget. CASE VerifyTarget(o)
  BY <1>0, <1>VerifyTarget DEF VerifyTarget, VerdictStep
<1>JudgeRunning. CASE JudgeRunning(o)
  BY <1>0, <1>JudgeRunning DEF JudgeRunning, JudgeStep
<1>TerminalAudit. CASE TerminalAudit(o)
  BY <1>0, <1>TerminalAudit DEF TerminalAudit, AppendAudit, AuditFacts
<1>DriveError. CASE DriveError(o)
  BY <1>0, <1>DriveError, MaxFaultsAssumption DEF DriveError, TakeFault
<1>StepWrite. CASE StepWrite(o)
  BY <1>0, <1>StepWrite, WriteControl
<1> QED
  BY <1>ReadOperation, <1>StartAudit, <1>Preflight, <1>ClassifyRefusal,
     <1>StepRead, <1>Dispatch, <1>ReceiveResponse, <1>SaveTask, <1>VerifyTarget,
     <1>JudgeRunning, <1>TerminalAudit, <1>DriveError, <1>StepWrite DEF Drive,
     DriveFails, DriveWork

\* The same for a persisted step of a poll.
MonitorOutcome ==
    /\ mop \in Ops /\ mop \notin mlist /\ pc[mop] = "idle"
    /\ mloaded' = "none"
    /\ UNCHANGED <<mlist, mop, mobs, task, failureKind, audit, bmcVars, driveVars, faults>>
    /\ \E new \in OperationStates :
          /\ state' = [state EXCEPT ![mop] = new]
          /\ \/ mpc = "taskDone" /\ state[mop] = "WaitingRemote"
                 /\ new = "Verifying" /\ mpc' = "verify"
             \/ mpc = "passed" /\ state[mop] = "Verifying"
                 /\ new = "Succeeded" /\ mpc' = "auditSuccess"
             \/ mpc = "failed" /\ state[mop] \in {"WaitingRemote", "Verifying"}
                 /\ new = "Failed" /\ mpc' = "auditFailure"
             \/ mpc = "unknown" /\ state[mop] \in {"WaitingRemote", "Verifying"}
                 /\ new = "Unknown" /\ mpc' = "auditFailure"

\* The second half of OperationEngine::apply in a poll: no drive and no crash
\* has moved the row since its first half.
LEMMA MonitorStepOutcome ==
    ASSUME ControlInv, MonitorStepWrite
    PROVE  MonitorOutcome
<1>1. /\ mop \in Ops /\ mop \notin mlist /\ pc[mop] = "idle"
      /\ mpc \in MonitorSteps /\ mloaded = state[mop]
      /\ state[mop] \notin TerminalStates
  BY DEF MonitorStepWrite, ControlInv, MonitorOK, MonitorSteps, Polling,
     TerminalStates
<1>2. /\ state' = [state EXCEPT ![mop] = transition(state[mop], MonitorEvent(mpc))]
      /\ mpc' = MonitorNext(mpc)
      /\ mloaded' = "none"
      /\ UNCHANGED <<mlist, mop, mobs, task, failureKind, audit, bmcVars, driveVars, faults>>
  BY <1>1 DEF MonitorStepWrite, ApplyTransition
<1> QED
  BY <1>1, <1>2 DEF MonitorOutcome, ControlInv, MonitorOK, MonitorSteps,
     transition,
     MonitorEvent, MonitorNext, OperationStates, TerminalStates

\* The persisted steps of a poll keep the control invariant.
LEMMA MonitorStepWriteControl ==
    ASSUME ControlInv, MonitorStepWrite, UNCHANGED gate
    PROVE  ControlInv'
BY MonitorStepOutcome DEF MonitorOutcome, ControlInv, MonitorOK, MonitorPcs,
   MonitorSteps, Polling, DriveOK, WriteOK, EntryStates, OperationStates,
   TerminalStates, Steps, RunningPcs

\* So does every step of the Task monitor pass.
LEMMA MonitorControl ==
    ASSUME ControlInv, MonitorWork \/ MonitorError, UNCHANGED gate
    PROVE  ControlInv'
<1> USE NoOpAssumption DEF NextPoll, MonitorGoto, TaskRows, ControlInv,
   MonitorOK, MonitorSteps, MonitorPcs, Polling, DriveOK,
        WriteOK, EntryStates, DrivePcs, WorkPcs, WaitingPcs, Steps, RunningPcs,
        OperationStates, TerminalStates
<1>ListWaiting. CASE ListWaiting
  BY <1>ListWaiting DEF ListWaiting
<1>PickNext. CASE PickNext
  BY <1>PickNext DEF PickNext
<1>PollAnswered. CASE PollAnswered
  BY <1>PollAnswered DEF PollAnswered, TaskObservation, TaskRows
<1>PollDeferred. CASE PollDeferred
  BY <1>PollDeferred DEF PollDeferred
<1>SaveObservation. CASE SaveObservation
  BY <1>SaveObservation DEF SaveObservation, SaveRemoteTask, TaskRows
<1>MonitorStepRead. CASE MonitorStepRead
  BY <1>MonitorStepRead DEF MonitorStepRead
<1>MonitorVerify. CASE MonitorVerify
  BY <1>MonitorVerify DEF MonitorVerify, VerdictStep
<1>MonitorAudit. CASE MonitorAudit
  BY <1>MonitorAudit DEF MonitorAudit, AppendAudit, AuditFacts
<1>MonitorError. CASE MonitorError
  BY <1>MonitorError, MaxFaultsAssumption DEF MonitorError, TakeFault
<1>MonitorStepWrite. CASE MonitorStepWrite
  BY <1>MonitorStepWrite, MonitorStepWriteControl
<1> QED
  BY <1>ListWaiting, <1>PickNext, <1>PollAnswered, <1>PollDeferred,
     <1>SaveObservation, <1>MonitorStepRead, <1>MonitorVerify, <1>MonitorAudit,
     <1>MonitorError, <1>MonitorStepWrite DEF MonitorWork

\* Every step of the system keeps the control invariant: a tick starts only
\* when the previous sweep has drained, so the monitor and a drive never own
\* the same operation.
LEMMA SchedulerControl ==
    ASSUME ControlInv, [Next]_vars
    PROVE  ControlInv'
<1> USE DEF ControlInv, MonitorOK, MonitorSteps, MonitorPcs, Polling, DriveOK,
        WriteOK, EntryStates, DrivePcs, WorkPcs, WaitingPcs, Steps, RunningPcs,
        OperationStates, TerminalStates
<1>1. CASE StartTick
  BY <1>1 DEF StartTick, Drained, Listed, RecoverableStates
<1>2. CASE Crash
  BY <1>2, MaxFaultsAssumption DEF Crash, TakeFault, TaskRows
<1>3. ASSUME NEW o \in Ops, Submit(o) PROVE ControlInv'
  BY <1>3 DEF Submit, CreateOperation
<1>4. ASSUME NEW o \in Ops, StartDrive(o) PROVE ControlInv'
  BY <1>4 DEF StartDrive, Goto
<1>5. ASSUME NEW o \in Ops, AcquireGate(o) PROVE ControlInv'
  <2>1. gate' \in [Endpoints -> Ops \cup {NoOp}]
    BY <1>5, EndpointAssumption DEF AcquireGate
  <2>2. pc' = [pc EXCEPT ![o] = "read"] /\ pc[o] = "gated"
    BY <1>5 DEF AcquireGate, Goto
  <2>3. UNCHANGED <<storeVars, bmcVars, mode, seen, loaded, faults, monitorVars>>
    BY <1>5 DEF AcquireGate
  <2> QED
    BY <2>1, <2>2, <2>3
<1>6. ASSUME NEW o \in Ops, BmcStep(o) PROVE ControlInv'
  BY <1>6 DEF BmcStep, BmcHandle, BmcFinishTask, BmcDropTask, MayTakeEffect,
     RemotePhases, AcceptedWrites, TaskPhases, Effects
<1>7. CASE UNCHANGED vars
  BY <1>7 DEF vars
<1> QED
  BY <1>1, <1>2, <1>3, <1>4, <1>5, <1>6, <1>7, DriveControl, MonitorControl DEF
     Next

-----------------------------------------------------------------------------
(* The gate, the audit trail and the verdicts.                             *)

\* A step of a drive moves that drive only, and gives the gate back exactly
\* when it ends it.
LEMMA DriveFrame ==
    ASSUME ControlInv, NEW o \in Ops, Drive(o) \/ DriveFails(o)
    PROVE  /\ pc[o] \in WorkPcs
           /\ \A p \in Ops \ {o} : pc'[p] = pc[p]
           /\ ReleaseOnReturn(o)
BY StepWriteOutcome DEF Drive, DriveFails, DriveWork, WorkPcs, Steps, Return,
   Goto, ControlInv, StepOutcome, Outcome, ReadOperation, StartAudit, Preflight,
   ClassifyRefusal, StepRead, Dispatch, ReceiveResponse, SaveTask, VerifyTarget,
   JudgeRunning, TerminalAudit, DriveError

\* A set of drives that loses members, or gains one while there is room,
\* stays within the bound.
LEMMA SlotCount ==
    ASSUME SlotInv, NEW o,
           \/ Driving' \subseteq Driving
           \/ Driving' = Driving \cup {o} /\ Cardinality(Driving) < MaxConcurrentDrives
    PROVE  SlotInv'
<1>1. Cardinality(Driving) \in Nat /\ MaxConcurrentDrives \in Nat
  BY FS_CardinalityType, DrivesAssumption DEF SlotInv
<1>2. CASE Driving' \subseteq Driving
  <2>1. /\ IsFiniteSet(Driving') /\ Cardinality(Driving') \in Nat
        /\ Cardinality(Driving') <= Cardinality(Driving)
    BY <1>2, FS_Subset, FS_CardinalityType DEF SlotInv
  <2> QED
    BY <1>1, <2>1 DEF SlotInv
<1>3. CASE Driving' = Driving \cup {o} /\ Cardinality(Driving) < MaxConcurrentDrives
  <2>1. /\ IsFiniteSet(Driving')
        /\ Cardinality(Driving') = IF o \in Driving THEN Cardinality(Driving)
                                   ELSE Cardinality(Driving) + 1
    BY <1>3, FS_AddElement DEF SlotInv
  <2> QED
    BY <1>1, <1>3, <2>1 DEF SlotInv
<1> QED
  BY <1>2, <1>3

\* A drive takes a slot when it starts and keeps it until it returns.
LEMMA SlotStep ==
    ASSUME ControlInv, SlotInv, [Next]_vars
    PROVE  SlotInv'
<1>0. ASSUME \A o \in Ops : pc'[o] \in {pc[o], "idle", "listed"} PROVE SlotInv'
  BY <1>0, SlotCount DEF Driving
<1>1. CASE StartTick \/ Crash
  <2>1. \A o \in Ops : pc'[o] \in {pc[o], "idle", "listed"}
    BY <1>1 DEF StartTick, Crash
  <2> QED
    BY <1>0, <2>1
<1>2. ASSUME NEW o \in Ops, StartDrive(o) PROVE SlotInv'
  <2>1. pc' = [pc EXCEPT ![o] = "gated"] /\ pc \in [Ops -> DrivePcs]
    BY <1>2 DEF StartDrive, Goto, ControlInv
  <2>2. Driving' = Driving \cup {o} /\ Cardinality(Driving) < MaxConcurrentDrives
    BY <1>2, <2>1 DEF StartDrive, Driving
  <2> QED
    BY <2>2, SlotCount
<1>3. ASSUME NEW o \in Ops, AcquireGate(o) PROVE SlotInv'
  <2>1. pc' = [pc EXCEPT ![o] = "read"] /\ pc \in [Ops -> DrivePcs] /\ pc[o] = "gated"
    BY <1>3 DEF AcquireGate, Goto, ControlInv
  <2>2. Driving' \subseteq Driving
    BY <2>1 DEF Driving
  <2> QED
    BY <2>2, SlotCount
<1>4. ASSUME NEW o \in Ops, Drive(o) \/ DriveFails(o) PROVE SlotInv'
  <2>1. pc[o] \in WorkPcs /\ \A p \in Ops \ {o} : pc'[p] = pc[p]
    BY <1>4, DriveFrame
  <2>2. o \in Driving
    BY <2>1 DEF Driving, WorkPcs, Steps
  <2>3. Driving' \subseteq Driving
    BY <2>1, <2>2 DEF Driving
  <2> QED
    BY <2>3, SlotCount
<1>5. ASSUME UNCHANGED pc PROVE SlotInv'
  BY <1>0, <1>5
<1>6. ASSUME NEW o \in Ops, Submit(o) \/ BmcStep(o) PROVE SlotInv'
  BY <1>5, <1>6 DEF Submit, BmcStep
<1>7. CASE (MonitorWork \/ MonitorError) /\ UNCHANGED gate
  BY <1>5, <1>7 DEF MonitorWork, MonitorError, ListWaiting, PickNext,
     PollAnswered, PollDeferred, SaveObservation, MonitorStepRead,
     MonitorStepWrite, MonitorVerify, MonitorAudit
<1>8. CASE UNCHANGED vars
  BY <1>5, <1>8 DEF vars
<1> QED
  BY <1>1, <1>2, <1>3, <1>4, <1>6, <1>7, <1>8 DEF Next

\* A drive that works holds its endpoint's write gate.
LEMMA GateStep ==
    ASSUME ControlInv, GateInv, [Next]_vars
    PROVE  GateInv'
<1> USE EndpointAssumption, NoOpAssumption DEF GateInv, GateOK, ControlInv
<1>1. CASE StartTick
  BY <1>1 DEF StartTick, WorkPcs, Steps
<1>2. CASE Crash
  BY <1>2 DEF Crash, WorkPcs, Steps
<1>3. ASSUME NEW o \in Ops, StartDrive(o) PROVE GateInv'
  BY <1>3 DEF StartDrive, Goto, WorkPcs, Steps
<1>4. ASSUME NEW o \in Ops, AcquireGate(o) PROVE GateInv'
  BY <1>4 DEF AcquireGate, Goto, WorkPcs, Steps
<1>5. ASSUME NEW o \in Ops, Drive(o) \/ DriveFails(o) PROVE GateInv'
  <2>1. /\ pc[o] \in WorkPcs
        /\ \A p \in Ops \ {o} : pc'[p] = pc[p]
        /\ ReleaseOnReturn(o)
    BY <1>5, DriveFrame
  <2>2. ASSUME NEW p \in Ops, pc'[p] \in WorkPcs PROVE gate'[EndpointOf[p]] = p
    BY <2>1, <2>2 DEF ReleaseOnReturn, WorkPcs, Steps
  <2> QED BY <2>2
<1>6. ASSUME UNCHANGED <<pc, gate>> PROVE GateInv'
  BY <1>6
<1>7. ASSUME NEW o \in Ops, Submit(o) \/ BmcStep(o) PROVE UNCHANGED <<pc, gate>>
  BY <1>7 DEF Submit, BmcStep
<1>8. CASE (MonitorWork \/ MonitorError) /\ UNCHANGED gate
  BY <1>8, <1>6 DEF MonitorWork, MonitorError, ListWaiting, PickNext,
     PollAnswered, PollDeferred,
     SaveObservation, MonitorStepRead, MonitorStepWrite, MonitorVerify,
        MonitorAudit
<1>9. CASE UNCHANGED vars
  BY <1>9, <1>6 DEF vars
<1> QED
  BY <1>1, <1>2, <1>3, <1>4, <1>5, <1>6, <1>7, <1>8, <1>9 DEF Next

\* The start fact precedes the write and terminal facts follow the terminal
\* state.
LEMMA AuditStep ==
    ASSUME ControlInv, AuditInv, [Next]_vars
    PROVE  AuditInv'
<1> USE DEF AuditInv, AuditOK, ControlInv, DriveOK
<1>1. CASE StartTick
  BY <1>1 DEF StartTick
<1>2. CASE Crash
  BY <1>2 DEF Crash
<1>3. ASSUME NEW o \in Ops, StartDrive(o) \/ AcquireGate(o) \/ Submit(o) \/ BmcStep(o)
      PROVE  AuditInv'
  BY <1>3 DEF StartDrive, AcquireGate, Submit, CreateOperation, BmcStep,
     BmcHandle, BmcFinishTask, BmcDropTask, Goto
<1>4. ASSUME NEW o \in Ops, Drive(o) \/ DriveFails(o) PROVE AuditInv'
  <2> USE DEF Goto, Return
  <2>ReadOperation. CASE ReadOperation(o)
    BY <2>ReadOperation DEF ReadOperation
  <2>StartAudit. CASE StartAudit(o)
    BY <2>StartAudit DEF StartAudit, AppendAudit, AuditFacts
  <2>Preflight. CASE Preflight(o)
    BY <2>Preflight DEF Preflight
  <2>ClassifyRefusal. CASE ClassifyRefusal(o)
    BY <2>ClassifyRefusal DEF ClassifyRefusal, RecordFailureKind
  <2>StepRead. CASE StepRead(o)
    BY <2>StepRead DEF StepRead
  <2>StepWrite. CASE StepWrite(o)
    BY <2>StepWrite, StepWriteOutcome DEF StepOutcome, Outcome, TerminalStates
  <2>Dispatch. CASE Dispatch(o)
    BY <2>Dispatch DEF Dispatch, SendWrite
  <2>ReceiveResponse. CASE ReceiveResponse(o)
    BY <2>ReceiveResponse DEF ReceiveResponse
  <2>SaveTask. CASE SaveTask(o)
    BY <2>SaveTask DEF SaveTask, SaveRemoteTask
  <2>VerifyTarget. CASE VerifyTarget(o)
    BY <2>VerifyTarget DEF VerifyTarget, VerdictStep
  <2>JudgeRunning. CASE JudgeRunning(o)
    BY <2>JudgeRunning DEF JudgeRunning, JudgeStep
  <2>TerminalAudit. CASE TerminalAudit(o)
    BY <2>TerminalAudit DEF TerminalAudit, AppendAudit
  <2>DriveError. CASE DriveError(o)
    BY <2>DriveError DEF DriveError
  <2> QED
    BY <1>4, <2>ReadOperation, <2>StartAudit, <2>Preflight, <2>ClassifyRefusal,
       <2>StepRead, <2>StepWrite, <2>Dispatch, <2>ReceiveResponse, <2>SaveTask,
       <2>VerifyTarget, <2>JudgeRunning, <2>TerminalAudit, <2>DriveError DEF
       Drive, DriveFails, DriveWork
<1>5. CASE MonitorWork \/ MonitorError
  <2> USE DEF MonitorOK, Polling
  <2>ListWaiting. CASE ListWaiting
    BY <2>ListWaiting DEF ListWaiting
  <2>PickNext. CASE PickNext
    BY <2>PickNext DEF PickNext
  <2>PollAnswered. CASE PollAnswered
    BY <2>PollAnswered DEF PollAnswered
  <2>PollDeferred. CASE PollDeferred
    BY <2>PollDeferred DEF PollDeferred
  <2>SaveObservation. CASE SaveObservation
    BY <2>SaveObservation DEF SaveObservation
  <2>MonitorStepRead. CASE MonitorStepRead
    BY <2>MonitorStepRead DEF MonitorStepRead
  <2>MonitorStepWrite. CASE MonitorStepWrite
    BY <2>MonitorStepWrite DEF MonitorStepWrite, ApplyTransition, TerminalStates
  <2>MonitorVerify. CASE MonitorVerify
    BY <2>MonitorVerify DEF MonitorVerify
  <2>MonitorAudit. CASE MonitorAudit
    BY <2>MonitorAudit DEF MonitorAudit, AppendAudit
  <2>MonitorError. CASE MonitorError
    BY <2>MonitorError DEF MonitorError
  <2> QED
    BY <1>5, <2>ListWaiting, <2>PickNext, <2>PollAnswered, <2>PollDeferred,
       <2>SaveObservation, <2>MonitorStepRead, <2>MonitorStepWrite,
       <2>MonitorVerify, <2>MonitorAudit, <2>MonitorError DEF MonitorWork
<1>6. CASE UNCHANGED vars
  BY <1>6 DEF vars
<1> QED
  BY <1>1, <1>2, <1>3, <1>4, <1>5, <1>6 DEF Next

\* What the verdicts say about the BMC stays true whatever the BMC does
\* later.
LEMMA VerdictStepInv ==
    ASSUME ControlInv, VerdictInv, [Next]_vars
    PROVE  VerdictInv'
<1> USE DEF VerdictInv, ObservationOK, BmcOK, SuccessOK, FailureOK, ControlInv,
   DriveOK,
        WriteOK, MonitorOK, Polling, AcceptedWrites, TaskPhases
<1>1. CASE StartTick
  BY <1>1 DEF StartTick, Drained
<1>2. CASE Crash
  BY <1>2 DEF Crash
<1>3. ASSUME NEW o \in Ops, StartDrive(o) \/ AcquireGate(o) \/ Submit(o)
      PROVE  VerdictInv'
  BY <1>3 DEF StartDrive, AcquireGate, Submit, CreateOperation, Goto
<1>b. ASSUME NEW o \in Ops, BmcStep(o)
      PROVE  VerdictInv'
  <2>1. CASE BmcHandle(o)
    BY <1>b, <2>1 DEF BmcStep, BmcHandle, MayTakeEffect
  <2>2. CASE BmcFinishTask(o)
    BY <1>b, <2>2 DEF BmcStep, BmcFinishTask, MayTakeEffect
  <2>3. CASE BmcDropTask(o)
    BY <1>b, <2>3 DEF BmcStep, BmcDropTask
  <2> QED BY <1>b, <2>1, <2>2, <2>3 DEF BmcStep
<1>4. ASSUME NEW o \in Ops, Drive(o) \/ DriveFails(o) PROVE VerdictInv'
  <2> USE DEF Goto, Return, Drive, DriveFails
  <2>ReadOperation. CASE ReadOperation(o)
    BY <1>4, <2>ReadOperation DEF ReadOperation, EntryStates
  <2>StartAudit. CASE StartAudit(o)
    BY <1>4, <2>StartAudit DEF StartAudit, AppendAudit, EntryStates
  <2>Preflight. CASE Preflight(o)
    BY <1>4, <2>Preflight DEF Preflight
  <2>ClassifyRefusal. CASE ClassifyRefusal(o)
    BY <1>4, <2>ClassifyRefusal DEF ClassifyRefusal, RecordFailureKind
  <2>StepRead. CASE StepRead(o)
    BY <1>4, <2>StepRead DEF StepRead
  <2>StepWrite. CASE StepWrite(o)
    <3>1. StepOutcome(o) /\ UNCHANGED monitorVars
      BY <1>4, <2>StepWrite, StepWriteOutcome DEF DriveError, TakeFault
    <3>2. ASSUME NEW p \in Ops PROVE BmcOK(p)' /\ SuccessOK(p)' /\ FailureOK(p)'
      <4>1. CASE p = o
        BY <3>1, <4>1 DEF StepOutcome, Outcome
      <4>2. CASE p # o
        BY <3>1, <4>2 DEF StepOutcome, Outcome
      <4> QED BY <4>1, <4>2
    <3>3. ObservationOK'
      BY <3>1 DEF StepOutcome, Outcome
    <3> QED BY <3>2, <3>3
  <2>Dispatch. CASE Dispatch(o)
    BY <1>4, <2>Dispatch DEF Dispatch, SendWrite, RunningPcs
  <2>ReceiveResponse. CASE ReceiveResponse(o)
    BY <1>4, <2>ReceiveResponse DEF ReceiveResponse, RunningPcs
  <2>SaveTask. CASE SaveTask(o)
    BY <1>4, <2>SaveTask DEF SaveTask, SaveRemoteTask, RunningPcs
  <2>VerifyTarget. CASE VerifyTarget(o)
    BY <1>4, <2>VerifyTarget DEF VerifyTarget, VerdictStep, Verdicts
  <2>JudgeRunning. CASE JudgeRunning(o)
    BY <1>4, <2>JudgeRunning DEF JudgeRunning, JudgeStep, Verdicts,
       ProvesEffect, RunningPcs
  <2>TerminalAudit. CASE TerminalAudit(o)
    BY <1>4, <2>TerminalAudit DEF TerminalAudit, AppendAudit
  <2>DriveError. CASE DriveError(o)
    BY <1>4, <2>DriveError DEF DriveError
  <2> QED
    BY <1>4, <2>ReadOperation, <2>StartAudit, <2>Preflight, <2>ClassifyRefusal,
       <2>StepRead, <2>StepWrite, <2>Dispatch, <2>ReceiveResponse, <2>SaveTask,
       <2>VerifyTarget, <2>JudgeRunning, <2>TerminalAudit, <2>DriveError DEF
       DriveWork
<1>5. CASE MonitorWork \/ MonitorError
  <2> USE DEF NextPoll, MonitorGoto
  <2>ListWaiting. CASE ListWaiting
    BY <2>ListWaiting DEF ListWaiting
  <2>PickNext. CASE PickNext
    BY <2>PickNext DEF PickNext
  <2>PollAnswered. CASE PollAnswered
    BY <2>PollAnswered DEF PollAnswered, TaskObservation
  <2>PollDeferred. CASE PollDeferred
    BY <2>PollDeferred DEF PollDeferred
  <2>SaveObservation. CASE SaveObservation
    BY <2>SaveObservation DEF SaveObservation, SaveRemoteTask, TaskRows
  <2>MonitorStepRead. CASE MonitorStepRead
    BY <2>MonitorStepRead DEF MonitorStepRead, MonitorSteps
  <2>MonitorStepWrite. CASE MonitorStepWrite
    BY <2>MonitorStepWrite DEF MonitorStepWrite, ApplyTransition,
       TerminalStates, transition, MonitorEvent, MonitorNext, MonitorSteps
  <2>MonitorVerify. CASE MonitorVerify
    BY <2>MonitorVerify DEF MonitorVerify, VerdictStep, Verdicts
  <2>MonitorAudit. CASE MonitorAudit
    BY <2>MonitorAudit DEF MonitorAudit, AppendAudit
  <2>MonitorError. CASE MonitorError
    BY <2>MonitorError DEF MonitorError
  <2> QED
    BY <1>5, <2>ListWaiting, <2>PickNext, <2>PollAnswered, <2>PollDeferred,
       <2>SaveObservation, <2>MonitorStepRead, <2>MonitorStepWrite,
       <2>MonitorVerify, <2>MonitorAudit, <2>MonitorError DEF MonitorWork
<1>6. CASE UNCHANGED vars
  BY <1>6 DEF vars
<1> QED
  BY <1>1, <1>2, <1>3, <1>b, <1>4, <1>5, <1>6 DEF Next

-----------------------------------------------------------------------------
(* The theorems.                                                           *)

\* An empty operation table satisfies the inductive invariant.
LEMMA InductiveInit == Init => IInv
<1> SUFFICES ASSUME Init PROVE IInv
  OBVIOUS
<1>1. ControlInv
  BY ControlInit
<1>2. GateInv /\ AuditInv
  BY DEF Init, StoreInit, BmcInit, ExecInit, GateInv, GateOK, AuditInv, AuditOK,
     WorkPcs, Steps
<1>3. VerdictInv
  BY DEF Init, StoreInit, BmcInit, ExecInit, MonitorInit, VerdictInv,
     ObservationOK,
     Polling, BmcOK, SuccessOK, FailureOK
<1>4. SlotInv
  <2>1. Driving = {}
    BY DEF Init, ExecInit, Driving
  <2> QED
    BY <2>1, FS_EmptySet, DrivesAssumption DEF SlotInv
<1> QED
  BY <1>1, <1>2, <1>3, <1>4 DEF IInv

\* Every step of the system keeps the inductive invariant.
LEMMA InductiveStep == IInv /\ [Next]_vars => IInv'
BY SchedulerControl, SlotStep, GateStep, AuditStep, VerdictStepInv DEF IInv

\* The inductive invariant holds in every reachable state of the scheduler.
THEOREM Inductive == Spec => []IInv
BY InductiveInit, InductiveStep, PTL DEF Spec

\* Every variable stays in its type: in particular apply_transition never
\* persists the refusal of a transition, and a sweep of any number of rows
\* keeps to its drive slots (run_tick).
THEOREM TypeCorrect == Spec => []TypeOK
<1>1. IInv => TypeOK
  BY DEF IInv, ControlInv, SlotInv, TypeOK
<1> QED
  BY <1>1, Inductive, PTL

\* The write of an operation leaves the process at most once, whatever
\* crashes, failed store calls and recovery sweeps come in between
\* (execute_operation, recover_operation).
THEOREM SentAtMostOnce == Spec => []WriteSentAtMostOnce
<1>1. IInv => WriteSentAtMostOnce
  <2> SUFFICES ASSUME IInv, NEW o \in Ops PROVE sent[o] <= 1
    BY DEF WriteSentAtMostOnce
  <2>1. sent[o] \in {0, 1}
    BY DEF IInv, ControlInv, WriteOK
  <2> QED
    BY <2>1
<1> QED
  BY <1>1, Inductive, PTL

\* An operation in WaitingRemote has its remote-task row: drive_outcome saves
\* the row before RemoteTaskStarted.
THEOREM WaitingIsTracked == Spec => []WaitingHasTask
<1>1. IInv => WaitingHasTask
  BY DEF IInv, ControlInv, WriteOK, WaitingHasTask
<1> QED
  BY <1>1, Inductive, PTL

\* Two operations of one endpoint are never worked on at the same time
\* (endpoint_write_gate, drive_one).
THEOREM SerialWrites == Spec => []EndpointWritesSerial
<1>1. IInv => EndpointWritesSerial
  BY EndpointAssumption DEF IInv, GateInv, GateOK, EndpointWritesSerial
<1> QED
  BY <1>1, Inductive, PTL

\* No write is sent without a durable start fact, and a terminal fact agrees
\* with the final state (start_audit, record_success, record_failure).
THEOREM AuditIsTrue == Spec => []AuditMatchesOutcome
<1>1. IInv => AuditMatchesOutcome
  BY DEF IInv, AuditInv, AuditOK, AuditMatchesOutcome
<1> QED
  BY <1>1, Inductive, PTL

\* Succeeded is recorded only for a result that is on the BMC or a write the
\* BMC accepted (verify_target, recovery_judgement_proves_effect).
THEOREM SuccessIsReal == Spec => []SucceededIsReal
<1>1. IInv => SucceededIsReal
  BY DEF IInv, VerdictInv, SuccessOK, SucceededIsReal
<1> QED
  BY <1>1, Inductive, PTL

\* A Failed verdict on a write whose Task was recorded is right
\* (TaskMonitor::poll, observe).
THEOREM TrackedFailure == Spec => []TrackedFailureIsHonest
<1>1. IInv => TrackedFailureIsHonest
  BY ProvableAssumption DEF IInv, VerdictInv, FailureOK, TrackedFailureIsHonest
<1> QED
  BY <1>1, Inductive, PTL

\* The initial states of the scheduler are initial states of the contract.
LEMMA ContractInitHolds == Init => Contract!ContractInit
BY DEF Init, StoreInit, BmcInit, Contract!ContractInit

\* The moves the engine persists are moves of the transition matrix.
LEMMA LegalSteps ==
    /\ LegalStep("Queued", "Validating") /\ LegalStep("Validating", "Running")
    /\ LegalStep("Running", "Verifying") /\ LegalStep("Running", "WaitingRemote")
    /\ LegalStep("WaitingRemote", "Verifying") /\ LegalStep("Verifying", "Succeeded")
    /\ \A s \in OperationStates \ TerminalStates : LegalStep(s, "Failed")
    /\ \A s \in {"Running", "WaitingRemote", "Verifying"} : LegalStep(s, "Unknown")
BY DEF LegalStep, OperationEvents, transition, OperationStates, TerminalStates

\* Every step of the scheduler is a step of the contract or leaves the
\* contract's variables alone.
LEMMA ContractStep ==
    ASSUME IInv, Next
    PROVE  Contract!ContractNext \/ UNCHANGED Contract!contractVars
<1> USE DEF Contract!contractVars
<1>0. ASSUME NEW o \in Ops, NEW new \in OperationStates, LegalStep(state[o], new),
             state' = [state EXCEPT ![o] = new], UNCHANGED sent
      PROVE  Contract!ContractNext
  <2>1. new \in Contract!OperationStates
    BY DEF OperationStates, TerminalStates, Contract!OperationStates,
       Contract!TerminalStates
  <2>2. Contract!LegalStep(state[o], new)
    BY <1>0 DEF LegalStep, OperationEvents, transition, Invalid,
       Contract!LegalStep,
       Contract!OperationEvents, Contract!transition, Contract!Invalid
  <2> QED
    BY <1>0, <2>1, <2>2 DEF Contract!ContractNext, Contract!Advance
<1>1. CASE StartTick \/ Crash
  BY <1>1 DEF StartTick, Crash
<1>2. ASSUME NEW o \in Ops, Submit(o) PROVE Contract!ContractNext
  BY <1>2 DEF Submit, CreateOperation, Contract!ContractNext, Contract!Accept
<1>3. ASSUME NEW o \in Ops, StartDrive(o) \/ AcquireGate(o) \/ BmcStep(o)
      PROVE  UNCHANGED Contract!contractVars
  BY <1>3 DEF StartDrive, AcquireGate, BmcStep, BmcHandle, BmcFinishTask,
     BmcDropTask
<1>4. ASSUME NEW o \in Ops, StepWrite(o) PROVE Contract!ContractNext
  <2>1. StepOutcome(o)
    BY <1>4, StepWriteOutcome DEF IInv
  <2> QED
    BY <2>1, <1>0, LegalSteps DEF StepOutcome, Outcome, OperationStates,
       TerminalStates
<1>5. ASSUME NEW o \in Ops, Dispatch(o) PROVE Contract!ContractNext \/ UNCHANGED Contract!contractVars
  BY <1>5 DEF Dispatch, SendWrite, IInv, ControlInv, DriveOK, WriteOK,
     RunningPcs,
     Contract!ContractNext, Contract!Issue
<1>6. ASSUME NEW o \in Ops, Drive(o) \/ DriveFails(o), ~StepWrite(o), ~Dispatch(o)
      PROVE  UNCHANGED Contract!contractVars
  BY <1>6 DEF Drive, DriveFails, DriveWork, ReadOperation, StartAudit,
     Preflight, ClassifyRefusal,
     StepRead, ReceiveResponse, SaveTask, VerifyTarget, JudgeRunning,
        TerminalAudit, DriveError
<1>7. CASE MonitorStepWrite
  <2>1. MonitorOutcome
    BY <1>7, MonitorStepOutcome DEF IInv
  <2> QED
    BY <2>1, <1>0, LegalSteps DEF MonitorOutcome, OperationStates,
       TerminalStates
<1>8. CASE (MonitorWork \/ MonitorError) /\ ~MonitorStepWrite
  BY <1>8 DEF MonitorWork, MonitorError, ListWaiting, PickNext, PollAnswered,
     PollDeferred,
     SaveObservation, MonitorStepRead, MonitorVerify, MonitorAudit
<1> QED
  BY <1>1, <1>2, <1>3, <1>4, <1>5, <1>6, <1>7, <1>8 DEF Next

\* The scheduler implements OperationContract: all durable state changes are
\* legal transitions and the write is issued once, in Running.
THEOREM ContractIsKept == Spec => ImplementsContract
<1>1. IInv /\ [Next]_vars => [Contract!ContractNext]_(Contract!contractVars)
  BY ContractStep DEF vars, Contract!contractVars
<1> QED
  BY <1>1, ContractInitHolds, Inductive, PTL DEF Spec, ImplementsContract,
     Contract!ContractSpec
==============================================================================
