-------------------------- MODULE OperationExecutor --------------------------
(***************************************************************************)
(* The operation executor: execute_operation drives a fresh operation from *)
(* pre-flight to its verdict, recover_operation resolves one a crash or a  *)
(* failed store call left behind.  A drive is a thread of its own (`pc');  *)
(* every boundary call (store, gateway, audit) is one step, because other  *)
(* drives, the Task monitor, the BMC and a crash can come in between.      *)
(* Reads of the endpoint, capability and artifact tables only feed the     *)
(* pre-flight verdict and are one step.                                    *)
(***************************************************************************)
EXTENDS OperationStore, Bmc

CONSTANTS
    Provable,      \* operations whose command asserts a durable result
                   \* (recovery_judgement_proves_effect)
    MaxFaults      \* bound: crashes and failed boundary calls in a behaviour

ASSUME ProvableAssumption == Provable \subseteq Ops
ASSUME MaxFaultsAssumption == MaxFaults \in Nat

VARIABLES
    pc,            \* where the drive of each operation is
    mode,          \* the entry point the scheduler chose for the drive
    seen,          \* the state the drive read first
    loaded,        \* the state OperationEngine::apply has read for its write
    faults         \* the faults used up so far

driveVars == <<pc, mode, seen, loaded>>
execVars == <<storeVars, bmcVars, driveVars, faults>>

\* The persisted steps of a drive: the event each applies and what follows.
StepEvent(step) ==
    CASE step = "vstart" -> "ValidationStarted"
      [] step = "vpass" -> "ValidationPassed"
      [] step \in {"accept", "backfill"} -> "ExecutionAccepted"
      [] step = "rtstart" -> "RemoteTaskStarted"
      [] step = "passed" -> "VerificationPassed"
      [] step \in {"failed", "casFailed"} -> "Failed"
      [] step \in {"unknown", "casUnknown"} -> "OutcomeUnknown"

\* Mutant: the write is dispatched before Running is persisted.
StepNextEarlyDispatch(step) ==
    CASE step \in {"vstart", "vpass"} -> "dispatch"
      [] step = "accept" -> "verify"
      [] step = "rtstart" -> "idle"
      [] step = "passed" -> "auditSuccess"
      [] step = "backfill" -> "passed"
      [] OTHER -> "auditFailure"

StepNext(step) ==
    CASE step = "vstart" -> "vpass"
      [] step = "vpass" -> "dispatch"
      [] step = "accept" -> "verify"
      [] step = "rtstart" -> "idle"
      [] step = "passed" -> "auditSuccess"
      [] step = "backfill" -> "passed"
      [] OTHER -> "auditFailure"

Steps == {"vstart", "vpass", "accept", "rtstart", "passed", "failed",
          "unknown", "backfill", "casFailed", "casUnknown"}

\* The recovery verdicts, persisted with compare-and-set against Running
\* (recover_step_if_current).
CasSteps == {"casFailed", "casUnknown"}

\* Where a drive waits before it runs: in the tick's stream, then at the
\* endpoint's write gate.
WaitingPcs == {"listed", "gated"}
WorkPcs == {"read", "startAudit", "preflight", "kind", "dispatch", "await",
            "saveTask", "verify", "judge", "auditSuccess", "auditFailure"}
           \cup Steps
DrivePcs == {"idle"} \cup WaitingPcs \cup WorkPcs

ExecTypeOK ==
    /\ pc \in [Ops -> DrivePcs]
    /\ mode \in [Ops -> {"execute", "recover"}]
    /\ seen \in [Ops -> OperationStates \cup {"Absent"}]
    /\ loaded \in [Ops -> OperationStates \cup {"none"}]
    /\ faults \in 0 .. MaxFaults

ExecInit ==
    /\ pc = [o \in Ops |-> "idle"]
    /\ mode = [o \in Ops |-> "execute"]
    /\ seen = [o \in Ops |-> "Absent"]
    /\ loaded = [o \in Ops |-> "none"]
    /\ faults = 0

Goto(o, next) == pc' = [pc EXCEPT ![o] = next]

\* The drive returns, with or without an error, and its thread is gone.
Return(o) ==
    /\ pc' = [pc EXCEPT ![o] = "idle"]
    /\ mode' = [mode EXCEPT ![o] = "execute"]
    /\ seen' = [seen EXCEPT ![o] = "Absent"]
    /\ loaded' = [loaded EXCEPT ![o] = "none"]

TakeFault == faults < MaxFaults /\ faults' = faults + 1

-----------------------------------------------------------------------------
(* execute_operation and recover_operation: the entry guards.              *)

\* A fresh or resumed operation must be Queued or Validating; recovery takes
\* Running and Verifying, and a Running row with a remote-task row goes
\* straight back to the monitor without an audit fact of its own.
ReadOperation(o) ==
    /\ pc[o] = "read"
    /\ LET entry == IF mode[o] = "execute" THEN {"Queued", "Validating"}
                                           ELSE {"Running", "Verifying"}
       IN IF state[o] \notin entry
          THEN Return(o)
          ELSE /\ seen' = [seen EXCEPT ![o] = state[o]]
               /\ Goto(o, IF state[o] = "Running" /\ task[o] # "none"
                          THEN "rtstart" ELSE "startAudit")
               /\ UNCHANGED <<mode, loaded>>
    /\ UNCHANGED <<storeVars, bmcVars, faults>>

\* Mutant: a failed append of the start fact is only logged.
StartAuditIgnored(o) ==
    /\ pc[o] = "startAudit"
    /\ \/ AppendAudit(o, "started") /\ UNCHANGED faults
       \/ TakeFault /\ UNCHANGED audit
    /\ Goto(o, CASE mode[o] = "execute" -> "preflight"
                 [] mode[o] = "recover" /\ seen[o] = "Running" -> "judge"
                 [] OTHER -> "verify")
    /\ UNCHANGED <<state, task, failureKind, bmcVars, mode, seen, loaded>>

\* start_audit: the start fact is durable before any further work.
StartAudit(o) ==
    /\ pc[o] = "startAudit"
    /\ AppendAudit(o, "started")
    /\ Goto(o, CASE mode[o] = "execute" -> "preflight"
                 [] mode[o] = "recover" /\ seen[o] = "Running" -> "judge"
                 [] OTHER -> "verify")
    /\ UNCHANGED <<state, task, failureKind, bmcVars, mode, seen, loaded, faults>>

\* endpoint_exists, capability_preflight and resolve_update_artifact: the
\* write may go ahead, is refused, or is refused as provably unsupported.
Preflight(o) ==
    /\ pc[o] = "preflight"
    /\ \E verdict \in {"usable", "refused", "unsupported"} :
          Goto(o, CASE verdict = "refused" -> "failed"
                    [] verdict = "unsupported" -> "kind"
                    [] OTHER -> IF seen[o] = "Queued" THEN "vstart" ELSE "vpass")
    /\ UNCHANGED <<storeVars, bmcVars, mode, seen, loaded, faults>>

\* The classification is its own write, before the Failed transition.
ClassifyRefusal(o) ==
    /\ pc[o] = "kind"
    /\ RecordFailureKind(o)
    /\ Goto(o, "failed")
    /\ UNCHANGED <<state, task, audit, bmcVars, mode, seen, loaded, faults>>

-----------------------------------------------------------------------------
(* apply_step: OperationEngine::apply is a read followed by a write.       *)

\* find_operation and the domain transition.  The compare-and-set form also
\* refuses a state other than the one it expects.
StepRead(o) ==
    /\ pc[o] \in Steps
    /\ loaded[o] = "none"
    /\ IF \/ transition(state[o], StepEvent(pc[o])) = Invalid
          \/ pc[o] \in CasSteps /\ state[o] # "Running"
       THEN Return(o)
       ELSE /\ loaded' = [loaded EXCEPT ![o] = state[o]]
            /\ UNCHANGED <<pc, mode, seen>>
    /\ UNCHANGED <<storeVars, bmcVars, faults>>

\* The store write of the state computed from the read, and the next step of
\* the drive.
StepWrite(o) ==
    /\ pc[o] \in Steps
    /\ loaded[o] # "none"
    /\ LET new == transition(loaded[o], StepEvent(pc[o]))
           lost == IF pc[o] \in CasSteps THEN state[o] # "Running"
                                         ELSE state[o] \in TerminalStates
       IN /\ IF pc[o] \in CasSteps
             THEN ApplyTransitionIfCurrent(o, "Running", new)
             ELSE ApplyTransition(o, new)
          /\ IF lost \/ StepNext(pc[o]) = "idle"
             THEN Return(o)
             ELSE /\ Goto(o, StepNext(pc[o]))
                  /\ loaded' = [loaded EXCEPT ![o] = "none"]
                  /\ UNCHANGED <<mode, seen>>
    /\ UNCHANGED <<task, failureKind, audit, bmcVars, faults>>

-----------------------------------------------------------------------------
(* dispatch_and_verify and drive_outcome.                                  *)

\* gateway.execute: the request leaves the process, or a failure proves that
\* it never did (DispatchVerdict::NotExecuted).
Dispatch(o) ==
    /\ pc[o] = "dispatch"
    /\ \/ SendWrite(o) /\ Goto(o, "await")
       \/ UNCHANGED bmcVars /\ Goto(o, "failed")
    /\ UNCHANGED <<storeVars, mode, seen, loaded, faults>>

\* The response arrives, or is lost (DispatchVerdict::OutcomeUnknown).
ReceiveResponse(o) ==
    /\ pc[o] = "await"
    /\ \/ remote[o] = "refused" /\ Goto(o, "failed")
       \/ remote[o] = "done" /\ Goto(o, "accept")
       \/ remote[o] \in TaskPhases /\ Goto(o, "saveTask")
       \/ Goto(o, "unknown")
    /\ UNCHANGED <<storeVars, bmcVars, mode, seen, loaded, faults>>

\* Mutant: the failed save of the Task row is only logged.
SaveTaskIgnored(o) ==
    /\ pc[o] = "saveTask"
    /\ Goto(o, "rtstart")
    /\ \/ SaveRemoteTask(o, "active") /\ UNCHANGED faults
       \/ TakeFault /\ UNCHANGED task
    /\ UNCHANGED <<state, failureKind, audit, bmcVars, mode, seen, loaded>>

\* The Task row is persisted before RemoteTaskStarted; when it cannot be, the
\* outcome is recorded as unknown.
SaveTask(o) ==
    /\ pc[o] = "saveTask"
    /\ \/ SaveRemoteTask(o, "active") /\ Goto(o, "rtstart") /\ UNCHANGED faults
       \/ TakeFault /\ Goto(o, "unknown") /\ UNCHANGED task
    /\ UNCHANGED <<state, failureKind, audit, bmcVars, mode, seen, loaded>>

\* The verdicts CommandVerifier::verify can return.  A command that asserts a
\* durable result is Confirmed exactly when the result is there; the others
\* only show that the target can be read.
Verdicts(o) ==
    {"Error"} \cup
    (IF o \notin Provable THEN {"Confirmed", "Mismatched"}
     ELSE IF effect[o] = "absent" THEN {"Mismatched"} ELSE {"Confirmed"})

VerdictStep(verdict) ==
    CASE verdict = "Confirmed" -> "passed"
      [] verdict = "Mismatched" -> "failed"
      [] OTHER -> "unknown"

\* verify_target, after an accepted write and on the recovery of Verifying.
VerifyTarget(o) ==
    /\ pc[o] = "verify"
    /\ \E verdict \in Verdicts(o) : Goto(o, VerdictStep(verdict))
    /\ UNCHANGED <<storeVars, bmcVars, mode, seen, loaded, faults>>

\* Mutant: every Confirmed re-read is taken as proof.
ProvesEffectAlways(o) == TRUE

\* recovery_judgement_proves_effect.
ProvesEffect(o) == o \in Provable

\* Mutant: the judge forgets to back-fill ExecutionAccepted.
JudgeStepNoBackfill(o, verdict) ==
    CASE verdict = "Confirmed" /\ ProvesEffect(o) -> "passed"
      [] verdict = "Mismatched" -> "casFailed"
      [] OTHER -> "casUnknown"

JudgeStep(o, verdict) ==
    CASE verdict = "Confirmed" /\ ProvesEffect(o) -> "backfill"
      [] verdict = "Mismatched" -> "casFailed"
      [] OTHER -> "casUnknown"

\* judge_running: the write may or may not have been issued; the re-read
\* decides and the write is never sent again.
JudgeRunning(o) ==
    /\ pc[o] = "judge"
    /\ \E verdict \in Verdicts(o) : Goto(o, JudgeStep(o, verdict))
    /\ UNCHANGED <<storeVars, bmcVars, mode, seen, loaded, faults>>

\* record_success / record_failure: the terminal fact, after the terminal
\* step is durable.
TerminalAudit(o) ==
    /\ \/ pc[o] = "auditSuccess" /\ AppendAudit(o, "succeeded")
       \/ pc[o] = "auditFailure" /\ AppendAudit(o, "failed")
    /\ Return(o)
    /\ UNCHANGED <<state, task, failureKind, bmcVars, faults>>

\* Any store, audit or pre-flight call of a drive can fail and end it with
\* nothing written.
DriveError(o) ==
    /\ pc[o] \in {"read", "startAudit", "preflight", "kind", "auditSuccess",
                 "auditFailure"} \cup Steps
    /\ TakeFault
    /\ Return(o)
    /\ UNCHANGED <<storeVars, bmcVars>>

\* The progress steps of a drive that holds its endpoint's gate.
DriveWork(o) ==
    \/ ReadOperation(o) \/ StartAudit(o) \/ Preflight(o) \/ ClassifyRefusal(o)
    \/ StepRead(o) \/ StepWrite(o)
    \/ Dispatch(o) \/ ReceiveResponse(o) \/ SaveTask(o)
    \/ VerifyTarget(o) \/ JudgeRunning(o) \/ TerminalAudit(o)
==============================================================================
