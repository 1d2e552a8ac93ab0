----------------------------- MODULE TaskMonitor -----------------------------
(***************************************************************************)
(* The Task monitor pass of a tick: it lists the WaitingRemote operations  *)
(* afresh and polls them one after the other, concurrently with the        *)
(* executor drives and without the endpoints' write gates.                 *)
(***************************************************************************)
EXTENDS OperationExecutor

CONSTANT NoOp              \* the monitor is between two operations
ASSUME NoOpAssumption == NoOp \notin Ops

VARIABLES
    mpc,                   \* where the monitor pass is
    mlist,                 \* the listed operations not polled yet
    mop,                   \* the operation being polled
    mobs,                  \* the Task state the poll observed
    mloaded                \* the state its OperationEngine::apply has read

monitorVars == <<mpc, mlist, mop, mobs, mloaded>>

\* The persisted steps of a poll.
MonitorSteps == {"taskDone", "passed", "failed", "unknown"}
MonitorPcs == {"off", "list", "next", "poll", "save", "verify",
               "auditSuccess", "auditFailure"} \cup MonitorSteps

MonitorEvent(step) ==
    CASE step = "taskDone" -> "RemoteTaskCompleted"
      [] step = "passed" -> "VerificationPassed"
      [] step = "failed" -> "Failed"
      [] step = "unknown" -> "OutcomeUnknown"

MonitorNext(step) ==
    CASE step = "taskDone" -> "verify"
      [] step = "passed" -> "auditSuccess"
      [] OTHER -> "auditFailure"

MonitorTypeOK ==
    /\ mpc \in MonitorPcs
    /\ mlist \in SUBSET Ops
    /\ mop \in Ops \cup {NoOp}
    /\ mobs \in TaskRows
    /\ mloaded \in OperationStates \cup {"none"}

MonitorInit ==
    /\ mpc = "off"
    /\ mlist = {}
    /\ mop = NoOp
    /\ mobs = "none"
    /\ mloaded = "none"

\* The poll of the current operation is over.
NextPoll ==
    /\ mpc' = "next"
    /\ mop' = NoOp
    /\ mobs' = "none"
    /\ mloaded' = "none"
    /\ UNCHANGED mlist

MonitorGoto(next) == mpc' = next /\ UNCHANGED <<mlist, mop, mobs, mloaded>>

\* recover_tasks.
ListWaiting ==
    /\ mpc = "list"
    /\ mlist' = {o \in Ops : state[o] = "WaitingRemote"}
    /\ mpc' = "next"
    /\ UNCHANGED <<execVars, mop, mobs, mloaded>>

\* The sequential loop over the listing.
PickNext ==
    /\ mpc = "next"
    /\ \/ mlist = {} /\ MonitorGoto("off")
       \/ \E o \in mlist : /\ mop' = o
                           /\ mlist' = mlist \ {o}
                           /\ mpc' = "poll"
                           /\ UNCHANGED <<mobs, mloaded>>
    /\ UNCHANGED execVars

\* What read_task returns for the BMC's Task, as the monitor classifies it.
TaskObservation(phase) ==
    CASE phase = "running" -> "active"
      [] phase = "completed" -> "completed"
      [] phase = "aborted" -> "aborted"
      [] OTHER -> "none"

\* Mutant: a Task that is gone counts as a failed Task.
PollAnsweredGoneFails ==
    /\ mpc = "poll"
    /\ IF state[mop] # "WaitingRemote" THEN NextPoll
       ELSE IF TaskObservation(remote[mop]) = "none"
            THEN MonitorGoto("failed")
            ELSE /\ mobs' = TaskObservation(remote[mop])
                 /\ mpc' = "save"
                 /\ UNCHANGED <<mlist, mop, mloaded>>
    /\ UNCHANGED execVars

\* poll, answered: an operation that left WaitingRemote is skipped; a Task
\* that is gone, answers without a state, or has no row resolves to unknown;
\* any other observation is saved.
PollAnswered ==
    /\ mpc = "poll"
    /\ IF state[mop] # "WaitingRemote" THEN NextPoll
       ELSE \E seenState \in {TaskObservation(remote[mop]), "none"} :
              IF task[mop] = "none" \/ seenState = "none"
              THEN MonitorGoto("unknown")
              ELSE /\ mobs' = seenState
                   /\ mpc' = "save"
                   /\ UNCHANGED <<mlist, mop, mloaded>>
    /\ UNCHANGED execVars

\* poll, deferred: the BMC could not be read; nothing changes until the next
\* tick.
PollDeferred ==
    /\ mpc = "poll"
    /\ NextPoll
    /\ UNCHANGED execVars

\* observe: the row is updated first, then the verdict follows from it.
SaveObservation ==
    /\ mpc = "save"
    /\ SaveRemoteTask(mop, mobs)
    /\ CASE mobs = "active" -> NextPoll
         [] mobs = "completed" -> MonitorGoto("taskDone")
         [] OTHER -> MonitorGoto("failed")
    /\ UNCHANGED <<state, failureKind, audit, bmcVars, driveVars, faults>>

\* apply_step, as in the executor: the read ...
MonitorStepRead ==
    /\ mpc \in MonitorSteps
    /\ mloaded = "none"
    /\ IF transition(state[mop], MonitorEvent(mpc)) = Invalid
       THEN NextPoll
       ELSE mloaded' = state[mop] /\ UNCHANGED <<mpc, mlist, mop, mobs>>
    /\ UNCHANGED execVars

\* ... and the write.
MonitorStepWrite ==
    /\ mpc \in MonitorSteps
    /\ mloaded # "none"
    /\ ApplyTransition(mop, transition(mloaded, MonitorEvent(mpc)))
    /\ IF state[mop] \in TerminalStates
       THEN NextPoll
       ELSE /\ mpc' = MonitorNext(mpc)
            /\ mloaded' = "none"
            /\ UNCHANGED <<mlist, mop, mobs>>
    /\ UNCHANGED <<task, failureKind, audit, bmcVars, driveVars, faults>>

\* verify_target of the monitor, after a completed Task.
MonitorVerify ==
    /\ mpc = "verify"
    /\ \E verdict \in Verdicts(mop) : MonitorGoto(VerdictStep(verdict))
    /\ UNCHANGED execVars

\* The terminal audit fact of a polled operation.
MonitorAudit ==
    /\ \/ mpc = "auditSuccess" /\ AppendAudit(mop, "succeeded")
       \/ mpc = "auditFailure" /\ AppendAudit(mop, "failed")
    /\ NextPoll
    /\ UNCHANGED <<state, task, failureKind, bmcVars, driveVars, faults>>

\* A store or audit call fails: a failed listing ends the pass, a failed poll
\* leaves the loop to go on with the next operation.
MonitorError ==
    /\ \/ mpc = "list" /\ MonitorGoto("off")
       \/ mpc \in {"poll", "save", "auditSuccess", "auditFailure"} \cup MonitorSteps
          /\ NextPoll
    /\ TakeFault
    /\ UNCHANGED <<storeVars, bmcVars, driveVars>>

MonitorWork ==
    \/ ListWaiting \/ PickNext \/ PollAnswered \/ PollDeferred
    \/ SaveObservation \/ MonitorStepRead \/ MonitorStepWrite
    \/ MonitorVerify \/ MonitorAudit
==============================================================================
