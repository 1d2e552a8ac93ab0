-------------------------- MODULE SchedulerInvariant -------------------------
(***************************************************************************)
(* The inductive invariant behind the safety properties of Scheduler: what *)
(* the persisted state of an operation is at every step of its drive and   *)
(* of its poll.  It is what makes the two-step OperationEngine::apply, the *)
(* tick's stale listing and the unguarded recovery paths safe.             *)
(***************************************************************************)
EXTENDS Scheduler

\* The states the scheduler chose an entry point for.
EntryStates(m) == IF m = "execute" THEN {"Queued", "Validating"}
                                   ELSE {"Running", "Verifying"}

\* Steps of a drive that only run while the row is Running.
RunningPcs == {"dispatch", "await", "saveTask", "accept", "rtstart", "judge",
               "backfill", "casFailed", "casUnknown"}

\* The row a drive works on, at every step of the drive.
DriveOK(o) ==
    /\ pc[o] \in {"listed", "gated", "read"} => state[o] \in EntryStates(mode[o])
    /\ pc[o] = "startAudit" => state[o] = seen[o] /\ seen[o] \in EntryStates(mode[o])
    /\ pc[o] \in {"preflight", "kind"} =>
          state[o] = seen[o] /\ seen[o] \in {"Queued", "Validating"}
    /\ pc[o] = "vstart" => state[o] = "Queued"
    /\ pc[o] = "vpass" => state[o] = "Validating"
    /\ pc[o] \in RunningPcs => state[o] = "Running"
    /\ pc[o] \in {"verify", "passed"} => state[o] = "Verifying"
    /\ pc[o] = "failed" => state[o] \in {"Queued", "Validating", "Running", "Verifying"}
    /\ pc[o] = "unknown" => state[o] \in {"Running", "Verifying"}
    /\ pc[o] = "auditSuccess" => state[o] = "Succeeded"
    /\ pc[o] = "auditFailure" => state[o] \in {"Failed", "Unknown"}
    /\ loaded[o] # "none" => pc[o] \in Steps /\ loaded[o] = state[o]

\* What ties the row to the write: nothing is sent before Running, the drive
\* that is about to send is the first to do so, and WaitingRemote is the
\* monitor's alone and always has its Task row.
WriteOK(o) ==
    /\ sent[o] \in {0, 1}
    /\ state[o] \in {"Absent", "Queued", "Validating"} => sent[o] = 0
    /\ pc[o] = "dispatch" => sent[o] = 0
    /\ pc[o] = "rtstart" => task[o] # "none"
    /\ state[o] = "WaitingRemote" => pc[o] = "idle" /\ task[o] # "none"

\* The monitor is working on an operation.
Polling == mpc \notin {"off", "list", "next"}

\* The row the monitor works on, at every step of a poll, and the rows it
\* has still to poll.
MonitorOK ==
    /\ \A o \in mlist : state[o] = "WaitingRemote"
    /\ Polling => mop \in Ops /\ mop \notin mlist /\ pc[mop] = "idle"
    /\ mpc \in {"poll", "save", "taskDone"} => state[mop] = "WaitingRemote"
    /\ mpc = "save" => mobs # "none"
    /\ mpc \in {"verify", "passed"} => state[mop] = "Verifying"
    /\ mpc \in {"failed", "unknown"} => state[mop] \in {"WaitingRemote", "Verifying"}
    /\ mpc = "auditSuccess" => state[mop] = "Succeeded"
    /\ mpc = "auditFailure" => state[mop] \in {"Failed", "Unknown"}
    /\ mloaded # "none" => mpc \in MonitorSteps /\ mloaded = state[mop]

\* A drive that works holds its endpoint's gate.
GateOK(o) == pc[o] \in WorkPcs => gate[EndpointOf[o]] = o

\* The audit trail: the start fact precedes the write, terminal facts follow
\* the terminal state.
AuditOK(o) ==
    /\ pc[o] \in {"preflight", "kind", "vstart", "vpass", "dispatch"}
          => "started" \in audit[o]
    /\ sent[o] > 0 => "started" \in audit[o]
    /\ "succeeded" \in audit[o] => state[o] = "Succeeded"
    /\ "failed" \in audit[o] => state[o] \in {"Failed", "Unknown"}

\* What the BMC has done with a write the product holds an answer about.
BmcOK(o) ==
    /\ sent[o] = 0 => remote[o] = "unsent" /\ task[o] = "none"
    /\ task[o] # "none" => remote[o] \in TaskPhases
    /\ pc[o] = "await" => task[o] = "none"
    /\ pc[o] = "accept" => remote[o] = "done"
    /\ pc[o] = "saveTask" => remote[o] \in TaskPhases
    /\ state[o] = "Verifying" => o \in Provable \/ remote[o] \in AcceptedWrites
    /\ state[o] = "Verifying" /\ task[o] # "none" => remote[o] \in {"completed", "gone"}
    /\ remote[o] \in {"unsent", "inflight", "refused", "running", "aborted"}
          => effect[o] # "written"

\* A positive verdict rests on the BMC's state.
SuccessOK(o) ==
    /\ pc[o] = "backfill" => o \in Provable
    /\ pc[o] \in {"passed", "backfill"} /\ o \in Provable => effect[o] # "absent"
    /\ state[o] = "Succeeded" =>
          IF o \in Provable THEN effect[o] # "absent"
                            ELSE remote[o] \in AcceptedWrites

\* A negative verdict on a write with a Task row is final: the Task is over
\* and left no effect.
FailureOK(o) ==
    /\ pc[o] = "startAudit" /\ state[o] = "Running" => task[o] = "none"
    /\ pc[o] \in {"judge", "backfill", "casFailed"} => task[o] = "none"
    /\ pc[o] = "failed" /\ task[o] # "none" =>
          state[o] = "Verifying" /\ (o \in Provable => effect[o] # "written")
    /\ state[o] = "Failed" /\ task[o] # "none" =>
          /\ remote[o] \in {"completed", "aborted", "gone"}
          /\ o \in Provable => effect[o] # "written"

\* What the monitor's observation says about the Task.
ObservationOK ==
    /\ mpc \in {"off", "list", "next", "poll"} => mobs = "none"
    /\ Polling =>
      /\ task[mop] # "none"
      /\ mobs = "aborted" => remote[mop] \in {"aborted", "gone"} /\ effect[mop] # "written"
      /\ mobs = "completed" => remote[mop] \in {"completed", "gone"}
      /\ mpc = "taskDone" => mobs = "completed"
      /\ mpc = "passed" /\ mop \in Provable => effect[mop] # "absent"
      /\ mpc = "failed" =>
            \/ state[mop] = "WaitingRemote" /\ mobs = "aborted"
            \/ state[mop] = "Verifying" /\ (mop \in Provable => effect[mop] # "written")

\* Where each row is at each step of its drive or poll.
ControlInv == Types /\ MonitorOK /\ \A o \in Ops : DriveOK(o) /\ WriteOK(o)
SlotInv == IsFiniteSet(Driving) /\ Cardinality(Driving) <= MaxConcurrentDrives
GateInv == \A o \in Ops : GateOK(o)
AuditInv == \A o \in Ops : AuditOK(o)
VerdictInv == ObservationOK /\ \A o \in Ops : BmcOK(o) /\ SuccessOK(o) /\ FailureOK(o)

\* The inductive invariant: the row OperationEngine::apply writes is the row
\* it read, a working drive holds a slot and its endpoint's gate, and the audit trail and
\* the verdicts stay true whatever the BMC, a crash or a failed call does.
IInv == ControlInv /\ SlotInv /\ GateInv /\ AuditInv /\ VerdictInv
==============================================================================
