--------------------------- MODULE OperationStore ----------------------------
(***************************************************************************)
(* The durable side of the operation engine: the SQLite rows the executor, *)
(* the Task monitor and the submission paths share.  Every repository call *)
(* runs in one transaction under the store's single write permit, so each  *)
(* operator below is one atomic step; a sequence of calls is not.          *)
(***************************************************************************)
EXTENDS Operation

VARIABLES
    state,              \* the persisted state of each row, "Absent" before create
    task,               \* the remote-task row: its last observed state
    failureKind,        \* the section 13.7 classification column
    audit               \* the audit facts appended about each operation

storeVars == <<state, task, failureKind, audit>>

\* The thirteen Redfish task states, told apart as the monitor tells them
\* apart: still going, Completed, or ended any other way.
TaskRows == {"none", "active", "completed", "aborted"}
AuditFacts == {"started", "succeeded", "failed"}

StoreTypeOK ==
    /\ state \in [Ops -> OperationStates \cup {"Absent"}]
    /\ task \in [Ops -> TaskRows]
    /\ failureKind \in [Ops -> {"none", "CapabilityUnsupported"}]
    /\ audit \in [Ops -> SUBSET AuditFacts]

StoreInit ==
    /\ state = [o \in Ops |-> "Absent"]
    /\ task = [o \in Ops |-> "none"]
    /\ failureKind = [o \in Ops |-> "none"]
    /\ audit = [o \in Ops |-> {}]

\* create_operation: the row appears Queued.  A second create of the same id
\* is absorbed by the store, so an existing row is left alone.
CreateOperation(o) ==
    /\ state[o] = "Absent"
    /\ state' = [state EXCEPT ![o] = "Queued"]
    /\ UNCHANGED <<task, failureKind, audit>>

\* apply_transition: a terminal row refuses the write; any other row is
\* overwritten with the state the caller computed from its own earlier read.
ApplyTransition(o, new) ==
    state' = IF state[o] \in TerminalStates
             THEN state
             ELSE [state EXCEPT ![o] = new]

\* apply_transition_if_current: the compare-and-set form.
ApplyTransitionIfCurrent(o, expected, new) ==
    state' = IF state[o] # expected
             THEN state
             ELSE [state EXCEPT ![o] = new]

\* save_remote_task: the upsert of the observation row.
SaveRemoteTask(o, observed) == task' = [task EXCEPT ![o] = observed]

\* record_failure_kind: a single-column update, whatever the row's state.
RecordFailureKind(o) ==
    failureKind' = [failureKind EXCEPT ![o] = "CapabilityUnsupported"]

\* append_audit_event.
AppendAudit(o, fact) == audit' = [audit EXCEPT ![o] = @ \cup {fact}]
==============================================================================
