------------------------------ MODULE Operation ------------------------------
(***************************************************************************)
(* The vocabulary of rutilus-domain's operation aggregate: the lifecycle   *)
(* states of design section 13.2, the events that drive them, and the      *)
(* fully enumerated transition matrix.  Everything that moves an operation *)
(* (executor, Task monitor, recovery, the center's reply tracking) goes    *)
(* through `transition'.                                                   *)
(***************************************************************************)
EXTENDS Naturals

CONSTANT Ops            \* the operation ids that occur in a behaviour

\* The four lifecycle outcomes that absorb every event (is_terminal).
TerminalStates == {"Succeeded", "Failed", "Unknown", "Cancelled"}

\* Every phase an existing operation can be in.
OperationStates ==
    {"Queued", "Validating", "Running", "WaitingRemote", "Verifying"}
        \cup TerminalStates

\* The states a restart has to pick up again (RECOVERABLE_STATES).
RecoverableStates == {"Validating", "Running", "WaitingRemote", "Verifying"}

OperationEvents ==
    {"ValidationStarted", "ValidationPassed", "ExecutionAccepted",
     "RemoteTaskStarted", "RemoteTaskCompleted", "VerificationPassed",
     "Failed", "CancellationRequested", "OutcomeUnknown"}

\* The answer of `transition' for a pair the matrix refuses
\* (InvalidTransition).
Invalid == "invalid"

\* The transition matrix.  Failed is legal in every non-terminal state, a
\* cancellation only until the write has completed, OutcomeUnknown only once
\* a write may have been issued.
transition(current, event) ==
    CASE current = "Queued" /\ event = "ValidationStarted" -> "Validating"
      [] current = "Validating" /\ event = "ValidationPassed" -> "Running"
      [] current = "Running" /\ event = "ExecutionAccepted" -> "Verifying"
      [] current = "Running" /\ event = "RemoteTaskStarted" -> "WaitingRemote"
      [] current = "WaitingRemote" /\ event = "RemoteTaskCompleted" -> "Verifying"
      [] current = "Verifying" /\ event = "VerificationPassed" -> "Succeeded"
      [] /\ current \in {"Queued", "Validating", "Running", "WaitingRemote", "Verifying"}
         /\ event = "Failed" -> "Failed"
      [] /\ current \in {"Queued", "Validating", "Running", "WaitingRemote"}
         /\ event = "CancellationRequested" -> "Cancelled"
      [] /\ current \in {"Running", "WaitingRemote", "Verifying"}
         /\ event = "OutcomeUnknown" -> "Unknown"
      [] OTHER -> Invalid

\* The pairs of states one legal event leads between.
LegalStep(from, to) ==
    \E event \in OperationEvents : transition(from, event) = to

\* The states a legal run of the operation engine leads to from each state.
Later(s) ==
    CASE s = "Queued" -> OperationStates \ {"Queued"}
      [] s = "Validating" -> OperationStates \ {"Queued", "Validating"}
      [] s = "Running" -> TerminalStates \cup {"WaitingRemote", "Verifying"}
      [] s = "WaitingRemote" -> TerminalStates \cup {"Verifying"}
      [] s = "Verifying" -> TerminalStates \ {"Cancelled"}
      [] OTHER -> {}
==============================================================================
