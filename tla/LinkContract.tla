----------------------------- MODULE LinkContract ----------------------------
(***************************************************************************)
(* What a center and a site promise together for the operations operators  *)
(* dispatch, whatever is lost, repeated, expired or restarted between      *)
(* them: an operation is offered for one target, while no other undecided  *)
(* operation is; the site begins what was offered, once; the center        *)
(* decides it once, and otherwise than as failed only as the site did.     *)
(***************************************************************************)
EXTENDS Operation

CONSTANT Targets

VARIABLES
    verdict,     \* at the center: "none", "open" or the final state
    aim,         \* the target an operation was offered for (at most one)
    row          \* the site's own record

contractVars == <<verdict, aim, row>>

ContractInit ==
    /\ verdict = [o \in Ops |-> "none"]
    /\ aim = [o \in Ops |-> {}]
    /\ row = [o \in Ops |-> "Absent"]

Record(o) ==
    /\ verdict[o] = "none"
    /\ verdict' = [verdict EXCEPT ![o] = "open"]
    /\ UNCHANGED <<aim, row>>

\* The first offer; offering the operation again changes nothing here.
Offer(o, t) ==
    /\ verdict[o] = "open"
    /\ aim[o] = {}
    /\ \A other \in Ops : other # o /\ verdict[other] = "open" => t \notin aim[other]
    /\ aim' = [aim EXCEPT ![o] = {t}]
    /\ UNCHANGED <<verdict, row>>

Begin(o) ==
    /\ aim[o] # {}
    /\ row[o] = "Absent"
    /\ row' = [row EXCEPT ![o] = "Queued"]
    /\ UNCHANGED <<verdict, aim>>

Advance(o) ==
    /\ \E to \in Later(row[o]) : row' = [row EXCEPT ![o] = to]
    /\ UNCHANGED <<verdict, aim>>

\* Failed is also what the center makes of a rejection, which binds the site
\* to nothing: an offer it rejected before a crash it may accept after.
Decide(o) ==
    /\ verdict[o] = "open"
    /\ aim[o] # {}
    /\ \E v \in TerminalStates : /\ v # "Failed" => row[o] = v
                                 /\ verdict' = [verdict EXCEPT ![o] = v]
    /\ UNCHANGED <<aim, row>>

ContractNext ==
    \E o \in Ops : \/ Record(o) \/ Begin(o) \/ Advance(o) \/ Decide(o)
                   \/ \E t \in Targets : Offer(o, t)

ContractSpec == ContractInit /\ [][ContractNext]_contractVars
==============================================================================
