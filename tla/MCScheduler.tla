----------------------------- MODULE MCScheduler -----------------------------
(***************************************************************************)
(* Small instances of Scheduler.  o1 asserts a durable result (an account, *)
(* event or telemetry write), o2 does not (a reset, an update); the two    *)
(* share one endpoint.                                                     *)
(***************************************************************************)
EXTENDS SchedulerInvariant

CONSTANTS o1, o2, bmc1

MCEndpointOf == [o \in Ops |-> bmc1]
==============================================================================
