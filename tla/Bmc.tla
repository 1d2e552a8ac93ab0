--------------------------------- MODULE Bmc ---------------------------------
(***************************************************************************)
(* The management controller behind the Redfish gateway, as the product    *)
(* can observe it (external: the BMC is not part of the repository).  A    *)
(* write request that left the process is handled by the BMC on its own    *)
(* time, also after the process that sent it has died.                     *)
(***************************************************************************)
EXTENDS Operation

VARIABLES
    sent,      \* how many times the write of an operation left the process
    remote,    \* what the BMC did with the write
    effect     \* the result the command asks for: not there, there before
               \* the write, or produced by this operation's write

bmcVars == <<sent, remote, effect>>

\* "done": accepted synchronously; "running" .. "gone": accepted as a Task.
TaskPhases == {"running", "completed", "aborted", "gone"}
AcceptedWrites == {"done"} \cup TaskPhases
RemotePhases == {"unsent", "inflight", "refused"} \cup AcceptedWrites
Effects == {"absent", "preexisting", "written"}

BmcTypeOK ==
    /\ sent \in [Ops -> Nat]
    /\ remote \in [Ops -> RemotePhases]
    /\ effect \in [Ops -> Effects]

BmcInit ==
    /\ sent = [o \in Ops |-> 0]
    /\ remote = [o \in Ops |-> "unsent"]
    /\ effect \in [Ops -> {"absent", "preexisting"}]

\* The request leaves the process.
SendWrite(o) ==
    /\ sent' = [sent EXCEPT ![o] = @ + 1]
    /\ remote' = [remote EXCEPT ![o] = "inflight"]
    /\ UNCHANGED effect

\* The write takes effect, or the BMC accepted it without the expected result.
MayTakeEffect(o) ==
    \E e \in {effect[o], "written"} : effect' = [effect EXCEPT ![o] = e]

\* The BMC refuses the request, performs it, or turns it into a Task.
BmcHandle(o) ==
    /\ remote[o] = "inflight"
    /\ \/ remote' = [remote EXCEPT ![o] = "refused"] /\ UNCHANGED effect
       \/ remote' = [remote EXCEPT ![o] = "done"] /\ MayTakeEffect(o)
       \/ remote' = [remote EXCEPT ![o] = "running"] /\ UNCHANGED effect
    /\ UNCHANGED sent

\* A Task ends, with its effect or without it.
BmcFinishTask(o) ==
    /\ remote[o] = "running"
    /\ \/ remote' = [remote EXCEPT ![o] = "completed"] /\ MayTakeEffect(o)
       \/ remote' = [remote EXCEPT ![o] = "aborted"] /\ UNCHANGED effect
    /\ UNCHANGED sent

\* The BMC forgets a Task (retention, reboot): the monitor reads a 404.
BmcDropTask(o) ==
    /\ remote[o] \in {"running", "completed", "aborted"}
    /\ remote' = [remote EXCEPT ![o] = "gone"]
    /\ UNCHANGED <<sent, effect>>
==============================================================================
