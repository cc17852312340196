-------------------------------- MODULE Host ---------------------------------
(***************************************************************************)
(* The operating-system processes that run the service (main.go, init.go). *)
(* A process is started, serves in the role its MODE selects, is asked to  *)
(* stop by a signal that cancels its one context, and ends; or it is       *)
(* killed at any moment.  A supervisor starts it again.                    *)
(***************************************************************************)
EXTENDS Integers

CONSTANTS Processes,    \* processes, whatever their role
          MaxFaults     \* bound on the faults of a behaviour

ASSUME MaxFaultsAssumption == MaxFaults \in Nat

VARIABLES proc,         \* [Processes -> "up", "stopping" or "down"]
          faults        \* faults so far

HostTypeOK ==
  /\ proc   \in [Processes -> {"up", "stopping", "down"}]
  /\ faults \in 0..MaxFaults

HostInit ==
  /\ proc   = [p \in Processes |-> "up"]
  /\ faults = 0

\* A fault is a kill, a stop signal, or a database call whose outcome is lost.
Fault ==
  /\ faults < MaxFaults
  /\ faults' = faults + 1

\* SIGINT or SIGTERM: signal.NotifyContext cancels the context of the process.
Signalled(p) ==
  /\ proc[p] = "up"
  /\ proc' = [proc EXCEPT ![p] = "stopping"]
  /\ Fault

\* The process is killed.
Killed(p) ==
  /\ proc[p] # "down"
  /\ proc' = [proc EXCEPT ![p] = "down"]
  /\ Fault

\* App.Run has returned after a stop signal, and main returns.
Exited(p) ==
  /\ proc[p] = "stopping"
  /\ proc' = [proc EXCEPT ![p] = "down"]
  /\ UNCHANGED faults

\* The supervisor starts the process again.
Started(p) ==
  /\ proc[p] = "down"
  /\ proc' = [proc EXCEPT ![p] = "up"]
  /\ UNCHANGED faults
=============================================================================
