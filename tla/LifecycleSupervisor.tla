------------------------ MODULE LifecycleSupervisor ------------------------
(***************************************************************************)
(* The lifecycle of the device (LifecycleSupervisor) and the service mode  *)
(* that physical presence opens (ServiceModeService), as operators on a    *)
(* lifecycle state and on the ticks of service mode that are left.         *)
(***************************************************************************)
EXTENDS Naturals

CONSTANT SessionDuration   \* ServiceModeService::sessionDurationMs, in ticks

ASSUME SessionAssumption == SessionDuration \in Nat \ {0}

LifecycleState ==
    {"Booting", "Configuring", "Operational", "Degraded", "Fault", "Restarting"}

CanTransition(from, to) ==
    CASE from = "Booting" -> to \in {"Configuring", "Fault", "Restarting"}
      [] from = "Configuring" -> to \in {"Operational", "Degraded", "Fault", "Restarting"}
      [] from = "Operational" -> to \in {"Degraded", "Fault", "Restarting"}
      [] from = "Degraded" -> to \in {"Operational", "Fault", "Restarting"}
      [] from = "Fault" -> to = "Restarting"
      [] from = "Restarting" -> FALSE

\* The state after transitionTo(target), and what the call answers.
TransitionTo(from, target) == IF CanTransition(from, target) THEN target ELSE from

TransitionResult(from, target) ==
    IF target = from THEN "NoChange"
    ELSE IF CanTransition(from, target) THEN "Applied" ELSE "InvalidTransition"

AcceptsOrdinaryCommands(state) == state \in {"Operational", "Degraded"}

----------------------------------------------------------------------------
(* Service mode: 0 is user mode, else the ticks left before it expires. *)

EnterFromPhysicalPresence == SessionDuration

ServiceExpires(left, elapsed) == left > 0 /\ left <= elapsed

\* Slip: the time of service mode does not run.
ServiceAfterForever(left, elapsed) == left

ServiceAfter(left, elapsed) == IF left > elapsed THEN left - elapsed ELSE 0

ServiceOperation ==
    {"ReadIdentity", "ReadDiagnostics", "SetManufacturingData",
     "ProvisionIdentity", "EraseUserConfiguration", "FirmwareRecovery"}

\* authorize; locked: a production device whose security or identity is provisioned.
Authorize(left, operation, locked) ==
    IF left = 0 THEN "NotAuthorized"
    ELSE IF operation = "FirmwareRecovery" THEN "Unsupported"
    ELSE IF locked /\ operation \in {"ProvisionIdentity", "SetManufacturingData"}
         THEN "FactoryConfigurationLocked"
         ELSE "Applied"
============================================================================
