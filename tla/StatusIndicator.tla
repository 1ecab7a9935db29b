-------------------------- MODULE StatusIndicator --------------------------
(***************************************************************************)
(* The RGB light and the buzzer as one non-blocking state machine: flags   *)
(* that other components set, two patterns that end by themselves, and the *)
(* mode that update writes to the hardware.  Colours are abstracted to the *)
(* mode, the tone to whether the buzzer sounds.                            *)
(***************************************************************************)
EXTENDS Integers

CONSTANTS
    FeedbackDuration,     \* commandFeedbackDurationMs, in ticks
    MaintenanceDuration   \* maintenanceDurationMs, in ticks

ASSUME IndicatorAssumption ==
    FeedbackDuration \in Nat \ {0} /\ MaintenanceDuration \in Nat \ {0}

IndicatorMode ==
    {"Normal", "CommandFeedback", "DegradedBus", "Commissioning",
     "CriticalFault", "Maintenance"}

Indicator ==
    [criticalFault : BOOLEAN, commissioning : BOOLEAN, busDegraded : BOOLEAN,
     feedback : 0 .. FeedbackDuration,          \* ticks left, 0: none pending
     maintenance : 0 .. MaintenanceDuration,    \* ticks left, 0: not active
     shown : IndicatorMode]                     \* appliedOutput_

FreshIndicator ==
    [criticalFault |-> FALSE, commissioning |-> FALSE, busDegraded |-> FALSE,
     feedback |-> 0, maintenance |-> 0, shown |-> "Normal"]

SetCriticalFault(i) == [i EXCEPT !.criticalFault = TRUE]
SetCommissioning(i, active) == [i EXCEPT !.commissioning = active]
SetBusDegraded(i) == [i EXCEPT !.busDegraded = TRUE]
NotifyCommand(i) == [i EXCEPT !.feedback = FeedbackDuration]
SetMaintenance(i) == [i EXCEPT !.maintenance = MaintenanceDuration]
ClearMaintenance(i) == [i EXCEPT !.maintenance = 0]

\* Slip: the end of a pattern is passed without noticing.
RemainingWrapped(ticks, elapsed) == ticks - elapsed

Remaining(ticks, elapsed) == IF ticks > elapsed THEN ticks - elapsed ELSE 0

\* The two timed patterns, elapsed ticks later.
IndicatorAfter(i, elapsed) ==
    [i EXCEPT !.feedback = Remaining(@, elapsed),
              !.maintenance = Remaining(@, elapsed)]

ActiveMode(i) ==
    IF i.criticalFault THEN "CriticalFault"
    ELSE IF i.maintenance > 0 THEN "Maintenance"
    ELSE IF i.commissioning THEN "Commissioning"
    ELSE IF i.busDegraded THEN "DegradedBus"
    ELSE IF i.feedback > 0 THEN "CommandFeedback"
    ELSE "Normal"

\* update; an output that the light or the buzzer refuses is written again next time.
ShowMode(i) == [i EXCEPT !.shown = ActiveMode(i)]
============================================================================
