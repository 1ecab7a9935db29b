--------------------------- MODULE ButtonAdapter ---------------------------
(***************************************************************************)
(* The BOOT button.  update samples the level, ignores what it sees until  *)
(* the boot qualification is over, debounces, and reports a short press, a *)
(* commissioning hold or an armed and released factory reset hold.  All    *)
(* durations are ticks; every age is held at the largest one it is         *)
(* compared with.                                                          *)
(***************************************************************************)
EXTENDS Naturals

CONSTANTS
    Qualification,      \* bootQualificationDurationMs
    Debounce,           \* debounceDurationMs
    CommissioningHold,  \* commissioningHoldDurationMs
    FactoryResetHold    \* factoryResetHoldDurationMs

ASSUME ButtonAssumption ==
    /\ Qualification \in Nat
    /\ Debounce \in Nat
    /\ CommissioningHold \in Nat
    /\ FactoryResetHold \in Nat
    /\ CommissioningHold <= FactoryResetHold

ButtonEventType ==
    {"IdentifyRequested", "CommissioningRequested", "FactoryResetArmed",
     "FactoryResetRequested"}

Button ==
    [raw : BOOLEAN, stable : BOOLEAN, qualified : BOOLEAN, suppress : BOOLEAN,
     armed : BOOLEAN,
     sinceInit : 0 .. Qualification,       \* now - initializedAtMs_
     sinceChange : 0 .. Debounce,          \* now - rawStateChangedAtMs_
     sincePress : 0 .. FactoryResetHold]   \* now - pressedAtMs_

ButtonInitialized(pressed) ==
    [raw |-> pressed, stable |-> pressed, qualified |-> FALSE, suppress |-> pressed,
     armed |-> FALSE, sinceInit |-> 0, sinceChange |-> 0, sincePress |-> 0]

Aged(age, elapsed, limit) == IF age + elapsed < limit THEN age + elapsed ELSE limit

ButtonAfter(b, elapsed) ==
    [b EXCEPT !.sinceInit = Aged(@, elapsed, Qualification),
              !.sinceChange = Aged(@, elapsed, Debounce),
              !.sincePress = Aged(@, elapsed, FactoryResetHold)]

Polled(b, event) == [button |-> b, event |-> event]

\* Slip: a button that is down when the qualification ends counts as pressed from there.
QualifyUnsuppressed(b, pressed) ==
    [b EXCEPT !.raw = pressed, !.stable = pressed, !.sinceChange = 0, !.suppress = FALSE,
              !.qualified = b.sinceInit = Qualification,
              !.sincePress = IF b.sinceInit = Qualification THEN 0 ELSE @]

\* Before the qualification is over, each poll starts again from what it reads.
Qualify(b, pressed) ==
    [b EXCEPT !.raw = pressed, !.stable = pressed, !.sinceChange = 0, !.suppress = pressed,
              !.qualified = b.sinceInit = Qualification,
              !.sincePress = IF b.sinceInit = Qualification THEN 0 ELSE @]

Sampled(b, pressed) ==
    IF pressed = b.raw THEN b ELSE [b EXCEPT !.raw = pressed, !.sinceChange = 0]

\* Slip: the time of the last press is kept when the button goes down again.
PressUntimed(b) == [b EXCEPT !.stable = TRUE, !.armed = FALSE]

Press(b) == [b EXCEPT !.stable = TRUE, !.sincePress = 0, !.armed = FALSE]

HandleRelease(b) ==
    LET released == [b EXCEPT !.stable = FALSE, !.suppress = FALSE, !.armed = FALSE]
        unsuppressed == [b EXCEPT !.stable = FALSE, !.armed = FALSE]
    IN  IF b.suppress THEN Polled(released, "None")
        ELSE IF b.armed THEN Polled(unsuppressed, "FactoryResetRequested")
        ELSE IF b.sincePress >= CommissioningHold
             THEN Polled([b EXCEPT !.stable = FALSE], "CommissioningRequested")
             ELSE Polled([b EXCEPT !.stable = FALSE], "IdentifyRequested")

\* update: the button afterwards, and the event it reports (handled, so armed, at once).
Poll(b, pressed) ==
    LET s == Sampled(b, pressed)
    IN  IF ~b.qualified THEN Polled(Qualify(b, pressed), "None")
        ELSE IF s.raw # s.stable /\ s.sinceChange >= Debounce
             THEN IF s.raw THEN Polled(Press(s), "None") ELSE HandleRelease(s)
        ELSE IF s.stable /\ ~s.suppress /\ ~s.armed /\ s.sincePress >= FactoryResetHold
             THEN Polled([s EXCEPT !.armed = TRUE], "FactoryResetArmed")
             ELSE Polled(s, "None")
============================================================================
