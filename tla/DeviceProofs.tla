---------------------------- MODULE DeviceProofs ----------------------------
(***************************************************************************)
(* Proofs about Device for every choice of its durations: the lifecycle    *)
(* tells whether the loop runs, a restart drains exactly as long as it     *)
(* should, the button does nothing that it was not held for, and service   *)
(* mode is shown, is opened at the device only, and ends.                  *)
(***************************************************************************)
EXTENDS Device, TLAPS

----------------------------------------------------------------------------
(* The button. *)

\* A press that counts: its time is covered by history.down, and a release that is
\* not yet debounced has not lasted long enough to end it.
Held(b, g, down, up) ==
    b.qualified /\ b.stable /\ ~b.suppress =>
        /\ Aged(b.sincePress, g, FactoryResetHold) <= down
        /\ b.raw => up <= g
        /\ ~b.raw => b.sinceChange < Debounce /\ up <= b.sinceChange + g + MaxGap

\* Only a press that counts, and only for the whole hold, arms the factory reset.
ArmedInv(b) ==
    b.armed => b.qualified /\ b.stable /\ ~b.suppress /\ b.sincePress = FactoryResetHold

\* A button that has been down since the boot.
DownSinceBoot(b) == b.raw /\ b.stable /\ b.suppress /\ ~b.armed

LEMMA AgedType ==
    ASSUME NEW limit \in Nat, NEW age \in 0 .. limit, NEW g \in Nat
    PROVE  /\ Aged(age, g, limit) \in 0 .. limit
           /\ Aged(age, g, limit) <= age + g
           /\ Aged(age, g, limit) < limit => Aged(age, g, limit) = age + g
           /\ Aged(limit, g, limit) = limit
           /\ Aged(Aged(age, g, limit), 0, limit) = Aged(age, g, limit)
BY DEF Aged

LEMMA ButtonAfterEffect ==
    ASSUME NEW b \in Button, NEW g \in Nat
    PROVE  LET c == ButtonAfter(b, g)
           IN  /\ c \in Button
               /\ c.sinceChange = Aged(b.sinceChange, g, Debounce)
               /\ c.sincePress = Aged(b.sincePress, g, FactoryResetHold)
               /\ c.raw = b.raw /\ c.stable = b.stable /\ c.qualified = b.qualified
               /\ c.suppress = b.suppress /\ c.armed = b.armed
<1>1. /\ b.sinceInit \in 0 .. Qualification /\ b.sinceChange \in 0 .. Debounce
      /\ b.sincePress \in 0 .. FactoryResetHold
  BY DEF Button
<1>2. /\ Aged(b.sinceInit, g, Qualification) \in 0 .. Qualification
      /\ Aged(b.sinceChange, g, Debounce) \in 0 .. Debounce
      /\ Aged(b.sincePress, g, FactoryResetHold) \in 0 .. FactoryResetHold
  BY <1>1, AgedType, ButtonAssumption
<1> QED BY <1>2 DEF ButtonAfter, Button

\* What a poll may make of the button c, and what it then reports.
Ignored(c, p, pressed) ==
    /\ ~c.qualified /\ p.event = "None"
    /\ p.button.raw = pressed /\ p.button.stable = pressed /\ p.button.suppress = pressed
    /\ p.button.armed = c.armed

Released(c, p, pressed) ==
    /\ ~pressed /\ c.qualified /\ c.stable
    /\ ~p.button.stable /\ ~p.button.armed
    /\ p.event # "None" => ~c.suppress
    /\ p.event = "FactoryResetRequested" => c.armed
    /\ p.event = "CommissioningRequested" => c.sincePress >= CommissioningHold

PressBegins(c, p, pressed) ==
    /\ pressed /\ c.qualified /\ ~c.stable /\ p.event = "None"
    /\ p.button.raw /\ ~p.button.armed /\ p.button.sincePress = 0

Steady(c, p, pressed) ==
    /\ c.qualified /\ p.event \in {"None", "FactoryResetArmed"}
    /\ p.button.qualified /\ p.button.raw = pressed
    /\ p.button.stable = c.stable /\ p.button.suppress = c.suppress
    /\ p.button.sincePress = c.sincePress
    /\ p.button.sinceChange = IF pressed = c.raw THEN c.sinceChange ELSE 0
    /\ p.button.raw # p.button.stable => p.button.sinceChange < Debounce
    /\ p.event = "FactoryResetArmed" \/ (p.button.armed = c.armed)
    /\ p.event = "FactoryResetArmed" =>
         c.stable /\ ~c.suppress /\ c.sincePress = FactoryResetHold

LEMMA SampledEffect ==
    ASSUME NEW c \in Button, NEW pressed \in BOOLEAN
    PROVE  LET s == Sampled(c, pressed)
           IN  /\ s \in Button /\ s.raw = pressed
               /\ s.stable = c.stable /\ s.qualified = c.qualified /\ s.suppress = c.suppress
               /\ s.armed = c.armed /\ s.sincePress = c.sincePress
               /\ s.sinceChange = IF pressed = c.raw THEN c.sinceChange ELSE 0
<1>1. 0 \in 0 .. Debounce
  BY ButtonAssumption
<1>2. CASE pressed = c.raw
  BY <1>2 DEF Sampled
<1>3. CASE pressed # c.raw
  BY <1>1, <1>3 DEF Sampled, Button
<1> QED BY <1>2, <1>3

LEMMA PollCases ==
    ASSUME NEW c \in Button, NEW pressed \in BOOLEAN
    PROVE  LET p == Poll(c, pressed)
           IN  /\ p.button \in Button
               /\ \/ Ignored(c, p, pressed) \/ Released(c, p, pressed)
                  \/ PressBegins(c, p, pressed) \/ Steady(c, p, pressed)
<1> DEFINE p == Poll(c, pressed)
           s == Sampled(c, pressed)
<1>0. /\ s \in Button /\ s.raw = pressed
      /\ s.stable = c.stable /\ s.qualified = c.qualified /\ s.suppress = c.suppress
      /\ s.armed = c.armed /\ s.sincePress = c.sincePress
      /\ s.sinceChange = IF pressed = c.raw THEN c.sinceChange ELSE 0
  BY SampledEffect
<1>b. c.raw \in BOOLEAN /\ c.stable \in BOOLEAN
  BY DEF Button
<1>n. 0 \in 0 .. Debounce /\ 0 \in 0 .. FactoryResetHold
  BY ButtonAssumption
<1>1. CASE ~c.qualified
  <2>1. p.button = Qualify(c, pressed) /\ p.event = "None"
    BY <1>1 DEF Poll, Polled
  <2>2. /\ Qualify(c, pressed) \in Button
        /\ Qualify(c, pressed).raw = pressed /\ Qualify(c, pressed).stable = pressed
        /\ Qualify(c, pressed).suppress = pressed /\ Qualify(c, pressed).armed = c.armed
    BY <1>n DEF Qualify, Button
  <2> QED BY <1>1, <2>1, <2>2 DEF Ignored
<1>2. CASE c.qualified /\ s.raw # s.stable /\ s.sinceChange >= Debounce
  <2>1. CASE pressed
    <3>1. p.button = Press(s) /\ p.event = "None"
      BY <1>0, <1>2, <2>1 DEF Poll, Polled
    <3>2. /\ Press(s) \in Button /\ Press(s).raw = s.raw
          /\ Press(s).armed = FALSE /\ Press(s).sincePress = 0
      BY <1>0, <1>n DEF Press, Button
    <3> QED BY <1>0, <1>2, <2>1, <3>1, <3>2 DEF PressBegins
  <2>2. CASE ~pressed
    <3>1. p = HandleRelease(s)
      BY <1>0, <1>2, <2>2 DEF Poll
    <3>2. c.stable
      BY <1>0, <1>b, <1>2, <2>2
    <3>3. CASE s.suppress
      <4> DEFINE b == [s EXCEPT !.stable = FALSE, !.suppress = FALSE, !.armed = FALSE]
      <4>1. p.button = b /\ p.event = "None"
        BY <3>1, <3>3 DEF HandleRelease, Polled
      <4>2. b \in Button /\ b.stable = FALSE /\ b.armed = FALSE
        BY <1>0 DEF Button
      <4> QED BY <1>2, <2>2, <3>2, <4>1, <4>2 DEF Released
    <3>4. CASE ~s.suppress /\ s.armed
      <4> DEFINE b == [s EXCEPT !.stable = FALSE, !.armed = FALSE]
      <4>1. p.button = b /\ p.event = "FactoryResetRequested"
        BY <3>1, <3>4 DEF HandleRelease, Polled
      <4>2. b \in Button /\ b.stable = FALSE /\ b.armed = FALSE
        BY <1>0 DEF Button
      <4> QED BY <1>0, <1>2, <2>2, <3>2, <3>4, <4>1, <4>2 DEF Released
    <3>5. CASE ~s.suppress /\ ~s.armed
      <4> DEFINE b == [s EXCEPT !.stable = FALSE]
      <4>1. /\ p.button = b
            /\ p.event = IF s.sincePress >= CommissioningHold
                         THEN "CommissioningRequested" ELSE "IdentifyRequested"
        BY <3>1, <3>5 DEF HandleRelease, Polled
      <4>2. b \in Button /\ b.stable = FALSE /\ b.armed = s.armed
        BY <1>0 DEF Button
      <4> QED BY <1>0, <1>2, <2>2, <3>2, <3>5, <4>1, <4>2 DEF Released
    <3> QED BY <3>3, <3>4, <3>5
  <2> QED BY <2>1, <2>2
<1>3. CASE c.qualified /\ ~(s.raw # s.stable /\ s.sinceChange >= Debounce)
  <2>0. s.raw # s.stable => s.sinceChange < Debounce
    BY <1>0, <1>3, ButtonAssumption DEF Button
  <2>1. CASE s.stable /\ ~s.suppress /\ ~s.armed /\ s.sincePress >= FactoryResetHold
    <3> DEFINE b == [s EXCEPT !.armed = TRUE]
    <3>1. p.button = b /\ p.event = "FactoryResetArmed"
      BY <1>3, <2>1 DEF Poll, Polled
    <3>2. /\ b \in Button /\ b.raw = s.raw /\ b.stable = s.stable /\ b.suppress = s.suppress
          /\ b.qualified = s.qualified /\ b.sincePress = s.sincePress
          /\ b.sinceChange = s.sinceChange
      BY <1>0 DEF Button
    <3>3. s.sincePress = FactoryResetHold
      BY <1>0, <2>1, ButtonAssumption DEF Button
    <3> HIDE DEF b
    <3> QED BY <1>0, <1>3, <2>0, <2>1, <3>1, <3>2, <3>3 DEF Steady
  <2>2. CASE ~(s.stable /\ ~s.suppress /\ ~s.armed /\ s.sincePress >= FactoryResetHold)
    <3>1. p.button = s /\ p.event = "None"
      BY <1>3, <2>2 DEF Poll, Polled
    <3> HIDE DEF s, p
    <3>2. /\ p.button.qualified /\ p.button.raw = pressed
          /\ p.button.stable = c.stable /\ p.button.suppress = c.suppress
          /\ p.button.sincePress = c.sincePress /\ p.button.armed = c.armed
          /\ p.button.sinceChange = s.sinceChange
      BY <1>0, <1>3, <3>1
    <3>3. p.button.raw # p.button.stable => p.button.sinceChange < Debounce
      BY <2>0, <3>1
    <3>4. p.button \in Button /\ p.event = "None"
      BY <1>0, <3>1
    <3> QED BY <1>0, <1>3, <3>2, <3>3, <3>4 DEF Steady, p
  <2> QED BY <2>1, <2>2
<1> QED BY <1>1, <1>2, <1>3

\* A poll keeps what is known of the press, and reports a hold only when it was one.
LEMMA PollKeeps ==
    ASSUME NEW b \in Button, NEW g \in Nat, NEW down \in Nat, NEW up \in Nat,
           NEW pressed \in BOOLEAN,
           Held(b, g, down, up), ArmedInv(b), pressed => up = 0, g <= MaxGap
    PROVE  LET p == Poll(ButtonAfter(b, g), pressed)
           IN  /\ p.button \in Button
               /\ Held(p.button, 0, down, up) /\ ArmedInv(p.button)
               /\ p.event = "FactoryResetRequested" => down >= FactoryResetHold
               /\ p.event = "CommissioningRequested" => down >= CommissioningHold
<1> DEFINE c == ButtonAfter(b, g)
           p == Poll(c, pressed)
           press == Aged(b.sincePress, g, FactoryResetHold)
           change == Aged(b.sinceChange, g, Debounce)
<1> SUFFICES /\ p.button \in Button
             /\ Held(p.button, 0, down, up) /\ ArmedInv(p.button)
             /\ p.event = "FactoryResetRequested" => down >= FactoryResetHold
             /\ p.event = "CommissioningRequested" => down >= CommissioningHold
  OBVIOUS
<1>0. /\ c \in Button /\ c.sinceChange = change /\ c.sincePress = press
      /\ c.raw = b.raw /\ c.stable = b.stable /\ c.qualified = b.qualified
      /\ c.suppress = b.suppress /\ c.armed = b.armed
  BY ButtonAfterEffect
<1>1. /\ p.button \in Button
      /\ \/ Ignored(c, p, pressed) \/ Released(c, p, pressed)
         \/ PressBegins(c, p, pressed) \/ Steady(c, p, pressed)
  BY <1>0, PollCases
<1>2. /\ press \in 0 .. FactoryResetHold /\ Aged(press, 0, FactoryResetHold) = press
      /\ b.sincePress = FactoryResetHold => press = FactoryResetHold
      /\ change \in 0 .. Debounce
      /\ change < Debounce => change = b.sinceChange + g
  <2>1. b.sincePress \in 0 .. FactoryResetHold /\ b.sinceChange \in 0 .. Debounce
    BY DEF Button
  <2> QED BY <2>1, AgedType, ButtonAssumption
<1> HIDE DEF c, p, press, change
<1>3. CASE Ignored(c, p, pressed)
  BY <1>0, <1>1, <1>3 DEF Ignored, Held, ArmedInv
<1>4. CASE Released(c, p, pressed)
  <2>1. Held(p.button, 0, down, up) /\ ArmedInv(p.button)
    BY <1>4 DEF Released, Held, ArmedInv
  <2>2. p.event # "None" => b.qualified /\ b.stable /\ ~b.suppress /\ press <= down
    BY <1>0, <1>4 DEF Released, Held, press
  <2>3. p.event = "FactoryResetRequested" => press = FactoryResetHold
    BY <1>0, <1>2, <1>4 DEF Released, ArmedInv
  <2>4. p.event = "CommissioningRequested" => press >= CommissioningHold
    BY <1>0, <1>4 DEF Released
  <2> QED BY <1>1, <1>2, <2>1, <2>2, <2>3, <2>4, ButtonAssumption
<1>5. CASE PressBegins(c, p, pressed)
  <2>1. Aged(0, 0, FactoryResetHold) = 0
    BY ButtonAssumption DEF Aged
  <2> QED BY <1>0, <1>1, <1>5, <2>1 DEF PressBegins, Held, ArmedInv
<1>6. CASE Steady(c, p, pressed)
  <2>1. ArmedInv(p.button)
    BY <1>0, <1>1, <1>2, <1>6 DEF Steady, ArmedInv
  <2>2. Held(p.button, 0, down, up)
    <3> SUFFICES ASSUME p.button.qualified, p.button.stable, ~p.button.suppress
                 PROVE  /\ Aged(p.button.sincePress, 0, FactoryResetHold) <= down
                        /\ p.button.raw => up <= 0
                        /\ ~p.button.raw => /\ p.button.sinceChange < Debounce
                                            /\ up <= p.button.sinceChange + 0 + MaxGap
      BY DEF Held
    <3>1. /\ press <= down
          /\ b.raw => up <= g
          /\ ~b.raw => up <= b.sinceChange + g + MaxGap
      BY <1>0, <1>6 DEF Steady, Held, press
    <3>2. p.button.raw = pressed /\ p.button.sincePress = press
      BY <1>0, <1>6 DEF Steady
    <3>3. CASE pressed
      BY <1>2, <3>1, <3>2, <3>3
    <3>4. CASE ~pressed /\ b.raw
      <4>1. p.button.sinceChange = 0 /\ p.button.sinceChange < Debounce
        BY <1>0, <1>6, <3>4 DEF Steady
      <4> QED BY <1>2, <3>1, <3>2, <3>4, <4>1, DeviceAssumption
    <3>5. CASE ~pressed /\ ~b.raw
      <4>1. p.button.sinceChange = change /\ p.button.sinceChange < Debounce
        BY <1>0, <1>6, <3>5 DEF Steady, Button
      <4> QED BY <1>2, <3>1, <3>2, <3>5, <4>1, DeviceAssumption
    <3> QED BY <3>3, <3>4, <3>5
  <2> QED BY <1>1, <1>6, <2>1, <2>2 DEF Steady
<1> QED BY <1>1, <1>3, <1>4, <1>5, <1>6

LEMMA PollIgnoresBootHold ==
    ASSUME NEW b \in Button, NEW g \in Nat, DownSinceBoot(b)
    PROVE  LET p == Poll(ButtonAfter(b, g), TRUE)
           IN  DownSinceBoot(p.button) /\ p.event = "None"
<1> DEFINE c == ButtonAfter(b, g)
           p == Poll(c, TRUE)
<1> SUFFICES DownSinceBoot(p.button) /\ p.event = "None"
  OBVIOUS
<1>0. c \in Button /\ c.raw /\ c.stable /\ c.suppress /\ ~c.armed
  BY ButtonAfterEffect DEF DownSinceBoot
<1>1. Ignored(c, p, TRUE) \/ Released(c, p, TRUE) \/ PressBegins(c, p, TRUE) \/ Steady(c, p, TRUE)
  BY <1>0, PollCases
<1> HIDE DEF c, p
<1>2. CASE Ignored(c, p, TRUE)
  BY <1>0, <1>2 DEF Ignored, DownSinceBoot
<1>3. CASE Steady(c, p, TRUE)
  <2>1. p.event = "None"
    BY <1>0, <1>3 DEF Steady
  <2>2. p.button.raw = TRUE /\ p.button.stable = c.stable /\ p.button.suppress = c.suppress
        /\ p.button.armed = c.armed
    BY <1>3, <2>1 DEF Steady
  <2> QED BY <1>0, <2>1, <2>2 DEF DownSinceBoot
<1> QED BY <1>0, <1>1, <1>2, <1>3 DEF Released, PressBegins

----------------------------------------------------------------------------
(* The device while its loop runs. *)

LoopState == {"Operational", "Degraded", "Restarting"}

\* Service mode and its indicator.
Shown(d) ==
    /\ d.service > 0 => d.indicator.commissioning
    /\ d.indicator.commissioning => d.service > 0 \/ d.indicator.criticalFault \/ ~d.web

\* A device whose loop runs, between two parts of the loop.
Sound(d) ==
    /\ d \in DeviceState
    /\ d.lifecycle \in LoopState
    /\ d.pending => d.lifecycle = "Restarting"
    /\ Shown(d)

\* What any part of the loop does to the drain of a restart: it starts one, or leaves it.
DrainKept(d, e) ==
    /\ d.lifecycle = "Restarting" =>
         e.lifecycle = "Restarting" /\ e.pending = d.pending /\ e.drained = d.drained
    /\ d.lifecycle # "Restarting" =>
         (e.pending => e.lifecycle = "Restarting" /\ e.drained = 0)

\* A part of the loop does not open service mode, and a change of the transports
\* restarts the device or was made in service mode.
Serves(d, e) ==
    /\ Sound(e)
    /\ DrainKept(d, e)
    /\ e.button = d.button
    /\ e.service > 0 => e.service = d.service
    /\ e.active.transport # d.active.transport =>
         e.lifecycle = "Restarting" \/ d.service > 0

LEMMA ServesItself == ASSUME NEW d, Sound(d) PROVE Serves(d, d)
BY DEF Serves, DrainKept, Sound

LEMMA ServesRestarted ==
    ASSUME NEW d, Sound(d)
    PROVE  /\ Transition(d, "Restarting") = [d EXCEPT !.lifecycle = "Restarting"]
           /\ Serves(d, Transition(d, "Restarting"))
           /\ Transition(d, "Restarting").lifecycle = "Restarting"
<1> DEFINE e == [d EXCEPT !.lifecycle = "Restarting"]
<1>0. d \in DeviceState /\ d.lifecycle \in LoopState
  BY DEF Sound
<1>1. TransitionTo(d.lifecycle, "Restarting") = "Restarting"
  BY <1>0 DEF TransitionTo, CanTransition, LoopState
<1>2. Transition(d, "Restarting") = e
  BY <1>1 DEF Transition
<1>3. e \in DeviceState /\ e.lifecycle = "Restarting" /\ e.service = d.service
      /\ e.indicator = d.indicator /\ e.button = d.button /\ e.active = d.active
      /\ e.web = d.web /\ e.pending = d.pending /\ e.drained = d.drained
  BY <1>0 DEF DeviceState, LifecycleState
<1> HIDE DEF e
<1>4. Serves(d, e)
  <2>1. ~d.pending \/ d.lifecycle = "Restarting"
    BY DEF Sound
  <2>2. Sound(e)
    BY <1>3 DEF Sound, Shown, LoopState
  <2>3. DrainKept(d, e)
    BY <1>3, <2>1 DEF DrainKept
  <2> QED BY <1>3, <2>2, <2>3 DEF Serves
<1> QED BY <1>2, <1>3, <1>4 DEF e

\* A change of the indicator that leaves service mode shown and faults marked.
LEMMA ServesIndicator ==
    ASSUME NEW d, Sound(d), NEW i \in Indicator,
           i.commissioning = d.indicator.commissioning,
           d.indicator.criticalFault => i.criticalFault
    PROVE  Serves(d, [d EXCEPT !.indicator = i])
<1> DEFINE e == [d EXCEPT !.indicator = i]
<1>0. d \in DeviceState
  BY DEF Sound
<1>3. e \in DeviceState /\ e.lifecycle = d.lifecycle /\ e.service = d.service
      /\ e.indicator = i /\ e.button = d.button /\ e.active = d.active
      /\ e.web = d.web /\ e.pending = d.pending /\ e.drained = d.drained
  BY <1>0 DEF DeviceState
<1> HIDE DEF e
<1>4. Serves(d, e)
  BY <1>3 DEF Serves, Sound, Shown, DrainKept
<1> QED BY <1>4 DEF e

\* A change of the configuration that is followed by a restart, or made in service mode.
LEMMA ServesActive ==
    ASSUME NEW d, Sound(d), NEW c \in Configuration,
           c.transport = d.active.transport \/ d.lifecycle = "Restarting" \/ d.service > 0
    PROVE  Serves(d, [d EXCEPT !.active = c])
<1> DEFINE e == [d EXCEPT !.active = c]
<1>0. d \in DeviceState
  BY DEF Sound
<1>3. e \in DeviceState /\ e.lifecycle = d.lifecycle /\ e.service = d.service
      /\ e.indicator = d.indicator /\ e.button = d.button /\ e.active = c
      /\ e.web = d.web /\ e.pending = d.pending /\ e.drained = d.drained
  BY <1>0 DEF DeviceState
<1> HIDE DEF e
<1>4. Serves(d, e)
  BY <1>3 DEF Serves, Sound, Shown, DrainKept
<1> QED BY <1>4 DEF e

LEMMA DrainTransitive ==
    ASSUME NEW d, NEW e, NEW f, DrainKept(d, e), DrainKept(e, f)
    PROVE  DrainKept(d, f)
<1>1. CASE d.lifecycle = "Restarting"
  BY <1>1 DEF DrainKept
<1>2. CASE d.lifecycle # "Restarting" /\ e.lifecycle = "Restarting"
  <2>1. f.lifecycle = "Restarting" /\ f.pending = e.pending /\ f.drained = e.drained
    BY <1>2 DEF DrainKept
  <2>2. e.pending => e.drained = 0
    BY <1>2 DEF DrainKept
  <2> QED BY <1>2, <2>1, <2>2 DEF DrainKept
<1>3. CASE d.lifecycle # "Restarting" /\ e.lifecycle # "Restarting"
  BY <1>3 DEF DrainKept
<1> QED BY <1>1, <1>2, <1>3

----------------------------------------------------------------------------
(* The indicator. *)

LEMMA IndicatorEffect ==
    ASSUME NEW i \in Indicator
    PROVE  /\ FreshIndicator \in Indicator
           /\ SetCriticalFault(i) \in Indicator
           /\ SetCriticalFault(i).commissioning = i.commissioning
           /\ SetCriticalFault(i).criticalFault
           /\ \A a \in BOOLEAN : /\ SetCommissioning(i, a) \in Indicator
                                 /\ SetCommissioning(i, a).commissioning = a
           /\ \A j \in {SetBusDegraded(i), NotifyCommand(i), SetMaintenance(i),
                        ClearMaintenance(i), ShowMode(i)} :
                /\ j \in Indicator
                /\ j.commissioning = i.commissioning
                /\ j.criticalFault = i.criticalFault
           /\ \A g \in Nat : /\ IndicatorAfter(i, g) \in Indicator
                             /\ IndicatorAfter(i, g).commissioning = i.commissioning
                             /\ IndicatorAfter(i, g).criticalFault = i.criticalFault
<1>0. /\ 0 \in 0 .. FeedbackDuration /\ FeedbackDuration \in 0 .. FeedbackDuration
      /\ 0 \in 0 .. MaintenanceDuration /\ MaintenanceDuration \in 0 .. MaintenanceDuration
  BY IndicatorAssumption
<1>1. FreshIndicator \in Indicator
  BY <1>0 DEF FreshIndicator, Indicator, IndicatorMode
<1>2. /\ SetCriticalFault(i) \in Indicator
      /\ SetCriticalFault(i).commissioning = i.commissioning
      /\ SetCriticalFault(i).criticalFault
  BY DEF SetCriticalFault, Indicator
<1>3. ASSUME NEW a \in BOOLEAN
      PROVE  SetCommissioning(i, a) \in Indicator /\ SetCommissioning(i, a).commissioning = a
  BY DEF SetCommissioning, Indicator
<1>4. ASSUME NEW j, j = SetBusDegraded(i) \/ j = NotifyCommand(i) \/ j = SetMaintenance(i)
                    \/ j = ClearMaintenance(i)
      PROVE  j \in Indicator /\ j.commissioning = i.commissioning
             /\ j.criticalFault = i.criticalFault
  BY <1>0, <1>4 DEF SetBusDegraded, NotifyCommand, SetMaintenance, ClearMaintenance, Indicator
<1>5. /\ ShowMode(i) \in Indicator /\ ShowMode(i).commissioning = i.commissioning
      /\ ShowMode(i).criticalFault = i.criticalFault
  <2>1. ActiveMode(i) \in IndicatorMode
    BY DEF ActiveMode, IndicatorMode
  <2> QED BY <2>1 DEF ShowMode, Indicator
<1>6. ASSUME NEW g \in Nat
      PROVE  /\ IndicatorAfter(i, g) \in Indicator
             /\ IndicatorAfter(i, g).commissioning = i.commissioning
             /\ IndicatorAfter(i, g).criticalFault = i.criticalFault
  <2>0. i.feedback \in 0 .. FeedbackDuration /\ i.maintenance \in 0 .. MaintenanceDuration
    BY DEF Indicator
  <2>1. /\ Remaining(i.feedback, g) \in 0 .. FeedbackDuration
        /\ Remaining(i.maintenance, g) \in 0 .. MaintenanceDuration
    BY <2>0, IndicatorAssumption DEF Remaining
  <2> QED BY <2>1 DEF IndicatorAfter, Indicator
<1> QED BY <1>1, <1>2, <1>3, <1>4, <1>5, <1>6

----------------------------------------------------------------------------
(* What the web, Modbus and the command line ask for. *)

\* A request that restarts the device, whatever it changed before.
LEMMA ServesRequest ==
    ASSUME NEW d, Sound(d), NEW e \in DeviceState,
           e.lifecycle = "Restarting", e.button = d.button,
           e.pending = d.pending, e.drained = d.drained,
           e.service > 0 => e.service = d.service, Shown(e)
    PROVE  Serves(d, e)
<1>1. Sound(e)
  BY DEF Sound, LoopState
<1>2. ~d.pending \/ d.lifecycle = "Restarting"
  BY DEF Sound
<1>3. DrainKept(d, e)
  BY <1>2 DEF DrainKept
<1> QED BY <1>1, <1>3 DEF Serves

LEMMA SavedEffect ==
    ASSUME NEW d, d \in DeviceState, NEW t \in Transports
    PROVE  /\ Saved(d, t) \in DeviceState
           /\ \E c \in Configuration : c.transport = t /\ Saved(d, t) = [d EXCEPT !.active = c]
           /\ t = d.active.transport => Saved(d, t) = d
<1> DEFINE c == [d.active EXCEPT !.transport = t]
<1>1. d.active \in Configuration
  BY DEF DeviceState
<1>2. c \in Configuration /\ c.transport = t /\ (t = d.active.transport => c = d.active)
  BY <1>1 DEF Configuration
<1>3. Saved(d, t) = [d EXCEPT !.active = c]
  BY DEF Saved, DeviceState
<1> HIDE DEF c
<1>4. [d EXCEPT !.active = c] \in DeviceState /\ [d EXCEPT !.active = d.active] = d
  BY <1>2 DEF DeviceState
<1> QED BY <1>2, <1>3, <1>4

LEMMA SaveAndRestartServes ==
    ASSUME NEW d, Sound(d), NEW t \in Transports
    PROVE  Serves(d, SaveAndRestart(d, t))
<1>0. d \in DeviceState /\ d.lifecycle \in LoopState
  BY DEF Sound
<1>1. CASE t = d.active.transport
  BY <1>0, <1>1, SavedEffect, ServesItself DEF SaveAndRestart
<1>2. CASE t # d.active.transport
  <2>1. PICK c \in Configuration : Saved(d, t) = [d EXCEPT !.active = c]
    BY <1>0, SavedEffect
  <2>2. TransitionTo(d.lifecycle, "Restarting") = "Restarting"
    BY <1>0 DEF TransitionTo, CanTransition, LoopState
  <2> DEFINE e == [[d EXCEPT !.active = c] EXCEPT !.lifecycle = "Restarting"]
  <2>3. SaveAndRestart(d, t) = e
    BY <1>0, <1>2, <2>1, <2>2 DEF SaveAndRestart, Transition, DeviceState
  <2>4. e \in DeviceState /\ e.lifecycle = "Restarting" /\ e.service = d.service
        /\ e.indicator = d.indicator /\ e.button = d.button
        /\ e.web = d.web /\ e.pending = d.pending /\ e.drained = d.drained
    BY <1>0 DEF DeviceState, LifecycleState
  <2> HIDE DEF e
  <2>5. Shown(e)
    BY <2>4 DEF Sound, Shown
  <2> QED BY <2>3, <2>4, <2>5, ServesRequest
<1> QED BY <1>1, <1>2

LEMMA WebRestartServes == ASSUME NEW d, Sound(d) PROVE Serves(d, WebRestart(d))
<1>0. d \in DeviceState /\ d.lifecycle \in LoopState
  BY DEF Sound
<1>1. CASE d.lifecycle = "Restarting"
  BY <1>1, ServesItself DEF WebRestart, TransitionResult
<1>2. CASE d.lifecycle # "Restarting"
  <2> DEFINE e == [[d EXCEPT !.lifecycle = "Restarting"] EXCEPT !.pending = TRUE, !.drained = 0]
  <2>1. TransitionResult(d.lifecycle, "Restarting") = "Applied"
    BY <1>0, <1>2 DEF TransitionResult, CanTransition, LoopState
  <2>2. WebRestart(d) = e
    BY <2>1, ServesRestarted DEF WebRestart
  <2>z. 0 \in 0 .. Drain
    BY DeviceAssumption
  <2>3. e \in DeviceState /\ e.lifecycle = "Restarting" /\ e.service = d.service
        /\ e.indicator = d.indicator /\ e.button = d.button /\ e.active = d.active
        /\ e.web = d.web /\ e.pending = TRUE /\ e.drained = 0
    BY <1>0, <2>z DEF DeviceState, LifecycleState
  <2> HIDE DEF e
  <2>4. Sound(e) /\ DrainKept(d, e)
    BY <1>2, <2>3 DEF Sound, Shown, DrainKept, LoopState
  <2> QED BY <2>2, <2>3, <2>4 DEF Serves
<1> QED BY <1>1, <1>2

LEMMA IndicatorStepsServe ==
    ASSUME NEW d, Sound(d)
    PROVE  /\ Serves(d, Maintained(d)) /\ Serves(d, Unmaintained(d))
           /\ Serves(d, [d EXCEPT !.indicator = NotifyCommand(d.indicator)])
           /\ Serves(d, [d EXCEPT !.indicator = ShowMode(d.indicator)])
           /\ Serves(d, [d EXCEPT !.indicator = SetBusDegraded(d.indicator)])
<1>1. d.indicator \in Indicator
  BY DEF Sound, DeviceState
<1>2. \A j \in {SetBusDegraded(d.indicator), NotifyCommand(d.indicator),
                SetMaintenance(d.indicator), ClearMaintenance(d.indicator),
                ShowMode(d.indicator)} : Serves(d, [d EXCEPT !.indicator = j])
  BY <1>1, IndicatorEffect, ServesIndicator
<1> QED BY <1>2 DEF Maintained, Unmaintained

LEMMA BusFailedServes == ASSUME NEW d, Sound(d) PROVE Serves(d, BusFailed(d))
<1> DEFINE i == SetBusDegraded(d.indicator)
           m == [d EXCEPT !.modbus = FALSE, !.indicator = i]
           n == IF d.lifecycle = "Operational" THEN "Degraded" ELSE d.lifecycle
           e == [m EXCEPT !.lifecycle = n]
<1>0. d \in DeviceState /\ d.lifecycle \in LoopState /\ d.indicator \in Indicator
  BY DEF Sound, DeviceState
<1>1. /\ i \in Indicator /\ i.commissioning = d.indicator.commissioning
      /\ i.criticalFault = d.indicator.criticalFault
  BY <1>0, IndicatorEffect
<1> HIDE DEF i
<1>2. m \in DeviceState /\ m.lifecycle = d.lifecycle /\ [m EXCEPT !.lifecycle = d.lifecycle] = m
  BY <1>0, <1>1 DEF DeviceState
<1>3. BusFailed(d) = e
  <2>1. TransitionTo("Operational", "Degraded") = "Degraded"
    BY DEF TransitionTo, CanTransition
  <2>2. CASE d.lifecycle = "Operational"
    BY <1>2, <2>1, <2>2 DEF BusFailed, Transition, i
  <2>3. CASE d.lifecycle # "Operational"
    BY <1>2, <2>3 DEF BusFailed, i
  <2> QED BY <2>2, <2>3
<1>4. /\ e \in DeviceState /\ e.lifecycle = n /\ e.service = d.service
      /\ e.indicator = i /\ e.button = d.button /\ e.active = d.active
      /\ e.web = d.web /\ e.pending = d.pending /\ e.drained = d.drained
  BY <1>0, <1>1 DEF DeviceState, LifecycleState
<1>5. n \in LoopState /\ (n = "Restarting" <=> d.lifecycle = "Restarting")
  BY <1>0 DEF LoopState
<1> HIDE DEF e, m, n
<1>6. Sound(e)
  BY <1>1, <1>4, <1>5 DEF Sound, Shown
<1>7. DrainKept(d, e)
  BY <1>4, <1>5 DEF DrainKept, Sound
<1> QED BY <1>3, <1>4, <1>6, <1>7 DEF Serves

LEMMA LeaveServiceServes ==
    ASSUME NEW d, Sound(d)
    PROVE  Serves(d, LeaveService(d)) /\ LeaveService(d).lifecycle = d.lifecycle
           /\ LeaveService(d).service = 0
<1> DEFINE i == SetCommissioning(d.indicator, FALSE)
           e == [d EXCEPT !.service = 0, !.indicator = i]
<1>0. d \in DeviceState /\ d.lifecycle \in LoopState /\ d.indicator \in Indicator
  BY DEF Sound, DeviceState
<1>1. i \in Indicator /\ i.commissioning = FALSE
  BY <1>0, IndicatorEffect
<1>2. LeaveService(d) = e
  BY DEF LeaveService
<1> HIDE DEF i
<1>z. 0 \in 0 .. SessionDuration
  BY SessionAssumption
<1>3. /\ e \in DeviceState /\ e.lifecycle = d.lifecycle /\ e.service = 0
      /\ e.indicator = i /\ e.button = d.button /\ e.active = d.active
      /\ e.web = d.web /\ e.pending = d.pending /\ e.drained = d.drained
  BY <1>0, <1>1, <1>z DEF DeviceState
<1> HIDE DEF e
<1>4. Sound(e)
  BY <1>1, <1>3 DEF Sound, Shown
<1>5. DrainKept(d, e)
  BY <1>3 DEF DrainKept, Sound
<1> QED BY <1>2, <1>3, <1>4, <1>5 DEF Serves

\* What the command line saves in service mode leaves it open.
InServiceMode(d, e) ==
    e.active.transport # d.active.transport => e.lifecycle = "Restarting" \/ e.service > 0

LEMMA ServesWebModbus ==
    ASSUME NEW d, Sound(d), NEW a \in Activities
    PROVE  /\ a.by = "Web" => Serves(d, ServeWeb(d, a))
           /\ a.by = "Modbus" => Serves(d, ServeModbus(d, a))
<1>1. a.op = "Save" => a.transport \in Transports
  BY DEF Activities, Ask
<1>2. a.by = "Modbus" => a.op \in {"Save", "Maintain", "TransportError"}
  BY DEF Activities, Ask
<1>3. a.by = "Web" => Serves(d, ServeWeb(d, a))
  BY <1>1, SaveAndRestartServes, WebRestartServes DEF ServeWeb
<1>4. ASSUME a.by = "Modbus" PROVE Serves(d, ServeModbus(d, a))
  <2>1. CASE ~d.modbus
    BY <2>1, ServesItself DEF ServeModbus
  <2>2. CASE d.modbus /\ a.op = "Save"
    BY <1>1, <2>2, SaveAndRestartServes DEF ServeModbus
  <2>3. CASE d.modbus /\ a.op = "Maintain"
    BY <2>3, IndicatorStepsServe DEF ServeModbus
  <2>4. CASE d.modbus /\ a.op = "TransportError"
    BY <2>4, BusFailedServes DEF ServeModbus
  <2> QED BY <1>2, <1>4, <2>1, <2>2, <2>3, <2>4
<1> QED BY <1>3, <1>4

LEMMA SavedServes ==
    ASSUME NEW d, Sound(d), NEW t \in Transports, d.service > 0
    PROVE  /\ Serves(d, Saved(d, t)) /\ InServiceMode(d, Saved(d, t))
           /\ Saved(d, t).service = d.service
<1>1. PICK c \in Configuration : Saved(d, t) = [d EXCEPT !.active = c]
  BY SavedEffect DEF Sound
<1>2. Saved(d, t).service = d.service
  BY <1>1 DEF Sound, DeviceState
<1> QED BY <1>1, <1>2, ServesActive DEF InServiceMode

\* load-config sets the transports and whether the web is provisioned, in service mode.
LEMMA LoadedServes ==
    ASSUME NEW d, Sound(d), NEW t \in Transports, NEW f \in BOOLEAN, d.service > 0
    PROVE  LET e == [Saved(d, t) EXCEPT !.active.provisioned = f]
           IN  Serves(d, e) /\ InServiceMode(d, e)
<1> DEFINE c == [[d.active EXCEPT !.transport = t] EXCEPT !.provisioned = f]
           e == [Saved(d, t) EXCEPT !.active.provisioned = f]
<1>1. d \in DeviceState /\ d.active \in Configuration
  BY DEF Sound, DeviceState
<1>2. c \in Configuration
  BY <1>1 DEF Configuration
<1>3. e = [d EXCEPT !.active = c]
  BY <1>1 DEF Saved, DeviceState, Configuration
<1> HIDE DEF c
<1>4. [d EXCEPT !.active = c].service = d.service
  BY <1>1 DEF DeviceState
<1> QED BY <1>2, <1>3, <1>4, ServesActive DEF InServiceMode

\* A restart out of service mode, whatever configuration goes with it.
LEMMA LeaveAndRestartServes ==
    ASSUME NEW d, Sound(d), NEW c \in Configuration
    PROVE  LET e == LeaveService(Transition([d EXCEPT !.active = c], "Restarting"))
           IN  Serves(d, e) /\ InServiceMode(d, e)
<1> DEFINE i == SetCommissioning(d.indicator, FALSE)
           e == [[[d EXCEPT !.active = c] EXCEPT !.lifecycle = "Restarting"] EXCEPT
                    !.service = 0, !.indicator = i]
<1>0. d \in DeviceState /\ d.lifecycle \in LoopState /\ d.indicator \in Indicator
  BY DEF Sound, DeviceState
<1>1. i \in Indicator /\ i.commissioning = FALSE
  BY <1>0, IndicatorEffect
<1>2. TransitionTo(d.lifecycle, "Restarting") = "Restarting"
  BY <1>0 DEF TransitionTo, CanTransition, LoopState
<1>3. LeaveService(Transition([d EXCEPT !.active = c], "Restarting")) = e
  BY <1>0, <1>2 DEF LeaveService, Transition, DeviceState
<1> HIDE DEF i
<1>z. 0 \in 0 .. SessionDuration
  BY SessionAssumption
<1>4. /\ e \in DeviceState /\ e.lifecycle = "Restarting" /\ e.service = 0
      /\ e.indicator = i /\ e.button = d.button
      /\ e.pending = d.pending /\ e.drained = d.drained
  BY <1>0, <1>1, <1>z DEF DeviceState, LifecycleState
<1> HIDE DEF e
<1>5. Shown(e)
  BY <1>1, <1>4 DEF Shown
<1> QED BY <1>3, <1>4, <1>5, ServesRequest DEF InServiceMode

LEMMA UnchangedInServiceMode ==
    ASSUME NEW d, NEW e, e.active = d.active PROVE InServiceMode(d, e)
BY DEF InServiceMode

LEMMA HandleRebootServes ==
    ASSUME NEW d, Sound(d)
    PROVE  Serves(d, HandleReboot(d)) /\ InServiceMode(d, HandleReboot(d))
BY ServesRestarted, ServesItself DEF HandleReboot, InServiceMode

LEMMA HandleProvisionServes ==
    ASSUME NEW d, Sound(d)
    PROVE  Serves(d, HandleProvisionWeb(d)) /\ InServiceMode(d, HandleProvisionWeb(d))
<1> DEFINE c == [d.active EXCEPT !.provisioned = TRUE]
           e == HandleProvisionWeb(d)
<1>0. d \in DeviceState /\ c \in Configuration
  BY DEF Sound, DeviceState, Configuration
<1>1. [d EXCEPT !.active.provisioned = TRUE] = [d EXCEPT !.active = c]
  BY <1>0 DEF DeviceState
<1> HIDE DEF c
<1>2. e = d \/ e = LeaveService(Transition([d EXCEPT !.active = c], "Restarting"))
  BY <1>1 DEF HandleProvisionWeb
<1> QED BY <1>0, <1>2, ServesItself, LeaveAndRestartServes DEF InServiceMode

LEMMA HandleServiceServes ==
    ASSUME NEW d, Sound(d), NEW erase \in BOOLEAN
    PROVE  Serves(d, HandleService(d, erase)) /\ InServiceMode(d, HandleService(d, erase))
<1> DEFINE c == [transport |-> SafeTransport, provisioned |-> FALSE]
           e == HandleService(d, erase)
<1>0. c \in Configuration
  BY DeviceAssumption DEF Configuration
<1>1. \/ e = d \/ e = LeaveService(d)
      \/ e = LeaveService(Transition([d EXCEPT !.active = c], "Restarting"))
  BY DEF HandleService
<1> HIDE DEF c, e
<1>2. LeaveService(d).active = d.active
  BY DEF LeaveService, Sound, DeviceState
<1>3. CASE e = d
  BY <1>3, ServesItself DEF InServiceMode, e
<1>4. CASE e = LeaveService(d)
  BY <1>2, <1>4, LeaveServiceServes DEF InServiceMode, e
<1>5. CASE e = LeaveService(Transition([d EXCEPT !.active = c], "Restarting"))
  BY <1>0, <1>5, LeaveAndRestartServes DEF e
<1> QED BY <1>1, <1>3, <1>4, <1>5

LEMMA ServesCli ==
    ASSUME NEW d, Sound(d), NEW a \in Activities, a.by = "Cli"
    PROVE  Serves(d, ServeCli(d, a)) /\ InServiceMode(d, ServeCli(d, a))
<1>0. /\ a.transport \in Transports
      /\ a.op \in {"SetModbusConfig", "SetKnx", "LoadProvisioned", "LoadUnprovisioned",
                   "SetRgb", "Test", "Safe", "Reboot", "Provision", "EraseUser", "ServiceExit"}
  BY DeviceAssumption DEF Activities, Ask
<1>1. Serves(d, d) /\ InServiceMode(d, d)
  BY ServesItself DEF InServiceMode
<1>2. /\ Serves(d, Maintained(d)) /\ InServiceMode(d, Maintained(d))
      /\ Serves(d, Unmaintained(d)) /\ InServiceMode(d, Unmaintained(d))
  <2>1. Maintained(d).active = d.active /\ Unmaintained(d).active = d.active
    BY DEF Maintained, Unmaintained, Sound, DeviceState
  <2> QED BY <2>1, IndicatorStepsServe, UnchangedInServiceMode
<1>3. MutatingCommandAllowed(d) => d.service > 0
  BY DEF MutatingCommandAllowed
<1>4. CASE a.op = "SetRgb"
  BY <1>1, <1>2, <1>4 DEF ServeCli, HandleSetRgb
<1>5. CASE a.op \in {"Test", "Safe"}
  BY <1>1, <1>2, <1>5 DEF ServeCli, HandleManufacturingTest
<1>6. CASE a.op = "SetModbusConfig"
  BY <1>0, <1>1, <1>3, <1>6, SavedServes DEF ServeCli, HandleSetModbusConfig
<1>7. CASE a.op = "SetKnx"
  BY <1>0, <1>1, <1>3, <1>7, SavedServes DEF ServeCli, HandleSetKnx
<1>8. CASE a.op \in {"LoadProvisioned", "LoadUnprovisioned"}
  <2>1. PICK f \in BOOLEAN : ServeCli(d, a) = HandleLoadConfig(d, a.transport, f)
    BY <1>8 DEF ServeCli
  <2> QED BY <1>0, <1>1, <1>3, <2>1, LoadedServes DEF HandleLoadConfig
<1>9. CASE a.op = "Reboot"
  BY <1>9, HandleRebootServes DEF ServeCli
<1>10. CASE a.op = "Provision"
  BY <1>10, HandleProvisionServes DEF ServeCli
<1>11. CASE a.op \in {"EraseUser", "ServiceExit"}
  <2>1. PICK f \in BOOLEAN : ServeCli(d, a) = HandleService(d, f)
    BY <1>11 DEF ServeCli
  <2> QED BY <2>1, HandleServiceServes
<1> QED BY <1>0, <1>4, <1>5, <1>6, <1>7, <1>8, <1>9, <1>10, <1>11

----------------------------------------------------------------------------
(* The events of the button. *)

\* A factory reset closes service mode; it erases with a restart or leaves the reason
\* why the indicator still shows service mode.
LEMMA FactoryResetServes ==
    ASSUME NEW d, Sound(d), NEW outcome \in ResetOutcome
    PROVE  Serves(d, FactoryReset(d, outcome)) /\ FactoryReset(d, outcome).service = 0
<1>0. d \in DeviceState /\ d.lifecycle \in LoopState /\ d.indicator \in Indicator
  BY DEF Sound, DeviceState
<1>z. 0 \in 0 .. SessionDuration
  BY SessionAssumption
<1>i. /\ SetCriticalFault(d.indicator) \in Indicator
      /\ SetCriticalFault(d.indicator).criticalFault
      /\ NotifyCommand(d.indicator) \in Indicator
  BY <1>0, IndicatorEffect
<1>1. CASE outcome = "RelayFailure"
  <2> DEFINE i == SetCriticalFault(d.indicator)
             e == [d EXCEPT !.service = 0, !.indicator = i]
  <2>1. FactoryReset(d, outcome) = e
    BY <1>0, <1>1 DEF FactoryReset, DeviceState
  <2>2. i \in Indicator /\ i.criticalFault
    BY <1>i
  <2> HIDE DEF i
  <2>3. /\ e \in DeviceState /\ e.lifecycle = d.lifecycle /\ e.service = 0
        /\ e.indicator = i /\ e.button = d.button /\ e.active = d.active
        /\ e.pending = d.pending /\ e.drained = d.drained
    BY <1>0, <1>z, <2>2 DEF DeviceState
  <2> HIDE DEF e
  <2>4. Sound(e) /\ DrainKept(d, e)
    BY <2>2, <2>3 DEF Sound, Shown, DrainKept
  <2> QED BY <2>1, <2>3, <2>4 DEF Serves
<1>2. CASE outcome = "StoreFailure"
  <2> DEFINE i == NotifyCommand(d.indicator)
             e == [d EXCEPT !.service = 0, !.web = FALSE, !.indicator = i]
  <2>1. FactoryReset(d, outcome) = e
    BY <1>0, <1>2 DEF FactoryReset, DeviceState
  <2>2. i \in Indicator
    BY <1>i
  <2> HIDE DEF i
  <2>3. /\ e \in DeviceState /\ e.lifecycle = d.lifecycle /\ e.service = 0 /\ e.web = FALSE
        /\ e.indicator = i /\ e.button = d.button /\ e.active = d.active
        /\ e.pending = d.pending /\ e.drained = d.drained
    BY <1>0, <1>z, <2>2 DEF DeviceState
  <2> HIDE DEF e
  <2>4. Sound(e) /\ DrainKept(d, e)
    BY <2>2, <2>3 DEF Sound, Shown, DrainKept
  <2> QED BY <2>1, <2>3, <2>4 DEF Serves
<1>3. CASE outcome = "Erased"
  <2> DEFINE i == NotifyCommand(d.indicator)
             c == [transport |-> SafeTransport, provisioned |-> FALSE]
             e == [d EXCEPT !.service = 0, !.web = FALSE, !.lifecycle = "Restarting",
                            !.active = c, !.indicator = i]
  <2>1. TransitionTo(d.lifecycle, "Restarting") = "Restarting"
    BY <1>0 DEF TransitionTo, CanTransition, LoopState
  <2>2. FactoryReset(d, outcome) = e
    BY <1>0, <1>3, <2>1 DEF FactoryReset, Transition, DeviceState
  <2>3. i \in Indicator /\ c \in Configuration
    BY <1>i, DeviceAssumption DEF Configuration
  <2> HIDE DEF i, c
  <2>4. /\ e \in DeviceState /\ e.lifecycle = "Restarting" /\ e.service = 0 /\ e.web = FALSE
        /\ e.button = d.button /\ e.pending = d.pending /\ e.drained = d.drained
    BY <1>0, <1>z, <2>3 DEF DeviceState, LifecycleState
  <2> HIDE DEF e
  <2>5. Shown(e)
    BY <2>4 DEF Shown
  <2> QED BY <2>2, <2>4, <2>5, ServesRequest
<1> QED BY <1>1, <1>2, <1>3 DEF ResetOutcome

\* A commissioning hold opens service mode and does nothing else.
LEMMA CommissioningEffect ==
    ASSUME NEW d, Sound(d), NEW outcome
    PROVE  LET e == OnButtonEvent(d, "CommissioningRequested", outcome)
           IN  /\ Sound(e) /\ DrainKept(d, e) /\ e.button = d.button
               /\ e.active = d.active
<1> DEFINE i == SetCommissioning(d.indicator, TRUE)
           e == [d EXCEPT !.indicator = i, !.service = SessionDuration]
<1>0. d \in DeviceState /\ d.indicator \in Indicator
  BY DEF Sound, DeviceState
<1>1. i \in Indicator /\ i.commissioning = TRUE
  BY <1>0, IndicatorEffect
<1>2. OnButtonEvent(d, "CommissioningRequested", outcome) = e
  BY DEF OnButtonEvent, EnterFromPhysicalPresence
<1> HIDE DEF i
<1>3. SessionDuration \in 0 .. SessionDuration /\ SessionDuration > 0
  BY SessionAssumption
<1>4. /\ e \in DeviceState /\ e.lifecycle = d.lifecycle /\ e.service = SessionDuration
      /\ e.indicator = i /\ e.button = d.button /\ e.active = d.active
      /\ e.pending = d.pending /\ e.drained = d.drained
  BY <1>0, <1>1, <1>3 DEF DeviceState
<1> HIDE DEF e
<1>5. Sound(e) /\ DrainKept(d, e)
  BY <1>1, <1>3, <1>4 DEF Sound, Shown, DrainKept
<1> QED BY <1>2, <1>4, <1>5

LEMMA PollEvent ==
    ASSUME NEW c, NEW pressed
    PROVE  Poll(c, pressed).event \in ButtonEventType \cup {"None"}
BY DEF Poll, Polled, HandleRelease, ButtonEventType

\* What an event of the button does to a device whose loop runs.
LEMMA ButtonEventEffect ==
    ASSUME NEW d, Sound(d), NEW event \in ButtonEventType \cup {"None"},
           NEW outcome \in ResetOutcome
    PROVE  LET e == OnButtonEvent(d, event, outcome)
           IN  /\ Sound(e) /\ DrainKept(d, e) /\ e.button = d.button
               /\ e.service > 0 => e.service = d.service \/ event = "CommissioningRequested"
               /\ e.active.transport # d.active.transport =>
                    e.lifecycle = "Restarting" \/ d.service > 0
<1> DEFINE e == OnButtonEvent(d, event, outcome)
<1>1. CASE event = "CommissioningRequested"
  BY <1>1, CommissioningEffect
<1>2. CASE event # "CommissioningRequested"
  <2>1. CASE event = "None"
    BY <2>1, ServesItself DEF OnButtonEvent, Serves
  <2>2. CASE event \in {"IdentifyRequested", "FactoryResetArmed"}
    <3>1. e = [d EXCEPT !.indicator = NotifyCommand(d.indicator)]
      BY <2>2 DEF OnButtonEvent
    <3> HIDE DEF e
    <3>2. Serves(d, e)
      BY <3>1, IndicatorStepsServe
    <3> QED BY <3>2 DEF Serves, e
  <2>3. CASE event = "FactoryResetRequested"
    <3>1. e = FactoryReset(d, outcome)
      BY <2>3 DEF OnButtonEvent
    <3> HIDE DEF e
    <3>2. Serves(d, e)
      BY <3>1, FactoryResetServes
    <3> QED BY <3>2 DEF Serves, e
  <2> QED BY <1>2, <2>1, <2>2, <2>3 DEF ButtonEventType
<1> QED BY <1>1, <1>2

----------------------------------------------------------------------------
(* One call of update, part by part. *)

LEMMA ElapseEffect ==
    ASSUME NEW d, Sound(d), gap \in Nat
    PROVE  LET e == Elapse(d)
           IN  /\ Sound(e) /\ e.button = ButtonAfter(d.button, gap)
               /\ e.lifecycle = d.lifecycle /\ e.service = d.service /\ e.active = d.active
               /\ e.pending = d.pending
               /\ d.pending => e.drained = Aged(d.drained, gap, Drain)
<1> DEFINE b == ButtonAfter(d.button, gap)
           i == IndicatorAfter(d.indicator, gap)
           n == IF d.pending THEN Aged(d.drained, gap, Drain) ELSE d.drained
           e == [d EXCEPT !.button = b, !.indicator = i, !.drained = n]
<1>0. d \in DeviceState /\ d.indicator \in Indicator /\ d.button \in Button
      /\ d.drained \in 0 .. Drain
  BY DEF Sound, DeviceState
<1>1. /\ i \in Indicator /\ i.commissioning = d.indicator.commissioning
      /\ i.criticalFault = d.indicator.criticalFault
  BY <1>0, IndicatorEffect
<1>2. b \in Button
  BY <1>0, ButtonAfterEffect
<1>3. n \in 0 .. Drain
  BY <1>0, AgedType, DeviceAssumption
<1>4. Elapse(d) = e
  BY DEF Elapse
<1>n. d.pending => n = Aged(d.drained, gap, Drain)
  OBVIOUS
<1> HIDE DEF b, i, n
<1>5. /\ e \in DeviceState /\ e.button = b /\ e.indicator = i /\ e.drained = n
      /\ e.lifecycle = d.lifecycle /\ e.service = d.service /\ e.active = d.active
      /\ e.pending = d.pending /\ e.web = d.web
  BY <1>0, <1>1, <1>2, <1>3 DEF DeviceState
<1> HIDE DEF e
<1>6. Sound(e)
  BY <1>1, <1>5 DEF Sound, Shown
<1> QED BY <1>4, <1>5, <1>6, <1>n DEF b

LEMMA ExpireServiceEffect ==
    ASSUME NEW d, Sound(d), gap \in Nat
    PROVE  LET e == ExpireService(d)
           IN  /\ Sound(e) /\ e.button = d.button /\ DrainKept(d, e) /\ e.active = d.active
               /\ e.service > 0 => e.service = d.service - gap
<1>0. d \in DeviceState /\ d.service \in 0 .. SessionDuration
  BY DEF Sound, DeviceState
<1>1. CASE ServiceExpires(d.service, gap)
  <2>1. ExpireService(d) = LeaveService(d) /\ LeaveService(d).active = d.active
    BY <1>0, <1>1 DEF ExpireService, LeaveService, DeviceState
  <2> QED BY <2>1, LeaveServiceServes DEF Serves
<1>2. CASE ~ServiceExpires(d.service, gap)
  <2> DEFINE n == ServiceAfter(d.service, gap)
             e == [d EXCEPT !.service = n]
  <2>1. ExpireService(d) = e
    BY <1>2 DEF ExpireService
  <2>2. /\ n \in 0 .. SessionDuration
        /\ n > 0 => d.service > 0 /\ n = d.service - gap
        /\ d.service > 0 => n > 0
    BY <1>0, <1>2, SessionAssumption DEF ServiceAfter, ServiceExpires
  <2> HIDE DEF n
  <2>3. /\ e \in DeviceState /\ e.service = n /\ e.lifecycle = d.lifecycle
        /\ e.button = d.button /\ e.active = d.active /\ e.indicator = d.indicator
        /\ e.web = d.web /\ e.pending = d.pending /\ e.drained = d.drained
    BY <1>0, <2>2 DEF DeviceState
  <2> HIDE DEF e
  <2>4. Sound(e)
    BY <2>2, <2>3 DEF Sound, Shown
  <2>5. DrainKept(d, e)
    BY <2>3 DEF DrainKept, Sound
  <2> QED BY <2>1, <2>2, <2>3, <2>4, <2>5
<1> QED BY <1>1, <1>2

LEMMA ServedEarlyEffect ==
    ASSUME Sound(device), gap \in Nat, NEW a \in Activities
    PROVE  LET e == ServedEarly(a)
           IN  /\ Sound(e) /\ DrainKept(Elapse(device), e)
               /\ e.button = ButtonAfter(device.button, gap)
               /\ e.service > 0 => e.service = device.service - gap
               /\ e.active.transport # device.active.transport =>
                    e.lifecycle = "Restarting" \/ device.service > 0
<1> DEFINE l == Elapse(device)
           d == ExpireService(l)
           e == ServedEarly(a)
<1>1. /\ Sound(l) /\ l.button = ButtonAfter(device.button, gap)
      /\ l.service = device.service /\ l.active = device.active
  BY ElapseEffect
<1>2. /\ Sound(d) /\ d.button = l.button /\ DrainKept(l, d) /\ d.active = l.active
      /\ d.service > 0 => d.service = l.service - gap
  BY <1>1, ExpireServiceEffect
<1>3. Serves(d, e)
  <2>1. e = CASE a.by = "Web" -> ServeWeb(d, a)
              [] a.by = "Modbus" -> ServeModbus(d, a)
              [] OTHER -> d
    BY DEF ServedEarly
  <2> HIDE DEF d, e
  <2> QED BY <1>2, <2>1, ServesWebModbus, ServesItself
<1>4. device.service \in Nat /\ d.service \in Nat
  BY <1>2, SessionAssumption DEF Sound, DeviceState
<1> HIDE DEF d, e
<1>5. DrainKept(l, e)
  BY <1>2, <1>3, DrainTransitive DEF Serves
<1>6. d.service > 0 => device.service > 0
  BY <1>1, <1>2, <1>4
<1> QED BY <1>1, <1>2, <1>3, <1>5, <1>6 DEF Serves, e

LEMMA ServedButtonEffect ==
    ASSUME NEW d, Sound(d), NEW outcome \in ResetOutcome, level \in BOOLEAN
    PROVE  LET p == Poll(d.button, level)
               e == ServedButton(d, outcome)
           IN  /\ Sound(e) /\ DrainKept(d, e) /\ e.button = p.button
               /\ e.service > 0 => e.service = d.service \/ p.event = "CommissioningRequested"
               /\ e.active.transport # d.active.transport =>
                    e.lifecycle = "Restarting" \/ d.service > 0
<1> DEFINE p == Poll(d.button, level)
           x == [d EXCEPT !.button = p.button]
           e == OnButtonEvent(x, p.event, outcome)
<1>0. d \in DeviceState /\ d.button \in Button
  BY DEF Sound, DeviceState
<1>1. p.button \in Button /\ p.event \in ButtonEventType \cup {"None"}
  BY <1>0, PollCases, PollEvent
<1>2. ServedButton(d, outcome) = e
  BY DEF ServedButton
<1> HIDE DEF p
<1>3. /\ x \in DeviceState /\ x.button = p.button /\ x.service = d.service
      /\ x.lifecycle = d.lifecycle /\ x.active = d.active /\ x.indicator = d.indicator
      /\ x.web = d.web /\ x.pending = d.pending /\ x.drained = d.drained
  BY <1>0, <1>1 DEF DeviceState
<1> HIDE DEF x
<1>4. Sound(x) /\ DrainKept(d, x)
  BY <1>3 DEF Sound, Shown, DrainKept
<1>5. /\ Sound(e) /\ DrainKept(x, e) /\ e.button = x.button
      /\ e.service > 0 => e.service = x.service \/ p.event = "CommissioningRequested"
      /\ e.active.transport # x.active.transport =>
           e.lifecycle = "Restarting" \/ x.service > 0
  <2>1. \A event \in ButtonEventType \cup {"None"} :
          LET f == OnButtonEvent(x, event, outcome)
          IN  /\ Sound(f) /\ DrainKept(x, f) /\ f.button = x.button
              /\ f.service > 0 => f.service = x.service \/ event = "CommissioningRequested"
              /\ f.active.transport # x.active.transport =>
                   f.lifecycle = "Restarting" \/ x.service > 0
    BY <1>4, ButtonEventEffect
  <2> QED BY <1>1, <2>1
<1> HIDE DEF e
<1>6. DrainKept(d, e)
  BY <1>4, <1>5, DrainTransitive
<1> QED BY <1>2, <1>3, <1>5, <1>6 DEF p

LEMMA ServedLateEffect ==
    ASSUME NEW d, Sound(d), NEW a \in Activities
    PROVE  LET e == ServedLate(d, a)
           IN  /\ Sound(e) /\ DrainKept(d, e) /\ e.button = d.button
               /\ e.service > 0 => e.service = d.service
               /\ InServiceMode(d, e)
<1> DEFINE c == IF a.by = "Cli" THEN ServeCli(d, a) ELSE d
           e == [c EXCEPT !.indicator = ShowMode(c.indicator)]
<1>1. Serves(d, c) /\ InServiceMode(d, c)
  BY ServesCli, ServesItself, UnchangedInServiceMode
<1>2. ServedLate(d, a) = e
  BY DEF ServedLate
<1> HIDE DEF c
<1>3. Serves(c, e)
  BY <1>1, IndicatorStepsServe DEF Serves
<1>4. e.active = c.active /\ e.service = c.service /\ e.lifecycle = c.lifecycle
  BY <1>1 DEF Serves, Sound, DeviceState
<1> HIDE DEF e
<1>5. DrainKept(d, e)
  BY <1>1, <1>3, DrainTransitive DEF Serves
<1> QED BY <1>1, <1>2, <1>3, <1>4, <1>5 DEF Serves, InServiceMode

LEMMA StartDrainEffect ==
    ASSUME NEW d, d \in DeviceState
    PROVE  LET e == StartDrain(d)
           IN  /\ e \in DeviceState
               /\ e.lifecycle = d.lifecycle /\ e.button = d.button /\ e.indicator = d.indicator
               /\ e.service = d.service /\ e.active = d.active /\ e.web = d.web
               /\ d.lifecycle = "Restarting" =>
                    e.pending /\ e.drained = IF d.pending THEN d.drained ELSE 0
               /\ d.lifecycle # "Restarting" => e = d
<1>0. 0 \in 0 .. Drain
  BY DeviceAssumption
<1>1. CASE d.lifecycle = "Restarting" /\ ~d.pending
  <2>1. StartDrain(d) = [d EXCEPT !.pending = TRUE, !.drained = 0]
    BY <1>1 DEF StartDrain
  <2> QED BY <1>0, <1>1, <2>1 DEF DeviceState
<1>2. CASE ~(d.lifecycle = "Restarting" /\ ~d.pending)
  <2>1. StartDrain(d) = d
    BY <1>2 DEF StartDrain
  <2> QED BY <1>2, <2>1
<1> QED BY <1>1, <1>2

\* A watchdog that fails takes the lifecycle out of the states that accept commands.
LEMMA WatchdogFailureEffect ==
    ASSUME NEW d, d \in DeviceState, level \in BOOLEAN
    PROVE  LET e == WatchdogFailure(d)
           IN  /\ e \in DeviceState /\ ~AcceptsOrdinaryCommands(e.lifecycle)
               /\ e.service = d.service /\ e.active = d.active
<1> DEFINE b == ButtonInitialized(level)
           i == SetCriticalFault(d.indicator)
           m == [d EXCEPT !.indicator = i, !.button = b]
           n == IF d.lifecycle \in {"Fault", "Restarting"} THEN d.lifecycle ELSE "Fault"
           e == [m EXCEPT !.lifecycle = n]
<1>1. i \in Indicator
  BY IndicatorEffect DEF DeviceState
<1>2. b \in Button
  BY ButtonAssumption DEF ButtonInitialized, Button
<1>3. d.lifecycle \in LifecycleState
  BY DEF DeviceState
<1>4. TransitionTo(d.lifecycle, "Fault") = n \/ d.lifecycle \in {"Fault", "Restarting"}
  BY <1>3 DEF TransitionTo, CanTransition, LifecycleState
<1>5. n \in LifecycleState /\ ~AcceptsOrdinaryCommands(n)
  BY <1>3 DEF LifecycleState, AcceptsOrdinaryCommands
<1> HIDE DEF i, b
<1>6. m \in DeviceState /\ m.lifecycle = d.lifecycle /\ m.service = d.service
      /\ m.active = d.active /\ [m EXCEPT !.lifecycle = m.lifecycle] = m
  BY <1>1, <1>2 DEF DeviceState
<1>7. WatchdogFailure(d) = e
  <2>1. WatchdogFailure(d) = IF d.lifecycle \in {"Fault", "Restarting"} THEN m
                             ELSE Transition(m, "Fault")
    BY DEF WatchdogFailure, i, b
  <2> HIDE DEF m
  <2> QED BY <1>4, <1>6, <2>1 DEF Transition
<1> HIDE DEF m, n
<1>8. e \in DeviceState /\ e.lifecycle = n /\ e.service = m.service /\ e.active = m.active
  BY <1>5, <1>6 DEF DeviceState
<1> HIDE DEF e
<1> QED BY <1>5, <1>6, <1>7, <1>8

----------------------------------------------------------------------------
(* Boot. *)

LEMMA FirstStateEffect ==
    /\ FirstState \in DeviceState /\ FirstState.service = 0 /\ FirstState.lifecycle = "Booting"
    /\ FirstState.indicator = FreshIndicator /\ FirstState.pending = FALSE
    /\ FirstState.drained = 0
<1>1. FreshIndicator \in Indicator
  BY IndicatorAssumption DEF FreshIndicator, Indicator, IndicatorMode
<1>2. ButtonInitialized(FALSE) \in Button
  BY ButtonAssumption DEF ButtonInitialized, Button
<1>3. [transport |-> SafeTransport, provisioned |-> FALSE] \in Configuration
  BY DeviceAssumption DEF Configuration
<1>4. 0 \in 0 .. SessionDuration /\ 0 \in 0 .. Drain
  BY SessionAssumption, DeviceAssumption
<1> QED BY <1>1, <1>2, <1>3, <1>4 DEF FirstState, DeviceState, LifecycleState

LEMMA BootAbortedEffect ==
    ASSUME NEW failure \in FatalFailures
    PROVE  LET e == BootAborted(failure)
           IN  e \in DeviceState /\ e.service = 0 /\ ~AcceptsOrdinaryCommands(e.lifecycle)
<1> DEFINE f == FirstState
           fault == [f EXCEPT !.lifecycle = "Fault"]
           web == [fault EXCEPT !.web = TRUE]
<1>0. f \in DeviceState /\ f.service = 0 /\ f.lifecycle = "Booting"
  BY FirstStateEffect
<1>1. /\ TransitionTo("Booting", "Fault") = "Fault"
      /\ TransitionTo("Booting", "Configuring") = "Configuring"
      /\ TransitionTo("Configuring", "Fault") = "Fault"
  BY DEF TransitionTo, CanTransition
<1> HIDE DEF f
<1>2. /\ Transition(f, "Fault") = fault
      /\ Transition(Transition(f, "Configuring"), "Fault") = fault
  BY <1>0, <1>1 DEF Transition, DeviceState
<1>3. /\ fault \in DeviceState /\ fault.service = 0 /\ fault.lifecycle = "Fault"
      /\ web \in DeviceState /\ web.service = 0 /\ web.lifecycle = "Fault"
  BY <1>0 DEF DeviceState, LifecycleState
<1>4. BootAborted(failure) \in {f, fault, web}
  BY <1>2 DEF BootAborted, FatalFailures, f
<1> HIDE DEF fault, web
<1> QED BY <1>0, <1>3, <1>4 DEF AcceptsOrdinaryCommands

LEMMA BootedEffect ==
    ASSUME NEW degraded, level \in BOOLEAN, stored \in Configuration
    PROVE  LET e == Booted(degraded)
           IN  /\ Sound(e) /\ e.service = 0 /\ e.lifecycle \in {"Operational", "Degraded"}
               /\ e.button = ButtonInitialized(level)
<1> DEFINE b == ButtonInitialized(level)
           c == Loaded(degraded)
           m == "Modbus" \notin degraded
           n == IF degraded = {} THEN "Operational" ELSE "Degraded"
           i == IF degraded = {} THEN FreshIndicator ELSE SetBusDegraded(FreshIndicator)
           d == [FirstState EXCEPT !.lifecycle = "Configuring", !.button = b, !.active = c,
                                   !.modbus = m, !.web = TRUE]
           e == [d EXCEPT !.lifecycle = n, !.indicator = i]
<1>0. /\ FirstState \in DeviceState /\ FirstState.service = 0
      /\ FirstState.lifecycle = "Booting" /\ FirstState.indicator = FreshIndicator
      /\ FirstState.pending = FALSE
  BY FirstStateEffect
<1>1. b \in Button
  BY ButtonAssumption DEF ButtonInitialized, Button
<1>2. c \in Configuration
  BY DeviceAssumption DEF Loaded, Configuration
<1>3. m \in BOOLEAN /\ n \in {"Operational", "Degraded"}
  OBVIOUS
<1>4. FreshIndicator \in Indicator /\ FreshIndicator.commissioning = FALSE
  BY IndicatorAssumption DEF FreshIndicator, Indicator, IndicatorMode
<1>5. i \in Indicator /\ i.commissioning = FALSE
  BY <1>4, IndicatorEffect
<1>6. /\ TransitionTo("Booting", "Configuring") = "Configuring"
      /\ TransitionTo("Configuring", "Operational") = "Operational"
      /\ TransitionTo("Configuring", "Degraded") = "Degraded"
  BY DEF TransitionTo, CanTransition
<1> HIDE DEF b, c, m
<1>7. d \in DeviceState /\ d.lifecycle = "Configuring" /\ d.indicator = FreshIndicator
      /\ d.service = 0 /\ d.pending = FALSE /\ d.button = b
  BY <1>0, <1>1, <1>2, <1>3 DEF DeviceState, LifecycleState
<1>8. Booted(degraded) = IF degraded = {} THEN Transition(d, "Operational")
                         ELSE [Transition(d, "Degraded") EXCEPT !.indicator = SetBusDegraded(@)]
  <2>1. Transition(FirstState, "Configuring") = [FirstState EXCEPT !.lifecycle = "Configuring"]
    BY <1>0, <1>6 DEF Transition
  <2>2. [Transition(FirstState, "Configuring") EXCEPT
                !.button = ButtonInitialized(level), !.active = Loaded(degraded),
                !.modbus = "Modbus" \notin degraded, !.web = TRUE] = d
    BY <1>0, <2>1 DEF b, c, m, DeviceState
  <2> HIDE DEF d
  <2> QED BY <2>2 DEF Booted
<1> HIDE DEF d
<1>9. Booted(degraded) = e
  <2>1. CASE degraded = {}
    BY <1>6, <1>7, <1>8, <2>1 DEF Transition, DeviceState
  <2>2. CASE degraded # {}
    BY <1>6, <1>7, <1>8, <2>2 DEF Transition, DeviceState
  <2> QED BY <2>1, <2>2
<1> HIDE DEF i, n
<1>10. e \in DeviceState /\ e.lifecycle = n /\ e.indicator = i /\ e.service = 0
       /\ e.pending = FALSE /\ e.button = b
  BY <1>3, <1>5, <1>7 DEF DeviceState, LifecycleState
<1> HIDE DEF e
<1>11. Sound(e)
  BY <1>3, <1>5, <1>10 DEF Sound, Shown, LoopState
<1> QED BY <1>3, <1>9, <1>10, <1>11 DEF b

----------------------------------------------------------------------------
(* The inductive invariant. *)

\* What is true of a restart under way: its drain began with it, and has lasted as long.
DrainInv ==
    IF device.lifecycle = "Restarting"
    THEN device.pending /\ device.drained + gap = history.restarting
    ELSE history.restarting = 0

\* What is true of the button, and of its history.
ButtonInv ==
    /\ Held(device.button, gap, history.down, history.released)
    /\ ArmedInv(device.button)
    /\ ~history.everReleased => level /\ DownSinceBoot(device.button)

RunInv == phase = "Running" => Sound(device) /\ DrainInv /\ ButtonInv

\* The inductive invariant.
IInv ==
    /\ TypeOK
    /\ RunInv
    /\ AcceptsOrdinaryCommands(device.lifecycle) => phase = "Running"
    /\ level => history.released = 0

LEMMA FreshHistoryEffect ==
    ASSUME NEW pressed \in BOOLEAN
    PROVE  /\ FreshHistory(pressed) \in History
           /\ FreshHistory(pressed).restarting = 0
           /\ FreshHistory(pressed).everReleased = ~pressed
           /\ pressed => FreshHistory(pressed).released = 0
<1>1. NoticedRelease \in Nat /\ Drain + MaxGap \in Nat /\ FactoryResetHold \in Nat
  BY DeviceAssumption, ButtonAssumption DEF NoticedRelease
<1> HIDE DEF NoticedRelease
<1>2. 0 \in Ticks(NoticedRelease) /\ NoticedRelease \in Ticks(NoticedRelease)
      /\ 0 \in Ticks(FactoryResetHold) /\ 0 \in Ticks(Drain + MaxGap)
  BY <1>1 DEF Ticks
<1>3. (~pressed) \in BOOLEAN
  OBVIOUS
<1> QED BY <1>2, <1>3 DEF FreshHistory, History

LEMMA InitIInv == Init => IInv
<1> SUFFICES ASSUME Init PROVE IInv
  OBVIOUS
<1>1. device \in DeviceState /\ device.lifecycle = "Booting"
  BY FirstStateEffect DEF Init
<1>2. history \in History /\ (level => history.released = 0)
  BY FreshHistoryEffect DEF Init
<1>g. 0 \in 0 .. MaxGap
  BY DeviceAssumption
<1>s. stored \in Configuration
  BY DEF Init, Configuration
<1>3. gap \in 0 .. MaxGap /\ level \in BOOLEAN /\ stored \in Configuration /\ phase = "Off"
  BY <1>g, <1>s DEF Init
<1> QED BY <1>1, <1>2, <1>3 DEF IInv, TypeOK, RunInv, AcceptsOrdinaryCommands

LEMMA BootKeeps == ASSUME IInv, Boot PROVE IInv' /\ device'.service = 0
<1>0. /\ level \in BOOLEAN /\ stored \in Configuration
      /\ gap' = 0 /\ history' = FreshHistory(level) /\ UNCHANGED <<stored, level>>
  BY DEF Boot, IInv, TypeOK
<1>1. /\ history' \in History /\ history'.restarting = 0
      /\ history'.everReleased = ~level /\ (level' => history'.released = 0)
  BY <1>0, FreshHistoryEffect
<1>2. gap' \in 0 .. MaxGap /\ level' \in BOOLEAN /\ stored' \in Configuration
  BY <1>0, DeviceAssumption
<1>3. CASE phase' = "Running"
  <2>1. PICK degraded \in SUBSET Degradations : device' = Booted(degraded)
    BY <1>3 DEF Boot
  <2>2. /\ Sound(device') /\ device'.service = 0
        /\ device'.lifecycle \in {"Operational", "Degraded"}
        /\ device'.button = ButtonInitialized(level)
    BY <1>0, <2>1, BootedEffect
  <2>3. DrainInv'
    BY <1>1, <2>2 DEF DrainInv
  <2>4. ButtonInv'
    <3>1. /\ device'.button.qualified = FALSE /\ device'.button.armed = FALSE
          /\ device'.button.raw = level /\ device'.button.stable = level
          /\ device'.button.suppress = level
      BY <2>2 DEF ButtonInitialized
    <3> QED BY <1>0, <1>1, <3>1 DEF ButtonInv, Held, ArmedInv, DownSinceBoot
  <2>5. device' \in DeviceState
    BY <2>2 DEF Sound
  <2> QED BY <1>1, <1>2, <1>3, <2>2, <2>3, <2>4, <2>5 DEF IInv, TypeOK, RunInv
<1>4. CASE phase' # "Running"
  <2>1. /\ device' \in DeviceState /\ device'.service = 0
        /\ ~AcceptsOrdinaryCommands(device'.lifecycle)
    <3>1. CASE \E failure \in FatalFailures : device' = BootAborted(failure)
      BY <3>1, BootAbortedEffect
    <3>2. CASE \E degraded \in SUBSET Degradations : device' = WatchdogFailure(Booted(degraded))
      <4>1. PICK degraded : device' = WatchdogFailure(Booted(degraded))
        BY <3>2
      <4>2. Booted(degraded) \in DeviceState /\ Booted(degraded).service = 0
        BY <1>0, BootedEffect DEF Sound
      <4> QED BY <1>0, <4>1, <4>2, WatchdogFailureEffect
    <3> QED BY <1>4, <3>1, <3>2 DEF Boot
  <2>2. phase' = "Halted"
    BY <1>4 DEF Boot
  <2> QED BY <1>1, <1>2, <2>1, <2>2 DEF IInv, TypeOK, RunInv
<1> QED BY <1>3, <1>4

LEMMA TickKeeps == ASSUME IInv, Tick PROVE IInv'
<1> DEFINE b == device.button
           up == IF level THEN 0 ELSE Aged(history.released, 1, NoticedRelease)
           down == IF up = NoticedRelease THEN 0 ELSE Aged(history.down, 1, FactoryResetHold)
           drain == IF device.lifecycle = "Restarting"
                    THEN Aged(history.restarting, 1, Drain + MaxGap) ELSE 0
<1>0. /\ phase = "Running" /\ gap < MaxGap /\ gap' = gap + 1
      /\ history' = [history EXCEPT !.released = up, !.down = down, !.restarting = drain]
      /\ UNCHANGED <<phase, device, stored, level>>
  BY DEF Tick, HistoryTick
<1>1. /\ gap \in 0 .. MaxGap /\ MaxGap \in Nat /\ Drain \in Nat /\ Debounce \in Nat
      /\ FactoryResetHold \in Nat /\ MaxGap > 0
      /\ NoticedRelease = 2 * MaxGap + Debounce /\ NoticedRelease \in Nat
  BY DeviceAssumption, ButtonAssumption DEF IInv, TypeOK, NoticedRelease
<1> HIDE DEF NoticedRelease
<1>2. /\ history.released \in 0 .. NoticedRelease /\ history.down \in 0 .. FactoryResetHold
      /\ history.restarting \in 0 .. (Drain + MaxGap)
  BY DEF IInv, TypeOK, History, Ticks
<1>3. /\ up \in 0 .. NoticedRelease /\ up <= history.released + 1 /\ (level => up = 0)
      /\ down \in 0 .. FactoryResetHold /\ drain \in 0 .. (Drain + MaxGap)
  <2>1. /\ Aged(history.released, 1, NoticedRelease) \in 0 .. NoticedRelease
        /\ Aged(history.released, 1, NoticedRelease) <= history.released + 1
    BY <1>1, <1>2, AgedType
  <2>2. Aged(history.down, 1, FactoryResetHold) \in 0 .. FactoryResetHold
    BY <1>1, <1>2, AgedType
  <2>3. Drain + MaxGap \in Nat
    BY <1>1
  <2>4. Aged(history.restarting, 1, Drain + MaxGap) \in 0 .. (Drain + MaxGap)
    BY <1>2, <2>3, AgedType
  <2>5. 0 \in 0 .. NoticedRelease /\ 0 \in 0 .. FactoryResetHold /\ 0 \in 0 .. (Drain + MaxGap)
        /\ 0 <= history.released + 1
    BY <1>1, <1>2
  <2> QED BY <2>1, <2>2, <2>4, <2>5
<1>d. drain = IF device.lifecycle = "Restarting"
              THEN Aged(history.restarting, 1, Drain + MaxGap) ELSE 0
  OBVIOUS
<1>e. up # NoticedRelease => down = Aged(history.down, 1, FactoryResetHold)
  OBVIOUS
<1> HIDE DEF up, down, drain
<1>4. /\ history' \in History /\ history'.released = up /\ history'.down = down
      /\ history'.restarting = drain /\ history'.everReleased = history.everReleased
  BY <1>0, <1>3 DEF IInv, TypeOK, History, Ticks
<1>5. /\ Sound(device) /\ DrainInv /\ ButtonInv
  BY <1>0 DEF IInv, RunInv
<1>6. DrainInv'
  <2>1. CASE device.lifecycle = "Restarting"
    <3>1. device.pending /\ device.drained + gap = history.restarting
      BY <1>5, <2>1 DEF DrainInv
    <3>2. device.drained \in 0 .. Drain
      BY <1>5 DEF Sound, DeviceState
    <3>3. drain = history.restarting + 1
      BY <1>0, <1>1, <1>2, <1>d, <2>1, <3>1, <3>2 DEF Aged
    <3>4. device.drained + (gap + 1) = drain
      BY <1>1, <3>1, <3>2, <3>3
    <3> QED BY <1>0, <1>4, <2>1, <3>1, <3>4 DEF DrainInv
  <2>2. CASE device.lifecycle # "Restarting"
    BY <1>0, <1>4, <1>d, <2>2 DEF DrainInv
  <2> QED BY <2>1, <2>2
<1>7. Held(b, gap + 1, down, up)
  <2> SUFFICES ASSUME b.qualified, b.stable, ~b.suppress
               PROVE  /\ Aged(b.sincePress, gap + 1, FactoryResetHold) <= down
                      /\ b.raw => up <= gap + 1
                      /\ ~b.raw => /\ b.sinceChange < Debounce
                                   /\ up <= b.sinceChange + (gap + 1) + MaxGap
    BY DEF Held
  <2>0. b.sincePress \in 0 .. FactoryResetHold /\ b.sinceChange \in 0 .. Debounce
        /\ b.raw \in BOOLEAN
    BY <1>5 DEF Sound, DeviceState, Button
  <2>1. /\ Aged(b.sincePress, gap, FactoryResetHold) <= history.down
        /\ b.raw => history.released <= gap
        /\ ~b.raw => /\ b.sinceChange < Debounce
                     /\ history.released <= b.sinceChange + gap + MaxGap
    BY <1>5 DEF ButtonInv, Held
  <2>2. up # NoticedRelease
    BY <1>0, <1>1, <1>2, <1>3, <2>0, <2>1
  <2>3. Aged(b.sincePress, gap + 1, FactoryResetHold) <= down
    BY <1>1, <1>2, <1>e, <2>0, <2>1, <2>2 DEF Aged
  <2> QED BY <1>1, <1>2, <1>3, <2>0, <2>1, <2>3
<1>8. ButtonInv'
  BY <1>0, <1>4, <1>5, <1>7 DEF ButtonInv
<1>9. gap' \in 0 .. MaxGap
  BY <1>0, <1>1
<1>10. TypeOK' /\ RunInv'
  BY <1>0, <1>4, <1>5, <1>6, <1>8, <1>9 DEF IInv, TypeOK, RunInv
<1> QED BY <1>0, <1>3, <1>4, <1>10 DEF IInv

LEMMA MoveButtonKeeps == ASSUME IInv, MoveButton PROVE IInv'
<1>0. /\ phase # "Halted" /\ level' = ~level
      /\ history' = [history EXCEPT !.everReleased = @ \/ level, !.released = 0]
      /\ UNCHANGED <<phase, device, stored, gap>>
  BY DEF MoveButton
<1>1. /\ gap \in 0 .. MaxGap /\ MaxGap \in Nat /\ level \in BOOLEAN
      /\ NoticedRelease \in Nat
  BY DeviceAssumption, ButtonAssumption DEF IInv, TypeOK, NoticedRelease
<1>2. 0 \in Ticks(NoticedRelease) /\ (history.everReleased \/ level) \in BOOLEAN
  BY <1>1 DEF Ticks
<1>3. /\ history' \in History /\ history'.released = 0 /\ history'.down = history.down
      /\ history'.restarting = history.restarting
      /\ history'.everReleased = (history.everReleased \/ level)
  BY <1>0, <1>2 DEF IInv, TypeOK, History
<1>4. TypeOK'
  BY <1>0, <1>3 DEF IInv, TypeOK
<1>5. ASSUME phase = "Running" PROVE Sound(device') /\ DrainInv' /\ ButtonInv'
  <2>1. Sound(device) /\ DrainInv /\ ButtonInv
    BY <1>5 DEF IInv, RunInv
  <2>2. DrainInv' /\ Sound(device')
    BY <1>0, <1>3, <2>1 DEF DrainInv
  <2>3. device.button.sinceChange \in Nat
    BY <2>1, ButtonAssumption DEF Sound, DeviceState, Button
  <2>4. Held(device.button, gap, history.down, 0)
    BY <1>1, <2>1, <2>3 DEF ButtonInv, Held
  <2>5. history.everReleased \/ level
    BY <2>1 DEF ButtonInv
  <2> QED BY <1>0, <1>3, <2>1, <2>2, <2>4, <2>5 DEF ButtonInv
<1> QED BY <1>0, <1>3, <1>4, <1>5 DEF IInv, RunInv

LEMMA PowerCycleKeeps == ASSUME IInv, PowerCycle PROVE IInv' /\ device'.service = 0
<1>0. /\ phase' = "Off" /\ gap' = 0 /\ device' = FirstState /\ history' = FreshHistory(level)
      /\ UNCHANGED <<stored, level>>
  BY DEF PowerCycle
<1>1. /\ device' \in DeviceState /\ device'.lifecycle = "Booting" /\ device'.service = 0
  BY <1>0, FirstStateEffect
<1>2. history' \in History /\ (level' => history'.released = 0)
  BY <1>0, FreshHistoryEffect DEF IInv, TypeOK
<1>3. gap' \in 0 .. MaxGap
  BY <1>0, DeviceAssumption
<1> QED BY <1>0, <1>1, <1>2, <1>3 DEF IInv, TypeOK, RunInv, AcceptsOrdinaryCommands

\* What update does to a device whose loop runs.
LEMMA UpdateEffect ==
    ASSUME IInv, phase = "Running", NEW a \in Activities, NEW outcome \in ResetOutcome
    PROVE  LET e == ServedLate(ServedButton(ServedEarly(a), outcome), a)
               p == Poll(ButtonAfter(device.button, gap), level)
           IN  /\ Sound(e) /\ DrainKept(Elapse(device), e) /\ e.button = p.button
               /\ e.service > 0 =>
                    \/ e.service = device.service - gap
                    \/ p.event = "CommissioningRequested"
               /\ e.active.transport # device.active.transport =>
                    e.lifecycle = "Restarting" \/ device.service > 0 \/ e.service > 0
<1> DEFINE l == Elapse(device)
           c == ServedEarly(a)
           d == ServedButton(c, outcome)
           e == ServedLate(d, a)
           p == Poll(ButtonAfter(device.button, gap), level)
<1>0. Sound(device) /\ gap \in Nat /\ level \in BOOLEAN
  BY DeviceAssumption DEF IInv, TypeOK, RunInv
<1>1. /\ Sound(c) /\ DrainKept(l, c) /\ c.button = ButtonAfter(device.button, gap)
      /\ c.service > 0 => c.service = device.service - gap
      /\ c.active.transport # device.active.transport =>
           c.lifecycle = "Restarting" \/ device.service > 0
  BY <1>0, ServedEarlyEffect
<1> HIDE DEF c, l
<1>2. /\ Sound(d) /\ DrainKept(c, d) /\ d.button = p.button
      /\ d.service > 0 => d.service = c.service \/ p.event = "CommissioningRequested"
      /\ d.active.transport # c.active.transport =>
           d.lifecycle = "Restarting" \/ c.service > 0
  BY <1>0, <1>1, ServedButtonEffect
<1> HIDE DEF d, p
<1>3. /\ Sound(e) /\ DrainKept(d, e) /\ e.button = d.button
      /\ e.service > 0 => e.service = d.service
      /\ InServiceMode(d, e)
  BY <1>2, ServedLateEffect
<1> HIDE DEF e
<1>4. DrainKept(l, d)
  BY <1>1, <1>2, DrainTransitive
<1>5. DrainKept(l, e)
  BY <1>3, <1>4, DrainTransitive
<1>6. /\ device.service \in Nat /\ c.service \in Nat /\ d.service \in Nat /\ e.service \in Nat
  BY <1>0, <1>1, <1>2, <1>3, SessionAssumption DEF Sound, DeviceState
<1>7. c.service > 0 => device.service > 0
  BY <1>0, <1>1, <1>6
<1>8. e.service > 0 =>
        e.service = device.service - gap \/ p.event = "CommissioningRequested"
  BY <1>1, <1>2, <1>3
<1>9. e.active.transport # device.active.transport =>
        e.lifecycle = "Restarting" \/ device.service > 0 \/ e.service > 0
  <2>1. c.lifecycle = "Restarting" => e.lifecycle = "Restarting"
    BY <1>2, <1>3 DEF DrainKept
  <2>2. d.lifecycle = "Restarting" => e.lifecycle = "Restarting"
    BY <1>3 DEF DrainKept
  <2> QED BY <1>1, <1>2, <1>3, <1>7, <2>1, <2>2 DEF InServiceMode
<1> QED BY <1>2, <1>3, <1>5, <1>8, <1>9 DEF c, d, e, l, p

\* What the next states of update are: a device whose loop goes on, one that halts with
\* a lifecycle that accepts no commands, or one that is switched off for its restart.
LEMMA UpdateCases ==
    ASSUME IInv, Update
    PROVE  \E a \in Activities, outcome \in ResetOutcome :
             LET e == ServedLate(ServedButton(ServedEarly(a), outcome), a)
             IN  /\ Sound(e)
                 /\ \/ phase' = "Off" /\ device' = FirstState /\ history' = FreshHistory(level)
                    \/ /\ phase' = "Halted" /\ history' = FreshHistory(level)
                       /\ device' = StartDrain(WatchdogFailure(e))
                    \/ /\ phase' = "Running" /\ history' = history
                       /\ device' = StartDrain(e) /\ ~DrainOver(device')
                 /\ stored' = stored \/ stored' = e.active
<1>1. PICK a \in Activities, fed \in WatchdogAnswers,
           outcome \in IF ButtonEvent = "FactoryResetRequested" THEN ResetOutcome
                       ELSE {"Erased"} :
        \E early \in {ServedEarly(a)} :
           \E pressed \in {ServedButton(early, outcome)} :
           \E last \in {ServedLast(ServedLate(pressed, a), fed)} :
             /\ device' = IF DrainOver(last) THEN FirstState ELSE last
             /\ phase' = IF DrainOver(last) THEN "Off"
                         ELSE IF fed THEN "Running" ELSE "Halted"
             /\ stored' = IF last.active = device.active THEN stored ELSE last.active
             /\ history' = IF DrainOver(last) \/ ~fed THEN FreshHistory(level) ELSE history
  BY DEF Update
<1>2. outcome \in ResetOutcome
  BY DEF ResetOutcome
<1> DEFINE e == ServedLate(ServedButton(ServedEarly(a), outcome), a)
           last == ServedLast(e, fed)
<1>3. /\ device' = IF DrainOver(last) THEN FirstState ELSE last
      /\ phase' = IF DrainOver(last) THEN "Off" ELSE IF fed THEN "Running" ELSE "Halted"
      /\ stored' = IF last.active = device.active THEN stored ELSE last.active
      /\ history' = IF DrainOver(last) \/ ~fed THEN FreshHistory(level) ELSE history
  BY <1>1
<1>4. Sound(e)
  BY <1>2, UpdateEffect DEF Update
<1>5. last = StartDrain(IF fed THEN e ELSE WatchdogFailure(e))
  BY DEF ServedLast
<1> HIDE DEF e, last
<1>6. last.active = e.active
  <2>1. e \in DeviceState /\ level \in BOOLEAN
    BY <1>4 DEF Sound, IInv, TypeOK
  <2>2. WatchdogFailure(e) \in DeviceState /\ WatchdogFailure(e).active = e.active
    BY <2>1, WatchdogFailureEffect
  <2> QED BY <1>5, <2>1, <2>2, StartDrainEffect
<1>7. \/ phase' = "Off" /\ device' = FirstState /\ history' = FreshHistory(level)
      \/ /\ phase' = "Halted" /\ history' = FreshHistory(level)
         /\ device' = StartDrain(WatchdogFailure(e))
      \/ /\ phase' = "Running" /\ history' = history
         /\ device' = StartDrain(e) /\ ~DrainOver(device')
  <2>1. CASE DrainOver(last)
    BY <1>3, <2>1
  <2>2. CASE ~DrainOver(last) /\ fed
    BY <1>3, <1>5, <2>2
  <2>3. CASE ~DrainOver(last) /\ ~fed
    BY <1>3, <1>5, <2>3
  <2> QED BY <2>1, <2>2, <2>3
<1>8. stored' = stored \/ stored' = e.active
  BY <1>3, <1>6
<1> QED BY <1>2, <1>4, <1>7, <1>8 DEF e

LEMMA UpdateKeeps == ASSUME IInv, Update PROVE IInv'
<1>0. /\ phase = "Running" /\ gap > 0 /\ gap' = 0 /\ level' = level /\ level \in BOOLEAN
      /\ gap \in 0 .. MaxGap /\ stored \in Configuration /\ history \in History
  BY DEF Update, IInv, TypeOK
<1>1. PICK a \in Activities, outcome \in ResetOutcome :
        LET e == ServedLate(ServedButton(ServedEarly(a), outcome), a)
        IN  /\ Sound(e)
            /\ \/ phase' = "Off" /\ device' = FirstState /\ history' = FreshHistory(level)
               \/ /\ phase' = "Halted" /\ history' = FreshHistory(level)
                  /\ device' = StartDrain(WatchdogFailure(e))
               \/ /\ phase' = "Running" /\ history' = history
                  /\ device' = StartDrain(e) /\ ~DrainOver(device')
            /\ stored' = stored \/ stored' = e.active
  BY UpdateCases
<1> DEFINE e == ServedLate(ServedButton(ServedEarly(a), outcome), a)
           l == Elapse(device)
           p == Poll(ButtonAfter(device.button, gap), level)
<1>2. Sound(e) /\ DrainKept(l, e) /\ e.button = p.button
  BY <1>0, UpdateEffect
<1> HIDE DEF e, l, p
<1>3. /\ \/ phase' = "Off" /\ device' = FirstState /\ history' = FreshHistory(level)
         \/ /\ phase' = "Halted" /\ history' = FreshHistory(level)
            /\ device' = StartDrain(WatchdogFailure(e))
         \/ /\ phase' = "Running" /\ history' = history
            /\ device' = StartDrain(e) /\ ~DrainOver(device')
      /\ stored' = stored \/ stored' = e.active
  BY <1>1 DEF e
<1>g. gap' \in 0 .. MaxGap
  BY <1>0, DeviceAssumption
<1>a. e.active \in Configuration
  BY <1>2 DEF Sound, DeviceState
<1>4. stored' \in Configuration /\ gap' \in 0 .. MaxGap /\ level' \in BOOLEAN
  BY <1>0, <1>3, <1>g, <1>a
<1>5. FreshHistory(level) \in History /\ (level => FreshHistory(level).released = 0)
  BY <1>0, FreshHistoryEffect
<1>6. CASE phase' = "Off"
  <2>1. device' \in DeviceState /\ ~AcceptsOrdinaryCommands(device'.lifecycle)
    BY <1>3, <1>6, FirstStateEffect DEF AcceptsOrdinaryCommands
  <2>2. history' = FreshHistory(level)
    BY <1>3, <1>6
  <2> QED BY <1>0, <1>4, <1>5, <1>6, <2>1, <2>2 DEF IInv, TypeOK, RunInv
<1>7. CASE phase' = "Halted"
  <2>1. device' = StartDrain(WatchdogFailure(e)) /\ history' = FreshHistory(level)
    BY <1>3, <1>7
  <2>2. /\ WatchdogFailure(e) \in DeviceState
        /\ ~AcceptsOrdinaryCommands(WatchdogFailure(e).lifecycle)
    BY <1>0, <1>2, WatchdogFailureEffect DEF Sound
  <2>3. device' \in DeviceState /\ ~AcceptsOrdinaryCommands(device'.lifecycle)
    BY <2>1, <2>2, StartDrainEffect
  <2> QED BY <1>0, <1>4, <1>5, <1>7, <2>1, <2>3 DEF IInv, TypeOK, RunInv
<1>8. CASE phase' = "Running"
  <2>1. device' = StartDrain(e) /\ ~DrainOver(device') /\ history' = history
    BY <1>3, <1>8
  <2>2. /\ device' \in DeviceState
        /\ device'.lifecycle = e.lifecycle /\ device'.button = e.button
        /\ device'.indicator = e.indicator /\ device'.service = e.service
        /\ device'.web = e.web
        /\ e.lifecycle = "Restarting" =>
             device'.pending /\ device'.drained = IF e.pending THEN e.drained ELSE 0
        /\ e.lifecycle # "Restarting" => device' = e
    BY <1>2, <2>1, StartDrainEffect DEF Sound
  <2>3. Sound(device')
    BY <1>2, <2>2 DEF Sound, Shown
  <2>4. Sound(device) /\ DrainInv /\ ButtonInv
    BY <1>0 DEF IInv, RunInv
  <2>5. DrainInv'
    <3>1. /\ l.lifecycle = device.lifecycle /\ l.pending = device.pending
          /\ device.pending => l.drained = Aged(device.drained, gap, Drain)
      BY <1>0, <2>4, ElapseEffect, DeviceAssumption DEF l
    <3>2. device.drained \in 0 .. Drain /\ device'.drained \in 0 .. Drain
      BY <2>2, <2>4 DEF Sound, DeviceState
    <3>3. CASE device.lifecycle = "Restarting"
      <4>1. device.pending /\ device.drained + gap = history.restarting
        BY <2>4, <3>3 DEF DrainInv
      <4>2. e.lifecycle = "Restarting" /\ e.pending = l.pending /\ e.drained = l.drained
        BY <1>2, <3>1, <3>3 DEF DrainKept
      <4>3. device'.pending /\ device'.drained = Aged(device.drained, gap, Drain)
        BY <2>2, <3>1, <4>1, <4>2
      <4>4. device'.drained # Drain
        BY <2>1, <4>3 DEF DrainOver
      <4>5. device'.drained = device.drained + gap
        BY <1>0, <3>2, <4>3, <4>4, DeviceAssumption DEF Aged
      <4>6. device'.drained + gap' = history'.restarting
        BY <1>0, <2>1, <3>2, <4>1, <4>5, DeviceAssumption
      <4> QED BY <2>2, <4>2, <4>3, <4>6 DEF DrainInv
    <3>4. CASE device.lifecycle # "Restarting"
      <4>1. history'.restarting = 0
        BY <2>1, <2>4, <3>4 DEF DrainInv
      <4>2. e.lifecycle = "Restarting" => device'.pending /\ device'.drained = 0
        BY <1>2, <2>2, <3>1, <3>4 DEF DrainKept
      <4> QED BY <1>0, <2>2, <4>1, <4>2 DEF DrainInv
    <3> QED BY <3>3, <3>4
  <2>6. ButtonInv'
    <3>1. /\ device.button \in Button /\ gap \in Nat /\ gap <= MaxGap
          /\ history.down \in Nat /\ history.released \in Nat
          /\ level => history.released = 0
      <4>1. device.button \in Button /\ gap \in Nat /\ gap <= MaxGap
        BY <1>0, <2>4, DeviceAssumption DEF Sound, DeviceState
      <4>2. NoticedRelease \in Nat /\ FactoryResetHold \in Nat
        BY DeviceAssumption, ButtonAssumption DEF NoticedRelease
      <4>3. history.down \in Nat /\ history.released \in Nat
        BY <1>0, <4>2 DEF History, Ticks
      <4> QED BY <4>1, <4>3 DEF IInv
    <3>2. Held(p.button, 0, history.down, history.released) /\ ArmedInv(p.button)
      BY <1>0, <2>4, <3>1, PollKeeps DEF ButtonInv, p
    <3>3. ~history.everReleased => level /\ DownSinceBoot(p.button)
      <4> SUFFICES ASSUME ~history.everReleased PROVE level /\ DownSinceBoot(p.button)
        OBVIOUS
      <4>1. level = TRUE /\ DownSinceBoot(device.button)
        BY <1>0, <2>4 DEF ButtonInv
      <4>2. p = Poll(ButtonAfter(device.button, gap), TRUE)
        BY <4>1 DEF p
      <4> QED BY <3>1, <4>1, <4>2, PollIgnoresBootHold
    <3> QED BY <1>0, <1>2, <2>1, <2>2, <3>2, <3>3 DEF ButtonInv
  <2>7. level' => history'.released = 0
    BY <1>0, <2>1 DEF IInv
  <2> QED BY <1>0, <1>4, <1>8, <2>1, <2>2, <2>3, <2>5, <2>6, <2>7 DEF IInv, TypeOK, RunInv
<1> QED BY <1>3, <1>6, <1>7, <1>8

LEMMA StepKeepsIInv == IInv /\ [Next]_vars => IInv'
<1> SUFFICES ASSUME IInv, [Next]_vars PROVE IInv'
  OBVIOUS
<1>1. CASE UNCHANGED vars
  BY <1>1 DEF vars, IInv, TypeOK, RunInv, DrainInv, ButtonInv
<1> QED BY <1>1, BootKeeps, UpdateKeeps, TickKeeps, MoveButtonKeeps, PowerCycleKeeps DEF Next

----------------------------------------------------------------------------
(* Theorems. *)

\* The inductive invariant holds in every state: the lifecycle, the drain of a restart,
\* the press of the button and service mode go together after every call of update.
THEOREM Invariance == Spec => []IInv
BY InitIInv, StepKeepsIInv, PTL DEF Spec

\* Every variable of Application, the button and the indicator holds a value of its type.
THEOREM TypeCorrect == Spec => []TypeOK
<1>1. IInv => TypeOK
  BY DEF IInv
<1> QED BY <1>1, Invariance, PTL

\* A device whose loop stopped, at boot or by a watchdog failure, accepts no ordinary
\* commands, and one whose loop runs is operational, degraded or restarting.
THEOREM LifecycleIsHonest == Spec => []LifecycleTellsLoop
<1>1. IInv => LifecycleTellsLoop
  BY DEF IInv, RunInv, Sound, LoopState, LifecycleTellsLoop
<1> QED BY <1>1, Invariance, PTL

\* A restart, whoever asked for it and however often, drains exactly as long as
\* controlledRestartDrainMs says.
THEOREM DrainIsExact == Spec => []DrainExact
<1>1. IInv => DrainExact
  BY DEF IInv, RunInv, DrainInv, DrainExact
<1> QED BY <1>1, Invariance, PTL

\* Service mode is shown for as long as it is open.
THEOREM ServiceModeShown == Spec => []CommissioningShown
<1>1. IInv => CommissioningShown
  BY DEF IInv, RunInv, Sound, Shown, CommissioningShown
<1> QED BY <1>1, Invariance, PTL

\* What the next poll of the button reports, while the loop runs.
LEMMA ButtonEventTells ==
    ASSUME IInv, phase = "Running"
    PROVE  /\ ButtonEvent = "FactoryResetRequested" => history.down >= FactoryResetHold
           /\ ButtonEvent = "CommissioningRequested" => history.down >= CommissioningHold
           /\ ButtonEvent # "None" => history.everReleased
<1>1. /\ device.button \in Button /\ gap \in Nat /\ gap <= MaxGap /\ level \in BOOLEAN
      /\ level => history.released = 0
  BY DeviceAssumption DEF IInv, TypeOK, DeviceState
<1>2. history.down \in Nat /\ history.released \in Nat
  <2>1. NoticedRelease \in Nat /\ FactoryResetHold \in Nat
    BY DeviceAssumption, ButtonAssumption DEF NoticedRelease
  <2> QED BY <2>1 DEF IInv, TypeOK, History, Ticks
<1>3. ButtonInv
  BY DEF IInv, RunInv
<1>4. /\ ButtonEvent = "FactoryResetRequested" => history.down >= FactoryResetHold
      /\ ButtonEvent = "CommissioningRequested" => history.down >= CommissioningHold
  BY <1>1, <1>2, <1>3, PollKeeps DEF ButtonInv, ButtonEvent
<1>5. ASSUME ~history.everReleased PROVE ButtonEvent = "None"
  <2>1. level = TRUE /\ DownSinceBoot(device.button)
    BY <1>1, <1>3, <1>5 DEF ButtonInv
  <2>2. ButtonEvent = Poll(ButtonAfter(device.button, gap), TRUE).event
    BY <2>1 DEF ButtonEvent
  <2> QED BY <1>1, <2>1, <2>2, PollIgnoresBootHold
<1> QED BY <1>4, <1>5

\* Nothing is erased by the button unless it was held for factoryResetHoldDurationMs,
\* whatever the polls in between saw of it.
THEOREM FactoryResetIsHeldFor == Spec => []FactoryResetNeedsHold
<1>1. IInv => FactoryResetNeedsHold
  BY ButtonEventTells DEF FactoryResetNeedsHold, NextEvent
<1> QED BY <1>1, Invariance, PTL

\* A button that is down when the device boots causes nothing before it is released.
THEOREM BootHoldIsIgnored == Spec => []BootHoldIgnored
<1>1. IInv => BootHoldIgnored
  BY ButtonEventTells DEF BootHoldIgnored, NextEvent
<1> QED BY <1>1, Invariance, PTL

\* The steps other than update leave the device alone or start it again.
LEMMA OtherSteps ==
    ASSUME IInv, [Next]_vars, ~Update
    PROVE  \/ UNCHANGED device /\ (gap' = gap \/ gap' = gap + 1)
           \/ device'.service = 0 /\ ~(phase = "Running" /\ phase' = "Running")
<1>1. CASE Boot
  BY <1>1, BootKeeps DEF Boot
<1>2. CASE PowerCycle
  BY <1>2, PowerCycleKeeps DEF PowerCycle
<1>3. CASE Tick \/ MoveButton \/ UNCHANGED vars
  BY <1>3 DEF Tick, MoveButton, vars
<1> QED BY <1>1, <1>2, <1>3 DEF Next

\* What update makes of service mode and of the transports.
LEMMA UpdateShows ==
    ASSUME IInv, Update
    PROVE  /\ device'.service > 0 =>
                \/ device'.service = device.service - gap
                \/ ButtonEvent = "CommissioningRequested"
           /\ phase' = "Running" /\ device'.active.transport # device.active.transport =>
                device'.lifecycle = "Restarting" \/ device.service > 0 \/ device'.service > 0
<1>1. PICK a \in Activities, outcome \in ResetOutcome :
        LET e == ServedLate(ServedButton(ServedEarly(a), outcome), a)
        IN  /\ Sound(e)
            /\ \/ phase' = "Off" /\ device' = FirstState /\ history' = FreshHistory(level)
               \/ /\ phase' = "Halted" /\ history' = FreshHistory(level)
                  /\ device' = StartDrain(WatchdogFailure(e))
               \/ /\ phase' = "Running" /\ history' = history
                  /\ device' = StartDrain(e) /\ ~DrainOver(device')
            /\ stored' = stored \/ stored' = e.active
  BY UpdateCases
<1> DEFINE e == ServedLate(ServedButton(ServedEarly(a), outcome), a)
<1>2. /\ e.service > 0 =>
           e.service = device.service - gap \/ ButtonEvent = "CommissioningRequested"
      /\ e.active.transport # device.active.transport =>
           e.lifecycle = "Restarting" \/ device.service > 0 \/ e.service > 0
  BY UpdateEffect DEF Update, ButtonEvent
<1>3. Sound(e) /\ \/ phase' = "Off" /\ device' = FirstState
                  \/ phase' = "Halted" /\ device' = StartDrain(WatchdogFailure(e))
                  \/ phase' = "Running" /\ device' = StartDrain(e)
  BY <1>1
<1> HIDE DEF e
<1>4. CASE phase' = "Off" /\ device' = FirstState
  BY <1>4, FirstStateEffect
<1>5. CASE phase' = "Halted" /\ device' = StartDrain(WatchdogFailure(e))
  <2>1. WatchdogFailure(e) \in DeviceState /\ WatchdogFailure(e).service = e.service
    BY <1>3, WatchdogFailureEffect DEF Sound, IInv, TypeOK
  <2>2. device'.service = e.service
    BY <1>5, <2>1, StartDrainEffect
  <2> QED BY <1>2, <1>5, <2>2
<1>6. CASE phase' = "Running" /\ device' = StartDrain(e)
  <2>1. /\ device'.service = e.service /\ device'.lifecycle = e.lifecycle
        /\ device'.active = e.active
    BY <1>3, <1>6, StartDrainEffect DEF Sound
  <2> QED BY <1>2, <2>1
<1> QED BY <1>3, <1>4, <1>5, <1>6

\* Service mode is opened and prolonged by holding the button at the device, and by
\* nothing that comes from the web, a bus or the command line; else its time runs out.
THEOREM ServiceModeNeedsPresence == Spec => ServiceNeedsPresence
<1> DEFINE Present ==
             device'.service > 0 =>
               \/ device'.service = device.service - (IF gap' = 0 THEN gap ELSE 0)
               \/ /\ NextEvent = "CommissioningRequested"
                  /\ history.down >= CommissioningHold
<1>1. ASSUME IInv, [Next]_vars PROVE Present
  <2>0. gap \in Nat /\ device.service \in Nat
    BY <1>1, DeviceAssumption, SessionAssumption DEF IInv, TypeOK, DeviceState
  <2>1. CASE Update
    <3>1. phase = "Running" /\ gap > 0 /\ gap' = 0
      BY <2>1 DEF Update
    <3> QED BY <1>1, <2>1, <3>1, UpdateShows, ButtonEventTells DEF NextEvent
  <2>2. CASE ~Update
    BY <1>1, <2>0, <2>2, OtherSteps
  <2> QED BY <2>1, <2>2
<1>2. IInv /\ [Next]_vars => [Present]_vars
  BY <1>1
<1> QED BY <1>2, Invariance, PTL DEF Spec, ServiceNeedsPresence

\* Transports that the web or Modbus changed are followed by a restart at once; only the
\* command line, in service mode, leaves it to the operator.
THEOREM TransportChangeIsFollowed == Spec => TransportChangeRestarts
<1> DEFINE Followed ==
             phase = "Running" /\ phase' = "Running"
             /\ device'.active.transport # device.active.transport =>
               device'.lifecycle = "Restarting" \/ device.service > 0 \/ device'.service > 0
<1>1. ASSUME IInv, [Next]_vars PROVE Followed
  BY <1>1, UpdateShows, OtherSteps
<1>2. IInv /\ [Next]_vars => [Followed]_vars
  BY <1>1
<1> QED BY <1>2, Invariance, PTL DEF Spec, TransportChangeRestarts
=============================================================================
