------------------------------- MODULE Device -------------------------------
(***************************************************************************)
(* Application: the boot sequence and the loop that serves, in a fixed     *)
(* order, service mode, a web request, the Modbus poll, the button, the    *)
(* command line, the indicator, the watchdog and the restart drain.  One   *)
(* call of initialize or of update is one step; between two calls time     *)
(* passes and the button moves.  Configuration is abstracted to the serial *)
(* settings, and to whether the web security is provisioned.               *)
(***************************************************************************)
EXTENDS LifecycleSupervisor, StatusIndicator, ButtonAdapter

CONSTANTS
    MaxGap,       \* ticks between two calls of update, at most
    Drain,        \* controlledRestartDrainMs, in ticks
    Transports,   \* the serial and KNX settings, and web.enabled
    SafeTransport, \* those of makeSafeConfiguration
    Production,   \* deploymentProfile = DeploymentProfile::Production
    Manufactured  \* manufacturingBatch # 0

ASSUME DeviceAssumption ==
    /\ MaxGap \in Nat \ {0}
    /\ Drain \in Nat \ {0}
    /\ SafeTransport \in Transports
    /\ Production \in BOOLEAN
    /\ Manufactured \in BOOLEAN

VARIABLES
    phase,    \* "Off", "Running" (initialized_) or "Halted"
    device,   \* what the loop owns
    stored,   \* the configuration in flash
    level,    \* whether the button is down
    gap,      \* ticks since the last call of update
    history   \* what happened to the button and the restart, for the properties

vars == <<phase, device, stored, level, gap, history>>

Configuration == [transport : Transports, provisioned : BOOLEAN]

DeviceState ==
    [lifecycle : LifecycleState,
     service : 0 .. SessionDuration,
     indicator : Indicator,
     button : Button,
     active : Configuration,          \* configurationService_.active()
     modbus : BOOLEAN,                \* modbusAvailable_
     web : BOOLEAN,                   \* the web server runs
     pending : BOOLEAN,               \* restartPending_
     drained : 0 .. Drain]            \* now - restartRequestedAtMs_

FirstState ==
    [lifecycle |-> "Booting", service |-> 0, indicator |-> FreshIndicator,
     button |-> ButtonInitialized(FALSE),
     active |-> [transport |-> SafeTransport, provisioned |-> FALSE],
     modbus |-> FALSE, web |-> FALSE,
     pending |-> FALSE, drained |-> 0]

Transition(d, target) == [d EXCEPT !.lifecycle = TransitionTo(@, target)]

----------------------------------------------------------------------------
(* Boot. *)

\* What of the hardware and the stores fails in this boot.  The fatal ones end
\* initialize, in this order; the others leave the device degraded.
FatalFailures ==
    {"Board", "RelayOutput", "Indicator", "RelayService", "Button", "RestorePlan"}

Degradations == {"Configuration", "Persistence", "FileSystem", "Modbus", "Cli", "Knx"}

\* The state in which initialize returns when a fatal failure ends it.
BootAborted(failure) ==
    CASE failure \in {"Board", "Indicator"} -> FirstState
      [] failure = "RelayOutput" -> Transition(FirstState, "Fault")
      [] failure \in {"RelayService", "Button"} ->
            Transition(Transition(FirstState, "Configuring"), "Fault")
      [] failure = "RestorePlan" ->
            [Transition(Transition(FirstState, "Configuring"), "Fault") EXCEPT !.web = TRUE]

\* A record that does not load is replaced by the default configuration.
Loaded(degraded) ==
    IF degraded \cap {"Configuration", "Persistence"} = {} THEN stored
    ELSE [transport |-> SafeTransport, provisioned |-> FALSE]

\* The state in which the loop starts.
Booted(degraded) ==
    LET d == [Transition(FirstState, "Configuring") EXCEPT
                !.button = ButtonInitialized(level), !.active = Loaded(degraded),
                !.modbus = "Modbus" \notin degraded, !.web = TRUE]
    IN  IF degraded = {} THEN Transition(d, "Operational")
        ELSE [Transition(d, "Degraded") EXCEPT !.indicator = SetBusDegraded(@)]

\* Slip: the failure stops the loop without marking the device faulty.
WatchdogFailureUnmarked(d) == [d EXCEPT !.indicator = SetCriticalFault(@)]

\* handleWatchdogFailure, which also locks every relay out (RelayControl).  Nobody
\* looks at the button again before the next boot initializes it.
WatchdogFailure(d) ==
    LET marked == [d EXCEPT !.indicator = SetCriticalFault(@),
                            !.button = ButtonInitialized(level)]
    IN  IF d.lifecycle \in {"Fault", "Restarting"} THEN marked
        ELSE Transition(marked, "Fault")

----------------------------------------------------------------------------
(* What the web, the Modbus poll and the command line ask of the loop. *)

Locked(d) == Production /\ (d.active.provisioned \/ Manufactured)

MutatingCommandAllowed(d) ==
    ~Locked(d) /\ d.service > 0 /\ AcceptsOrdinaryCommands(d.lifecycle)

\* stage and commit of other serial settings, saved or not.
Saved(d, transport) == [d EXCEPT !.active.transport = transport]

\* Slip: the restart is not asked for.
SaveAndRunOn(d, transport) == Saved(d, transport)

\* The Web and the Modbus gateway: a committed change of a transport restarts.
SaveAndRestart(d, transport) ==
    IF transport = d.active.transport THEN Saved(d, transport)
    ELSE Transition(Saved(d, transport), "Restarting")

\* Slip: every request starts the drain again.
WebRestartAgain(d) == [Transition(d, "Restarting") EXCEPT !.pending = TRUE, !.drained = 0]

\* processWebRequest, Restart.
WebRestart(d) ==
    IF TransitionResult(d.lifecycle, "Restarting") # "Applied" THEN d
    ELSE [Transition(d, "Restarting") EXCEPT !.pending = TRUE, !.drained = 0]

\* Modbus and the command line override the indicator; mfg-test safe ends the override.
Maintained(d) == [d EXCEPT !.indicator = SetMaintenance(@)]
Unmaintained(d) == [d EXCEPT !.indicator = ClearMaintenance(@)]

BusFailed(d) ==
    LET marked == [d EXCEPT !.modbus = FALSE, !.indicator = SetBusDegraded(@)]
    IN  IF d.lifecycle = "Operational" THEN Transition(marked, "Degraded") ELSE marked

\* Slip: service mode is left with its indicator on.
LeaveServiceUnshown(d) == [d EXCEPT !.service = 0]

LeaveService(d) == [d EXCEPT !.service = 0, !.indicator = SetCommissioning(@, FALSE)]

Ask(by, op, transport) == [by |-> by, op |-> op, transport |-> transport]

\* One activity of the outside per update; a save that fails asks for nothing.
Activities ==
    {Ask("Web", "Save", t) : t \in Transports}
    \cup {Ask("Modbus", "Save", t) : t \in Transports}
    \cup {Ask("Cli", op, t) :
            op \in {"SetModbusConfig", "SetKnx", "LoadProvisioned", "LoadUnprovisioned"},
            t \in Transports}
    \cup {Ask("None", "None", SafeTransport), Ask("Web", "Restart", SafeTransport)}
    \cup {Ask("Modbus", op, SafeTransport) : op \in {"Maintain", "TransportError"}}
    \cup {Ask("Cli", op, SafeTransport) :
            op \in {"SetRgb", "Test", "Safe", "Reboot", "Provision", "EraseUser",
                    "ServiceExit"}}

ServeWeb(d, a) ==
    IF a.op = "Save" THEN SaveAndRestart(d, a.transport) ELSE WebRestart(d)

ServeModbus(d, a) ==
    IF ~d.modbus THEN d
    ELSE CASE a.op = "Save" -> SaveAndRestart(d, a.transport)
           [] a.op = "Maintain" -> Maintained(d)
           [] a.op = "TransportError" -> BusFailed(d)

----------------------------------------------------------------------------
(* The handlers of the command line.  Each refuses on its own. *)

HandleSetRgb(d) == IF MutatingCommandAllowed(d) THEN Maintained(d) ELSE d

HandleManufacturingTest(d, safe) ==
    IF ~MutatingCommandAllowed(d) THEN d
    ELSE IF safe THEN Unmaintained(d) ELSE Maintained(d)

HandleSetModbusConfig(d, transport) ==
    IF MutatingCommandAllowed(d) THEN Saved(d, transport) ELSE d

HandleSetKnx(d, transport) ==
    IF MutatingCommandAllowed(d) THEN Saved(d, transport) ELSE d

\* The files say everything, whether the web is provisioned included.
HandleLoadConfig(d, transport, provisioned) ==
    IF MutatingCommandAllowed(d)
    THEN [Saved(d, transport) EXCEPT !.active.provisioned = provisioned] ELSE d

HandleReboot(d) == IF MutatingCommandAllowed(d) THEN Transition(d, "Restarting") ELSE d

\* Once the administrator and the flag are saved.
HandleProvisionWeb(d) ==
    IF ~MutatingCommandAllowed(d) \/ d.active.provisioned THEN d
    ELSE LeaveService(Transition([d EXCEPT !.active.provisioned = TRUE], "Restarting"))

\* exit, and erase-user-configuration once the configuration is erased.
HandleService(d, erase) ==
    IF ~erase THEN (IF d.service > 0 THEN LeaveService(d) ELSE d)
    ELSE IF Authorize(d.service, "EraseUserConfiguration", Locked(d)) # "Applied"
            \/ ~AcceptsOrdinaryCommands(d.lifecycle)
         THEN d
         ELSE LeaveService(Transition(
                [d EXCEPT !.active = [transport |-> SafeTransport, provisioned |-> FALSE]],
                "Restarting"))

ServeCli(d, a) ==
    CASE a.op = "SetRgb" -> HandleSetRgb(d)
      [] a.op \in {"Test", "Safe"} -> HandleManufacturingTest(d, a.op = "Safe")
      [] a.op = "SetModbusConfig" -> HandleSetModbusConfig(d, a.transport)
      [] a.op = "SetKnx" -> HandleSetKnx(d, a.transport)
      [] a.op = "LoadProvisioned" -> HandleLoadConfig(d, a.transport, TRUE)
      [] a.op = "LoadUnprovisioned" -> HandleLoadConfig(d, a.transport, FALSE)
      [] a.op = "Reboot" -> HandleReboot(d)
      [] a.op = "Provision" -> HandleProvisionWeb(d)
      [] a.op \in {"EraseUser", "ServiceExit"} -> HandleService(d, a.op = "EraseUser")

----------------------------------------------------------------------------
(* The button. *)

\* performFactoryReset.  It fails on a relay that does not lock out, on the
\* users, or on the configuration; only the first leaves the web server running.
FactoryReset(d, outcome) ==
    LET left == [d EXCEPT !.service = 0]
        stopped == [left EXCEPT !.web = FALSE]
    IN  CASE outcome = "RelayFailure" ->
                [left EXCEPT !.indicator = SetCriticalFault(@)]
          [] outcome = "StoreFailure" -> [stopped EXCEPT !.indicator = NotifyCommand(@)]
          [] outcome = "Erased" ->
                [Transition(stopped, "Restarting") EXCEPT
                    !.active = [transport |-> SafeTransport, provisioned |-> FALSE],
                    !.indicator = NotifyCommand(@)]

OnButtonEvent(d, event, outcome) ==
    CASE event = "None" -> d
      [] event \in {"IdentifyRequested", "FactoryResetArmed"} ->
            [d EXCEPT !.indicator = NotifyCommand(@)]
      [] event = "CommissioningRequested" ->
            [d EXCEPT !.indicator = SetCommissioning(@, TRUE),
                      !.service = EnterFromPhysicalPresence]
      [] event = "FactoryResetRequested" -> FactoryReset(d, outcome)

----------------------------------------------------------------------------
(* One call of update, gap ticks after the last. *)

Elapse(d) ==
    [d EXCEPT !.button = ButtonAfter(@, gap), !.indicator = IndicatorAfter(@, gap),
              !.drained = IF d.pending THEN Aged(@, gap, Drain) ELSE @]

ExpireService(d) ==
    IF ServiceExpires(d.service, gap) THEN LeaveService(d)
    ELSE [d EXCEPT !.service = ServiceAfter(@, gap)]

\* A restart that anybody but the web asked for starts to drain here.
StartDrain(d) ==
    IF d.lifecycle = "Restarting" /\ ~d.pending
    THEN [d EXCEPT !.pending = TRUE, !.drained = 0] ELSE d

DrainOver(d) == d.pending /\ d.drained = Drain

\* The loop up to the Modbus poll.
ServedEarly(a) ==
    LET d == ExpireService(Elapse(device))
    IN  CASE a.by = "Web" -> ServeWeb(d, a)
          [] a.by = "Modbus" -> ServeModbus(d, a)
          [] OTHER -> d

\* The button.
ServedButton(d, outcome) ==
    LET polled == Poll(d.button, level)
    IN  OnButtonEvent([d EXCEPT !.button = polled.button], polled.event, outcome)

\* The command line and the indicator.
ServedLate(d, a) ==
    LET served == IF a.by = "Cli" THEN ServeCli(d, a) ELSE d
    IN  [served EXCEPT !.indicator = ShowMode(@)]

\* The watchdog and the start of the drain.
ServedLast(d, fed) == StartDrain(IF fed THEN d ELSE WatchdogFailure(d))

ButtonEvent == Poll(ButtonAfter(device.button, gap), level).event

----------------------------------------------------------------------------
(* History.  A release that two polls may both miss does not end a press. *)

Ticks(n) == 0 .. n
NoticedRelease == 2 * MaxGap + Debounce

History ==
    [released : Ticks(NoticedRelease),  \* ticks the button has been up, 0: it is down
     down : Ticks(FactoryResetHold),    \* ticks since a release that a poll must notice
     everReleased : BOOLEAN,            \* the button was up at some time since boot
     restarting : Ticks(Drain + MaxGap)]\* ticks since the lifecycle became Restarting

FreshHistory(pressed) ==
    [released |-> IF pressed THEN 0 ELSE NoticedRelease, down |-> 0,
     everReleased |-> ~pressed, restarting |-> 0]

HistoryTick ==
    LET up == IF level THEN 0 ELSE Aged(history.released, 1, NoticedRelease)
        down == IF up = NoticedRelease THEN 0 ELSE Aged(history.down, 1, FactoryResetHold)
    IN  [history EXCEPT
            !.released = up, !.down = down,
            !.restarting = IF device.lifecycle = "Restarting"
                           THEN Aged(@, 1, Drain + MaxGap) ELSE 0]

----------------------------------------------------------------------------
(* The steps. *)

Init ==
    /\ phase = "Off"
    /\ device = FirstState
    /\ stored \in [transport : Transports, provisioned : {FALSE}]
    /\ level \in BOOLEAN
    /\ gap = 0
    /\ history = FreshHistory(level)

Boot ==
    /\ phase = "Off"
    /\ \/ \E failure \in FatalFailures :
            phase' = "Halted" /\ device' = BootAborted(failure)
       \/ \E degraded \in SUBSET Degradations :
            phase' = "Running" /\ device' = Booted(degraded)
       \/ \E degraded \in SUBSET Degradations :   \* the watchdog does not register
            phase' = "Halted" /\ device' = WatchdogFailure(Booted(degraded))
    /\ gap' = 0
    /\ history' = FreshHistory(level)
    /\ UNCHANGED <<stored, level>>

ResetOutcome == {"RelayFailure", "StoreFailure", "Erased"}

\* Whether the watchdog of the task accepts its registration, or a feed.
WatchdogAnswers == BOOLEAN

Update ==
    /\ phase = "Running" /\ gap > 0
    /\ \E a \in Activities, fed \in WatchdogAnswers,
          outcome \in IF ButtonEvent = "FactoryResetRequested" THEN ResetOutcome
                      ELSE {"Erased"} :
        \E early \in {ServedEarly(a)} :
           \E pressed \in {ServedButton(early, outcome)} :
           \E last \in {ServedLast(ServedLate(pressed, a), fed)} :
             /\ device' = IF DrainOver(last) THEN FirstState ELSE last
             /\ phase' = IF DrainOver(last) THEN "Off"
                         ELSE IF fed THEN "Running" ELSE "Halted"
             /\ stored' = IF last.active = device.active THEN stored ELSE last.active
             /\ history' = IF DrainOver(last) \/ ~fed THEN FreshHistory(level) ELSE history
    /\ gap' = 0
    /\ UNCHANGED level

\* The rest of the application runs for a tick, at most MaxGap of them without an update.
Tick ==
    /\ phase = "Running" /\ gap < MaxGap
    /\ gap' = gap + 1
    /\ history' = HistoryTick
    /\ UNCHANGED <<phase, device, stored, level>>

\* The button of a halted device is not looked at until the next boot.
MoveButton ==
    /\ phase # "Halted"
    /\ level' = ~level
    /\ history' = [history EXCEPT !.everReleased = @ \/ level, !.released = 0]
    /\ UNCHANGED <<phase, device, stored, gap>>

\* The supply fails, or the operator switches the device off and on.
PowerCycle ==
    /\ phase # "Off"
    /\ phase' = "Off" /\ gap' = 0
    /\ device' = FirstState
    /\ history' = FreshHistory(level)
    /\ UNCHANGED <<stored, level>>

Next == Boot \/ Update \/ Tick \/ MoveButton \/ PowerCycle

Spec == Init /\ [][Next]_vars

----------------------------------------------------------------------------
(* Properties. *)

\* Every variable holds a value of its type.
TypeOK ==
    /\ phase \in {"Off", "Running", "Halted"}
    /\ device \in DeviceState
    /\ stored \in Configuration
    /\ level \in BOOLEAN
    /\ gap \in 0 .. MaxGap
    /\ history \in History

\* A device whose loop has stopped never claims to be operational: whatever stops
\* the loop, at boot or later, also takes the lifecycle out of the two states in
\* which ordinary commands are accepted, and a running loop is in no other state
\* than these two and Restarting.
LifecycleTellsLoop ==
    /\ AcceptsOrdinaryCommands(device.lifecycle) => phase = "Running"
    /\ phase = "Running" => device.lifecycle \in {"Operational", "Degraded", "Restarting"}

\* A requested restart drains exactly controlledRestartDrainMs, whoever asked for
\* it and however often: answers get out, a second request does not put it off, and
\* the device is not left restarting longer than the drain and one late update.
DrainExact ==
    phase = "Running" /\ device.lifecycle = "Restarting" =>
        device.pending /\ device.drained + gap = history.restarting

\* A committed change of the transports, which run on with the old settings, makes
\* the device restart, unless it comes from the command line, which needs service
\* mode and leaves the restart to its operator.
TransportChangeRestarts ==
    [][phase = "Running" /\ phase' = "Running"
       /\ device'.active.transport # device.active.transport =>
         device'.lifecycle = "Restarting" \/ device.service > 0 \/ device'.service > 0]_vars

\* The button event the next update will see.
NextEvent == IF phase = "Running" /\ gap > 0 THEN ButtonEvent ELSE "None"

\* Service mode is opened and prolonged by a commissioning hold alone; between two
\* holds its time runs out with the clock.
ServiceNeedsPresence ==
    [][device'.service > 0 =>
         \/ device'.service = device.service - (IF gap' = 0 THEN gap ELSE 0)
         \/ /\ NextEvent = "CommissioningRequested"
            /\ history.down >= CommissioningHold]_vars

\* Nothing is erased by the button unless it was down for the factory reset hold,
\* releases too short to notice apart.
FactoryResetNeedsHold ==
    NextEvent = "FactoryResetRequested" => history.down >= FactoryResetHold

\* A button that has been down since before the boot, as when it selects the
\* download mode of the chip, causes no event until it is released.
BootHoldIgnored == NextEvent # "None" => history.everReleased

\* The light shows service mode for as long as it is open, and shows it falsely
\* only after a factory reset, which leaves a fault or a stopped web server behind.
CommissioningShown ==
    phase = "Running" =>
        /\ device.service > 0 => device.indicator.commissioning
        /\ device.indicator.commissioning =>
             device.service > 0 \/ device.indicator.criticalFault \/ ~device.web

\* docs/architecture/system.md:488 ranks the critical fault above every other
\* pattern: a device that stopped with one shows it.
CriticalFaultShown ==
    phase = "Halted" /\ device.indicator.criticalFault =>
        device.indicator.shown = "CriticalFault"
============================================================================
