--------------------------- MODULE NetworkManager ---------------------------
(***************************************************************************)
(* NetworkManager with the WiFi profiles of the configuration: it tries    *)
(* the enabled profiles in turn, and opens the recovery access point when  *)
(* there is none.  The web interface, the command line and Improv change   *)
(* profiles and connect to one; load-config changes them under its feet.   *)
(* Whether the WiFi library is online is its own business.                 *)
(***************************************************************************)
EXTENDS Naturals

CONSTANTS
    ProfileCount,      \* wifiProfileCount
    AttemptTimeout,    \* profileAttemptTimeoutMs, in units of the least retry delay
    MaxRetryDelay,     \* maximumRetryDelayMs
    ApTimeout          \* recoveryAp.timeoutMs

ASSUME NetworkAssumption ==
    /\ ProfileCount \in Nat \ {0} /\ AttemptTimeout \in Nat \ {0}
    /\ MaxRetryDelay \in Nat \ {0} /\ ApTimeout \in Nat \ {0}

VARIABLE network

Profiles == 0 .. ProfileCount - 1

\* profiles are the enabled ones; ap is recoveryAp: not enabled, remainActiveWhileOffline
\* or without a timeout, or with one.
NetworkConfig ==
    [enabled : BOOLEAN, profiles : SUBSET Profiles, ap : {"Off", "Stays", "TimesOut"}]

\* Nothing has to be tried: it is online or disabled, or there is nothing to try.
Resting(n) == n.online \/ n.state = "Disabled" \/ ~n.config.enabled \/ n.config.profiles = {}

RetryBound == IF AttemptTimeout > MaxRetryDelay THEN AttemptTimeout ELSE MaxRetryDelay

Network ==
    [up : BOOLEAN,                     \* initialized_
     config : NetworkConfig,           \* of the active configuration
     state : {"Disabled", "ConnectingWifi", "OnlineWifi", "RecoveryAp"},
     online : BOOLEAN,                 \* infrastructureOnline
     apActive : BOOLEAN, apAge : 0 .. ApTimeout,
     begun : BOOLEAN,                  \* WiFi.begin has been called: it may come online
     next : Profiles,                  \* nextProfileIndex_
     age : 0 .. AttemptTimeout,        \* since attemptStartedAtMs_
     retry : BOOLEAN,                  \* retryScheduled_
     retryIn : 0 .. MaxRetryDelay,     \* until retryAtMs_
     retryDelay : 1 .. MaxRetryDelay,
     scan : {"Idle", "Scanning", "Complete", "Failed"},
     \* Not known to the code: the time in which no profile was tried though one should
     \* be, and for each profile the tries of others since it was its turn last.
     idle : 0 .. RetryBound + 1, passed : [Profiles -> 0 .. ProfileCount]]

----------------------------------------------------------------------------
(* Trying profiles. *)

\* A try of the rotation: configureProfile with WiFi.begin.
Tried(n, i) ==
    [n EXCEPT !.begun = TRUE, !.age = 0, !.state = "ConnectingWifi", !.idle = 0,
              !.passed = [j \in Profiles |->
                  IF j = i \/ j \notin n.config.profiles THEN 0
                  ELSE IF n.passed[j] < ProfileCount THEN n.passed[j] + 1 ELSE ProfileCount]]

\* startRecoveryAp; the access point may fail to open.
RecoveryApStarted(n) ==
    LET scheduled == [n EXCEPT !.retry = TRUE, !.retryIn = n.retryDelay]
    IN  CASE n.config.ap = "Off" -> {[scheduled EXCEPT !.state = "ConnectingWifi"]}
          [] n.config.ap # "Off" /\ n.apActive -> {[scheduled EXCEPT !.state = "RecoveryAp"]}
          [] OTHER -> {[scheduled EXCEPT !.state = "RecoveryAp", !.apActive = opened, !.apAge = 0] :
                          opened \in BOOLEAN}

\* The first enabled profile from the next one on.
Distance(n, i) == (i + ProfileCount - n.next) % ProfileCount
FirstInTurn(n) ==
    CHOOSE i \in n.config.profiles : \A j \in n.config.profiles : Distance(n, i) <= Distance(n, j)

\* Slip: the rotation does not go on.
BeginSameProfile(n) ==
    IF n.config.profiles = {} THEN RecoveryApStarted(n)
    ELSE {[Tried(n, FirstInTurn(n)) EXCEPT !.next = FirstInTurn(n)]}

BeginNextProfile(n) ==
    IF n.config.profiles = {} THEN RecoveryApStarted(n)
    ELSE {[Tried(n, FirstInTurn(n)) EXCEPT !.next = (FirstInTurn(n) + 1) % ProfileCount]}

RecoveryApStopped(n) == [n EXCEPT !.apActive = FALSE]

----------------------------------------------------------------------------
(* update. *)

Upto(n, limit) == IF n < limit THEN n ELSE limit

\* The time of an update is elapsed later than that of the one before.
Aged(n, elapsed) ==
    [n EXCEPT !.age = Upto(@ + elapsed, AttemptTimeout),
              !.apAge = Upto(@ + elapsed, ApTimeout),
              !.retryIn = IF @ >= elapsed THEN @ - elapsed ELSE 0,
              !.idle = IF Resting(n) THEN 0 ELSE Upto(@ + elapsed, RetryBound + 1)]

Doubled(delay) == IF delay < MaxRetryDelay \div 2 THEN delay * 2 ELSE MaxRetryDelay

\* The statements of update for a WiFi that is not online, in their order.
ConnectionLost(n) ==
    IF n.state = "OnlineWifi"
    THEN [n EXCEPT !.online = FALSE, !.state = "ConnectingWifi", !.retry = TRUE,
                   !.retryIn = n.retryDelay, !.retryDelay = Doubled(@)]
    ELSE [n EXCEPT !.online = FALSE]

AttemptTimedOut(n) ==
    IF n.state = "ConnectingWifi" /\ n.age >= AttemptTimeout THEN BeginNextProfile(n) ELSE {n}

RetryDue(n) ==
    IF n.state = "RecoveryAp" /\ n.retry /\ n.retryIn = 0
    THEN BeginNextProfile([n EXCEPT !.retry = FALSE]) ELSE {n}

ApTimedOut(n) ==
    IF n.apActive /\ n.config.ap = "TimesOut" /\ n.apAge >= ApTimeout
    THEN [RecoveryApStopped(n) EXCEPT !.state = "ConnectingWifi"] ELSE n

Offline(n) ==
    {ApTimedOut(m) : m \in UNION {RetryDue(l) : l \in AttemptTimedOut(ConnectionLost(n))}}

Online(n) ==
    IF n.state = "OnlineWifi" THEN [n EXCEPT !.online = TRUE, !.idle = 0]
    ELSE [RecoveryApStopped(n) EXCEPT !.online = TRUE, !.idle = 0, !.retry = FALSE, !.retryDelay = 1,
                                      !.state = "OnlineWifi"]

\* updateScan.
Scanned(n) ==
    IF n.scan # "Scanning" THEN {n}
    ELSE {[n EXCEPT !.scan = scan] : scan \in {"Scanning", "Complete", "Failed"}}

UpdateNetwork(elapsed) ==
    /\ network.up
    /\ \E n \in Scanned(Aged(network, elapsed)) :
         IF ~n.config.enabled
         THEN network' = [RecoveryApStopped(n) EXCEPT !.state = "Disabled"]
         ELSE \/ n.begun /\ network' = Online(n)
              \/ network' \in Offline(n)

----------------------------------------------------------------------------
(* Requests of the web interface, the command line and Improv. *)

\* A request of an operator starts the rotation anew.
Restarted(n) ==
    [n EXCEPT !.passed = [j \in Profiles |-> 0], !.idle = IF Resting(n) THEN 0 ELSE @]

\* saveProfile, removeProfile, moveProfile and updateRecoveryAp: what they make of a
\* configuration.
ProfilesSaved(c, i, on) ==
    [c EXCEPT !.profiles = IF on THEN @ \cup {i} ELSE @ \ {i}]
ProfilesWithout(c, i) ==
    [c EXCEPT !.profiles = {j \in @ : j < i} \cup {j - 1 : j \in {k \in @ : k > i}}]
PlaceAfterMove(j, from, to) ==
    IF j = from THEN to
    ELSE IF from < j /\ j <= to THEN j - 1
    ELSE IF to <= j /\ j < from THEN j + 1 ELSE j
ProfilesMoved(c, from, to) ==
    [c EXCEPT !.profiles = {PlaceAfterMove(j, from, to) : j \in @}]

ManagedConfigs(c) ==
    {ProfilesSaved(c, i, on) : i \in Profiles, on \in BOOLEAN}
    \cup {ProfilesWithout(c, i) : i \in Profiles}
    \cup {ProfilesMoved(c, from, to) : from, to \in Profiles}
    \cup {[c EXCEPT !.ap = ap] : ap \in {"Off", "Stays", "TimesOut"}}

\* applyCommittedConfiguration, after a WiFi request was committed; it does not look at
\* whether the network is enabled.
ManageWifi ==
    /\ network.up
    /\ \E config \in ManagedConfigs(network.config) :
         network' \in BeginNextProfile(Restarted(
            [RecoveryApStopped(network) EXCEPT !.config = config, !.next = 0]))

\* connectWifiProfile: the rotation begins with the profile itself.
Connected(n, i) ==
    [Tried(RecoveryApStopped(n), i) EXCEPT !.next = i, !.passed = [j \in Profiles |-> 0]]

ConnectWifiProfile(i) ==
    /\ network.up /\ i \in network.config.profiles
    /\ network' = Connected(network, i)

\* provisionWifiProfile: the profile is saved, and connected at once.
ProvisionWifiProfile(i) ==
    /\ network.up
    /\ network' = Connected([network EXCEPT !.config = ProfilesSaved(@, i, TRUE)], i)

\* The command set-wifi, and Improv over the same line, which has the first profile.
HandleSetWifi == \E i \in Profiles : ProvisionWifiProfile(i)
IngestProvisioning == ProvisionWifiProfile(0)

\* load-config and reset-config commit a configuration and do not tell the network.
LoadNetwork ==
    /\ network.up
    /\ \E config \in NetworkConfig :
         network' = [network EXCEPT
            !.config = config,
            !.idle = IF Resting([network EXCEPT !.config = config]) THEN 0 ELSE @,
            !.passed = [j \in Profiles |-> IF j \in config.profiles \cap network.config.profiles
                                           THEN network.passed[j] ELSE 0]]

\* startWifiScan.
StartScan ==
    /\ network.up /\ network.scan # "Scanning"
    /\ \E scan \in {"Scanning", "Failed"} : network' = [network EXCEPT !.scan = scan]

\* initialize, and shutdown before a restart; or the supply fails.
BootNetwork ==
    /\ ~network.up
    /\ \E n \in {Restarted([network EXCEPT !.up = TRUE])} :
         network' \in IF n.config.enabled THEN BeginNextProfile(n) ELSE {n}

NetworkOff(config) ==
    [up |-> FALSE, config |-> config, state |-> "Disabled",
     online |-> FALSE, apActive |-> FALSE, apAge |-> 0, begun |-> FALSE,
     next |-> 0, age |-> 0, retry |-> FALSE, retryIn |-> 0, retryDelay |-> 1,
     scan |-> "Idle", idle |-> 0, passed |-> [j \in Profiles |-> 0]]

StopNetwork == network.up /\ network' = NetworkOff(network.config)

NetworkInit == \E config \in NetworkConfig : network = NetworkOff(config)

NetworkNext ==
    \/ BootNetwork \/ StopNetwork \/ ManageWifi \/ LoadNetwork \/ StartScan
    \/ \E elapsed \in {0, 1} : UpdateNetwork(elapsed)
    \/ HandleSetWifi \/ IngestProvisioning
    \/ \E i \in Profiles : ConnectWifiProfile(i)

----------------------------------------------------------------------------
NetworkTypeOK == network \in Network

\* A device that should have a network tries to get one: as long as it is enabled, not
\* online and has an enabled profile, a profile is tried within the attempt timeout or
\* the greatest retry delay, whatever is configured, connected or loaded meanwhile; and
\* the tries go around, so that no enabled profile is passed over for another one twice.
\* The access point is closed while the device is online.  Excepted is a network that was
\* disabled and is enabled again by load-config: it stays disabled.
RetryBounded ==
    /\ network.idle <= RetryBound
    /\ \A j \in Profiles : network.passed[j] < ProfileCount
    /\ network.state \in {"OnlineWifi", "Disabled"} => ~network.apActive
=============================================================================
