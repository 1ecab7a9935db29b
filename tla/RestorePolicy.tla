---------------------------- MODULE RestorePolicy ----------------------------
(***************************************************************************)
(* The decision table of the relay states at boot: from the cause of the   *)
(* reset over a safety event to a boot state, and from that and the        *)
(* configuration of a channel to what the restore plan commands.           *)
(***************************************************************************)

ResetCategory ==
    {"PowerOn", "ControlledRestart", "Brownout", "Watchdog", "Panic", "RepeatedBoot", "Unknown"}

RelaySafetyEvent ==
    {"PowerOn", "SoftwareReboot", "OtaReboot", "Brownout", "WatchdogReset", "FactoryReset",
     "ConfigurationUpdate", "NetworkFailure"}

RelaySafetyEventForReset(category) ==
    CASE category \in {"PowerOn", "Brownout"} -> category
      [] category = "ControlledRestart" -> "SoftwareReboot"
      [] category \in {"Watchdog", "Panic", "RepeatedBoot", "Unknown"} -> "WatchdogReset"

RelayBootStateFor(event) ==
    CASE event \in {"PowerOn", "SoftwareReboot"} -> "Restore"
      [] event \in {"Brownout", "WatchdogReset"} -> "SafeState"
      [] event = "OtaReboot" -> "ConfiguredState"
      [] event = "FactoryReset" -> "Off"
      [] event \in {"ConfigurationUpdate", "NetworkFailure"} -> "LastState"

\* RelayChannelConfiguration, and the states a store would have kept, or none.
ChannelConfiguration ==
    [enabled : BOOLEAN, restorePolicy : {"AllOff", "LastKnown", "ConfiguredDefault"},
     configuredDefault : {"Off", "On"}]
PersistedRelayState == {"Off", "On", "None"}

ResolveRelayBootState(bootState, configuration, persisted) ==
    LET configured == configuration.configuredDefault
        last == IF persisted = "On" THEN "On" ELSE "Off"
    IN  CASE ~configuration.enabled -> "Off"
          [] configuration.enabled /\ bootState \in {"Off", "SafeState"} -> "Off"
          [] configuration.enabled /\ bootState = "On" -> "On"
          [] configuration.enabled /\ bootState = "ConfiguredState" -> configured
          [] configuration.enabled /\ bootState = "LastState" -> last
          [] configuration.enabled /\ bootState = "Restore" ->
               CASE configuration.restorePolicy = "ConfiguredDefault" -> configured
                 [] configuration.restorePolicy = "LastKnown" -> last
                 [] configuration.restorePolicy = "AllOff" -> "Off"

\* A disabled channel with a configured default of On makes the plan, and the whole
\* configuration, invalid.
Plannable(configuration) ==
    ~ (/\ ~configuration.enabled
       /\ configuration.restorePolicy = "ConfiguredDefault"
       /\ configuration.configuredDefault = "On")

\* The states of a plan; the firmware keeps no relay states over a reset.
PlannedStates(configurations, category) ==
    [c \in DOMAIN configurations |->
        ResolveRelayBootState(RelayBootStateFor(RelaySafetyEventForReset(category)),
                              configurations[c], "None")]

----------------------------------------------------------------------------
\* Every reset has an event, and every event a boot state that can be resolved.
ASSUME TableTotal ==
    /\ \A category \in ResetCategory : RelaySafetyEventForReset(category) \in RelaySafetyEvent
    /\ \A event \in RelaySafetyEvent, configuration \in ChannelConfiguration,
          persisted \in PersistedRelayState :
         ResolveRelayBootState(RelayBootStateFor(event), configuration, persisted) \in {"Off", "On"}

\* design/relay-safety-policy.md: a boot switches a channel on just if it is enabled and
\* configured to come up on, and the reset was neither a disturbance nor of unknown cause.
ASSUME OnOnlyAsConfigured ==
    \A category \in ResetCategory, configuration \in ChannelConfiguration :
        PlannedStates(<<configuration>>, category)[1] = "On"
        <=> /\ configuration.enabled
            /\ configuration.restorePolicy = "ConfiguredDefault"
            /\ configuration.configuredDefault = "On"
            /\ category \in {"PowerOn", "ControlledRestart"}
=============================================================================
