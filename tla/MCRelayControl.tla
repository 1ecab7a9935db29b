-------------------------- MODULE MCRelayControl --------------------------
(* A small instance of RelayControl: three channels, a queue of three batches. *)
EXTENDS RelayControl, RestorePolicy

Cmd(c, a, s) == [channel |-> c, action |-> a, source |-> s]

\* What clients send: a toggle from the web, a Modbus write of two relays, the CLI's
\* "set-relay all off", a user of the safety reserve, and a Modbus write that names
\* one relay twice.
MCRequests ==
    { <<Cmd(1, "Toggle", "Web")>>,
      <<Cmd(0, "SetOn", "Modbus"), Cmd(1, "SetOn", "Modbus")>>,
      <<Cmd(0, "SetOff", "Cli"), Cmd(1, "SetOff", "Cli"), Cmd(2, "SetOff", "Cli")>>,
      <<Cmd(1, "SetOff", "Safety")>>,
      <<Cmd(0, "Toggle", "Modbus"), Cmd(0, "Toggle", "Modbus")>> }

\* A configuration whose last channel comes up on, and whose first has no state to
\* restore.
MCChannelConfigurations ==
    [c \in Channels |->
        [enabled |-> TRUE,
         restorePolicy |-> CASE c = 0 -> "LastKnown"
                             [] c = ChannelCount - 1 -> "ConfiguredDefault"
                             [] OTHER -> "AllOff",
         configuredDefault |-> "On"]]

\* The plans of it after every kind of reset.
MCBootPlans ==
    {PlannedStates(MCChannelConfigurations, category) : category \in ResetCategory}

============================================================================
