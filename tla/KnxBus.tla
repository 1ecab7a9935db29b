------------------------------- MODULE KnxBus -------------------------------
(***************************************************************************)
(* KnxAdapter: a poll handles the telegram that has come and publishes at  *)
(* most one object of the device, in the order of their importance.  What  *)
(* was published is remembered by the transition sequence of a channel,    *)
(* which is forgotten when the network is lost and the transport starts    *)
(* again.  Relays and faults change between polls, whoever switched them.  *)
(***************************************************************************)
EXTENDS Naturals

CONSTANTS
    KnxChannels,         \* numbers of the channels, all with a switch and a status address
    KnxTellsAtStart,     \* those with sendStatusAfterStartup
    KnxFaultObjects,     \* those with a fault address
    KnxInverted,         \* those with inverted commands and status
    KnxCentralSwitch,    \* those in the central switch, and
    KnxCentralOff        \* in the central off

ASSUME KnxAssumption ==
    /\ KnxChannels \subseteq Nat
    /\ \A set \in {KnxTellsAtStart, KnxFaultObjects, KnxInverted, KnxCentralSwitch,
                   KnxCentralOff} : set \subseteq KnxChannels

VARIABLE knx

KnxFaults == {"KnxUnavailable", "KnxBusOff", "CommandQueueOverflow"}

\* changed is publishedSequences_ against the transition sequence of the channel; told,
\* moved and faultTold are not known to the code: the last status and fault on the bus,
\* and whether the relay has switched since the transport started.
KnxChannel ==
    [on : BOOLEAN, changed : BOOLEAN, statusPublished : BOOLEAN,
     told : {"0", "1", "Nothing"}, moved : BOOLEAN,
     faulted : BOOLEAN, faultPublished : BOOLEAN, publishedFault : BOOLEAN]

Knx ==
    [up : BOOLEAN,               \* the device has booted
     initialized : BOOLEAN,
     started : BOOLEAN,          \* transportStarted_
     online : BOOLEAN,           \* of the network, as the loop sees it
     channels : [KnxChannels -> KnxChannel],
     faults : SUBSET KnxFaults,  \* active
     devicePublished : BOOLEAN, publishedDevice : BOOLEAN]

Bit(on, c) == IF on # (c \in KnxInverted) THEN "1" ELSE "0"

----------------------------------------------------------------------------
(* The transport. *)

\* Slip: what was published before the network was lost is not published again.
StillPublished(channel, c) == [channel EXCEPT !.changed = FALSE, !.moved = FALSE,
    !.statusPublished = TRUE, !.faultPublished = c \notin KnxFaultObjects]

\* Nothing is told at once, but by the polls to come.
StartedChannel(channel, c) ==
    [channel EXCEPT !.changed = FALSE, !.moved = FALSE,
                    !.statusPublished = c \notin KnxTellsAtStart,
                    !.faultPublished = c \notin KnxFaultObjects]

StartTransport(k) ==
    IF ~k.online THEN [k EXCEPT !.faults = @ \cup {"KnxBusOff"}]
    ELSE [k EXCEPT !.started = TRUE,
                   !.channels = [c \in KnxChannels |-> StartedChannel(k.channels[c], c)],
                   !.faults = @ \ {"KnxUnavailable", "KnxBusOff"}]

\* initialize.  The network has not been looked at when the device boots.
BootKnx ==
    /\ ~knx.up
    /\ \E registered \in BOOLEAN, on \in [KnxChannels -> BOOLEAN] :
       \E k \in {[knx EXCEPT
            !.up = TRUE, !.initialized = registered, !.started = FALSE, !.online = FALSE,
            !.faults = {}, !.devicePublished = FALSE, !.publishedDevice = FALSE,
            !.channels = [c \in KnxChannels |->
                [on |-> on[c], changed |-> FALSE, statusPublished |-> FALSE,
                 told |-> knx.channels[c].told, moved |-> FALSE, faulted |-> FALSE,
                 faultPublished |-> FALSE, publishedFault |-> FALSE]]]} :
         knx' = IF registered THEN StartTransport(k)
                ELSE [k EXCEPT !.faults = {"KnxUnavailable"}]

----------------------------------------------------------------------------
(* Telegrams. *)

\* Telegrams of one bit: a read or a write of a switch group, or a write of a central one.
KnxTelegram ==
    [address : {"Switch"}, channel : KnxChannels, bit : BOOLEAN]
    \cup [address : {"CentralSwitch", "CentralOff"}, bit : BOOLEAN]

\* enqueueChannelCommand and enqueueCentralCommand: the commands of a write.  The central
\* off does nothing when its value is 0.
CommandsOf(t) ==
    CASE t.address = "Switch" ->
           {[channel |-> t.channel, on |-> t.bit # (t.channel \in KnxInverted)]}
      [] t.address = "CentralSwitch" -> {[channel |-> c, on |-> t.bit] : c \in KnxCentralSwitch}
      [] t.address = "CentralOff" ->
           {[channel |-> c, on |-> FALSE] : c \in IF t.bit THEN KnxCentralOff ELSE {}}

Telegrams == {{}} \cup {CommandsOf(t) : t \in KnxTelegram}

Moved(channel, on, faulted) ==
    [channel EXCEPT !.on = on, !.faulted = faulted,
                    !.changed = @ \/ on # channel.on, !.moved = @ \/ on # channel.on]

\* The relays that commands switch when the loop runs them; the others are refused, or
\* run later, like the commands of other sources.
Executed(k, commands) ==
    [k EXCEPT !.channels = [c \in KnxChannels |->
        IF \E d \in commands : d.channel = c
        THEN Moved(k.channels[c], \E d \in commands : d.channel = c /\ d.on, k.channels[c].faulted)
        ELSE k.channels[c]]]

\* onTelegram: the commands are queued, all or none, and a full queue is a fault until the
\* next boot.  A read is answered and, like a telegram that is refused, only counted.
Received(k, commands, full) ==
    IF full /\ commands # {} THEN [k EXCEPT !.faults = @ \cup {"CommandQueueOverflow"}] ELSE k

----------------------------------------------------------------------------
(* publishPending. *)

First(set) == {c \in set : \A d \in set : c <= d}

StatusPending(channel) == channel.changed \/ ~channel.statusPublished
FaultPending(channel, c) ==
    /\ c \in KnxFaultObjects
    /\ ~channel.faultPublished \/ channel.publishedFault # channel.faulted
DevicePending(k) == ~k.devicePublished \/ k.publishedDevice # (k.faults # {})

PublishState(k, c) ==
    [k EXCEPT !.channels[c] = [@ EXCEPT !.told = Bit(k.channels[c].on, c),
                                        !.changed = FALSE, !.statusPublished = TRUE]]

PublishFault(k, c) ==
    [k EXCEPT !.channels[c] = [@ EXCEPT !.publishedFault = k.channels[c].faulted,
                                        !.faultPublished = TRUE]]

PublishDeviceFault(k) ==
    [k EXCEPT !.devicePublished = TRUE, !.publishedDevice = k.faults # {}]

\* What a poll may publish, when the startup delay and the minimum interval are over;
\* due are the channels whose cyclic status is.  A heartbeat changes nothing.
Published(k, due) ==
    LET states == {c \in KnxChannels : StatusPending(k.channels[c]) \/ c \in due}
        faulty == {c \in KnxChannels : FaultPending(k.channels[c], c)}
    IN  CASE states # {} -> {PublishState(k, c) : c \in First(states)}
          [] states = {} /\ faulty # {} -> {PublishFault(k, c) : c \in First(faulty)}
          [] states = {} /\ faulty = {} /\ DevicePending(k) -> {PublishDeviceFault(k)}
          [] OTHER -> {k}

\* poll: the transport starts when there is a network, the library hands over a telegram,
\* and then something may be published.
PollKnx ==
    /\ knx.up /\ knx.initialized
    /\ \/ /\ ~knx.online
          /\ knx' = [knx EXCEPT !.started = FALSE,
                                !.faults = IF knx.started THEN @ \cup {"KnxBusOff"} ELSE @]
       \/ /\ knx.online
          /\ \E commands \in Telegrams, due \in SUBSET KnxChannels, full \in BOOLEAN :
             \E k \in {Received(IF knx.started THEN knx ELSE StartTransport(knx), commands, full)} :
             \E published \in {k} \cup Published(k, due),
                run \in IF full THEN {{}} ELSE SUBSET commands :
                knx' = Executed(published, run)

----------------------------------------------------------------------------
(* What happens between two polls. *)

\* Another source switches the relay, or an output fails, or the fault is cleared.  The
\* fault of a channel without a fault object is not looked at.
MoveRelay(c) ==
    /\ knx.up
    /\ \E on \in BOOLEAN, faulted \in IF c \in KnxFaultObjects THEN BOOLEAN ELSE {FALSE} :
         knx' = [knx EXCEPT !.channels[c] = Moved(knx.channels[c], on, faulted)]

ChangeLink == knx.up /\ knx' = [knx EXCEPT !.online = ~@]

StopKnx == knx.up /\ knx' = [knx EXCEPT !.up = FALSE]

KnxInit ==
    knx = [up |-> FALSE, initialized |-> FALSE, started |-> FALSE, online |-> FALSE,
           faults |-> {}, devicePublished |-> FALSE, publishedDevice |-> FALSE,
           channels |-> [c \in KnxChannels |->
               [on |-> FALSE, changed |-> FALSE, statusPublished |-> FALSE,
                told |-> "Nothing", moved |-> FALSE, faulted |-> FALSE,
                faultPublished |-> FALSE, publishedFault |-> FALSE]]]

KnxNext ==
    \/ BootKnx \/ PollKnx \/ StopKnx \/ ChangeLink
    \/ \E c \in KnxChannels : MoveRelay(c)

----------------------------------------------------------------------------
KnxTypeOK == knx \in Knx

\* When a running transport has nothing to publish, the bus knows the device: the last
\* status telegram of a channel, however long ago and before whatever loss of the
\* network or restart, is the state of its relay, unless the channel is configured not
\* to tell its state at the start and has not switched since.  And the transport does
\* not run just while a fault of the link is active, whatever was lost and came back.
KnxToldState ==
    knx.up =>
      /\ knx.started =>
           \A c \in KnxChannels :
             \/ StatusPending(knx.channels[c])
             \/ c \notin KnxTellsAtStart /\ ~knx.channels[c].moved
             \/ knx.channels[c].told = Bit(knx.channels[c].on, c)
      /\ knx.started <=> knx.faults \cap {"KnxUnavailable", "KnxBusOff"} = {}
=============================================================================
