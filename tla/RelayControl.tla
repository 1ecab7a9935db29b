--------------------------- MODULE RelayControl ---------------------------
(***************************************************************************)
(* The relay command path of the firmware: SwitchingPolicyService admits a *)
(* request, RelayCommandQueue holds it, and the application loop hands it  *)
(* to RelayCommandService, which arbitrates, drives the relay outputs and  *)
(* owns the snapshot of every channel.  A relay write may fail at every    *)
(* call; the service then latches a fault, forces the channel off and      *)
(* rolls the batch back.                                                   *)
(***************************************************************************)
EXTENDS Integers, Sequences

CONSTANTS
    ChannelCount,   \* domain::relayChannelCount
    Capacity,       \* RelayCommandQueue::capacity
    SafetyReserve,  \* RelayCommandQueue::safetyReserve
    MaxSequence,    \* largest transition sequence number (2^32 - 1), saturating
    Requests,       \* the batches that adapters, scenes and timers hand in
    BootPlans       \* the relay states a restore plan may ask for at boot

Channels == 0 .. (ChannelCount - 1)
RelayState == {"Off", "On"}
RelayAction == {"SetOff", "SetOn", "Toggle"}
CommandSource == {"Safety", "Button", "Knx", "Modbus", "Web", "Cli", "Restore"}
RelayCommand ==
    [channel : Channels, action : RelayAction, source : CommandSource]
RelayCommandReason ==
    {"None", "EmptyBatch", "InvalidChannel", "DuplicateChannel",
     "SafetyLockout", "OutputFailure"}

ASSUME RelayConstants ==
    /\ ChannelCount \in Nat \ {0}
    /\ Capacity \in Nat
    /\ SafetyReserve \in 0 .. Capacity
    /\ MaxSequence \in Nat
    /\ Requests \subseteq Seq(RelayCommand)
    /\ BootPlans \subseteq [Channels -> RelayState]

VARIABLES
    phase,     \* "PoweredOn", "Running" (Application::initialized_) or "Halted"
    relay,     \* per channel: the snapshot, and the level its output is driven to
    lockout,   \* CommandArbiter::safetyLockouts_
    queue,     \* RelayCommandQueue, head first
    result     \* what the last relay operation reported

vars == <<phase, relay, lockout, queue, result>>

Snapshot ==
    [requested : RelayState, applied : RelayState, source : CommandSource,
     seq : 0 .. MaxSequence, fault : {"None", "OutputFailure"},
     lockedOut : BOOLEAN, output : RelayState]

FreshSnapshot ==
    [requested |-> "Off", applied |-> "Off", source |-> "Safety", seq |-> 0,
     fault |-> "None", lockedOut |-> FALSE, output |-> "Off"]

Result ==
    [op : {"None", "Boot", "Request", "Batch", "FactoryReset", "Watchdog"},
     status : {"Accepted", "Rejected"}, reason : RelayCommandReason]

Report(op, status, reason) ==
    [op |-> op, status |-> status, reason |-> reason]

----------------------------------------------------------------------------
(* One channel of RelayCommandService. *)

\* Slip: the counter is not held at its maximum.
IncrementSequenceUnbounded(s) == s + 1

IncrementSequence(s) == IF s < MaxSequence THEN s + 1 ELSE s

RequestedState(current, action) ==
    IF action = "SetOn" \/ (action = "Toggle" /\ current = "Off")
    THEN "On" ELSE "Off"

\* Slip: the forced transition is not counted.
ForceSafeOffUncounted(r, written) ==
    IF written
    THEN [r EXCEPT !.requested = "Off", !.output = "Off", !.applied = "Off"]
    ELSE r

\* forceSafeOff: one more write of Off; when it fails the snapshot is left alone.
ForceSafeOff(r, written) ==
    IF ~written THEN r
    ELSE IF r.applied = "Off"
         THEN [r EXCEPT !.requested = "Off", !.output = "Off"]
         ELSE [r EXCEPT !.requested = "Off", !.output = "Off", !.applied = "Off",
                        !.source = "Safety", !.seq = IncrementSequence(@)]

\* Slips: the failed channel is not marked faulted, or not locked out.
FailWriteUnmarked(r, forced) == ForceSafeOff(r, forced)
FailWriteUnlocked(r, forced) ==
    ForceSafeOff([r EXCEPT !.fault = "OutputFailure"], forced)

\* A write that failed: latch the fault, then try to force the channel off.
FailWrite(r, forced) ==
    ForceSafeOff([r EXCEPT !.fault = "OutputFailure", !.lockedOut = TRUE], forced)

\* Slip: a successful write clears the latched fault.
CommitClearsFault(r, desired, source) ==
    [r EXCEPT !.requested = desired, !.source = source, !.applied = desired,
              !.output = desired, !.fault = "None", !.lockedOut = FALSE,
              !.seq = IF desired = r.applied THEN @ ELSE IncrementSequence(@)]

\* A command that went through; a command that asks for nothing new writes nothing.
Commit(r, desired, source) ==
    IF desired = r.applied
    THEN [r EXCEPT !.requested = desired, !.source = source]
    ELSE [r EXCEPT !.requested = desired, !.source = source, !.applied = desired,
                   !.seq = IncrementSequence(@), !.output = desired]

\* setSafetyLockout(channel, true): mark, then execute a Safety SetOff.
\* A write is "Applied", "Forced" (only the second try worked) or "Stuck".
LockOut(r, write) ==
    LET locked == [r EXCEPT !.lockedOut = TRUE]
    IN  IF r.applied = "Off" \/ write = "Applied"
        THEN Commit(locked, "Off", "Safety")
        ELSE FailWrite([locked EXCEPT !.requested = "Off", !.source = "Safety"],
                       write = "Forced")

LockOutAccepted(r, write) == r.applied = "Off" \/ write = "Applied"

----------------------------------------------------------------------------
(* Arbitration and batches. *)

\* CommandArbiter::evaluate
Arbitrated(cmd) ==
    \/ ~lockout[cmd.channel]
    \/ cmd.source = "Safety"
    \/ cmd.action = "SetOff"

\* Slip: the check made when the request was queued is trusted at execution.
PermittedAtRequest(cmd) == TRUE

\* RelayCommandService::validate
Permitted(cmd) ==
    /\ Arbitrated(cmd)
    /\ \/ relay[cmd.channel].fault = "None"
       \/ cmd.source = "Safety"
       \/ cmd.action = "SetOff"

RepeatsChannel(b, i) == \E j \in 1 .. (i - 1) : b[j].channel = b[i].channel

HasChannel(b, c) == \E i \in DOMAIN b : b[i].channel = c

IndexOf(b, c) == CHOOSE i \in DOMAIN b : b[i].channel = c

Desired(b, i) == RequestedState(relay[b[i].channel].applied, b[i].action)

Changed(b) == {i \in DOMAIN b : Desired(b, i) # relay[b[i].channel].applied}

Objections(b) == {i \in DOMAIN b : ~Permitted(b[i]) \/ RepeatsChannel(b, i)}

\* The checks executeBatch makes before it touches an output, in their order.
Refusal(b) ==
    IF b = <<>> THEN "EmptyBatch"
    ELSE IF Len(b) > ChannelCount THEN "InvalidChannel"
    ELSE IF Objections(b) = {} THEN "None"
    ELSE LET first == CHOOSE i \in Objections(b) : \A j \in Objections(b) : i <= j
         IN  IF Permitted(b[first]) THEN "DuplicateChannel" ELSE "SafetyLockout"

BatchApplied(b) ==
    relay' = [c \in Channels |->
                IF HasChannel(b, c)
                THEN Commit(relay[c], Desired(b, IndexOf(b, c)), b[IndexOf(b, c)].source)
                ELSE relay[c]]

\* Slip: the channels written before the failure keep the new level.
BatchLeftHalfDone(b, k, forced, lost, saved) ==
    relay' = [c \in Channels |->
                IF ~HasChannel(b, c) THEN relay[c]
                ELSE IF IndexOf(b, c) = k THEN FailWrite(relay[c], forced)
                ELSE IF IndexOf(b, c) < k
                THEN [relay[c] EXCEPT !.output = Desired(b, IndexOf(b, c))]
                ELSE relay[c]]

\* The write for command k fails.  The channels written before it get their old
\* state written back; for those in `lost` that write fails too, and those of
\* `lost` in `saved`, and k itself when `forced`, are then forced off.
BatchRolledBack(b, k, forced, lost, saved) ==
    relay' = [c \in Channels |->
                LET i == IndexOf(b, c)
                IN  IF ~HasChannel(b, c) \/ i \notin Changed(b) \/ i > k
                    THEN relay[c]
                    ELSE IF i = k
                    THEN FailWrite(relay[c], forced)
                    ELSE IF i \in lost
                    THEN FailWrite([relay[c] EXCEPT !.output = Desired(b, i)], i \in saved)
                    ELSE [relay[c] EXCEPT !.output = relay[c].applied]]

\* RelayCommandService::executeBatch
ExecuteBatch(b, op) ==
    \/ /\ Refusal(b) # "None"
       /\ result' = Report(op, "Rejected", Refusal(b))
       /\ UNCHANGED relay
    \/ /\ Refusal(b) = "None"
       /\ result' = Report(op, "Accepted", "None")
       /\ BatchApplied(b)
    \/ /\ Refusal(b) = "None"
       /\ result' = Report(op, "Rejected", "OutputFailure")
       /\ \E k \in Changed(b), forced \in BOOLEAN :
            \E lost \in SUBSET {i \in Changed(b) : i < k} :
              \E saved \in SUBSET lost : BatchRolledBack(b, k, forced, lost, saved)

----------------------------------------------------------------------------
(* RelayCommandQueue and SwitchingPolicyService. *)

IsSafetyOff(b) ==
    \A i \in DOMAIN b : b[i].source = "Safety" /\ b[i].action = "SetOff"

ContainsSafety(b) == \E i \in DOMAIN b : b[i].source = "Safety"

\* Slip: no room is kept for safety batches.
AdmitsWithoutReserve(b) ==
    /\ Len(b) \in 1 .. ChannelCount
    /\ Len(queue) < Capacity

Admits(b) ==
    /\ Len(b) \in 1 .. ChannelCount
    /\ ContainsSafety(b) => IsSafetyOff(b)
    /\ Len(queue) < (IF IsSafetyOff(b) THEN Capacity ELSE Capacity - SafetyReserve)

\* SwitchingPolicyService::requestBatch, which requestChannel, requestStates and
\* requestGroup equal on the batches they build.  Anything wrong is a rejection.
AcceptableRequest(b) ==
    /\ \A i \in DOMAIN b : Arbitrated(b[i]) /\ ~RepeatsChannel(b, i)
    /\ Admits(b)

Request(b) ==
    /\ phase = "Running"
    /\ \/ /\ AcceptableRequest(b)
          /\ queue' = Append(queue, b)
          /\ result' = Report("Request", "Accepted", "None")
       \/ /\ ~AcceptableRequest(b)
          /\ result' = Report("Request", "Rejected", "None")
          /\ UNCHANGED queue
    /\ UNCHANGED <<phase, relay, lockout>>

\* Application::processRelayCommand
ProcessRelayCommand ==
    /\ phase = "Running"
    /\ queue # <<>>
    /\ queue' = Tail(queue)
    /\ ExecuteBatch(Head(queue), "Batch")
    /\ UNCHANGED <<phase, lockout>>

----------------------------------------------------------------------------
(* Boot, lockout of all channels, and reset of the device. *)

RestorePlan(plan) ==
    [i \in 1 .. ChannelCount |->
        [channel |-> i - 1, source |-> "Restore",
         action |-> IF plan[i - 1] = "On" THEN "SetOn" ELSE "SetOff"]]

\* Initialisation gave up before or after the relay service: wrong board, indicator,
\* button, security policy, or a channel configuration no restore plan accepts.
BootAborted ==
    /\ phase = "PoweredOn"
    /\ phase' = "Halted"
    /\ UNCHANGED <<relay, lockout, queue, result>>

\* RelayCommandService::initialize could not drive every output off.
BootOutputFailure ==
    /\ phase = "PoweredOn"
    /\ \E failed \in (SUBSET Channels) \ {{}} :
         relay' = [c \in Channels |-> IF c \in failed THEN FailWrite(relay[c], FALSE)
                                      ELSE relay[c]]
    /\ phase' = "Halted"
    /\ result' = Report("Boot", "Rejected", "OutputFailure")
    /\ UNCHANGED <<lockout, queue>>

\* applyRestorePlan; the application runs only when the whole plan was accepted.
BootRestore ==
    /\ phase = "PoweredOn"
    /\ \E plan \in BootPlans : ExecuteBatch(RestorePlan(plan), "Boot")
    /\ phase' = IF result'.status = "Accepted" THEN "Running" ELSE "Halted"
    /\ UNCHANGED <<lockout, queue>>

\* The lockouts of performFactoryReset stop at the first one that is not accepted,
\* and only when all were accepted is the queue cleared.
FactoryReset ==
    /\ phase = "Running"
    /\ \E writes \in [Channels -> {"Applied", "Forced", "Stuck"}] :
         LET refused == {c \in Channels : ~LockOutAccepted(relay[c], writes[c])}
             reached == {c \in Channels : \A d \in refused : c <= d}
         IN  /\ lockout' = [c \in Channels |-> lockout[c] \/ c \in reached]
             /\ relay' = [c \in Channels |-> IF c \in reached THEN LockOut(relay[c], writes[c])
                                             ELSE relay[c]]
             /\ IF refused = {}
                THEN /\ queue' = <<>>
                     /\ result' = Report("FactoryReset", "Accepted", "None")
                ELSE /\ UNCHANGED queue
                     /\ result' = Report("FactoryReset", "Rejected", "OutputFailure")
    /\ UNCHANGED phase

\* handleWatchdogFailure locks every channel, whatever each lockout answers.
WatchdogFailure ==
    /\ phase = "Running"
    /\ lockout' = [c \in Channels |-> TRUE]
    /\ \E writes \in [Channels -> {"Applied", "Forced", "Stuck"}] :
         relay' = [c \in Channels |-> LockOut(relay[c], writes[c])]
    /\ queue' = <<>>
    /\ phase' = "Halted"
    /\ result' = Report("Watchdog", "Accepted", "None")

Init ==
    /\ phase = "PoweredOn"
    /\ relay = [c \in Channels |-> FreshSnapshot]
    /\ lockout = [c \in Channels |-> FALSE]
    /\ queue = <<>>
    /\ result = Report("None", "Accepted", "None")

\* Power loss, a hardware watchdog or a controlled restart: memory is lost and
\* Esp32RelayOutput::initialize drives every output inactive again.
Reset ==
    /\ phase # "PoweredOn"
    /\ phase' = "PoweredOn"
    /\ relay' = [c \in Channels |-> FreshSnapshot]
    /\ lockout' = [c \in Channels |-> FALSE]
    /\ queue' = <<>>
    /\ result' = Report("None", "Accepted", "None")

Next ==
    \/ BootAborted
    \/ BootOutputFailure
    \/ BootRestore
    \/ \E b \in Requests : Request(b)
    \/ ProcessRelayCommand
    \/ FactoryReset
    \/ WatchdogFailure
    \/ Reset

Spec == Init /\ [][Next]_vars

----------------------------------------------------------------------------
(* Properties. *)

TypeOK ==
    /\ phase \in {"PoweredOn", "Running", "Halted"}
    /\ relay \in [Channels -> Snapshot]
    /\ lockout \in [Channels -> BOOLEAN]
    /\ queue \in Seq(Requests)
    /\ result \in Result

\* The applied state a snapshot reports is the level its output is driven to, after
\* any sequence of failed writes, forced writes and rollbacks, unless the snapshot
\* carries a fault (RelayCommandService::executeBatch and its rollback).
SnapshotTruthful ==
    \A c \in Channels : relay[c].fault = "None" => relay[c].applied = relay[c].output

\* The lockedOut flag other components read is neither stale nor invented: it is
\* set exactly when the arbiter locks the channel or its output failed.
LockoutFlagExact ==
    \A c \in Channels : relay[c].lockedOut <=> (lockout[c] \/ relay[c].fault # "None")

\* However requests and executions interleave, an ordinary batch never stands in
\* the slots the queue keeps for safety (RelayCommandQueue::safetyReserve).
SafetyReserveHeld ==
    \A i \in DOMAIN queue : ~IsSafetyOff(queue[i]) => i <= Capacity - SafetyReserve

\* A batch is all or nothing on the outputs that still work: when it is accepted
\* they are at the states it asked for, when it is rejected they did not move.
BatchAllOrNothing ==
    [][ (result'.op = "Batch" /\ queue # <<>> /\ queue' = Tail(queue)) =>
          LET b == Head(queue)
          IN  IF result'.status = "Accepted"
              THEN \A i \in DOMAIN b : relay[b[i].channel].fault = "None" =>
                     relay'[b[i].channel].output =
                        RequestedState(relay[b[i].channel].output, b[i].action)
              ELSE \A c \in Channels : relay'[c].fault = "None" => relay'[c] = relay[c]
      ]_vars

\* A channel that is locked out or faulted is never switched on by any command,
\* not even one admitted to the queue before the lockout (validate at execution).
LockedNeverSwitchedOn ==
    [][ \A c \in Channels :
          (lockout[c] \/ relay[c].fault # "None") /\ relay[c].applied = "Off"
             => relay'[c].applied = "Off" ]_vars

\* Until the device restarts, nothing lifts a lockout or forgets an output failure,
\* whatever commands succeed afterwards.
FaultLatched ==
    [][ phase' # "PoweredOn" =>
          \A c \in Channels :
             /\ lockout[c] => lockout'[c]
             /\ relay[c].fault # "None" => relay'[c].fault # "None" ]_vars

\* The transition sequence counts the changes of the applied state, forced ones
\* included, one by one, until it saturates; KNX and web consumers rely on it.
SequenceCountsTransitions ==
    [][ phase' # "PoweredOn" =>
          \A c \in Channels :
             relay'[c].seq = IF relay'[c].applied # relay[c].applied /\ relay[c].seq < MaxSequence
                             THEN relay[c].seq + 1 ELSE relay[c].seq ]_vars

\* design/relay-safety-policy.md: the lockout of a factory reset forces every channel
\* OFF before anything is erased.  A channel whose rollback failed reads Off while
\* its output is on, and the lockout then skips the write and is accepted.
FactoryResetForcesOff ==
    (result.op = "FactoryReset" /\ result.status = "Accepted") =>
        \A c \in Channels : relay[c].output = "Off"

\* docs/architecture/system.md: a channel whose output state is uncertain goes to the
\* safe state and is locked out.  A later batch that fails elsewhere writes the old
\* "On" back to a locked-out channel whose output was off.
LockedOutputStaysOff ==
    [][ \A c \in Channels :
          relay[c].lockedOut /\ relay[c].output = "Off" => relay'[c].output = "Off" ]_vars

============================================================================
