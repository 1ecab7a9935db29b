------------------------- MODULE DiagnosticCounters -------------------------
(***************************************************************************)
(* The counters of the diagnostics that outlive a boot.  DiagnosticsService*)
(* counts in RAM and marks itself dirty; the loop, and a controlled        *)
(* restart, have NvsSettingsStore write a record with the next generation  *)
(* over the older of two slots, read it back and set the marker.  Three    *)
(* counters stand for nine: the ones left out are counted and stored like  *)
(* watchdog, by a reset of their kind, a fault or an event.                *)
(***************************************************************************)
EXTENDS Naturals

CONSTANTS
    MaxCount,        \* where a counter saturates, 2^32 - 1 in the code
    MaxGeneration,   \* where the generation saturates, 2^32 - 1 in the code
    EmptySlot,       \* no record, or
    TornSlot         \* one whose length or checksum is wrong

ASSUME CountersAssumption == MaxCount \in Nat \ {0} /\ MaxGeneration \in Nat \ {0}

VARIABLE counting

Slots == {"A", "B"}
Counters == [boot : 0 .. MaxCount, watchdog : 0 .. MaxCount, storage : 0 .. MaxCount]
NoCounts == [boot |-> 0, watchdog |-> 0, storage |-> 0]

\* encodeDiagnosticCounters and decodeDiagnosticCounters, of a whole record.
DiagnosticRecord == [generation : 1 .. MaxGeneration, counters : Counters]

ASSUME MarksAreNoRecords == EmptySlot \notin DiagnosticRecord /\ TornSlot \notin DiagnosticRecord

CountingFaults == {"TaskWatchdogFailure", "SettingsSaveFailure"}

Counting ==
    [slots : [Slots -> DiagnosticRecord \cup {EmptySlot, TornSlot}],
     marker : Slots \cup {"None"},     \* diagnosticActiveSlotKey
     legacy : 0 .. MaxCount,           \* bootCountKey of older firmware
     running : BOOLEAN,
     opened : BOOLEAN,                 \* whether this boot opened the NVS namespace
     counters : Counters,              \* of snapshot_
     faults : SUBSET CountingFaults,   \* active
     dirty : BOOLEAN,                  \* persistentCountersDirty_
     reported : Counters]              \* the last counters whose writing was reported

----------------------------------------------------------------------------
(* NvsSettingsStore. *)

\* Slip: a counter does not saturate.
IncrementedForever(n, limit) == n + 1

Incremented(n, limit) == IF n < limit THEN n + 1 ELSE n

HoldsRecord(c, k) == c.slots[k] \notin {EmptySlot, TornSlot}

\* readDiagnosticSlot of both: where the newest record is; the marker breaks a tie.
ActiveSlot(c) ==
    LET holding == {k \in Slots : HoldsRecord(c, k)}
        newest == {k \in holding : \A j \in holding :
                     c.slots[j].generation <= c.slots[k].generation}
    IN  CASE newest = {} -> "None"
          [] newest = Slots -> IF c.marker = "B" THEN "B" ELSE "A"
          [] OTHER -> CHOOSE k \in Slots : k \in newest

NewestGeneration(c) == IF ActiveSlot(c) = "None" THEN 0 ELSE c.slots[ActiveSlot(c)].generation

\* Slip: the record goes over the newest one.
NewestOverwritten(c) == IF ActiveSlot(c) = "B" THEN "B" ELSE "A"

TargetSlot(c) == IF ActiveSlot(c) = "A" THEN "B" ELSE "A"

\* persistDiagnosticCounters: how it may end, by itself or with the supply.
Persisted(c) ==
    LET k == TargetSlot(c)
        record == [generation |-> Incremented(NewestGeneration(c), MaxGeneration),
                   counters |-> c.counters]
        written == [c EXCEPT !.slots[k] = record]
    IN  {[ok |-> FALSE, after |-> c],
         [ok |-> FALSE, after |-> [c EXCEPT !.slots[k] = TornSlot]],
         [ok |-> FALSE, after |-> written],
         [ok |-> TRUE, after |-> [written EXCEPT !.marker = k, !.reported = c.counters]]}

\* What beginDiagnosticCounters finds.
Found(c) ==
    IF ActiveSlot(c) = "None" THEN [NoCounts EXCEPT !.boot = c.legacy]
    ELSE c.slots[ActiveSlot(c)].counters

\* beginDiagnosticCounters counts the boot, the reset and a torn slot; a store that did
\* not open starts from nothing.
CountedAtBoot(c, opened, category) ==
    LET found == IF opened THEN Found(c) ELSE NoCounts
        torn == opened /\ \E k \in Slots : c.slots[k] = TornSlot
    IN  [boot |-> Incremented(found.boot, MaxCount),
         watchdog |-> IF category = "Watchdog" THEN Incremented(found.watchdog, MaxCount)
                      ELSE found.watchdog,
         storage |-> IF torn THEN Incremented(found.storage, MaxCount) ELSE found.storage]

----------------------------------------------------------------------------
(* DiagnosticsService. *)

\* incrementPersistent.
Counted(c, counter) ==
    [c EXCEPT !.counters[counter] = Incremented(@, MaxCount),
              !.dirty = @ \/ c.counters[counter] < MaxCount]

\* recordPersistentFault, of a fault that was not active.
CounterOf(fault) == IF fault = "TaskWatchdogFailure" THEN "watchdog" ELSE "storage"

----------------------------------------------------------------------------
(* The steps. *)

\* initialize: persistent counters first, then what goes wrong with them is counted.
BootCounting ==
    /\ ~counting.running
    /\ \E opened \in BOOLEAN, category \in {"Watchdog", "PowerOn"} :
       \E booted \in {[counting EXCEPT !.running = TRUE, !.opened = opened, !.faults = {},
                                       !.dirty = FALSE,
                                       !.counters = CountedAtBoot(counting, opened, category)]} :
       \E end \in IF opened THEN Persisted(booted) ELSE {[ok |-> FALSE, after |-> booted]} :
         counting' = IF end.ok THEN [end.after EXCEPT !.legacy = 0]
                     ELSE Counted(end.after, "storage")

\* A reset of a connection, a broken frame, a lost network, a storage error.
RecordEvent(counter) == counting.running /\ counting' = Counted(counting, counter)

RecordFault(fault) ==
    /\ counting.running /\ fault \notin counting.faults
    /\ counting' = [Counted(counting, CounterOf(fault)) EXCEPT !.faults = @ \cup {fault}]

ClearFault(fault) ==
    /\ counting.running /\ fault \in counting.faults
    /\ counting' = [counting EXCEPT !.faults = @ \ {fault}]

\* flushDiagnosticCounters: what a write leaves in RAM.
Flushed(end) ==
    IF end.ok THEN [end.after EXCEPT !.dirty = FALSE] ELSE Counted(end.after, "storage")

\* In an update, at most once a minute, or forced before a controlled restart.
FlushCounters ==
    /\ counting.running /\ counting.dirty
    /\ \E end \in IF counting.opened THEN Persisted(counting)
                  ELSE {[ok |-> FALSE, after |-> counting]} :
         \E restarting \in BOOLEAN :
            counting' = [Flushed(end) EXCEPT !.running = ~restarting]

\* The supply fails between two writes, or in one, or while the boot counts itself.
LosePower ==
    /\ \E end \in {[ok |-> FALSE, after |-> counting]}
                    \cup (IF counting.running /\ counting.opened /\ counting.dirty
                          THEN Persisted(counting) ELSE {}) :
         counting' = [end.after EXCEPT !.running = FALSE]
    /\ counting.running

\* A device with the boots that an older firmware has counted.
CountingBefore(legacy) ==
    [slots |-> [k \in Slots |-> EmptySlot], marker |-> "None", legacy |-> legacy,
     running |-> FALSE, opened |-> FALSE, counters |-> NoCounts, faults |-> {},
     dirty |-> FALSE, reported |-> [NoCounts EXCEPT !.boot = legacy]]

CountingInit == \E legacy \in {0, 1} : counting = CountingBefore(legacy)

CountingNext ==
    \/ BootCounting \/ FlushCounters \/ LosePower
    \/ \E counter \in {"watchdog", "storage"} : RecordEvent(counter)
    \/ \E fault \in CountingFaults : RecordFault(fault) \/ ClearFault(fault)

----------------------------------------------------------------------------
CountingTypeOK == counting \in Counting

\* Counts that were reported as stored are never lost: the next boot finds every
\* counter at least where the last reported write had it, however many writes after
\* it failed or were cut off.  And a count in RAM that is not marked dirty is one that
\* the next boot finds, while the storage counter has not saturated.
CountsKept ==
    /\ \A counter \in DOMAIN NoCounts : counting.reported[counter] <= Found(counting)[counter]
    /\ counting.running /\ ~counting.dirty =>
         counting.counters.storage = MaxCount \/ Found(counting) = counting.counters
=============================================================================
