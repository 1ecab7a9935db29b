------------------------ MODULE ConfigurationStore ------------------------
(***************************************************************************)
(* ConfigurationService over NvsSettingsStore: two slots in flash, each a  *)
(* record with a generation and a checksum, and a marker of the active     *)
(* one.  A save writes the slot that is not active, reads it back and then *)
(* moves the marker; each of these may fail, and power may go at any       *)
(* point.  Clients save with or without naming the generation they saw.    *)
(***************************************************************************)
EXTENDS Naturals

CONSTANTS
    Configs,        \* what a configuration says, its generation apart
    DefaultConfig,  \* what the default source, or makeSafeConfiguration, gives
    MaxGeneration,  \* where nextGeneration saturates (2^32 - 1)
    Clients,        \* web clients, which name the generation they saw
    NoRecord

ASSUME StoreConstants ==
    /\ DefaultConfig \in Configs
    /\ MaxGeneration \in Nat \ {0}

Record == [config : Configs, generation : 0 .. MaxGeneration]
Default == [config |-> DefaultConfig, generation |-> 0]

ASSUME NoRecordIsNone == NoRecord \notin Record

Slots == {"A", "B"}

VARIABLES
    active,  \* active_; NoRecord while the device is off
    staged,  \* staged_
    opened,  \* whether NvsSettingsStore::initialize opened the namespace
    saving,  \* how far save has got: "Idle", "Write", "Verify" or "Mark"
    target,  \* the slot save chose
    slot,    \* flash: the two records, NoRecord when missing or corrupt
    marker,  \* flash: the active-slot marker, "None" when absent
    saved,   \* lastSaveResult_
    view,    \* what each web client last read of the active configuration
    doubt    \* history: asked for, and not replaced by a durable save since

memory == <<active, staged, opened, saving, target, saved, view>>
flash == <<slot, marker>>
vars == <<memory, flash, doubt>>

----------------------------------------------------------------------------
(* NvsSettingsStore: which slot counts. *)

Valid(s) == slot[s] # NoRecord

BothValid == Valid("A") /\ Valid("B")

\* NvsSettingsStore::load: equal generations count as the first slot.
Loaded ==
    IF BothValid
    THEN IF slot["B"].generation > slot["A"].generation THEN slot["B"] ELSE slot["A"]
    ELSE IF Valid("A") THEN slot["A"]
    ELSE IF Valid("B") THEN slot["B"]
    ELSE NoRecord

\* The slot save takes for the active one; here equal generations go by the marker.
ActiveSlot ==
    IF BothValid
    THEN IF slot["A"].generation = slot["B"].generation
         THEN IF marker = "B" THEN "B" ELSE "A"
         ELSE IF slot["B"].generation > slot["A"].generation THEN "B" ELSE "A"
    ELSE IF Valid("A") THEN "A"
    ELSE IF Valid("B") THEN "B"
    ELSE "None"

\* Slip: the active slot itself is overwritten.
TargetSlotActive == IF ActiveSlot = "A" THEN "A" ELSE "B"

TargetSlot == IF ActiveSlot = "A" THEN "B" ELSE "A"

\* What a write of a slot that is cut off or reported failed may leave there.
AfterBadWrite(s) == {slot[s], NoRecord, staged}

----------------------------------------------------------------------------
(* ConfigurationService. *)

\* Slip: the replacement keeps the generation of the configuration it replaces.
NextGenerationStuck(g) == g

\* Slip: the counter is not held at its maximum.
NextGenerationUnbounded(g) == g + 1

NextGeneration(g) == IF g < MaxGeneration THEN g + 1 ELSE g

\* Application::initialize: open the store, load, and fall back to the defaults.
Boot ==
    /\ active = NoRecord
    /\ \/ /\ opened' = TRUE
          /\ active' = IF Loaded = NoRecord THEN Default ELSE Loaded
       \/ /\ opened' = FALSE
          /\ active' = Default
    /\ saved' = "NotAttempted"
    /\ UNCHANGED <<staged, saving, target, view, flash, doubt>>

Idle == active # NoRecord /\ saving = "Idle"

\* A client fetches the active configuration and its generation.
Read(cl) ==
    /\ Idle
    /\ view' = [view EXCEPT ![cl] = active]
    /\ UNCHANGED <<active, staged, opened, saving, target, saved, flash, doubt>>

\* stage, then the first half of commit up to the write.  A store that is not open
\* refuses at once; the callers either discard what they staged or leave it.
Save(c) ==
    LET r == [config |-> c, generation |-> NextGeneration(active.generation)]
    IN  \/ /\ opened
           /\ staged' = r
           /\ saving' = "Write"
           /\ target' = TargetSlot
           /\ doubt' = doubt \cup {r}
           /\ UNCHANGED saved
        \/ /\ ~opened
           /\ staged' \in {r, NoRecord}
           /\ saved' = "Failed"
           /\ UNCHANGED <<saving, target, doubt>>

\* Modbus register writes, the CLI and a factory reset save whatever is active.
SaveUnchecked(c) ==
    /\ Idle
    /\ Save(c)
    /\ UNCHANGED <<active, opened, view, flash>>

\* A web request is refused with a conflict unless it names the active generation.
SaveChecked(cl, c) ==
    /\ Idle
    /\ view[cl] # NoRecord
    /\ view' = [view EXCEPT ![cl] = NoRecord]
    /\ \/ /\ view[cl].generation = active.generation
          /\ Save(c)
       \/ /\ view[cl].generation # active.generation
          /\ UNCHANGED <<staged, saving, target, saved, doubt>>
    /\ UNCHANGED <<active, opened, flash>>

\* commit reports PersistenceFailure.
FailSave ==
    /\ saving' = "Idle"
    /\ saved' = "Failed"
    /\ staged' \in {staged, NoRecord}
    /\ UNCHANGED <<active, opened, target, view, marker, doubt>>

WriteRecord ==
    /\ saving = "Write"
    /\ \/ /\ \E r \in AfterBadWrite(target) : slot' = [slot EXCEPT ![target] = r]
          /\ saving' = "Verify"
          /\ UNCHANGED <<active, staged, opened, target, saved, view, marker, doubt>>
       \/ /\ \E r \in AfterBadWrite(target) : slot' = [slot EXCEPT ![target] = r]
          /\ FailSave

\* Slip: the record is not read back.
VerifySkipped ==
    /\ saving = "Verify"
    /\ saving' = "Mark"
    /\ UNCHANGED <<active, staged, opened, target, saved, view, flash, doubt>>

\* The record is read back; reading may itself fail.
VerifyRecord ==
    /\ saving = "Verify"
    /\ \/ /\ slot[target] = staged
          /\ saving' = "Mark"
          /\ UNCHANGED <<active, staged, opened, target, saved, view, flash, doubt>>
       \/ /\ FailSave
          /\ UNCHANGED slot

\* Only a marker that was written lets commit adopt the configuration.
MoveMarker ==
    /\ saving = "Mark"
    /\ \/ /\ marker' = target
          /\ active' = staged
          /\ staged' = NoRecord
          /\ saving' = "Idle"
          /\ saved' = "Saved"
          /\ doubt' = {staged} \ {Loaded}
          /\ UNCHANGED <<opened, target, view, slot>>
       \/ /\ FailSave
          /\ UNCHANGED slot

\* Power goes, possibly in the middle of a write of flash; web sessions go with it.
PowerCut ==
    /\ active # NoRecord
    /\ active' = NoRecord
    /\ staged' = NoRecord
    /\ opened' = FALSE
    /\ saving' = "Idle"
    /\ saved' = "NotAttempted"
    /\ view' = [cl \in Clients |-> NoRecord]
    /\ IF saving = "Write"
       THEN \E r \in AfterBadWrite(target) : slot' = [slot EXCEPT ![target] = r]
       ELSE UNCHANGED slot
    /\ marker' \in (IF saving = "Mark" THEN {marker, target} ELSE {marker})
    /\ UNCHANGED <<target, doubt>>

Init ==
    /\ active = NoRecord
    /\ staged = NoRecord
    /\ opened = FALSE
    /\ saving = "Idle"
    /\ target = "A"
    /\ slot = [s \in Slots |-> NoRecord]
    /\ marker = "None"
    /\ saved = "NotAttempted"
    /\ view = [cl \in Clients |-> NoRecord]
    /\ doubt = {}

Next ==
    \/ Boot
    \/ \E cl \in Clients : Read(cl)
    \/ \E c \in Configs : SaveUnchecked(c)
    \/ \E cl \in Clients, c \in Configs : SaveChecked(cl, c)
    \/ WriteRecord
    \/ VerifyRecord
    \/ MoveMarker
    \/ PowerCut

Spec == Init /\ [][Next]_vars

----------------------------------------------------------------------------
(* Properties. *)

TypeOK ==
    /\ active \in Record \cup {NoRecord}
    /\ staged \in Record \cup {NoRecord}
    /\ opened \in BOOLEAN
    /\ saving \in {"Idle", "Write", "Verify", "Mark"}
    /\ target \in Slots
    /\ slot \in [Slots -> Record \cup {NoRecord}]
    /\ marker \in Slots \cup {"None"}
    /\ saved \in {"NotAttempted", "Saved", "Failed"}
    /\ view \in [Clients -> Record \cup {NoRecord}]
    /\ doubt \subseteq Record

\* Once a valid record has been stored, no write, failure or power cut leaves the
\* device without one (NvsSettingsStore::save writes the slot that is not active).
RecordSurvives ==
    [][ (\E s \in Slots : Valid(s)) => (\E s \in Slots : Valid(s))' ]_vars

\* A generation names one configuration: a client whose generation is still the
\* active one has seen the active configuration, so a checked save overwrites no
\* change it did not see.  The counter's last value is reused and is exempt.
GenerationNamesConfiguration ==
    \A cl \in Clients :
        /\ active # NoRecord /\ view[cl] # NoRecord
        /\ view[cl].generation = active.generation
        /\ active.generation < MaxGeneration
        => view[cl] = active

\* The store keeps the contract of ConfigurationContract, whatever fails.
Contract ==
    INSTANCE ConfigurationContract
    WITH pending <- IF saving = "Idle" THEN NoRecord ELSE staged,
         stored <- Loaded

ContractKept == Contract!Spec

\* docs/architecture/system.md: a save may report success only once it is persistent.
\* After a save whose marker write failed, a successful save can reach the same
\* generation in the second slot, and the next boot loads the failed one.
SavedIsDurable ==
    (saved = "Saved" /\ saving = "Idle" /\ active.generation < MaxGeneration)
        => Loaded = active

============================================================================
