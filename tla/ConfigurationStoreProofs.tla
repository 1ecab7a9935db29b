--------------------- MODULE ConfigurationStoreProofs ---------------------
(***************************************************************************)
(* Proofs about ConfigurationStore for every set of configurations and of  *)
(* clients and every generation bound: a stored record always survives, a  *)
(* generation names one configuration, and the two slots with their marker *)
(* implement ConfigurationContract.                                        *)
(***************************************************************************)
EXTENDS ConfigurationStore, TLAPS

\* Nothing a client has read is newer than the active configuration.
ViewInv ==
    \A cl \in Clients : view[cl] # NoRecord =>
        /\ active # NoRecord
        /\ view[cl].generation <= active.generation
        /\ view[cl].generation = active.generation /\ active.generation < MaxGeneration
             => view[cl] = active

\* What save has established by the step it is at.
SaveInv ==
    saving # "Idle" =>
        /\ opened
        /\ active # NoRecord
        /\ staged \in Record
        /\ staged.generation = NextGeneration(active.generation)
        /\ staged \in doubt
        /\ saving = "Write" => target = TargetSlot
        /\ saving = "Mark" => slot[target] = staged

\* A slot is at most one generation ahead, and then it holds what is in doubt.
SlotInv ==
    active # NoRecord /\ opened =>
        \A s \in Slots : Valid(s) =>
            \/ slot[s].generation <= active.generation
            \/ slot[s].generation = active.generation + 1 /\ slot[s] \in doubt

\* Where load and save take a different slot for the active one, the record that
\* save would overwrite last is in doubt, unless the two are the same.
TieInv ==
    /\ BothValid
    /\ slot["A"].generation = slot["B"].generation
    /\ slot["A"].generation < MaxGeneration
    /\ marker = "B"
    => slot["B"] \in doubt \cup {slot["A"]}

\* The inductive invariant.
IInv ==
    /\ TypeOK
    /\ ViewInv
    /\ SaveInv
    /\ SlotInv
    /\ TieInv

----------------------------------------------------------------------------
(* The operators. *)

LEMMA RecordFields ==
    ASSUME NEW r \in Record
    PROVE  /\ r.config \in Configs
           /\ r.generation \in Nat
           /\ r.generation <= MaxGeneration
           /\ r # NoRecord
BY StoreConstants, NoRecordIsNone DEF Record

LEMMA DefaultIsRecord == Default \in Record
BY StoreConstants DEF Default, Record

LEMMA NextGenerationType ==
    ASSUME NEW g \in 0 .. MaxGeneration
    PROVE  NextGeneration(g) \in 0 .. MaxGeneration
BY StoreConstants DEF NextGeneration

\* What load finds is one of the two records, and none is newer.
LEMMA LoadedWorks ==
    ASSUME TypeOK
    PROVE  /\ Loaded \in Record \cup {NoRecord}
           /\ Loaded = NoRecord <=> ~Valid("A") /\ ~Valid("B")
           /\ \A s \in Slots : Valid(s) =>
                Loaded \in Record /\ slot[s].generation <= Loaded.generation
           /\ Loaded \in {slot["A"], slot["B"], NoRecord}
BY RecordFields DEF TypeOK, Loaded, BothValid, Valid, Slots

\* A save leaves the newest record alone.
LEMMA TargetIsOther ==
    ASSUME TypeOK
    PROVE  /\ TargetSlot \in Slots
           /\ (\E s \in Slots : Valid(s)) => \E s \in Slots \ {TargetSlot} : Valid(s)
BY DEF TypeOK, TargetSlot, ActiveSlot, BothValid, Valid, Slots

----------------------------------------------------------------------------
(* The inductive invariant. *)

LEMMA InitIInv == Init => IInv
<1> SUFFICES ASSUME Init PROVE IInv
  OBVIOUS
<1>1. TypeOK
  BY DEF Init, TypeOK, Slots
<1>2. ViewInv /\ SaveInv /\ SlotInv /\ TieInv
  BY DEF Init, ViewInv, SaveInv, SlotInv, TieInv, BothValid, Valid, Slots
<1> QED BY <1>1, <1>2 DEF IInv

LEMMA BootKeeps == IInv /\ Boot => IInv'
<1> SUFFICES ASSUME IInv, Boot PROVE IInv'
  OBVIOUS
<1> USE DEF IInv
<1>1. active' \in Record
  BY LoadedWorks, DefaultIsRecord DEF Boot
<1>2. TypeOK'
  BY <1>1 DEF Boot, TypeOK, flash
<1>3. ViewInv'
  BY DEF Boot, ViewInv
<1>4. SaveInv'
  BY DEF Boot, SaveInv, TypeOK
<1>5. SlotInv'
  BY LoadedWorks, RecordFields, <1>1 DEF Boot, SlotInv, Valid, flash, TypeOK
<1>6. TieInv'
  BY DEF Boot, TieInv, BothValid, Valid, flash
<1> QED BY <1>2, <1>3, <1>4, <1>5, <1>6

LEMMA ReadKeeps == ASSUME NEW cl \in Clients PROVE IInv /\ Read(cl) => IInv'
<1> SUFFICES ASSUME IInv, Read(cl) PROVE IInv'
  OBVIOUS
<1> USE DEF IInv
<1>0. active \in Record
  BY DEF Read, Idle, TypeOK
<1>2. TypeOK'
  BY <1>0 DEF Read, TypeOK, flash
<1>3. ViewInv'
  BY <1>0, RecordFields DEF Read, ViewInv, TypeOK
<1>4. SaveInv'
  BY DEF Read, Idle, SaveInv
<1>5. SlotInv'
  BY DEF Read, SlotInv, Valid, flash
<1>6. TieInv'
  BY DEF Read, TieInv, BothValid, Valid, flash
<1> QED BY <1>2, <1>3, <1>4, <1>5, <1>6

\* What a save does at first, whether it is checked or not.
LEMMA SaveStarts ==
    ASSUME IInv, Idle, NEW c \in Configs, Save(c),
           UNCHANGED <<active, opened, flash>>,
           view' \in [Clients -> Record \cup {NoRecord}],
           \A cl \in Clients : view'[cl] \in {view[cl], NoRecord}
    PROVE  IInv'
<1> DEFINE r == [config |-> c, generation |-> NextGeneration(active.generation)]
<1> USE DEF IInv
<1>0. active \in Record
  BY DEF Idle, TypeOK
<1>1. r \in Record /\ r.generation = NextGeneration(active.generation)
  BY <1>0, NextGenerationType DEF Record
<1>2. /\ staged' \in {r, NoRecord} /\ doubt' \in {doubt, doubt \cup {r}}
      /\ saved' \in {saved, "Failed"} /\ saving' \in {"Idle", "Write"}
      /\ target' \in {target, TargetSlot}
      /\ saving' # "Idle" => opened /\ staged' = r /\ r \in doubt' /\ target' = TargetSlot
  BY DEF Save, Idle
<1> HIDE DEF r
<1>3. TypeOK'
  BY <1>1, <1>2, TargetIsOther DEF TypeOK, flash
<1>4. ViewInv'
  BY DEF ViewInv
<1>5. SaveInv'
  BY <1>0, <1>1, <1>2, RecordFields
     DEF SaveInv, TargetSlot, ActiveSlot, BothValid, Valid, flash
<1>6. SlotInv'
  BY <1>2 DEF SlotInv, Valid, flash
<1>7. TieInv'
  BY <1>2 DEF TieInv, BothValid, Valid, flash
<1> QED BY <1>3, <1>4, <1>5, <1>6, <1>7

LEMMA SaveUncheckedKeeps ==
    ASSUME NEW c \in Configs PROVE IInv /\ SaveUnchecked(c) => IInv'
BY SaveStarts DEF SaveUnchecked, IInv, TypeOK

LEMMA SaveCheckedKeeps ==
    ASSUME NEW cl \in Clients, NEW c \in Configs
    PROVE  IInv /\ SaveChecked(cl, c) => IInv'
<1> SUFFICES ASSUME IInv, SaveChecked(cl, c) PROVE IInv'
  OBVIOUS
<1>1. /\ view' \in [Clients -> Record \cup {NoRecord}]
      /\ \A d \in Clients : view'[d] \in {view[d], NoRecord}
  BY DEF SaveChecked, IInv, TypeOK
<1>2. CASE view[cl].generation = active.generation
  BY <1>1, <1>2, SaveStarts DEF SaveChecked
<1>3. CASE view[cl].generation # active.generation
  <2>1. TypeOK'
    BY <1>1, <1>3 DEF SaveChecked, IInv, TypeOK, flash
  <2>2. ViewInv'
    BY <1>1, <1>3 DEF SaveChecked, IInv, ViewInv
  <2>3. SaveInv' /\ SlotInv' /\ TieInv'
    BY <1>3 DEF SaveChecked, IInv, Idle, SaveInv, SlotInv, TieInv, BothValid, Valid, flash
  <2> QED BY <2>1, <2>2, <2>3 DEF IInv
<1> QED BY <1>2, <1>3

\* A bad write touches only the slot save chose, and leaves there what is in doubt.
LEMMA BadWriteEffect ==
    ASSUME IInv, saving = "Write",
           \E r \in AfterBadWrite(target) : slot' = [slot EXCEPT ![target] = r],
           marker' = marker, doubt' = doubt
    PROVE  /\ slot' \in [Slots -> Record \cup {NoRecord}]
           /\ \A s \in Slots \ {target} : slot'[s] = slot[s]
           /\ slot'[target] \in {slot[target], NoRecord, staged}
           /\ TieInv'
<1> USE DEF IInv
<1>0. staged \in Record /\ active \in Record /\ staged \in doubt /\ target \in Slots
  BY DEF SaveInv, TypeOK
<1>1. /\ slot' \in [Slots -> Record \cup {NoRecord}]
      /\ \A s \in Slots \ {target} : slot'[s] = slot[s]
      /\ slot'[target] \in {slot[target], NoRecord, staged}
  BY <1>0 DEF AfterBadWrite, TypeOK
<1>2. TieInv'
  <2>1. CASE slot'[target] # staged
    BY <1>0, <1>1, <2>1 DEF TieInv, BothValid, Valid, Slots
  <2>2. CASE slot'[target] = staged /\ target = "B"
    BY <1>0, <2>2 DEF TieInv
  <2>3. CASE slot'[target] = staged /\ target = "A"
    <3> SUFFICES ASSUME BothValid', staged.generation = slot["B"].generation,
                        staged.generation < MaxGeneration
                 PROVE  slot["B"] \in doubt
      BY <1>1, <2>3 DEF TieInv, Slots
    <3>1. slot["B"] # NoRecord /\ slot["B"] \in Record
      BY <1>1, <2>3 DEF BothValid, Valid, Slots
    <3>2. staged.generation = active.generation + 1
      BY <1>0, RecordFields DEF SaveInv, NextGeneration
    <3>3. \/ slot["B"].generation <= active.generation
          \/ slot["B"].generation = active.generation + 1 /\ slot["B"] \in doubt
      BY <3>1 DEF SlotInv, SaveInv, Valid, Slots
    <3>4. active.generation \in Nat /\ slot["B"].generation \in Nat
      BY <1>0, <3>1, RecordFields
    <3> QED BY <3>2, <3>3, <3>4
  <2> QED BY <1>0, <2>1, <2>2, <2>3 DEF Slots
<1> QED BY <1>1, <1>2

LEMMA WriteRecordKeeps == IInv /\ WriteRecord => IInv'
<1> SUFFICES ASSUME IInv, WriteRecord PROVE IInv'
  OBVIOUS
<1> USE DEF IInv
<1>0. /\ saving = "Write" /\ saving' \in {"Verify", "Idle"}
      /\ UNCHANGED <<active, opened, target, view, marker, doubt>>
      /\ saved' \in {saved, "Failed"} /\ staged' \in {staged, NoRecord}
      /\ saving' = "Verify" => staged' = staged
      /\ \E r \in AfterBadWrite(target) : slot' = [slot EXCEPT ![target] = r]
  BY DEF WriteRecord, FailSave
<1>1. /\ slot' \in [Slots -> Record \cup {NoRecord}]
      /\ \A s \in Slots \ {target} : slot'[s] = slot[s]
      /\ slot'[target] \in {slot[target], NoRecord, staged}
      /\ TieInv'
  BY <1>0, BadWriteEffect
<1>2. TypeOK'
  BY <1>0, <1>1 DEF TypeOK
<1>3. ViewInv'
  BY <1>0 DEF ViewInv
<1>4. SaveInv'
  BY <1>0 DEF SaveInv
<1>5. SlotInv'
  <2>1. active \in Record /\ staged.generation \in {active.generation, active.generation + 1}
    BY <1>0, RecordFields DEF SaveInv, TypeOK, NextGeneration
  <2> QED BY <1>0, <1>1, <2>1, RecordFields DEF SlotInv, SaveInv, Valid
<1> QED BY <1>1, <1>2, <1>3, <1>4, <1>5

LEMMA VerifyRecordKeeps == IInv /\ VerifyRecord => IInv'
<1> SUFFICES ASSUME IInv, VerifyRecord PROVE IInv'
  OBVIOUS
<1> USE DEF IInv
<1>0. /\ saving = "Verify" /\ saving' \in {"Mark", "Idle"}
      /\ UNCHANGED <<active, opened, target, view, slot, marker, doubt>>
      /\ saved' \in {saved, "Failed"} /\ staged' \in {staged, NoRecord}
      /\ saving' = "Mark" => staged' = staged /\ slot[target] = staged
  BY DEF VerifyRecord, FailSave, flash
<1>2. TypeOK'
  BY <1>0 DEF TypeOK
<1>3. ViewInv'
  BY <1>0 DEF ViewInv
<1>4. SaveInv'
  BY <1>0 DEF SaveInv
<1>5. SlotInv' /\ TieInv'
  BY <1>0 DEF SlotInv, TieInv, BothValid, Valid
<1> QED BY <1>2, <1>3, <1>4, <1>5

LEMMA MoveMarkerKeeps == IInv /\ MoveMarker => IInv'
<1> SUFFICES ASSUME IInv, MoveMarker PROVE IInv'
  OBVIOUS
<1> USE DEF IInv
<1>1. CASE FailSave /\ UNCHANGED slot
  <2>1. TypeOK'
    BY <1>1 DEF FailSave, TypeOK
  <2>2. ViewInv' /\ SaveInv' /\ SlotInv' /\ TieInv'
    BY <1>1 DEF FailSave, ViewInv, SaveInv, SlotInv, TieInv, BothValid, Valid
  <2> QED BY <2>1, <2>2
<1>2. CASE ~(FailSave /\ UNCHANGED slot)
  <2>0. /\ saving = "Mark" /\ saving' = "Idle" /\ marker' = target /\ active' = staged
        /\ staged' = NoRecord /\ saved' = "Saved" /\ doubt' = {staged} \ {Loaded}
        /\ UNCHANGED <<opened, target, view, slot>>
    BY <1>2 DEF MoveMarker
  <2>1. /\ staged \in Record /\ active \in Record /\ slot[target] = staged /\ opened
        /\ staged.generation = NextGeneration(active.generation)
    BY <2>0 DEF SaveInv, TypeOK
  <2>2. TypeOK'
    BY <2>0, <2>1 DEF TypeOK
  <2>3. ViewInv'
    BY <2>0, <2>1, RecordFields DEF ViewInv, NextGeneration, TypeOK
  <2>4. SaveInv'
    BY <2>0 DEF SaveInv
  <2>5. SlotInv'
    <3> SUFFICES ASSUME NEW s \in Slots, Valid(s)
                 PROVE  slot[s].generation <= staged.generation
      BY <2>0 DEF SlotInv, Valid
    <3>1. /\ slot[s].generation \in Nat /\ slot[s].generation <= MaxGeneration
          /\ active.generation \in Nat /\ active.generation <= MaxGeneration
      BY <2>1, RecordFields DEF Valid, TypeOK
    <3>2. slot[s].generation <= active.generation + 1
      BY <2>1, <3>1, RecordFields DEF SlotInv
    <3> QED BY <2>1, <3>1, <3>2, StoreConstants DEF NextGeneration
  <2>6. TieInv'
    <3> SUFFICES ASSUME BothValid, slot["A"].generation = slot["B"].generation, target = "B"
                 PROVE  slot["B"] \in ({staged} \ {Loaded}) \cup {slot["A"]}
      BY <2>0 DEF TieInv, BothValid, Valid
    <3>1. Loaded = slot["A"]
      BY RecordFields DEF Loaded, BothValid, Valid, TypeOK, Slots
    <3> QED BY <2>1, <3>1
  <2> QED BY <2>2, <2>3, <2>4, <2>5, <2>6
<1> QED BY <1>1, <1>2

LEMMA PowerCutKeeps == IInv /\ PowerCut => IInv'
<1> SUFFICES ASSUME IInv, PowerCut PROVE IInv'
  OBVIOUS
<1> USE DEF IInv
<1>0. /\ active' = NoRecord /\ staged' = NoRecord /\ opened' = FALSE /\ saving' = "Idle"
      /\ saved' = "NotAttempted" /\ view' = [cl \in Clients |-> NoRecord]
      /\ UNCHANGED <<target, doubt>>
  BY DEF PowerCut
<1>1. slot' \in [Slots -> Record \cup {NoRecord}] /\ TieInv'
  <2>1. CASE saving = "Write"
    BY <1>0, <2>1, BadWriteEffect DEF PowerCut
  <2>2. CASE saving # "Write" /\ marker' = marker
    BY <1>0, <2>2 DEF PowerCut, TypeOK, TieInv, BothValid, Valid
  <2>3. CASE saving = "Mark" /\ marker' = target
    BY <1>0, <2>3 DEF PowerCut, TypeOK, SaveInv, TieInv, BothValid, Valid
  <2> QED BY <2>1, <2>2, <2>3 DEF PowerCut
<1>2. TypeOK'
  BY <1>0, <1>1 DEF PowerCut, TypeOK
<1>3. ViewInv' /\ SaveInv' /\ SlotInv'
  BY <1>0 DEF ViewInv, SaveInv, SlotInv
<1> QED BY <1>1, <1>2, <1>3

LEMMA StepKeepsIInv == IInv /\ [Next]_vars => IInv'
<1> SUFFICES ASSUME IInv, [Next]_vars PROVE IInv'
  OBVIOUS
<1>1. CASE UNCHANGED vars
  <2>1. TypeOK'
    BY <1>1 DEF IInv, TypeOK, vars, memory, flash
  <2>2. ViewInv' /\ SlotInv' /\ TieInv'
    BY <1>1 DEF IInv, ViewInv, SlotInv, TieInv, BothValid, Valid, vars, memory, flash
  <2>3. SaveInv'
    BY <1>1 DEF IInv, SaveInv, TargetSlot, ActiveSlot, BothValid, Valid, vars, memory, flash
  <2> QED BY <2>1, <2>2, <2>3 DEF IInv
<1>2. CASE Next
  BY <1>2, BootKeeps, ReadKeeps, SaveUncheckedKeeps, SaveCheckedKeeps, WriteRecordKeeps,
     VerifyRecordKeeps, MoveMarkerKeeps, PowerCutKeeps DEF Next
<1> QED BY <1>1, <1>2

\* The inductive invariant holds in every state: what save has established by each of its
\* steps, and what the two slots can hold beside the active configuration.
THEOREM Invariance == Spec => []IInv
BY InitIInv, StepKeepsIInv, PTL DEF Spec

\* Every variable of ConfigurationService, NvsSettingsStore and the flash keeps its type.
THEOREM TypeCorrect == Spec => []TypeOK
BY Invariance, PTL DEF IInv

\* A client whose generation is still the active one has seen the active configuration,
\* until generations saturate: a checked save never replaces one its client has not seen.
THEOREM GenerationSafe == Spec => []GenerationNamesConfiguration
<1>1. IInv => GenerationNamesConfiguration
  BY DEF IInv, ViewInv, GenerationNamesConfiguration
<1> QED BY <1>1, Invariance, PTL

----------------------------------------------------------------------------
(* A stored record survives. *)

LEMMA StepKeepsRecord ==
    ASSUME IInv, Next, \E s \in Slots : Valid(s)
    PROVE  (\E s \in Slots : Valid(s))'
<1>1. CASE UNCHANGED slot
  BY <1>1 DEF Valid
<1>2. CASE /\ saving = "Write"
           /\ \E r \in AfterBadWrite(target) : slot' = [slot EXCEPT ![target] = r]
  <2>1. target = TargetSlot /\ target \in Slots /\ slot \in [Slots -> Record \cup {NoRecord}]
    BY <1>2 DEF IInv, SaveInv, TypeOK
  <2>2. PICK s \in Slots \ {target} : Valid(s)
    BY <2>1, TargetIsOther DEF IInv
  <2> QED BY <1>2, <2>1, <2>2 DEF Valid
<1>3. UNCHANGED slot \/ (/\ saving = "Write"
           /\ \E r \in AfterBadWrite(target) : slot' = [slot EXCEPT ![target] = r])
  BY DEF Next, Boot, Read, SaveUnchecked, SaveChecked, WriteRecord, VerifyRecord,
         MoveMarker, PowerCut, FailSave, flash
<1> QED BY <1>1, <1>2, <1>3

\* Whatever fails in NvsSettingsStore::save and whenever the power goes, a device that
\* once stored a configuration finds one when load runs at its next boot.
THEOREM RecordAlwaysSurvives == Spec => RecordSurvives
<1>1. IInv /\ [Next]_vars
        => [(\E s \in Slots : Valid(s)) => (\E s \in Slots : Valid(s))']_vars
  BY StepKeepsRecord
<1> QED BY <1>1, Invariance, PTL DEF Spec, RecordSurvives

----------------------------------------------------------------------------
(* The store implements its contract. *)

Pending == IF saving = "Idle" THEN NoRecord ELSE staged

\* What load finds after a bad write of the slot save chose is what it found before,
\* or a configuration in doubt; once the counter is exhausted, some record.
LEMMA BadWriteMoves ==
    ASSUME IInv, saving = "Write",
           \E r \in AfterBadWrite(target) : slot' = [slot EXCEPT ![target] = r]
    PROVE  \/ Loaded' = Loaded
           \/ Loaded' \in (IF active.generation < MaxGeneration THEN doubt ELSE Record)
<1>0. /\ target \in Slots /\ target = TargetSlot /\ opened
      /\ active \in Record /\ staged \in Record /\ staged \in doubt
      /\ staged.generation = NextGeneration(active.generation)
      /\ slot \in [Slots -> Record \cup {NoRecord}]
  BY DEF IInv, SaveInv, TypeOK
<1>1. /\ slot' \in [Slots -> Record \cup {NoRecord}]
      /\ slot'[target] \in {slot[target], NoRecord, staged}
      /\ \A s \in Slots \ {target} : slot'[s] = slot[s]
  BY <1>0 DEF AfterBadWrite
<1>2. CASE slot'[target] = slot[target]
  <2>1. slot' = slot
    BY <1>0, <1>1, <1>2
  <2> QED BY <2>1 DEF Loaded, BothValid, Valid
<1>3. CASE Loaded' # Loaded /\ active.generation = MaxGeneration
  <2>1. Loaded' \in Record
    BY <1>0, <1>1, <1>3, RecordFields
       DEF Loaded, TargetSlot, ActiveSlot, BothValid, Valid, Slots
  <2> QED BY <1>3, <2>1, RecordFields, <1>0
<1>4. CASE slot'[target] = staged /\ active.generation < MaxGeneration
  <2>1. \A s \in Slots : Valid(s) =>
          slot[s].generation <= staged.generation /\
          (slot[s].generation = staged.generation => slot[s] \in doubt)
    <3>1. staged.generation = active.generation + 1 /\ active.generation \in Nat
      BY <1>0, <1>4, RecordFields DEF NextGeneration
    <3> SUFFICES ASSUME NEW s \in Slots, Valid(s)
                 PROVE  /\ slot[s].generation <= staged.generation
                        /\ slot[s].generation = staged.generation => slot[s] \in doubt
      OBVIOUS
    <3>2. slot[s].generation \in Nat
      BY <1>0, RecordFields DEF Valid
    <3>3. \/ slot[s].generation <= active.generation
          \/ slot[s].generation = active.generation + 1 /\ slot[s] \in doubt
      BY <1>0, RecordFields DEF IInv, SlotInv
    <3> QED BY <3>1, <3>2, <3>3
  <2>2. Loaded' \in doubt
    BY <1>0, <1>1, <1>4, <2>1, RecordFields DEF Loaded, BothValid, Valid, Slots
  <2> QED BY <1>4, <2>2
<1>5. CASE slot'[target] = NoRecord /\ active.generation < MaxGeneration
  <2>1. CASE BothValid /\ slot["A"].generation = slot["B"].generation
    <3>1. CASE marker = "B"
      <4>1. target = "A" /\ Loaded = slot["A"] /\ Loaded' = slot["B"]
        BY <1>0, <1>1, <1>5, <2>1, <3>1, RecordFields
           DEF Loaded, TargetSlot, ActiveSlot, BothValid, Valid, Slots
      <4>2. CASE slot["B"].generation < MaxGeneration
        BY <1>5, <2>1, <3>1, <4>1, <4>2 DEF IInv, TieInv
      <4>3. CASE ~(slot["B"].generation < MaxGeneration)
        <5>1. slot["B"] # NoRecord /\ slot["B"] \in Record
          BY <1>0, <2>1 DEF BothValid, Valid, Slots
        <5>2. \/ slot["B"].generation <= active.generation
              \/ slot["B"] \in doubt
          BY <1>0, <5>1, RecordFields DEF IInv, SlotInv, Valid, Slots
        <5>3. active.generation \in Nat /\ slot["B"].generation \in Nat
          BY <1>0, <5>1, RecordFields
        <5> QED BY <1>5, <4>1, <4>3, <5>2, <5>3, StoreConstants
      <4> QED BY <4>2, <4>3
    <3>2. CASE marker # "B"
      BY <1>0, <1>1, <1>5, <2>1, <3>2, RecordFields
         DEF Loaded, TargetSlot, ActiveSlot, BothValid, Valid, Slots
    <3> QED BY <3>1, <3>2
  <2>2. CASE ~(BothValid /\ slot["A"].generation = slot["B"].generation)
    BY <1>0, <1>1, <1>5, <2>2, RecordFields
       DEF Loaded, TargetSlot, ActiveSlot, BothValid, Valid, Slots
  <2> QED BY <2>1, <2>2
<1>6. active.generation < MaxGeneration \/ active.generation = MaxGeneration
  BY <1>0, RecordFields, StoreConstants
<1> QED BY <1>1, <1>2, <1>3, <1>4, <1>5, <1>6

\* A save that moved the marker is durable unless an earlier one is still in doubt.
LEMMA MarkedIsLoaded ==
    ASSUME IInv, saving = "Mark", doubt = {staged}, active.generation < MaxGeneration
    PROVE  Loaded = staged
<1>0. /\ target \in Slots /\ opened /\ active \in Record /\ staged \in Record
      /\ staged.generation = active.generation + 1 /\ slot[target] = staged
      /\ slot \in [Slots -> Record \cup {NoRecord}]
  BY DEF IInv, SaveInv, TypeOK, NextGeneration
<1>1. ASSUME NEW s \in Slots, Valid(s)
      PROVE  slot[s].generation < staged.generation \/ slot[s] = staged
  <2>1. slot[s].generation <= active.generation \/ slot[s] \in doubt
    BY <1>0, <1>1, RecordFields DEF IInv, SlotInv
  <2>2. slot[s].generation \in Nat /\ active.generation \in Nat
    BY <1>0, <1>1, RecordFields DEF Valid
  <2> QED BY <1>0, <2>1, <2>2
<1> QED BY <1>0, <1>1, RecordFields DEF Loaded, BothValid, Valid, Slots

LEMMA ContractInit == Init => Contract!Init
BY DEF Init, Contract!Init, Loaded, BothValid, Valid, Slots

LEMMA BootImplements == Boot /\ IInv => [Contract!Next]_(Contract!vars)
<1> SUFFICES ASSUME Boot, IInv PROVE Contract!Boot
  BY DEF Contract!Next
<1>1. Loaded' = Loaded
  BY DEF Boot, flash, Loaded, BothValid, Valid
<1> QED BY <1>1 DEF Boot, Contract!Boot, Default, Contract!Default

LEMMA BeginImplements ==
    ASSUME IInv, Idle, NEW c \in Configs, Save(c), UNCHANGED <<active, flash>>
    PROVE  [Contract!Next]_(Contract!vars)
<1> DEFINE r == [config |-> c, generation |-> NextGeneration(active.generation)]
<1>0. active \in Record /\ active # NoRecord /\ saving = "Idle"
  BY DEF Idle, IInv, TypeOK
<1>1. Loaded' = Loaded
  BY DEF flash, Loaded, BothValid, Valid
<1>2. r \in Record /\ r \in Contract!Record
  BY <1>0, RecordFields, NextGenerationType DEF Record, Contract!Record
<1>3. CASE opened
  <2>1. /\ Pending' = r /\ Pending = NoRecord /\ doubt' = doubt \cup {r}
    BY <1>0, <1>3 DEF Save, Pending
  <2>2. r.generation = IF active.generation < MaxGeneration
                       THEN active.generation + 1 ELSE MaxGeneration
    <3>1. active.generation \in Nat /\ active.generation <= MaxGeneration
      BY <1>0, RecordFields
    <3> QED BY <3>1, StoreConstants DEF NextGeneration
  <2> HIDE DEF r
  <2>3. Contract!Begin(r)
    BY <1>0, <1>1, <2>1, <2>2 DEF Contract!Begin, Pending
  <2> QED BY <1>2, <2>3 DEF Contract!Next
<1>4. CASE ~opened
  BY <1>0, <1>1, <1>4 DEF Save, Contract!vars
<1> QED BY <1>3, <1>4

LEMMA WriteImplements == WriteRecord /\ IInv => [Contract!Next]_(Contract!vars)
<1> SUFFICES ASSUME WriteRecord, IInv PROVE Contract!Next
  OBVIOUS
<1>0. staged # NoRecord
  BY RecordFields DEF WriteRecord, IInv, SaveInv
<1>1. \/ Loaded' = Loaded
      \/ Loaded' \in (IF active.generation < MaxGeneration THEN doubt ELSE Record)
  BY BadWriteMoves DEF WriteRecord
<1>2. Contract!StoredMayMove
  BY <1>0, <1>1 DEF WriteRecord, Contract!StoredMayMove, Record, Contract!Record
<1> QED BY <1>0, <1>2
       DEF WriteRecord, FailSave, Contract!Next, Contract!Write, Contract!Failed

LEMMA VerifyImplements == VerifyRecord /\ IInv => [Contract!Next]_(Contract!vars)
<1> SUFFICES ASSUME VerifyRecord, IInv PROVE [Contract!Next]_(Contract!vars)
  OBVIOUS
<1>0. staged # NoRecord /\ Loaded' = Loaded
  BY RecordFields
     DEF VerifyRecord, FailSave, flash, IInv, SaveInv, Loaded, BothValid, Valid
<1> QED BY <1>0 DEF VerifyRecord, FailSave, flash, Contract!Next, Contract!vars,
                    Contract!Failed, Contract!StoredMayMove

LEMMA MarkImplements == MoveMarker /\ IInv => [Contract!Next]_(Contract!vars)
<1> SUFFICES ASSUME MoveMarker, IInv PROVE Contract!Next
  OBVIOUS
<1>0. staged # NoRecord /\ Loaded' = Loaded
  BY RecordFields DEF MoveMarker, FailSave, IInv, SaveInv, Loaded, BothValid, Valid
<1>1. doubt = {staged} /\ active.generation < MaxGeneration => Loaded = staged
  BY MarkedIsLoaded DEF MoveMarker
<1> QED BY <1>0, <1>1 DEF MoveMarker, FailSave, Contract!Next, Contract!Saved,
                          Contract!Failed, Contract!StoredMayMove

LEMMA PowerCutImplements == PowerCut /\ IInv => [Contract!Next]_(Contract!vars)
<1> SUFFICES ASSUME PowerCut, IInv PROVE Contract!PowerCut
  BY DEF Contract!Next
<1>1. CASE saving = "Write"
  <2>0. staged # NoRecord
    BY <1>1, RecordFields DEF IInv, SaveInv
  <2>1. \/ Loaded' = Loaded
        \/ Loaded' \in (IF active.generation < MaxGeneration THEN doubt ELSE Record)
    BY <1>1, BadWriteMoves DEF PowerCut
  <2>2. Contract!StoredMayMove
    BY <1>1, <2>0, <2>1 DEF Contract!StoredMayMove, Record, Contract!Record
  <2> QED BY <2>2 DEF PowerCut, Contract!PowerCut
<1>2. CASE saving # "Write"
  <2>1. Loaded' = Loaded
    BY <1>2 DEF PowerCut, Loaded, BothValid, Valid
  <2> QED BY <2>1 DEF PowerCut, Contract!PowerCut, Contract!StoredMayMove
<1> QED BY <1>1, <1>2

LEMMA StepImplements == IInv /\ [Next]_vars => [Contract!Next]_(Contract!vars)
<1> SUFFICES ASSUME IInv, [Next]_vars PROVE [Contract!Next]_(Contract!vars)
  OBVIOUS
<1>1. CASE UNCHANGED vars
  BY <1>1 DEF vars, memory, flash, Contract!vars, Loaded, BothValid, Valid
<1>2. ASSUME NEW cl \in Clients, Read(cl) PROVE UNCHANGED Contract!vars
  BY <1>2 DEF Read, flash, Contract!vars, Loaded, BothValid, Valid
<1>3. ASSUME NEW c \in Configs, SaveUnchecked(c) PROVE [Contract!Next]_(Contract!vars)
  BY <1>3, BeginImplements DEF SaveUnchecked
<1>4. ASSUME NEW cl \in Clients, NEW c \in Configs, SaveChecked(cl, c)
      PROVE  [Contract!Next]_(Contract!vars)
  <2>1. CASE Save(c)
    BY <1>4, <2>1, BeginImplements DEF SaveChecked
  <2>2. CASE ~Save(c)
    BY <1>4, <2>2 DEF SaveChecked, flash, Contract!vars, Loaded, BothValid, Valid
  <2> QED BY <2>1, <2>2
<1> QED BY <1>1, <1>2, <1>3, <1>4, BootImplements, WriteImplements, VerifyImplements,
           MarkImplements, PowerCutImplements DEF Next

\* Every behaviour of the two slots and the marker is one the contract allows: a save is
\* atomic and durable unless an earlier one failed, and a failed one leaves the stored
\* configuration at something that was stored or asked for.
THEOREM StoreKeepsContract == Spec => ContractKept
BY ContractInit, StepImplements, Invariance, PTL DEF Spec, ContractKept, Contract!Spec
============================================================================
