----------------------- MODULE ConfigurationContract -----------------------
(***************************************************************************)
(* What the configuration service promises its clients: one active         *)
(* configuration with a generation, and one stored configuration that the  *)
(* next boot makes active.  A save that follows a boot or another          *)
(* successful save is atomic and durable.  A save that failed or was cut   *)
(* off leaves the stored configuration in doubt, but always at something   *)
(* that was stored or asked for, and never changes the active one.         *)
(***************************************************************************)
EXTENDS Naturals

CONSTANTS
    Configs,        \* what a configuration says, its generation apart
    DefaultConfig,  \* the defaults, of generation 0
    MaxGeneration,  \* the generation counter saturates here
    NoRecord

Record == [config : Configs, generation : 0 .. MaxGeneration]
Default == [config |-> DefaultConfig, generation |-> 0]

VARIABLES
    active,   \* the configuration in use; NoRecord while the device is off
    pending,  \* the configuration being saved, or NoRecord
    stored,   \* what the next boot would find, or NoRecord
    doubt     \* configurations asked for since the last durable save, the pending one included

vars == <<active, pending, stored, doubt>>

Init ==
    /\ active = NoRecord
    /\ pending = NoRecord
    /\ stored = NoRecord
    /\ doubt = {}

\* A store that does not open leaves the device on its defaults.
Boot ==
    /\ active = NoRecord
    /\ active' \in {Default} \cup (IF stored = NoRecord THEN {} ELSE {stored})
    /\ UNCHANGED <<pending, stored, doubt>>

Begin(r) ==
    /\ active # NoRecord /\ pending = NoRecord
    /\ r.generation = (IF active.generation < MaxGeneration
                       THEN active.generation + 1 ELSE MaxGeneration)
    /\ pending' = r
    /\ doubt' = doubt \cup {r}
    /\ UNCHANGED <<active, stored>>

\* While a save is under way the stored configuration moves only to one in doubt.
\* Once the generation counter is exhausted nothing is promised about it.
StoredMayMove ==
    \/ UNCHANGED stored
    \/ /\ pending # NoRecord
       /\ stored' \in (IF active.generation < MaxGeneration THEN doubt ELSE Record)

Write ==
    /\ pending # NoRecord
    /\ StoredMayMove
    /\ UNCHANGED <<active, pending, doubt>>

\* Success is durable unless an earlier save is still in doubt.
Saved ==
    /\ pending # NoRecord
    /\ doubt = {pending} /\ active.generation < MaxGeneration => stored = pending
    /\ active' = pending
    /\ pending' = NoRecord
    /\ doubt' = {pending} \ {stored}
    /\ UNCHANGED stored

Failed ==
    /\ pending # NoRecord
    /\ pending' = NoRecord
    /\ StoredMayMove
    /\ UNCHANGED <<active, doubt>>

\* A power cut, alone or in the middle of a write.
PowerCut ==
    /\ active # NoRecord
    /\ active' = NoRecord
    /\ pending' = NoRecord
    /\ StoredMayMove
    /\ UNCHANGED doubt

Next ==
    \/ Boot
    \/ \E r \in Record : Begin(r)
    \/ Write
    \/ Saved
    \/ Failed
    \/ PowerCut

Spec == Init /\ [][Next]_vars
============================================================================
