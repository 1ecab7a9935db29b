------------------------- MODULE ConfigurationFiles -------------------------
(***************************************************************************)
(* The configuration bundles of LittleFsConfigurationSource: one file per  *)
(* section under /config, /config/.backup and /config/.staging.  A boot    *)
(* without a configuration in the NVS loads a bundle and mirrors it; the   *)
(* command store-config writes one.  A file is replaced by a remove and a  *)
(* rename, and power may fail anywhere, so bundles lose sections and mix.  *)
(* A section is the number of the store-config that wrote it.              *)
(***************************************************************************)
EXTENDS Naturals

CONSTANTS
    SectionCount,    \* sectionFileNames, seven in the code
    MaxStores        \* bound on store-config

ASSUME FilesAssumption == SectionCount \in Nat \ {0} /\ MaxStores \in Nat

VARIABLE files

Sections == 1 .. SectionCount
Missing == 0
Deployed == 1       \* the bundle of the filesystem image
Bundle == [Sections -> 0 .. MaxStores + 1]
Uniform(n) == [s \in Sections |-> n]

\* What runs: a copy of one directory to another, section by section.
JobKind ==
    {"Off", "Idle",
     "Stage",                   \* store: the active configuration is written to staging
     "BackupBeforePromote",     \* store: the primary bundle to the backup
     "Promote",                 \* store: staging to the primary bundle
     "BackupAtBoot", "Restore"} \* load: the primary to the backup, or back

Files ==
    [primary : Bundle, backup : Bundle, staging : Bundle,
     job : JobKind, at : Sections,
     mounted : BOOLEAN,
     mixtureFits : BOOLEAN,       \* a mixture of two bundles is accepted
     stores : Deployed .. MaxStores + 1,
     stored : 0 .. MaxStores + 1] \* the last store-config that reported success

----------------------------------------------------------------------------
(* Loading. *)

\* Every section is there and is an object; a rename leaves no torn file.
Complete(bundle) == \A s \in Sections : bundle[s] # Missing

\* Sections are validated one by one, so a mixture of two valid bundles is accepted,
\* but for the size of the whole.
Accepted(f, bundle) == f.mixtureFits \/ \E n \in Deployed .. MaxStores + 1 : bundle = Uniform(n)

Loads(f, bundle) == Complete(bundle) /\ Accepted(f, bundle)

\* The bundle that load returns; the embedded configuration is not one.
BootBundle(f) ==
    IF Loads(f, f.primary) THEN f.primary
    ELSE IF Loads(f, f.backup) THEN f.backup
    ELSE Uniform(Missing)

Start(f, job) == [f EXCEPT !.job = job, !.at = 1]
Finish(f) == Start(f, "Idle")

\* load: the primary bundle refreshes the backup, or the backup restores the primary.
LoadBundles(f) ==
    IF ~f.mounted THEN Finish(f)
    ELSE IF Loads(f, f.primary) THEN Start(f, "BackupAtBoot")
    ELSE IF Loads(f, f.backup) THEN Start(f, "Restore")
    ELSE Finish(f)

\* Only a boot that finds no configuration in the NVS asks for the default.
BootFiles ==
    /\ files.job = "Off"
    /\ \E mounted, needsDefault \in BOOLEAN :
         files' = IF needsDefault THEN LoadBundles([files EXCEPT !.mounted = mounted])
                  ELSE Finish([files EXCEPT !.mounted = mounted])

----------------------------------------------------------------------------
(* Storing. *)

StoreConfig ==
    /\ files.job = "Idle" /\ files.mounted
    /\ files.stores < MaxStores + 1
    /\ files' = Start([files EXCEPT !.stores = @ + 1], "Stage")

\* The section that a job is at, with what its destination holds.
WithSection(f, n) ==
    CASE f.job = "Stage" -> [f EXCEPT !.staging[f.at] = n]
      [] f.job \in {"BackupBeforePromote", "BackupAtBoot"} -> [f EXCEPT !.backup[f.at] = n]
      [] f.job \in {"Promote", "Restore"} -> [f EXCEPT !.primary[f.at] = n]

SourceSection(f) ==
    CASE f.job = "Stage" -> f.stores
      [] f.job \in {"BackupBeforePromote", "BackupAtBoot"} -> f.primary[f.at]
      [] f.job = "Promote" -> f.staging[f.at]
      [] f.job = "Restore" -> f.backup[f.at]

\* Slip: the staged bundle is promoted over the only copy of the current one.
StagedUnmirrored(f) == IF Loads(f, f.staging) THEN Start(f, "Promote") ELSE Finish(f)

\* The staged bundle is verified, and a primary bundle that loads is mirrored first.
Staged(f) ==
    IF ~Loads(f, f.staging) THEN Finish(f)
    ELSE IF Loads(f, f.primary) THEN Start(f, "BackupBeforePromote")
    ELSE Start(f, "Promote")

Completed(f) ==
    CASE f.job = "Stage" -> Staged(f)
      [] f.job = "BackupBeforePromote" -> Start(f, "Promote")
      [] f.job = "Promote" -> Finish([f EXCEPT !.stored = f.stores])
      [] OTHER -> Finish(f)

Busy == files.job \notin {"Off", "Idle"}

\* copyFileAtomically and writeDocumentAtomically: a temporary file, the destination
\* removed, the rename.
CopySection ==
    /\ Busy
    /\ SourceSection(files) # Missing
    /\ \E copied \in {WithSection(files, SourceSection(files))} :
         files' = IF files.at < SectionCount THEN [copied EXCEPT !.at = @ + 1]
                  ELSE Completed(copied)

\* A failing step gives the job up, before the destination is removed or after it.
FailSection ==
    /\ Busy
    /\ \E after \in {files, WithSection(files, Missing)} : files' = Finish(after)

CutPower ==
    /\ files.job # "Off"
    /\ \E after \in {files} \cup (IF Busy THEN {WithSection(files, Missing)} ELSE {}) :
         files' = Start(after, "Off")

FilesBefore(image, mixtureFits) ==
    [primary |-> Uniform(IF image THEN Deployed ELSE Missing),
     backup |-> Uniform(Missing), staging |-> Uniform(Missing),
     job |-> "Off", at |-> 1, mounted |-> FALSE, mixtureFits |-> mixtureFits,
     stores |-> Deployed, stored |-> 0]

FilesInit == \E image, mixtureFits \in BOOLEAN : files = FilesBefore(image, mixtureFits)

FilesNext == BootFiles \/ StoreConfig \/ CopySection \/ FailSection \/ CutPower

----------------------------------------------------------------------------
FilesTypeOK == files \in Files

\* Once a store-config has reported success, a bundle loads at every moment, whatever
\* fails or is cut off in later ones and in the mirroring at boot, and no section of
\* the one that loads is older than the stored configuration.
BundleSurvives ==
    files.stored # 0 => \A s \in Sections : BootBundle(files)[s] >= files.stored
=============================================================================
