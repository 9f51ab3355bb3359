----------------------------- MODULE MCRecords ------------------------------
(***************************************************************************)
(* What becomes of records and files: normalization, duplicate groups,     *)
(* plugins, search profiles, readiness, visual projects, the console, the  *)
(* reverse lab and copies of the database.  They share no state in the     *)
(* code that is modelled, so each is explored by itself: part says which   *)
(* one moves, the others rest in an initial state.                         *)
(***************************************************************************)
EXTENDS NormalizationRuns, DuplicateGroups, PluginRuns, ProfileStore, ReadinessCache,
        VisualStore, ConsoleLauncher, LabGate, DatabaseCopies, TLC

VARIABLE part  \* the component whose behaviours are explored

\* The second configuration has profiles for more records than the first.
MCNormProfiled == <<{"x"}, {"x", "y"}>>

\* A batch boundary after two of the three documents the plugin accepts.
MCPlugDocs == <<"accepted", "quarantined", "warning", "accepted">>

Symmetry == Permutations(CopyPaths)

\* Bound: two of them at once, a backup beside an upgrade, two backups or
\* restores, or two upgrades.
CopyParts == {"copies", "commands", "upgrades"}
CopyPair ==
  LET call == CHOOSE c \in CopyCalls : TRUE  start == CHOOSE s \in CopyStarts : TRUE IN
  \/ /\ part = "copies" /\ copyCall'[call].kind = "backup"
     /\ \A c \in CopyCalls \ {call} : copyCall'[c] = copyCall[c]
     /\ \A s \in CopyStarts \ {start} : copyStart'[s] = copyStart[s]
  \/ part = "commands" /\ UNCHANGED copyStart
  \/ part = "upgrades" /\ UNCHANGED copyCall

Parts == {"norm", "duplicates", "plugin", "profile", "ready", "visual",
          "console", "lab"} \cup CopyParts

RecordsInit ==
  /\ part \in Parts
  /\ NormInit
  /\ DupInit
  /\ PlugInit
  /\ ProfInit
  /\ ReadyInit
  /\ VisInit
  /\ LaunchInit
  /\ LabInit
  /\ CopyInit
  /\ part # "lab" => labTarget = CHOOSE t \in LabTarget : t.allowed
  /\ part \notin CopyParts => copyTables = CopySchema(CopyHead)

RecordsNext ==
  \/ /\ part = "norm" /\ NormNext
     /\ UNCHANGED <<part, dupVars, plugVars, profVars, readyVars, visVars,
                    launchVars, labVars, copyVars>>
  \/ /\ part = "duplicates" /\ DupNext
     /\ UNCHANGED <<part, normVars, plugVars, profVars, readyVars, visVars,
                    launchVars, labVars, copyVars>>
  \/ /\ part = "plugin" /\ PlugNext
     /\ UNCHANGED <<part, normVars, dupVars, profVars, readyVars, visVars,
                    launchVars, labVars, copyVars>>
  \/ /\ part = "profile" /\ ProfNext
     /\ UNCHANGED <<part, normVars, dupVars, plugVars, readyVars, visVars,
                    launchVars, labVars, copyVars>>
  \/ /\ part = "ready" /\ ReadyNext
     /\ UNCHANGED <<part, normVars, dupVars, plugVars, profVars, visVars,
                    launchVars, labVars, copyVars>>
  \/ /\ part = "visual" /\ VisNext
     /\ UNCHANGED <<part, normVars, dupVars, plugVars, profVars, readyVars,
                    launchVars, labVars, copyVars>>
  \/ /\ part = "console" /\ LaunchNext
     /\ UNCHANGED <<part, normVars, dupVars, plugVars, profVars, readyVars,
                    visVars, labVars, copyVars>>
  \/ /\ part = "lab" /\ LabNext
     /\ UNCHANGED <<part, normVars, dupVars, plugVars, profVars, readyVars,
                    visVars, launchVars, copyVars>>
  \/ /\ CopyNext /\ CopyPair
     /\ UNCHANGED <<part, normVars, dupVars, plugVars, profVars, readyVars,
                    visVars, launchVars, labVars>>

recordsVars == <<part, normVars, dupVars, plugVars, profVars, readyVars,
                   visVars, launchVars, labVars, copyVars>>

RecordsSpec == RecordsInit /\ [][RecordsNext]_recordsVars

\* Every component is well formed, whatever failed or raced before.
RecordTypeOK ==
  /\ part \in Parts
  /\ NormTypeOK /\ DupTypeOK /\ PlugTypeOK /\ ProfTypeOK
  /\ ReadyTypeOK /\ VisTypeOK /\ LaunchTypeOK /\ LabTypeOK
  /\ CopyTypeOK
=============================================================================
