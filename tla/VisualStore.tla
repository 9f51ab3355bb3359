----------------------------- MODULE VisualStore -----------------------------
(***************************************************************************)
(* The visual projects of the workbench (visual_workbench/store.py,        *)
(* api/visual.py): a directory of files for each project, published by a   *)
(* rename; an uploaded image is put beside the manifest later, in two      *)
(* steps.  All calls hold the store's lock; a kill may come at any step.   *)
(***************************************************************************)
EXTENDS Naturals, FiniteSets

CONSTANTS
  VisIds,     \* projects
  VisImages,  \* uploaded images, by their digest
  VisLimit,   \* projects the store takes
  VisKills    \* bound: kills and failed writes

ASSUME VisAssumption == VisImages \cap {"absent", "none", "demo"} = {}
                          /\ VisLimit \in Nat /\ VisKills \in Nat

VARIABLES
  visManifest,  \* project.json of a published project: the image it names
  visFile,      \* image.png of a project
  visKnown,     \* store.projects: the image of each project that is known
  visStaged,    \* the staging directory
  visCall,      \* the call that holds the lock
  visUploaded,  \* history: uploads that were answered
  visKilled

visDisk == <<visManifest, visFile, visStaged>>
visVars == <<visDisk, visKnown, visCall, visUploaded, visKilled>>
-----------------------------------------------------------------------------
VisImage == VisImages \cup {"demo", "none"}
VisIdle == [pc |-> "idle", project |-> {}, image |-> "none"]
VisPublished == {x \in VisIds : visManifest[x] # "absent"}
VisSet(pc) == visCall' = [visCall EXCEPT !.pc = pc]

VisInit ==
  /\ visManifest = [x \in VisIds |-> "absent"]
  /\ visFile = [x \in VisIds |-> "none"]
  /\ visKnown = [x \in VisIds |-> "absent"]
  /\ visStaged = {}
  /\ visCall = VisIdle
  /\ visUploaded = {}
  /\ visKilled = 0

\* reload: the projects that are not known yet, as their manifests are.
VisReload == [x \in VisIds |-> IF visKnown[x] = "absent" THEN visManifest[x] ELSE visKnown[x]]

\* create, create_demo: the image is "none" or "demo".
VisCreate(x, image) ==
  /\ visCall.pc = "idle" /\ visManifest[x] = "absent"
  /\ visKnown' = VisReload
  /\ IF Cardinality({y \in VisIds : VisReload[y] # "absent"}) >= VisLimit
     THEN UNCHANGED <<visCall, visStaged>>
     ELSE visCall' = [pc |-> "stage", project |-> {x}, image |-> image] /\ visStaged' = {}
  /\ UNCHANGED <<visManifest, visFile, visUploaded, visKilled>>

\* _persist_new: the layers and the image, then the manifest.
VisStage ==
  /\ visCall.pc = "stage" /\ "manifest" \notin visStaged
  /\ visStaged' = IF visCall.image = "demo" /\ visStaged = {} THEN {"image"}
                  ELSE visStaged \cup {"manifest"}
  /\ UNCHANGED <<visManifest, visFile, visKnown, visCall, visUploaded, visKilled>>

VisPublish ==
  /\ visCall.pc = "stage" /\ "manifest" \in visStaged
  /\ \E x \in visCall.project :
       /\ visManifest' = [visManifest EXCEPT ![x] = visCall.image]
       /\ visFile' = [visFile EXCEPT ![x] = IF "image" \in visStaged THEN "demo" ELSE "none"]
       /\ visKnown' = [visKnown EXCEPT ![x] = visCall.image]
  /\ visStaged' = {}
  /\ visCall' = VisIdle
  /\ UNCHANGED <<visUploaded, visKilled>>

\* Mutant: a project that has an image takes another one.
VisTakesAny(x) == VisReload[x] # "absent"

\* attach_image: the project is there and has no image yet.
VisTakes(x) == VisReload[x] = "none"

VisAttach(x, image) ==
  /\ visCall.pc = "idle"
  /\ visKnown' = VisReload
  /\ visCall' = IF VisTakes(x) THEN [pc |-> "image", project |-> {x}, image |-> image] ELSE VisIdle
  /\ UNCHANGED <<visDisk, visUploaded, visKilled>>

\* Mutant: the manifest is replaced before the image.
VisManifestFirst ==
  /\ visCall.pc = "image"
  /\ visManifest' = [x \in VisIds |-> IF x \in visCall.project THEN visCall.image ELSE visManifest[x]]
  /\ VisSet("manifest")
  /\ UNCHANGED <<visFile, visKnown, visStaged, visUploaded, visKilled>>

VisPutImage ==
  /\ visCall.pc = "image"
  /\ visFile' = [x \in VisIds |-> IF x \in visCall.project THEN visCall.image ELSE visFile[x]]
  /\ VisSet("manifest")
  /\ UNCHANGED <<visManifest, visKnown, visStaged, visUploaded, visKilled>>

VisPutManifest ==
  LET put(old) == [x \in VisIds |-> IF x \in visCall.project THEN visCall.image ELSE old[x]] IN
  /\ visCall.pc = "manifest"
  /\ visManifest' = put(visManifest)
  /\ visKnown' = put(visKnown)
  /\ visUploaded' = visUploaded \cup {<<x, visCall.image>> : x \in visCall.project}
  /\ visCall' = VisIdle
  /\ UNCHANGED <<visFile, visStaged, visKilled>>

\* A write fails: the call raises, with its temporary files removed.
VisFails ==
  /\ visKilled < VisKills /\ visCall.pc # "idle"
  /\ visKilled' = visKilled + 1
  /\ visCall' = VisIdle
  /\ visStaged' = {}
  /\ UNCHANGED <<visManifest, visFile, visKnown, visUploaded>>

\* Killed and started again: the store reads the manifests.
VisKill ==
  /\ visKilled < VisKills
  /\ visKilled' = visKilled + 1
  /\ visKnown' = visManifest
  /\ visCall' = VisIdle
  /\ UNCHANGED <<visDisk, visUploaded>>

VisNext ==
  \/ \E x \in VisIds : \/ \E image \in {"none", "demo"} : VisCreate(x, image)
                       \/ \E image \in VisImages : VisAttach(x, image)
  \/ VisStage \/ VisPublish \/ VisPutImage \/ VisPutManifest \/ VisFails \/ VisKill

VisSpec == VisInit /\ [][VisNext]_visVars
-----------------------------------------------------------------------------
VisTypeOK ==
  /\ visManifest \in [VisIds -> VisImage \cup {"absent"}]
  /\ visFile \in [VisIds -> VisImage]
  /\ visKnown \in [VisIds -> VisImage \cup {"absent"}]
  /\ visStaged \subseteq {"image", "manifest"}
  /\ visCall.pc \in {"idle", "stage", "image", "manifest"}
  /\ visKilled \in 0..VisKills

\* At every moment, so after a kill at any step too: the image a manifest or
\* the running store names is the one on the disk (read_image never refuses
\* what the store wrote), an image that was uploaded stays, and the directory
\* never holds more projects than the limit.
VisImageKept ==
  /\ \A x \in VisIds : visManifest[x] \notin {"absent", "none"} => visFile[x] = visManifest[x]
  /\ \A x \in VisIds : visKnown[x] \notin {"absent", "none"} => visFile[x] = visKnown[x]
  /\ \A upload \in visUploaded : visManifest[upload[1]] = upload[2]
  /\ Cardinality(VisPublished) <= VisLimit
=============================================================================
