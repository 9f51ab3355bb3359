--------------------------- MODULE DatabaseCopies ---------------------------
(***************************************************************************)
(* Copies of the SQLite database (storage/backup.py), and its upgrade with *)
(* the adoption of one older than the migrations (storage/migrations.py).  *)
(* The live database is written meanwhile, several commands run at once,   *)
(* each may be killed or time out at any step, and people use the copies.  *)
(* On SQLite every DDL statement commits by itself: the tables of one      *)
(* revision are made in several steps, and its number is written after     *)
(* them (migrations/env.py, migrations/versions).                          *)
(***************************************************************************)
EXTENDS Naturals, FiniteSets

CONSTANTS
  CopyPaths,    \* paths for copies
  CopyCalls,    \* invocations of the backup command
  CopyStarts,   \* processes that call upgrade_database
  CopyLegacy,   \* the revision whose schema is adopted; 0 is the empty database
  CopyHead,     \* the newest revision
  CopyCommits,  \* bound: commits of the live database
  CopyAnswers   \* bound: evidence given before the last call

ASSUME CopyAssumption ==
  /\ CopyLegacy \in Nat /\ CopyHead \in Nat /\ 0 < CopyLegacy /\ CopyLegacy <= CopyHead
  /\ CopyCommits \in Nat /\ CopyAnswers \in Nat

VARIABLES
  copyLive,      \* content of the live database: commits so far
  copyTables,    \* the revision its tables are of, and whether some of the next are there
  copyVersioned, \* the table alembic_version exists
  copyRows,      \* its rows
  copyFile,      \* the copies; equal files have equal digests
  copyCall,      \* the invocations
  copyEvidence,  \* evidence that was printed
  copyStart,     \* where each upgrade_database is, and the revision it goes by
  copyKept,      \* the pre-0003 backups
  copyEdited,    \* history: copies that were changed by people
  copyOld,       \* history: the database was an unregistered legacy one
  copyStamped,   \* history: tables on which a stamp wrote its revision
  copyOverlap    \* history: two adoptions ran at once

copySchema == <<copyTables, copyVersioned, copyRows>>
copyDatabase == <<copyLive, copySchema>>
copyAdoption == <<copyStart, copyKept, copyOld, copyStamped, copyOverlap>>
copyCopies == <<copyFile, copyCall, copyEvidence, copyEdited>>
copyVars == <<copyDatabase, copyAdoption, copyCopies>>
-----------------------------------------------------------------------------
CopySchema(at) == [at |-> at, part |-> FALSE]
CopyAbsent == [state |-> "absent", content |-> 0, version |-> 0]
CopyEmpty == [CopyAbsent EXCEPT !.state = "partial"]
CopyIdle == [pc |-> "idle", kind |-> "backup", from |-> {}, to |-> {}, at |-> {},
             revision |-> CopyHead, digest |-> CopyAbsent, file |-> CopyAbsent, content |-> 0,
             before |-> CopyAbsent, since |-> 0]
CopySet(c, r) == copyCall' = [copyCall EXCEPT ![c] = r]
CopyAt(places) == CHOOSE p \in places : TRUE
CopyHeld(places) == copyFile[CopyAt(places)]

\* The revision that a look at alembic_version finds; a copy with none or with
\* several rows has no revision that a command could name.
CopyVersion == IF \E r \in copyRows : copyRows = {r} THEN CHOOSE r \in copyRows : TRUE ELSE 0

\* An empty database, a legacy one that is not registered, or an upgraded one.
CopyInit ==
  /\ copyLive = 0
  /\ \/ copyTables \in {CopySchema(0), CopySchema(CopyLegacy)} /\ copyVersioned = FALSE /\ copyRows = {}
     \/ copyTables = CopySchema(CopyHead) /\ copyVersioned = TRUE /\ copyRows = {CopyHead}
  /\ copyFile = [p \in CopyPaths |-> CopyAbsent]
  /\ copyCall = [c \in CopyCalls |-> CopyIdle]
  /\ copyEvidence = {}
  /\ copyStart = [s \in CopyStarts |-> [pc |-> "out", at |-> 0]]
  /\ copyKept = {} /\ copyEdited = {}
  /\ copyOld = (copyTables.at > 0 /\ ~copyVersioned)
  /\ copyStamped = {} /\ copyOverlap = FALSE

\* The programs go on writing; people open a copy and write to it, or damage it.
CopyCommit ==
  /\ copyLive < CopyCommits
  /\ copyLive' = copyLive + 1
  /\ UNCHANGED <<copySchema, copyAdoption, copyCopies>>

CopyEdit(p) ==
  /\ copyFile[p].state = "whole" /\ p \notin copyEdited
  /\ copyFile' = [copyFile EXCEPT ![p] =
       [state |-> "whole", content |-> CopyCommits + 1, version |-> @.version]]
  /\ copyEdited' = copyEdited \cup {p}
  /\ UNCHANGED <<copyDatabase, copyCall, copyEvidence, copyAdoption>>

\* main: backup of the live database to a path.  --revision names the version
\* the database has where that is not the newest.
CopyMayBegin(c) == copyCall[c].pc = "idle" /\ Cardinality(copyEvidence) <= CopyAnswers

CopyBackup(c, to, revision) ==
  /\ CopyMayBegin(c)
  /\ CopySet(c, [CopyIdle EXCEPT !.pc = "reserve", !.to = {to}, !.revision = revision,
                                 !.since = copyLive])
  /\ UNCHANGED <<copyDatabase, copyFile, copyEvidence, copyAdoption, copyEdited>>

\* main: restore of a copy, with the digest of some evidence, to another path.
CopyRestore(c, from, to, revision) ==
  /\ CopyMayBegin(c) /\ from # to
  /\ \E evidence \in copyEvidence :
       CopySet(c, [CopyIdle EXCEPT !.pc = "hash", !.kind = "restore", !.from = {from}, !.to = {to},
                     !.at = {from}, !.revision = revision, !.digest = evidence.file])
  /\ UNCHANGED <<copyDatabase, copyFile, copyEvidence, copyAdoption, copyEdited>>

\* Mutant: a file that exists is written over.
CopyReserveOver(c) ==
  LET r == copyCall[c] IN
  /\ r.pc = "reserve"
  /\ copyFile' = [copyFile EXCEPT ![CopyAt(r.to)] = CopyEmpty]
  /\ CopySet(c, [r EXCEPT !.pc = "copy"])
  /\ UNCHANGED <<copyDatabase, copyEvidence, copyAdoption, copyEdited>>

\* _copy_new: the destination is created, or the call is refused.
CopyReserve(c) ==
  LET r == copyCall[c] IN
  /\ r.pc = "reserve"
  /\ IF CopyHeld(r.to) = CopyAbsent
     THEN /\ copyFile' = [copyFile EXCEPT ![CopyAt(r.to)] = CopyEmpty]
          /\ CopySet(c, [r EXCEPT !.pc = "copy"])
     ELSE CopySet(c, CopyIdle) /\ UNCHANGED copyFile
  /\ UNCHANGED <<copyDatabase, copyEvidence, copyAdoption, copyEdited>>

\* The online backup: one state of the source, whatever is written meanwhile.
CopyPages(c) ==
  LET r == copyCall[c] IN
  /\ r.pc = "copy"
  /\ copyFile' = [copyFile EXCEPT ![CopyAt(r.to)] =
       IF r.kind = "backup" THEN [state |-> "whole", content |-> copyLive, version |-> CopyVersion]
       ELSE CopyHeld(r.from)]
  /\ CopySet(c, [r EXCEPT !.pc = "hash", !.at = r.to])
  /\ UNCHANGED <<copyDatabase, copyEvidence, copyAdoption, copyEdited>>

\* verify_snapshot: the digest, then what the database says, then the digest.
CopyHash(c) ==
  LET r == copyCall[c] IN
  /\ r.pc = "hash"
  /\ CopySet(c, IF CopyHeld(r.at).state # "absent" /\ (r.at = r.from => CopyHeld(r.at) = r.digest)
                THEN [r EXCEPT !.pc = "look", !.file = CopyHeld(r.at)] ELSE CopyIdle)
  /\ UNCHANGED <<copyDatabase, copyFile, copyEvidence, copyAdoption, copyEdited>>

CopyLook(c) ==
  LET r == copyCall[c] IN
  /\ r.pc = "look"
  /\ CopySet(c, IF CopyHeld(r.at).state = "whole" /\ CopyHeld(r.at).version = r.revision
                THEN [r EXCEPT !.pc = "rehash", !.content = CopyHeld(r.at).content] ELSE CopyIdle)
  /\ UNCHANGED <<copyDatabase, copyFile, copyEvidence, copyAdoption, copyEdited>>

\* Mutant: the digest is not taken again.
CopySameUnread(r) == TRUE

CopySame(r) == CopyHeld(r.at) = r.file

CopyEvidenceOf(r) ==
  [path |-> CopyAt(r.to), file |-> r.file, content |-> r.content, revision |-> r.revision,
   kind |-> r.kind, digest |-> r.digest, since |-> r.since]

\* A copy that is verified is restored, or it is what the call is about.
CopyRehash(c) ==
  LET r == copyCall[c] IN
  /\ r.pc = "rehash"
  /\ IF CopySame(r) /\ (r.kind = "restore" /\ r.at = r.to =>
                          r.content = r.before.content /\ CopyHeld(r.from) = r.before)
     THEN IF r.at = r.from
          THEN /\ CopySet(c, [r EXCEPT !.pc = "reserve", !.before = r.file])
               /\ UNCHANGED copyEvidence
          ELSE /\ copyEvidence' = copyEvidence \cup {CopyEvidenceOf(r)}
               /\ CopySet(c, CopyIdle)
     ELSE CopySet(c, CopyIdle) /\ UNCHANGED copyEvidence
  /\ UNCHANGED <<copyDatabase, copyFile, copyAdoption, copyEdited>>

\* A time limit, an error or a kill: what was written stays.
CopyFails(c) ==
  /\ copyCall[c].pc # "idle"
  /\ CopySet(c, CopyIdle)
  /\ UNCHANGED <<copyDatabase, copyFile, copyEvidence, copyAdoption, copyEdited>>
-----------------------------------------------------------------------------
CopyGo(s, from, to) == copyStart[s].pc = from /\ copyStart' = [copyStart EXCEPT ![s].pc = to]
CopyOut(s) == copyStart' = [copyStart EXCEPT ![s] = [pc |-> "out", at |-> 0]]

CopyAdopted == copyTables.at > 0 /\ ~copyVersioned
CopyOverlaps(s) ==
  CopyAdopted /\ \E o \in CopyStarts \ {s} : copyStart[o].pc \in {"keep", "stamp"}

\* Mutant: an unregistered database is stamped with no copy of it.
CopyInspectUnkept(s) ==
  /\ CopyGo(s, "out", IF CopyAdopted THEN "stamp" ELSE "upgrade")
  /\ copyOverlap' = (copyOverlap \/ CopyOverlaps(s))
  /\ UNCHANGED <<copyDatabase, copyKept, copyOld, copyStamped, copyCopies>>

\* upgrade_database: an empty or registered database is upgraded, one with
\* exactly the legacy schema is adopted.
CopyInspect(s) ==
  /\ CopyGo(s, "out", IF CopyAdopted THEN "keep" ELSE "upgrade")
  /\ copyOverlap' = (copyOverlap \/ CopyOverlaps(s))
  /\ UNCHANGED <<copyDatabase, copyKept, copyOld, copyStamped, copyCopies>>

\* _backup_sqlite_database
CopyKeep(s) ==
  /\ CopyGo(s, "keep", "stamp")
  /\ copyKept' = copyKept \cup {[content |-> copyLive, tables |-> copyTables]}
  /\ UNCHANGED <<copyDatabase, copyOld, copyStamped, copyOverlap, copyCopies>>

\* stamp and upgrade read the registered revision, then make the table of it where
\* it is missing.  (With several rows the command ends: CopyStartFails.)
CopyRead(s) ==
  /\ \E pc \in {<<"stamp", "stamping">>, <<"upgrade", "revising">>} :
       /\ copyStart[s].pc = pc[1]
       /\ \/ copyRows = {} /\ copyStart' = [copyStart EXCEPT ![s] = [pc |-> pc[2], at |-> 0]]
          \/ \E r \in copyRows : copyRows = {r} /\ copyStart' = [copyStart EXCEPT ![s] = [pc |-> pc[2], at |-> r]]
  /\ copyVersioned' = TRUE
  /\ UNCHANGED <<copyLive, copyTables, copyRows, copyKept, copyOld, copyStamped, copyOverlap, copyCopies>>

\* One row goes from a revision to another: an INSERT from none, and an UPDATE
\* that must find its row; neither makes a row twice.
CopyRenumber(from, to) ==
  /\ to \notin copyRows /\ (from = 0 \/ from \in copyRows)
  /\ copyRows' = (copyRows \ {from}) \cup {to}

CopyStamp(s) ==
  /\ CopyGo(s, "stamping", "upgrade")
  /\ \/ copyStart[s].at = CopyLegacy /\ UNCHANGED <<copyRows, copyStamped>>
     \/ /\ copyStart[s].at # CopyLegacy /\ CopyRenumber(copyStart[s].at, CopyLegacy)
        /\ copyStamped' = copyStamped \cup {copyTables}
  /\ UNCHANGED <<copyLive, copyTables, copyVersioned, copyKept, copyOld, copyOverlap, copyCopies>>

\* The first statement of a revision: it fails where the tables are of another
\* revision, or some of this one are there.
CopyAlter(s) ==
  /\ copyStart[s].at < CopyHead /\ copyTables = CopySchema(copyStart[s].at)
  /\ CopyGo(s, "revising", "altering")
  /\ copyTables' = [copyTables EXCEPT !.part = TRUE]
  /\ UNCHANGED <<copyLive, copyVersioned, copyRows, copyKept, copyOld, copyStamped, copyOverlap, copyCopies>>

\* Its last statement.
CopyMake(s) ==
  /\ CopyGo(s, "altering", "moving")
  /\ copyTables' = CopySchema(copyStart[s].at + 1)
  /\ UNCHANGED <<copyLive, copyVersioned, copyRows, copyKept, copyOld, copyStamped, copyOverlap, copyCopies>>

\* Mutant: the number of a revision is written before its tables are made.
CopyMoveFirst(s) ==
  /\ copyStart[s].pc = "altering" /\ CopyRenumber(copyStart[s].at, copyStart[s].at + 1)
  /\ UNCHANGED <<copyLive, copyTables, copyVersioned, copyStart, copyKept, copyOld, copyStamped,
                 copyOverlap, copyCopies>>

\* Then the number of the revision.
CopyMove(s) ==
  /\ copyStart[s].pc = "moving" /\ CopyRenumber(copyStart[s].at, copyStart[s].at + 1)
  /\ copyStart' = [copyStart EXCEPT ![s] = [pc |-> "revising", at |-> @.at + 1]]
  /\ UNCHANGED <<copyLive, copyTables, copyVersioned, copyKept, copyOld, copyStamped, copyOverlap, copyCopies>>

\* The head is reached; or a statement fails, or the process is killed: what was
\* committed stays.
CopyStartEnds(s) ==
  /\ copyStart[s].pc = "revising" /\ copyStart[s].at = CopyHead /\ CopyOut(s)
  /\ UNCHANGED <<copyDatabase, copyKept, copyOld, copyStamped, copyOverlap, copyCopies>>

CopyStartFails(s) ==
  /\ copyStart[s].pc # "out" /\ CopyOut(s)
  /\ UNCHANGED <<copyDatabase, copyKept, copyOld, copyStamped, copyOverlap, copyCopies>>

CopyNext ==
  \/ CopyCommit
  \/ \E p \in CopyPaths : CopyEdit(p)
  \/ \E c \in CopyCalls :
       \/ \E from, to \in CopyPaths, revision \in {CopyHead} \cup copyRows :
            CopyBackup(c, to, revision) \/ CopyRestore(c, from, to, revision)
       \/ CopyReserve(c) \/ CopyPages(c) \/ CopyHash(c) \/ CopyLook(c) \/ CopyRehash(c) \/ CopyFails(c)
  \/ \E s \in CopyStarts :
       \/ CopyInspect(s) \/ CopyKeep(s) \/ CopyRead(s) \/ CopyStamp(s)
       \/ CopyAlter(s) \/ CopyMake(s) \/ CopyMove(s) \/ CopyStartEnds(s) \/ CopyStartFails(s)

CopySpec == CopyInit /\ [][CopyNext]_copyVars
-----------------------------------------------------------------------------
CopyFileType == [state : {"absent", "partial", "whole"}, content : 0..(CopyCommits + 1),
                 version : 0..CopyHead]
CopyTablesType == [at : 0..CopyHead, part : BOOLEAN]

CopyTypeOK ==
  /\ copyLive \in 0..CopyCommits
  /\ copyTables \in CopyTablesType /\ copyVersioned \in BOOLEAN /\ copyRows \subseteq 1..CopyHead
  /\ copyFile \in [CopyPaths -> CopyFileType]
  /\ \A c \in CopyCalls :
       /\ copyCall[c].pc \in {"idle", "reserve", "copy", "hash", "look", "rehash"}
       /\ copyCall[c].file \in CopyFileType /\ copyCall[c].before \in CopyFileType
       /\ copyCall[c].from \subseteq CopyPaths /\ copyCall[c].to \subseteq CopyPaths
  /\ \A e \in copyEvidence : e.path \in CopyPaths /\ e.file \in CopyFileType
  /\ copyStart \in [CopyStarts -> [pc : {"out", "keep", "stamp", "stamping", "upgrade", "revising",
                                        "altering", "moving"}, at : 0..CopyHead]]
  /\ copyKept \subseteq [content : 0..CopyCommits, tables : CopyTablesType]
  /\ copyEdited \subseteq CopyPaths
  /\ copyOld \in BOOLEAN /\ copyStamped \subseteq CopyTablesType /\ copyOverlap \in BOOLEAN

\* Evidence that was printed is true: the digest is of a whole database with
\* that content and revision; a backup holds one state the live database had
\* while the command ran, a restored copy what its digest names; and no other
\* command ever writes over a copy that has evidence.
CopyEvidenceTrue(e) ==
  /\ e.file = [state |-> "whole", content |-> e.content, version |-> e.revision]
  /\ e.kind = "backup" /\ e.path \notin copyEdited => e.content \in e.since..copyLive
  /\ e.kind = "restore" => e.content = e.digest.content
  /\ e.path \in copyEdited \/ copyFile[e.path] = e.file

\* The tables are of the revision r, some of the next perhaps, or all of them.
CopyNames(r) == copyTables.at = r \/ copyTables = CopySchema(r + 1)

\* Copies can be relied on: what a backup or restore reported of its copy is
\* true however commands, writers and kills interleave; a legacy database is
\* registered only after a copy of it as it was had been verified; and, where no
\* two processes adopt it at once, an upgrade that fails or is killed at any
\* statement leaves the registered revision, if there is one, at most the one
\* revision behind the tables that was being made, and a stamp is written on
\* legacy tables alone (migrations.py:71-92).
CopiesHold ==
  /\ \A e \in copyEvidence : CopyEvidenceTrue(e)
  /\ copyOld /\ copyVersioned => \E k \in copyKept : k.tables = CopySchema(CopyLegacy)
  /\ ~copyOverlap => /\ \A r, q \in copyRows : r = q /\ CopyNames(r)
                     /\ copyStamped \subseteq {CopySchema(CopyLegacy)}
=============================================================================
