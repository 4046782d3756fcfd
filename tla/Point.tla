------------------------------- MODULE Point -------------------------------
(***************************************************************************)
(* Pointing one client at the gateway and restoring it (internal/point):   *)
(* backups with a manifest, files replaced one by one, an environment      *)
(* variable, verification, rollback.  Manager.mu runs one operation at a   *)
(* time.  Every write may be refused and the process may die between two;  *)
(* the user edits files between operations.                                *)
(*                                                                         *)
(* A behaviour is about one client.  codex, claude and grok replace a      *)
(* settings file (Main) and, the first two, a generated one (Side).    *)
(* desktop adds a profile of its own for every point, named by the number  *)
(* of its backup, and makes it the applied one in Main, its meta file.   *)
(***************************************************************************)
EXTENDS Integers, Sequences, SequencesExt

CONSTANTS
  Kinds,      \* clients: "codex", "claude", "grok", "desktop"
  Settings,   \* what a pointed configuration expresses: routes, models, catalog
  Texts,      \* what the user may have in a file
  MaxPoints,  \* bound on backups
  MaxEdits,   \* bound on edits of the user
  MaxRefused, \* bound on writes the system refuses
  MaxCrashes, \* bound on crashes
  Main, Side, None, NoFile, Empty, NoOp

ASSUME KindsAssumption == Kinds \subseteq {"codex", "claude", "grok", "desktop"}
ASSUME BoundsAssumption ==
  {MaxPoints, MaxEdits, MaxRefused, MaxCrashes} \subseteq Nat
ASSUME PathsAssumption == Main # Side /\ {Main, Side} \cap 1..MaxPoints = {}
ASSUME NoneAssumption == None \notin Settings \cup 1..MaxPoints

Profiles == 1..MaxPoints
Paths == {Main, Side} \cup Profiles

\* The gateway's own keys (applied profile, in a desktop meta file) and the rest.
Text == [text : Texts \cup {None}, own : Settings \cup Profiles \cup {None}]
Content == Text \cup {NoFile, Empty}

ASSUME ContentAssumption == {NoFile, Empty} \cap Text = {} /\ NoFile # Empty

EnvValues == {"user", "placeholder", None}

VARIABLES
  kind,      \* the client
  file,      \* content of each path
  env,       \* the placeholder variable of codex
  modelsCache, \* models_cache.json of codex is there: codex writes it, a point removes it
  backups,   \* backup directories, oldest first
  op,        \* the operation that holds the mutex
  last,      \* how the latest operation was answered, until something else happens
  mine,      \* what the user last had in Main of his own, for the properties
  broken,    \* an operation was cut short or left files behind, for the properties
  refused, crashes, edits

budget == <<refused, crashes, edits>>
vars == <<kind, file, env, modelsCache, backups, op, last, mine, broken, budget>>

Files == [Paths -> Content]

(***************************************************************************)
(* Reading a client's configuration.                                       *)
(***************************************************************************)

IsText(content) == content \notin {NoFile, Empty}

Own(content) == IF IsText(content) THEN content.own ELSE None

\* The files the client's settings are in: what Managed and Check read.
SettingsPath == IF kind = "desktop" /\ Own(file[Main]) # None THEN Own(file[Main]) ELSE Main

\* The gateway owns the configuration, whichever settings are in it.
Managed ==
  /\ Own(file[Main]) # None
  /\ Own(file[SettingsPath]) # None

EnvReady == kind = "codex" => env = "placeholder"

\* codex keeps a catalog beside its settings, claude a cache of models.
CatalogMatches(want) == kind = "codex" => Own(file[Side]) = want

CacheMatches(want) == kind = "claude" => Own(file[Side]) = want

SettingsMatch(want) == Own(file[SettingsPath]) = want

\* checkContent: the settings and the generated file.
Current(want) ==
  Managed /\ SettingsMatch(want) /\ CatalogMatches(want) /\ CacheMatches(want)

Pointed(want) == Current(want) /\ EnvReady

(***************************************************************************)
(* Plans: the files an operation replaces, in order.                       *)
(***************************************************************************)

Write(path, next) == [path |-> path, next |-> next, old |-> file[path]]

\* Transform changes the gateway's keys and keeps the rest of the file.
Transformed(content, own) ==
  [text |-> IF IsText(content) THEN content.text ELSE None, own |-> own]

\* A generated file has nothing of the user's.
Generated(own) == [text |-> None, own |-> own]

BuildCatalog(want) == Generated(want)

BuildCache(want) == Generated(want)

TransformProfile(content, want) == Transformed(content, want)

TransformMeta(content, id) == Transformed(content, id)

NewProfileID == Len(backups) + 1

\* A desktop plan: a new profile is written before it is applied; a managed one is
\* rewritten when it changes.
DesktopPlan(want) ==
  IF Managed
    THEN <<Write(SettingsPath, TransformProfile(file[SettingsPath], want))>>
    ELSE <<Write(NewProfileID, TransformProfile(NoFile, want)),
           Write(Main, TransformMeta(file[Main], NewProfileID))>>

PlanOf(want) ==
  CASE kind = "desktop" -> DesktopPlan(want)
    [] kind = "grok" -> <<Write(Main, Transformed(file[Main], want))>>
    [] kind = "codex" -> <<Write(Main, Transformed(file[Main], want)), Write(Side, BuildCatalog(want))>>
    [] kind = "claude" -> <<Write(Main, Transformed(file[Main], want)), Write(Side, BuildCache(want))>>

(***************************************************************************)
(* Backups.                                                                *)
(***************************************************************************)

Backup == [files : Seq([path : Paths, original : Content]), env : EnvValues,
           completed : BOOLEAN, restored : BOOLEAN, mine : Content]

\* Mutant: the backup takes what is going to be written.
BackupOfNext(plan) ==
  [files |-> [i \in DOMAIN plan |-> [path |-> plan[i].path, original |-> plan[i].next]],
   env |-> env, completed |-> FALSE, restored |-> FALSE, mine |-> mine]

BackupOf(plan) ==
  [files |-> [i \in DOMAIN plan |-> [path |-> plan[i].path, original |-> plan[i].old]],
   env |-> env, completed |-> FALSE, restored |-> FALSE, mine |-> mine]

Available(b) == backups[b].completed /\ ~backups[b].restored

\* The backup a restore uses, 0 when there is none.
Latest ==
  IF \E b \in DOMAIN backups : Available(b)
    THEN CHOOSE b \in DOMAIN backups : Available(b) /\ \A c \in DOMAIN backups : Available(c) => c <= b
    ELSE 0

\* restoreFile removes what was not there.
WrittenBack(original) == original

\* A desktop restore goes through apply, which writes files and removes none.
Applied(original) == IF original = NoFile THEN Empty ELSE original

\* It passes over files that are as they were.
AddRestoreWrite(f) ==
  IF file[f.path] = f.original THEN <<>> ELSE <<Write(f.path, Applied(f.original))>>

\* The profile before the meta file.
RestorePlan(b) ==
  LET files == backups[b].files
  IN  IF kind = "desktop"
        THEN AddRestoreWrite(files[1]) \o AddRestoreWrite(files[2])
        ELSE [i \in DOMAIN files |-> Write(files[i].path, WrittenBack(files[i].original))]

(***************************************************************************)
(* Operations.  The mutex is free while op is NoOp.                        *)
(***************************************************************************)

Steps == {"backup", "write", "env", "verify", "finish", "cleanup", "undo", "undoEnv", "undoManifest"}

Plans == Seq([path : Paths, next : Content, old : Content])

Op == [name : {"point", "sync", "restore"}, want : Settings \cup {None}, at : Steps,
       plan : Plans, done : Nat, undo : Plans, fresh : BOOLEAN, backup : 0..MaxPoints,
       oldEnv : EnvValues, quiet : BOOLEAN, failed : BOOLEAN,
       before : Files, mine : Content, refused : Nat]

ASSUME NoOpAssumption == NoOp \notin Op

\* before, mine, refused: the files at the start, the writes refused since; for the
\* properties.
Started(name, want, at, plan, fresh, b) ==
  [name |-> name, want |-> want, at |-> at, plan |-> plan, done |-> 0, undo |-> <<>>,
   fresh |-> fresh, backup |-> b, oldEnv |-> env, quiet |-> FALSE, failed |-> FALSE,
   before |-> file, mine |-> mine, refused |-> 0]

Answered(o, result) ==
  [name |-> o.name, result |-> result, at |-> o.at, before |-> o.before, oldEnv |-> o.oldEnv,
   backup |-> o.backup, refused |-> o.refused]

Answer(o, result) ==
  /\ op' = NoOp
  /\ last' = Answered(o, result)
  /\ broken' = (broken \/ o.failed)

Continue(o) ==
  /\ op' = o
  /\ last' = NoOp
  /\ UNCHANGED broken

\* One more write that the system refuses.
Refuse == refused < MaxRefused /\ refused' = refused + 1 /\ UNCHANGED <<crashes, edits>>

Refused(o) == [o EXCEPT !.refused = @ + 1]

\* Select reads the applied desktop profile, TransformMeta the meta file.
Unreadable ==
  kind = "desktop" /\ Own(file[Main]) # None /\ file[SettingsPath] = Empty

CannotApply == kind = "desktop" /\ file[Main] = Empty

\* LoadTemplate asks the codex CLI, which may not answer, and then codex's own cache.
TemplateMissing == kind = "codex" /\ ~modelsCache

\* InvalidateModelsCache: nothing looks at whether it could.
ModelsCacheRemoved == modelsCache' \in {FALSE, modelsCache}

\* A configuration the gateway owns is updated in place, without a backup.
InPlace == Managed /\ EnvReady

Point(want) ==
  /\ op = NoOp
  /\ \/ /\ \/ Unreadable
           \/ ~InPlace /\ CannotApply
           \/ ~(InPlace /\ Current(want)) /\ TemplateMissing
        /\ Answer(Started("point", want, "write", <<>>, FALSE, 0), "error")
     \/ /\ ~Unreadable /\ InPlace /\ Current(want)
        /\ Answer(Started("point", want, "write", <<>>, FALSE, 0), "unchanged")
     \/ /\ ~Unreadable /\ InPlace /\ ~Current(want)
        /\ Continue(Started("point", want, "write", PlanOf(want), FALSE, 0))
     \/ /\ ~Unreadable /\ ~InPlace /\ ~CannotApply
        /\ Len(backups) < MaxPoints
        /\ Continue(Started("point", want, "backup", PlanOf(want), TRUE, Len(backups) + 1))
  /\ UNCHANGED <<kind, file, env, modelsCache, backups, mine, budget>>

\* Routes or the catalog have changed: only what the gateway owns is touched.
SyncSettings(want) ==
  /\ op = NoOp
  /\ ~Unreadable /\ InPlace /\ ~Current(want)
  /\ \/ Continue(Started("sync", want, "write", PlanOf(want), FALSE, 0))
     \/ TemplateMissing /\ Answer(Started("sync", want, "write", <<>>, FALSE, 0), "error")
  /\ UNCHANGED <<kind, file, env, modelsCache, backups, mine, budget>>

Restore ==
  /\ op = NoOp
  /\ \/ /\ Latest = 0
        /\ Answer(Started("restore", None, "write", <<>>, FALSE, 0), "none")
     \/ /\ Latest # 0 /\ Unreadable
        /\ Answer(Started("restore", None, "write", <<>>, FALSE, Latest), "error")
     \/ /\ Latest # 0 /\ ~Unreadable /\ RestorePlan(Latest) = <<>>
        /\ Answer(Started("restore", None, "write", <<>>, FALSE, Latest), "unchanged")
     \/ /\ Latest # 0 /\ ~Unreadable /\ RestorePlan(Latest) # <<>>
        /\ Continue(Started("restore", None, "write", RestorePlan(Latest), FALSE, Latest))
  /\ UNCHANGED <<kind, file, env, modelsCache, backups, mine, budget>>

At(step) == op # NoOp /\ op.at = step

\* createBackup: copies first, then a manifest that is not complete.  A directory
\* without a manifest is never looked at again.
CreateBackup ==
  /\ At("backup")
  /\ \/ /\ backups' = Append(backups, BackupOf(op.plan))
        /\ Continue([op EXCEPT !.at = "write"])
        /\ UNCHANGED budget
     \/ /\ Refuse
        /\ Answer(Refused(op), "error")
        /\ UNCHANGED backups
  /\ UNCHANGED <<kind, file, env, modelsCache, mine>>

\* What follows the last file.
AfterWrites ==
  CASE kind = "codex" /\ (op.fresh \/ op.name = "restore") -> "env"
    [] kind # "codex" /\ op.name = "restore" -> "finish"
    [] OTHER -> "verify"

\* Mutant: the first file is not put back when there are others.
RollbackButFirst(plan, name) == IF Len(plan) = 1 THEN plan ELSE Reverse(Tail(plan))

\* Every planned file, the last first; a restore puts them back in order.
Rollback(plan, name) ==
  IF name = "restore" /\ kind # "desktop" THEN plan ELSE Reverse(plan)

RollingBack(o, quiet) ==
  [o EXCEPT !.at = "undo", !.undo = Rollback(o.plan, o.name), !.quiet = quiet]

\* After the last file of a point or a synchronisation, codex's cache of models goes too:
\* it is in no backup, and no rollback puts it back.
WriteFile ==
  /\ At("write")
  /\ LET w == op.plan[op.done + 1]
     IN  /\ file' = [file EXCEPT ![w.path] = w.next]
         /\ mine' = IF op.name = "restore" /\ w.path = Main THEN backups[op.backup].mine ELSE mine
  /\ Continue([op EXCEPT !.done = @ + 1,
                         !.at = IF op.done + 1 = Len(op.plan) THEN AfterWrites ELSE @])
  /\ IF kind = "codex" /\ op.name # "restore" /\ op.done + 1 = Len(op.plan)
       THEN ModelsCacheRemoved
       ELSE UNCHANGED modelsCache
  /\ UNCHANGED <<kind, env, backups, budget>>

\* apply puts the files back and does not look at the errors of that; the loop of a
\* restore returns at once.
WriteRefused ==
  /\ At("write")
  /\ Refuse
  /\ IF op.name = "restore" /\ kind # "desktop"
       THEN Answer(Refused(op), "error")
       ELSE Continue(RollingBack(Refused(op), TRUE))
  /\ UNCHANGED <<kind, file, env, modelsCache, backups, mine>>

SetEnvironment ==
  /\ At("env")
  /\ \/ /\ env' = IF op.name = "restore" THEN backups[op.backup].env ELSE "placeholder"
        /\ Continue([op EXCEPT !.at = IF op.name = "restore" THEN "finish" ELSE "verify"])
        /\ UNCHANGED budget
     \/ /\ Refuse
        /\ Continue(RollingBack(Refused(op), FALSE))
        /\ UNCHANGED env
  /\ UNCHANGED <<kind, file, modelsCache, backups, mine>>

\* The files are read again.
Verify ==
  /\ At("verify")
  /\ \/ /\ op.fresh
        /\ Pointed(op.want)
        /\ Continue([op EXCEPT !.at = "finish"])
        /\ UNCHANGED budget
     \/ /\ ~op.fresh
        /\ Pointed(op.want)
        /\ Answer(op, "ok")
        /\ UNCHANGED budget
     \/ /\ Refuse
        /\ Continue(RollingBack(Refused(op), FALSE))
  /\ UNCHANGED <<kind, file, env, modelsCache, backups, mine>>

\* Mutant: the manifest is written without the mark.
UnmarkedManifest(b, name) == [b EXCEPT !.restored = (name = "restore")]

Marked(b, name) ==
  IF name = "restore" THEN [b EXCEPT !.restored = TRUE] ELSE [b EXCEPT !.completed = TRUE]

WriteManifest ==
  /\ At("finish")
  /\ \/ /\ backups' = [backups EXCEPT ![op.backup] = Marked(@, op.name)]
        /\ IF op.name = "restore" /\ kind = "codex"
             THEN Continue([op EXCEPT !.at = "cleanup"])
             ELSE Answer(op, "ok")
        /\ UNCHANGED budget
     \/ /\ Refuse
        /\ Continue(RollingBack(Refused(op), FALSE))
        /\ UNCHANGED backups
  /\ UNCHANGED <<kind, file, env, modelsCache, mine>>

\* Mutant: the catalog goes even when it is named.
CleanUpAlways ==
  /\ At("cleanup")
  /\ file' = [file EXCEPT ![Side] = NoFile]
  /\ Answer(op, "ok")
  /\ ModelsCacheRemoved
  /\ UNCHANGED <<kind, env, backups, mine, budget>>

\* The generated catalog of codex goes when the restored file does not name it, its cache
\* of models always; an error is not looked at.
CleanUp ==
  /\ At("cleanup")
  /\ \/ /\ file' = IF Own(file[Main]) = None THEN [file EXCEPT ![Side] = NoFile] ELSE file
        /\ Answer(op, "ok")
        /\ UNCHANGED budget
     \/ /\ Refuse
        /\ Answer(Refused(op), "ok")
        /\ UNCHANGED file
  /\ ModelsCacheRemoved
  /\ UNCHANGED <<kind, env, backups, mine>>

\* What the rollback does after the files.
AfterUndo ==
  CASE kind = "codex" /\ ~op.quiet /\ (op.fresh \/ op.name = "restore") -> "undoEnv"
    [] kind = "desktop" /\ ~op.quiet /\ op.name = "restore" -> "undoManifest"
    [] OTHER -> "undo"

\* Mutant: an operation that was undone is answered like none of the others.
RolledBackApart(o) == Answer(o, IF o.failed THEN "partial" ELSE "undone")

\* A rollback that lost something says so, except in apply.
RolledBack(o) ==
  Answer(o, IF o.failed /\ ~o.quiet THEN "partial" ELSE "error")

UndoStep(o) ==
  LET next == [o EXCEPT !.undo = Tail(@)]
  IN  IF next.undo # <<>> THEN Continue(next)
      ELSE IF AfterUndo # "undo" THEN Continue([next EXCEPT !.at = AfterUndo])
      ELSE RolledBack(next)

UndoFile ==
  /\ At("undo")
  /\ \/ /\ file' = [file EXCEPT ![Head(op.undo).path] = WrittenBack(Head(op.undo).old)]
        /\ mine' = IF Head(op.undo).path = Main THEN op.mine ELSE mine
        /\ UndoStep(op)
        /\ UNCHANGED budget
     \/ /\ Refuse
        /\ UndoStep([Refused(op) EXCEPT !.failed = TRUE])
        /\ UNCHANGED <<file, mine>>
  /\ UNCHANGED <<kind, env, modelsCache, backups>>

UndoEnvironment ==
  /\ At("undoEnv")
  /\ \/ /\ env' = op.oldEnv
        /\ RolledBack(op)
        /\ UNCHANGED budget
     \/ /\ Refuse
        /\ RolledBack([Refused(op) EXCEPT !.failed = TRUE])
        /\ UNCHANGED env
  /\ UNCHANGED <<kind, file, modelsCache, backups, mine>>

\* The manifest of a desktop restore is written once more as it was.
UndoManifest ==
  /\ At("undoManifest")
  /\ \/ RolledBack(op) /\ UNCHANGED budget
     \/ Refuse /\ RolledBack([Refused(op) EXCEPT !.failed = TRUE])
  /\ UNCHANGED <<kind, file, env, modelsCache, backups, mine>>

Crash ==
  /\ op # NoOp
  /\ crashes < MaxCrashes
  /\ crashes' = crashes + 1
  /\ op' = NoOp
  /\ last' = NoOp
  /\ broken' = TRUE
  /\ UNCHANGED <<kind, file, env, modelsCache, backups, mine, refused, edits>>

(***************************************************************************)
(* The user, between operations.                                           *)
(***************************************************************************)

Edited ==
  /\ op = NoOp
  /\ edits < MaxEdits
  /\ edits' = edits + 1
  /\ last' = NoOp
  /\ UNCHANGED <<kind, modelsCache, backups, op, broken, refused, crashes>>

\* Another configuration without the gateway, or another text around its keys.
EditFile ==
  /\ Edited
  /\ \E t \in Texts, own \in {None, Own(file[Main])} :
       /\ file' = [file EXCEPT ![Main] = [text |-> t, own |-> own]]
       /\ mine' = IF own = None THEN [text |-> t, own |-> own] ELSE mine
  /\ UNCHANGED env

EditEnvironment ==
  /\ Edited
  /\ kind = "codex"
  /\ env' \in {None, "user"}
  /\ UNCHANGED <<file, mine>>

\* Codex, whenever it runs, fetches its models and keeps them.
RefreshModels ==
  /\ kind = "codex"
  /\ modelsCache' = TRUE
  /\ UNCHANGED <<kind, file, env, backups, op, last, mine, broken, budget>>

Init ==
  /\ kind \in Kinds
  /\ \E main \in {NoFile} \cup [text : Texts, own : {None}], side \in {NoFile} \cup [text : Texts, own : {None}] :
       /\ kind # "claude" => side = NoFile
       /\ file = [p \in Paths |-> CASE p = Main -> main [] p = Side -> side [] OTHER -> NoFile]
       /\ mine = main
  /\ env \in {None, "user"}
  /\ modelsCache \in BOOLEAN
  /\ kind # "codex" => env = None /\ ~modelsCache
  /\ backups = <<>>
  /\ op = NoOp /\ last = NoOp /\ broken = FALSE
  /\ refused = 0 /\ crashes = 0 /\ edits = 0

Operation ==
  \/ CreateBackup \/ WriteFile \/ WriteRefused \/ SetEnvironment \/ Verify
  \/ WriteManifest \/ CleanUp \/ UndoFile \/ UndoEnvironment \/ UndoManifest

Next ==
  \/ \E want \in Settings : Point(want) \/ SyncSettings(want)
  \/ Restore
  \/ Operation
  \/ Crash \/ EditFile \/ EditEnvironment \/ RefreshModels

Spec == Init /\ [][Next]_vars

-----------------------------------------------------------------------------

Answers == [name : {"point", "sync", "restore"},
            result : {"ok", "unchanged", "none", "error", "partial"}, at : Steps,
            before : Files, oldEnv : EnvValues, backup : 0..MaxPoints, refused : Nat]

TypeOK ==
  /\ kind \in Kinds
  /\ file \in Files
  /\ env \in EnvValues
  /\ modelsCache \in BOOLEAN
  /\ backups \in Seq(Backup)
  /\ op \in Op \cup {NoOp}
  /\ last \in Answers \cup {NoOp}
  /\ mine \in Content
  /\ broken \in BOOLEAN
  /\ refused \in Nat /\ crashes \in Nat /\ edits \in Nat

\* What the user had in a settings file is in a backup for as long as the gateway's keys
\* are in it, whatever was refused, in whatever order, and wherever the process died.
OriginalIsKept ==
  Own(file[Main]) # None =>
    \E b \in DOMAIN backups : \E f \in Range(backups[b].files) : f.path = Main /\ f.original = mine

\* A client that points at the gateway can be restored, unless an operation was cut short
\* by a crash or could not put a file back.
ManagedIsRestorable ==
  op = NoOp /\ ~broken /\ Managed => Latest # 0

\* The loop of a restore returns at the first file it cannot put back.
StoppedInLoop == last.name = "restore" /\ kind # "desktop" /\ last.at = "write"

\* Such a restore can be asked for again, with the same backup: each of the client's files
\* is as it was before it, or already as it is in the backup.
HalfRestored ==
  /\ Latest = last.backup
  /\ \A p \in Paths :
       \/ file[p] = last.before[p]
       \/ \E f \in Range(backups[last.backup].files) : f.path = p /\ file[p] = f.original

\* When one step of theirs fails, point, sync and restore leave the files they plan to write
\* and the variable as they were (point.go apply, the rollback closures); only the loop of a
\* restore stops half-way.  Codex's models_cache.json is not meant: point.go removes it
\* before the steps that can fail and never puts it back.
FailureIsUndone ==
  last # NoOp /\ last.result \in {"error", "partial"} /\ last.refused <= 1 =>
    /\ env = last.oldEnv
    /\ IF StoppedInLoop THEN HalfRestored ELSE file = last.before

\* A restore that succeeds leaves the files of its manifest and the variable as they were
\* when the point it undoes began; a codex catalog that the file does not name is removed.
\* The desktop application is excepted, whose restore writes an empty file for none.
Restored(b) ==
  /\ \A f \in Range(backups[b].files) :
       \/ file[f.path] = f.original
       \/ kind = "codex" /\ f.path = Side /\ Own(file[Main]) = None /\ file[Side] = NoFile
  /\ env = backups[b].env

RestoreIsExact ==
  last # NoOp /\ last.name = "restore" /\ last.result = "ok" /\ kind # "desktop" => Restored(last.backup)
=============================================================================
