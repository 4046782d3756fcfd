---------------------------- MODULE Point_proofs ----------------------------
(***************************************************************************)
(* Theorems of Point: its types, that an operation which fails is undone,  *)
(* that what the user had stays in a backup, that a restore puts it back,  *)
(* and that a client which points at the gateway can be restored.          *)
(***************************************************************************)
EXTENDS Point, SequenceTheorems, WellFoundedInduction, TLAPS

(***************************************************************************)
(* The parts of the inductive invariant.                                   *)
(***************************************************************************)

\* The types of all but codex's cache of models, which no step reads to write the rest.
Typed ==
  /\ kind \in Kinds
  /\ file \in Files
  /\ env \in EnvValues
  /\ backups \in Seq(Backup)
  /\ op \in Op \cup {NoOp}
  /\ last \in Answers \cup {NoOp}
  /\ mine \in Content
  /\ broken \in BOOLEAN
  /\ refused \in Nat /\ crashes \in Nat /\ edits \in Nat

\* A step that touches that cache at most.
Aside == UNCHANGED <<kind, file, env, backups, op, last, mine, broken, budget>>

ProfileIDs == Profiles \cup {None}

\* A desktop meta file applies a profile.
Fits(path, content) == kind = "desktop" /\ path = Main => Own(content) \in ProfileIDs

\* Where the main file is in a backup.
MainAt == IF kind = "desktop" THEN 2 ELSE 1

\* The files of a whole configuration, each once, in the order they are written in.
Whole(s) ==
  IF kind = "desktop"
    THEN Len(s) = 2 /\ s[1].path \in Profiles /\ s[2].path = Main
    ELSE Len(s) \in {1, 2} /\ s[1].path = Main /\ (Len(s) = 2 => s[2].path = Side)

Planned(s, path) == \E i \in DOMAIN s : s[i].path = path

\* Old contents are those from before the operation.
FromBefore(s) == \A i \in DOMAIN s : s[i].old = op.before[s[i].path]

Undoing == op.at \in {"undo", "undoEnv", "undoManifest"}

\* An operation that makes a backup or goes back to one.
WithBackup == op.fresh \/ op.name = "restore"

BackupsFit ==
  /\ Len(backups) <= MaxPoints
  /\ \A b \in DOMAIN backups :
       /\ Whole(backups[b].files)
       /\ \A i \in DOMAIN backups[b].files : Fits(backups[b].files[i].path, backups[b].files[i].original)

OpFits ==
  /\ Fits(Main, op.before[Main])
  /\ Len(op.plan) \in {1, 2}
  /\ \A i \in DOMAIN op.plan : Fits(op.plan[i].path, op.plan[i].next)
  /\ FromBefore(op.plan) /\ FromBefore(op.undo)

Shaped ==
  /\ Fits(Main, file[Main])
  /\ BackupsFit
  /\ op # NoOp => OpFits

InPhase ==
  op # NoOp =>
    /\ op.fresh => op.name # "restore" /\ Whole(op.plan)
    /\ op.at = "backup" => op.fresh /\ op.backup = Len(backups) + 1
    /\ WithBackup /\ op.at # "backup" => op.backup \in DOMAIN backups
    /\ op.at \in {"backup", "write"} => op.done < Len(op.plan)
    /\ op.at = "env" => kind = "codex" /\ WithBackup
    /\ op.at = "verify" => op.name # "restore"
    /\ op.at = "finish" => WithBackup
    /\ op.at = "cleanup" => kind = "codex" /\ op.name = "restore"
    /\ op.at = "undo" => op.undo # <<>>

\* What an operation has not touched, or has put back, is as it was before.
Undoable ==
  op # NoOp =>
    /\ \A p \in Paths : ~Planned(op.plan, p) => file[p] = op.before[p]
    /\ op.at = "backup" => file = op.before
    /\ op.at = "undo" /\ ~op.failed => \A p \in Paths : ~Planned(op.undo, p) => file[p] = op.before[p]
    /\ op.at \in {"undoEnv", "undoManifest"} /\ ~op.failed => file = op.before
    /\ env # op.oldEnv =>
         /\ kind = "codex" /\ WithBackup /\ ~op.quiet
         /\ op.at \in {"verify", "finish", "cleanup", "undo", "undoEnv"}
    /\ op.quiet => Undoing
    /\ op.failed => Undoing /\ op.refused >= 2
    /\ Undoing => op.refused >= 1
    /\ op.name = "restore" /\ op.at # "cleanup" => Latest = op.backup

Kept(content) ==
  \E b \in DOMAIN backups : \E f \in Range(backups[b].files) : f.path = Main /\ f.original = content

\* The user's main file is the one on disk, or it is in a backup.
Safe(main, his) ==
  /\ Own(main) # None => Kept(his)
  /\ Own(main) = None => main = his \/ (kind = "desktop" /\ main = Empty)

\* What a restore makes of a file of the backup.
PutBack(original, content) ==
  content = original \/ (kind = "desktop" /\ content = Applied(original))

OpKept ==
  /\ Safe(op.before[Main], op.mine)
  /\ op.at = "backup" => mine = op.mine /\ (kind = "desktop" => file[Main] # Empty)
  /\ op.at = "write" /\ op.name # "restore" => Kept(mine)
  /\ \A i \in DOMAIN op.plan :
       op.name # "restore" /\ op.plan[i].path = Main => Own(op.plan[i].next) # None

KeptInv ==
  /\ Safe(file[Main], mine)
  /\ \A b \in DOMAIN backups : Safe(backups[b].files[MainAt].original, backups[b].mine)
  /\ op # NoOp => OpKept

\* A restore plans what the backup holds.
Restoring ==
  op # NoOp /\ op.name = "restore" =>
    \A i \in DOMAIN op.plan, j \in DOMAIN backups[op.backup].files :
       op.plan[i].path = backups[op.backup].files[j].path
         => PutBack(backups[op.backup].files[j].original, op.plan[i].next)

BackAt(f) == PutBack(f.original, file[f.path])

EnvFits == kind # "codex" => env = None /\ \A b \in DOMAIN backups : backups[b].env = None

\* What a restore has put back so far.
PutBackSoFar ==
  /\ op.at = "write" => \A j \in DOMAIN backups[op.backup].files :
       \/ BackAt(backups[op.backup].files[j])
       \/ \E i \in (op.done + 1)..Len(op.plan) : op.plan[i].path = backups[op.backup].files[j].path
  /\ op.at \in {"env", "finish", "cleanup"} =>
       \A j \in DOMAIN backups[op.backup].files : BackAt(backups[op.backup].files[j])
  /\ op.at \in {"finish", "cleanup"} => env = backups[op.backup].env

Exact ==
  /\ EnvFits
  /\ op # NoOp /\ op.name = "restore" => PutBackSoFar

SomeAvailable == \E b \in DOMAIN backups : Available(b)

\* Managed, of the files f.
ManagedIn(f) == Own(f[Main]) # None /\ (kind = "desktop" => Own(f[Own(f[Main])]) # None)

\* A main file with the gateway's keys can only be restored when an older backup is left.
OriginalsFit ==
  \A b \in DOMAIN backups : Available(b) /\ Own(backups[b].files[MainAt].original) # None =>
    kind # "desktop" /\ \E c \in DOMAIN backups : c < b /\ Available(c)

IdleFits == Own(file[Main]) # None => SomeAvailable /\ ManagedIn(file)

BeforeFits ==
  /\ op.at # "cleanup" /\ Own(op.before[Main]) # None => SomeAvailable /\ ManagedIn(op.before)
  /\ op.at = "cleanup" /\ Own(file[Main]) # None => SomeAvailable
  /\ op.fresh /\ kind = "desktop" => Own(op.before[Main]) = None

\* What a point has at its start, and its backup while it is not complete.
PointFits ==
  /\ ~op.fresh /\ op.name # "restore" => Own(op.before[Main]) # None
  /\ op.fresh /\ op.at # "backup" =>
       /\ op.backup = Len(backups)
       /\ ~backups[op.backup].completed /\ ~backups[op.backup].restored
       /\ backups[op.backup].files[MainAt].original = op.before[Main]
  /\ op.fresh /\ op.at = "finish" => ManagedIn(file)

Restorable ==
  /\ ~broken => OriginalsFit /\ (op = NoOp => IdleFits) /\ (op # NoOp => BeforeFits)
  /\ op # NoOp => PointFits

(***************************************************************************)
(* Contents and plans.                                                     *)
(***************************************************************************)

Owners == Settings \cup Profiles \cup {None}

Entry == [path : Paths, next : Content, old : Content]

\* A content is a text of the user's and the gateway's, no file, or an empty one.
LEMMA ContentCases ==
  ASSUME NEW c \in Content
  PROVE  /\ Own(c) \in Owners
         /\ Own(c) # None => c \in Text
  BY ContentAssumption DEF Content, Text, Own, IsText, Owners

\* A transformed file has the gateway's keys it was given.
LEMMA TransformedOwn ==
  ASSUME NEW c \in Content, NEW own \in Owners
  PROVE  /\ Transformed(c, own) \in Text
         /\ Own(Transformed(c, own)) = own
<1>1. Transformed(c, own) \in Text
  BY DEF Content, Transformed, Text, IsText, Owners
<1>2. Transformed(c, own).own = own
  BY DEF Transformed
<1> QED BY <1>1, <1>2, ContentAssumption DEF Own, IsText

\* So has a generated one.
LEMMA GeneratedOwn ==
  ASSUME NEW own \in Owners
  PROVE  /\ Generated(own) \in Text
         /\ Own(Generated(own)) = own
<1>1. Generated(own) \in Text
  BY DEF Generated, Text, Owners
<1>2. Generated(own).own = own
  BY DEF Generated
<1> QED BY <1>1, <1>2, ContentAssumption DEF Own, IsText

\* What a desktop restore writes has the keys of what it restores.
LEMMA AppliedOwn ==
  ASSUME NEW c \in Content
  PROVE  /\ Applied(c) \in Content
         /\ Own(Applied(c)) = Own(c)
         /\ Applied(c) = c \/ Applied(c) = Empty
  BY ContentAssumption DEF Content, Text, Applied, Own, IsText

\* An entry of a plan.
LEMMA WriteIsEntry ==
  ASSUME file \in Files, NEW path \in Paths, NEW next \in Content
  PROVE  /\ Write(path, next) \in Entry
         /\ Write(path, next).path = path
         /\ Write(path, next).next = next
         /\ Write(path, next).old = file[path]
  BY DEF Files, Entry, Write

\* The settings are in one of the paths.
LEMMA SettingsPathIsPath ==
  ASSUME Typed, Shaped
  PROVE  /\ SettingsPath \in Paths
         /\ kind = "desktop" /\ Managed => SettingsPath \in Profiles /\ SettingsPath = Own(file[Main])
         /\ kind # "desktop" => SettingsPath = Main
         /\ Managed => Own(file[Main]) # None
  BY DEF Typed, Files, Shaped, Fits, SettingsPath, Paths, Managed, ProfileIDs

\* What is in a plan of a point or of a synchronisation.
LEMMA PlanOfShape ==
  ASSUME Typed, Shaped, NEW want \in Settings,
         InPlace \/ Len(backups) < MaxPoints
  PROVE  /\ PlanOf(want) \in Seq(Entry)
         /\ Len(PlanOf(want)) \in {1, 2}
         /\ \A i \in DOMAIN PlanOf(want) :
              /\ Fits(PlanOf(want)[i].path, PlanOf(want)[i].next)
              /\ PlanOf(want)[i].old = file[PlanOf(want)[i].path]
              /\ PlanOf(want)[i].path = Main => Own(PlanOf(want)[i].next) # None
         /\ ~InPlace => Whole(PlanOf(want))
<1>1. /\ file \in Files /\ Main \in Paths /\ Side \in Paths
      /\ file[Main] \in Content /\ file[SettingsPath] \in Content /\ NoFile \in Content
      /\ want \in Owners /\ want # None
      /\ Text \subseteq Content
  BY SettingsPathIsPath, NoneAssumption DEF Typed, Files, Paths, Owners, Content
<1>2. CASE kind = "desktop" /\ Managed
  <2>1. PICK w : w = Write(SettingsPath, TransformProfile(file[SettingsPath], want))
    OBVIOUS
  <2>2. w \in Entry /\ w.path = SettingsPath /\ w.old = file[w.path] /\ w.path # Main
    BY <1>1, <1>2, <2>1, TransformedOwn, WriteIsEntry, SettingsPathIsPath, PathsAssumption
    DEF TransformProfile, Profiles
  <2>3. PlanOf(want) = <<w>>
    BY <1>2, <2>1 DEF PlanOf, DesktopPlan
  <2>4. InPlace
    BY <1>2 DEF InPlace, EnvReady
  <2> QED BY <2>2, <2>3, <2>4 DEF Fits
<1>3. CASE kind = "desktop" /\ ~Managed
  <2>1. NewProfileID \in Profiles /\ NewProfileID \in Owners /\ NewProfileID \in Paths /\ NewProfileID # None
    BY <1>3, BoundsAssumption, NoneAssumption DEF Typed, NewProfileID, Profiles, Owners, Paths, InPlace
  <2>2. PICK v : v = Write(NewProfileID, TransformProfile(NoFile, want))
    OBVIOUS
  <2>3. PICK w : w = Write(Main, TransformMeta(file[Main], NewProfileID))
    OBVIOUS
  <2>4. v \in Entry /\ v.path = NewProfileID /\ v.old = file[v.path] /\ v.path # Main
    BY <1>1, <2>1, <2>2, TransformedOwn, WriteIsEntry, PathsAssumption DEF TransformProfile, Profiles
  <2>5. w \in Entry /\ w.path = Main /\ w.old = file[w.path] /\ Own(w.next) = NewProfileID
    BY <1>1, <2>1, <2>3, TransformedOwn, WriteIsEntry DEF TransformMeta
  <2>6. PlanOf(want) = <<v, w>>
    BY <1>3, <2>2, <2>3 DEF PlanOf, DesktopPlan
  <2>7. Whole(<<v, w>>)
    BY <1>3, <2>1, <2>4, <2>5 DEF Whole
  <2>8. /\ Fits(v.path, v.next)
        /\ Fits(w.path, w.next)
    BY <2>1, <2>4, <2>5 DEF Fits, ProfileIDs
  <2> QED BY <2>1, <2>4, <2>5, <2>6, <2>7, <2>8
<1>4. CASE kind # "desktop"
  <2>1. PICK v : v = Write(Main, Transformed(file[Main], want))
    OBVIOUS
  <2>2. PICK w : w = Write(Side, Generated(want))
    OBVIOUS
  <2>3. v \in Entry /\ v.path = Main /\ v.old = file[v.path] /\ Own(v.next) # None
    BY <1>1, <2>1, TransformedOwn, WriteIsEntry
  <2>4. w \in Entry /\ w.path = Side /\ w.old = file[w.path] /\ w.path # Main
    BY <1>1, <2>2, GeneratedOwn, WriteIsEntry, PathsAssumption
  <2>5. PlanOf(want) = <<v>> \/ PlanOf(want) = <<v, w>>
    BY <1>4, <2>1, <2>2, KindsAssumption DEF Typed, PlanOf, BuildCatalog, BuildCache
  <2>6. Whole(<<v>>) /\ Whole(<<v, w>>)
    BY <1>4, <2>3, <2>4 DEF Whole
  <2>7. /\ Fits(v.path, v.next)
        /\ Fits(w.path, w.next)
    BY <1>4 DEF Fits
  <2>8. CASE PlanOf(want) = <<v>>
    BY <2>3, <2>6, <2>7, <2>8
  <2>9. CASE PlanOf(want) = <<v, w>>
    BY <2>3, <2>4, <2>6, <2>7, <2>9
  <2> QED BY <2>5, <2>8, <2>9
<1> QED BY <1>2, <1>3, <1>4

(***************************************************************************)
(* The latest backup.                                                      *)
(***************************************************************************)

\* A set of numbers below a bound has a largest one.
LEMMA Largest ==
  ASSUME NEW n \in Nat, NEW S, S \subseteq 0..n, S # {}
  PROVE  \E m \in S : \A k \in S : k <= m
<1> DEFINE Less == {p \in Nat \X Nat : p[1] < p[2]}
           T == {n - k : k \in S}
<1>1. IsWellFoundedOn(Less, Nat)
  BY NatLessThanWellFounded DEF OpToRel
<1>2. T \subseteq Nat /\ T # {}
  <2>1. \A k \in S : k \in Nat /\ k <= n /\ n - k \in Nat
    OBVIOUS
  <2> QED BY <2>1
<1>3. PICK t \in T : \A u \in T : <<u, t>> \notin Less
  <2> HIDE DEF T, Less
  <2> QED BY <1>1, <1>2, WFMin, Zenon
<1>4. PICK m \in S : t = n - m
  BY <1>3
<1>5. ASSUME NEW k \in S
      PROVE  k <= m
  <2>1. n - k \in T
    OBVIOUS
  <2>2. <<n - k, t>> \notin Less
    BY <1>3, <2>1
  <2>3. n - k \in Nat /\ t \in Nat /\ ~(n - k < t)
    BY <1>2, <1>3, <2>1, <2>2
  <2> QED BY <1>4, <2>3
<1> QED BY <1>5

\* The backup a restore uses is available, and none that is available is newer.
LEMMA LatestIs ==
  ASSUME backups \in Seq(Backup)
  PROVE  /\ Latest \in 0..Len(backups)
         /\ Latest # 0 => Latest \in DOMAIN backups /\ Available(Latest)
         /\ \A c \in DOMAIN backups : Available(c) => c <= Latest /\ Latest # 0
<1> DEFINE S == {b \in DOMAIN backups : Available(b)}
<1>1. CASE S = {}
  <2>1. Latest = 0
    BY <1>1 DEF Latest
  <2> QED BY <1>1, <2>1
<1>2. CASE S # {}
  <2>1. S \subseteq 0..Len(backups) /\ Len(backups) \in Nat
    OBVIOUS
  <2>2. \E m \in S : \A k \in S : k <= m
    <3> HIDE DEF S
    <3> QED BY <1>2, <2>1, Largest
  <2>3. PICK m \in DOMAIN backups : Available(m) /\ \A c \in DOMAIN backups : Available(c) => c <= m
    BY <2>2
  <2>4. \E b \in DOMAIN backups : Available(b)
    BY <2>3
  <2>5. Latest \in DOMAIN backups /\ Available(Latest) /\ \A c \in DOMAIN backups : Available(c) => c <= Latest
    BY <2>3, <2>4, Zenon DEF Latest
  <2> QED BY <2>5
<1> QED BY <1>1, <1>2

\* There is one when some backup is available.
LEMMA LatestIsSome ==
  ASSUME backups \in Seq(Backup)
  PROVE  SomeAvailable <=> Latest # 0
BY LatestIs DEF SomeAvailable

\* The latest of the backups is the one that no other is newer than.
LEMMA LatestUnique ==
  ASSUME backups \in Seq(Backup), NEW b \in DOMAIN backups,
         Available(b), \A c \in DOMAIN backups : Available(c) => c <= b
  PROVE  Latest = b
BY LatestIs

\* A backup's files, with the main one where it belongs.
LEMMA BackupFiles ==
  ASSUME Typed, Shaped, NEW b \in DOMAIN backups
  PROVE  /\ backups[b] \in Backup
         /\ backups[b].files \in Seq([path : Paths, original : Content])
         /\ Len(backups[b].files) \in {1, 2}
         /\ MainAt \in DOMAIN backups[b].files
         /\ backups[b].files[MainAt].path = Main
         /\ \A i \in DOMAIN backups[b].files :
              /\ backups[b].files[i].path \in Paths
              /\ backups[b].files[i].original \in Content
              /\ backups[b].files[i].path = Main => i = MainAt
<1>1. backups[b] \in Backup /\ Whole(backups[b].files)
  BY DEF Typed, Shaped, BackupsFit
<1>2. backups[b].files \in Seq([path : Paths, original : Content])
  BY <1>1 DEF Backup
<1>3. Len(backups[b].files) \in {1, 2} /\ DOMAIN backups[b].files = 1..Len(backups[b].files)
  BY <1>1, <1>2 DEF Whole
<1>4. MainAt \in DOMAIN backups[b].files /\ backups[b].files[MainAt].path = Main
  BY <1>1, <1>3 DEF Whole, MainAt
<1>5. \A i \in DOMAIN backups[b].files : backups[b].files[i] \in [path : Paths, original : Content]
  <2>1. PICK s : s = backups[b].files
    OBVIOUS
  <2>2. s \in Seq([path : Paths, original : Content]) /\ DOMAIN s = 1..Len(s)
    BY <1>2, <1>3, <2>1
  <2>3. \A i \in 1..Len(s) : s[i] \in [path : Paths, original : Content]
    BY <2>2, ElementOfSeq
  <2> QED BY <2>1, <2>2, <2>3
<1>6. \A i \in DOMAIN backups[b].files : backups[b].files[i].path = Main => i = MainAt
  BY <1>1, <1>3, PathsAssumption DEF Whole, MainAt, Profiles
<1> QED BY <1>1, <1>2, <1>3, <1>4, <1>5, <1>6

\* What is in the plan of a restore.
LEMMA RestorePlanShape ==
  ASSUME Typed, Shaped, NEW b \in DOMAIN backups
  PROVE  /\ RestorePlan(b) \in Seq(Entry)
         /\ RestorePlan(b) # <<>> => Len(RestorePlan(b)) \in {1, 2}
         /\ \A i \in DOMAIN RestorePlan(b) :
              /\ Fits(RestorePlan(b)[i].path, RestorePlan(b)[i].next)
              /\ RestorePlan(b)[i].old = file[RestorePlan(b)[i].path]
         /\ \A i \in DOMAIN RestorePlan(b), j \in DOMAIN backups[b].files :
              RestorePlan(b)[i].path = backups[b].files[j].path
                => PutBack(backups[b].files[j].original, RestorePlan(b)[i].next)
         /\ \A j \in DOMAIN backups[b].files :
              \/ BackAt(backups[b].files[j])
              \/ \E i \in DOMAIN RestorePlan(b) : RestorePlan(b)[i].path = backups[b].files[j].path
<1> DEFINE files == backups[b].files
<1>1. /\ file \in Files
      /\ Len(files) \in {1, 2} /\ Whole(files)
      /\ DOMAIN files = 1..Len(files)
      /\ \A i \in DOMAIN files : files[i].path \in Paths /\ files[i].original \in Content
                                  /\ Fits(files[i].path, files[i].original)
      /\ \A i, j \in DOMAIN files : files[i].path = files[j].path => i = j
  <2>1. /\ file \in Files /\ Whole(files)
        /\ \A i \in DOMAIN files : Fits(files[i].path, files[i].original)
    BY DEF Typed, Shaped, BackupsFit
  <2>2. /\ Len(files) \in {1, 2} /\ DOMAIN files = 1..Len(files)
        /\ \A i \in DOMAIN files : files[i].path \in Paths /\ files[i].original \in Content
    BY BackupFiles
  <2>3. \A i, j \in DOMAIN files : files[i].path = files[j].path => i = j
    BY <2>1, <2>2, PathsAssumption DEF Whole, Profiles
  <2> QED BY <2>1, <2>2, <2>3
<1>2. CASE kind # "desktop"
  <2>1. RestorePlan(b) = [i \in DOMAIN files |-> Write(files[i].path, files[i].original)]
    BY <1>2 DEF RestorePlan, WrittenBack
  <2>2. \A i \in DOMAIN files :
          /\ RestorePlan(b)[i] \in Entry /\ RestorePlan(b)[i].path = files[i].path
          /\ RestorePlan(b)[i].next = files[i].original
          /\ RestorePlan(b)[i].old = file[files[i].path]
    BY <1>1, <2>1, WriteIsEntry
  <2>3. RestorePlan(b) \in Seq(Entry) /\ DOMAIN RestorePlan(b) = DOMAIN files /\ Len(RestorePlan(b)) = Len(files)
    <3>1. PICK n \in Nat : n = Len(files) /\ DOMAIN files = 1..n
      BY <1>1
    <3>2. PICK plan : plan = RestorePlan(b)
      OBVIOUS
    <3>3. \A i \in 1..n : plan[i] \in Entry
      BY <2>2, <3>1, <3>2
    <3>4. plan \in [1..n -> Entry]
      <4> HIDE DEF files
      <4> QED BY <2>1, <3>1, <3>2, <3>3
    <3>5. plan \in Seq(Entry) /\ Len(plan) = n /\ DOMAIN plan = 1..n
      BY <3>4
    <3> QED BY <3>1, <3>2, <3>5
  <2> HIDE DEF files
  <2>4. \A i \in DOMAIN RestorePlan(b) :
              /\ Fits(RestorePlan(b)[i].path, RestorePlan(b)[i].next)
              /\ RestorePlan(b)[i].old = file[RestorePlan(b)[i].path]
    BY <1>1, <2>2, <2>3
  <2>5. \A i \in DOMAIN RestorePlan(b), j \in DOMAIN files :
              RestorePlan(b)[i].path = files[j].path
                => PutBack(files[j].original, RestorePlan(b)[i].next)
    BY <1>1, <2>2, <2>3 DEF PutBack
  <2>6. \A j \in DOMAIN files :
              \E i \in DOMAIN RestorePlan(b) : RestorePlan(b)[i].path = files[j].path
    BY <2>2, <2>3
  <2> QED BY <1>1, <2>3, <2>4, <2>5, <2>6 DEF files
<1>3. CASE kind = "desktop"
  <2>1. PICK f, g : f = files[1] /\ g = files[2]
    OBVIOUS
  <2>2. /\ f.path \in Paths /\ f.original \in Content /\ g.path \in Paths /\ g.original \in Content
        /\ f.path # Main /\ g.path = Main /\ Own(g.original) \in ProfileIDs
        /\ Len(files) = 2 /\ f.path # g.path
    BY <1>1, <1>3, <2>1, PathsAssumption DEF Whole, Profiles, Fits
  <2>3. PICK v : v = Write(f.path, Applied(f.original))
    OBVIOUS
  <2>4. PICK w : w = Write(g.path, Applied(g.original))
    OBVIOUS
  <2>5. /\ v \in Entry /\ v.path = f.path /\ v.old = file[v.path] /\ v.next = Applied(f.original)
        /\ w \in Entry /\ w.path = g.path /\ w.old = file[w.path] /\ w.next = Applied(g.original)
    BY <1>1, <2>2, <2>3, <2>4, WriteIsEntry, AppliedOwn
  <2>6. Fits(v.path, v.next) /\ Fits(w.path, w.next)
    BY <2>2, <2>5, AppliedOwn DEF Fits
  <2>7. /\ PutBack(f.original, v.next) /\ PutBack(g.original, w.next)
    BY <1>3, <2>5 DEF PutBack
  <2>8. /\ AddRestoreWrite(f) = IF file[f.path] = f.original THEN <<>> ELSE <<v>>
        /\ AddRestoreWrite(g) = IF file[g.path] = g.original THEN <<>> ELSE <<w>>
    BY <2>3, <2>4 DEF AddRestoreWrite
  <2>9. RestorePlan(b) = AddRestoreWrite(f) \o AddRestoreWrite(g)
    BY <1>3, <2>1 DEF RestorePlan
  <2>10. /\ file[f.path] = f.original => BackAt(f)
         /\ file[g.path] = g.original => BackAt(g)
    BY DEF BackAt, PutBack
  <2>11. /\ DOMAIN files = {1, 2}
         /\ \A j \in DOMAIN files : files[j] = f \/ files[j] = g
    BY <1>1, <2>1, <2>2
  <2> HIDE DEF files
  <2>12. PICK plan : plan = RestorePlan(b)
    OBVIOUS
  <2>13. \/ plan = <<>> /\ BackAt(f) /\ BackAt(g)
         \/ plan = <<v>> /\ BackAt(g)
         \/ plan = <<w>> /\ BackAt(f)
         \/ plan = <<v, w>>
    <3>1. /\ <<>> \o <<>> = <<>> /\ <<v>> \o <<>> = <<v>> /\ <<>> \o <<w>> = <<w>>
          /\ <<v>> \o <<w>> = <<v, w>>
      <4>1. <<>> \in Seq(Entry) /\ <<v>> \in Seq(Entry) /\ <<w>> \in Seq(Entry)
        BY <2>5
      <4>2. <<v>> \o <<w>> = <<v, w>>
        <5>1. PICK s : s = <<v>> \o <<w>>
          OBVIOUS
        <5>2. s \in Seq(Entry) /\ Len(s) = 2 /\ s[1] = v /\ s[2] = w
          BY <4>1, <5>1, ConcatProperties
        <5>3. s = <<v, w>>
          BY <5>2
        <5> QED BY <5>1, <5>3
      <4> QED BY <4>1, <4>2, ConcatEmptySeq
    <3>2. CASE file[f.path] = f.original
      BY <2>8, <2>9, <2>10, <2>12, <3>1, <3>2, Zenon
    <3>3. CASE file[f.path] # f.original
      BY <2>8, <2>9, <2>10, <2>12, <3>1, <3>3, Zenon
    <3> QED BY <3>2, <3>3
  <2>14. /\ plan \in Seq(Entry)
         /\ plan # <<>> => Len(plan) \in {1, 2}
    <3>1. /\ <<>> \in Seq(Entry)
          /\ <<v>> \in Seq(Entry) /\ Len(<<v>>) = 1
          /\ <<w>> \in Seq(Entry) /\ Len(<<w>>) = 1
          /\ <<v, w>> \in Seq(Entry) /\ Len(<<v, w>>) = 2
      BY <2>5
    <3> QED BY <2>13, <3>1
  <2>15. \A i \in DOMAIN plan : plan[i] = v \/ plan[i] = w
    BY <2>13
  <2>16. /\ \E i \in DOMAIN plan : plan[i].path = f.path
         \/ BackAt(f)
    BY <2>5, <2>13
  <2>17. /\ \E i \in DOMAIN plan : plan[i].path = g.path
         \/ BackAt(g)
    BY <2>5, <2>13
  <2>18. \A i \in DOMAIN plan, j \in DOMAIN files :
           plan[i].path = files[j].path => PutBack(files[j].original, plan[i].next)
    BY <2>2, <2>5, <2>7, <2>11, <2>15
  <2>19. \A i \in DOMAIN plan : Fits(plan[i].path, plan[i].next) /\ plan[i].old = file[plan[i].path]
    BY <2>5, <2>6, <2>15
  <2> QED BY <2>11, <2>12, <2>14, <2>16, <2>17, <2>18, <2>19 DEF files
<1> QED BY <1>2, <1>3

(***************************************************************************)
(* The record of an operation.                                             *)
(***************************************************************************)

\* A reversed plan has the entries of the plan.
LEMMA ReverseEntries ==
  ASSUME NEW s \in Seq(Entry)
  PROVE  /\ Reverse(s) \in Seq(Entry)
         /\ Len(Reverse(s)) = Len(s)
         /\ \A i \in DOMAIN Reverse(s) : \E j \in DOMAIN s : Reverse(s)[i] = s[j]
         /\ \A j \in DOMAIN s : \E i \in DOMAIN Reverse(s) : Reverse(s)[i] = s[j]
<1>1. PICK n \in Nat : n = Len(s) /\ DOMAIN s = 1..n
  OBVIOUS
<1>2. PICK r : r = [i \in 1..n |-> s[(n - i) + 1]]
  OBVIOUS
<1>3. Reverse(s) = r
  BY <1>1, <1>2 DEF Reverse
<1>4. \A i \in 1..n : (n - i) + 1 \in 1..n /\ r[i] = s[(n - i) + 1] /\ r[i] \in Entry
  BY <1>1, <1>2
<1>5. r \in Seq(Entry) /\ Len(r) = n /\ DOMAIN r = 1..n
  <2>1. r \in [1..n -> Entry]
    BY <1>2, <1>4
  <2> QED BY <2>1
<1>6. ASSUME NEW j \in 1..n
      PROVE  (n - j) + 1 \in 1..n /\ r[(n - j) + 1] = s[j]
  <2>1. (n - j) + 1 \in 1..n /\ (n - ((n - j) + 1)) + 1 = j
    OBVIOUS
  <2> QED BY <1>4, <2>1
<1> QED BY <1>1, <1>3, <1>4, <1>5, <1>6

\* The files a rollback puts back are the ones that were planned.
LEMMA RollbackEntries ==
  ASSUME NEW plan \in Seq(Entry), plan # <<>>, NEW name
  PROVE  /\ Rollback(plan, name) \in Seq(Entry)
         /\ Rollback(plan, name) # <<>>
         /\ \A i \in DOMAIN Rollback(plan, name) : \E j \in DOMAIN plan : Rollback(plan, name)[i] = plan[j]
         /\ \A p : Planned(plan, p) => Planned(Rollback(plan, name), p)
<1>1. /\ Reverse(plan) \in Seq(Entry)
      /\ Reverse(plan) # <<>>
      /\ \A i \in DOMAIN Reverse(plan) : \E j \in DOMAIN plan : Reverse(plan)[i] = plan[j]
      /\ \A j \in DOMAIN plan : \E i \in DOMAIN Reverse(plan) : Reverse(plan)[i] = plan[j]
  BY ReverseEntries
<1>2. Rollback(plan, name) = plan \/ Rollback(plan, name) = Reverse(plan)
  BY DEF Rollback
<1>3. \A p : Planned(plan, p) => Planned(Reverse(plan), p)
  BY <1>1 DEF Planned
<1> QED BY <1>1, <1>2, <1>3

\* A plan that has a length is not empty.
LEMMA PlanIsSome ==
  ASSUME NEW s \in Seq(Entry), Len(s) \in {1, 2}
  PROVE  s # <<>>
OBVIOUS

\* What an operation keeps from its start to its end.
SameAs(o, u) ==
  /\ u.name = o.name /\ u.want = o.want /\ u.plan = o.plan /\ u.fresh = o.fresh
  /\ u.backup = o.backup /\ u.oldEnv = o.oldEnv /\ u.before = o.before /\ u.mine = o.mine

\* The fields of an operation.
LEMMA OpFields ==
  ASSUME NEW o \in Op
  PROVE  /\ o.name \in {"point", "sync", "restore"} /\ o.want \in Settings \cup {None} /\ o.at \in Steps
         /\ o.plan \in Seq(Entry) /\ o.done \in Nat /\ o.undo \in Seq(Entry) /\ o.fresh \in BOOLEAN
         /\ o.backup \in 0..MaxPoints /\ o.oldEnv \in EnvValues /\ o.quiet \in BOOLEAN /\ o.failed \in BOOLEAN
         /\ o.before \in Files /\ o.mine \in Content /\ o.refused \in Nat
BY DEF Op, Plans, Entry

\* An operation that starts.
LEMMA StartedIsOp ==
  ASSUME Typed, NEW name \in {"point", "sync", "restore"}, NEW want \in Settings \cup {None},
         NEW at \in Steps, NEW plan \in Seq(Entry), NEW fresh \in BOOLEAN, NEW b \in 0..MaxPoints
  PROVE  Started(name, want, at, plan, fresh, b) \in Op
<1>1. <<>> \in Seq(Entry)
  OBVIOUS
<1>2. env \in EnvValues /\ file \in Files /\ mine \in Content
  BY DEF Typed
<1> QED BY <1>1, <1>2 DEF Started, Op, Plans, Entry

\* An operation that takes its next step.
LEMMA NextStepIsOp ==
  ASSUME NEW o \in Op, NEW at \in Steps, NEW u, u = [o EXCEPT !.at = at]
  PROVE  /\ u \in Op /\ SameAs(o, u)
         /\ u.at = at /\ u.done = o.done /\ u.undo = o.undo
         /\ u.quiet = o.quiet /\ u.failed = o.failed /\ u.refused = o.refused
BY DEF Op, SameAs

\* An operation that was refused a write.
LEMMA RefusedIsOp ==
  ASSUME NEW o \in Op
  PROVE  /\ Refused(o) \in Op /\ SameAs(o, Refused(o))
         /\ Refused(o).at = o.at /\ Refused(o).done = o.done /\ Refused(o).undo = o.undo
         /\ Refused(o).quiet = o.quiet /\ Refused(o).failed = o.failed
         /\ Refused(o).refused = o.refused + 1
<1>1. PICK n \in Nat : n = o.refused + 1
  BY OpFields
<1>2. Refused(o) = [o EXCEPT !.refused = n]
  BY <1>1 DEF Refused, Op
<1> QED BY <1>1, <1>2 DEF Op, SameAs

\* An operation that puts its files back.
LEMMA RollingBackIsOp ==
  ASSUME NEW o \in Op, Len(o.plan) \in {1, 2}, NEW quiet \in BOOLEAN, NEW u, u = RollingBack(Refused(o), quiet)
  PROVE  /\ u \in Op /\ SameAs(o, u)
         /\ u.at = "undo" /\ u.undo = Rollback(o.plan, o.name) /\ u.quiet = quiet
         /\ u.failed = o.failed /\ u.refused = o.refused + 1
<1>1. PICK r : r = Refused(o)
  OBVIOUS
<1>2. r \in Op /\ SameAs(o, r) /\ r.failed = o.failed /\ r.refused = o.refused + 1
  BY <1>1, RefusedIsOp
<1>3. PICK back : back = Rollback(o.plan, o.name)
  OBVIOUS
<1>4. back \in Seq(Entry)
  <2>1. o.plan \in Seq(Entry) /\ o.plan # <<>>
    <3>1. o.plan \in Seq(Entry)
      BY OpFields
    <3>2. Len(<<>>) = 0
      OBVIOUS
    <3> QED BY <3>1, <3>2
  <2> QED BY <1>3, <2>1, RollbackEntries
<1>5. u = [r EXCEPT !.at = "undo", !.undo = back, !.quiet = quiet]
  BY <1>1, <1>2, <1>3 DEF RollingBack, SameAs
<1>6. "undo" \in Steps
  BY DEF Steps
<1> QED BY <1>2, <1>3, <1>4, <1>5, <1>6 DEF Op, SameAs, Plans, Entry

\* An operation that could not put a file back, or the variable, or the manifest.
LEMMA FailedIsOp ==
  ASSUME NEW o \in Op, NEW u, u = [Refused(o) EXCEPT !.failed = TRUE]
  PROVE  /\ u \in Op /\ SameAs(o, u)
         /\ u.at = o.at /\ u.done = o.done /\ u.undo = o.undo
         /\ u.quiet = o.quiet /\ u.failed = TRUE /\ u.refused = o.refused + 1
<1>1. PICK r : r = Refused(o)
  OBVIOUS
<1>2. /\ r \in Op /\ SameAs(o, r) /\ r.at = o.at /\ r.done = o.done /\ r.undo = o.undo
      /\ r.quiet = o.quiet /\ r.refused = o.refused + 1
  BY <1>1, RefusedIsOp
<1> QED BY <1>1, <1>2 DEF Op, SameAs

\* An operation that has put a file back.
LEMMA TailIsOp ==
  ASSUME NEW o \in Op, o.undo # <<>>, NEW u, u = [o EXCEPT !.undo = Tail(@)]
  PROVE  /\ u \in Op /\ SameAs(o, u)
         /\ u.at = o.at /\ u.done = o.done /\ u.undo = Tail(o.undo)
         /\ u.quiet = o.quiet /\ u.failed = o.failed /\ u.refused = o.refused
<1>1. PICK rest : rest = Tail(o.undo)
  OBVIOUS
<1>2. rest \in Seq(Entry)
  BY <1>1, OpFields
<1>3. u = [o EXCEPT !.undo = rest]
  BY <1>1 DEF Op
<1> QED BY <1>1, <1>2, <1>3 DEF Op, SameAs, Plans, Entry

\* What an operation answers.
LEMMA AnsweredIsAnswer ==
  ASSUME NEW o \in Op, NEW result \in {"ok", "unchanged", "none", "error", "partial"},
         NEW a, a = Answered(o, result)
  PROVE  /\ a \in Answers
         /\ a.name = o.name /\ a.result = result /\ a.at = o.at /\ a.before = o.before
         /\ a.oldEnv = o.oldEnv /\ a.backup = o.backup /\ a.refused = o.refused
BY DEF Op, Answered, Answers

(***************************************************************************)
(* Types.                                                                  *)
(***************************************************************************)

TypeInv == Typed /\ Shaped /\ InPhase

SystemFits ==
  /\ kind \in Kinds
  /\ file \in Files /\ Fits(Main, file[Main])
  /\ env \in EnvValues
  /\ backups \in Seq(Backup) /\ BackupsFit
  /\ mine \in Content

BudgetOK == refused \in Nat /\ crashes \in Nat /\ edits \in Nat

\* The types of everything but the operation are in the invariant.
LEMMA SystemIsFit ==
  ASSUME TypeInv
  PROVE  SystemFits /\ BudgetOK /\ broken \in BOOLEAN
BY DEF TypeInv, Typed, Shaped, SystemFits, BudgetOK

\* What a step does not touch keeps its type.
LEMMA SystemStays ==
  ASSUME SystemFits, UNCHANGED <<kind, file, env, backups, mine>>
  PROVE  SystemFits'
<1>1. Fits(Main, file[Main])' <=> Fits(Main, file[Main])
  BY DEF Fits, Own, IsText
<1>2. BackupsFit' <=> BackupsFit
  BY DEF BackupsFit, Whole, Fits, Own, IsText
<1> QED BY <1>1, <1>2 DEF SystemFits

\* The counters stay counters.
LEMMA BudgetStays ==
  ASSUME BudgetOK, UNCHANGED budget \/ Refuse
  PROVE  BudgetOK'
BY DEF BudgetOK, budget, Refuse

\* An operation that ends leaves no trace but its answer.
LEMMA EndKeepsTypes ==
  ASSUME TypeInv, NEW o \in Op, NEW result \in {"ok", "unchanged", "none", "error", "partial"},
         Answer(o, result), SystemFits', BudgetOK'
  PROVE  TypeInv'
<1>1. op' = NoOp /\ last' = Answered(o, result) /\ broken' = (broken \/ o.failed)
  BY DEF Answer
<1>2. Answered(o, result) \in Answers
  BY AnsweredIsAnswer
<1>3. broken' \in BOOLEAN
  BY <1>1, OpFields DEF TypeInv, Typed
<1> QED BY <1>1, <1>2, <1>3 DEF TypeInv, Typed, Shaped, InPhase, SystemFits, BudgetOK

\* An operation that goes on has the types when its record has.
LEMMA GoingOnKeepsTypes ==
  ASSUME TypeInv, NEW o \in Op, Continue(o), SystemFits', BudgetOK', OpFits', InPhase'
  PROVE  TypeInv'
<1>1. op' = o /\ last' = NoOp /\ broken' = broken
  BY DEF Continue
<1> QED BY <1>1 DEF TypeInv, Typed, Shaped, SystemFits, BudgetOK

\* The plan of an operation stays fit, and what it puts back comes from before.
LEMMA OpStaysFit ==
  ASSUME TypeInv, op # NoOp, NEW o \in Op, Continue(o), SameAs(op, o), kind' = kind,
         \A i \in DOMAIN o.undo : o.undo[i].old = op.before[o.undo[i].path]
  PROVE  OpFits'
<1>1. op' = o /\ OpFits
  BY DEF Continue, TypeInv, Shaped
<1>2. o.plan = op.plan /\ o.before = op.before
  BY DEF SameAs
<1>3. FromBefore(op.plan)' /\ FromBefore(op.undo)'
  BY <1>1, <1>2 DEF FromBefore, OpFits
<1>4. Fits(Main, op.before[Main])'
  BY <1>1, <1>2 DEF Fits, OpFits, Own, IsText
<1>5. \A i \in DOMAIN o.plan : Fits(o.plan[i].path, o.plan[i].next)'
  BY <1>1, <1>2 DEF Fits, OpFits, Own, IsText
<1> QED BY <1>1, <1>2, <1>3, <1>4, <1>5 DEF OpFits

\* The operation that holds the mutex.
LEMMA OpIsOp ==
  ASSUME TypeInv, op # NoOp
  PROVE  op \in Op /\ OpFits /\ InPhase
BY DEF TypeInv, Typed, Shaped

\* In the beginning there is no operation.
LEMMA InitTypes ==
  ASSUME Init
  PROVE  TypeInv
<1>1. PICK main \in {NoFile} \cup [text : Texts, own : {None}], side \in {NoFile} \cup [text : Texts, own : {None}] :
        /\ file = [p \in Paths |-> CASE p = Main -> main [] p = Side -> side [] OTHER -> NoFile]
        /\ mine = main
  BY DEF Init
<1>2. main \in Content /\ side \in Content /\ NoFile \in Content /\ Own(main) = None
  <2>1. [text : Texts, own : {None}] \subseteq Text
    BY DEF Text
  <2>2. CASE main = NoFile
    BY <2>1, <2>2 DEF Content, Own, IsText
  <2>3. CASE main \in [text : Texts, own : {None}]
    BY <2>1, <2>3 DEF Content, Own, IsText
  <2> QED BY <2>1, <2>2, <2>3 DEF Content
<1>3. file \in Files /\ file[Main] = main
  <2>1. Main \in Paths
    BY DEF Paths
  <2>2. \A p \in Paths : file[p] \in {main, side, NoFile}
    BY <1>1
  <2>3. file[Main] = main
    <3>1. file[Main] = CASE Main = Main -> main [] Main = Side -> side [] OTHER -> NoFile
      BY <1>1, <2>1
    <3> QED BY <3>1, PathsAssumption
  <2>4. file = [p \in Paths |-> file[p]]
    BY <1>1
  <2> QED BY <1>2, <2>2, <2>3, <2>4 DEF Files
<1>4. <<>> \in Seq(Backup) /\ Len(<<>>) = 0 /\ DOMAIN <<>> = {}
  OBVIOUS
<1>5. BackupsFit
  BY <1>4, BoundsAssumption DEF BackupsFit, Init
<1>6. Fits(Main, file[Main])
  BY <1>2, <1>3 DEF Fits, ProfileIDs
<1>7. kind \in Kinds /\ env \in EnvValues /\ backups \in Seq(Backup) /\ broken \in BOOLEAN
  BY <1>4 DEF Init, EnvValues
<1>8. op = NoOp /\ last = NoOp /\ refused \in Nat /\ crashes \in Nat /\ edits \in Nat
  BY DEF Init
<1> QED BY <1>1, <1>2, <1>3, <1>5, <1>6, <1>7, <1>8 DEF TypeInv, Typed, Shaped, InPhase

\* A point or a synchronisation starts with a plan that fits.
LEMMA PlannedKeepsTypes ==
  ASSUME TypeInv, op = NoOp, NEW name \in {"point", "sync", "restore"}, NEW want \in Settings \cup {None},
         NEW at \in {"backup", "write"}, NEW plan \in Seq(Entry), NEW fresh \in BOOLEAN, NEW b \in 0..MaxPoints,
         Continue(Started(name, want, at, plan, fresh, b)),
         UNCHANGED <<kind, file, env, backups, mine, budget>>,
         Len(plan) \in {1, 2},
         \A i \in DOMAIN plan : Fits(plan[i].path, plan[i].next) /\ plan[i].old = file[plan[i].path],
         fresh => name # "restore" /\ Whole(plan) /\ at = "backup" /\ b = Len(backups) + 1,
         at = "backup" => fresh,
         name = "restore" => b \in DOMAIN backups
  PROVE  TypeInv'
<1>1. at \in Steps /\ Typed
  BY DEF Steps, TypeInv
<1>2. PICK o \in Op :
           /\ o = Started(name, want, at, plan, fresh, b)
           /\ o.name = name /\ o.want = want /\ o.at = at /\ o.plan = plan /\ o.done = 0 /\ o.undo = <<>>
           /\ o.fresh = fresh /\ o.backup = b /\ o.oldEnv = env /\ o.quiet = FALSE /\ o.failed = FALSE
           /\ o.before = file /\ o.mine = mine /\ o.refused = 0
  <2>1. Started(name, want, at, plan, fresh, b) \in Op
    BY <1>1, StartedIsOp
  <2> QED BY <2>1 DEF Started
<1>3. o \in Op
  BY <1>2
<1>4. op' = o /\ Continue(o)
  BY <1>2 DEF Continue
<1>5. SystemFits' /\ BudgetOK'
  BY SystemIsFit, SystemStays, BudgetStays
<1>6. OpFits'
  <2>1. FromBefore(op.plan)' /\ FromBefore(op.undo)'
    BY <1>2, <1>4 DEF FromBefore
  <2>2. Fits(Main, op.before[Main])'
    BY <1>2, <1>4 DEF TypeInv, Shaped, Fits, Own, IsText
  <2>3. \A i \in DOMAIN plan : Fits(plan[i].path, plan[i].next)'
    BY DEF Fits, Own, IsText
  <2> QED BY <1>2, <1>4, <2>1, <2>2, <2>3 DEF OpFits
<1>7. InPhase'
  <2>1. Whole(plan)' <=> Whole(plan)
    BY DEF Whole
  <2>2. o.fresh => o.name # "restore" /\ Whole(o.plan)'
    BY <1>2, <2>1
  <2>3. /\ o.at = "backup" => o.fresh /\ o.backup = Len(backups') + 1
        /\ (o.fresh \/ o.name = "restore") /\ o.at # "backup" => o.backup \in DOMAIN backups'
        /\ o.at \in {"backup", "write"} /\ o.done < Len(o.plan)
    <3>1. backups' = backups
      OBVIOUS
    <3>2. at = "backup" => fresh /\ b = Len(backups') + 1
      BY <3>1
    <3>3. (fresh \/ name = "restore") /\ at # "backup" => b \in DOMAIN backups'
      BY <3>1
    <3>4. 0 < Len(plan)
      OBVIOUS
    <3> QED BY <1>2, <3>2, <3>3, <3>4
  <2> QED BY <1>4, <2>2, <2>3 DEF InPhase, WithBackup
<1> QED BY <1>3, <1>4, <1>5, <1>6, <1>7, GoingOnKeepsTypes

\* A file is replaced by a content that fits.
LEMMA FileIsReplaced ==
  ASSUME SystemFits, NEW p \in Paths, NEW c \in Content, Fits(p, c),
         file' = [file EXCEPT ![p] = c], UNCHANGED <<kind, env, backups>>, mine' \in Content
  PROVE  SystemFits'
<1>1. file' \in Files
  BY DEF SystemFits, Files
<1>2. file'[Main] = IF p = Main THEN c ELSE file[Main]
  BY DEF SystemFits, Files, Paths
<1>3. Fits(Main, file[Main])'
  BY <1>2 DEF SystemFits, Fits, Own, IsText
<1>4. BackupsFit' <=> BackupsFit
  BY DEF BackupsFit, Whole, Fits, Own, IsText
<1> QED BY <1>1, <1>3, <1>4 DEF SystemFits

\* The variable takes another value.
LEMMA VariableIsSet ==
  ASSUME SystemFits, env' \in EnvValues, UNCHANGED <<kind, file, backups, mine>>
  PROVE  SystemFits'
<1>1. Fits(Main, file[Main])' <=> Fits(Main, file[Main])
  BY DEF Fits, Own, IsText
<1>2. BackupsFit' <=> BackupsFit
  BY DEF BackupsFit, Whole, Fits, Own, IsText
<1> QED BY <1>1, <1>2 DEF SystemFits

\* The next step of an operation keeps the types when its phase fits.
LEMMA PhaseKeepsTypes ==
  ASSUME TypeInv, op # NoOp, NEW o \in Op, Continue(o), SameAs(op, o), kind' = kind,
         o.undo = op.undo, SystemFits', BudgetOK', InPhase'
  PROVE  TypeInv'
<1>1. \A i \in DOMAIN o.undo : o.undo[i].old = op.before[o.undo[i].path]
  BY OpIsOp DEF OpFits, FromBefore
<1> QED BY <1>1, OpStaysFit, GoingOnKeepsTypes

\* A rollback has files to put back, and they are the ones from before.
LEMMA RollingBackKeepsTypes ==
  ASSUME TypeInv, op # NoOp, op.at # "backup", NEW quiet \in BOOLEAN,
         Continue(RollingBack(Refused(op), quiet)), Refuse,
         UNCHANGED <<kind, file, env, backups, mine>>
  PROVE  TypeInv'
<1>1. PICK o : o = RollingBack(Refused(op), quiet)
  OBVIOUS
<1>2. op \in Op /\ OpFits /\ InPhase /\ Len(op.plan) \in {1, 2}
  BY OpIsOp DEF OpFits
<1>3. o \in Op /\ SameAs(op, o) /\ o.at = "undo" /\ o.undo = Rollback(op.plan, op.name)
  BY <1>1, <1>2, RollingBackIsOp
<1>4. op.plan \in Seq(Entry) /\ op.plan # <<>>
  <2>1. op.plan \in Seq(Entry)
    BY <1>2, OpFields
  <2> QED BY <1>2, <2>1, PlanIsSome
<1>5. /\ o.undo # <<>>
      /\ \A i \in DOMAIN o.undo : \E j \in DOMAIN op.plan : o.undo[i] = op.plan[j]
  BY <1>3, <1>4, RollbackEntries
<1>6. Continue(o) /\ op' = o
  BY <1>1 DEF Continue
<1>7. OpFits'
  <2>1. \A i \in DOMAIN o.undo : o.undo[i].old = op.before[o.undo[i].path]
    BY <1>2, <1>5 DEF OpFits, FromBefore
  <2> QED BY <1>3, <1>6, <2>1, OpStaysFit
<1>8. InPhase'
  BY <1>2, <1>3, <1>5, <1>6 DEF InPhase, WithBackup, SameAs, Whole
<1>9. SystemFits' /\ BudgetOK'
  BY SystemIsFit, SystemStays, BudgetStays
<1> QED BY <1>3, <1>6, <1>7, <1>8, <1>9, GoingOnKeepsTypes

\* A file of a rollback is dealt with, and the next one or the next thing follows.
LEMMA UndoStepKeepsTypes ==
  ASSUME TypeInv, At("undo"), NEW o \in Op, SameAs(op, o), o.undo = op.undo, o.at = "undo",
         UndoStep(o), kind' = kind, backups' = backups, SystemFits', BudgetOK'
  PROVE  TypeInv'
<1>1. op # NoOp /\ op.at = "undo" /\ op \in Op /\ OpFits /\ InPhase /\ op.undo # <<>>
  BY OpIsOp DEF At, InPhase
<1>2. PICK next : next = [o EXCEPT !.undo = Tail(@)]
  OBVIOUS
<1>3. /\ next \in Op /\ SameAs(o, next) /\ next.undo = Tail(o.undo) /\ next.at = "undo"
  BY <1>1, <1>2, TailIsOp
<1>4. SameAs(op, next)
  BY <1>3 DEF SameAs
<1>5. \A i \in DOMAIN next.undo : next.undo[i].old = op.before[next.undo[i].path]
  <2>1. PICK s : s = op.undo
    OBVIOUS
  <2>2. s \in Seq(Entry) /\ s # <<>> /\ \A i \in DOMAIN s : s[i].old = op.before[s[i].path]
    BY <1>1, <2>1, OpFields DEF OpFits, FromBefore
  <2>3. \A i \in DOMAIN Tail(s) : i + 1 \in DOMAIN s /\ Tail(s)[i] = s[i + 1]
    BY <2>2
  <2> QED BY <1>3, <2>1, <2>2, <2>3
<1>6. CASE next.undo # <<>>
  <2>1. Continue(next) /\ op' = next
    BY <1>2, <1>6 DEF UndoStep, Continue
  <2>2. OpFits'
    BY <1>1, <1>3, <1>4, <1>5, <2>1, OpStaysFit
  <2>3. InPhase'
    BY <1>1, <1>3, <1>4, <1>6, <2>1 DEF InPhase, WithBackup, SameAs, Whole
  <2> QED BY <1>3, <2>1, <2>2, <2>3, GoingOnKeepsTypes
<1>7. CASE next.undo = <<>> /\ AfterUndo # "undo"
  <2>1. AfterUndo \in {"undoEnv", "undoManifest"} /\ AfterUndo \in Steps
    BY <1>7 DEF AfterUndo, Steps
  <2>2. PICK u : u = [next EXCEPT !.at = AfterUndo]
    OBVIOUS
  <2>3. u \in Op /\ SameAs(next, u) /\ u.at = AfterUndo /\ u.undo = next.undo
    BY <1>3, <2>1, <2>2, NextStepIsOp
  <2>4. SameAs(op, u)
    BY <1>4, <2>3 DEF SameAs
  <2>5. Continue(u) /\ op' = u
    BY <1>2, <1>7, <2>2 DEF UndoStep, Continue
  <2>6. OpFits'
    BY <1>1, <1>5, <2>3, <2>4, <2>5, OpStaysFit
  <2>7. InPhase'
    BY <1>1, <2>1, <2>3, <2>4, <2>5 DEF InPhase, WithBackup, SameAs, Whole
  <2> QED BY <2>3, <2>5, <2>6, <2>7, GoingOnKeepsTypes
<1>8. CASE next.undo = <<>> /\ AfterUndo = "undo"
  <2>1. RolledBack(next)
    BY <1>2, <1>8 DEF UndoStep
  <2> QED BY <1>3, <2>1, EndKeepsTypes DEF RolledBack
<1> QED BY <1>6, <1>7, <1>8

\* Point, and what it answers at once.
LEMMA PointKeepsTypes ==
  ASSUME TypeInv, NEW want \in Settings, Point(want)
  PROVE  TypeInv'
<1>1. /\ Typed /\ Shaped /\ op = NoOp /\ want \in Settings \cup {None}
      /\ UNCHANGED <<kind, file, env, backups, mine, budget>>
      /\ Len(backups) \in Nat /\ MaxPoints \in Nat
  BY BoundsAssumption DEF TypeInv, Typed, Point
<1>2. SystemFits' /\ BudgetOK'
  BY <1>1, SystemIsFit, SystemStays, BudgetStays
<1>3. CASE \E result \in {"error", "unchanged"} :
             Answer(Started("point", want, "write", <<>>, FALSE, 0), result)
  <2>1. <<>> \in Seq(Entry) /\ "write" \in Steps /\ 0 \in 0..MaxPoints
    BY <1>1 DEF Steps
  <2>2. Started("point", want, "write", <<>>, FALSE, 0) \in Op
    BY <1>1, <2>1, StartedIsOp
  <2> QED BY <1>2, <1>3, <2>2, EndKeepsTypes
<1>4. CASE InPlace /\ Continue(Started("point", want, "write", PlanOf(want), FALSE, 0))
  <2>1. PICK plan : plan = PlanOf(want)
    OBVIOUS
  <2>2. /\ plan \in Seq(Entry) /\ Len(plan) \in {1, 2}
        /\ \A i \in DOMAIN plan : Fits(plan[i].path, plan[i].next) /\ plan[i].old = file[plan[i].path]
    BY <1>1, <1>4, <2>1, PlanOfShape
  <2>3. 0 \in 0..MaxPoints
    BY <1>1
  <2> QED BY <1>1, <1>4, <2>1, <2>2, <2>3, PlannedKeepsTypes
<1>5. CASE /\ ~InPlace /\ Len(backups) < MaxPoints
           /\ Continue(Started("point", want, "backup", PlanOf(want), TRUE, Len(backups) + 1))
  <2>1. PICK plan : plan = PlanOf(want)
    OBVIOUS
  <2>2. /\ plan \in Seq(Entry) /\ Len(plan) \in {1, 2} /\ Whole(plan)
        /\ \A i \in DOMAIN plan : Fits(plan[i].path, plan[i].next) /\ plan[i].old = file[plan[i].path]
    BY <1>1, <1>5, <2>1, PlanOfShape
  <2>3. Len(backups) + 1 \in 0..MaxPoints
    BY <1>1, <1>5
  <2> QED BY <1>1, <1>5, <2>1, <2>2, <2>3, PlannedKeepsTypes
<1> QED BY <1>3, <1>4, <1>5 DEF Point

\* A synchronisation starts in place.
LEMMA SyncKeepsTypes ==
  ASSUME TypeInv, NEW want \in Settings, SyncSettings(want)
  PROVE  TypeInv'
<1>1. /\ Typed /\ Shaped /\ op = NoOp /\ InPlace /\ want \in Settings \cup {None}
      /\ UNCHANGED <<kind, file, env, backups, mine, budget>>
      /\ \/ Continue(Started("sync", want, "write", PlanOf(want), FALSE, 0))
         \/ Answer(Started("sync", want, "write", <<>>, FALSE, 0), "error")
  BY DEF TypeInv, SyncSettings
<1>2. PICK plan : plan = PlanOf(want)
  OBVIOUS
<1>3. /\ plan \in Seq(Entry) /\ Len(plan) \in {1, 2}
      /\ \A i \in DOMAIN plan : Fits(plan[i].path, plan[i].next) /\ plan[i].old = file[plan[i].path]
  BY <1>1, <1>2, PlanOfShape
<1>4. 0 \in 0..MaxPoints /\ "write" \in Steps /\ <<>> \in Seq(Entry)
  BY BoundsAssumption DEF Steps
<1>5. CASE Continue(Started("sync", want, "write", PlanOf(want), FALSE, 0))
  BY <1>1, <1>2, <1>3, <1>4, <1>5, PlannedKeepsTypes
<1>6. CASE Answer(Started("sync", want, "write", <<>>, FALSE, 0), "error")
  <2>1. SystemFits' /\ BudgetOK'
    BY <1>1, SystemIsFit, SystemStays, BudgetStays
  <2>2. Started("sync", want, "write", <<>>, FALSE, 0) \in Op
    BY <1>1, <1>4, StartedIsOp
  <2> QED BY <1>6, <2>1, <2>2, EndKeepsTypes
<1> QED BY <1>1, <1>5, <1>6

\* A restore starts with what the latest backup holds.
LEMMA RestoreKeepsTypes ==
  ASSUME TypeInv, Restore
  PROVE  TypeInv'
<1>1. /\ Typed /\ Shaped /\ op = NoOp /\ None \in Settings \cup {None}
      /\ UNCHANGED <<kind, file, env, backups, mine, budget>>
      /\ backups \in Seq(Backup) /\ Len(backups) \in Nat /\ Len(backups) <= MaxPoints /\ MaxPoints \in Nat
  BY BoundsAssumption DEF TypeInv, Typed, Shaped, BackupsFit, Restore
<1>2. SystemFits' /\ BudgetOK'
  BY <1>1, SystemIsFit, SystemStays, BudgetStays
<1>3. Latest \in 0..MaxPoints /\ (Latest # 0 => Latest \in DOMAIN backups)
  BY <1>1, LatestIs
<1>4. CASE \E result \in {"none", "error", "unchanged"}, b \in 0..MaxPoints :
             Answer(Started("restore", None, "write", <<>>, FALSE, b), result)
  <2>1. <<>> \in Seq(Entry) /\ "write" \in Steps
    BY DEF Steps
  <2>2. \A b \in 0..MaxPoints : Started("restore", None, "write", <<>>, FALSE, b) \in Op
    BY <1>1, <2>1, StartedIsOp
  <2> QED BY <1>2, <1>4, <2>2, EndKeepsTypes
<1>5. CASE /\ Latest # 0 /\ RestorePlan(Latest) # <<>>
           /\ Continue(Started("restore", None, "write", RestorePlan(Latest), FALSE, Latest))
  <2>1. PICK b : b = Latest
    OBVIOUS
  <2>2. PICK plan : plan = RestorePlan(b)
    OBVIOUS
  <2>3. b \in DOMAIN backups /\ b \in 0..MaxPoints
    BY <1>3, <1>5, <2>1
  <2>4. /\ plan \in Seq(Entry) /\ Len(plan) \in {1, 2}
        /\ \A i \in DOMAIN plan : Fits(plan[i].path, plan[i].next) /\ plan[i].old = file[plan[i].path]
    BY <1>1, <1>5, <2>1, <2>2, <2>3, RestorePlanShape
  <2> QED BY <1>1, <1>5, <2>1, <2>2, <2>3, <2>4, PlannedKeepsTypes
<1>6. 0 \in 0..MaxPoints
  BY <1>1
<1> QED BY <1>3, <1>4, <1>5, <1>6 DEF Restore

\* A new backup holds the files of the plan, as they were.
LEMMA NewBackup ==
  ASSUME TypeInv, op # NoOp, op.fresh, NEW b, b = BackupOf(op.plan)
  PROVE  /\ b \in Backup
         /\ b.env = env /\ b.completed = FALSE /\ b.restored = FALSE /\ b.mine = mine
         /\ DOMAIN b.files = DOMAIN op.plan /\ Len(b.files) = Len(op.plan)
         /\ \A i \in DOMAIN b.files :
              b.files[i].path = op.plan[i].path /\ b.files[i].original = op.before[op.plan[i].path]
         /\ Whole(b.files)
         /\ \A i \in DOMAIN b.files : Fits(b.files[i].path, b.files[i].original)
<1>1. /\ op \in Op /\ OpFits /\ Whole(op.plan) /\ op.plan \in Seq(Entry) /\ op.before \in Files
      /\ env \in EnvValues /\ mine \in Content
  BY OpIsOp, OpFields DEF InPhase, TypeInv, Typed
<1>2. PICK plan : plan = op.plan
  OBVIOUS
<1>3. PICK n \in {1, 2} : n = Len(plan) /\ DOMAIN plan = 1..n
  BY <1>1, <1>2 DEF OpFits
<1>4. \A i \in 1..n : /\ plan[i] \in Entry /\ plan[i].path \in Paths /\ plan[i].old \in Content
                      /\ plan[i].old = op.before[plan[i].path]
  <2>1. \A i \in 1..n : plan[i] \in Entry
    BY <1>1, <1>2, <1>3, ElementOfSeq
  <2>2. \A i \in 1..n : plan[i].old = op.before[plan[i].path]
    BY <1>1, <1>2, <1>3 DEF OpFits, FromBefore
  <2> QED BY <2>1, <2>2 DEF Entry
<1>5. PICK fs : fs = [i \in DOMAIN plan |-> [path |-> plan[i].path, original |-> plan[i].old]]
  OBVIOUS
<1>6. \A i \in 1..n : /\ fs[i] \in [path : Paths, original : Content]
                      /\ fs[i].path = plan[i].path /\ fs[i].original = plan[i].old
  BY <1>3, <1>4, <1>5
<1>7. fs \in Seq([path : Paths, original : Content]) /\ DOMAIN fs = 1..n /\ Len(fs) = n
  <2> DEFINE F == [path : Paths, original : Content]
  <2>1. fs \in [1..n -> F]
    BY <1>3, <1>5, <1>6
  <2>2. n \in Nat
    OBVIOUS
  <2> HIDE DEF F
  <2>3. fs \in Seq(F) /\ DOMAIN fs = 1..n /\ Len(fs) = n
    BY <2>1, <2>2
  <2> QED BY <2>3 DEF F
<1>8. /\ b = [files |-> fs, env |-> env, completed |-> FALSE, restored |-> FALSE, mine |-> mine]
  BY <1>2, <1>5 DEF BackupOf
<1>9. b \in Backup /\ b.files = fs
  BY <1>1, <1>7, <1>8 DEF Backup
<1>10. Whole(fs)
  BY <1>1, <1>2, <1>3, <1>6, <1>7 DEF Whole
<1>11. \A i \in DOMAIN fs : Fits(fs[i].path, fs[i].original)
  BY <1>1, <1>4, <1>6, <1>7 DEF OpFits, Fits
<1> QED BY <1>2, <1>3, <1>4, <1>6, <1>7, <1>8, <1>9, <1>10, <1>11

\* The backup is made before the first file is touched.
LEMMA CreateBackupKeepsTypes ==
  ASSUME TypeInv, CreateBackup
  PROVE  TypeInv'
<1>1. /\ op # NoOp /\ op.at = "backup" /\ op \in Op /\ OpFits /\ InPhase /\ op.fresh
      /\ op.backup = Len(backups) + 1 /\ op.backup \in 0..MaxPoints
      /\ UNCHANGED <<kind, file, env, mine>>
  BY OpIsOp, OpFields DEF CreateBackup, At, InPhase
<1>2. CASE backups' = backups /\ Refuse /\ Answer(Refused(op), "error")
  <2>1. SystemFits' /\ BudgetOK'
    BY <1>1, <1>2, SystemIsFit, SystemStays, BudgetStays
  <2> QED BY <1>1, <1>2, <2>1, RefusedIsOp, EndKeepsTypes
<1>3. CASE /\ backups' = Append(backups, BackupOf(op.plan))
           /\ Continue([op EXCEPT !.at = "write"])
           /\ UNCHANGED budget
  <2>1. PICK o : o = [op EXCEPT !.at = "write"]
    OBVIOUS
  <2>2. o \in Op /\ SameAs(op, o) /\ o.at = "write" /\ o.undo = op.undo /\ o.done = op.done
    <3>1. "write" \in Steps
      BY DEF Steps
    <3> QED BY <1>1, <2>1, <3>1, NextStepIsOp
  <2>3. Continue(o) /\ op' = o
    BY <1>3, <2>1 DEF Continue
  <2>4. PICK b : b = BackupOf(op.plan)
    OBVIOUS
  <2>5. /\ b \in Backup /\ Whole(b.files)
        /\ \A i \in DOMAIN b.files : Fits(b.files[i].path, b.files[i].original)
    BY <1>1, <2>4, NewBackup
  <2>6. PICK n \in Nat : n = Len(backups) /\ backups \in Seq(Backup) /\ DOMAIN backups = 1..n
    BY DEF TypeInv, Typed
  <2>7. /\ backups' \in Seq(Backup) /\ Len(backups') = n + 1 /\ DOMAIN backups' = 1..(n + 1)
        /\ backups'[n + 1] = b /\ \A i \in 1..n : backups'[i] = backups[i]
    BY <1>3, <2>4, <2>5, <2>6
  <2>8. BackupsFit'
    <3>1. n + 1 <= MaxPoints
      BY <1>1, <2>6, BoundsAssumption
    <3>2. ASSUME NEW i \in 1..(n + 1)
          PROVE  (/\ Whole(backups[i].files)
                  /\ \A j \in DOMAIN backups[i].files : Fits(backups[i].files[j].path, backups[i].files[j].original))'
      <4>1. CASE i = n + 1
        BY <1>1, <2>5, <2>7, <4>1 DEF Whole, Fits, Own, IsText
      <4>2. CASE i \in 1..n
        BY <1>1, <2>6, <2>7, <4>2 DEF TypeInv, Shaped, BackupsFit, Whole, Fits, Own, IsText
      <4> QED BY <4>1, <4>2
    <3> QED BY <2>7, <3>1, <3>2 DEF BackupsFit
  <2>9. SystemFits'
    <3>1. Fits(Main, file[Main])' <=> Fits(Main, file[Main])
      BY <1>1 DEF Fits, Own, IsText
    <3> QED BY <1>1, <2>7, <2>8, <3>1, SystemIsFit DEF SystemFits
  <2>10. BudgetOK'
    BY <1>3, SystemIsFit, BudgetStays
  <2>11. InPhase'
    <3>1. op.done < Len(op.plan)
      BY <1>1 DEF InPhase
    <3>2. op' # NoOp /\ op'.fresh /\ op'.name # "restore" /\ op'.at = "write"
          /\ op'.backup \in DOMAIN backups' /\ op'.done < Len(op'.plan)
      <4>1. op.name # "restore" /\ o # NoOp
        BY <1>1, <2>2, NoOpAssumption DEF InPhase
      <4>2. op.backup \in 1..(n + 1)
        BY <1>1, <2>6
      <4> QED BY <1>1, <2>2, <2>3, <2>7, <3>1, <4>1, <4>2 DEF SameAs
    <3>3. Whole(op.plan)'
      BY <1>1, <2>2, <2>3 DEF InPhase, SameAs, Whole
    <3> QED BY <3>2, <3>3 DEF InPhase
  <2> QED BY <1>1, <2>2, <2>3, <2>9, <2>10, <2>11, PhaseKeepsTypes
<1> QED BY <1>2, <1>3 DEF CreateBackup

\* The file that is written next is one of the plan.
LEMMA NextWrite ==
  ASSUME TypeInv, At("write"), NEW w, w = op.plan[op.done + 1]
  PROVE  /\ op.done + 1 \in DOMAIN op.plan /\ DOMAIN op.plan = 1..Len(op.plan)
         /\ w \in Entry /\ w.path \in Paths /\ w.next \in Content /\ w.old \in Content
         /\ Fits(w.path, w.next) /\ w.old = op.before[w.path]
<1>1. op # NoOp /\ op \in Op /\ OpFits /\ InPhase /\ op.at = "write"
  BY OpIsOp DEF At
<1>2. op.plan \in Seq(Entry) /\ op.done \in Nat
  BY <1>1, OpFields
<1>3. op.done < Len(op.plan)
  BY <1>1 DEF InPhase
<1>4. PICK plan : plan = op.plan
  OBVIOUS
<1>5. op.done + 1 \in DOMAIN plan /\ DOMAIN plan = 1..Len(plan)
  BY <1>2, <1>3, <1>4
<1>6. w \in Entry
  BY <1>2, <1>4, <1>5, ElementOfSeq
<1> QED BY <1>1, <1>4, <1>5, <1>6 DEF OpFits, FromBefore, Entry

\* A restore knows its backup.
LEMMA BackupOfOp ==
  ASSUME TypeInv, op # NoOp, WithBackup, op.at # "backup"
  PROVE  op.backup \in DOMAIN backups /\ backups[op.backup] \in Backup
<1>1. op.backup \in DOMAIN backups
  BY OpIsOp DEF InPhase
<1>2. backups \in Seq(Backup)
  BY DEF TypeInv, Typed
<1> QED BY <1>1, <1>2

\* What follows the last file fits the operation.
LEMMA AfterWritesFits ==
  ASSUME TypeInv, op # NoOp
  PROVE  /\ AfterWrites \in Steps
         /\ AfterWrites \in {"env", "finish", "verify"}
         /\ AfterWrites = "env" => kind = "codex" /\ WithBackup
         /\ AfterWrites = "verify" => op.name # "restore"
         /\ AfterWrites = "finish" => WithBackup
BY DEF AfterWrites, Steps, WithBackup

\* A file is written.
LEMMA WriteFileKeepsTypes ==
  ASSUME TypeInv, WriteFile
  PROVE  TypeInv'
<1>1. /\ op # NoOp /\ op.at = "write" /\ op \in Op /\ OpFits /\ InPhase /\ At("write")
      /\ UNCHANGED <<kind, env, backups, budget>>
  BY OpIsOp DEF WriteFile, At
<1>2. PICK w : w = op.plan[op.done + 1]
  OBVIOUS
<1>3. /\ op.done + 1 \in DOMAIN op.plan /\ DOMAIN op.plan = 1..Len(op.plan)
      /\ w.path \in Paths /\ w.next \in Content /\ Fits(w.path, w.next)
  BY <1>1, <1>2, NextWrite
<1>4. mine' \in Content
  <2>1. mine \in Content
    BY DEF TypeInv, Typed
  <2>2. op.name = "restore" => backups[op.backup].mine \in Content
    BY <1>1, BackupOfOp DEF WithBackup, Backup
  <2> QED BY <1>2, <2>1, <2>2 DEF WriteFile
<1>5. SystemFits'
  <2>1. file' = [file EXCEPT ![w.path] = w.next]
    BY <1>2 DEF WriteFile
  <2> QED BY <1>1, <1>3, <1>4, <2>1, SystemIsFit, FileIsReplaced
<1>6. BudgetOK'
  BY <1>1, SystemIsFit, BudgetStays
<1>7. PICK n \in Nat : n = op.done + 1
  BY <1>1, OpFields
<1>8. PICK at : at = IF n = Len(op.plan) THEN AfterWrites ELSE op.at
  OBVIOUS
<1>9. /\ at \in Steps
      /\ \/ at = "write" /\ n # Len(op.plan)
         \/ at = AfterWrites
  BY <1>1, <1>8, AfterWritesFits, OpFields
<1>10. PICK o : o = [op EXCEPT !.done = n, !.at = at]
  OBVIOUS
<1>11. o \in Op /\ SameAs(op, o) /\ o.at = at /\ o.done = n /\ o.undo = op.undo
  <2>1. op \in Op /\ n \in Nat /\ at \in Steps
    BY <1>1, <1>9
  <2> QED BY <1>10, <2>1 DEF Op, SameAs
<1>12. Continue(o) /\ op' = o
  <2>1. [op EXCEPT !.done = @ + 1, !.at = IF op.done + 1 = Len(op.plan) THEN AfterWrites ELSE @] = o
    BY <1>1, <1>7, <1>8, <1>10 DEF Op
  <2> QED BY <2>1 DEF WriteFile, Continue
<1>13. InPhase'
  <2>1. at = "write" => n < Len(op.plan)
    BY <1>1, <1>3, <1>7, <1>9, AfterWritesFits
  <2>2. Whole(op.plan)' <=> Whole(op.plan)
    BY <1>1, <1>11, <1>12 DEF Whole, SameAs
  <2>3. WithBackup' <=> WithBackup
    BY <1>11, <1>12 DEF WithBackup, SameAs
  <2>4. at \in {"write", "env", "finish", "verify"}
    BY <1>1, <1>9, AfterWritesFits
  <2>5. /\ at = "env" => kind = "codex" /\ WithBackup
        /\ at = "verify" => op.name # "restore"
        /\ at = "finish" => WithBackup
    BY <1>1, <1>9, AfterWritesFits
  <2> QED BY <1>1, <1>11, <1>12, <2>1, <2>2, <2>3, <2>4, <2>5 DEF InPhase, SameAs
<1> QED BY <1>1, <1>5, <1>6, <1>11, <1>12, <1>13, PhaseKeepsTypes

\* A refused write ends the loop of a restore, and is undone everywhere else.
LEMMA WriteRefusedKeepsTypes ==
  ASSUME TypeInv, WriteRefused
  PROVE  TypeInv'
<1>1. /\ op # NoOp /\ op.at = "write" /\ op \in Op /\ Refuse
      /\ UNCHANGED <<kind, file, env, backups, mine>>
  BY OpIsOp DEF WriteRefused, At
<1>2. CASE Answer(Refused(op), "error")
  <2>1. SystemFits' /\ BudgetOK'
    BY <1>1, SystemIsFit, SystemStays, BudgetStays
  <2> QED BY <1>1, <1>2, <2>1, RefusedIsOp, EndKeepsTypes
<1>3. CASE Continue(RollingBack(Refused(op), TRUE))
  BY <1>1, <1>3, RollingBackKeepsTypes
<1> QED BY <1>2, <1>3 DEF WriteRefused

\* The next step of an operation that leaves everything else alone.
LEMMA StepKeepsTypes ==
  ASSUME TypeInv, op # NoOp, NEW at \in {"write", "env", "verify", "finish", "cleanup"},
         Continue([op EXCEPT !.at = at]), kind' = kind, DOMAIN backups' = DOMAIN backups,
         SystemFits', BudgetOK', op.at \notin {"backup", "undo"},
         at = "write" => op.done < Len(op.plan),
         at = "env" => kind = "codex" /\ WithBackup,
         at = "verify" => op.name # "restore",
         at = "finish" => WithBackup,
         at = "cleanup" => kind = "codex" /\ op.name = "restore"
  PROVE  TypeInv'
<1>1. PICK o : o = [op EXCEPT !.at = at]
  OBVIOUS
<1>2. at \in Steps /\ op \in Op /\ InPhase
  BY OpIsOp DEF Steps
<1>3. o \in Op /\ SameAs(op, o) /\ o.at = at /\ o.done = op.done /\ o.undo = op.undo
  BY <1>1, <1>2, NextStepIsOp
<1>4. Continue(o) /\ op' = o
  BY <1>1 DEF Continue
<1>5. InPhase'
  <2>1. Whole(op.plan)' <=> Whole(op.plan)
    BY <1>3, <1>4 DEF Whole, SameAs
  <2>2. WithBackup' <=> WithBackup
    BY <1>3, <1>4 DEF WithBackup, SameAs
  <2> QED BY <1>2, <1>3, <1>4, <2>1, <2>2 DEF InPhase, SameAs
<1> QED BY <1>3, <1>4, <1>5, PhaseKeepsTypes

\* The variable is set, or the operation is undone.
LEMMA SetEnvironmentKeepsTypes ==
  ASSUME TypeInv, SetEnvironment
  PROVE  TypeInv'
<1>1. /\ op # NoOp /\ op.at = "env" /\ op \in Op /\ InPhase /\ WithBackup
      /\ UNCHANGED <<kind, file, backups, mine>>
  BY OpIsOp DEF SetEnvironment, At, InPhase
<1>2. CASE /\ env' = IF op.name = "restore" THEN backups[op.backup].env ELSE "placeholder"
           /\ Continue([op EXCEPT !.at = IF op.name = "restore" THEN "finish" ELSE "verify"])
           /\ UNCHANGED budget
  <2>1. backups[op.backup].env \in EnvValues
    BY <1>1, BackupOfOp DEF Backup
  <2>2. env' \in EnvValues
    BY <1>2, <2>1 DEF EnvValues
  <2>3. SystemFits' /\ BudgetOK'
    BY <1>1, <1>2, <2>2, SystemIsFit, VariableIsSet, BudgetStays
  <2>4. CASE op.name = "restore"
    <3>1. Continue([op EXCEPT !.at = "finish"])
      BY <1>2, <2>4
    <3> QED BY <1>1, <2>3, <2>4, <3>1, StepKeepsTypes
  <2>5. CASE op.name # "restore"
    <3>1. Continue([op EXCEPT !.at = "verify"])
      BY <1>2, <2>5
    <3> QED BY <1>1, <2>3, <2>5, <3>1, StepKeepsTypes
  <2> QED BY <2>4, <2>5
<1>3. CASE Refuse /\ Continue(RollingBack(Refused(op), FALSE)) /\ UNCHANGED env
  BY <1>1, <1>3, RollingBackKeepsTypes
<1> QED BY <1>2, <1>3 DEF SetEnvironment

\* The files are read again, and the operation goes on or ends.
LEMMA VerifyKeepsTypes ==
  ASSUME TypeInv, Verify
  PROVE  TypeInv'
<1>1. /\ op # NoOp /\ op.at = "verify" /\ op \in Op /\ InPhase
      /\ UNCHANGED <<kind, file, env, backups, mine>>
  BY OpIsOp DEF Verify, At
<1>2. CASE op.fresh /\ Continue([op EXCEPT !.at = "finish"]) /\ UNCHANGED budget
  <2>1. SystemFits' /\ BudgetOK'
    BY <1>1, <1>2, SystemIsFit, SystemStays, BudgetStays
  <2> QED BY <1>1, <1>2, <2>1, StepKeepsTypes DEF WithBackup
<1>3. CASE Answer(op, "ok") /\ UNCHANGED budget
  <2>1. SystemFits' /\ BudgetOK'
    BY <1>1, <1>3, SystemIsFit, SystemStays, BudgetStays
  <2> QED BY <1>1, <1>3, <2>1, EndKeepsTypes
<1>4. CASE Refuse /\ Continue(RollingBack(Refused(op), FALSE))
  BY <1>1, <1>4, RollingBackKeepsTypes
<1> QED BY <1>2, <1>3, <1>4 DEF Verify

\* Marking a backup leaves its files alone.
LEMMA MarkedFits ==
  ASSUME SystemFits, NEW b \in DOMAIN backups, NEW name,
         backups' = [backups EXCEPT ![b] = Marked(@, name)],
         UNCHANGED <<kind, file, env, mine>>
  PROVE  /\ SystemFits'
         /\ DOMAIN backups' = DOMAIN backups /\ Len(backups') = Len(backups)
         /\ \A c \in DOMAIN backups :
              /\ backups'[c].files = backups[c].files /\ backups'[c].env = backups[c].env
              /\ backups'[c].mine = backups[c].mine
              /\ c # b => backups'[c] = backups[c]
         /\ name = "restore" => backups'[b].restored /\ backups'[b].completed = backups[b].completed
         /\ name # "restore" => backups'[b].completed /\ backups'[b].restored = backups[b].restored
<1>1. /\ backups \in Seq(Backup) /\ backups[b] \in Backup
  BY DEF SystemFits
<1>2. PICK m : m = Marked(backups[b], name)
  OBVIOUS
<1>3. /\ m \in Backup /\ m.files = backups[b].files /\ m.env = backups[b].env /\ m.mine = backups[b].mine
      /\ name = "restore" => m.restored /\ m.completed = backups[b].completed
      /\ name # "restore" => m.completed /\ m.restored = backups[b].restored
  BY <1>1, <1>2 DEF Marked, Backup
<1>4. backups' = [backups EXCEPT ![b] = m]
  BY <1>2
<1>5. PICK n \in Nat : n = Len(backups) /\ DOMAIN backups = 1..n
  BY <1>1
<1>6. /\ backups' \in Seq(Backup) /\ Len(backups') = n /\ DOMAIN backups' = 1..n
      /\ backups'[b] = m /\ \A c \in 1..n : c # b => backups'[c] = backups[c]
  BY <1>1, <1>3, <1>4, <1>5
<1>7. \A c \in 1..n : /\ backups'[c].files = backups[c].files /\ backups'[c].env = backups[c].env
                      /\ backups'[c].mine = backups[c].mine
  BY <1>3, <1>6
<1>8. BackupsFit'
  <2>1. ASSUME NEW i \in 1..n
        PROVE  (/\ Whole(backups[i].files)
                /\ \A j \in DOMAIN backups[i].files : Fits(backups[i].files[j].path, backups[i].files[j].original))'
    BY <1>5, <1>7 DEF SystemFits, BackupsFit, Whole, Fits, Own, IsText
  <2> QED BY <1>5, <1>6, <2>1 DEF SystemFits, BackupsFit
<1>9. Fits(Main, file[Main])' <=> Fits(Main, file[Main])
  BY DEF Fits, Own, IsText
<1> QED BY <1>3, <1>5, <1>6, <1>7, <1>8, <1>9 DEF SystemFits

\* The manifest is completed, or marked as restored.
LEMMA WriteManifestKeepsTypes ==
  ASSUME TypeInv, WriteManifest
  PROVE  TypeInv'
<1>1. /\ op # NoOp /\ op.at = "finish" /\ op \in Op /\ InPhase /\ WithBackup /\ op.backup \in DOMAIN backups
      /\ UNCHANGED <<kind, file, env, mine>> /\ SystemFits
  BY OpIsOp, SystemIsFit DEF WriteManifest, At, InPhase
<1>2. CASE backups' = [backups EXCEPT ![op.backup] = Marked(@, op.name)] /\ UNCHANGED budget
  <2>1. SystemFits' /\ BudgetOK' /\ DOMAIN backups' = DOMAIN backups
    BY <1>1, <1>2, MarkedFits, SystemIsFit, BudgetStays
  <2>2. CASE op.name = "restore" /\ kind = "codex" /\ Continue([op EXCEPT !.at = "cleanup"])
    BY <1>1, <2>1, <2>2, StepKeepsTypes
  <2>3. CASE Answer(op, "ok")
    BY <1>1, <2>1, <2>3, EndKeepsTypes
  <2>4. \/ op.name = "restore" /\ kind = "codex" /\ Continue([op EXCEPT !.at = "cleanup"])
        \/ Answer(op, "ok")
        \/ Refuse /\ backups' = backups /\ Continue(RollingBack(Refused(op), FALSE))
    BY DEF WriteManifest
  <2>5. CASE Refuse /\ backups' = backups /\ Continue(RollingBack(Refused(op), FALSE))
    BY <1>1, <2>5, RollingBackKeepsTypes
  <2> QED BY <2>2, <2>3, <2>4, <2>5
<1>3. CASE Refuse /\ Continue(RollingBack(Refused(op), FALSE)) /\ UNCHANGED backups
  BY <1>1, <1>3, RollingBackKeepsTypes
<1> QED BY <1>2, <1>3 DEF WriteManifest

\* The catalog is removed, or stays.
LEMMA CleanUpKeepsTypes ==
  ASSUME TypeInv, CleanUp
  PROVE  TypeInv'
<1>1. /\ op # NoOp /\ op \in Op /\ SystemFits /\ UNCHANGED <<kind, env, backups, mine>>
      /\ Side \in Paths /\ NoFile \in Content /\ Fits(Side, NoFile) /\ mine \in Content
  BY OpIsOp, SystemIsFit, PathsAssumption DEF CleanUp, At, Paths, Content, Fits, SystemFits
<1>2. CASE file' = file
  <2>1. SystemFits' /\ BudgetOK'
    BY <1>1, <1>2, SystemIsFit, SystemStays, BudgetStays DEF CleanUp
  <2> QED BY <1>1, <2>1, RefusedIsOp, EndKeepsTypes DEF CleanUp
<1>3. CASE file' = [file EXCEPT ![Side] = NoFile] /\ Answer(op, "ok") /\ UNCHANGED budget
  <2>1. SystemFits' /\ BudgetOK'
    BY <1>1, <1>3, SystemIsFit, FileIsReplaced, BudgetStays
  <2> QED BY <1>1, <1>3, <2>1, EndKeepsTypes
<1> QED BY <1>2, <1>3 DEF CleanUp

\* The next file a rollback puts back.
LEMMA NextUndo ==
  ASSUME TypeInv, At("undo"), NEW w, w = Head(op.undo)
  PROVE  /\ op.undo \in Seq(Entry) /\ op.undo # <<>> /\ w = op.undo[1] /\ 1 \in DOMAIN op.undo
         /\ w.path \in Paths /\ w.old \in Content /\ w.old = op.before[w.path] /\ Fits(w.path, w.old)
         /\ \A p : Planned(op.undo, p) => p = w.path \/ Planned(Tail(op.undo), p)
<1>1. op # NoOp /\ op \in Op /\ OpFits /\ InPhase /\ op.at = "undo"
  BY OpIsOp DEF At
<1>2. PICK s : s = op.undo
  OBVIOUS
<1>3. s \in Seq(Entry) /\ s # <<>> /\ \A i \in DOMAIN s : s[i].old = op.before[s[i].path]
  BY <1>1, <1>2, OpFields DEF InPhase, OpFits, FromBefore
<1>4. w = s[1] /\ 1 \in DOMAIN s /\ w \in Entry
  BY <1>2, <1>3, ElementOfSeq
<1>5. ASSUME NEW p, NEW i \in DOMAIN s, s[i].path = p, p # w.path
      PROVE  Planned(Tail(s), p)
  <2>1. i - 1 \in DOMAIN Tail(s) /\ Tail(s)[i - 1] = s[i]
    BY <1>3, <1>4, <1>5
  <2> QED BY <1>5, <2>1 DEF Planned
<1>6. Fits(w.path, w.old)
  <2>1. CASE w.path = Main
    BY <1>1, <1>3, <1>4, <2>1 DEF OpFits
  <2>2. CASE w.path # Main
    BY <2>2 DEF Fits
  <2> QED BY <2>1, <2>2
<1>7. \A p : Planned(s, p) => p = w.path \/ Planned(Tail(s), p)
  BY <1>5 DEF Planned
<1> QED BY <1>2, <1>3, <1>4, <1>6, <1>7 DEF Entry

\* A file is put back, or cannot be.
LEMMA UndoFileKeepsTypes ==
  ASSUME TypeInv, UndoFile
  PROVE  TypeInv'
<1>1. /\ op # NoOp /\ op \in Op /\ op.at = "undo" /\ At("undo") /\ SystemFits /\ mine \in Content
      /\ UNCHANGED <<kind, env, backups>> /\ op.mine \in Content
  BY OpIsOp, OpFields, SystemIsFit DEF UndoFile, At, SystemFits
<1>2. PICK w : w = Head(op.undo)
  OBVIOUS
<1>3. w.path \in Paths /\ w.old \in Content /\ Fits(w.path, w.old)
  BY <1>1, <1>2, NextUndo
<1>4. CASE /\ file' = [file EXCEPT ![w.path] = w.old]
           /\ mine' = IF w.path = Main THEN op.mine ELSE mine
           /\ UndoStep(op) /\ UNCHANGED budget
  <2>1. SystemFits' /\ BudgetOK'
    BY <1>1, <1>3, <1>4, SystemIsFit, FileIsReplaced, BudgetStays
  <2>2. SameAs(op, op)
    BY DEF SameAs
  <2> QED BY <1>1, <1>4, <2>1, <2>2, UndoStepKeepsTypes
<1>5. CASE Refuse /\ UndoStep([Refused(op) EXCEPT !.failed = TRUE]) /\ UNCHANGED <<file, mine>>
  <2>1. SystemFits' /\ BudgetOK'
    BY <1>1, <1>5, SystemIsFit, SystemStays, BudgetStays
  <2>2. PICK o : o = [Refused(op) EXCEPT !.failed = TRUE]
    OBVIOUS
  <2>3. o \in Op /\ SameAs(op, o) /\ o.undo = op.undo /\ o.at = "undo"
    BY <1>1, <2>2, FailedIsOp
  <2> QED BY <1>1, <1>5, <2>1, <2>2, <2>3, UndoStepKeepsTypes
<1> QED BY <1>2, <1>4, <1>5 DEF UndoFile, WrittenBack

\* The variable is put back, or cannot be.
LEMMA UndoEnvironmentKeepsTypes ==
  ASSUME TypeInv, UndoEnvironment
  PROVE  TypeInv'
<1>1. /\ op # NoOp /\ op \in Op /\ SystemFits /\ UNCHANGED <<kind, file, backups, mine>> /\ op.oldEnv \in EnvValues
      /\ [Refused(op) EXCEPT !.failed = TRUE] \in Op
  BY OpIsOp, OpFields, FailedIsOp, SystemIsFit DEF UndoEnvironment, At
<1>2. \/ env' = op.oldEnv /\ RolledBack(op) /\ UNCHANGED budget
      \/ Refuse /\ RolledBack([Refused(op) EXCEPT !.failed = TRUE]) /\ UNCHANGED env
  BY DEF UndoEnvironment
<1>3. env' \in EnvValues
  BY <1>1, <1>2 DEF SystemFits
<1>4. SystemFits' /\ BudgetOK'
  BY <1>1, <1>2, <1>3, SystemIsFit, VariableIsSet, BudgetStays
<1> QED BY <1>1, <1>2, <1>4, EndKeepsTypes DEF RolledBack

\* The manifest is put back, or cannot be.
LEMMA UndoManifestKeepsTypes ==
  ASSUME TypeInv, UndoManifest
  PROVE  TypeInv'
<1>1. /\ op # NoOp /\ op \in Op /\ UNCHANGED <<kind, file, env, backups, mine>>
      /\ [Refused(op) EXCEPT !.failed = TRUE] \in Op
  BY OpIsOp, FailedIsOp DEF UndoManifest, At
<1>2. \/ RolledBack(op) /\ UNCHANGED budget
      \/ Refuse /\ RolledBack([Refused(op) EXCEPT !.failed = TRUE])
  BY DEF UndoManifest
<1>3. SystemFits' /\ BudgetOK'
  BY <1>1, <1>2, SystemIsFit, SystemStays, BudgetStays
<1> QED BY <1>1, <1>2, <1>3, EndKeepsTypes DEF RolledBack

\* The process dies.
LEMMA CrashKeepsTypes ==
  ASSUME TypeInv, Crash
  PROVE  TypeInv'
<1>1. SystemFits' /\ BudgetOK'
  BY SystemIsFit, SystemStays DEF Crash, BudgetOK
<1> QED BY <1>1 DEF Crash, TypeInv, Typed, Shaped, InPhase, SystemFits, BudgetOK

\* The user edits his file or the variable.
LEMMA EditKeepsTypes ==
  ASSUME TypeInv, EditFile \/ EditEnvironment
  PROVE  TypeInv'
<1>1. SystemFits /\ BudgetOK /\ broken \in BOOLEAN /\ mine \in Content /\ file \in Files
  BY SystemIsFit DEF SystemFits
<1>2. BudgetOK' /\ op = NoOp /\ op' = NoOp /\ last' = NoOp /\ broken' = broken /\ kind' = kind /\ backups' = backups
  BY <1>1 DEF EditFile, EditEnvironment, Edited, BudgetOK
<1>3. SystemFits'
  <2>1. CASE EditEnvironment
    BY <1>1, <1>2, <2>1, VariableIsSet DEF EditEnvironment, EnvValues
  <2>2. CASE EditFile
    <3>1. PICK t \in Texts, own \in {None, Own(file[Main])} :
            /\ file' = [file EXCEPT ![Main] = [text |-> t, own |-> own]]
            /\ mine' = IF own = None THEN [text |-> t, own |-> own] ELSE mine
      BY <2>2 DEF EditFile
    <3>2. PICK c : c = [text |-> t, own |-> own]
      OBVIOUS
    <3>3. Main \in Paths /\ own \in Owners
      BY <1>1, ContentCases DEF Paths, Files, Owners
    <3>4. c \in Text /\ c.own = own
      BY <3>2, <3>3 DEF Text, Owners
    <3>5. c \in Content /\ Own(c) = own
      BY <3>4, ContentAssumption DEF Content, Own, IsText
    <3>6. Fits(Main, c)
      BY <1>1, <3>5 DEF SystemFits, Fits, ProfileIDs
    <3>7. mine' \in Content /\ env' = env
      BY <1>1, <2>2, <3>1, <3>2, <3>5 DEF EditFile
    <3> QED BY <1>1, <1>2, <3>1, <3>2, <3>3, <3>5, <3>6, <3>7, FileIsReplaced
  <2> QED BY <2>1, <2>2
<1> QED BY <1>1, <1>2, <1>3 DEF TypeInv, Typed, Shaped, InPhase, SystemFits, BudgetOK

\* A step that changes nothing, or only codex's cache.
LEMMA AsideSteps ==
  ASSUME RefreshModels \/ UNCHANGED vars
  PROVE  Aside
BY DEF RefreshModels, vars, Aside

\* Such a step keeps the types.
LEMMA StutterKeepsTypes ==
  ASSUME TypeInv, Aside
  PROVE  TypeInv'
<1>1. SystemFits' /\ BudgetOK'
  BY SystemIsFit, SystemStays, BudgetStays DEF Aside
<1>2. OpFits' <=> OpFits
  BY DEF Aside, OpFits, FromBefore, Fits, Own, IsText
<1>3. InPhase' <=> InPhase
  BY DEF Aside, InPhase, WithBackup, Whole
<1> QED BY <1>1, <1>2, <1>3 DEF TypeInv, Typed, Shaped, SystemFits, BudgetOK, Aside

\* Every step keeps the types.
LEMMA NextKeepsTypes ==
  ASSUME TypeInv, [Next]_vars
  PROVE  TypeInv'
<1>1. CASE \E want \in Settings : Point(want) \/ SyncSettings(want)
  BY <1>1, PointKeepsTypes, SyncKeepsTypes
<1>2. CASE Restore
  BY <1>2, RestoreKeepsTypes
<1>3. CASE Operation
  BY <1>3, CreateBackupKeepsTypes, WriteFileKeepsTypes, WriteRefusedKeepsTypes, SetEnvironmentKeepsTypes,
     VerifyKeepsTypes, WriteManifestKeepsTypes, CleanUpKeepsTypes, UndoFileKeepsTypes,
     UndoEnvironmentKeepsTypes, UndoManifestKeepsTypes DEF Operation
<1>4. CASE Crash \/ EditFile \/ EditEnvironment
  BY <1>4, CrashKeepsTypes, EditKeepsTypes
<1>5. CASE RefreshModels \/ UNCHANGED vars
  BY <1>5, AsideSteps, StutterKeepsTypes
<1> QED BY <1>1, <1>2, <1>3, <1>4, <1>5 DEF Next

\* codex's cache of models is there or it is not.
LEMMA ModelsCacheKept ==
  ASSUME modelsCache \in BOOLEAN, [Next]_vars
  PROVE  modelsCache' \in BOOLEAN
<1>1. CASE WriteFile \/ CleanUp
  BY <1>1 DEF WriteFile, CleanUp, ModelsCacheRemoved
<1>2. CASE RefreshModels \/ UNCHANGED vars
  BY <1>2 DEF RefreshModels, vars
<1>3. CASE Next /\ ~(WriteFile \/ CleanUp \/ RefreshModels)
  <2>1. modelsCache' = modelsCache
    BY <1>3 DEF Next, Operation, Point, SyncSettings, Restore, CreateBackup, WriteRefused, SetEnvironment,
       Verify, WriteManifest, UndoFile, UndoEnvironment, UndoManifest, Crash, EditFile, EditEnvironment, Edited
  <2> QED BY <2>1
<1> QED BY <1>1, <1>2, <1>3

\* Every state of the client's files, backups and operation has the types of the model.
THEOREM TypeCorrect == Spec => []TypeOK
<1> DEFINE Inv == TypeInv /\ modelsCache \in BOOLEAN
<1>1. Init => Inv
  BY InitTypes DEF Init
<1>2. Inv /\ [Next]_vars => Inv'
  <2>1. Inv /\ [Next]_vars => TypeInv'
    BY NextKeepsTypes
  <2>2. Inv /\ [Next]_vars => modelsCache' \in BOOLEAN
    BY ModelsCacheKept
  <2> QED BY <2>1, <2>2
<1>3. Inv => TypeOK
  BY DEF TypeInv, Typed, TypeOK
<1> QED BY <1>1, <1>2, <1>3, PTL DEF Spec

(***************************************************************************)
(* An operation that fails is undone.                                      *)
(***************************************************************************)

\* What failed is as it was before; a restore that stopped half-way has its backup still.
Undone ==
  last # NoOp /\ last.result \in {"error", "partial"} /\ last.refused <= 1 =>
    /\ env = last.oldEnv
    /\ IF StoppedInLoop THEN Latest = last.backup ELSE file = last.before

UndoInv == Undoable /\ Undone

\* An answer of a failure has to find things as they were before.
LEMMA EndIsUndone ==
  ASSUME NEW o \in Op, NEW result, Answer(o, result),
         result \in {"error", "partial"} /\ o.refused <= 1 =>
           /\ env' = o.oldEnv
           /\ IF o.name = "restore" /\ kind' # "desktop" /\ o.at = "write"
                THEN Latest' = o.backup
                ELSE file' = o.before
  PROVE  UndoInv'
<1>1. op' = NoOp /\ last' = Answered(o, result)
  BY DEF Answer
<1>2. PICK a : a = Answered(o, result)
  OBVIOUS
<1>3. /\ a.name = o.name /\ a.result = result /\ a.at = o.at /\ a.before = o.before
      /\ a.oldEnv = o.oldEnv /\ a.backup = o.backup /\ a.refused = o.refused
  BY <1>2 DEF Answered
<1>4. Undone'
  BY <1>1, <1>2, <1>3 DEF Undone, StoppedInLoop
<1>5. Undoable'
  BY <1>1 DEF Undoable
<1> QED BY <1>4, <1>5 DEF UndoInv

\* An operation that goes on has answered nothing.
LEMMA GoingOnIsUndone ==
  ASSUME NEW o, Continue(o), Undoable'
  PROVE  UndoInv'
BY DEF Continue, Undone, UndoInv

\* The latest backup depends on the backups.
LEMMA LatestStays ==
  ASSUME backups' = backups
  PROVE  Latest' = Latest
BY DEF Latest, Available

\* An operation that starts has changed nothing.
LEMMA StartIsUndone ==
  ASSUME TypeInv, NEW name \in {"point", "sync", "restore"}, NEW want \in Settings \cup {None},
         NEW at \in {"backup", "write"}, NEW plan \in Seq(Entry), NEW fresh \in BOOLEAN, NEW b \in 0..MaxPoints,
         UNCHANGED <<kind, file, env, backups, mine, budget>>,
         \/ Continue(Started(name, want, at, plan, fresh, b))
         \/ \E result : Answer(Started(name, want, at, plan, fresh, b), result),
         name = "restore" => b = Latest
  PROVE  UndoInv'
<1>1. PICK o : o = Started(name, want, at, plan, fresh, b)
  OBVIOUS
<1>2. /\ o.name = name /\ o.at = at /\ o.plan = plan /\ o.backup = b /\ o.oldEnv = env
      /\ o.quiet = FALSE /\ o.failed = FALSE /\ o.before = file
  BY <1>1 DEF Started
<1>3. o \in Op
  <2>1. Typed /\ at \in Steps
    BY DEF TypeInv, Steps
  <2> QED BY <1>1, <2>1, StartedIsOp
<1>4. CASE \E result : Answer(o, result)
  <2>1. file' = file /\ env' = env /\ Latest' = Latest
    BY LatestStays
  <2> QED BY <1>2, <1>3, <1>4, <2>1, EndIsUndone
<1>5. CASE Continue(o)
  <2>1. op' = o /\ file' = file /\ env' = env /\ Latest' = Latest
    BY <1>5, LatestStays DEF Continue
  <2>2. Undoable'
    BY <1>2, <2>1 DEF Undoable, Undoing
  <2> QED BY <1>5, <2>2, GoingOnIsUndone
<1> QED BY <1>1, <1>4, <1>5

\* Point, and what it answers at once.
LEMMA PointIsUndone ==
  ASSUME TypeInv, NEW want \in Settings, Point(want)
  PROVE  UndoInv'
<1>1. /\ Typed /\ Shaped /\ want \in Settings \cup {None}
      /\ UNCHANGED <<kind, file, env, backups, mine, budget>>
      /\ Len(backups) \in Nat /\ MaxPoints \in Nat /\ 0 \in 0..MaxPoints /\ <<>> \in Seq(Entry)
  BY BoundsAssumption DEF TypeInv, Typed, Point
<1>2. CASE \E result : Answer(Started("point", want, "write", <<>>, FALSE, 0), result)
  BY <1>1, <1>2, StartIsUndone
<1>3. CASE InPlace /\ Continue(Started("point", want, "write", PlanOf(want), FALSE, 0))
  <2>1. PlanOf(want) \in Seq(Entry)
    BY <1>1, <1>3, PlanOfShape
  <2> QED BY <1>1, <1>3, <2>1, StartIsUndone
<1>4. CASE /\ Len(backups) < MaxPoints
           /\ Continue(Started("point", want, "backup", PlanOf(want), TRUE, Len(backups) + 1))
  <2>1. PlanOf(want) \in Seq(Entry) /\ Len(backups) + 1 \in 0..MaxPoints
    BY <1>1, <1>4, PlanOfShape
  <2> QED BY <1>1, <1>4, <2>1, StartIsUndone
<1> QED BY <1>2, <1>3, <1>4 DEF Point

\* So does a synchronisation.
LEMMA SyncIsUndone ==
  ASSUME TypeInv, NEW want \in Settings, SyncSettings(want)
  PROVE  UndoInv'
<1>1. /\ Typed /\ Shaped /\ want \in Settings \cup {None} /\ InPlace /\ 0 \in 0..MaxPoints
      /\ UNCHANGED <<kind, file, env, backups, mine, budget>>
      /\ \/ Continue(Started("sync", want, "write", PlanOf(want), FALSE, 0))
         \/ Answer(Started("sync", want, "write", <<>>, FALSE, 0), "error")
  <2>1. 0 \in 0..MaxPoints
    BY BoundsAssumption
  <2> QED BY <2>1 DEF TypeInv, SyncSettings
<1>2. PlanOf(want) \in Seq(Entry) /\ <<>> \in Seq(Entry)
  BY <1>1, PlanOfShape
<1> QED BY <1>1, <1>2, StartIsUndone

\* A restore uses the latest backup.
LEMMA RestoreIsUndone ==
  ASSUME TypeInv, Restore
  PROVE  UndoInv'
<1>1. /\ Typed /\ Shaped /\ None \in Settings \cup {None} /\ <<>> \in Seq(Entry)
      /\ UNCHANGED <<kind, file, env, backups, mine, budget>>
      /\ backups \in Seq(Backup) /\ Len(backups) <= MaxPoints /\ MaxPoints \in Nat
  BY BoundsAssumption DEF TypeInv, Typed, Shaped, BackupsFit, Restore
<1>2. Latest \in 0..MaxPoints /\ (Latest # 0 => Latest \in DOMAIN backups)
  BY <1>1, LatestIs
<1>3. CASE \E result : Answer(Started("restore", None, "write", <<>>, FALSE, Latest), result)
  BY <1>1, <1>2, <1>3, StartIsUndone
<1>4. CASE /\ Latest # 0
           /\ Continue(Started("restore", None, "write", RestorePlan(Latest), FALSE, Latest))
  <2>1. RestorePlan(Latest) \in Seq(Entry)
    BY <1>1, <1>2, <1>4, RestorePlanShape
  <2> QED BY <1>1, <1>2, <1>4, <2>1, StartIsUndone
<1> QED BY <1>3, <1>4 DEF Restore

\* A rollback starts with everything that was planned.
LEMMA RollingBackIsUndone ==
  ASSUME TypeInv, Undoable, op # NoOp, ~Undoing, op.at \notin {"backup", "cleanup"}, NEW quiet \in BOOLEAN,
         quiet => env = op.oldEnv,
         Continue(RollingBack(Refused(op), quiet)),
         UNCHANGED <<kind, file, env, backups>>
  PROVE  UndoInv'
<1>1. PICK o : o = RollingBack(Refused(op), quiet)
  OBVIOUS
<1>2. op \in Op /\ Len(op.plan) \in {1, 2}
  BY OpIsOp DEF OpFits
<1>3. /\ o \in Op /\ SameAs(op, o) /\ o.at = "undo" /\ o.undo = Rollback(op.plan, op.name) /\ o.quiet = quiet
      /\ o.failed = op.failed /\ o.refused = op.refused + 1
  BY <1>1, <1>2, RollingBackIsOp
<1>4. \A p : Planned(op.plan, p) => Planned(o.undo, p)
  <2>1. op.plan \in Seq(Entry) /\ op.plan # <<>>
    BY <1>2, OpFields, PlanIsSome
  <2> QED BY <1>3, <2>1, RollbackEntries
<1>5. Continue(o) /\ op' = o
  BY <1>1 DEF Continue
<1>6. op.refused \in Nat /\ ~op.failed
  BY <1>2, OpFields DEF Undoable
<1>7. Latest' = Latest
  BY LatestStays
<1>8. Undoable'
  <2>1. \A p \in Paths : ~Planned(o.plan, p) => file[p] = o.before[p]
    BY <1>3 DEF Undoable, SameAs
  <2>2. \A p \in Paths : ~Planned(o.undo, p) => file[p] = o.before[p]
    BY <1>3, <1>4, <2>1 DEF SameAs
  <2>3. env # o.oldEnv => kind = "codex" /\ (o.fresh \/ o.name = "restore") /\ ~o.quiet
    BY <1>3 DEF Undoable, SameAs, WithBackup
  <2>4. o.name = "restore" => Latest = o.backup
    BY <1>3 DEF Undoable, SameAs
  <2>5. o.refused >= 1 /\ ~o.failed /\ o.at = "undo"
    BY <1>3, <1>6
  <2> QED BY <1>5, <1>7, <2>1, <2>2, <2>3, <2>4, <2>5 DEF Undoable, WithBackup, Undoing
<1> QED BY <1>5, <1>8, GoingOnIsUndone

\* The backup is made before the first file is touched.
LEMMA CreateBackupIsUndone ==
  ASSUME TypeInv, Undoable, CreateBackup
  PROVE  UndoInv'
<1>1. /\ op # NoOp /\ op.at = "backup" /\ op \in Op /\ op.name # "restore"
      /\ UNCHANGED <<kind, file, env, mine>>
  BY OpIsOp DEF CreateBackup, At, InPhase
<1>2. file = op.before /\ env = op.oldEnv /\ ~op.failed /\ ~op.quiet
  BY <1>1 DEF Undoable, Undoing
<1>3. CASE Answer(Refused(op), "error")
  <2>1. PICK o : o = Refused(op)
    OBVIOUS
  <2>2. o \in Op /\ o.before = op.before /\ o.oldEnv = op.oldEnv /\ o.at = "backup"
    BY <1>1, <2>1, RefusedIsOp DEF SameAs
  <2> QED BY <1>1, <1>2, <1>3, <2>1, <2>2, EndIsUndone
<1>4. CASE Continue([op EXCEPT !.at = "write"])
  <2>1. PICK o : o = [op EXCEPT !.at = "write"]
    OBVIOUS
  <2>2. "write" \in Steps
    BY DEF Steps
  <2>3. /\ o \in Op /\ SameAs(op, o) /\ o.at = "write" /\ o.failed = op.failed /\ o.quiet = op.quiet
    BY <1>1, <2>1, <2>2, NextStepIsOp
  <2>4. Continue(o) /\ op' = o
    BY <1>4, <2>1 DEF Continue
  <2>5. Undoable'
    BY <1>1, <1>2, <2>3, <2>4 DEF Undoable, SameAs, Undoing
  <2> QED BY <2>4, <2>5, GoingOnIsUndone
<1> QED BY <1>3, <1>4 DEF CreateBackup

\* A step that is not part of a rollback.
LEMMA StepIsUndone ==
  ASSUME TypeInv, Undoable, op # NoOp, ~Undoing, op.at \notin {"backup", "cleanup"},
         NEW o, Continue(o), SameAs(op, o), o.failed = op.failed, o.quiet = op.quiet,
         o.at \in {"write", "env", "verify", "finish", "cleanup"},
         kind' = kind, o.at = "cleanup" \/ Latest' = Latest,
         \A p \in Paths : ~Planned(op.plan, p) => file'[p] = op.before[p],
         env' # op.oldEnv => kind = "codex" /\ WithBackup /\ o.at \in {"verify", "finish", "cleanup"}
  PROVE  UndoInv'
<1>1. op' = o
  BY DEF Continue
<1>2. ~op.failed /\ ~op.quiet
  BY DEF Undoable
<1>3. Undoable'
  <2>1. \A p \in Paths : ~Planned(o.plan, p) => file'[p] = o.before[p]
    BY DEF SameAs
  <2>2. env' # o.oldEnv => kind' = "codex" /\ (o.fresh \/ o.name = "restore") /\ o.at \in {"verify", "finish", "cleanup"}
    BY DEF SameAs, WithBackup
  <2>3. o.name = "restore" /\ o.at # "cleanup" => Latest' = o.backup
    BY DEF SameAs, Undoable
  <2> QED BY <1>1, <1>2, <2>1, <2>2, <2>3 DEF Undoable, Undoing, WithBackup
<1> QED BY <1>3, GoingOnIsUndone

\* A file of the plan is written.
LEMMA WriteFileIsUndone ==
  ASSUME TypeInv, Undoable, WriteFile
  PROVE  UndoInv'
<1>1. /\ op # NoOp /\ op.at = "write" /\ op \in Op /\ At("write") /\ ~Undoing
      /\ UNCHANGED <<kind, env, backups, budget>>
  BY OpIsOp DEF WriteFile, At, Undoing
<1>2. PICK w : w = op.plan[op.done + 1]
  OBVIOUS
<1>3. /\ op.done + 1 \in DOMAIN op.plan /\ w.path \in Paths
  BY <1>1, <1>2, NextWrite
<1>4. file' = [file EXCEPT ![w.path] = w.next] /\ file \in Files
  BY <1>2 DEF WriteFile, TypeInv, Typed
<1>5. \A p \in Paths : ~Planned(op.plan, p) => file'[p] = op.before[p]
  BY <1>1, <1>2, <1>3, <1>4 DEF Planned, Undoable, Files
<1>6. PICK o : o = [op EXCEPT !.done = @ + 1, !.at = IF op.done + 1 = Len(op.plan) THEN AfterWrites ELSE @]
  OBVIOUS
<1>7. /\ SameAs(op, o) /\ o.failed = op.failed /\ o.quiet = op.quiet
      /\ o.at = IF op.done + 1 = Len(op.plan) THEN AfterWrites ELSE op.at
  BY <1>1, <1>6 DEF Op, SameAs
<1>8. o.at \in {"write", "env", "verify", "finish"}
  BY <1>1, <1>7, AfterWritesFits
<1>9. Continue(o)
  BY <1>6 DEF WriteFile
<1>10. env = op.oldEnv
  BY <1>1 DEF Undoable
<1>11. Latest' = Latest
  BY <1>1, LatestStays
<1> QED BY <1>1, <1>5, <1>7, <1>8, <1>9, <1>10, <1>11, StepIsUndone

\* The loop of a restore stops half-way and can be asked for again.
LEMMA WriteRefusedIsUndone ==
  ASSUME TypeInv, Undoable, WriteRefused
  PROVE  UndoInv'
<1>1. /\ op # NoOp /\ op.at = "write" /\ op \in Op /\ ~Undoing
      /\ UNCHANGED <<kind, file, env, backups>>
  BY OpIsOp DEF WriteRefused, At, Undoing
<1>2. CASE op.name = "restore" /\ kind # "desktop" /\ Answer(Refused(op), "error")
  <2>1. PICK o : o = Refused(op)
    OBVIOUS
  <2>2. o \in Op /\ o.name = op.name /\ o.backup = op.backup /\ o.at = "write" /\ o.oldEnv = op.oldEnv
    BY <1>1, <2>1, RefusedIsOp DEF SameAs
  <2>3. Latest' = op.backup /\ env' = op.oldEnv
    BY <1>1, <1>2, LatestStays DEF Undoable
  <2> QED BY <1>1, <1>2, <2>1, <2>2, <2>3, EndIsUndone
<1>3. CASE Continue(RollingBack(Refused(op), TRUE))
  <2>1. env = op.oldEnv
    BY <1>1 DEF Undoable
  <2> QED BY <1>1, <1>3, <2>1, RollingBackIsUndone
<1> QED BY <1>2, <1>3 DEF WriteRefused

\* The step of an operation that changes no file.
LEMMA AdvanceIsUndone ==
  ASSUME TypeInv, Undoable, op # NoOp, ~Undoing, op.at \notin {"backup", "cleanup"},
         NEW at \in {"env", "verify", "finish", "cleanup"}, Continue([op EXCEPT !.at = at]),
         UNCHANGED <<kind, file>>, at = "cleanup" \/ Latest' = Latest,
         env' # op.oldEnv => kind = "codex" /\ WithBackup /\ at \in {"verify", "finish", "cleanup"}
  PROVE  UndoInv'
<1>1. PICK o : o = [op EXCEPT !.at = at]
  OBVIOUS
<1>2. op \in Op /\ at \in Steps
  BY OpIsOp DEF Steps
<1>3. /\ SameAs(op, o) /\ o.at = at /\ o.failed = op.failed /\ o.quiet = op.quiet
  BY <1>1, <1>2, NextStepIsOp
<1>4. Continue(o)
  BY <1>1
<1>5. \A p \in Paths : ~Planned(op.plan, p) => file'[p] = op.before[p]
  BY DEF Undoable
<1> QED BY <1>3, <1>4, <1>5, StepIsUndone

\* Nothing has been refused before a rollback.
LEMMA NotQuiet ==
  ASSUME Undoable, op # NoOp, env # op.oldEnv
  PROVE  kind = "codex" /\ WithBackup /\ ~op.quiet
BY DEF Undoable

\* The variable is set once the files are written.
LEMMA SetEnvironmentIsUndone ==
  ASSUME TypeInv, Undoable, SetEnvironment
  PROVE  UndoInv'
<1>1. /\ op # NoOp /\ op.at = "env" /\ op \in Op /\ ~Undoing /\ kind = "codex" /\ WithBackup
      /\ UNCHANGED <<kind, file, backups>>
  BY OpIsOp DEF SetEnvironment, At, InPhase, Undoing
<1>2. Latest' = Latest
  BY <1>1, LatestStays
<1>3. CASE Continue([op EXCEPT !.at = IF op.name = "restore" THEN "finish" ELSE "verify"])
  BY <1>1, <1>2, <1>3, AdvanceIsUndone
<1>4. CASE Continue(RollingBack(Refused(op), FALSE)) /\ UNCHANGED env
  BY <1>1, <1>4, RollingBackIsUndone
<1> QED BY <1>3, <1>4 DEF SetEnvironment

\* The files are read again.
LEMMA VerifyIsUndone ==
  ASSUME TypeInv, Undoable, Verify
  PROVE  UndoInv'
<1>1. /\ op # NoOp /\ op.at = "verify" /\ op \in Op /\ ~Undoing
      /\ UNCHANGED <<kind, file, env, backups>>
  BY OpIsOp DEF Verify, At, Undoing
<1>2. Latest' = Latest
  BY <1>1, LatestStays
<1>3. CASE Continue([op EXCEPT !.at = "finish"])
  BY <1>1, <1>2, <1>3, NotQuiet, AdvanceIsUndone
<1>4. CASE Answer(op, "ok")
  BY <1>1, <1>4, EndIsUndone
<1>5. CASE Continue(RollingBack(Refused(op), FALSE))
  BY <1>1, <1>5, RollingBackIsUndone
<1> QED BY <1>3, <1>4, <1>5 DEF Verify

\* The manifest is the last thing a point or a restore writes.
LEMMA WriteManifestIsUndone ==
  ASSUME TypeInv, Undoable, WriteManifest
  PROVE  UndoInv'
<1>1. /\ op # NoOp /\ op.at = "finish" /\ op \in Op /\ ~Undoing
      /\ UNCHANGED <<kind, file, env>>
  BY OpIsOp DEF WriteManifest, At, Undoing
<1>2. CASE Continue([op EXCEPT !.at = "cleanup"])
  BY <1>1, <1>2, NotQuiet, AdvanceIsUndone
<1>3. CASE Answer(op, "ok")
  BY <1>1, <1>3, EndIsUndone
<1>4. CASE Continue(RollingBack(Refused(op), FALSE)) /\ UNCHANGED backups
  BY <1>1, <1>4, RollingBackIsUndone
<1> QED BY <1>2, <1>3, <1>4 DEF WriteManifest

\* The clean-up fails nothing.
LEMMA CleanUpIsUndone ==
  ASSUME TypeInv, CleanUp
  PROVE  UndoInv'
<1>1. op \in Op
  BY OpIsOp DEF CleanUp, At
<1>2. CASE Answer(op, "ok")
  BY <1>1, <1>2, EndIsUndone
<1>3. CASE Answer(Refused(op), "ok")
  BY <1>1, <1>3, RefusedIsOp, EndIsUndone
<1> QED BY <1>2, <1>3 DEF CleanUp

\* Files that are as they were, path by path, are as they were.
LEMMA FilesAreEqual ==
  ASSUME NEW f \in Files, NEW g \in Files, \A p \in Paths : f[p] = g[p]
  PROVE  f = g
BY DEF Files

\* When the last file is dealt with, only the variable and the manifest can be left.
LEMMA UndoStepIsUndone ==
  ASSUME TypeInv, Undoable, At("undo"), NEW o \in Op, SameAs(op, o), o.undo = op.undo, o.at = "undo",
         o.quiet = op.quiet, UndoStep(o), UNCHANGED <<kind, env, backups>>, file' \in Files,
         o.failed => o.refused >= 2, o.refused >= 1,
         ~o.failed => \A p \in Paths : ~Planned(Tail(op.undo), p) => file'[p] = op.before[p],
         \A p \in Paths : ~Planned(op.plan, p) => file'[p] = op.before[p]
  PROVE  UndoInv'
<1>1. op # NoOp /\ op.at = "undo" /\ op \in Op /\ op.undo # <<>> /\ op.before \in Files
  BY OpIsOp, OpFields DEF At, InPhase
<1>2. PICK next : next = [o EXCEPT !.undo = Tail(@)]
  OBVIOUS
<1>3. /\ next \in Op /\ SameAs(o, next) /\ next.undo = Tail(o.undo) /\ next.at = "undo"
      /\ next.quiet = o.quiet /\ next.failed = o.failed /\ next.refused = o.refused
  BY <1>1, <1>2, TailIsOp
<1>4. SameAs(op, next)
  BY <1>3 DEF SameAs
<1>5. Latest' = Latest /\ (op.name = "restore" => Latest = op.backup)
  BY <1>1, LatestStays DEF Undoable
<1>6. env' # op.oldEnv => kind = "codex" /\ WithBackup /\ ~op.quiet
  BY <1>1 DEF Undoable
<1>7. CASE next.undo # <<>>
  <2>1. Continue(next) /\ op' = next
    BY <1>2, <1>7 DEF UndoStep, Continue
  <2>2. Undoable'
    BY <1>3, <1>4, <1>5, <1>6, <2>1 DEF Undoable, Undoing, WithBackup, SameAs
  <2> QED BY <2>1, <2>2, GoingOnIsUndone
<1>8. ASSUME next.undo = <<>>, ~o.failed
      PROVE  file' = op.before
  <2>1. \A p \in Paths : ~Planned(Tail(op.undo), p)
    <3>1. Tail(op.undo) = <<>>
      BY <1>3, <1>8, Zenon
    <3>2. DOMAIN <<>> = {}
      OBVIOUS
    <3> QED BY <3>1, <3>2, Zenon DEF Planned
  <2> QED BY <1>1, <1>8, <2>1, FilesAreEqual
<1>9. CASE next.undo = <<>> /\ AfterUndo # "undo"
  <2>1. /\ AfterUndo \in {"undoEnv", "undoManifest"} /\ AfterUndo \in Steps
        /\ AfterUndo = "undoManifest" => kind = "desktop"
    BY <1>9 DEF AfterUndo, Steps
  <2>2. PICK u : u = [next EXCEPT !.at = AfterUndo]
    OBVIOUS
  <2>3. /\ u \in Op /\ SameAs(next, u) /\ u.at = AfterUndo /\ u.undo = next.undo
        /\ u.quiet = next.quiet /\ u.failed = next.failed /\ u.refused = next.refused
    BY <1>3, <2>1, <2>2, NextStepIsOp
  <2>4. SameAs(op, u)
    BY <1>4, <2>3 DEF SameAs
  <2>5. Continue(u) /\ op' = u
    BY <1>2, <1>9, <2>2 DEF UndoStep, Continue
  <2>6. Undoable'
    BY <1>3, <1>5, <1>6, <1>8, <1>9, <2>1, <2>3, <2>4, <2>5 DEF Undoable, Undoing, WithBackup, SameAs
  <2> QED BY <2>5, <2>6, GoingOnIsUndone
<1>10. CASE next.undo = <<>> /\ AfterUndo = "undo"
  <2>1. Answer(next, IF next.failed /\ ~next.quiet THEN "partial" ELSE "error")
    BY <1>2, <1>10 DEF UndoStep, RolledBack
  <2>2. env' = op.oldEnv
    BY <1>6, <1>10 DEF AfterUndo, WithBackup
  <2>3. next.refused <= 1 => file' = next.before /\ env' = next.oldEnv
    <3>1. next.refused \in Nat
      BY <1>3, OpFields
    <3>2. next.refused <= 1 => ~o.failed
      BY <1>3, <3>1
    <3>3. next.before = op.before /\ next.oldEnv = op.oldEnv
      BY <1>4 DEF SameAs
    <3> QED BY <1>8, <1>10, <2>2, <3>2, <3>3
  <2> QED BY <1>3, <2>1, <2>3, EndIsUndone
<1> QED BY <1>7, <1>9, <1>10

\* A file is put back, or the rollback has lost it.
LEMMA UndoFileIsUndone ==
  ASSUME TypeInv, Undoable, UndoFile
  PROVE  UndoInv'
<1>1. /\ op # NoOp /\ op \in Op /\ op.at = "undo" /\ At("undo") /\ file \in Files /\ Undoing
      /\ UNCHANGED <<kind, env, backups>> /\ op.refused >= 1 /\ op.refused \in Nat
      /\ op.failed => op.refused >= 2
  BY OpIsOp, OpFields DEF UndoFile, At, TypeInv, Typed, Undoable, Undoing
<1>2. PICK w : w = Head(op.undo)
  OBVIOUS
<1>3. /\ w.path \in Paths /\ w.old \in Content /\ w.old = op.before[w.path]
      /\ \A p : Planned(op.undo, p) => p = w.path \/ Planned(Tail(op.undo), p)
  BY <1>1, <1>2, NextUndo
<1>4. CASE /\ file' = [file EXCEPT ![w.path] = w.old]
           /\ UndoStep(op)
  <2>1. file' \in Files /\ \A p \in Paths : file'[p] = IF p = w.path THEN op.before[p] ELSE file[p]
    BY <1>1, <1>3, <1>4 DEF Files
  <2>2. \A p \in Paths : ~Planned(op.plan, p) => file'[p] = op.before[p]
    BY <1>1, <2>1 DEF Undoable
  <2>3. ~op.failed => \A p \in Paths : ~Planned(Tail(op.undo), p) => file'[p] = op.before[p]
    BY <1>1, <1>3, <2>1 DEF Undoable
  <2>4. SameAs(op, op)
    BY DEF SameAs
  <2> QED BY <1>1, <1>4, <2>1, <2>2, <2>3, <2>4, UndoStepIsUndone
<1>5. CASE UndoStep([Refused(op) EXCEPT !.failed = TRUE]) /\ UNCHANGED file
  <2>1. PICK o : o = [Refused(op) EXCEPT !.failed = TRUE]
    OBVIOUS
  <2>2. /\ o \in Op /\ SameAs(op, o) /\ o.undo = op.undo /\ o.at = "undo" /\ o.quiet = op.quiet /\ o.failed
        /\ o.refused = op.refused + 1
    BY <1>1, <2>1, FailedIsOp
  <2>3. o.refused >= 2
    BY <1>1, <2>2
  <2>4. UndoStep(o)
    BY <1>5, <2>1
  <2>5. \A p \in Paths : ~Planned(op.plan, p) => file'[p] = op.before[p]
    BY <1>1, <1>5 DEF Undoable
  <2> QED BY <1>1, <1>5, <2>2, <2>3, <2>4, <2>5, UndoStepIsUndone
<1> QED BY <1>2, <1>4, <1>5 DEF UndoFile, WrittenBack

\* The variable is the last thing a rollback of codex puts back.
LEMMA UndoEnvironmentIsUndone ==
  ASSUME TypeInv, Undoable, UndoEnvironment
  PROVE  UndoInv'
<1>1. /\ op # NoOp /\ op \in Op /\ op.at = "undoEnv" /\ UNCHANGED file
      /\ ~op.failed => file = op.before
      /\ op.failed => op.refused >= 2
      /\ op.refused >= 1 /\ op.refused \in Nat
  BY OpIsOp, OpFields DEF UndoEnvironment, At, Undoable, Undoing
<1>2. CASE env' = op.oldEnv /\ RolledBack(op)
  BY <1>1, <1>2, EndIsUndone DEF RolledBack
<1>3. CASE RolledBack([Refused(op) EXCEPT !.failed = TRUE])
  <2>1. PICK o : o = [Refused(op) EXCEPT !.failed = TRUE]
    OBVIOUS
  <2>2. o \in Op /\ o.refused = op.refused + 1
    BY <1>1, <2>1, FailedIsOp
  <2>3. ~(o.refused <= 1)
    BY <1>1, <2>2
  <2>4. Answer(o, IF o.failed /\ ~o.quiet THEN "partial" ELSE "error")
    BY <1>3, <2>1 DEF RolledBack
  <2> QED BY <2>2, <2>3, <2>4, EndIsUndone
<1> QED BY <1>2, <1>3 DEF UndoEnvironment

\* The manifest is the last thing a rollback of a desktop restore puts back.
LEMMA UndoManifestIsUndone ==
  ASSUME TypeInv, Undoable, UndoManifest
  PROVE  UndoInv'
<1>1. /\ op # NoOp /\ op \in Op /\ op.at = "undoManifest" /\ UNCHANGED <<file, env>>
      /\ ~op.failed => file = op.before
      /\ op.failed => op.refused >= 2
      /\ op.refused >= 1 /\ op.refused \in Nat
      /\ env = op.oldEnv
  BY OpIsOp, OpFields DEF UndoManifest, At, Undoable, Undoing
<1>2. CASE RolledBack(op)
  BY <1>1, <1>2, EndIsUndone DEF RolledBack
<1>3. CASE RolledBack([Refused(op) EXCEPT !.failed = TRUE])
  <2>1. PICK o : o = [Refused(op) EXCEPT !.failed = TRUE]
    OBVIOUS
  <2>2. o \in Op /\ o.refused = op.refused + 1
    BY <1>1, <2>1, FailedIsOp
  <2>3. ~(o.refused <= 1)
    BY <1>1, <2>2
  <2>4. Answer(o, IF o.failed /\ ~o.quiet THEN "partial" ELSE "error")
    BY <1>3, <2>1 DEF RolledBack
  <2> QED BY <2>2, <2>3, <2>4, EndIsUndone
<1> QED BY <1>2, <1>3 DEF UndoManifest

\* Every step keeps what an operation needs to be undone.
LEMMA NextIsUndone ==
  ASSUME TypeInv, UndoInv, [Next]_vars
  PROVE  UndoInv'
<1>1. CASE \E want \in Settings : Point(want) \/ SyncSettings(want)
  BY <1>1, PointIsUndone, SyncIsUndone
<1>2. CASE Restore
  BY <1>2, RestoreIsUndone
<1>3. CASE Operation
  BY <1>3, CreateBackupIsUndone, WriteFileIsUndone, WriteRefusedIsUndone, SetEnvironmentIsUndone,
     VerifyIsUndone, WriteManifestIsUndone, CleanUpIsUndone, UndoFileIsUndone,
     UndoEnvironmentIsUndone, UndoManifestIsUndone DEF Operation, UndoInv
<1>4. CASE Crash \/ EditFile \/ EditEnvironment
  <2>1. last' = NoOp /\ op' = NoOp
    BY <1>4 DEF Crash, EditFile, EditEnvironment, Edited
  <2> QED BY <2>1 DEF UndoInv, Undoable, Undone
<1>5. CASE RefreshModels \/ UNCHANGED vars
  <2>1. Undoable' <=> Undoable
    BY <1>5, AsideSteps DEF Aside, Undoable, Undoing, Planned, WithBackup, Latest, Available
  <2>2. Undone' <=> Undone
    BY <1>5, AsideSteps DEF Aside, Undone, StoppedInLoop, Latest, Available
  <2> QED BY <2>1, <2>2 DEF UndoInv
<1> QED BY <1>1, <1>2, <1>3, <1>4, <1>5 DEF Next

\* The types and what can be undone are an invariant.
LEMMA UndoInductive == Spec => [](TypeInv /\ UndoInv)
<1>1. Init => TypeInv /\ UndoInv
  BY InitTypes DEF Init, UndoInv, Undoable, Undone
<1>2. TypeInv /\ UndoInv /\ [Next]_vars => (TypeInv /\ UndoInv)'
  BY NextKeepsTypes, NextIsUndone
<1> QED BY <1>1, <1>2, PTL DEF Spec

(***************************************************************************)
(* A restore that stops half-way.                                          *)
(***************************************************************************)

\* A restored file, as it was before the operation or as the backup b has it.
BeforeOrBack(b, before) ==
  \A p \in Paths :
    \/ file[p] = before[p]
    \/ \E f \in Range(backups[b].files) : f.path = p /\ file[p] = f.original

InLoop == op # NoOp /\ op.name = "restore" /\ kind # "desktop" /\ op.at = "write"

HalfWay ==
  InLoop =>
    /\ \A i \in DOMAIN op.plan :
         \E f \in Range(backups[op.backup].files) : f.path = op.plan[i].path /\ f.original = op.plan[i].next
    /\ BeforeOrBack(op.backup, op.before)

HalfAnswered ==
  last # NoOp /\ last.result \in {"error", "partial"} /\ StoppedInLoop => BeforeOrBack(last.backup, last.before)

HalfInv == HalfWay /\ HalfAnswered

\* An operation that ends outside the loop of a restore is not half-way.
LEMMA EndIsWhole ==
  ASSUME NEW o, NEW result, Answer(o, result),
         result \in {"error", "partial"} => o.at # "write" \/ o.name # "restore" \/ kind' = "desktop"
  PROVE  HalfInv'
<1>1. op' = NoOp /\ last' = Answered(o, result)
  BY DEF Answer
<1>2. PICK a : a = Answered(o, result)
  OBVIOUS
<1>3. a.name = o.name /\ a.result = result /\ a.at = o.at
  BY <1>2 DEF Answered
<1> QED BY <1>1, <1>2, <1>3 DEF HalfInv, HalfWay, HalfAnswered, InLoop, StoppedInLoop

\* Nor is one that goes on anywhere else.
LEMMA GoingOnIsWhole ==
  ASSUME NEW o, Continue(o), o.at # "write" \/ o.name # "restore"
  PROVE  HalfInv'
BY DEF Continue, HalfInv, HalfWay, HalfAnswered, InLoop

\* Points and synchronisations restore nothing.
LEMMA PointIsWhole ==
  ASSUME NEW want \in Settings, Point(want) \/ SyncSettings(want)
  PROVE  HalfInv'
<1>1. ASSUME NEW name \in {"point", "sync"}, NEW at, NEW plan, NEW fresh, NEW b
      PROVE  Started(name, want, at, plan, fresh, b).name # "restore"
  BY DEF Started
<1>2. CASE Point(want)
  BY <1>1, <1>2, EndIsWhole, GoingOnIsWhole DEF Point
<1>3. CASE SyncSettings(want)
  BY <1>1, <1>3, EndIsWhole, GoingOnIsWhole DEF SyncSettings
<1> QED BY <1>2, <1>3

\* A restore begins with the files as they are, and plans what the backup holds.
LEMMA RestoreIsHalfWay ==
  ASSUME TypeInv, Restore
  PROVE  HalfInv'
<1>1. /\ op = NoOp /\ UNCHANGED <<kind, file, backups>> /\ backups \in Seq(Backup)
  BY DEF Restore, TypeInv, Typed
<1>2. CASE \E result \in {"none", "unchanged"} : \E b : Answer(Started("restore", None, "write", <<>>, FALSE, b), result)
  BY <1>2, EndIsWhole
<1>3. CASE Unreadable /\ Answer(Started("restore", None, "write", <<>>, FALSE, Latest), "error")
  <2>1. kind' = "desktop"
    BY <1>1, <1>3 DEF Unreadable
  <2> QED BY <1>3, <2>1, EndIsWhole
<1>4. CASE Latest # 0 /\ Continue(Started("restore", None, "write", RestorePlan(Latest), FALSE, Latest))
  <2>1. PICK b \in DOMAIN backups : b = Latest
    BY <1>1, <1>4, LatestIs
  <2>2. PICK o : o = Started("restore", None, "write", RestorePlan(b), FALSE, b)
    OBVIOUS
  <2>3. o.plan = RestorePlan(b) /\ o.backup = b /\ o.before = file
    BY <2>2 DEF Started
  <2>4. op' = o /\ last' = NoOp
    BY <1>4, <2>1, <2>2 DEF Continue
  <2>5. ASSUME kind # "desktop", NEW i \in DOMAIN RestorePlan(b)
        PROVE  \E f \in Range(backups[b].files) : f.path = RestorePlan(b)[i].path /\ f.original = RestorePlan(b)[i].next
    <3>1. /\ i \in DOMAIN backups[b].files
          /\ RestorePlan(b)[i] = Write(backups[b].files[i].path, backups[b].files[i].original)
      BY <2>5 DEF RestorePlan, WrittenBack
    <3>2. backups[b].files[i] \in Range(backups[b].files)
      BY <3>1 DEF Range
    <3> QED BY <3>1, <3>2 DEF Write
  <2>6. BeforeOrBack(b, file)'
    BY <1>1 DEF BeforeOrBack
  <2>7. BeforeOrBack(op.backup, op.before)'
    BY <1>1, <2>3, <2>4 DEF BeforeOrBack
  <2> QED BY <1>1, <2>3, <2>4, <2>5, <2>7 DEF HalfInv, HalfWay, HalfAnswered, InLoop
<1> QED BY <1>2, <1>3, <1>4 DEF Restore

\* A file of a restore is put back as the backup has it.
LEMMA WriteFileIsHalfWay ==
  ASSUME TypeInv, HalfInv, WriteFile
  PROVE  HalfInv'
<1>1. /\ op # NoOp /\ op.at = "write" /\ op \in Op /\ At("write") /\ UNCHANGED <<kind, backups>> /\ file \in Files
  BY OpIsOp DEF WriteFile, At, TypeInv, Typed
<1>2. PICK w : w = op.plan[op.done + 1]
  OBVIOUS
<1>3. op.done + 1 \in DOMAIN op.plan /\ w.path \in Paths
  BY <1>1, <1>2, NextWrite
<1>4. PICK o : o = [op EXCEPT !.done = @ + 1, !.at = IF op.done + 1 = Len(op.plan) THEN AfterWrites ELSE @]
  OBVIOUS
<1>5. SameAs(op, o) /\ Continue(o) /\ op' = o /\ last' = NoOp
  BY <1>1, <1>4 DEF WriteFile, Continue, Op, SameAs
<1>6. CASE ~InLoop
  <2>1. o.name = op.name /\ kind' = kind
    BY <1>1, <1>5 DEF SameAs
  <2> QED BY <1>1, <1>5, <1>6, <2>1 DEF HalfInv, HalfWay, HalfAnswered, InLoop
<1>7. CASE InLoop
  <2>1. PICK f \in Range(backups[op.backup].files) : f.path = w.path /\ f.original = w.next
    BY <1>2, <1>3, <1>7 DEF HalfInv, HalfWay
  <2>2. \A p \in Paths : file'[p] = IF p = w.path THEN w.next ELSE file[p]
    BY <1>1, <1>2, <1>3 DEF WriteFile, Files
  <2>3. BeforeOrBack(op.backup, op.before)
    BY <1>7 DEF HalfInv, HalfWay
  <2>4. \A p \in Paths :
          \/ file'[p] = op.before[p]
          \/ \E g \in Range(backups[op.backup].files) : g.path = p /\ file'[p] = g.original
    BY <2>1, <2>2, <2>3 DEF BeforeOrBack
  <2>5. BeforeOrBack(op.backup, op.before)'
    BY <1>1, <1>5, <2>4 DEF BeforeOrBack, SameAs
  <2>6. \A i \in DOMAIN o.plan :
          \E g \in Range(backups'[o.backup].files) : g.path = o.plan[i].path /\ g.original = o.plan[i].next
    BY <1>1, <1>5, <1>7 DEF HalfInv, HalfWay, SameAs
  <2> QED BY <1>5, <2>5, <2>6 DEF HalfInv, HalfWay, HalfAnswered
<1> QED BY <1>6, <1>7

\* Only the loop of a restore is answered half-way.
LEMMA WriteRefusedIsHalfWay ==
  ASSUME TypeInv, HalfInv, WriteRefused
  PROVE  HalfInv'
<1>1. op # NoOp /\ op.at = "write" /\ op \in Op /\ UNCHANGED <<kind, file, backups>>
  BY OpIsOp DEF WriteRefused, At
<1>2. CASE op.name = "restore" /\ kind # "desktop" /\ Answer(Refused(op), "error")
  <2>1. PICK a : a = Answered(Refused(op), "error")
    OBVIOUS
  <2>2. a.backup = op.backup /\ a.before = op.before
    BY <1>1, <2>1, RefusedIsOp DEF Answered, SameAs
  <2>3. op' = NoOp /\ last' = a
    BY <1>2, <2>1 DEF Answer
  <2>4. BeforeOrBack(op.backup, op.before)
    BY <1>1, <1>2 DEF HalfInv, HalfWay, InLoop
  <2>5. BeforeOrBack(last.backup, last.before)'
    BY <1>1, <2>2, <2>3, <2>4 DEF BeforeOrBack
  <2> QED BY <2>3, <2>5 DEF HalfInv, HalfWay, HalfAnswered, InLoop
<1>3. CASE Continue(RollingBack(Refused(op), TRUE))
  <2>1. RollingBack(Refused(op), TRUE).at = "undo"
    BY <1>1, OpIsOp, RollingBackIsOp DEF OpFits
  <2> QED BY <1>3, <2>1, GoingOnIsWhole
<1> QED BY <1>2, <1>3 DEF WriteRefused

\* A rollback and what comes after the files are outside the loop.
LEMMA OthersAreWhole ==
  ASSUME TypeInv, op # NoOp, op.at # "write" \/ op.name # "restore", NEW o \in Op, SameAs(op, o), o.at = op.at
  PROVE  /\ \A result : Answer(o, result) => HalfInv'
         /\ \A quiet \in BOOLEAN : Continue(RollingBack(Refused(op), quiet)) => HalfInv'
<1>1. o.at # "write" \/ o.name # "restore"
  BY DEF SameAs
<1>2. \A result : Answer(o, result) => HalfInv'
  BY <1>1, EndIsWhole
<1>3. \A quiet \in BOOLEAN : RollingBack(Refused(op), quiet).at = "undo"
  BY OpIsOp, RollingBackIsOp DEF OpFits
<1>4. \A quiet \in BOOLEAN : Continue(RollingBack(Refused(op), quiet)) => HalfInv'
  BY <1>3, GoingOnIsWhole
<1> QED BY <1>2, <1>4

\* The steps of an operation that are not in the loop.
LEMMA LaterIsWhole ==
  ASSUME TypeInv, CreateBackup \/ SetEnvironment \/ Verify \/ WriteManifest \/ CleanUp
  PROVE  HalfInv'
<1>1. /\ op # NoOp /\ op \in Op /\ op.at \in {"backup", "env", "verify", "finish", "cleanup"}
      /\ op.at = "backup" => op.name # "restore"
  BY OpIsOp DEF CreateBackup, SetEnvironment, Verify, WriteManifest, CleanUp, At, InPhase
<1>2. ASSUME NEW at \in Steps, at # "write" \/ op.name # "restore", Continue([op EXCEPT !.at = at])
      PROVE  HalfInv'
  <2>1. [op EXCEPT !.at = at].at = at /\ [op EXCEPT !.at = at].name = op.name
    BY <1>1, NextStepIsOp DEF SameAs
  <2> QED BY <1>2, <2>1, GoingOnIsWhole
<1>3. /\ SameAs(op, op) /\ op.at = op.at
      /\ Refused(op) \in Op /\ SameAs(op, Refused(op)) /\ Refused(op).at = op.at
  BY <1>1, RefusedIsOp DEF SameAs
<1>4. /\ \A result : Answer(op, result) => HalfInv'
      /\ \A result : Answer(Refused(op), result) => HalfInv'
      /\ \A quiet \in BOOLEAN : Continue(RollingBack(Refused(op), quiet)) => HalfInv'
  BY <1>1, <1>3, OthersAreWhole
<1>5. {"write", "verify", "finish", "cleanup"} \subseteq Steps
  BY DEF Steps
<1>6. CASE CreateBackup
  <2>1. op.name # "restore"
    BY <1>1, <1>6 DEF CreateBackup, At
  <2> QED BY <1>2, <1>4, <1>5, <1>6, <2>1 DEF CreateBackup
<1>7. CASE SetEnvironment
  BY <1>2, <1>4, <1>5, <1>7 DEF SetEnvironment
<1>8. CASE Verify
  BY <1>2, <1>4, <1>5, <1>8 DEF Verify
<1>9. CASE WriteManifest
  BY <1>2, <1>4, <1>5, <1>9 DEF WriteManifest
<1>10. CASE CleanUp
  BY <1>4, <1>10 DEF CleanUp
<1> QED BY <1>6, <1>7, <1>8, <1>9, <1>10

\* A step of a rollback.
LEMMA UndoStepIsWhole ==
  ASSUME TypeInv, op # NoOp, op.undo # <<>>, NEW o \in Op, SameAs(op, o), o.undo = op.undo, o.at = "undo", UndoStep(o)
  PROVE  HalfInv'
<1>1. PICK next : next = [o EXCEPT !.undo = Tail(@)]
  OBVIOUS
<1>2. next \in Op /\ next.at = "undo"
  BY <1>1, TailIsOp
<1>3. CASE Continue(next)
  BY <1>2, <1>3, GoingOnIsWhole
<1>4. CASE AfterUndo # "undo" /\ Continue([next EXCEPT !.at = AfterUndo])
  <2>1. AfterUndo \in Steps /\ AfterUndo # "write"
    BY DEF AfterUndo, Steps
  <2>2. [next EXCEPT !.at = AfterUndo].at = AfterUndo
    BY <1>2, <2>1, NextStepIsOp
  <2> QED BY <1>4, <2>1, <2>2, GoingOnIsWhole
<1>5. CASE RolledBack(next)
  BY <1>2, <1>5, EndIsWhole DEF RolledBack
<1> QED BY <1>1, <1>3, <1>4, <1>5 DEF UndoStep

\* A rollback never answers half-way.
LEMMA UndoIsWhole ==
  ASSUME TypeInv, UndoFile \/ UndoEnvironment \/ UndoManifest
  PROVE  HalfInv'
<1>1. op # NoOp /\ op \in Op /\ op.at \in {"undo", "undoEnv", "undoManifest"} /\ (op.at = "undo" => op.undo # <<>>)
  BY OpIsOp DEF UndoFile, UndoEnvironment, UndoManifest, At, InPhase
<1>2. PICK o : o = [Refused(op) EXCEPT !.failed = TRUE]
  OBVIOUS
<1>3. o \in Op /\ SameAs(op, o) /\ o.undo = op.undo /\ o.at = op.at /\ SameAs(op, op)
  BY <1>1, <1>2, FailedIsOp DEF SameAs
<1>4. CASE UndoFile
  <2>1. op.at = "undo" /\ (UndoStep(op) \/ UndoStep(o))
    BY <1>2, <1>4 DEF UndoFile, At
  <2> QED BY <1>1, <1>3, <2>1, UndoStepIsWhole
<1>5. CASE UndoEnvironment \/ UndoManifest
  <2>1. RolledBack(op) \/ RolledBack(o)
    BY <1>2, <1>5 DEF UndoEnvironment, UndoManifest
  <2> QED BY <1>1, <1>3, <2>1, EndIsWhole DEF RolledBack
<1> QED BY <1>4, <1>5

\* Every step keeps what a restore has put back so far.
LEMMA NextIsHalfWay ==
  ASSUME TypeInv, HalfInv, [Next]_vars
  PROVE  HalfInv'
<1>1. CASE \E want \in Settings : Point(want) \/ SyncSettings(want)
  BY <1>1, PointIsWhole
<1>2. CASE Restore
  BY <1>2, RestoreIsHalfWay
<1>3. CASE Operation
  BY <1>3, LaterIsWhole, WriteFileIsHalfWay, WriteRefusedIsHalfWay, UndoIsWhole DEF Operation
<1>4. CASE Crash \/ EditFile \/ EditEnvironment
  <2>1. last' = NoOp /\ op' = NoOp
    BY <1>4 DEF Crash, EditFile, EditEnvironment, Edited
  <2> QED BY <2>1 DEF HalfInv, HalfWay, HalfAnswered, InLoop
<1>5. CASE RefreshModels \/ UNCHANGED vars
  <2>1. UNCHANGED <<kind, file, backups, op, last>>
    BY <1>5, AsideSteps DEF Aside
  <2> QED BY <2>1 DEF HalfInv, HalfWay, HalfAnswered, InLoop, StoppedInLoop, BeforeOrBack
<1> QED BY <1>1, <1>2, <1>3, <1>4, <1>5 DEF Next

\* When a point, a synchronisation or a desktop restore fails with one refused write, and
\* when a restore fails after its loop, the planned files and the variable are as they were
\* (point.go apply, the rollback closures).  When the loop itself is refused a file, each file
\* is as it was or as the backup has it, and the same backup is restored when it is asked for
\* again.
THEOREM FailuresAreUndone == Spec => []FailureIsUndone
<1>1. Init => HalfInv
  BY DEF Init, HalfInv, HalfWay, HalfAnswered, InLoop
<1>2. TypeInv /\ HalfInv /\ [Next]_vars => HalfInv'
  BY NextIsHalfWay
<1>3. UndoInv /\ HalfInv => FailureIsUndone
  BY DEF UndoInv, Undone, HalfInv, HalfAnswered, BeforeOrBack, FailureIsUndone, HalfRestored
<1> QED BY <1>1, <1>2, <1>3, UndoInductive, PTL DEF Spec

(***************************************************************************)
(* What the user had is kept.                                              *)
(***************************************************************************)

OriginalInv == KeptInv /\ Restoring

\* Backups that stay keep what they hold.
BackupsStay ==
  \A b \in DOMAIN backups :
    /\ b \in DOMAIN backups'
    /\ backups'[b].files = backups[b].files
    /\ backups'[b].mine = backups[b].mine

\* What is kept stays kept.
LEMMA SafeStays ==
  ASSUME BackupsStay, kind' = kind, NEW main, NEW his
  PROVE  /\ Kept(his) => Kept(his)'
         /\ Safe(main, his) => Safe(main, his)'
<1>1. Kept(his) => Kept(his)'
  BY DEF Kept, BackupsStay
<1> QED BY <1>1 DEF Safe, Own, IsText

\* A step that leaves the files and the backups alone.
LEMMA SystemStaysKept ==
  ASSUME KeptInv, UNCHANGED <<kind, file, backups, mine>>
  PROVE  /\ BackupsStay
         /\ Safe(file[Main], mine)'
         /\ \A b \in DOMAIN backups' : Safe(backups[b].files[MainAt].original, backups[b].mine)'
<1>1. BackupsStay
  BY DEF BackupsStay
<1>2. MainAt' = MainAt
  BY DEF MainAt
<1> QED BY <1>1, <1>2, SafeStays DEF KeptInv

\* An operation that ends.
LEMMA EndIsKept ==
  ASSUME NEW o, NEW result, Answer(o, result), Safe(file[Main], mine)',
         \A b \in DOMAIN backups' : Safe(backups[b].files[MainAt].original, backups[b].mine)'
  PROVE  OriginalInv'
<1>1. op' = NoOp
  BY DEF Answer
<1>2. KeptInv'
  BY <1>1, Zenon DEF KeptInv
<1> QED BY <1>1, <1>2 DEF OriginalInv, Restoring

\* An operation that goes on.
LEMMA GoingOnIsKept ==
  ASSUME TypeInv, OriginalInv, op # NoOp, NEW o, Continue(o), SameAs(op, o), BackupsStay, kind' = kind,
         Safe(file[Main], mine)',
         \A b \in DOMAIN backups' : Safe(backups[b].files[MainAt].original, backups[b].mine)',
         o.at # "backup", op.at # "backup" \/ op.name # "restore",
         o.at = "write" /\ op.name # "restore" => Kept(mine)'
  PROVE  OriginalInv'
<1>1. op' = o /\ OpKept /\ Restoring
  BY DEF Continue, OriginalInv, KeptInv
<1>2. /\ o.name = op.name /\ o.plan = op.plan /\ o.backup = op.backup /\ o.before = op.before /\ o.mine = op.mine
  BY DEF SameAs
<1>3. Safe(op.before[Main], op.mine)'
  <2>1. PICK main : main = op.before[Main]
    OBVIOUS
  <2>2. PICK his : his = op.mine
    OBVIOUS
  <2>3. Safe(main, his)'
    BY <1>1, <2>1, <2>2, SafeStays DEF OpKept
  <2> QED BY <1>1, <1>2, <2>1, <2>2, <2>3 DEF Safe, Own, IsText, Kept
<1>4. OpKept'
  <2>1. \A i \in DOMAIN o.plan : o.name # "restore" /\ o.plan[i].path = Main => (Own(o.plan[i].next) # None)'
    BY <1>1, <1>2 DEF OpKept, Own, IsText
  <2> QED BY <1>1, <1>2, <1>3, <2>1 DEF OpKept
<1>5. Restoring'
  <2>1. ASSUME op.name = "restore"
        PROVE  op.backup \in DOMAIN backups
    BY <2>1, OpIsOp DEF InPhase, WithBackup
  <2>2. ASSUME NEW i \in DOMAIN op.plan, op.name = "restore", NEW j \in DOMAIN backups[op.backup].files,
               op.plan[i].path = backups[op.backup].files[j].path
        PROVE  PutBack(backups[op.backup].files[j].original, op.plan[i].next)'
    BY <1>1, <1>2, <2>1, <2>2 DEF Restoring, PutBack, Applied, BackupsStay
  <2> QED BY <1>1, <1>2, <2>1, <2>2 DEF Restoring, BackupsStay, PutBack, Applied
<1> QED BY <1>1, <1>4, <1>5, Zenon DEF OriginalInv, KeptInv

\* An operation that starts from what is safe.
LEMMA StartIsKept ==
  ASSUME TypeInv, OriginalInv, NEW name \in {"point", "sync", "restore"}, NEW want \in Settings \cup {None},
         NEW at \in {"backup", "write"}, NEW plan \in Seq(Entry), NEW fresh \in BOOLEAN, NEW b \in 0..MaxPoints,
         UNCHANGED <<kind, file, env, backups, mine, budget>>,
         \/ \E result : Answer(Started(name, want, at, plan, fresh, b), result)
         \/ /\ Continue(Started(name, want, at, plan, fresh, b))
            /\ at = "backup" => (kind = "desktop" => file[Main] # Empty)
            /\ at = "write" /\ name # "restore" => Own(file[Main]) # None
            /\ name # "restore" => \A i \in DOMAIN plan : plan[i].path = Main => Own(plan[i].next) # None
            /\ name = "restore" =>
                 /\ b \in DOMAIN backups
                 /\ \A i \in DOMAIN plan, j \in DOMAIN backups[b].files :
                      plan[i].path = backups[b].files[j].path => PutBack(backups[b].files[j].original, plan[i].next)
  PROVE  OriginalInv'
<1>1. /\ BackupsStay /\ KeptInv /\ Safe(file[Main], mine)'
      /\ \A c \in DOMAIN backups' : Safe(backups[c].files[MainAt].original, backups[c].mine)'
  BY SystemStaysKept DEF OriginalInv
<1>2. PICK o : o = Started(name, want, at, plan, fresh, b)
  OBVIOUS
<1>3. /\ o.name = name /\ o.at = at /\ o.plan = plan /\ o.backup = b /\ o.before = file /\ o.mine = mine
  BY <1>2 DEF Started
<1>4. CASE \E result : Answer(o, result)
  BY <1>1, <1>4, EndIsKept
<1>5. CASE /\ Continue(o)
           /\ at = "backup" => (kind = "desktop" => file[Main] # Empty)
           /\ at = "write" /\ name # "restore" => Own(file[Main]) # None
           /\ name # "restore" => \A i \in DOMAIN plan : plan[i].path = Main => Own(plan[i].next) # None
           /\ name = "restore" =>
                /\ b \in DOMAIN backups
                /\ \A i \in DOMAIN plan, j \in DOMAIN backups[b].files :
                     plan[i].path = backups[b].files[j].path => PutBack(backups[b].files[j].original, plan[i].next)
  <2>1. op' = o
    BY <1>5 DEF Continue
  <2>2. Safe(op.before[Main], op.mine)'
    BY <1>1, <1>3, <2>1 DEF Safe, Own, IsText, Kept
  <2>3. at = "write" /\ name # "restore" => Kept(mine)'
    BY <1>1, <1>5, SafeStays DEF KeptInv, Safe
  <2>4. name # "restore" => \A i \in DOMAIN plan : plan[i].path = Main => (Own(plan[i].next) # None)'
    BY <1>5 DEF Own, IsText
  <2>5. OpKept'
    BY <1>3, <1>5, <2>1, <2>2, <2>3, <2>4 DEF OpKept
  <2>6. Restoring'
    BY <1>3, <1>5, <2>1 DEF Restoring, PutBack, Applied
  <2> QED BY <1>1, <2>1, <2>5, <2>6, Zenon DEF OriginalInv, KeptInv
<1> QED BY <1>2, <1>4, <1>5

\* Point.
LEMMA PointIsKept ==
  ASSUME TypeInv, OriginalInv, NEW want \in Settings, Point(want)
  PROVE  OriginalInv'
<1>1. /\ Typed /\ Shaped /\ want \in Settings \cup {None}
      /\ UNCHANGED <<kind, file, env, backups, mine, budget>>
      /\ Len(backups) \in Nat /\ MaxPoints \in Nat /\ 0 \in 0..MaxPoints /\ <<>> \in Seq(Entry)
  BY BoundsAssumption DEF TypeInv, Typed, Point
<1>2. CASE \E result : Answer(Started("point", want, "write", <<>>, FALSE, 0), result)
  BY <1>1, <1>2, StartIsKept
<1>3. CASE InPlace /\ Continue(Started("point", want, "write", PlanOf(want), FALSE, 0))
  <2>1. /\ PlanOf(want) \in Seq(Entry)
        /\ \A i \in DOMAIN PlanOf(want) : PlanOf(want)[i].path = Main => Own(PlanOf(want)[i].next) # None
    BY <1>1, <1>3, PlanOfShape
  <2>2. Own(file[Main]) # None
    BY <1>1, <1>3, SettingsPathIsPath DEF InPlace
  <2> QED BY <1>1, <1>3, <2>1, <2>2, StartIsKept
<1>4. CASE /\ ~CannotApply
           /\ Len(backups) < MaxPoints
           /\ Continue(Started("point", want, "backup", PlanOf(want), TRUE, Len(backups) + 1))
  <2>1. /\ PlanOf(want) \in Seq(Entry) /\ Len(backups) + 1 \in 0..MaxPoints
        /\ \A i \in DOMAIN PlanOf(want) : PlanOf(want)[i].path = Main => Own(PlanOf(want)[i].next) # None
    BY <1>1, <1>4, PlanOfShape
  <2>2. kind = "desktop" => file[Main] # Empty
    BY <1>4 DEF CannotApply
  <2> QED BY <1>1, <1>4, <2>1, <2>2, StartIsKept
<1> QED BY <1>2, <1>3, <1>4 DEF Point

\* Synchronisation.
LEMMA SyncIsKept ==
  ASSUME TypeInv, OriginalInv, NEW want \in Settings, SyncSettings(want)
  PROVE  OriginalInv'
<1>1. /\ Typed /\ Shaped /\ want \in Settings \cup {None} /\ InPlace
      /\ UNCHANGED <<kind, file, env, backups, mine, budget>>
      /\ \/ Continue(Started("sync", want, "write", PlanOf(want), FALSE, 0))
         \/ Answer(Started("sync", want, "write", <<>>, FALSE, 0), "error")
  BY DEF TypeInv, SyncSettings
<1>2. 0 \in 0..MaxPoints
  BY BoundsAssumption
<1>3. /\ PlanOf(want) \in Seq(Entry) /\ <<>> \in Seq(Entry)
      /\ \A i \in DOMAIN PlanOf(want) : PlanOf(want)[i].path = Main => Own(PlanOf(want)[i].next) # None
  BY <1>1, PlanOfShape
<1>4. Own(file[Main]) # None
  BY <1>1, SettingsPathIsPath DEF InPlace
<1> QED BY <1>1, <1>2, <1>3, <1>4, StartIsKept

\* Restore.
LEMMA RestoreIsKept ==
  ASSUME TypeInv, OriginalInv, Restore
  PROVE  OriginalInv'
<1>1. /\ Typed /\ Shaped /\ None \in Settings \cup {None} /\ <<>> \in Seq(Entry)
      /\ UNCHANGED <<kind, file, env, backups, mine, budget>>
      /\ backups \in Seq(Backup) /\ Len(backups) <= MaxPoints /\ MaxPoints \in Nat
  BY BoundsAssumption DEF TypeInv, Typed, Shaped, BackupsFit, Restore
<1>2. Latest \in 0..MaxPoints /\ (Latest # 0 => Latest \in DOMAIN backups)
  BY <1>1, LatestIs
<1>3. CASE \E result : Answer(Started("restore", None, "write", <<>>, FALSE, Latest), result)
  BY <1>1, <1>2, <1>3, StartIsKept
<1>4. CASE /\ Latest # 0
           /\ Continue(Started("restore", None, "write", RestorePlan(Latest), FALSE, Latest))
  <2>1. PICK b : b = Latest
    OBVIOUS
  <2>2. PICK plan : plan = RestorePlan(b)
    OBVIOUS
  <2>3. b \in DOMAIN backups /\ b \in 0..MaxPoints
    BY <1>2, <1>4, <2>1
  <2>4. /\ plan \in Seq(Entry)
        /\ \A i \in DOMAIN plan, j \in DOMAIN backups[b].files :
             plan[i].path = backups[b].files[j].path => PutBack(backups[b].files[j].original, plan[i].next)
    BY <1>1, <2>2, <2>3, RestorePlanShape
  <2>5. Continue(Started("restore", None, "write", plan, FALSE, b))
    BY <1>4, <2>1, <2>2
  <2> QED BY <1>1, <2>3, <2>4, <2>5, StartIsKept
<1> QED BY <1>3, <1>4 DEF Restore

\* A rollback starts.
LEMMA RollingBackIsKept ==
  ASSUME TypeInv, OriginalInv, op # NoOp, op.at # "backup", NEW quiet \in BOOLEAN,
         Continue(RollingBack(Refused(op), quiet)),
         UNCHANGED <<kind, file, backups, mine>>
  PROVE  OriginalInv'
<1>1. PICK o : o = RollingBack(Refused(op), quiet)
  OBVIOUS
<1>2. op \in Op /\ Len(op.plan) \in {1, 2}
  BY OpIsOp DEF OpFits
<1>3. SameAs(op, o) /\ o.at = "undo"
  BY <1>1, <1>2, RollingBackIsOp
<1>4. /\ BackupsStay /\ Safe(file[Main], mine)'
      /\ \A c \in DOMAIN backups' : Safe(backups[c].files[MainAt].original, backups[c].mine)'
  BY SystemStaysKept DEF OriginalInv
<1> QED BY <1>1, <1>3, <1>4, GoingOnIsKept

\* The next step of an operation that changes neither files nor backups.
LEMMA AdvanceIsKept ==
  ASSUME TypeInv, OriginalInv, op # NoOp, op.at # "backup",
         NEW at \in {"env", "verify", "finish", "cleanup"}, Continue([op EXCEPT !.at = at]),
         BackupsStay, kind' = kind, Safe(file[Main], mine)',
         \A b \in DOMAIN backups' : Safe(backups[b].files[MainAt].original, backups[b].mine)'
  PROVE  OriginalInv'
<1>1. PICK o : o = [op EXCEPT !.at = at]
  OBVIOUS
<1>2. op \in Op /\ at \in Steps
  BY OpIsOp DEF Steps
<1>3. SameAs(op, o) /\ o.at = at
  BY <1>1, <1>2, NextStepIsOp
<1> QED BY <1>1, <1>3, GoingOnIsKept

\* The backup holds what the user had before anything is written.
LEMMA CreateBackupIsKept ==
  ASSUME TypeInv, UndoInv, OriginalInv, CreateBackup
  PROVE  OriginalInv'
<1>1. /\ op # NoOp /\ op.at = "backup" /\ op \in Op /\ op.fresh /\ op.name # "restore"
      /\ UNCHANGED <<kind, file, env, mine>> /\ OpKept /\ mine = op.mine /\ file = op.before
      /\ Safe(file[Main], mine) /\ (kind = "desktop" => file[Main] # Empty)
  BY OpIsOp DEF CreateBackup, At, InPhase, OriginalInv, KeptInv, OpKept, UndoInv, Undoable
<1>2. CASE backups' = backups /\ Answer(Refused(op), "error")
  <2>1. /\ Safe(file[Main], mine)'
        /\ \A c \in DOMAIN backups' : Safe(backups[c].files[MainAt].original, backups[c].mine)'
    BY <1>1, <1>2, SystemStaysKept DEF OriginalInv
  <2> QED BY <1>2, <2>1, EndIsKept
<1>3. CASE /\ backups' = Append(backups, BackupOf(op.plan))
           /\ Continue([op EXCEPT !.at = "write"])
  <2>1. PICK o : o = [op EXCEPT !.at = "write"]
    OBVIOUS
  <2>2. SameAs(op, o) /\ o.at = "write"
    <3>1. "write" \in Steps
      BY DEF Steps
    <3> QED BY <1>1, <2>1, <3>1, NextStepIsOp
  <2>3. Continue(o)
    BY <1>3, <2>1
  <2>4. PICK b : b = BackupOf(op.plan)
    OBVIOUS
  <2>5. /\ b \in Backup /\ b.mine = mine /\ Whole(b.files)
        /\ \A i \in DOMAIN b.files : b.files[i].original = file[b.files[i].path]
    <3>1. /\ b \in Backup /\ b.mine = mine /\ Whole(b.files)
          /\ \A i \in DOMAIN b.files :
               b.files[i].path = op.plan[i].path /\ b.files[i].original = op.before[op.plan[i].path]
      BY <1>1, <2>4, NewBackup
    <3> QED BY <1>1, <3>1
  <2>6. PICK n \in Nat : n = Len(backups) /\ backups \in Seq(Backup) /\ DOMAIN backups = 1..n
    BY DEF TypeInv, Typed
  <2>7. /\ DOMAIN backups' = 1..(n + 1)
        /\ backups'[n + 1] = b /\ \A i \in 1..n : backups'[i] = backups[i]
    BY <1>3, <2>4, <2>5, <2>6
  <2>8. BackupsStay
    BY <2>6, <2>7 DEF BackupsStay
  <2>9. MainAt \in DOMAIN b.files /\ b.files[MainAt].path = Main /\ b.files[MainAt].original = file[Main]
    <3>1. b.files \in Seq([path : Paths, original : Content])
      BY <2>5 DEF Backup
    <3>2. MainAt \in DOMAIN b.files /\ b.files[MainAt].path = Main
      BY <2>5, <3>1 DEF Whole, MainAt
    <3> QED BY <2>5, <3>2
  <2>10. Safe(file[Main], mine)'
    <3>1. PICK main, his : main = file[Main] /\ his = mine
      OBVIOUS
    <3>2. Safe(main, his)'
      BY <1>1, <2>8, <3>1, SafeStays
    <3> QED BY <1>1, <3>1, <3>2 DEF Safe, Kept, Own, IsText
  <2>11. ASSUME NEW c \in 1..(n + 1)
         PROVE  Safe(backups[c].files[MainAt].original, backups[c].mine)'
    <3>1. CASE c = n + 1
      BY <1>1, <2>5, <2>7, <2>9, <2>10, <3>1 DEF Safe, Kept, Own, IsText, MainAt
    <3>2. CASE c \in 1..n
      <4>1. PICK main, his : main = backups[c].files[MainAt].original /\ his = backups[c].mine
        OBVIOUS
      <4>2. Safe(main, his)
        BY <2>6, <3>2, <4>1 DEF OriginalInv, KeptInv
      <4>3. Safe(main, his)'
        BY <1>1, <2>8, <4>2, SafeStays
      <4> QED BY <1>1, <2>7, <3>2, <4>1, <4>3 DEF Safe, Kept, Own, IsText, MainAt
    <3> QED BY <3>1, <3>2
  <2>12. Kept(mine)'
    <3>1. CASE Own(file[Main]) # None
      <4>1. PICK his : his = mine
        OBVIOUS
      <4>2. Kept(his)
        BY <1>1, <3>1, <4>1 DEF Safe
      <4>3. Kept(his)'
        BY <1>1, <2>8, <4>2, SafeStays
      <4> QED BY <1>1, <4>1, <4>3 DEF Kept
    <3>2. CASE Own(file[Main]) = None
      <4>1. file[Main] = mine
        BY <1>1, <3>2 DEF Safe
      <4>2. /\ n + 1 \in DOMAIN backups'
            /\ b.files[MainAt] \in Range(backups'[n + 1].files)
            /\ b.files[MainAt].path = Main /\ b.files[MainAt].original = mine'
        BY <1>1, <2>6, <2>7, <2>9, <4>1 DEF Range
      <4> QED BY <4>2 DEF Kept
    <3> QED BY <3>1, <3>2
  <2> QED BY <1>1, <2>2, <2>3, <2>7, <2>8, <2>10, <2>11, <2>12, GoingOnIsKept
<1> QED BY <1>2, <1>3 DEF CreateBackup

\* Where a restore puts the main file back, it puts back what the backup holds.
LEMMA RestoredMain ==
  ASSUME TypeInv, OriginalInv, At("write"), op.name = "restore", NEW w, w = op.plan[op.done + 1], w.path = Main
  PROVE  Safe(w.next, backups[op.backup].mine)
<1>1. op # NoOp /\ op.backup \in DOMAIN backups /\ op.done + 1 \in DOMAIN op.plan
  BY OpIsOp, NextWrite DEF At, InPhase, WithBackup
<1>2. PICK b : b = op.backup
  OBVIOUS
<1>3. PICK f : f = backups[b].files[MainAt]
  OBVIOUS
<1>4. /\ MainAt \in DOMAIN backups[b].files /\ f.path = Main /\ f.original \in Content
  BY <1>1, <1>2, <1>3, BackupFiles DEF TypeInv
<1>5. PutBack(f.original, w.next)
  BY <1>1, <1>2, <1>3, <1>4 DEF OriginalInv, Restoring
<1>6. Safe(f.original, backups[b].mine)
  BY <1>1, <1>2, <1>3 DEF OriginalInv, KeptInv
<1>7. Own(w.next) = Own(f.original) /\ (w.next = f.original \/ (kind = "desktop" /\ w.next = Empty))
  BY <1>4, <1>5, AppliedOwn DEF PutBack
<1> QED BY <1>2, <1>6, <1>7 DEF Safe

\* A file is written.
LEMMA WriteFileIsKept ==
  ASSUME TypeInv, OriginalInv, WriteFile
  PROVE  OriginalInv'
<1>1. /\ op # NoOp /\ op.at = "write" /\ op \in Op /\ At("write") /\ OpKept /\ file \in Files
      /\ UNCHANGED <<kind, env, backups, budget>> /\ Safe(file[Main], mine)
  BY OpIsOp DEF WriteFile, At, OriginalInv, KeptInv, TypeInv, Typed
<1>2. PICK w : w = op.plan[op.done + 1]
  OBVIOUS
<1>3. /\ op.done + 1 \in DOMAIN op.plan /\ w.path \in Paths
  BY <1>1, <1>2, NextWrite
<1>4. /\ file' = [file EXCEPT ![w.path] = w.next]
      /\ mine' = IF op.name = "restore" /\ w.path = Main THEN backups[op.backup].mine ELSE mine
  BY <1>2 DEF WriteFile
<1>5. Main \in Paths
  BY DEF Paths
<1>6. PICK main, his : main = file'[Main] /\ his = mine'
  OBVIOUS
<1>7. Safe(main, his)
  <2>1. CASE w.path # Main
    BY <1>1, <1>3, <1>4, <1>5, <1>6, <2>1 DEF Files
  <2>2. CASE w.path = Main /\ op.name # "restore"
    <3>1. main = w.next /\ his = mine
      BY <1>1, <1>4, <1>5, <1>6, <2>2 DEF Files
    <3>2. Own(w.next) # None /\ Kept(mine)
      BY <1>1, <1>2, <1>3, <2>2 DEF OpKept
    <3> QED BY <3>1, <3>2 DEF Safe
  <2>3. CASE w.path = Main /\ op.name = "restore"
    <3>1. main = w.next /\ his = backups[op.backup].mine
      BY <1>1, <1>4, <1>5, <1>6, <2>3 DEF Files
    <3> QED BY <1>1, <1>2, <2>3, <3>1, RestoredMain
  <2> QED BY <2>1, <2>2, <2>3
<1>8. BackupsStay
  BY <1>1 DEF BackupsStay
<1>9. Safe(file[Main], mine)'
  <2>1. Safe(main, his)'
    BY <1>1, <1>7, <1>8, SafeStays
  <2> QED BY <1>6, <2>1 DEF Safe, Kept, Own, IsText
<1>10. \A c \in DOMAIN backups' : Safe(backups[c].files[MainAt].original, backups[c].mine)'
  BY <1>1 DEF OriginalInv, KeptInv, Safe, Kept, Own, IsText, MainAt
<1>11. op.name # "restore" => Kept(mine)'
  BY <1>1, <1>4 DEF OpKept, Kept
<1>12. PICK o : o = [op EXCEPT !.done = @ + 1, !.at = IF op.done + 1 = Len(op.plan) THEN AfterWrites ELSE @]
  OBVIOUS
<1>13. /\ SameAs(op, o)
       /\ o.at = IF op.done + 1 = Len(op.plan) THEN AfterWrites ELSE op.at
  BY <1>1, <1>12 DEF Op, SameAs
<1>14. o.at # "backup"
  BY <1>1, <1>13, AfterWritesFits
<1>15. Continue(o)
  BY <1>12 DEF WriteFile
<1> QED BY <1>1, <1>8, <1>9, <1>10, <1>11, <1>13, <1>14, <1>15, GoingOnIsKept

\* A write is refused.
LEMMA WriteRefusedIsKept ==
  ASSUME TypeInv, OriginalInv, WriteRefused
  PROVE  OriginalInv'
<1>1. /\ op # NoOp /\ op.at # "backup" /\ UNCHANGED <<kind, file, env, backups, mine>> /\ KeptInv
  BY DEF WriteRefused, At, OriginalInv
<1>2. CASE Answer(Refused(op), "error")
  <2>1. /\ Safe(file[Main], mine)'
        /\ \A c \in DOMAIN backups' : Safe(backups[c].files[MainAt].original, backups[c].mine)'
    BY <1>1, SystemStaysKept
  <2> QED BY <1>2, <2>1, EndIsKept
<1>3. CASE Continue(RollingBack(Refused(op), TRUE))
  BY <1>1, <1>3, RollingBackIsKept
<1> QED BY <1>2, <1>3 DEF WriteRefused

\* The variable is none of the files.
LEMMA SetEnvironmentIsKept ==
  ASSUME TypeInv, OriginalInv, SetEnvironment
  PROVE  OriginalInv'
<1>1. /\ op # NoOp /\ op.at # "backup" /\ UNCHANGED <<kind, file, backups, mine>> /\ KeptInv
  BY DEF SetEnvironment, At, OriginalInv
<1>2. /\ BackupsStay /\ Safe(file[Main], mine)'
      /\ \A c \in DOMAIN backups' : Safe(backups[c].files[MainAt].original, backups[c].mine)'
  BY <1>1, SystemStaysKept
<1>3. CASE Continue([op EXCEPT !.at = IF op.name = "restore" THEN "finish" ELSE "verify"])
  BY <1>1, <1>2, <1>3, AdvanceIsKept
<1>4. CASE Continue(RollingBack(Refused(op), FALSE))
  BY <1>1, <1>4, RollingBackIsKept
<1> QED BY <1>3, <1>4 DEF SetEnvironment

\* Reading changes nothing.
LEMMA VerifyIsKept ==
  ASSUME TypeInv, OriginalInv, Verify
  PROVE  OriginalInv'
<1>1. /\ op # NoOp /\ op.at # "backup" /\ UNCHANGED <<kind, file, backups, mine>> /\ KeptInv
  BY DEF Verify, At, OriginalInv
<1>2. /\ BackupsStay /\ Safe(file[Main], mine)'
      /\ \A c \in DOMAIN backups' : Safe(backups[c].files[MainAt].original, backups[c].mine)'
  BY <1>1, SystemStaysKept
<1>3. CASE Continue([op EXCEPT !.at = "finish"])
  BY <1>1, <1>2, <1>3, AdvanceIsKept
<1>4. CASE Answer(op, "ok")
  BY <1>2, <1>4, EndIsKept
<1>5. CASE Continue(RollingBack(Refused(op), FALSE))
  BY <1>1, <1>5, RollingBackIsKept
<1> QED BY <1>3, <1>4, <1>5 DEF Verify

\* The manifest says nothing of the files.
LEMMA WriteManifestIsKept ==
  ASSUME TypeInv, OriginalInv, WriteManifest
  PROVE  OriginalInv'
<1>1. /\ op # NoOp /\ op.at = "finish" /\ UNCHANGED <<kind, file, env, mine>> /\ KeptInv
      /\ SystemFits /\ op.backup \in DOMAIN backups
  BY OpIsOp, SystemIsFit DEF WriteManifest, At, OriginalInv, InPhase
<1>2. CASE /\ backups' = [backups EXCEPT ![op.backup] = Marked(@, op.name)]
           /\ Continue([op EXCEPT !.at = "cleanup"]) \/ Answer(op, "ok")
  <2>1. /\ DOMAIN backups' = DOMAIN backups
        /\ \A c \in DOMAIN backups : backups'[c].files = backups[c].files /\ backups'[c].mine = backups[c].mine
    <3>1. PICK b \in DOMAIN backups : b = op.backup
      BY <1>1
    <3>2. PICK name : name = op.name
      OBVIOUS
    <3>3. backups' = [backups EXCEPT ![b] = Marked(@, name)]
      BY <1>2, <3>1, <3>2
    <3> QED BY <1>1, <3>3, MarkedFits
  <2>2. BackupsStay
    BY <2>1 DEF BackupsStay
  <2>3. Safe(file[Main], mine)'
    <3>1. PICK main, his : main = file[Main] /\ his = mine
      OBVIOUS
    <3>2. Safe(main, his)'
      BY <1>1, <2>2, <3>1, SafeStays DEF KeptInv
    <3> QED BY <1>1, <3>1, <3>2 DEF Safe, Kept, Own, IsText
  <2>4. ASSUME NEW c \in DOMAIN backups
        PROVE  Safe(backups[c].files[MainAt].original, backups[c].mine)'
    <3>1. PICK main, his : main = backups[c].files[MainAt].original /\ his = backups[c].mine
      OBVIOUS
    <3>2. Safe(main, his)'
      BY <1>1, <2>2, <3>1, SafeStays DEF KeptInv
    <3> QED BY <1>1, <2>1, <3>1, <3>2 DEF Safe, Kept, Own, IsText, MainAt
  <2>5. CASE Continue([op EXCEPT !.at = "cleanup"])
    BY <1>1, <2>1, <2>2, <2>3, <2>4, <2>5, AdvanceIsKept
  <2>6. CASE Answer(op, "ok")
    BY <2>1, <2>3, <2>4, <2>6, EndIsKept
  <2> QED BY <1>2, <2>5, <2>6
<1>3. CASE Continue(RollingBack(Refused(op), FALSE)) /\ UNCHANGED backups
  BY <1>1, <1>3, RollingBackIsKept
<1> QED BY <1>2, <1>3 DEF WriteManifest

\* The clean-up leaves the main file alone.
LEMMA CleanUpIsKept ==
  ASSUME TypeInv, OriginalInv, CleanUp
  PROVE  OriginalInv'
<1>1. /\ UNCHANGED <<kind, backups, mine>> /\ KeptInv /\ file \in Files
      /\ \E o, result : Answer(o, result)
  BY DEF CleanUp, OriginalInv, TypeInv, Typed
<1>2. file'[Main] = file[Main]
  <2>1. Main \in Paths /\ Main # Side
    BY PathsAssumption DEF Paths
  <2> QED BY <1>1, <2>1 DEF CleanUp, Files
<1>3. Safe(file[Main], mine)'
  BY <1>1, <1>2 DEF KeptInv, Safe, Kept, Own, IsText
<1>4. \A c \in DOMAIN backups' : Safe(backups[c].files[MainAt].original, backups[c].mine)'
  BY <1>1 DEF KeptInv, Safe, Kept, Own, IsText, MainAt
<1> QED BY <1>1, <1>3, <1>4, EndIsKept

\* The next step of a rollback.
LEMMA UndoStepIsKept ==
  ASSUME TypeInv, OriginalInv, At("undo"), NEW o \in Op, SameAs(op, o), o.undo = op.undo, o.at = "undo",
         UndoStep(o), UNCHANGED <<kind, backups>>, Safe(file[Main], mine)'
  PROVE  OriginalInv'
<1>1. op # NoOp /\ op.at = "undo" /\ op \in Op /\ op.undo # <<>> /\ KeptInv
  BY OpIsOp DEF At, InPhase, OriginalInv
<1>2. PICK next : next = [o EXCEPT !.undo = Tail(@)]
  OBVIOUS
<1>3. next \in Op /\ SameAs(o, next) /\ next.at = "undo"
  BY <1>1, <1>2, TailIsOp
<1>4. SameAs(op, next)
  BY <1>3 DEF SameAs
<1>5. BackupsStay
  BY DEF BackupsStay
<1>6. \A c \in DOMAIN backups' : Safe(backups[c].files[MainAt].original, backups[c].mine)'
  BY <1>1 DEF KeptInv, Safe, Kept, Own, IsText, MainAt
<1>7. CASE Continue(next)
  BY <1>1, <1>3, <1>4, <1>5, <1>6, <1>7, GoingOnIsKept
<1>8. CASE AfterUndo # "undo" /\ Continue([next EXCEPT !.at = AfterUndo])
  <2>1. AfterUndo \in Steps /\ AfterUndo \in {"undoEnv", "undoManifest"}
    BY <1>8 DEF AfterUndo, Steps
  <2>2. PICK u : u = [next EXCEPT !.at = AfterUndo]
    OBVIOUS
  <2>3. SameAs(next, u) /\ u.at = AfterUndo
    BY <1>3, <2>1, <2>2, NextStepIsOp
  <2>4. SameAs(op, u)
    BY <1>4, <2>3 DEF SameAs
  <2>5. Continue(u)
    BY <1>8, <2>2
  <2> QED BY <1>1, <1>5, <1>6, <2>1, <2>3, <2>4, <2>5, GoingOnIsKept
<1>9. CASE RolledBack(next)
  BY <1>6, <1>9, EndIsKept DEF RolledBack
<1> QED BY <1>2, <1>7, <1>8, <1>9 DEF UndoStep

\* A file is put back, or the rollback has lost it.
LEMMA UndoFileIsKept ==
  ASSUME TypeInv, OriginalInv, UndoFile
  PROVE  OriginalInv'
<1>1. /\ op # NoOp /\ op \in Op /\ op.at = "undo" /\ At("undo") /\ file \in Files /\ Main \in Paths
      /\ UNCHANGED <<kind, env, backups>> /\ KeptInv /\ Safe(op.before[Main], op.mine) /\ Safe(file[Main], mine)
  BY OpIsOp DEF UndoFile, At, TypeInv, Typed, OriginalInv, KeptInv, OpKept, Paths
<1>2. PICK w : w = Head(op.undo)
  OBVIOUS
<1>3. /\ w.path \in Paths /\ w.old = op.before[w.path]
  BY <1>1, <1>2, NextUndo
<1>4. CASE /\ file' = [file EXCEPT ![w.path] = w.old]
           /\ mine' = IF w.path = Main THEN op.mine ELSE mine
           /\ UndoStep(op)
  <2>1. Safe(file'[Main], mine')
    BY <1>1, <1>3, <1>4 DEF Files
  <2>2. Safe(file[Main], mine)'
    BY <1>1, <2>1 DEF Safe, Kept, Own, IsText
  <2>3. SameAs(op, op)
    BY DEF SameAs
  <2> QED BY <1>1, <1>4, <2>2, <2>3, UndoStepIsKept
<1>5. CASE UndoStep([Refused(op) EXCEPT !.failed = TRUE]) /\ UNCHANGED <<file, mine>>
  <2>1. PICK o : o = [Refused(op) EXCEPT !.failed = TRUE]
    OBVIOUS
  <2>2. o \in Op /\ SameAs(op, o) /\ o.undo = op.undo /\ o.at = "undo"
    BY <1>1, <2>1, FailedIsOp
  <2>3. UndoStep(o)
    BY <1>5, <2>1
  <2>4. Safe(file[Main], mine)'
    BY <1>1, <1>5 DEF Safe, Kept, Own, IsText
  <2> QED BY <1>1, <2>2, <2>3, <2>4, UndoStepIsKept
<1> QED BY <1>2, <1>4, <1>5 DEF UndoFile, WrittenBack

\* Every step keeps what the user had.
LEMMA NextIsKept ==
  ASSUME TypeInv, UndoInv, OriginalInv, [Next]_vars
  PROVE  OriginalInv'
<1>1. CASE \E want \in Settings : Point(want) \/ SyncSettings(want)
  BY <1>1, PointIsKept, SyncIsKept
<1>2. CASE Restore
  BY <1>2, RestoreIsKept
<1>3. CASE UndoEnvironment \/ UndoManifest
  <2>1. UNCHANGED <<kind, file, backups, mine>> /\ \E o, result : Answer(o, result)
    BY <1>3 DEF UndoEnvironment, UndoManifest, RolledBack
  <2>2. /\ Safe(file[Main], mine)'
        /\ \A c \in DOMAIN backups' : Safe(backups[c].files[MainAt].original, backups[c].mine)'
    BY <2>1, SystemStaysKept DEF OriginalInv
  <2> QED BY <2>1, <2>2, EndIsKept
<1>4. CASE Operation /\ ~(UndoEnvironment \/ UndoManifest)
  BY <1>4, CreateBackupIsKept, WriteFileIsKept, WriteRefusedIsKept, SetEnvironmentIsKept,
     VerifyIsKept, WriteManifestIsKept, CleanUpIsKept, UndoFileIsKept DEF Operation
<1>5. CASE Crash \/ EditEnvironment
  <2>1. UNCHANGED <<kind, file, backups, mine>> /\ op' = NoOp
    BY <1>5 DEF Crash, EditEnvironment, Edited
  <2>2. /\ Safe(file[Main], mine)'
        /\ \A c \in DOMAIN backups' : Safe(backups[c].files[MainAt].original, backups[c].mine)'
    BY <2>1, SystemStaysKept DEF OriginalInv
  <2>3. KeptInv'
    BY <2>1, <2>2, Zenon DEF KeptInv
  <2> QED BY <2>1, <2>3 DEF OriginalInv, Restoring
<1>6. CASE EditFile
  <2>1. /\ UNCHANGED <<kind, backups>> /\ op' = NoOp /\ file \in Files /\ Main \in Paths /\ KeptInv
    BY <1>6 DEF EditFile, Edited, TypeInv, Typed, Paths, OriginalInv
  <2>2. PICK t \in Texts, own \in {None, Own(file[Main])} :
          /\ file' = [file EXCEPT ![Main] = [text |-> t, own |-> own]]
          /\ mine' = IF own = None THEN [text |-> t, own |-> own] ELSE mine
    BY <1>6 DEF EditFile
  <2>3. PICK c : c = [text |-> t, own |-> own]
    OBVIOUS
  <2>4. c \in Text /\ c.own = own
    BY <2>1, <2>2, <2>3, ContentCases DEF Files, Owners, Text
  <2>5. Own(c) = own /\ file'[Main] = c
    BY <2>1, <2>2, <2>3, <2>4, ContentAssumption DEF Own, IsText, Files
  <2>6. Safe(file[Main], mine)'
    BY <2>1, <2>2, <2>3, <2>5 DEF KeptInv, Safe, Kept, Own, IsText
  <2>7. \A b \in DOMAIN backups' : Safe(backups[b].files[MainAt].original, backups[b].mine)'
    BY <2>1 DEF KeptInv, Safe, Kept, Own, IsText, MainAt
  <2>8. KeptInv'
    BY <2>1, <2>6, <2>7, Zenon DEF KeptInv
  <2> QED BY <2>1, <2>8 DEF OriginalInv, Restoring
<1>7. CASE RefreshModels \/ UNCHANGED vars
  <2>1. UNCHANGED <<kind, file, backups, op, mine>>
    BY <1>7, AsideSteps DEF Aside
  <2>2. KeptInv' <=> KeptInv
    BY <2>1 DEF KeptInv, OpKept, Safe, Kept, Own, IsText, MainAt
  <2>3. Restoring' <=> Restoring
    BY <2>1 DEF Restoring, PutBack, Applied
  <2> QED BY <2>2, <2>3 DEF OriginalInv
<1> QED BY <1>1, <1>2, <1>3, <1>4, <1>5, <1>6, <1>7 DEF Next, Operation

\* In the beginning the user has his file.
LEMMA InitIsKept ==
  ASSUME Init
  PROVE  OriginalInv
<1>1. PICK main \in {NoFile} \cup [text : Texts, own : {None}],
             side \in {NoFile} \cup [text : Texts, own : {None}] :
        /\ file = [p \in Paths |-> CASE p = Main -> main [] p = Side -> side [] OTHER -> NoFile]
        /\ mine = main
  BY DEF Init
<1>2. op = NoOp /\ backups = <<>>
  BY DEF Init
<1>3. DOMAIN backups = {}
  BY <1>2
<1>4. Own(main) = None
  BY <1>1 DEF Own, IsText
<1>5. Safe(file[Main], mine)
  BY <1>1, <1>4, PathsAssumption DEF Safe, Paths
<1> QED BY <1>2, <1>3, <1>5 DEF OriginalInv, KeptInv, Restoring

\* What the user had is part of the invariant.
LEMMA OriginalInductive == Spec => [](TypeInv /\ UndoInv /\ OriginalInv)
<1>1. Init => OriginalInv
  BY InitIsKept
<1>2. TypeInv /\ UndoInv /\ OriginalInv /\ [Next]_vars => OriginalInv'
  BY NextIsKept
<1> QED BY <1>1, <1>2, UndoInductive, PTL DEF Spec

\* The user's own main file is in a backup for as long as the gateway's keys are in it
\* (point.go createBackup before the first write), wherever an operation was refused or
\* the process died.
THEOREM OriginalsAreKept == Spec => []OriginalIsKept
<1>1. OriginalInv => OriginalIsKept
  BY DEF OriginalInv, KeptInv, Safe, Kept, OriginalIsKept
<1> QED BY <1>1, OriginalInductive, PTL

(***************************************************************************)
(* A restore is exact.                                                     *)
(***************************************************************************)

ExactInv == Exact /\ RestoreIsExact

\* Only a restore in progress, or one that succeeds, has anything to show.
LEMMA OthersAreExact ==
  ASSUME EnvFits',
         \/ op' = NoOp /\ (last' = NoOp \/ last'.name # "restore" \/ last'.result # "ok")
         \/ last' = NoOp /\ (op'.name # "restore" \/ op'.at \notin {"write", "env", "finish", "cleanup"})
  PROVE  ExactInv'
<1>1. RestoreIsExact'
  BY DEF RestoreIsExact
<1>2. Exact'
  BY DEF Exact, PutBackSoFar
<1> QED BY <1>1, <1>2 DEF ExactInv

\* The variable and the backups stay as they are.
LEMMA EnvStays ==
  ASSUME EnvFits, UNCHANGED <<kind, env, backups>>
  PROVE  EnvFits'
BY DEF EnvFits

\* An operation that is refused a write and ends says so.
LEMMA AnsweredOtherwise ==
  ASSUME NEW o, NEW result, Answer(o, result), result # "ok" \/ o.name # "restore", EnvFits'
  PROVE  ExactInv'
<1>1. op' = NoOp /\ last'.name = o.name /\ last'.result = result
  BY DEF Answer, Answered
<1> QED BY <1>1, OthersAreExact

\* An operation that goes on, and is no restore that writes.
LEMMA GoesOnOtherwise ==
  ASSUME NEW o, Continue(o), EnvFits',
         o.name # "restore" \/ o.at \notin {"write", "env", "finish", "cleanup"}
  PROVE  ExactInv'
<1>1. op' = o /\ last' = NoOp
  BY DEF Continue
<1> QED BY <1>1, OthersAreExact

\* A rollback is not the way to a success.
LEMMA RollingBackIsExact ==
  ASSUME TypeInv, op # NoOp, NEW quiet \in BOOLEAN, Continue(RollingBack(Refused(op), quiet)), EnvFits'
  PROVE  ExactInv'
<1>1. PICK o : o = RollingBack(Refused(op), quiet)
  OBVIOUS
<1>2. op \in Op /\ Len(op.plan) \in {1, 2}
  BY OpIsOp DEF OpFits
<1>3. o.at = "undo"
  BY <1>1, <1>2, RollingBackIsOp
<1> QED BY <1>1, <1>3, GoesOnOtherwise

\* A restore that goes on has put back what it shows.
LEMMA GoesOnRestoring ==
  ASSUME NEW o, Continue(o), EnvFits', PutBackSoFar'
  PROVE  ExactInv'
<1>1. last' = NoOp
  BY DEF Continue
<1>2. RestoreIsExact'
  BY <1>1 DEF RestoreIsExact
<1> QED BY <1>2 DEF ExactInv, Exact

\* A restore that succeeds has put back everything.
LEMMA AnsweredRestore ==
  ASSUME NEW o, Answer(o, "ok"), EnvFits', NEW b, b = o.backup, kind' # "desktop" => Restored(b)'
  PROVE  ExactInv'
<1>1. op' = NoOp /\ last'.backup = b
  BY DEF Answer, Answered
<1>2. RestoreIsExact'
  BY <1>1 DEF RestoreIsExact, Restored
<1> QED BY <1>1, <1>2 DEF ExactInv, Exact

\* Point and sync are no restores.
LEMMA PointIsExact ==
  ASSUME ExactInv, NEW want \in Settings, Point(want) \/ SyncSettings(want)
  PROVE  ExactInv'
<1>1. EnvFits'
  BY EnvStays DEF ExactInv, Exact, Point, SyncSettings
<1>2. PICK name \in {"point", "sync"} : \E at, plan, fresh, b :
        \/ \E result : Answer(Started(name, want, at, plan, fresh, b), result)
        \/ Continue(Started(name, want, at, plan, fresh, b))
  BY DEF Point, SyncSettings
<1>3. PICK at, plan, fresh, b :
        \/ \E result : Answer(Started(name, want, at, plan, fresh, b), result)
        \/ Continue(Started(name, want, at, plan, fresh, b))
  BY <1>2
<1>4. PICK o : o = Started(name, want, at, plan, fresh, b)
  OBVIOUS
<1>5. o.name # "restore"
  BY <1>2, <1>4 DEF Started
<1> QED BY <1>1, <1>3, <1>4, <1>5, AnsweredOtherwise, GoesOnOtherwise

\* A restore plans every file that is not as it was.
LEMMA RestoreIsStarted ==
  ASSUME TypeInv, ExactInv, Restore
  PROVE  ExactInv'
<1>1. /\ Typed /\ Shaped /\ EnvFits /\ UNCHANGED <<kind, file, env, backups, mine, budget>>
      /\ backups \in Seq(Backup)
  BY DEF TypeInv, Typed, ExactInv, Exact, Restore
<1>2. EnvFits'
  BY <1>1, EnvStays
<1>3. Latest # 0 => Latest \in DOMAIN backups
  BY <1>1, LatestIs
<1>4. CASE \E result \in {"none", "error", "unchanged"} : Answer(Started("restore", None, "write", <<>>, FALSE, Latest), result)
  BY <1>2, <1>4, AnsweredOtherwise
<1>5. CASE Answer(Started("restore", None, "write", <<>>, FALSE, 0), "none")
  BY <1>2, <1>5, AnsweredOtherwise
<1>6. CASE /\ Latest # 0
           /\ Continue(Started("restore", None, "write", RestorePlan(Latest), FALSE, Latest))
  <2>1. PICK b : b = Latest
    OBVIOUS
  <2>2. PICK plan : plan = RestorePlan(b)
    OBVIOUS
  <2>3. b \in DOMAIN backups
    BY <1>3, <1>6, <2>1
  <2>4. /\ plan \in Seq(Entry)
        /\ \A j \in DOMAIN backups[b].files :
             \/ BackAt(backups[b].files[j])
             \/ \E i \in DOMAIN plan : plan[i].path = backups[b].files[j].path
    BY <1>1, <2>2, <2>3, RestorePlanShape
  <2>5. PICK o : o = Started("restore", None, "write", plan, FALSE, b)
    OBVIOUS
  <2>6. /\ o.name = "restore" /\ o.at = "write" /\ o.plan = plan /\ o.backup = b /\ o.done = 0
    BY <2>5 DEF Started
  <2>7. Continue(o) /\ op' = o
    BY <1>6, <2>1, <2>2, <2>5 DEF Continue
  <2>8. (o.done + 1)..Len(o.plan) = DOMAIN plan
    BY <2>4, <2>6
  <2>9. PutBackSoFar'
    BY <1>1, <2>4, <2>6, <2>7, <2>8 DEF PutBackSoFar, BackAt, PutBack, Applied
  <2> QED BY <1>2, <2>7, <2>9, GoesOnRestoring
<1> QED BY <1>4, <1>5, <1>6 DEF Restore

\* A new backup has the variable of its time.
LEMMA CreateBackupIsExact ==
  ASSUME TypeInv, ExactInv, CreateBackup
  PROVE  ExactInv'
<1>1. /\ op # NoOp /\ op.at = "backup" /\ op \in Op /\ op.fresh /\ op.name # "restore" /\ EnvFits
      /\ UNCHANGED <<kind, file, env, mine>>
  BY OpIsOp DEF CreateBackup, At, InPhase, ExactInv, Exact
<1>2. CASE backups' = backups /\ Answer(Refused(op), "error")
  BY <1>1, <1>2, EnvStays, AnsweredOtherwise
<1>3. CASE /\ backups' = Append(backups, BackupOf(op.plan))
           /\ Continue([op EXCEPT !.at = "write"])
  <2>1. PICK b : b = BackupOf(op.plan)
    OBVIOUS
  <2>2. b \in Backup /\ b.env = env
    BY <1>1, <2>1, NewBackup
  <2>3. backups \in Seq(Backup)
    BY DEF TypeInv, Typed
  <2>4. \A i \in DOMAIN backups' : backups'[i] = b \/ (i \in DOMAIN backups /\ backups'[i] = backups[i])
    BY <1>3, <2>1, <2>2, <2>3
  <2>5. EnvFits'
    BY <1>1, <2>2, <2>4 DEF EnvFits
  <2>6. PICK o : o = [op EXCEPT !.at = "write"]
    OBVIOUS
  <2>7. o.name # "restore"
    BY <1>1, <2>6 DEF Op
  <2> QED BY <1>3, <2>5, <2>6, <2>7, GoesOnOtherwise
<1> QED BY <1>2, <1>3 DEF CreateBackup

\* Another file of the backup is put back.
LEMMA WriteFileIsExact ==
  ASSUME TypeInv, OriginalInv, ExactInv, WriteFile
  PROVE  ExactInv'
<1>1. /\ op # NoOp /\ op.at = "write" /\ op \in Op /\ At("write") /\ file \in Files /\ EnvFits
      /\ op.done \in Nat /\ UNCHANGED <<kind, env, backups, budget>>
  BY OpIsOp, OpFields DEF WriteFile, At, TypeInv, Typed, ExactInv, Exact
<1>2. EnvFits'
  BY <1>1, EnvStays
<1>3. PICK w : w = op.plan[op.done + 1]
  OBVIOUS
<1>4. /\ op.done + 1 \in DOMAIN op.plan /\ DOMAIN op.plan = 1..Len(op.plan) /\ w.path \in Paths
  BY <1>1, <1>3, NextWrite
<1>5. PICK n \in Nat : n = op.done + 1
  BY <1>1
<1>6. PICK at : at = IF n = Len(op.plan) THEN AfterWrites ELSE op.at
  OBVIOUS
<1>7. PICK o : o = [op EXCEPT !.done = n, !.at = at]
  OBVIOUS
<1>8. o.name = op.name /\ o.plan = op.plan /\ o.backup = op.backup /\ o.done = n /\ o.at = at
  BY <1>1, <1>7 DEF Op
<1>9. Continue(o) /\ op' = o
  BY <1>1, <1>5, <1>6, <1>7 DEF WriteFile, Continue, Op
<1>10. CASE op.name # "restore"
  BY <1>2, <1>8, <1>9, <1>10, GoesOnOtherwise
<1>11. CASE op.name = "restore"
  <2>1. PICK b \in DOMAIN backups : b = op.backup
    BY <1>1, <1>11, OpIsOp DEF InPhase, WithBackup
  <2>2. PICK files : files = backups[b].files
    OBVIOUS
  <2>3. \A j \in DOMAIN files : files[j].path \in Paths
    BY <2>1, <2>2, BackupFiles DEF TypeInv
  <2>4. \A j \in DOMAIN files :
          \/ BackAt(files[j])
          \/ \E i \in n..Len(op.plan) : op.plan[i].path = files[j].path
    BY <1>1, <1>5, <1>11, <2>1, <2>2 DEF ExactInv, Exact, PutBackSoFar
  <2>5. \A p \in Paths : file'[p] = IF p = w.path THEN w.next ELSE file[p]
    BY <1>1, <1>3, <1>4 DEF WriteFile, Files
  <2>6. ASSUME NEW j \in DOMAIN files
        PROVE  \/ BackAt(files[j])'
               \/ \E i \in (n + 1)..Len(op.plan) : op.plan[i].path = files[j].path
    <3>1. CASE files[j].path = w.path
      <4>1. PutBack(files[j].original, w.next)
        BY <1>1, <1>3, <1>4, <1>11, <2>1, <2>2, <3>1 DEF OriginalInv, Restoring
      <4> QED BY <1>1, <2>3, <2>5, <3>1, <4>1 DEF BackAt, PutBack, Applied
    <3>2. CASE files[j].path # w.path /\ BackAt(files[j])
      BY <1>1, <2>3, <2>5, <3>2 DEF BackAt, PutBack, Applied
    <3>3. CASE files[j].path # w.path /\ \E i \in n..Len(op.plan) : op.plan[i].path = files[j].path
      <4>1. PICK i \in n..Len(op.plan) : op.plan[i].path = files[j].path
        BY <3>3
      <4>2. i # n
        BY <1>3, <1>5, <3>3, <4>1
      <4>3. i \in (n + 1)..Len(op.plan)
        BY <4>1, <4>2
      <4> QED BY <4>1, <4>3
    <3> QED BY <2>4, <3>1, <3>2, <3>3
  <2>7. CASE n # Len(op.plan)
    <3>1. at = "write"
      BY <1>1, <1>6, <2>7
    <3> QED BY <1>1, <1>2, <1>8, <1>9, <2>1, <2>2, <2>6, <3>1, GoesOnRestoring DEF PutBackSoFar
  <2>8. CASE n = Len(op.plan)
    <3>1. at = IF kind = "codex" THEN "env" ELSE "finish"
      <4>1. op.fresh \in BOOLEAN
        BY <1>1, OpFields
      <4>2. AfterWrites = IF kind = "codex" THEN "env" ELSE "finish"
        BY <1>11, <4>1, Zenon DEF AfterWrites
      <4> QED BY <1>6, <2>8, <4>2
    <3>2. (n + 1)..Len(op.plan) = {}
      BY <2>8
    <3>3. \A j \in DOMAIN files : BackAt(files[j])'
      BY <2>6, <3>2
    <3>4. at = "finish" => env = backups[b].env
      BY <1>1, <2>1, <3>1 DEF EnvFits
    <3> QED BY <1>1, <1>2, <1>8, <1>9, <2>1, <2>2, <3>1, <3>3, <3>4, GoesOnRestoring DEF PutBackSoFar
  <2> QED BY <2>7, <2>8
<1> QED BY <1>10, <1>11

\* The variable is the last thing of codex that a restore puts back.
LEMMA SetEnvironmentIsExact ==
  ASSUME TypeInv, ExactInv, SetEnvironment
  PROVE  ExactInv'
<1>1. /\ op # NoOp /\ op.at = "env" /\ op \in Op /\ kind = "codex"
      /\ UNCHANGED <<kind, file, backups, mine>>
  BY OpIsOp DEF SetEnvironment, At, InPhase
<1>2. EnvFits'
  BY <1>1 DEF EnvFits
<1>3. CASE Continue(RollingBack(Refused(op), FALSE))
  BY <1>1, <1>2, <1>3, RollingBackIsExact
<1>4. CASE /\ env' = IF op.name = "restore" THEN backups[op.backup].env ELSE "placeholder"
           /\ Continue([op EXCEPT !.at = IF op.name = "restore" THEN "finish" ELSE "verify"])
  <2>1. PICK at : at = IF op.name = "restore" THEN "finish" ELSE "verify"
    OBVIOUS
  <2>2. PICK o : o = [op EXCEPT !.at = at]
    OBVIOUS
  <2>3. o.name = op.name /\ o.backup = op.backup /\ o.at = at
    BY <1>1, <2>2 DEF Op
  <2>4. Continue(o) /\ op' = o
    BY <1>4, <2>1, <2>2 DEF Continue
  <2>5. CASE op.name # "restore"
    BY <1>2, <2>3, <2>4, <2>5, GoesOnOtherwise
  <2>6. CASE op.name = "restore"
    <3>1. \A j \in DOMAIN backups[op.backup].files : BackAt(backups[op.backup].files[j])
      BY <1>1, <2>6 DEF ExactInv, Exact, PutBackSoFar
    <3>2. PutBackSoFar'
      BY <1>1, <1>4, <2>1, <2>3, <2>4, <2>6, <3>1 DEF PutBackSoFar, BackAt, PutBack, Applied
    <3> QED BY <1>2, <2>4, <3>2, GoesOnRestoring
  <2> QED BY <2>5, <2>6
<1> QED BY <1>3, <1>4 DEF SetEnvironment

\* Everything is back once the manifest is marked.
LEMMA WriteManifestIsExact ==
  ASSUME TypeInv, ExactInv, WriteManifest
  PROVE  ExactInv'
<1>1. /\ op # NoOp /\ op.at = "finish" /\ op \in Op /\ op.backup \in DOMAIN backups /\ SystemFits
      /\ UNCHANGED <<kind, file, env, mine>> /\ EnvFits
  BY OpIsOp, SystemIsFit DEF WriteManifest, At, InPhase, ExactInv, Exact
<1>2. CASE Continue(RollingBack(Refused(op), FALSE)) /\ UNCHANGED backups
  <2>1. EnvFits'
    BY <1>1, <1>2, EnvStays
  <2> QED BY <1>1, <1>2, <2>1, RollingBackIsExact
<1>3. CASE /\ backups' = [backups EXCEPT ![op.backup] = Marked(@, op.name)]
           /\ IF op.name = "restore" /\ kind = "codex"
                THEN Continue([op EXCEPT !.at = "cleanup"])
                ELSE Answer(op, "ok")
  <2>1. PICK b \in DOMAIN backups : b = op.backup
    BY <1>1
  <2>2. /\ DOMAIN backups' = DOMAIN backups
        /\ \A c \in DOMAIN backups : backups'[c].files = backups[c].files /\ backups'[c].env = backups[c].env
    <3>1. PICK name : name = op.name
      OBVIOUS
    <3>2. backups' = [backups EXCEPT ![b] = Marked(@, name)]
      BY <1>3, <2>1, <3>1
    <3> QED BY <1>1, <3>2, MarkedFits
  <2>3. EnvFits'
    BY <1>1, <2>2 DEF EnvFits
  <2>4. CASE op.name # "restore"
    BY <1>3, <2>3, <2>4, AnsweredOtherwise
  <2>5. ASSUME op.name = "restore"
        PROVE  /\ \A j \in DOMAIN backups[b].files : BackAt(backups[b].files[j])
               /\ env = backups[b].env
    BY <1>1, <2>1, <2>5 DEF ExactInv, Exact, PutBackSoFar
  <2>6. CASE op.name = "restore" /\ kind = "codex"
    <3>1. PICK o : o = [op EXCEPT !.at = "cleanup"]
      OBVIOUS
    <3>2. o.at = "cleanup" /\ o.backup = b
      BY <1>1, <2>1, <3>1 DEF Op
    <3>3. Continue(o) /\ op' = o
      BY <1>3, <2>6, <3>1 DEF Continue
    <3>4. PutBackSoFar'
      BY <1>1, <2>1, <2>2, <2>5, <2>6, <3>2, <3>3 DEF PutBackSoFar, BackAt, PutBack, Applied
    <3> QED BY <2>3, <3>3, <3>4, GoesOnRestoring
  <2>7. CASE op.name = "restore" /\ kind # "codex"
    <3>1. kind' # "desktop" => Restored(b)'
      BY <1>1, <2>1, <2>2, <2>5, <2>7 DEF Restored, BackAt, PutBack, Range
    <3>2. Answer(op, "ok")
      BY <1>3, <2>7
    <3> QED BY <2>1, <2>3, <3>1, <3>2, AnsweredRestore
  <2> QED BY <2>4, <2>6, <2>7
<1> QED BY <1>2, <1>3 DEF WriteManifest

\* A catalog that the restored file does not name goes.
LEMMA CleanUpIsExact ==
  ASSUME TypeInv, ExactInv, CleanUp
  PROVE  ExactInv'
<1>1. /\ op # NoOp /\ op.at = "cleanup" /\ op \in Op /\ op.name = "restore" /\ kind = "codex" /\ file \in Files
      /\ UNCHANGED <<kind, env, backups, mine>> /\ EnvFits /\ op.backup \in DOMAIN backups
  BY OpIsOp DEF CleanUp, At, InPhase, WithBackup, TypeInv, Typed, ExactInv, Exact
<1>2. EnvFits'
  BY <1>1, EnvStays
<1>3. PICK b \in DOMAIN backups : b = op.backup
  BY <1>1
<1>4. /\ \A j \in DOMAIN backups[b].files : file[backups[b].files[j].path] = backups[b].files[j].original
      /\ env = backups[b].env
  BY <1>1, <1>3 DEF ExactInv, Exact, PutBackSoFar, BackAt, PutBack
<1>5. \A j \in DOMAIN backups[b].files : backups[b].files[j].path \in Paths
  BY BackupFiles DEF TypeInv
<1>6. /\ Main \in Paths /\ Side \in Paths /\ Main # Side
  BY PathsAssumption DEF Paths
<1>7. /\ file'[Main] = file[Main]
      /\ \A p \in Paths : file'[p] = file[p] \/ (p = Side /\ Own(file[Main]) = None /\ file'[p] = NoFile)
  BY <1>1, <1>6 DEF CleanUp, Files
<1>8. ASSUME NEW f \in Range(backups[b].files)
      PROVE  \/ file'[f.path] = f.original
             \/ f.path = Side /\ Own(file'[Main]) = None /\ file'[Side] = NoFile
  BY <1>4, <1>5, <1>7, <1>8 DEF Range
<1>9. Restored(b)'
  BY <1>1, <1>4, <1>8 DEF Restored, Own, IsText
<1>10. PICK o : o.backup = b /\ Answer(o, "ok")
  <2>1. Refused(op).backup = op.backup
    BY <1>1, RefusedIsOp DEF SameAs
  <2> QED BY <1>3, <2>1 DEF CleanUp
<1> QED BY <1>2, <1>9, <1>10, AnsweredRestore

\* The next step of a rollback.
LEMMA UndoStepIsExact ==
  ASSUME TypeInv, ExactInv, At("undo"), NEW o \in Op, o.undo = op.undo, o.at = "undo",
         UndoStep(o), UNCHANGED <<kind, env, backups>>
  PROVE  ExactInv'
<1>1. op.undo # <<>> /\ EnvFits
  BY OpIsOp DEF At, InPhase, ExactInv, Exact
<1>2. EnvFits'
  BY <1>1, EnvStays
<1>3. PICK next : next = [o EXCEPT !.undo = Tail(@)]
  OBVIOUS
<1>4. next \in Op /\ next.at = "undo"
  BY <1>1, <1>3, TailIsOp
<1>5. CASE Continue(next)
  BY <1>2, <1>4, <1>5, GoesOnOtherwise
<1>6. CASE AfterUndo # "undo" /\ Continue([next EXCEPT !.at = AfterUndo])
  <2>1. AfterUndo \in {"undoEnv", "undoManifest"}
    BY <1>6 DEF AfterUndo
  <2>2. PICK u : u = [next EXCEPT !.at = AfterUndo]
    OBVIOUS
  <2>3. u.at = AfterUndo
    BY <1>4, <2>2 DEF Op
  <2> QED BY <1>2, <1>6, <2>1, <2>2, <2>3, GoesOnOtherwise
<1>7. CASE RolledBack(next)
  BY <1>2, <1>7, AnsweredOtherwise DEF RolledBack
<1> QED BY <1>3, <1>5, <1>6, <1>7 DEF UndoStep

\* A file is put back, or the rollback has lost it.
LEMMA UndoFileIsExact ==
  ASSUME TypeInv, ExactInv, UndoFile
  PROVE  ExactInv'
<1>1. /\ op # NoOp /\ op \in Op /\ op.at = "undo" /\ At("undo")
      /\ UNCHANGED <<kind, env, backups>>
  BY OpIsOp DEF UndoFile, At
<1>2. CASE UndoStep(op)
  BY <1>1, <1>2, UndoStepIsExact
<1>3. CASE UndoStep([Refused(op) EXCEPT !.failed = TRUE])
  <2>1. PICK o : o = [Refused(op) EXCEPT !.failed = TRUE]
    OBVIOUS
  <2>2. o \in Op /\ o.undo = op.undo /\ o.at = "undo"
    BY <1>1, <2>1, FailedIsOp
  <2>3. UndoStep(o)
    BY <1>3, <2>1
  <2> QED BY <1>1, <2>2, <2>3, UndoStepIsExact
<1> QED BY <1>2, <1>3 DEF UndoFile

\* Every step keeps what a restore has to show.
LEMMA NextIsExact ==
  ASSUME TypeInv, UndoInv, OriginalInv, ExactInv, [Next]_vars
  PROVE  ExactInv'
<1> USE DEF RolledBack
<1>1. CASE \E want \in Settings : Point(want) \/ SyncSettings(want)
  BY <1>1, PointIsExact
<1>2. CASE Restore
  BY <1>2, RestoreIsStarted
<1>3. CASE CreateBackup \/ WriteFile \/ SetEnvironment \/ WriteManifest \/ CleanUp \/ UndoFile
  BY <1>3, CreateBackupIsExact, WriteFileIsExact, SetEnvironmentIsExact, WriteManifestIsExact,
     CleanUpIsExact, UndoFileIsExact
<1>4. CASE WriteRefused
  <2>1. op # NoOp /\ EnvFits'
    BY <1>4, EnvStays DEF WriteRefused, At, ExactInv, Exact
  <2>2. CASE Answer(Refused(op), "error")
    BY <2>1, <2>2, AnsweredOtherwise
  <2>3. CASE Continue(RollingBack(Refused(op), TRUE))
    BY <2>1, <2>3, RollingBackIsExact
  <2> QED BY <1>4, <2>2, <2>3 DEF WriteRefused
<1>5. CASE Verify
  <2>1. op # NoOp /\ op \in Op /\ op.name # "restore" /\ EnvFits'
    BY <1>5, OpIsOp, EnvStays DEF Verify, At, InPhase, ExactInv, Exact
  <2>2. CASE Answer(op, "ok")
    BY <2>1, <2>2, AnsweredOtherwise
  <2>3. CASE Continue(RollingBack(Refused(op), FALSE))
    BY <2>1, <2>3, RollingBackIsExact
  <2>4. CASE Continue([op EXCEPT !.at = "finish"])
    <3>1. PICK o : o = [op EXCEPT !.at = "finish"]
      OBVIOUS
    <3>2. o.name # "restore"
      BY <2>1, <3>1 DEF Op
    <3> QED BY <2>1, <2>4, <3>1, <3>2, GoesOnOtherwise
  <2> QED BY <1>5, <2>2, <2>3, <2>4 DEF Verify
<1>6. CASE UndoEnvironment
  <2>1. /\ UNCHANGED <<kind, file, backups, mine>> /\ EnvFits /\ op # NoOp
        /\ \E o : \E result \in {"error", "partial"} : Answer(o, result)
    BY <1>6 DEF UndoEnvironment, At, ExactInv, Exact
  <2>2. kind # "codex" => env = op.oldEnv
    BY <2>1 DEF UndoInv, Undoable
  <2>3. env' = env \/ env' = op.oldEnv
    BY <1>6 DEF UndoEnvironment
  <2>4. EnvFits'
    BY <2>1, <2>2, <2>3 DEF EnvFits
  <2> QED BY <2>1, <2>4, AnsweredOtherwise
<1>7. CASE UndoManifest
  <2>1. \E o : \E result \in {"error", "partial"} : Answer(o, result)
    BY <1>7 DEF UndoManifest
  <2>2. EnvFits'
    BY <1>7, EnvStays DEF UndoManifest, ExactInv, Exact
  <2> QED BY <2>1, <2>2, AnsweredOtherwise
<1>8. CASE Crash \/ EditFile \/ EditEnvironment
  <2>1. EnvFits' /\ op' = NoOp /\ last' = NoOp
    BY <1>8 DEF Crash, EditFile, EditEnvironment, Edited, EnvFits, ExactInv, Exact
  <2> QED BY <2>1, OthersAreExact
<1>9. CASE RefreshModels \/ UNCHANGED vars
  <2>1. UNCHANGED <<kind, file, env, backups, op, last, mine>>
    BY <1>9, AsideSteps DEF Aside
  <2>2. Exact' <=> Exact
    BY <2>1 DEF Exact, EnvFits, PutBackSoFar, BackAt, PutBack, Applied
  <2>3. RestoreIsExact' <=> RestoreIsExact
    BY <2>1 DEF RestoreIsExact, Restored, Own, IsText
  <2> QED BY <2>2, <2>3 DEF ExactInv
<1> QED BY <1>1, <1>2, <1>3, <1>4, <1>5, <1>6, <1>7, <1>8, <1>9 DEF Next, Operation

\* What a restore has put back is part of the invariant.
LEMMA ExactInductive == Spec => [](TypeInv /\ UndoInv /\ OriginalInv /\ ExactInv)
<1>1. Init => ExactInv
  BY DEF Init, ExactInv, Exact, EnvFits, RestoreIsExact
<1>2. TypeInv /\ UndoInv /\ OriginalInv /\ ExactInv /\ [Next]_vars => ExactInv'
  BY NextIsExact
<1> QED BY <1>1, <1>2, OriginalInductive, PTL DEF Spec

\* A restore that succeeds has put back every file and the variable as they were when the
\* point it undoes began (point.go Restore, files.go restoreFile); a codex catalog that
\* the file does not name is removed (cleanupUnreferencedCodexCatalog).
THEOREM RestoresAreExact == Spec => []RestoreIsExact
<1>1. ExactInv => RestoreIsExact
  BY DEF ExactInv
<1> QED BY <1>1, ExactInductive, PTL

(***************************************************************************)
(* A client that points at the gateway can be restored.                    *)
(***************************************************************************)

\* What owns the configuration is in its files.
LEMMA ManagedIsOfFiles ==
  Managed <=> ManagedIn(file)
BY DEF Managed, ManagedIn, SettingsPath

\* A step that leaves the client and the backups alone.
LEMMA BackupsAlone ==
  ASSUME kind' = kind, backups' = backups
  PROVE  /\ SomeAvailable' <=> SomeAvailable
         /\ OriginalsFit' <=> OriginalsFit
         /\ \A f : ManagedIn(f)' <=> ManagedIn(f)
BY DEF SomeAvailable, Available, OriginalsFit, ManagedIn, MainAt, Own, IsText

\* An operation that ends.
LEMMA EndIsRestorable ==
  ASSUME TypeInv, NEW o \in Op, NEW result, Answer(o, result),
         ~broken /\ ~o.failed => OriginalsFit' /\ IdleFits'
  PROVE  Restorable'
<1>1. op' = NoOp /\ broken' = (broken \/ o.failed)
  BY DEF Answer
<1>2. broken \in BOOLEAN /\ o.failed \in BOOLEAN
  BY OpFields DEF TypeInv, Typed
<1>3. ~broken' => ~broken /\ ~o.failed
  BY <1>1, <1>2, Zenon
<1> QED BY <1>1, <1>3, Zenon DEF Restorable

\* An operation that ends where it started.
LEMMA BackToBefore ==
  ASSUME TypeInv, Restorable, op # NoOp, op.at # "cleanup", NEW o \in Op, NEW result, Answer(o, result),
         ~o.failed => file' = op.before, kind' = kind, backups' = backups
  PROVE  Restorable'
<1>1. ASSUME ~broken, ~o.failed
      PROVE  OriginalsFit' /\ IdleFits'
  <2>1. OriginalsFit'
    BY <1>1, BackupsAlone DEF Restorable
  <2>2. PICK f : f = op.before
    OBVIOUS
  <2>3. Own(f[Main]) # None => SomeAvailable' /\ ManagedIn(f)'
    BY <1>1, <2>2, BackupsAlone DEF Restorable, BeforeFits
  <2>4. IdleFits'
    BY <1>1, <2>2, <2>3 DEF IdleFits, ManagedIn, Own, IsText
  <2> QED BY <2>1, <2>4
<1> QED BY <1>1, EndIsRestorable

\* A point or a restore in progress.
LEMMA GoingOnIsRestorable ==
  ASSUME TypeInv, Restorable, op # NoOp, op.at \notin {"backup", "cleanup"}, NEW o \in Op, Continue(o), SameAs(op, o),
         o.at \notin {"backup", "cleanup"}, kind' = kind, backups' = backups,
         o.fresh /\ o.at = "finish" => ManagedIn(file)'
  PROVE  Restorable'
<1>1. op' = o /\ broken' = broken
  BY DEF Continue
<1>2. /\ o.name = op.name /\ o.fresh = op.fresh /\ o.backup = op.backup /\ o.before = op.before
  BY DEF SameAs
<1>3. PICK f : f = op.before
  OBVIOUS
<1>4. ASSUME ~broken
      PROVE  OriginalsFit' /\ BeforeFits'
  <2>1. OriginalsFit' /\ (Own(f[Main]) # None => SomeAvailable' /\ ManagedIn(f)')
    BY <1>3, <1>4, BackupsAlone DEF Restorable, BeforeFits
  <2>2. op.fresh /\ kind = "desktop" => Own(f[Main]) = None
    BY <1>3, <1>4 DEF Restorable, BeforeFits
  <2>3. BeforeFits'
    BY <1>1, <1>2, <1>3, <2>1, <2>2 DEF BeforeFits, ManagedIn, Own, IsText
  <2> QED BY <2>1, <2>3
<1>5. PointFits'
  BY <1>1, <1>2 DEF Restorable, PointFits, MainAt, Own, IsText
<1>6. op' # NoOp
  BY <1>1, NoOpAssumption
<1> QED BY <1>1, <1>4, <1>5, <1>6, Zenon DEF Restorable

\* An operation that starts.
LEMMA StartIsRestorable ==
  ASSUME TypeInv, Restorable, op = NoOp,
         NEW name \in {"point", "sync", "restore"}, NEW want \in Settings \cup {None},
         NEW at \in {"backup", "write"}, NEW plan \in Seq(Entry), NEW fresh \in BOOLEAN, NEW b \in 0..MaxPoints,
         UNCHANGED <<kind, file, env, backups, mine, budget>>,
         \/ \E result : Answer(Started(name, want, at, plan, fresh, b), result)
         \/ /\ Continue(Started(name, want, at, plan, fresh, b))
            /\ ~fresh /\ name # "restore" => Managed
            /\ fresh => at = "backup" /\ ~InPlace
  PROVE  Restorable'
<1>1. PICK o : o = Started(name, want, at, plan, fresh, b)
  OBVIOUS
<1>2. o \in Op
  <2>1. at \in Steps /\ Typed
    BY DEF Steps, TypeInv
  <2> QED BY <1>1, <2>1, StartedIsOp
<1>3. /\ o.name = name /\ o.at = at /\ o.fresh = fresh /\ o.before = file /\ o.failed = FALSE
  BY <1>1 DEF Started
<1>4. PICK f : f = file
  OBVIOUS
<1>5. ~broken => /\ OriginalsFit' /\ (Own(f[Main]) # None => SomeAvailable' /\ ManagedIn(f)')
                 /\ Own(f[Main]) # None => ManagedIn(f)
  BY <1>4, BackupsAlone DEF Restorable, IdleFits
<1>6. CASE \E result : Answer(o, result)
  <2>1. ~broken => IdleFits'
    BY <1>4, <1>5 DEF IdleFits, ManagedIn, Own, IsText
  <2> QED BY <1>2, <1>5, <1>6, <2>1, EndIsRestorable
<1>7. CASE /\ Continue(o)
           /\ ~fresh /\ name # "restore" => Managed
           /\ fresh => at = "backup" /\ ~InPlace
  <2>1. op' = o /\ broken' = broken
    BY <1>7 DEF Continue
  <2>2. ~broken /\ fresh /\ kind = "desktop" => Own(f[Main]) = None
    BY <1>4, <1>5, <1>7, ManagedIsOfFiles DEF InPlace, EnvReady
  <2>3. ~broken => BeforeFits'
    BY <1>3, <1>4, <1>5, <2>1, <2>2 DEF BeforeFits, ManagedIn, Own, IsText
  <2>4. PointFits'
    BY <1>3, <1>7, <2>1 DEF PointFits, Managed, Own, IsText
  <2>5. op' # NoOp
    BY <1>2, <2>1, NoOpAssumption
  <2> QED BY <1>5, <2>1, <2>3, <2>4, <2>5, Zenon DEF Restorable
<1> QED BY <1>1, <1>6, <1>7

\* Point.
LEMMA PointIsRestorable ==
  ASSUME TypeInv, Restorable, NEW want \in Settings, Point(want)
  PROVE  Restorable'
<1>1. /\ Typed /\ Shaped /\ want \in Settings \cup {None} /\ op = NoOp
      /\ UNCHANGED <<kind, file, env, backups, mine, budget>>
      /\ Len(backups) \in Nat /\ MaxPoints \in Nat /\ 0 \in 0..MaxPoints /\ <<>> \in Seq(Entry)
  BY BoundsAssumption DEF TypeInv, Typed, Point
<1>2. CASE \E result : Answer(Started("point", want, "write", <<>>, FALSE, 0), result)
  BY <1>1, <1>2, StartIsRestorable
<1>3. CASE InPlace /\ Continue(Started("point", want, "write", PlanOf(want), FALSE, 0))
  <2>1. PlanOf(want) \in Seq(Entry)
    BY <1>1, <1>3, PlanOfShape
  <2>2. Managed
    BY <1>3 DEF InPlace
  <2> QED BY <1>1, <1>3, <2>1, <2>2, StartIsRestorable
<1>4. CASE /\ ~InPlace
           /\ Len(backups) < MaxPoints
           /\ Continue(Started("point", want, "backup", PlanOf(want), TRUE, Len(backups) + 1))
  <2>1. PlanOf(want) \in Seq(Entry) /\ Len(backups) + 1 \in 0..MaxPoints
    BY <1>1, <1>4, PlanOfShape
  <2> QED BY <1>1, <1>4, <2>1, StartIsRestorable
<1> QED BY <1>2, <1>3, <1>4 DEF Point

\* Synchronisation.
LEMMA SyncIsRestorable ==
  ASSUME TypeInv, Restorable, NEW want \in Settings, SyncSettings(want)
  PROVE  Restorable'
<1>1. /\ Typed /\ Shaped /\ want \in Settings \cup {None} /\ InPlace /\ Managed /\ op = NoOp
      /\ UNCHANGED <<kind, file, env, backups, mine, budget>>
      /\ \/ Continue(Started("sync", want, "write", PlanOf(want), FALSE, 0))
         \/ Answer(Started("sync", want, "write", <<>>, FALSE, 0), "error")
  BY DEF TypeInv, SyncSettings, InPlace
<1>2. 0 \in 0..MaxPoints
  BY BoundsAssumption
<1>3. PlanOf(want) \in Seq(Entry) /\ <<>> \in Seq(Entry)
  BY <1>1, PlanOfShape
<1> QED BY <1>1, <1>2, <1>3, StartIsRestorable

\* Restore.
LEMMA RestoreIsRestorable ==
  ASSUME TypeInv, Restorable, Restore
  PROVE  Restorable'
<1>1. /\ Typed /\ Shaped /\ None \in Settings \cup {None} /\ <<>> \in Seq(Entry) /\ op = NoOp
      /\ UNCHANGED <<kind, file, env, backups, mine, budget>>
      /\ backups \in Seq(Backup) /\ Len(backups) <= MaxPoints /\ MaxPoints \in Nat
  BY BoundsAssumption DEF TypeInv, Typed, Shaped, BackupsFit, Restore
<1>2. Latest \in 0..MaxPoints /\ (Latest # 0 => Latest \in DOMAIN backups)
  BY <1>1, LatestIs
<1>3. CASE \E result : Answer(Started("restore", None, "write", <<>>, FALSE, Latest), result)
  BY <1>1, <1>2, <1>3, StartIsRestorable
<1>4. CASE /\ Latest # 0
           /\ Continue(Started("restore", None, "write", RestorePlan(Latest), FALSE, Latest))
  <2>1. RestorePlan(Latest) \in Seq(Entry)
    BY <1>1, <1>2, <1>4, RestorePlanShape
  <2> QED BY <1>1, <1>2, <1>4, <2>1, StartIsRestorable
<1> QED BY <1>3, <1>4 DEF Restore

\* The backup of a point is no use to a restore before the point is complete.
LEMMA CreateBackupIsRestorable ==
  ASSUME TypeInv, UndoInv, Restorable, CreateBackup
  PROVE  Restorable'
<1>1. /\ op # NoOp /\ op.at = "backup" /\ op \in Op /\ op.fresh /\ op.backup = Len(backups) + 1
      /\ UNCHANGED <<kind, file, env, mine>> /\ file = op.before
  BY OpIsOp DEF CreateBackup, At, InPhase, UndoInv, Undoable
<1>2. CASE backups' = backups /\ Answer(Refused(op), "error")
  <2>1. PICK o \in Op : o = Refused(op)
    BY <1>1, RefusedIsOp
  <2> QED BY <1>1, <1>2, <2>1, BackToBefore
<1>3. CASE /\ backups' = Append(backups, BackupOf(op.plan))
           /\ Continue([op EXCEPT !.at = "write"])
  <2>1. PICK o : o = [op EXCEPT !.at = "write"]
    OBVIOUS
  <2>2. o \in Op /\ SameAs(op, o) /\ o.at = "write"
    <3>1. "write" \in Steps
      BY DEF Steps
    <3> QED BY <1>1, <2>1, <3>1, NextStepIsOp
  <2>3. op' = o /\ broken' = broken /\ op' # NoOp
    BY <1>3, <2>1, <2>2, NoOpAssumption DEF Continue
  <2>4. PICK b : b = BackupOf(op.plan)
    OBVIOUS
  <2>5. /\ b \in Backup /\ ~b.completed /\ ~b.restored /\ Whole(b.files)
        /\ \A i \in DOMAIN b.files :
             b.files[i].path = op.plan[i].path /\ b.files[i].original = op.before[op.plan[i].path]
    BY <1>1, <2>4, NewBackup
  <2>6. PICK n \in Nat : n = Len(backups) /\ backups \in Seq(Backup) /\ DOMAIN backups = 1..n
    BY DEF TypeInv, Typed
  <2>7. /\ DOMAIN backups' = 1..(n + 1) /\ Len(backups') = n + 1
        /\ backups'[n + 1] = b /\ \A i \in 1..n : backups'[i] = backups[i]
    BY <1>3, <2>4, <2>5, <2>6
  <2>8. b.files[MainAt].original = op.before[Main]
    <3>1. b.files \in Seq([path : Paths, original : Content])
      BY <2>5 DEF Backup
    <3>2. MainAt \in DOMAIN b.files /\ b.files[MainAt].path = Main
      BY <2>5, <3>1 DEF Whole, MainAt
    <3> QED BY <2>5, <3>2
  <2>9. PointFits'
    BY <1>1, <2>2, <2>3, <2>5, <2>6, <2>7, <2>8 DEF PointFits, SameAs, MainAt
  <2>10. \A i \in 1..(n + 1) : Available(i)' <=> (i \in 1..n /\ Available(i))
    BY <2>5, <2>7 DEF Available
  <2>11. SomeAvailable => SomeAvailable'
    BY <2>6, <2>7, <2>10 DEF SomeAvailable
  <2>12. OriginalsFit => OriginalsFit'
    BY <1>1, <2>6, <2>7, <2>10 DEF OriginalsFit, MainAt, Own, IsText
  <2>13. BeforeFits => BeforeFits'
    BY <1>1, <2>2, <2>3, <2>11 DEF BeforeFits, SameAs, ManagedIn, Own, IsText
  <2> QED BY <1>1, <2>3, <2>9, <2>12, <2>13, Zenon DEF Restorable
<1> QED BY <1>2, <1>3 DEF CreateBackup

\* A rollback starts.
LEMMA RollingBackIsRestorable ==
  ASSUME TypeInv, Restorable, op # NoOp, op.at \notin {"backup", "cleanup"}, NEW quiet \in BOOLEAN,
         Continue(RollingBack(Refused(op), quiet)), UNCHANGED <<kind, backups>>
  PROVE  Restorable'
<1>1. PICK o : o = RollingBack(Refused(op), quiet)
  OBVIOUS
<1>2. op \in Op /\ Len(op.plan) \in {1, 2}
  BY OpIsOp DEF OpFits
<1>3. o \in Op /\ SameAs(op, o) /\ o.at = "undo"
  BY <1>1, <1>2, RollingBackIsOp
<1>4. Continue(o)
  BY <1>1
<1> QED BY <1>3, <1>4, GoingOnIsRestorable

\* The next step of an operation that changes neither files nor backups.
LEMMA AdvanceIsRestorable ==
  ASSUME TypeInv, Restorable, op # NoOp, op.at \notin {"backup", "cleanup"},
         NEW at \in {"env", "verify", "finish"}, Continue([op EXCEPT !.at = at]),
         UNCHANGED <<kind, file, backups>>, op.fresh /\ at = "finish" => Managed
  PROVE  Restorable'
<1>1. PICK o : o = [op EXCEPT !.at = at]
  OBVIOUS
<1>2. op \in Op /\ at \in Steps
  BY OpIsOp DEF Steps
<1>3. o \in Op /\ SameAs(op, o) /\ o.at = at
  BY <1>1, <1>2, NextStepIsOp
<1>4. Managed => ManagedIn(file)'
  BY DEF Managed, ManagedIn, SettingsPath, Own, IsText
<1>5. o.fresh /\ o.at = "finish" => ManagedIn(file)'
  BY <1>3, <1>4 DEF SameAs
<1>6. Continue(o)
  BY <1>1
<1> QED BY <1>3, <1>5, <1>6, GoingOnIsRestorable

\* A file is written.
LEMMA WriteFileIsRestorable ==
  ASSUME TypeInv, Restorable, WriteFile
  PROVE  Restorable'
<1>1. /\ op # NoOp /\ op.at = "write" /\ op \in Op /\ At("write") /\ op.done \in Nat
      /\ UNCHANGED <<kind, env, backups, budget>>
  BY OpIsOp, OpFields DEF WriteFile, At
<1>2. PICK n \in Nat : n = op.done + 1
  BY <1>1
<1>3. PICK at : at = IF n = Len(op.plan) THEN AfterWrites ELSE op.at
  OBVIOUS
<1>4. at \in {"write", "env", "verify", "finish"} /\ at \in Steps /\ (at = "finish" => op.name = "restore")
  BY <1>1, <1>3 DEF AfterWrites, Steps
<1>5. PICK o : o = [op EXCEPT !.done = n, !.at = at]
  OBVIOUS
<1>6. o \in Op /\ SameAs(op, o) /\ o.at = at
  BY <1>1, <1>4, <1>5 DEF Op, SameAs
<1>7. Continue(o)
  BY <1>1, <1>2, <1>3, <1>5 DEF WriteFile, Op
<1>8. ~(o.fresh /\ o.at = "finish")
  BY <1>1, <1>4, <1>6, OpIsOp DEF InPhase, SameAs
<1> QED BY <1>1, <1>4, <1>6, <1>7, <1>8, GoingOnIsRestorable

\* Where the loop of a restore stops, its backup is left.
LEMMA WriteRefusedIsRestorable ==
  ASSUME TypeInv, UndoInv, Restorable, WriteRefused
  PROVE  Restorable'
<1>1. /\ op # NoOp /\ op.at = "write" /\ op \in Op /\ UNCHANGED <<kind, file, backups>>
  BY OpIsOp DEF WriteRefused, At
<1>2. CASE op.name = "restore" /\ kind # "desktop" /\ Answer(Refused(op), "error")
  <2>1. PICK o \in Op : o = Refused(op)
    BY <1>1, RefusedIsOp
  <2>2. SomeAvailable
    <3>1. Latest = op.backup /\ op.backup \in DOMAIN backups /\ backups \in Seq(Backup)
      BY <1>1, <1>2, OpIsOp DEF UndoInv, Undoable, InPhase, WithBackup, TypeInv, Typed
    <3>2. Latest # 0
      BY <3>1
    <3> QED BY <3>1, <3>2, LatestIs DEF SomeAvailable
  <2>3. IdleFits'
    BY <1>1, <1>2, <2>2 DEF IdleFits, SomeAvailable, Available, ManagedIn, Own, IsText
  <2>4. ~broken => OriginalsFit'
    BY <1>1, BackupsAlone DEF Restorable
  <2> QED BY <1>2, <2>1, <2>3, <2>4, EndIsRestorable
<1>3. CASE Continue(RollingBack(Refused(op), TRUE))
  BY <1>1, <1>3, RollingBackIsRestorable
<1> QED BY <1>2, <1>3 DEF WriteRefused

\* The variable is none of the files.
LEMMA SetEnvironmentIsRestorable ==
  ASSUME TypeInv, Restorable, SetEnvironment
  PROVE  Restorable'
<1>1. /\ op # NoOp /\ op.at = "env" /\ UNCHANGED <<kind, file, backups, mine>>
      /\ op.fresh => op.name # "restore"
  BY OpIsOp DEF SetEnvironment, At, InPhase
<1>2. CASE Continue([op EXCEPT !.at = IF op.name = "restore" THEN "finish" ELSE "verify"])
  BY <1>1, <1>2, AdvanceIsRestorable
<1>3. CASE Continue(RollingBack(Refused(op), FALSE))
  BY <1>1, <1>3, RollingBackIsRestorable
<1> QED BY <1>2, <1>3 DEF SetEnvironment

\* A configuration that is verified is managed.
LEMMA VerifyIsRestorable ==
  ASSUME TypeInv, Restorable, Verify
  PROVE  Restorable'
<1>1. /\ op # NoOp /\ op.at = "verify" /\ UNCHANGED <<kind, file, backups, mine>> /\ op \in Op
      /\ op.name # "restore"
  BY OpIsOp DEF Verify, At, InPhase
<1>2. CASE Pointed(op.want) /\ Continue([op EXCEPT !.at = "finish"])
  <2>1. Managed
    BY <1>2 DEF Pointed, Current
  <2> QED BY <1>1, <1>2, <2>1, AdvanceIsRestorable
<1>3. CASE ~op.fresh /\ Pointed(op.want) /\ Answer(op, "ok")
  <2>1. ManagedIn(file)'
    BY <1>1, <1>3 DEF Pointed, Current, Managed, ManagedIn, SettingsPath, Own, IsText
  <2>2. ~broken => SomeAvailable
    BY <1>1, <1>3 DEF Restorable, PointFits, BeforeFits
  <2>3. ~broken => OriginalsFit' /\ IdleFits'
    BY <1>1, <2>1, <2>2, BackupsAlone DEF Restorable, IdleFits
  <2> QED BY <1>1, <1>3, <2>3, EndIsRestorable
<1>4. CASE Continue(RollingBack(Refused(op), FALSE))
  BY <1>1, <1>4, RollingBackIsRestorable
<1> QED BY <1>2, <1>3, <1>4 DEF Verify

\* The manifest decides which backups are left.
LEMMA WriteManifestIsRestorable ==
  ASSUME TypeInv, UndoInv, ExactInv, Restorable, WriteManifest
  PROVE  Restorable'
<1>1. /\ op # NoOp /\ op.at = "finish" /\ op \in Op /\ op.backup \in DOMAIN backups /\ SystemFits
      /\ UNCHANGED <<kind, file, env, mine>> /\ backups \in Seq(Backup)
      /\ op.fresh \/ op.name = "restore"
      /\ op.fresh => op.name # "restore"
  BY OpIsOp, SystemIsFit DEF WriteManifest, At, InPhase, WithBackup, TypeInv, Typed
<1>2. CASE Continue(RollingBack(Refused(op), FALSE)) /\ UNCHANGED backups
  BY <1>1, <1>2, RollingBackIsRestorable
<1>3. CASE /\ backups' = [backups EXCEPT ![op.backup] = Marked(@, op.name)]
           /\ IF op.name = "restore" /\ kind = "codex"
                THEN Continue([op EXCEPT !.at = "cleanup"])
                ELSE Answer(op, "ok")
  <2>1. PICK b \in DOMAIN backups : b = op.backup
    BY <1>1
  <2>2. DOMAIN backups = 1..Len(backups) /\ Len(backups) \in Nat
    BY <1>1
  <2>3. /\ DOMAIN backups' = DOMAIN backups
        /\ \A c \in DOMAIN backups : backups'[c].files = backups[c].files
    <3>1. PICK name : name = op.name
      OBVIOUS
    <3>2. backups' = [backups EXCEPT ![b] = Marked(@, name)]
      BY <1>3, <2>1, <3>1
    <3> QED BY <1>1, <3>2, MarkedFits
  <2>4. /\ \A c \in DOMAIN backups : c # b => backups'[c] = backups[c]
        /\ backups'[b] = Marked(backups[b], op.name)
    BY <1>1, <1>3, <2>1
  <2>5. \A c \in DOMAIN backups : c # b => (Available(c)' <=> Available(c))
    BY <2>4 DEF Available
  <2>6. CASE op.name # "restore"
    <3>1. op.fresh /\ Answer(op, "ok")
      BY <1>1, <1>3, <2>6
    <3>2. ManagedIn(file)'
      BY <1>1, <3>1 DEF Restorable, PointFits, ManagedIn, Own, IsText
    <3>3. /\ b = Len(backups) /\ ~Available(b)
          /\ ~backups[b].restored /\ backups[b].files[MainAt].original = op.before[Main]
      BY <1>1, <2>1, <3>1 DEF Restorable, PointFits, Available
    <3>4. Available(b)'
      <4>1. backups[b] \in Backup
        BY <1>1
      <4>2. backups'[b] = [backups[b] EXCEPT !.completed = TRUE]
        BY <2>4, <2>6 DEF Marked
      <4> QED BY <3>3, <4>1, <4>2 DEF Available, Backup
    <3>5. IdleFits'
      BY <2>3, <3>2, <3>4 DEF IdleFits, SomeAvailable
    <3>6. ASSUME ~broken
          PROVE  OriginalsFit'
      <4>1. OriginalsFit /\ BeforeFits
        BY <1>1, <3>6 DEF Restorable
      <4>2. ASSUME NEW d \in DOMAIN backups, Available(d)', Own(backups[d].files[MainAt].original) # None
            PROVE  kind # "desktop" /\ \E c \in DOMAIN backups : c < d /\ Available(c)'
        <5>1. CASE d # b
          <6>1. PICK c \in DOMAIN backups : kind # "desktop" /\ c < d /\ Available(c)
            BY <2>5, <4>1, <4>2, <5>1 DEF OriginalsFit
          <6>2. c # b
            BY <3>3, <6>1
          <6> QED BY <2>5, <6>1, <6>2
        <5>2. CASE d = b
          <6>1. Own(op.before[Main]) # None
            BY <3>3, <4>2, <5>2
          <6>2. kind # "desktop" /\ SomeAvailable
            BY <1>1, <3>1, <4>1, <6>1 DEF BeforeFits
          <6>3. PICK c \in DOMAIN backups : Available(c)
            BY <6>2 DEF SomeAvailable
          <6>4. c # b /\ c < b
            BY <2>2, <3>3, <6>3
          <6> QED BY <2>5, <5>2, <6>2, <6>3, <6>4
        <5> QED BY <5>1, <5>2
      <4> QED BY <1>1, <2>3, <4>2 DEF OriginalsFit, MainAt, Own, IsText
    <3> QED BY <1>1, <3>1, <3>5, <3>6, EndIsRestorable
  <2>7. CASE op.name = "restore"
    <3>1. /\ b = Latest /\ Available(b) /\ \A c \in DOMAIN backups : Available(c) => c <= b
      <4>1. Latest = b
        BY <1>1, <2>1, <2>7 DEF UndoInv, Undoable
      <4>2. b # 0
        BY <2>2
      <4> QED BY <1>1, <4>1, <4>2, LatestIs
    <3>2. /\ Own(file[Main]) # None => Own(backups[b].files[MainAt].original) # None
      <4>1. /\ MainAt \in DOMAIN backups[b].files /\ backups[b].files[MainAt].path = Main
            /\ backups[b].files[MainAt].original \in Content
        BY BackupFiles DEF TypeInv
      <4>2. PutBack(backups[b].files[MainAt].original, file[Main])
        BY <1>1, <2>1, <2>7, <4>1 DEF ExactInv, Exact, PutBackSoFar, BackAt
      <4> QED BY <4>1, <4>2, AppliedOwn DEF PutBack
    <3>3. ASSUME ~broken
          PROVE  /\ OriginalsFit'
                 /\ Own(file[Main]) # None => kind # "desktop" /\ SomeAvailable'
      <4>1. OriginalsFit
        BY <1>1, <3>3 DEF Restorable
      <4>2. ASSUME NEW d \in DOMAIN backups, Available(d), Own(backups[d].files[MainAt].original) # None
            PROVE  kind # "desktop" /\ \E c \in DOMAIN backups : c < d /\ Available(c)'
        <5>1. PICK c \in DOMAIN backups : kind # "desktop" /\ c < d /\ Available(c)
          BY <4>1, <4>2 DEF OriginalsFit
        <5>2. d <= b /\ c # b
          BY <2>2, <3>1, <4>2, <5>1
        <5> QED BY <2>5, <5>1, <5>2
      <4>3. ~Available(b)'
        <5>1. backups[b] \in Backup
          BY <1>1
        <5>2. backups'[b] = [backups[b] EXCEPT !.restored = TRUE]
          BY <2>4, <2>7 DEF Marked
        <5> QED BY <5>1, <5>2 DEF Available, Backup
      <4>4. OriginalsFit'
        BY <1>1, <2>3, <2>5, <4>2, <4>3 DEF OriginalsFit, MainAt, Own, IsText
      <4>5. Own(file[Main]) # None => kind # "desktop" /\ SomeAvailable'
        BY <2>3, <3>1, <3>2, <4>2 DEF SomeAvailable
      <4> QED BY <4>4, <4>5
    <3>4. CASE kind # "codex" /\ Answer(op, "ok")
      <4>1. ~broken => IdleFits'
        BY <1>1, <3>3 DEF IdleFits, ManagedIn, Own, IsText
      <4> QED BY <1>1, <3>3, <3>4, <4>1, EndIsRestorable
    <3>5. CASE kind = "codex" /\ Continue([op EXCEPT !.at = "cleanup"])
      <4>1. PICK o : o = [op EXCEPT !.at = "cleanup"]
        OBVIOUS
      <4>2. o \in Op /\ SameAs(op, o) /\ o.at = "cleanup"
        <5>1. "cleanup" \in Steps
          BY DEF Steps
        <5> QED BY <1>1, <4>1, <5>1, NextStepIsOp
      <4>3. op' = o /\ op' # NoOp /\ broken' = broken
        BY <3>5, <4>1, <4>2, NoOpAssumption DEF Continue
      <4>4. ~op.fresh
        BY <1>1, <2>7
      <4>5. PointFits'
        BY <2>7, <4>2, <4>3, <4>4 DEF PointFits, SameAs
      <4>6. ~broken => BeforeFits'
        BY <1>1, <3>3, <3>5, <4>2, <4>3, <4>4 DEF BeforeFits, SameAs, Own, IsText
      <4> QED BY <3>3, <4>3, <4>5, <4>6, Zenon DEF Restorable
    <3> QED BY <1>3, <2>7, <3>4, <3>5
  <2> QED BY <2>6, <2>7
<1> QED BY <1>2, <1>3 DEF WriteManifest

\* The clean-up leaves the main file and the backups alone.
LEMMA CleanUpIsRestorable ==
  ASSUME TypeInv, Restorable, CleanUp
  PROVE  Restorable'
<1>1. /\ op # NoOp /\ op.at = "cleanup" /\ op \in Op /\ kind = "codex" /\ file \in Files
      /\ UNCHANGED <<kind, env, backups, mine>>
  BY OpIsOp DEF CleanUp, At, InPhase, TypeInv, Typed
<1>2. file'[Main] = file[Main]
  <2>1. Main \in Paths /\ Main # Side
    BY PathsAssumption DEF Paths
  <2> QED BY <1>1, <2>1 DEF CleanUp, Files
<1>3. ~broken => OriginalsFit' /\ IdleFits'
  <2>1. ~broken => OriginalsFit' /\ (Own(file[Main]) # None => SomeAvailable')
    BY <1>1, BackupsAlone DEF Restorable, BeforeFits
  <2> QED BY <1>1, <1>2, <2>1 DEF IdleFits, ManagedIn, Own, IsText
<1>4. CASE Answer(op, "ok")
  BY <1>1, <1>3, <1>4, EndIsRestorable
<1>5. CASE Answer(Refused(op), "ok")
  <2>1. PICK o \in Op : o = Refused(op)
    BY <1>1, RefusedIsOp
  <2> QED BY <1>3, <1>5, <2>1, EndIsRestorable
<1> QED BY <1>4, <1>5 DEF CleanUp

\* When the last file of a rollback that lost nothing is back, all of them are.
LEMMA LastFileIsBack ==
  ASSUME TypeInv, Undoable, At("undo"), ~op.failed, Tail(op.undo) = <<>>,
         file' = [file EXCEPT ![Head(op.undo).path] = Head(op.undo).old]
  PROVE  file' = op.before
<1>1. op # NoOp /\ op \in Op /\ op.at = "undo" /\ file \in Files /\ op.before \in Files
  BY OpIsOp, OpFields DEF At, TypeInv, Typed
<1>2. PICK w : w = Head(op.undo)
  OBVIOUS
<1>3. /\ w.path \in Paths /\ w.old \in Content /\ w.old = op.before[w.path]
      /\ \A p : Planned(op.undo, p) => p = w.path \/ Planned(Tail(op.undo), p)
  BY <1>2, NextUndo
<1>4. \A p \in Paths : ~Planned(Tail(op.undo), p)
  <2>1. DOMAIN <<>> = {}
    OBVIOUS
  <2> QED BY <2>1, Zenon DEF Planned
<1>5. \A p \in Paths : p # w.path => file[p] = op.before[p]
  BY <1>1, <1>3, <1>4 DEF Undoable
<1>6. file' \in Files /\ \A p \in Paths : file'[p] = op.before[p]
  BY <1>1, <1>2, <1>3, <1>5 DEF Files
<1> QED BY <1>1, <1>6, FilesAreEqual

\* The next step of a rollback.
LEMMA UndoStepIsRestorable ==
  ASSUME TypeInv, Restorable, At("undo"), NEW o \in Op, SameAs(op, o), o.undo = op.undo, o.at = "undo",
         UndoStep(o), UNCHANGED <<kind, backups>>,
         ~o.failed /\ Tail(op.undo) = <<>> => file' = op.before
  PROVE  Restorable'
<1>1. op # NoOp /\ op.at = "undo" /\ op \in Op /\ op.undo # <<>>
  BY OpIsOp DEF At, InPhase
<1>2. PICK next : next = [o EXCEPT !.undo = Tail(@)]
  OBVIOUS
<1>3. next \in Op /\ SameAs(o, next) /\ next.at = "undo" /\ next.failed = o.failed /\ next.undo = Tail(op.undo)
  BY <1>1, <1>2, TailIsOp
<1>4. SameAs(op, next)
  BY <1>3 DEF SameAs
<1>5. CASE Continue(next)
  BY <1>1, <1>3, <1>4, <1>5, GoingOnIsRestorable
<1>6. CASE AfterUndo # "undo" /\ Continue([next EXCEPT !.at = AfterUndo])
  <2>1. AfterUndo \in Steps /\ AfterUndo \in {"undoEnv", "undoManifest"}
    BY <1>6 DEF AfterUndo, Steps
  <2>2. PICK u : u = [next EXCEPT !.at = AfterUndo]
    OBVIOUS
  <2>3. u \in Op /\ SameAs(next, u) /\ u.at = AfterUndo
    BY <1>3, <2>1, <2>2, NextStepIsOp
  <2>4. SameAs(op, u)
    BY <1>4, <2>3 DEF SameAs
  <2>5. Continue(u)
    BY <1>6, <2>2
  <2> QED BY <1>1, <2>1, <2>3, <2>4, <2>5, GoingOnIsRestorable
<1>7. CASE next.undo = <<>> /\ RolledBack(next)
  <2>1. ~next.failed => file' = op.before
    BY <1>3, <1>7
  <2> QED BY <1>1, <1>3, <1>7, <2>1, BackToBefore DEF RolledBack
<1> QED BY <1>2, <1>5, <1>6, <1>7 DEF UndoStep

\* A file is put back, or the rollback has lost it.
LEMMA UndoFileIsRestorable ==
  ASSUME TypeInv, UndoInv, Restorable, UndoFile
  PROVE  Restorable'
<1>1. /\ op # NoOp /\ op \in Op /\ op.at = "undo" /\ At("undo") /\ UNCHANGED <<kind, env, backups>>
  BY OpIsOp DEF UndoFile, At
<1>2. CASE /\ file' = [file EXCEPT ![Head(op.undo).path] = Head(op.undo).old]
           /\ UndoStep(op)
  <2>1. ~op.failed /\ Tail(op.undo) = <<>> => file' = op.before
    BY <1>1, <1>2, LastFileIsBack DEF UndoInv
  <2>2. SameAs(op, op)
    BY DEF SameAs
  <2> QED BY <1>1, <1>2, <2>1, <2>2, UndoStepIsRestorable
<1>3. CASE UndoStep([Refused(op) EXCEPT !.failed = TRUE])
  <2>1. PICK o : o = [Refused(op) EXCEPT !.failed = TRUE]
    OBVIOUS
  <2>2. o \in Op /\ SameAs(op, o) /\ o.undo = op.undo /\ o.at = "undo" /\ o.failed = TRUE
    BY <1>1, <2>1, FailedIsOp
  <2>3. UndoStep(o)
    BY <1>3, <2>1
  <2> QED BY <1>1, <2>2, <2>3, UndoStepIsRestorable
<1> QED BY <1>2, <1>3 DEF UndoFile, WrittenBack

\* The rollback ends with the variable or the manifest.
LEMMA LastUndoIsRestorable ==
  ASSUME TypeInv, UndoInv, Restorable, UndoEnvironment \/ UndoManifest
  PROVE  Restorable'
<1>1. /\ op # NoOp /\ op \in Op /\ op.at \in {"undoEnv", "undoManifest"} /\ UNCHANGED <<kind, file, backups>>
      /\ ~op.failed => file = op.before
  BY OpIsOp DEF UndoEnvironment, UndoManifest, At, UndoInv, Undoable
<1>2. CASE RolledBack(op)
  BY <1>1, <1>2, BackToBefore DEF RolledBack
<1>3. CASE RolledBack([Refused(op) EXCEPT !.failed = TRUE])
  <2>1. PICK o : o = [Refused(op) EXCEPT !.failed = TRUE]
    OBVIOUS
  <2>2. o \in Op /\ o.failed = TRUE
    BY <1>1, <2>1, FailedIsOp
  <2>3. Answer(o, IF o.failed /\ ~o.quiet THEN "partial" ELSE "error")
    BY <1>3, <2>1 DEF RolledBack
  <2> QED BY <1>1, <2>2, <2>3, BackToBefore
<1> QED BY <1>2, <1>3 DEF UndoEnvironment, UndoManifest

\* The user takes the gateway's keys out of the main file, or leaves them there.
LEMMA EditFileIsRestorable ==
  ASSUME TypeInv, Restorable, EditFile
  PROVE  Restorable'
<1>1. /\ UNCHANGED <<kind, backups, broken>> /\ op = NoOp /\ op' = NoOp /\ file \in Files /\ Main \in Paths
      /\ Fits(Main, file[Main])
  BY DEF EditFile, Edited, TypeInv, Typed, Paths, Shaped
<1>2. PICK t \in Texts, own \in {None, Own(file[Main])} : file' = [file EXCEPT ![Main] = [text |-> t, own |-> own]]
  BY DEF EditFile
<1>3. PICK c : c = [text |-> t, own |-> own]
  OBVIOUS
<1>4. c \in Text /\ c.own = own
  BY <1>1, <1>2, <1>3, ContentCases DEF Files, Owners, Text
<1>5. Own(c) = own /\ file' = [file EXCEPT ![Main] = c]
  BY <1>2, <1>3, <1>4, ContentAssumption DEF Own, IsText
<1>6. file'[Main] = c /\ \A p \in Paths : p # Main => file'[p] = file[p]
  BY <1>1, <1>5 DEF Files
<1>7. ASSUME Own(file'[Main]) # None
      PROVE  /\ Own(file[Main]) # None
             /\ ManagedIn(file) => ManagedIn(file)'
  <2>1. own = Own(file[Main]) /\ own # None
    BY <1>2, <1>5, <1>6, <1>7
  <2>2. kind = "desktop" => own \in Profiles /\ own \in Paths /\ own # Main
    BY <1>1, <2>1, PathsAssumption DEF Fits, ProfileIDs, Profiles, Paths
  <2> QED BY <1>1, <1>5, <1>6, <2>1, <2>2 DEF ManagedIn, Own, IsText
<1>8. ~broken => OriginalsFit' /\ IdleFits'
  <2>1. ~broken => OriginalsFit' /\ (Own(file[Main]) # None => SomeAvailable' /\ ManagedIn(file))
    BY <1>1, BackupsAlone DEF Restorable, IdleFits
  <2> QED BY <1>7, <2>1 DEF IdleFits, Own, IsText
<1> QED BY <1>1, <1>8, Zenon DEF Restorable

\* Every step keeps what a restore needs.
LEMMA NextIsRestorable ==
  ASSUME TypeInv, UndoInv, ExactInv, Restorable, [Next]_vars
  PROVE  Restorable'
<1>1. CASE \E want \in Settings : Point(want) \/ SyncSettings(want)
  BY <1>1, PointIsRestorable, SyncIsRestorable
<1>2. CASE Restore
  BY <1>2, RestoreIsRestorable
<1>3. CASE Operation
  BY <1>3, CreateBackupIsRestorable, WriteFileIsRestorable, WriteRefusedIsRestorable,
     SetEnvironmentIsRestorable, VerifyIsRestorable, WriteManifestIsRestorable, CleanUpIsRestorable,
     UndoFileIsRestorable, LastUndoIsRestorable DEF Operation
<1>4. CASE Crash
  BY <1>4, Zenon DEF Crash, Restorable
<1>5. CASE EditFile
  BY <1>5, EditFileIsRestorable
<1>6. CASE EditEnvironment \/ RefreshModels \/ UNCHANGED vars
  <2>1. UNCHANGED <<kind, file, backups, op, broken>>
    BY <1>6, AsideSteps DEF Aside, EditEnvironment, Edited
  <2>2. /\ OriginalsFit' <=> OriginalsFit
        /\ IdleFits' <=> IdleFits
        /\ BeforeFits' <=> BeforeFits
        /\ PointFits' <=> PointFits
    BY <2>1 DEF OriginalsFit, IdleFits, BeforeFits, PointFits, SomeAvailable, Available, ManagedIn, MainAt, Own, IsText
  <2> QED BY <2>1, <2>2, Zenon DEF Restorable
<1> QED BY <1>1, <1>2, <1>3, <1>4, <1>5, <1>6 DEF Next

\* In the beginning there is nothing to restore.
LEMMA InitIsRestorable ==
  ASSUME Init
  PROVE  Restorable
<1>1. PICK main \in {NoFile} \cup [text : Texts, own : {None}],
           side \in {NoFile} \cup [text : Texts, own : {None}] :
        file = [p \in Paths |-> CASE p = Main -> main [] p = Side -> side [] OTHER -> NoFile]
  BY DEF Init
<1>2. op = NoOp /\ backups = <<>>
  BY DEF Init
<1>3. DOMAIN backups = {}
  BY <1>2
<1>4. file[Main] = main
  BY <1>1, PathsAssumption DEF Paths
<1>5. Own(file[Main]) = None
  BY <1>1, <1>4 DEF Own, IsText
<1> QED BY <1>2, <1>3, <1>5 DEF Restorable, OriginalsFit, IdleFits

\* The whole inductive invariant.
LEMMA PointInductive == Spec => [](TypeInv /\ UndoInv /\ OriginalInv /\ ExactInv /\ Restorable)
<1>1. Init => Restorable
  BY InitIsRestorable
<1>2. TypeInv /\ UndoInv /\ OriginalInv /\ ExactInv /\ Restorable /\ [Next]_vars => Restorable'
  BY NextIsRestorable
<1> QED BY <1>1, <1>2, ExactInductive, PTL DEF Spec

\* A client that points at the gateway has a complete backup that was not restored
\* (point.go Point, latestManifest), unless an operation was cut short by a crash
\* or could not put a file back.
THEOREM ManagedAreRestorable == Spec => []ManagedIsRestorable
<1>1. TypeInv /\ Restorable => ManagedIsRestorable
  <2>1. SUFFICES ASSUME TypeInv, Restorable, op = NoOp, ~broken, Managed
                 PROVE  Latest # 0
    BY DEF ManagedIsRestorable
  <2>2. SomeAvailable
    BY <2>1, ManagedIsOfFiles DEF Restorable, IdleFits, ManagedIn
  <2>3. backups \in Seq(Backup)
    BY <2>1 DEF TypeInv, Typed
  <2> QED BY <2>2, <2>3, LatestIs DEF SomeAvailable
<1> QED BY <1>1, PointInductive, PTL
=============================================================================
