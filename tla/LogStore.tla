------------------------------ MODULE LogStore ------------------------------
(***************************************************************************)
(* The request log (internal/logstore, server/trace.go, server/logs.go):   *)
(* one append-only file per request, written by the handler that serves    *)
(* the request, read by listings and reports through a cache of summaries, *)
(* removed by deletions, by clearing and, while the gateway starts, by     *)
(* retention.  Files survive a crash; sessions, cache and tasks do not.    *)
(*                                                                         *)
(* A file is the sequence of its events; "torn" is a line that a crash or  *)
(* a full disk cut short.  A file that is unlinked while its handler still *)
(* writes is gone: later appends go to a file without a name.              *)
(***************************************************************************)
EXTENDS Integers, Sequences, FiniteSets, FiniteSetsExt

CONSTANTS
  Requests,      \* request ids, ordered; every id is used once
  Tasks,         \* handler goroutines of the management API
  Walkers,       \* those whose client asks for the next page
  LeftBehind,    \* what earlier runs of the gateway may have left on disk
  PageSize,      \* limit of a listing
  RetentionDays, \* logging.retention_days; 0: no limit
  Quota,         \* logging.quota, in lines; 0: no limit
  MaxTime,       \* bound on the clock, which counts days
  MaxNotes,      \* bound on the events between request and result
  MaxFaults,     \* bound on appends the disk refuses
  MaxStarts,     \* bound on starts of the gateway
  Missing, NoEntry, NoTask, NoPath

ASSUME RequestsAssumption == Requests \subseteq Nat /\ IsFiniteSet(Requests)
ASSUME WalkersAssumption == Walkers \subseteq Tasks
ASSUME BoundsAssumption ==
  /\ PageSize \in Nat \ {0} /\ MaxTime \in Nat \ {0}
  /\ {RetentionDays, Quota, MaxNotes, MaxFaults, MaxStarts} \subseteq Nat
ASSUME NamesAssumption == NoPath \notin Requests

Events == {"request", "note", "result", "torn"}
Files == [day : 1..MaxTime, started : 1..MaxTime, events : Seq(Events)]

ASSUME MissingAssumption == Missing \notin Files
ASSUME LeftBehindAssumption == LeftBehind \subseteq [Requests -> Files \cup {Missing}]

Phases == {"new", "created", "open", "running", "over", "finished", "done"}

VARIABLES
  now,       \* the date
  phase,     \* "down", "retaining", "serving", "closed"
  candidates, \* completed logs the running retention has not come to yet
  total,     \* lines of the candidates it has not removed
  file,      \* what is on disk: per request a file or Missing
  session,   \* where the handler of each request is
  sessions,  \* Writer.sessions
  cache,     \* Writer.summaryCache
  task,      \* the running management requests
  faults, starts

handlers == <<session, sessions, faults>>
retention == <<candidates, total>>
vars == <<now, phase, retention, file, cache, task, starts, handlers>>

(***************************************************************************)
(* Files and their summaries.                                              *)
(***************************************************************************)

Exists(r) == file[r] # Missing

Holds(f, event) == \E i \in DOMAIN f.events : f.events[i] = event

\* readSummary fails on an empty file and on a line that is not JSON.
Readable(f) == f.events # <<>> /\ ~Holds(f, "torn")

\* Without its request event a log counts as started when it was last written;
\* such a log is never readable here, a failed request event ends the session.
Summary(r) ==
  [id |-> r, started |-> file[r].started,
   status |-> IF Holds(file[r], "result") THEN "completed" ELSE "interrupted"]

SummaryTypes ==
  [id : Requests, started : 1..MaxTime, status : {"completed", "interrupted"}]

Size(r) == Len(file[r].events)

Complete(r) == Exists(r) /\ Readable(file[r]) /\ Holds(file[r], "result")

\* A write of one line.  An unlinked file takes it and nobody sees it.
Written(r, event) ==
  IF Exists(r) THEN [file EXCEPT ![r].events = Append(@, event)] ELSE file

GoTo(r, where) == session' = [session EXCEPT ![r] = where]

(***************************************************************************)
(* The handler of a request: startTrace, events, finish.                   *)
(***************************************************************************)

\* Open creates the file in the directory of the day ...
CreateLog(r) ==
  /\ phase = "serving"
  /\ session[r] = "new"
  /\ GoTo(r, "created")
  /\ file' = [file EXCEPT ![r] = [day |-> now, started |-> now, events |-> <<>>]]
  /\ UNCHANGED <<now, phase, retention, sessions, cache, task, faults, starts>>

\* ... and registers the session when the file is there.
Register(r) ==
  /\ session[r] = "created"
  /\ GoTo(r, "open")
  /\ sessions' = sessions \cup {r}
  /\ UNCHANGED <<now, phase, retention, file, cache, task, faults, starts>>

AppendRequest(r) ==
  /\ session[r] = "open"
  /\ r \in sessions
  /\ GoTo(r, "running")
  /\ file' = IF Exists(r)
               THEN [file EXCEPT ![r].events = Append(@, "request"), ![r].started = now]
               ELSE file
  /\ UNCHANGED <<now, phase, retention, sessions, cache, task, faults, starts>>

\* Mutant: a request whose first event was refused forgets its session.
RefusedKeepingSession(r) ==
  /\ session[r] = "open"
  /\ faults < MaxFaults
  /\ faults' = faults + 1
  /\ file' \in {file, Written(r, "torn")}
  /\ GoTo(r, "done")
  /\ UNCHANGED <<now, phase, retention, sessions, cache, task, starts>>

\* The request event cannot be written: the request is refused and the session
\* closed.  The disk may have taken a part of the line.
RefuseRequest(r) ==
  /\ session[r] = "open"
  /\ faults < MaxFaults
  /\ faults' = faults + 1
  /\ file' \in {file, Written(r, "torn")}
  /\ GoTo(r, "finished")
  /\ UNCHANGED <<now, phase, retention, sessions, cache, task, starts>>

\* Route, upstream and response events.  When one of the first two is refused the upstream is
\* not asked; errors of the others are not looked at.
AppendNote(r) ==
  /\ session[r] = "running"
  /\ r \in sessions
  /\ Exists(r) => Cardinality({i \in DOMAIN file[r].events : file[r].events[i] = "note"}) < MaxNotes
  /\ \/ /\ file' = Written(r, "note")
        /\ UNCHANGED <<session, faults>>
     \/ /\ faults < MaxFaults
        /\ faults' = faults + 1
        /\ file' = Written(r, "torn")
        /\ UNCHANGED session \/ GoTo(r, "over")
  /\ UNCHANGED <<now, phase, retention, sessions, cache, task, starts>>

\* The upstream has answered, broken off or stalled into the timer of a stream, and the client
\* has taken what it is sent or is gone.  Nothing bounds the time a body takes that is read as
\* a whole (io.ReadAll), nor a client that does not read.
EndExchange(r) ==
  /\ session[r] = "running"
  /\ GoTo(r, "over")
  /\ UNCHANGED <<now, phase, retention, file, sessions, cache, task, faults, starts>>

\* finish: the result, whose error is not looked at.  A session that shutdown has
\* closed takes no result.
AppendResult(r) ==
  /\ session[r] = "over"
  /\ GoTo(r, "finished")
  /\ \/ r \in sessions /\ file' = Written(r, "result") /\ UNCHANGED faults
     \/ /\ r \in sessions
        /\ faults < MaxFaults
        /\ faults' = faults + 1
        /\ file' = Written(r, "torn")
     \/ r \notin sessions /\ UNCHANGED <<file, faults>>
  /\ UNCHANGED <<now, phase, retention, sessions, cache, task, starts>>

\* Close: the file first, then the registration.  A session that shutdown has
\* closed stays closed.
CloseSession(r) ==
  /\ session[r] = "finished"
  /\ GoTo(r, "done")
  /\ sessions' = sessions \ {r}
  /\ UNCHANGED <<now, phase, retention, file, cache, task, faults, starts>>

\* What the handler does without waiting for anybody.
OwnStep(r) ==
  \/ Register(r) \/ AppendRequest(r) \/ RefuseRequest(r) \/ AppendResult(r) \/ CloseSession(r)

HandlerNext(r) == CreateLog(r) \/ AppendNote(r) \/ EndExchange(r) \/ OwnStep(r)

(***************************************************************************)
(* Listings and reports.  WalkDir collects the paths, cachedSummary works  *)
(* through them one by one: stat, look up or read, store.                  *)
(***************************************************************************)

Listing == [kind : {"list"}, at : {"stat", "read", "store", "answered"},
            todo : SUBSET Requests, size : Nat, item : SummaryTypes \cup {NoEntry},
            items : SUBSET SummaryTypes, cursor : Requests \cup {NoPath},
            shown : [Requests -> Nat], expected : SUBSET Requests]

Put(t, state) == task' = [task EXCEPT ![t] = state]

AllFiles == {r \in Requests : Exists(r)}

\* A client asks for the first page, or for usage or a doctor report.  expected is
\* kept for the properties only.
BeginListing(t) ==
  /\ phase = "serving"
  /\ task[t] = NoTask
  /\ Put(t, [kind |-> "list", at |-> "stat", todo |-> AllFiles, size |-> 0, item |-> NoEntry,
             items |-> {}, cursor |-> NoPath, shown |-> [r \in Requests |-> 0],
             expected |-> IF t \in Walkers THEN {r \in Requests : Complete(r)} ELSE {}])
  /\ UNCHANGED <<now, phase, retention, file, cache, starts, handlers>>

Scanning(t, step) ==
  /\ task[t] # NoTask
  /\ task[t].kind = "list"
  /\ task[t].at = step

Skip(t) == Put(t, [task[t] EXCEPT !.at = "stat", !.todo = @ \ {Min(@)}, !.size = 0, !.item = NoEntry])

Show(t, summary) ==
  Put(t, [task[t] EXCEPT !.at = "stat", !.todo = @ \ {Min(@)}, !.size = 0, !.item = NoEntry,
                         !.items = @ \cup {summary}])

Drop(r) == cache' = [cache EXCEPT ![r] = NoEntry]

StatPath(t) ==
  /\ Scanning(t, "stat")
  /\ task[t].todo # {}
  /\ LET r == Min(task[t].todo)
     IN  \/ /\ Exists(r)
            /\ Put(t, [task[t] EXCEPT !.at = "read", !.size = Size(r)])
            /\ UNCHANGED cache
         \/ ~Exists(r) /\ Skip(t) /\ Drop(r)
  /\ UNCHANGED <<now, phase, retention, file, starts, handlers>>

\* The entry answers when the size is still the one it was stored with.
LookUpOrRead(t) ==
  /\ Scanning(t, "read")
  /\ LET r == Min(task[t].todo)
         hit == cache[r] # NoEntry /\ cache[r].size = task[t].size
         readable == Exists(r) /\ Readable(file[r])
     IN  \/ hit /\ Show(t, cache[r].summary) /\ UNCHANGED cache
         \/ /\ ~hit /\ readable
            /\ Put(t, [task[t] EXCEPT !.at = "store", !.item = Summary(r)])
            /\ UNCHANGED cache
         \/ ~hit /\ ~readable /\ Skip(t) /\ Drop(r)
  /\ UNCHANGED <<now, phase, retention, file, starts, handlers>>

\* Mutant: the size is looked up again when the entry is stored.
EntryOfCurrentSize(r, size, summary) ==
  [size |-> IF Exists(r) THEN Size(r) ELSE size, summary |-> summary]

\* The entry carries the size the file had before it was read.
EntryOf(r, size, summary) == [size |-> size, summary |-> summary]

Store(t) ==
  /\ Scanning(t, "store")
  /\ LET r == Min(task[t].todo)
     IN  cache' = [cache EXCEPT ![r] = EntryOf(r, task[t].size, task[t].item)]
  /\ Show(t, task[t].item)
  /\ UNCHANGED <<now, phase, retention, file, starts, handlers>>

\* Newest first, then by id.
Precedes(a, b) == a.started > b.started \/ (a.started = b.started /\ a.id > b.id)

\* Mutant: the page starts with the log the cursor names.
AfterCursorInclusive(items, cursor) ==
  {b \in items : cursor = NoPath \/ \E a \in items : a.id = cursor /\ ~Precedes(b, a)}

\* What comes after the log the cursor names.
AfterCursor(items, cursor) ==
  {b \in items : cursor = NoPath \/ \E a \in items : a.id = cursor /\ Precedes(a, b)}

PageOf(rest) == {b \in rest : Cardinality({a \in rest : Precedes(a, b)}) < PageSize}

LastOf(page) == CHOOSE b \in page : \A a \in page \ {b} : Precedes(a, b)

Leave(t) == Put(t, NoTask)

\* A page with a cursor to the next one, which the client asks for, or the last.
AnswerPage(t) ==
  /\ t \in Walkers
  /\ Scanning(t, "stat")
  /\ task[t].todo = {}
  /\ task[t].cursor = NoPath \/ \E a \in task[t].items : a.id = task[t].cursor
  /\ LET rest == AfterCursor(task[t].items, task[t].cursor)
         page == PageOf(rest)
         shown == [r \in Requests |->
                     task[t].shown[r] + Cardinality({b \in page : b.id = r})]
     IN  IF page # rest
           THEN Put(t, [task[t] EXCEPT !.shown = shown, !.cursor = LastOf(page).id,
                                       !.todo = AllFiles, !.items = {}])
           ELSE Put(t, [task[t] EXCEPT !.shown = shown, !.at = "answered", !.items = {}])
  /\ UNCHANGED <<now, phase, retention, file, cache, starts, handlers>>

\* The log the cursor names is not there any more: invalid_query.
RefuseCursor(t) ==
  /\ Scanning(t, "stat")
  /\ task[t].todo = {}
  /\ task[t].cursor # NoPath /\ \A a \in task[t].items : a.id # task[t].cursor
  /\ Leave(t)
  /\ UNCHANGED <<now, phase, retention, file, cache, starts, handlers>>

\* Usage and Inspect answer from one scan; a client may also stop turning pages.
AnswerReport(t) ==
  /\ \/ Scanning(t, "stat") /\ task[t].todo = {}
     \/ Scanning(t, "answered")
  /\ Leave(t)
  /\ UNCHANGED <<now, phase, retention, file, cache, starts, handlers>>

(***************************************************************************)
(* Delete and Clear.                                                       *)
(***************************************************************************)

\* busy, kept for the properties only, are the sessions registered at the start.
Removal == [kind : {"delete", "clear"}, at : {"check", "remove", "forget"},
            todo : SUBSET Requests, busy : SUBSET Requests]

BeginRemoval(t) ==
  /\ phase = "serving"
  /\ task[t] = NoTask
  /\ \/ Put(t, [kind |-> "clear", at |-> "check", todo |-> AllFiles, busy |-> sessions])
     \/ \E r \in AllFiles :
          Put(t, [kind |-> "delete", at |-> "check", todo |-> {r}, busy |-> sessions])
  /\ UNCHANGED <<now, phase, retention, file, cache, starts, handlers>>

Removing(t, step) ==
  /\ task[t] # NoTask
  /\ task[t].kind \in {"delete", "clear"}
  /\ task[t].at = step
  /\ task[t].todo # {}

NextFile(t) == Put(t, [task[t] EXCEPT !.at = "check", !.todo = @ \ {Min(@)}])

\* Mutant: nobody asks for the sessions.
NeverActive(r) == r \notin Requests

IsActivePath(r) == r \in sessions

\* An active log: log_active for Delete, passed over by Clear.
CheckActive(t) ==
  /\ Removing(t, "check")
  /\ IF IsActivePath(Min(task[t].todo))
       THEN NextFile(t)
       ELSE Put(t, [task[t] EXCEPT !.at = "remove"])
  /\ UNCHANGED <<now, phase, retention, file, cache, starts, handlers>>

\* Somebody else may have removed it: log_not_found for Delete, fine for Clear.
RemoveFile(t) ==
  /\ Removing(t, "remove")
  /\ LET r == Min(task[t].todo)
     IN  /\ file' = [file EXCEPT ![r] = Missing]
         /\ IF Exists(r) \/ task[t].kind = "clear"
              THEN Put(t, [task[t] EXCEPT !.at = "forget"])
              ELSE Leave(t)
  /\ UNCHANGED <<now, phase, retention, cache, starts, handlers>>

RemoveFails(t) ==
  /\ Removing(t, "remove")
  /\ faults < MaxFaults
  /\ faults' = faults + 1
  /\ Leave(t)
  /\ UNCHANGED <<now, phase, retention, file, cache, starts, session, sessions>>

Forget(t) ==
  /\ Removing(t, "forget")
  /\ Drop(Min(task[t].todo))
  /\ NextFile(t)
  /\ UNCHANGED <<now, phase, retention, file, starts, handlers>>

AnswerRemoval(t) ==
  /\ task[t] # NoTask
  /\ task[t].kind \in {"delete", "clear"}
  /\ task[t].todo = {}
  /\ Leave(t)
  /\ UNCHANGED <<now, phase, retention, file, cache, starts, handlers>>

TaskNext(t) ==
  \/ BeginListing(t) \/ StatPath(t) \/ LookUpOrRead(t) \/ Store(t)
  \/ AnswerPage(t) \/ RefuseCursor(t) \/ AnswerReport(t)
  \/ BeginRemoval(t) \/ CheckActive(t) \/ RemoveFile(t) \/ RemoveFails(t) \/ Forget(t)
  \/ AnswerRemoval(t)

(***************************************************************************)
(* Start, stop and crash of the gateway.                                   *)
(***************************************************************************)

CompleteLogs == {r \in Requests : Complete(r)}

\* Mutant: every log counts alike.
NumberOf(logs) == Cardinality(logs)

\* The sum of their sizes: the number of their lines, each with the log it is in.
Lines(logs) == Cardinality(UNION {{r} \X DOMAIN file[r].events : r \in logs})

\* Listen: Retain looks at every log, with an empty cache and no session yet.  The
\* date changes between two runs of the gateway.
Start ==
  /\ phase = "down"
  /\ starts < MaxStarts
  /\ starts' = starts + 1
  /\ phase' = "retaining"
  /\ now' \in now..MaxTime
  /\ candidates' = CompleteLogs
  /\ total' = Lines(CompleteLogs)
  /\ cache' = [r \in Requests |-> IF Exists(r) /\ Readable(file[r])
                                     THEN EntryOf(r, Size(r), Summary(r)) ELSE NoEntry]
  /\ UNCHANGED <<file, task, handlers>>

\* The directory of a log names its day; the limit falls within a day.
Old(r) == RetentionDays > 0 /\ file[r].day + RetentionDays <= now

\* Mutant: the quota is applied before the sum is known to be above it.
OverQuotaAtLimit(sum) == Quota > 0 /\ sum >= Quota

OverQuota(sum) == Quota > 0 /\ sum > Quota

\* Logs of one day come in any order.
RetainNext ==
  /\ phase = "retaining"
  /\ \E r \in candidates :
       /\ \A s \in candidates : file[r].day <= file[s].day
       /\ candidates' = candidates \ {r}
       /\ IF Old(r) \/ OverQuota(total)
            THEN /\ file' = [file EXCEPT ![r] = Missing]
                 /\ total' = total - Size(r)
                 /\ Drop(r)
            ELSE UNCHANGED <<file, total, cache>>
  /\ UNCHANGED <<now, phase, task, starts, handlers>>

Serve ==
  /\ phase = "retaining"
  /\ candidates = {}
  /\ phase' = "serving"
  /\ UNCHANGED <<now, retention, file, cache, task, starts, handlers>>

\* Shutdown takes no request any more, waits a while for the running ones and closes
\* the sessions that are still open.
Stop ==
  /\ phase = "serving"
  /\ phase' = "closed"
  /\ sessions' = {}
  /\ UNCHANGED <<now, retention, file, cache, task, starts, session, faults>>

\* The process is gone: at the end of a stop, after a retention that failed, or by a
\* crash.  A line that was being written may stay torn.
Die ==
  /\ phase # "down"
  /\ phase' = "down"
  /\ candidates' = {} /\ total' = 0
  /\ \E cut \in SUBSET {r \in sessions : Exists(r) /\ session[r] \in {"open", "running", "over"}} :
       file' = [r \in Requests |-> IF r \in cut THEN [file[r] EXCEPT !.events = Append(@, "torn")]
                                                ELSE file[r]]
  /\ session' = [r \in Requests |-> IF session[r] = "new" THEN "new" ELSE "done"]
  /\ sessions' = {}
  /\ cache' = [r \in Requests |-> NoEntry]
  /\ task' = [t \in Tasks |-> NoTask]
  /\ UNCHANGED <<now, starts, faults>>

Init ==
  /\ now = 1
  /\ phase = "down"
  /\ candidates = {} /\ total = 0
  /\ \E old \in LeftBehind :
       /\ file = old
       /\ session = [r \in Requests |-> IF old[r] = Missing THEN "new" ELSE "done"]
  /\ sessions = {}
  /\ cache = [r \in Requests |-> NoEntry]
  /\ task = [t \in Tasks |-> NoTask]
  /\ faults = 0 /\ starts = 0

Next ==
  \/ Start \/ RetainNext \/ Serve \/ Stop \/ Die
  \/ \E r \in Requests : HandlerNext(r)
  \/ \E t \in Tasks : TaskNext(t)

\* A handler takes the steps that wait for nobody; that its upstream answers or its client
\* reads is not assumed.
Fairness == \A r \in Requests : WF_vars(OwnStep(r))

Spec == Init /\ [][Next]_vars /\ Fairness

-----------------------------------------------------------------------------

Entries == [size : Nat, summary : SummaryTypes]

TypeOK ==
  /\ now \in 1..MaxTime
  /\ phase \in {"down", "retaining", "serving", "closed"}
  /\ candidates \subseteq Requests
  /\ total \in Nat
  /\ file \in [Requests -> Files \cup {Missing}]
  /\ session \in [Requests -> Phases]
  /\ sessions \subseteq Requests
  /\ cache \in [Requests -> Entries \cup {NoEntry}]
  /\ task \in [Tasks -> Listing \cup Removal \cup {NoTask}]
  /\ faults \in Nat
  /\ starts \in Nat

\* cachedSummary never answers with a summary that is out of date: an entry whose size
\* is the size of the file holds what the file says, whatever was appended between the
\* stat, the read and the store, and in whatever order two listings store theirs.
CacheIsExact ==
  \A r \in Requests :
    cache[r] # NoEntry /\ Exists(r) /\ cache[r].size = Size(r) => cache[r].summary = Summary(r)

\* A client that follows next_cursor to the last page (List) has seen every log that was
\* complete when it asked for the first page and is still there, once, although requests
\* begin, end and are deleted between its pages; and it has seen no log twice.
PagesCover ==
  \A t \in Tasks :
    Scanning(t, "answered") =>
      /\ \A r \in task[t].expected : Exists(r) => task[t].shown[r] = 1
      /\ \A r \in Requests : task[t].shown[r] <= 1

\* Delete and Clear leave a log alone whose session was registered when they began,
\* until it is closed: the last lines of a running request are not lost to them.
SessionsAreSpared ==
  [][\A t \in Tasks, r \in Requests :
       Removing(t, "remove") /\ task'[t] # task[t] /\ Exists(r) /\ file'[r] = Missing
         => r \notin task[t].busy \cap sessions]_vars

\* Retain removes a log only if it is complete and old or, oldest day first, above the
\* quota; logs of interrupted requests stay.  When serving starts no complete log is old
\* and together they respect the quota.
RetentionHolds ==
  [][phase = "retaining" =>
       /\ \A r \in Requests :
            Exists(r) /\ file'[r] = Missing =>
              /\ Complete(r)
              /\ \/ RetentionDays > 0 /\ file[r].day <= now - RetentionDays
                 \/ /\ Quota > 0 /\ Lines(CompleteLogs) > Quota
                    /\ \A s \in CompleteLogs : file[r].day <= file[s].day
       /\ phase' = "serving" =>
            /\ Quota > 0 => Lines(CompleteLogs) <= Quota
            /\ RetentionDays > 0 => \A r \in CompleteLogs : file[r].day > now - RetentionDays]_vars

\* No session stays registered but while the upstream and the client keep its request going:
\* startTrace closes it when its first event is refused, finish when the exchange is over,
\* whichever event the disk refuses.  Its log can then be deleted.
EverySessionEnds ==
  \A r \in Requests : r \in sessions ~> (r \notin sessions \/ session[r] = "running")
=============================================================================
