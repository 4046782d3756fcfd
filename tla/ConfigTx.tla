------------------------------ MODULE ConfigTx ------------------------------
(***************************************************************************)
(* The write transactions of the management API: internal/server handlers  *)
(* under Server.txMu, config.Manager.Write (file first, then the snapshot  *)
(* the data plane reads), the synchronisation of the client files the      *)
(* gateway manages (point.Manager.SyncSettings) and its rollback, the      *)
(* model-discovery cache, and the requests that point or restore a client  *)
(* without taking txMu.  The process may die between any two steps.        *)
(*                                                                         *)
(* One write request walks  idle, waiting, sync, publish, finish, done     *)
(* or, after a failure,     ... sync, rollback, done.                      *)
(***************************************************************************)
EXTENDS Routing, Naturals

CONSTANTS
  Requests,       \* write requests, each sent once
  Operations,     \* what they may ask for
  InitialConfig,  \* the file the first start loads
  PointClients,   \* the clients whose files the gateway can manage
  Discoveries,    \* <<provider, key, models>> a /models probe can return
  MaxPoints,      \* bound on the point requests of a behaviour
  NoConfig,       \* nothing loaded
  NoSettings,     \* the client file is not managed by the gateway
  NoOne           \* nobody holds the mutex

ASSUME OperationsAssumption == Operations \subseteq Operation
ASSUME InitialAssumption ==
  InitialConfig \in Config /\ Valid(InitialConfig) /\ Persisted(InitialConfig) = InitialConfig
ASSUME PointClientsAssumption == PointClients \subseteq Clients
ASSUME DiscoveriesAssumption == Discoveries \subseteq Providers \X Keys \X SUBSET Models
ASSUME MaxPointsAssumption == MaxPoints \in Nat
ASSUME NoneAssumption == NoOne \notin Requests /\ NoConfig \notin Config

VARIABLES
  up,        \* the gateway process runs
  view,      \* Manager.current, the published snapshot
  disk,      \* config.yaml
  cache,     \* Server.modelCache
  txMu,      \* holder of Server.txMu
  pc,        \* where each write request is
  asked,     \* [op, base] of each request
  tx,        \* what a request carries between its steps
  answer,    \* the response of a request
  file,      \* the settings each client file expresses
  pointing,  \* settings a point request computed and has not applied yet
  points,    \* point requests so far
  fetching,  \* probes in flight
  drift,     \* history: managed clients whose file a point request, a crash or a
             \* failed rollback left behind
  stale      \* history: managed clients whose catalog the discovery cache changed
             \* under, and whose file was not written since

gateway == <<up, view, disk, cache, txMu>>
requests == <<pc, asked, tx, answer>>
clients == <<file, pointing, points, drift, stale>>
vars == <<gateway, requests, clients, fetching>>

(***************************************************************************)
(* Helpers.                                                                *)
(***************************************************************************)

\* clientSettingsChanges lists the clients in this order; they are synchronised
\* in it and rolled back in reverse.
SyncRank(c) ==
  CASE c = "codex" -> 1
    [] c = "claude" -> 2
    [] c = "claude-desktop" -> 3
    [] OTHER -> 4

Earliest(cs) == {c \in cs : \A d \in cs : SyncRank(c) <= SyncRank(d)}
Latest(cs) == {c \in cs : \A d \in cs : SyncRank(d) <= SyncRank(c)}

\* modelCatalog walks the key groups of a provider in random order when it adds
\* discovered models.
OrderIsRandom(cfg, discovered) ==
  \E r1, r2 \in DiscoveredRefs(cfg, discovered) \ EnabledRefs(cfg) :
    r1.provider = r2.provider /\ r1.key # r2.key

\* Settings.Equal compares catalogs entry by entry, and a catalog here has no order:
\* requests that may put the entries of a catalog, the declared models before the
\* discovered ones, in another order.
Reorders(cfg, next, discovered, op) ==
  \/ OrderIsRandom(cfg, discovered) \/ OrderIsRandom(next, discovered)
  \/ EnabledRefs(cfg) # EnabledRefs(next)
  \/ op.kind \in {"updateProvider", "availability", "updateKeyGroup", "settings"}

\* Mutant: only the catalogs are compared.
CatalogChanged(cfg, next, discovered) ==
  {c \in PointClients : ModelCatalog(cfg, discovered) # ModelCatalog(next, discovered)}

Changed(cfg, next, discovered) ==
  {c \in PointClients : ClientSettings(cfg, discovered, c) # ClientSettings(next, discovered, c)}

\* The clients a transaction may decide to synchronise.
SyncSets(cfg, next, discovered, op) ==
  IF op.kind = "logging" THEN {{}}
  ELSE LET changed == Changed(cfg, next, discovered)
       IN  IF Reorders(cfg, next, discovered, op)
             THEN {cs \in SUBSET PointClients : changed \subseteq cs}
             ELSE {changed}

NothingAsked == [op |-> Omitted, base |-> Omitted]
NoTx == [start |-> NoConfig, next |-> NoConfig, known |-> NoModels, todo |-> {}, applied |-> {}]

Managed(c) == file[c] # NoSettings

\* What the file of c must express for the published snapshot.
Current(c) == ClientSettings(view, cache, c)

\* The managed clients whose settings change when the discovered models do, from
\* known to found; nobody writes their files for it.
Behind(known, found) ==
  {c \in PointClients :
     Managed(c) /\ ClientSettings(view, found, c) # ClientSettings(view, known, c)}

Before(r, c) == ClientSettings(tx[r].start, tx[r].known, c)
After(r, c) == ClientSettings(tx[r].next, tx[r].known, c)

(***************************************************************************)
(* Initial state: the gateway has loaded the file, and the clients pointed *)
(* in an earlier run agree with it.                                        *)
(***************************************************************************)

Init ==
  /\ up = TRUE
  /\ view = InitialConfig
  /\ disk = InitialConfig
  /\ cache = NoModels
  /\ txMu = NoOne
  /\ pc = [r \in Requests |-> "idle"]
  /\ asked = [r \in Requests |-> NothingAsked]
  /\ tx = [r \in Requests |-> NoTx]
  /\ answer = [r \in Requests |-> "none"]
  /\ \E managed \in SUBSET PointClients :
       file = [c \in PointClients |->
                 IF c \in managed THEN ClientSettings(InitialConfig, NoModels, c) ELSE NoSettings]
  /\ points = 0
  /\ pointing = [c \in PointClients |-> NoSettings]
  /\ fetching = {}
  /\ drift = {}
  /\ stale = {}

(***************************************************************************)
(* A write request.                                                        *)
(***************************************************************************)

\* The user sends a request; a settings page was filled from an earlier GET.
Receive(r) ==
  /\ up
  /\ pc[r] = "idle"
  /\ pc' = [pc EXCEPT ![r] = "waiting"]
  /\ \E op \in Operations : asked' = [asked EXCEPT ![r] = [op |-> op, base |-> view]]
  /\ UNCHANGED <<gateway, tx, answer, clients, fetching>>

\* A handler's response; every handler releases txMu when it returns.
Respond(r, response) ==
  /\ pc' = [pc EXCEPT ![r] = "done"]
  /\ answer' = [answer EXCEPT ![r] = response]
  /\ tx' = [tx EXCEPT ![r] = NoTx]
  /\ txMu' = NoOne
  /\ UNCHANGED asked

\* A handler takes txMu, builds the next config from snapshot and decides which
\* client files to synchronise.
Open(r, snapshot) ==
  LET next == Result(snapshot, asked[r].op, asked[r].base)
  IN  /\ pc[r] = "waiting"
      /\ Accepts(snapshot, cache, asked[r].op, asked[r].base)
      /\ txMu' = r
      /\ pc' = [pc EXCEPT ![r] = "sync"]
      /\ \E cs \in SyncSets(snapshot, next, cache, asked[r].op) :
           tx' = [tx EXCEPT ![r] =
                    [start |-> snapshot, next |-> next, known |-> cache,
                     todo |-> cs, applied |-> {}]]
      /\ UNCHANGED <<up, view, disk, cache, asked, answer, clients, fetching>>

\* Mutants: a handler that does not wait for txMu, and one that took its snapshot
\* before it waited.
BeginWithoutLock(r) == up /\ Open(r, view)
BeginFromEarlierSnapshot(r) == txMu = NoOne /\ Open(r, asked[r].base)

\* txMu is acquired, then the snapshot is read and the request passes its checks.
Begin(r) == txMu = NoOne /\ Open(r, view)

Reject(r) ==
  /\ pc[r] = "waiting"
  /\ txMu = NoOne
  /\ ~Accepts(view, cache, asked[r].op, asked[r].base)
  /\ Respond(r, "rejected")
  /\ UNCHANGED <<up, view, disk, cache, clients, fetching>>

\* Mutant: the changed client is not remembered for the rollback.
SyncOneForgotten(r) ==
  /\ pc[r] = "sync"
  /\ \E c \in Earliest(tx[r].todo) :
       /\ file' = IF Managed(c) THEN [file EXCEPT ![c] = After(r, c)] ELSE file
       /\ tx' = [tx EXCEPT ![r].todo = @ \ {c}]
       /\ stale' = stale \ {c}
  /\ UNCHANGED <<gateway, pc, asked, answer, pointing, points, drift, fetching>>

\* applyClientSettingsChanges: one client.  A file that is not managed, or that
\* already expresses the settings, is not rewritten and will not be rolled back.
SyncOne(r) ==
  /\ pc[r] = "sync"
  /\ \E c \in Earliest(tx[r].todo) :
       \/ /\ ~Managed(c) \/ file[c] = After(r, c)
          /\ tx' = [tx EXCEPT ![r].todo = @ \ {c}]
          /\ UNCHANGED <<file, stale>>
       \/ /\ Managed(c) /\ file[c] # After(r, c)
          /\ tx' = [tx EXCEPT ![r].todo = @ \ {c}, ![r].applied = @ \cup {c}]
          /\ file' = [file EXCEPT ![c] = After(r, c)]
          /\ stale' = stale \ {c}
  /\ UNCHANGED <<gateway, pc, asked, answer, pointing, points, drift, fetching>>

\* One client cannot be synchronised.  SyncSettings undoes what it wrote, and if
\* that fails too the new settings stay (PartialFailureError).
SyncFails(r) ==
  /\ pc[r] = "sync"
  /\ pc' = [pc EXCEPT ![r] = "rollback"]
  /\ \E c \in Earliest(tx[r].todo) :
       \/ UNCHANGED <<file, drift>>
       \/ /\ Managed(c)
          /\ file' = [file EXCEPT ![c] = After(r, c)]
          /\ drift' = drift \cup {c}
  /\ UNCHANGED <<gateway, asked, tx, answer, pointing, points, stale, fetching>>

\* Mutants: Write trusts its caller's validation; Write ignores a failed rename.
WriteFileUnvalidated(r) ==
  /\ pc[r] = "sync"
  /\ tx[r].todo = {}
  /\ disk' = Persisted(tx[r].next)
  /\ pc' = [pc EXCEPT ![r] = "publish"]
  /\ UNCHANGED <<up, view, cache, txMu, asked, tx, answer, clients, fetching>>

WriteFileNotRenamed(r) ==
  /\ pc[r] = "sync"
  /\ tx[r].todo = {}
  /\ Valid(tx[r].next)
  /\ pc' = [pc EXCEPT ![r] = "publish"]
  /\ UNCHANGED <<gateway, asked, tx, answer, clients, fetching>>

\* Manager.Write: validated, then renamed over config.yaml ...
WriteFile(r) ==
  /\ pc[r] = "sync"
  /\ tx[r].todo = {}
  /\ Valid(tx[r].next)
  /\ disk' = Persisted(tx[r].next)
  /\ pc' = [pc EXCEPT ![r] = "publish"]
  /\ UNCHANGED <<up, view, cache, txMu, asked, tx, answer, clients, fetching>>

\* ... and only then stored as the snapshot everyone reads.
Publish(r) ==
  /\ pc[r] = "publish"
  /\ view' = tx[r].next
  /\ pc' = [pc EXCEPT ![r] = "finish"]
  /\ UNCHANGED <<up, disk, cache, txMu, asked, tx, answer, clients, fetching>>

\* Validation, marshalling, the temporary file or the rename fails.
WriteFails(r) ==
  /\ pc[r] = "sync"
  /\ tx[r].todo = {}
  /\ pc' = [pc EXCEPT ![r] = "rollback"]
  /\ UNCHANGED <<gateway, asked, tx, answer, clients, fetching>>

\* invalidateModels after the write, then the response.  The files were computed
\* with the models known when the transaction began.
Finish(r) ==
  /\ pc[r] = "finish"
  /\ cache' = InvalidateModels(cache, asked[r].op)
  /\ stale' = stale \cup Behind(tx[r].known, cache')
  /\ Respond(r, "ok")
  /\ UNCHANGED <<up, view, disk, file, pointing, points, drift, fetching>>

\* rollbackClientSettingsChanges, last client first, going on after an error.
RollbackOne(r) ==
  /\ pc[r] = "rollback"
  /\ \E c \in Latest(tx[r].applied) :
       /\ \/ /\ file' = IF Managed(c) THEN [file EXCEPT ![c] = Before(r, c)] ELSE file
             /\ UNCHANGED drift
          \/ /\ drift' = IF Managed(c) THEN drift \cup {c} ELSE drift
             /\ UNCHANGED file
       /\ tx' = [tx EXCEPT ![r].applied = @ \ {c}]
  /\ UNCHANGED <<gateway, pc, asked, answer, pointing, points, stale, fetching>>

\* Mutant: the error path returns without releasing txMu.
AbortHoldingLock(r) ==
  /\ pc[r] = "rollback"
  /\ tx[r].applied = {}
  /\ pc' = [pc EXCEPT ![r] = "done"]
  /\ answer' = [answer EXCEPT ![r] = "error"]
  /\ UNCHANGED <<gateway, asked, tx, clients, fetching>>

Abort(r) ==
  /\ pc[r] = "rollback"
  /\ tx[r].applied = {}
  /\ stale' = stale \cup Behind(tx[r].known, cache)
  /\ Respond(r, "error")
  /\ UNCHANGED <<up, view, disk, cache, file, pointing, points, drift, fetching>>

(***************************************************************************)
(* Pointing and restoring a client: no txMu, only the mutex of             *)
(* point.Manager around the file operation itself.                         *)
(***************************************************************************)

\* pointContext computes the settings, handlePointClient applies them later.
StartPoint(c) ==
  /\ up
  /\ points < MaxPoints
  /\ points' = points + 1
  /\ pointing[c] = NoSettings
  /\ pointing' = [pointing EXCEPT ![c] = Current(c)]
  /\ UNCHANGED <<gateway, requests, file, drift, stale, fetching>>

FinishPoint(c) ==
  /\ pointing[c] # NoSettings
  /\ file' = [file EXCEPT ![c] = pointing[c]]
  /\ pointing' = [pointing EXCEPT ![c] = NoSettings]
  /\ \/ /\ txMu = NoOne /\ pointing[c] = Current(c)
        /\ drift' = drift \ {c} /\ stale' = stale \ {c}
     \/ /\ ~(txMu = NoOne /\ pointing[c] = Current(c))
        /\ drift' = drift \cup {c} /\ UNCHANGED stale
  /\ UNCHANGED <<gateway, requests, points, fetching>>

FailPoint(c) ==
  /\ pointing[c] # NoSettings
  /\ pointing' = [pointing EXCEPT ![c] = NoSettings]
  /\ UNCHANGED <<gateway, requests, file, points, drift, stale, fetching>>

RestoreClient(c) ==
  /\ up
  /\ Managed(c)
  /\ file' = [file EXCEPT ![c] = NoSettings]
  /\ drift' = drift \ {c}
  /\ stale' = stale \ {c}
  /\ UNCHANGED <<gateway, requests, pointing, points, fetching>>

(***************************************************************************)
(* Model discovery: the probe reads the config, the answer is cached       *)
(* whenever it arrives.                                                    *)
(***************************************************************************)

StartFetch(d) ==
  /\ up
  /\ HasGroup(view, d[1], d[2])
  /\ d \notin fetching
  /\ fetching' = fetching \cup {d}
  /\ UNCHANGED <<gateway, requests, clients>>

\* The answer is cached, and no client file is written for it.  What it changes for
\* an open transaction shows when that ends.
FinishFetch(d) ==
  /\ d \in fetching
  /\ fetching' = fetching \ {d}
  /\ cache' = [cache EXCEPT ![<<d[1], d[2]>>] = d[3]]
  /\ stale' = IF txMu = NoOne THEN stale \cup Behind(cache, cache') ELSE stale
  /\ UNCHANGED <<up, view, disk, txMu, requests, file, pointing, points, drift>>

FailFetch(d) ==
  /\ d \in fetching
  /\ fetching' = fetching \ {d}
  /\ UNCHANGED <<gateway, requests, clients>>

(***************************************************************************)
(* The process dies and is started again.  Start-up loads and validates    *)
(* the file and does not look at the client files.                         *)
(***************************************************************************)

InProgress(r) == pc[r] \notin {"idle", "done"}

Crash ==
  /\ up
  /\ up' = FALSE
  /\ view' = NoConfig
  /\ cache' = NoModels
  /\ txMu' = NoOne
  /\ pc' = [r \in Requests |-> IF InProgress(r) THEN "done" ELSE pc[r]]
  /\ answer' = [r \in Requests |-> IF InProgress(r) THEN "lost" ELSE answer[r]]
  /\ tx' = [r \in Requests |-> NoTx]
  /\ pointing' = [c \in PointClients |-> NoSettings]
  /\ fetching' = {}
  /\ drift' = drift \cup {c \in PointClients :
                Managed(c) /\ file[c] # ClientSettings(disk, NoModels, c)}
  /\ stale' = {}
  /\ UNCHANGED <<disk, asked, file, points>>

Restart ==
  /\ ~up
  /\ Valid(disk)
  /\ up' = TRUE
  /\ view' = disk
  /\ UNCHANGED <<disk, cache, txMu, requests, clients, fetching>>

(***************************************************************************)
(* Specification.                                                          *)
(***************************************************************************)

\* What the goroutine of a request does on its own once the request is in.
Step(r) ==
  \/ Begin(r) \/ Reject(r)
  \/ SyncOne(r) \/ SyncFails(r)
  \/ WriteFile(r) \/ WriteFails(r) \/ Publish(r) \/ Finish(r)
  \/ RollbackOne(r) \/ Abort(r)

Next ==
  \/ \E r \in Requests : Receive(r) \/ Step(r)
  \/ \E c \in PointClients : StartPoint(c) \/ FinishPoint(c) \/ FailPoint(c) \/ RestoreClient(c)
  \/ \E d \in Discoveries : StartFetch(d) \/ FinishFetch(d) \/ FailFetch(d)
  \/ Crash
  \/ Restart

Spec == Init /\ [][Next]_vars

\* A goroutine that can run does run; nobody is obliged to point, to probe, to
\* crash or to start the program again.
FairSpec == Spec /\ \A r \in Requests : WF_vars(Step(r))

(***************************************************************************)
(* Properties.                                                             *)
(***************************************************************************)

Phases == {"idle", "waiting", "sync", "publish", "finish", "rollback", "done"}

Settings ==
  [catalog : SUBSET Ref, compaction : BOOLEAN, helper : Ref \cup {NoRef},
   display : Ref \cup {NoRef}] \cup {NoSettings}

Request == [op : Operation \cup {Omitted}, base : Config \cup {Omitted}]

Tx ==
  [start : Config \cup {NoConfig}, next : Config \cup {NoConfig}, known : Cache,
   todo : SUBSET PointClients, applied : SUBSET PointClients]

\* The state is made of configurations, settings, caches and requests, and a
\* request that is in has been asked something.
TypeOK ==
  /\ up \in BOOLEAN
  /\ view \in Config \cup {NoConfig}
  /\ disk \in Config
  /\ cache \in Cache
  /\ txMu \in Requests \cup {NoOne}
  /\ pc \in [Requests -> Phases]
  /\ asked \in [Requests -> Request]
  /\ tx \in [Requests -> Tx]
  /\ answer \in [Requests -> {"none", "ok", "rejected", "error", "lost"}]
  /\ file \in [PointClients -> Settings]
  /\ pointing \in [PointClients -> Settings]
  /\ points \in 0..MaxPoints
  /\ fetching \subseteq Discoveries
  /\ drift \subseteq PointClients
  /\ stale \subseteq PointClients

\* What strengthens TypeOK to an inductive invariant: a running gateway has a
\* configuration, and a request in progress has what it works on.
Loaded ==
  /\ up => view \in Config
  /\ \A r \in Requests : InProgress(r) => up

AskedSomething ==
  \A r \in Requests : pc[r] # "idle" => asked[r].op \in Operation /\ asked[r].base \in Config

TxFilled ==
  \A r \in Requests : pc[r] \in {"sync", "publish", "rollback"} =>
    tx[r].start \in Config /\ tx[r].next \in Config

TypeInv == TypeOK /\ Loaded /\ AskedSomething /\ TxFilled

\* Between the write of the file and the publication of the snapshot.
Publishing == \E r \in Requests : pc[r] = "publish"

\* What the data plane serves is what config.yaml holds, except while a write
\* is between its two halves: a configuration that was ever served or answered
\* for is the one the next start finds (Manager.Write).
ViewIsDurable == up /\ ~Publishing => disk = Persisted(view)

\* Every snapshot the data plane can read is valid, its routes included, whatever
\* the handlers let through before they reach Manager.Write.
ViewIsValid == up => Valid(view)

\* A transaction never outlives the snapshot it started from: from the moment it
\* reads the snapshot to the moment it publishes, nobody else replaces it.
SnapshotIsFresh ==
  \A r \in Requests :
    pc[r] \in {"sync", "publish", "rollback"} => tx[r].start = view /\ txMu = r

\* What a client file says besides the catalog, all of it from the configuration.
Preferences(settings) == <<settings.compaction, settings.helper, settings.display>>

\* The file of c expresses these settings, the catalog excepted when the discovery
\* cache changed under it.
Expresses(c, settings) ==
  \/ file[c] = settings
  \/ c \in stale /\ Preferences(file[c]) = Preferences(settings)

\* When no transaction is open, every managed client file expresses the published
\* snapshot: a request that failed anywhere left no half of its change behind, and
\* one that succeeded left no client out (syncClientsThenWrite).  Excepted are the
\* clients a point request, a crash or a failed rollback left behind (drift), and
\* the catalog of those whose discovered models came or went after their file was
\* written (stale): neither a probe nor invalidateModels writes a file.
FilesAgree ==
  up /\ txMu = NoOne =>
    \A c \in PointClients \ drift : Managed(c) => Expresses(c, Current(c))

\* A model that is switched on is in the list of every managed client when no
\* transaction is open: a client picker and the data plane never disagree about
\* which models exist (modelCatalog).
EnabledModelsAreListed ==
  up /\ txMu = NoOne =>
    \A c \in PointClients \ drift : Managed(c) => EnabledRefs(view) \subseteq file[c].catalog

\* The API key of a key group that stays changes only by a request on that
\* provider: a settings page filled before a key was rotated does not bring the
\* old key back (preserveKeyGroupAPIKeys).
OnPurpose ==
  up /\ up' =>
    \A p \in Providers, k \in Keys :
      HasGroup(view, p, k) /\ HasGroup(view', p, k)
        /\ view'.providers[p].groups[k].apiKey # view.providers[p].groups[k].apiKey
      => \E r \in Requests :
           /\ pc[r] = "publish"
           /\ asked[r].op.kind \in {"updateProvider", "updateKeyGroup"}
           /\ asked[r].op.provider = p

KeysChangeOnPurpose == [][OnPurpose]_vars

\* Manager.Write replaces config.yaml by a configuration it has validated, so the
\* next start can load it.
WrittenFileIsValid == Valid(disk)

\* A request that names no model always has somewhere to go: however providers, key
\* groups and models are edited, the route of a client resolves to itself unless its
\* provider is switched off (Validate against Resolve).
RoutesResolve ==
  up => \A c \in Clients :
    view.providers[view.routes[c].provider].enabled =>
      Resolve(view, c, DefaultModel) = view.routes[c]

\* What strengthens the invariants above to an inductive one: only the holder of
\* txMu is between two steps of a transaction, it works on what it asked for, and
\* what it publishes is in the file already.
LockHeld ==
  \A r \in Requests : pc[r] \in {"sync", "publish", "finish", "rollback"} => txMu = r

NextIsResult ==
  \A r \in Requests : pc[r] \in {"sync", "publish"} =>
    /\ tx[r].next = Result(tx[r].start, asked[r].op, asked[r].base)
    /\ Accepts(tx[r].start, tx[r].known, asked[r].op, asked[r].base)

WrittenFirst ==
  \A r \in Requests : pc[r] = "publish" => disk = Persisted(tx[r].next) /\ Valid(tx[r].next)

DiskIsPersisted == Persisted(disk) = disk

IInv ==
  /\ TypeInv
  /\ LockHeld
  /\ SnapshotIsFresh
  /\ NextIsResult
  /\ WrittenFirst
  /\ DiskIsPersisted
  /\ ViewIsDurable
  /\ ViewIsValid

\* The state of ConfigStore.
StoreState ==
  IF Publishing THEN tx[CHOOSE r \in Requests : pc[r] = "publish"].next
  ELSE IF up THEN view ELSE disk

PhaseOf(r) ==
  CASE pc[r] = "idle" -> "idle"
    [] pc[r] = "done" -> answer[r]
    [] pc[r] \in {"publish", "finish"} -> "committed"
    [] OTHER -> "open"

StorePhase == [r \in Requests |-> PhaseOf(r)]

Store == INSTANCE ConfigStore WITH store <- StoreState, phase <- StorePhase

\* Every request takes effect at one instant on the configuration as it is then,
\* or not at all, and is answered accordingly: no update is lost, none is applied
\* to a stale snapshot, and a committed one survives a crash.
ImplementsStore == Store!Spec

\* A request that is in gets its answer, unless the process dies first.
EveryRequestEnds == \A r \in Requests : pc[r] = "waiting" ~> pc[r] = "done"
=============================================================================
