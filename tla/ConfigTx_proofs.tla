-------------------------- MODULE ConfigTx_proofs --------------------------
(***************************************************************************)
(* Proofs about ConfigTx for any number of requests, clients, providers,   *)
(* key groups and models, and that it implements ConfigStore.              *)
(***************************************************************************)
EXTENDS ConfigTx, GatewayConfig_proofs, FiniteSetTheorems

(***************************************************************************)
(* Types.                                                                  *)
(***************************************************************************)

LEMMA SettingsType ==
  ASSUME NEW cfg \in Config, NEW known \in Cache, NEW c \in PointClients
  PROVE  ClientSettings(cfg, known, c) \in Settings
BY ClientSettingsType, PointClientsAssumption DEF Settings

LEMMA NoTxType == NoTx \in Tx
BY NoModelsType DEF NoTx, Tx

LEMMA SyncSetsType ==
  ASSUME NEW cfg, NEW next, NEW known, NEW op
  PROVE  SyncSets(cfg, next, known, op) \subseteq SUBSET PointClients
BY DEF SyncSets, Changed

LEMMA InitTypeInv == Init => TypeInv
<1> SUFFICES ASSUME Init PROVE TypeInv
  OBVIOUS
<1> USE InitialAssumption
<1>1. cache \in Cache
  BY NoModelsType DEF Init
<1>2. asked \in [Requests -> Request]
  BY DEF Init, NothingAsked, Request
<1>3. tx \in [Requests -> Tx]
  BY NoTxType DEF Init
<1>4. file \in [PointClients -> Settings]
  <2>1. PICK managed \in SUBSET PointClients :
          file = [c \in PointClients |->
                    IF c \in managed THEN ClientSettings(InitialConfig, NoModels, c)
                    ELSE NoSettings]
    BY DEF Init
  <2>2. \A c \in PointClients : ClientSettings(InitialConfig, NoModels, c) \in Settings
    BY SettingsType, NoModelsType
  <2>3. NoSettings \in Settings
    BY DEF Settings
  <2>4. QED
    BY <2>1, <2>2, <2>3
<1>5. TypeOK
  BY <1>1, <1>2, <1>3, <1>4, MaxPointsAssumption DEF Init, TypeOK, Settings, Phases
<1>6. Loaded /\ AskedSomething /\ TxFilled
  BY DEF Init, Loaded, AskedSomething, TxFilled, InProgress
<1>7. QED
  BY <1>5, <1>6 DEF TypeInv

\* What a handler leaves behind when it returns.
LEMMA RespondTypes ==
  ASSUME TypeInv, NEW r \in Requests, NEW response \in {"ok", "rejected", "error"},
         pc[r] # "idle", Respond(r, response)
  PROVE  /\ pc' \in [Requests -> Phases]
         /\ answer' \in [Requests -> {"none", "ok", "rejected", "error", "lost"}]
         /\ tx' \in [Requests -> Tx]
         /\ txMu' \in Requests \cup {NoOne}
         /\ asked' = asked
         /\ \A x \in Requests : pc'[x] # pc[x] => pc'[x] = "done"
         /\ \A x \in Requests : pc'[x] # "idle" => pc[x] # "idle"
         /\ \A x \in Requests : pc'[x] # "done" => pc'[x] = pc[x] /\ tx'[x] = tx[x]
BY NoTxType DEF TypeInv, TypeOK, Respond, Phases

LEMMA RequestTypeInv ==
  ASSUME TypeInv, NEW r \in Requests, Receive(r) \/ Step(r)
  PROVE  TypeInv'
<1> USE DEF TypeInv, gateway, requests, clients
<1>1. CASE Receive(r)
  <2>1. view \in Config
    BY <1>1 DEF Receive, Loaded
  <2>2. PICK op \in Operations : asked' = [asked EXCEPT ![r] = [op |-> op, base |-> view]]
    BY <1>1 DEF Receive
  <2>3. op \in Operation
    BY OperationsAssumption
  <2>4. [op |-> op, base |-> view] \in Request
    BY <2>1, <2>3 DEF Request
  <2>5. TypeOK'
    BY <1>1, <2>2, <2>4 DEF Receive, TypeOK, Phases
  <2>6. Loaded' /\ TxFilled'
    BY <1>1 DEF Receive, TypeOK, Loaded, TxFilled, InProgress
  <2>7. AskedSomething'
    BY <1>1, <2>1, <2>2, <2>3 DEF Receive, TypeOK, AskedSomething
  <2>8. QED
    BY <2>5, <2>6, <2>7
<1>2. CASE Begin(r)
  <2> DEFINE next == Result(view, asked[r].op, asked[r].base)
  <2>1. pc[r] = "waiting" /\ Accepts(view, cache, asked[r].op, asked[r].base)
    BY <1>2 DEF Begin, Open
  <2>2. view \in Config /\ asked[r].op \in Operation /\ asked[r].base \in Config
    BY <2>1 DEF Loaded, InProgress, AskedSomething
  <2>3. next \in Config
    BY <2>1, <2>2, ResultIsConfig DEF TypeOK
  <2>4. PICK cs \in SyncSets(view, next, cache, asked[r].op) :
          tx' = [tx EXCEPT ![r] = [start |-> view, next |-> next, known |-> cache,
                                   todo |-> cs, applied |-> {}]]
    BY <1>2 DEF Begin, Open
  <2> HIDE DEF next
  <2>5. cs \in SUBSET PointClients
    BY SyncSetsType
  <2>6. [start |-> view, next |-> next, known |-> cache, todo |-> cs, applied |-> {}] \in Tx
    BY <2>2, <2>3, <2>5 DEF Tx, TypeOK
  <2>7. TypeOK'
    BY <1>2, <2>4, <2>6 DEF Begin, Open, TypeOK, Phases
  <2>8. Loaded' /\ AskedSomething'
    BY <1>2, <2>1 DEF Begin, Open, TypeOK, Loaded, AskedSomething, InProgress
  <2>9. TxFilled'
    BY <1>2, <2>2, <2>3, <2>4 DEF Begin, Open, TypeOK, TxFilled
  <2>10. QED
    BY <2>7, <2>8, <2>9
<1>3. CASE Reject(r)
  <2>1. pc[r] # "idle" /\ Respond(r, "rejected")
    BY <1>3 DEF Reject
  <2>2. QED
    BY <1>3, <2>1, RespondTypes
       DEF Reject, TypeOK, Loaded, AskedSomething, TxFilled, InProgress
<1>4. CASE SyncOne(r)
  <2>1. PICK c \in Earliest(tx[r].todo) :
          \/ tx' = [tx EXCEPT ![r].todo = @ \ {c}] /\ UNCHANGED file
          \/ /\ tx' = [tx EXCEPT ![r].todo = @ \ {c}, ![r].applied = @ \cup {c}]
             /\ file' = [file EXCEPT ![c] = After(r, c)]
    BY <1>4 DEF SyncOne
  <2>2. pc[r] = "sync" /\ tx[r] \in Tx /\ tx[r].next \in Config /\ tx[r].known \in Cache
    BY <1>4 DEF SyncOne, TypeOK, TxFilled, Tx
  <2>3. c \in PointClients
    BY <2>2 DEF Earliest, Tx
  <2>4. After(r, c) \in Settings
    BY <2>2, <2>3, SettingsType DEF After
  <2>5. file' \in [PointClients -> Settings]
    BY <2>1, <2>3, <2>4 DEF TypeOK
  <2>6. /\ tx' \in [Requests -> Tx]
        /\ \A x \in Requests : tx'[x].start = tx[x].start /\ tx'[x].next = tx[x].next
    <3> DEFINE t == [tx[r] EXCEPT !.todo = tx[r].todo \ {c}, !.applied = tx[r].applied \cup {c}]
    <3>1. CASE tx' = [tx EXCEPT ![r].todo = @ \ {c}]
      BY <2>2, <2>3, <3>1 DEF TypeOK, Tx
    <3>2. CASE tx' = [tx EXCEPT ![r].todo = @ \ {c}, ![r].applied = @ \cup {c}]
      <4>1. t \in Tx /\ t.start = tx[r].start /\ t.next = tx[r].next
        BY <2>2, <2>3 DEF Tx
      <4>2. tx' = [tx EXCEPT ![r] = t]
        BY <3>2, <2>2 DEF TypeOK, Tx
      <4> HIDE DEF t
      <4>3. QED
        BY <4>1, <4>2 DEF TypeOK
    <3>3. QED
      BY <2>1, <3>1, <3>2
  <2>7. TypeOK'
    BY <1>4, <2>5, <2>6 DEF SyncOne, TypeOK
  <2>8. Loaded' /\ AskedSomething' /\ TxFilled'
    BY <1>4, <2>6 DEF SyncOne, Loaded, AskedSomething, TxFilled, InProgress
  <2>9. QED
    BY <2>7, <2>8
<1>5. CASE SyncFails(r)
  <2>1. PICK c \in Earliest(tx[r].todo) :
          \/ UNCHANGED <<file, drift>>
          \/ file' = [file EXCEPT ![c] = After(r, c)] /\ drift' = drift \cup {c}
    BY <1>5 DEF SyncFails
  <2>2. pc[r] = "sync" /\ tx[r] \in Tx /\ tx[r].next \in Config /\ tx[r].known \in Cache
    BY <1>5 DEF SyncFails, TypeOK, TxFilled, Tx
  <2>3. c \in PointClients
    BY <2>2 DEF Earliest, Tx
  <2>4. After(r, c) \in Settings
    BY <2>2, <2>3, SettingsType DEF After
  <2>5. file' \in [PointClients -> Settings] /\ drift' \subseteq PointClients
    BY <2>1, <2>3, <2>4 DEF TypeOK
  <2>6. TypeOK'
    BY <1>5, <2>5 DEF SyncFails, TypeOK, Phases
  <2>7. Loaded' /\ AskedSomething' /\ TxFilled'
    BY <1>5 DEF SyncFails, TypeOK, Loaded, AskedSomething, TxFilled, InProgress
  <2>8. QED
    BY <2>6, <2>7
<1>6. CASE WriteFile(r)
  <2>1. disk' \in Config
    BY <1>6, PersistedType DEF WriteFile, TxFilled
  <2>2. TypeOK'
    BY <1>6, <2>1 DEF WriteFile, TypeOK, Phases
  <2>3. QED
    BY <1>6, <2>2 DEF WriteFile, TypeOK, Loaded, AskedSomething, TxFilled, InProgress
<1>7. CASE WriteFails(r)
  BY <1>7 DEF WriteFails, TypeOK, Loaded, AskedSomething, TxFilled, InProgress, Phases
<1>8. CASE Publish(r)
  <2>1. view' \in Config
    BY <1>8 DEF Publish, TxFilled
  <2>2. QED
    BY <1>8, <2>1 DEF Publish, TypeOK, Loaded, AskedSomething, TxFilled, InProgress, Phases
<1>9. CASE Finish(r)
  <2>1. cache' \in Cache
    BY <1>9, InvalidateType DEF Finish, TypeOK
  <2>2. stale' \subseteq PointClients
    BY <1>9 DEF Finish, TypeOK, Behind
  <2>3. pc[r] # "idle" /\ Respond(r, "ok")
    BY <1>9 DEF Finish
  <2>4. QED
    BY <1>9, <2>1, <2>2, <2>3, RespondTypes
       DEF Finish, TypeOK, Loaded, AskedSomething, TxFilled, InProgress
<1>10. CASE RollbackOne(r)
  <2>1. PICK c \in Latest(tx[r].applied) :
          /\ \/ file' = (IF Managed(c) THEN [file EXCEPT ![c] = Before(r, c)] ELSE file)
                  /\ UNCHANGED drift
             \/ drift' = (IF Managed(c) THEN drift \cup {c} ELSE drift) /\ UNCHANGED file
          /\ tx' = [tx EXCEPT ![r].applied = @ \ {c}]
    BY <1>10 DEF RollbackOne
  <2>2. pc[r] = "rollback" /\ tx[r] \in Tx /\ tx[r].start \in Config /\ tx[r].known \in Cache
    BY <1>10 DEF RollbackOne, TypeOK, TxFilled, Tx
  <2>3. c \in PointClients
    BY <2>2 DEF Latest, Tx
  <2>4. Before(r, c) \in Settings
    BY <2>2, <2>3, SettingsType DEF Before
  <2>5. file' \in [PointClients -> Settings] /\ drift' \subseteq PointClients
    BY <2>1, <2>3, <2>4 DEF TypeOK
  <2>6. /\ tx' \in [Requests -> Tx]
        /\ \A x \in Requests : tx'[x].start = tx[x].start /\ tx'[x].next = tx[x].next
    BY <2>1, <2>2, <2>3 DEF TypeOK, Tx
  <2>7. TypeOK'
    BY <1>10, <2>5, <2>6 DEF RollbackOne, TypeOK
  <2>8. Loaded' /\ AskedSomething' /\ TxFilled'
    BY <1>10, <2>6 DEF RollbackOne, Loaded, AskedSomething, TxFilled, InProgress
  <2>9. QED
    BY <2>7, <2>8
<1>11. CASE Abort(r)
  <2>1. pc[r] # "idle" /\ Respond(r, "error") /\ stale' \subseteq PointClients
    BY <1>11 DEF Abort, TypeOK, Behind
  <2>2. QED
    BY <1>11, <2>1, RespondTypes
       DEF Abort, TypeOK, Loaded, AskedSomething, TxFilled, InProgress
<1>12. QED
  BY <1>1, <1>2, <1>3, <1>4, <1>5, <1>6, <1>7, <1>8, <1>9, <1>10, <1>11 DEF Step

LEMMA ClientTypeInv ==
  ASSUME TypeInv, NEW c \in PointClients,
         StartPoint(c) \/ FinishPoint(c) \/ FailPoint(c) \/ RestoreClient(c)
  PROVE  TypeInv'
<1> USE DEF TypeInv, gateway, requests, clients
<1>1. Loaded' /\ AskedSomething' /\ TxFilled'
  BY DEF StartPoint, FinishPoint, FailPoint, RestoreClient,
         Loaded, AskedSomething, TxFilled, InProgress
<1>2. NoSettings \in Settings
  BY DEF Settings
<1>3. CASE StartPoint(c)
  <2>1. Current(c) \in Settings
    BY <1>3, SettingsType DEF StartPoint, Current, Loaded, TypeOK
  <2>2. TypeOK'
    BY <1>3, <2>1, MaxPointsAssumption DEF StartPoint, TypeOK
  <2>3. QED
    BY <1>1, <2>2
<1>4. CASE FinishPoint(c)
  BY <1>1, <1>2, <1>4 DEF FinishPoint, TypeOK
<1>5. CASE FailPoint(c)
  BY <1>1, <1>2, <1>5 DEF FailPoint, TypeOK
<1>6. CASE RestoreClient(c)
  BY <1>1, <1>2, <1>6 DEF RestoreClient, TypeOK
<1>7. QED
  BY <1>3, <1>4, <1>5, <1>6

LEMMA FetchTypeInv ==
  ASSUME TypeInv, NEW d \in Discoveries, StartFetch(d) \/ FinishFetch(d) \/ FailFetch(d)
  PROVE  TypeInv'
<1> USE DEF TypeInv, gateway, requests, clients
<1>1. Loaded' /\ AskedSomething' /\ TxFilled'
  BY DEF StartFetch, FinishFetch, FailFetch, Loaded, AskedSomething, TxFilled, InProgress
<1>2. CASE StartFetch(d)
  BY <1>1, <1>2 DEF StartFetch, TypeOK
<1>3. CASE FinishFetch(d)
  <2>1. <<d[1], d[2]>> \in Providers \X Keys /\ d[3] \in SUBSET Models
    BY DiscoveriesAssumption
  <2>2. cache' \in Cache
    BY <1>3, <2>1 DEF FinishFetch, TypeOK, Cache
  <2>3. stale' \subseteq PointClients
    BY <1>3 DEF FinishFetch, TypeOK, Behind
  <2>4. TypeOK'
    BY <1>3, <2>2, <2>3 DEF FinishFetch, TypeOK
  <2>5. QED
    BY <1>1, <2>4
<1>4. CASE FailFetch(d)
  BY <1>1, <1>4 DEF FailFetch, TypeOK
<1>5. QED
  BY <1>2, <1>3, <1>4

LEMMA ProcessTypeInv ==
  ASSUME TypeInv, Crash \/ Restart
  PROVE  TypeInv'
<1> USE DEF TypeInv, requests, clients
<1>1. CASE Crash
  <2>1. NoSettings \in Settings /\ NoModels \in Cache /\ NoTx \in Tx
    BY NoModelsType, NoTxType DEF Settings
  <2>2. \A r \in Requests : pc'[r] \in {"idle", "done"} /\ (pc'[r] # "idle" => pc[r] # "idle")
    BY <1>1 DEF Crash, InProgress, TypeOK
  <2>3. TypeOK'
    BY <1>1, <2>1 DEF Crash, TypeOK, Phases
  <2>4. Loaded' /\ AskedSomething' /\ TxFilled'
    BY <1>1, <2>2 DEF Crash, Loaded, AskedSomething, TxFilled, InProgress
  <2>5. QED
    BY <2>3, <2>4
<1>2. CASE Restart
  BY <1>2 DEF Restart, TypeOK, Loaded, AskedSomething, TxFilled, InProgress
<1>3. QED
  BY <1>1, <1>2

LEMMA StepTypeInv == TypeInv /\ [Next]_vars => TypeInv'
<1> SUFFICES ASSUME TypeInv, [Next]_vars PROVE TypeInv'
  OBVIOUS
<1>1. CASE Next
  BY <1>1, RequestTypeInv, ClientTypeInv, FetchTypeInv, ProcessTypeInv DEF Next
<1>2. CASE UNCHANGED vars
  BY <1>2 DEF vars, gateway, requests, clients, TypeInv, TypeOK, Loaded, AskedSomething,
              TxFilled, InProgress
<1>3. QED
  BY <1>1, <1>2

\* Every reachable state is made of configurations, settings, caches and requests.
THEOREM TypeCorrect == Spec => []TypeOK
<1>1. TypeInv => TypeOK
  BY DEF TypeInv
<1>2. QED
  BY <1>1, InitTypeInv, StepTypeInv, PTL DEF Spec

(***************************************************************************)
(* Safety: the transaction mutex, the snapshot and the file.               *)
(***************************************************************************)

LEMMA InitIInv == Init => IInv
<1> SUFFICES ASSUME Init PROVE IInv
  OBVIOUS
<1>1. LockHeld /\ SnapshotIsFresh /\ NextIsResult /\ WrittenFirst
  BY DEF Init, LockHeld, SnapshotIsFresh, NextIsResult, WrittenFirst
<1>2. DiskIsPersisted /\ ViewIsDurable /\ ViewIsValid
  BY InitialAssumption DEF Init, DiskIsPersisted, ViewIsDurable, ViewIsValid
<1>3. QED
  BY <1>1, <1>2, InitTypeInv DEF IInv

\* A step that leaves the snapshot, the file, txMu and the transactions alone.
LEMMA OutsideIInv ==
  ASSUME IInv, TypeInv', UNCHANGED <<up, view, disk, txMu, pc, asked, tx>>
  PROVE  IInv'
BY DEF IInv, LockHeld, SnapshotIsFresh, NextIsResult, WrittenFirst, DiskIsPersisted,
       ViewIsDurable, Publishing, ViewIsValid

\* While txMu is free nobody is inside a transaction.
LEMMA NobodyInside ==
  ASSUME IInv, txMu = NoOne
  PROVE  \A r \in Requests : pc[r] \notin {"sync", "publish", "finish", "rollback"}
BY NoneAssumption DEF IInv, LockHeld

\* A transaction excludes every other one.
LEMMA OnlyOneInside ==
  ASSUME IInv, NEW r \in Requests, pc[r] \in {"sync", "publish", "finish", "rollback"}
  PROVE  \A x \in Requests \ {r} : pc[x] \notin {"sync", "publish", "finish", "rollback"}
BY DEF IInv, LockHeld

LEMMA RequestIInv ==
  ASSUME IInv, TypeInv', NEW r \in Requests, Receive(r) \/ Step(r)
  PROVE  IInv'
<1> USE DEF gateway, requests, clients
<1> DEFINE Parts == LockHeld /\ SnapshotIsFresh /\ NextIsResult /\ WrittenFirst
           Files == DiskIsPersisted /\ ViewIsDurable /\ ViewIsValid
<1>1. CASE Receive(r)
  <2>1. Parts'
    BY <1>1 DEF Receive, IInv, TypeInv, TypeOK, LockHeld, SnapshotIsFresh, NextIsResult,
                WrittenFirst
  <2>2. Files'
    BY <1>1 DEF Receive, IInv, TypeInv, TypeOK, DiskIsPersisted, ViewIsDurable, Publishing,
                ViewIsValid
  <2>3. QED
    BY <2>1, <2>2 DEF IInv
<1>2. CASE Begin(r)
  <2>1. txMu = NoOne /\ pc[r] = "waiting"
    BY <1>2 DEF Begin, Open
  <2>2. \A x \in Requests : pc[x] \notin {"sync", "publish", "finish", "rollback"}
    BY <2>1, NobodyInside
  <2>3. /\ tx'[r].start = view
        /\ tx'[r].next = Result(view, asked[r].op, asked[r].base)
        /\ tx'[r].known = cache
    BY <1>2 DEF Begin, Open, IInv, TypeInv, TypeOK
  <2>4. \A x \in Requests : pc'[x] = IF x = r THEN "sync" ELSE pc[x]
    BY <1>2 DEF Begin, Open, IInv, TypeInv, TypeOK
  <2>5. LockHeld' /\ SnapshotIsFresh' /\ WrittenFirst'
    BY <1>2, <2>2, <2>3, <2>4 DEF Begin, Open, LockHeld, SnapshotIsFresh, WrittenFirst
  <2>6. NextIsResult'
    BY <1>2, <2>2, <2>3, <2>4 DEF Begin, Open, NextIsResult
  <2>7. Files'
    BY <1>2, <2>2, <2>4
       DEF Begin, Open, IInv, DiskIsPersisted, ViewIsDurable, Publishing, ViewIsValid
  <2>8. QED
    BY <2>5, <2>6, <2>7 DEF IInv
<1>3. CASE Reject(r) \/ Finish(r) \/ Abort(r)
  <2>1. /\ txMu = NoOne \/ pc[r] \in {"finish", "rollback"}
        /\ \E response \in {"ok", "rejected", "error"} : Respond(r, response)
        /\ pc[r] \notin {"idle", "publish"}
        /\ UNCHANGED <<up, view, disk, asked>>
    BY <1>3 DEF Reject, Finish, Abort, Respond
  <2>2. \A x \in Requests \ {r} : pc[x] \notin {"sync", "publish", "finish", "rollback"}
    BY <2>1, NobodyInside, OnlyOneInside
  <2>3. \A x \in Requests : pc'[x] = IF x = r THEN "done" ELSE pc[x]
    BY <2>1 DEF Respond, IInv, TypeInv, TypeOK
  <2>4. Parts'
    BY <2>2, <2>3 DEF LockHeld, SnapshotIsFresh, NextIsResult, WrittenFirst
  <2>5. Files'
    BY <2>1, <2>2, <2>3 DEF IInv, DiskIsPersisted, ViewIsDurable, Publishing, ViewIsValid
  <2>6. QED
    BY <2>4, <2>5 DEF IInv
<1>4. CASE SyncOne(r) \/ RollbackOne(r)
  <2>1. /\ UNCHANGED <<up, view, disk, txMu, pc, asked>>
        /\ \E c, d : tx' \in {[tx EXCEPT ![r].todo = c],
                              [tx EXCEPT ![r].todo = c, ![r].applied = d],
                              [tx EXCEPT ![r].applied = d]}
    BY <1>4 DEF SyncOne, RollbackOne
  <2>2. \A x \in Requests : /\ tx'[x].start = tx[x].start
                            /\ tx'[x].next = tx[x].next
                            /\ tx'[x].known = tx[x].known
    BY <2>1 DEF IInv, TypeInv, TypeOK, Tx
  <2>3. Parts'
    BY <2>1, <2>2 DEF IInv, LockHeld, SnapshotIsFresh, NextIsResult, WrittenFirst
  <2>4. Files'
    BY <2>1 DEF IInv, DiskIsPersisted, ViewIsDurable, Publishing, ViewIsValid
  <2>5. QED
    BY <2>3, <2>4 DEF IInv
<1>5. CASE SyncFails(r) \/ WriteFails(r)
  <2>1. /\ pc[r] = "sync"
        /\ pc' = [pc EXCEPT ![r] = "rollback"]
        /\ UNCHANGED <<up, view, disk, txMu, asked, tx>>
    BY <1>5 DEF SyncFails, WriteFails
  <2>2. \A x \in Requests : pc'[x] = IF x = r THEN "rollback" ELSE pc[x]
    BY <2>1 DEF IInv, TypeInv, TypeOK
  <2>3. Parts'
    BY <2>1, <2>2 DEF IInv, LockHeld, SnapshotIsFresh, NextIsResult, WrittenFirst
  <2>4. Files'
    BY <2>1, <2>2 DEF IInv, DiskIsPersisted, ViewIsDurable, Publishing, ViewIsValid
  <2>5. QED
    BY <2>3, <2>4 DEF IInv
<1>6. CASE WriteFile(r)
  <2>1. /\ pc[r] = "sync"
        /\ Valid(tx[r].next)
        /\ disk' = Persisted(tx[r].next)
        /\ UNCHANGED <<up, view, txMu, asked, tx>>
    BY <1>6 DEF WriteFile
  <2>2. \A x \in Requests : pc'[x] = IF x = r THEN "publish" ELSE pc[x]
    BY <1>6 DEF WriteFile, IInv, TypeInv, TypeOK
  <2>3. \A x \in Requests \ {r} : pc[x] \notin {"sync", "publish", "finish", "rollback"}
    BY <2>1, OnlyOneInside
  <2>4. LockHeld' /\ SnapshotIsFresh' /\ NextIsResult'
    BY <2>1, <2>2 DEF IInv, LockHeld, SnapshotIsFresh, NextIsResult
  <2>5. WrittenFirst'
    BY <2>1, <2>2, <2>3 DEF WrittenFirst
  <2>6. tx[r].next \in Config
    BY <2>1 DEF IInv, TypeInv, TxFilled
  <2>7. DiskIsPersisted'
    BY <2>1, <2>6, PersistedType DEF DiskIsPersisted
  <2>8. ViewIsDurable' /\ ViewIsValid'
    BY <2>1, <2>2 DEF IInv, ViewIsDurable, Publishing, ViewIsValid
  <2>9. QED
    BY <2>4, <2>5, <2>7, <2>8 DEF IInv
<1>7. CASE Publish(r)
  <2>1. /\ pc[r] = "publish"
        /\ view' = tx[r].next
        /\ UNCHANGED <<up, disk, txMu, asked, tx>>
    BY <1>7 DEF Publish
  <2>2. \A x \in Requests : pc'[x] = IF x = r THEN "finish" ELSE pc[x]
    BY <1>7 DEF Publish, IInv, TypeInv, TypeOK
  <2>3. \A x \in Requests \ {r} : pc[x] \notin {"sync", "publish", "finish", "rollback"}
    BY <2>1, OnlyOneInside
  <2>4. Parts'
    BY <2>1, <2>2, <2>3 DEF IInv, LockHeld, SnapshotIsFresh, NextIsResult, WrittenFirst
  <2>5. disk = Persisted(tx[r].next) /\ Valid(tx[r].next)
    BY <2>1 DEF IInv, WrittenFirst
  <2>6. Files'
    BY <2>1, <2>5 DEF IInv, DiskIsPersisted, ViewIsDurable, ViewIsValid
  <2>7. QED
    BY <2>4, <2>6 DEF IInv
<1>8. QED
  BY <1>1, <1>2, <1>3, <1>4, <1>5, <1>6, <1>7 DEF Step

LEMMA ProcessIInv ==
  ASSUME IInv, TypeInv', Crash \/ Restart
  PROVE  IInv'
<1>1. CASE Crash
  <2>1. \A r \in Requests : pc'[r] \in {"idle", "done"}
    BY <1>1 DEF Crash, InProgress, IInv, TypeInv, TypeOK
  <2>2. LockHeld' /\ SnapshotIsFresh' /\ NextIsResult' /\ WrittenFirst'
    BY <2>1 DEF LockHeld, SnapshotIsFresh, NextIsResult, WrittenFirst
  <2>3. DiskIsPersisted' /\ ViewIsDurable' /\ ViewIsValid'
    BY <1>1 DEF Crash, IInv, DiskIsPersisted, ViewIsDurable, ViewIsValid
  <2>4. QED
    BY <2>2, <2>3 DEF IInv
<1>2. CASE Restart
  <2>1. \A r \in Requests : pc[r] \in {"idle", "done"} /\ pc'[r] = pc[r]
    BY <1>2 DEF Restart, requests, IInv, TypeInv, Loaded, InProgress
  <2>2. LockHeld' /\ SnapshotIsFresh' /\ NextIsResult' /\ WrittenFirst'
    BY <2>1 DEF LockHeld, SnapshotIsFresh, NextIsResult, WrittenFirst
  <2>3. DiskIsPersisted' /\ ViewIsDurable' /\ ViewIsValid'
    BY <1>2 DEF Restart, IInv, DiskIsPersisted, ViewIsDurable, ViewIsValid
  <2>4. QED
    BY <2>2, <2>3 DEF IInv
<1>3. QED
  BY <1>1, <1>2

LEMMA StepIInv == IInv /\ [Next]_vars => IInv'
<1> SUFFICES ASSUME IInv, [Next]_vars PROVE IInv'
  OBVIOUS
<1>1. TypeInv'
  BY StepTypeInv DEF IInv
<1>2. CASE \E r \in Requests : Receive(r) \/ Step(r)
  BY <1>1, <1>2, RequestIInv
<1>3. CASE \E c \in PointClients :
             StartPoint(c) \/ FinishPoint(c) \/ FailPoint(c) \/ RestoreClient(c)
  BY <1>1, <1>3, OutsideIInv
     DEF StartPoint, FinishPoint, FailPoint, RestoreClient, gateway, requests
<1>4. CASE \E d \in Discoveries : StartFetch(d) \/ FinishFetch(d) \/ FailFetch(d)
  BY <1>1, <1>4, OutsideIInv DEF StartFetch, FinishFetch, FailFetch, gateway, requests
<1>5. CASE Crash \/ Restart
  BY <1>1, <1>5, ProcessIInv
<1>6. CASE UNCHANGED vars
  BY <1>1, <1>6, OutsideIInv DEF vars, gateway, requests
<1>7. QED
  BY <1>2, <1>3, <1>4, <1>5, <1>6 DEF Next

LEMMA Invariant == Spec => []IInv
BY InitIInv, StepIInv, PTL DEF Spec

\* From the moment a transaction reads the snapshot to the moment it publishes,
\* nobody else replaces it.
THEOREM Serialized == Spec => []SnapshotIsFresh
<1>1. IInv => SnapshotIsFresh
  BY DEF IInv
<1>2. QED
  BY <1>1, Invariant, PTL

\* What the data plane serves is what the next start finds in config.yaml.
THEOREM Durable == Spec => []ViewIsDurable
<1>1. IInv => ViewIsDurable
  BY DEF IInv
<1>2. QED
  BY <1>1, Invariant, PTL

\* Only valid configurations are ever served.
THEOREM ServedIsValid == Spec => []ViewIsValid
<1>1. IInv => ViewIsValid
  BY DEF IInv
<1>2. QED
  BY <1>1, Invariant, PTL

\* However the configuration is edited, the route of a client resolves to itself
\* unless its provider is switched off.
THEOREM DefaultsRoute == Spec => []RoutesResolve
<1>1. IInv => RoutesResolve
  <2> SUFFICES ASSUME IInv, up, NEW c \in Clients,
                      view.providers[view.routes[c].provider].enabled
               PROVE  Resolve(view, c, DefaultModel) = view.routes[c]
    BY DEF RoutesResolve
  <2>1. ValidRoute(view, view.routes[c])
    BY DEF IInv, ViewIsValid, Valid
  <2>2. EnabledRef(view, view.routes[c])
    BY <2>1 DEF ValidRoute, EnabledRef
  <2>3. QED
    BY <2>2 DEF Resolve, NamesNothing, DefaultModel, EnabledTarget
<1>2. QED
  BY <1>1, Invariant, PTL

(***************************************************************************)
(* Routing.                                                                *)
(***************************************************************************)

\* Whatever a configuration says, a request goes to a key group and a model that exist
\* and are switched on.  Its provider is switched on as well, unless the request named
\* a model of the route's own key group without saying whose: that way of Resolve does
\* not look at the provider.
THEOREM TargetsAreOn ==
  ASSUME NEW cfg, NEW client \in Clients, NEW requested \in RequestedModel,
         Resolve(cfg, client, requested) # NoRef
  PROVE  LET target == Resolve(cfg, client, requested)
             route  == cfg.routes[client]
         IN  /\ ValidRoute(cfg, target)
             /\ ~cfg.providers[target.provider].enabled =>
                  /\ requested.kind = "bare"
                  /\ target = OnRoute(route, requested.model)
<1> DEFINE target == Resolve(cfg, client, requested)
           route  == cfg.routes[client]
<1>1. ASSUME NEW ref, EnabledRef(cfg, ref)
      PROVE  ValidRoute(cfg, ref) /\ cfg.providers[ref.provider].enabled
  BY <1>1 DEF EnabledRef, ValidRoute
<1>2. CASE NamesNothing(client, requested)
  <2>1. target = route /\ EnabledRef(cfg, route)
    BY <1>2 DEF Resolve, EnabledTarget, NamesNothing
  <2>2. QED
    BY <2>1, <1>1
<1>3. CASE ~NamesNothing(client, requested) /\ requested.kind = "ref"
  <2>1. target = requested.ref /\ EnabledRef(cfg, requested.ref)
    BY <1>3 DEF Resolve, EnabledTarget
  <2>2. QED
    BY <2>1, <1>1
<1>4. CASE /\ requested.kind = "bare"
           /\ client = "generic" /\ Owners(cfg, requested.model) # {}
  <2>1. target = OwnerTarget(cfg, route, requested.model)
    BY <1>4 DEF Resolve, NamesNothing
  <2>2. target \in Owners(cfg, requested.model)
    BY <2>1, <1>4 DEF OwnerTarget
  <2>3. EnabledRef(cfg, target)
    BY <2>2 DEF Owners, EnabledRefs
  <2>4. QED
    BY <2>3, <1>1
<1>5. CASE /\ requested.kind = "bare"
           /\ ~(client = "generic" /\ Owners(cfg, requested.model) # {})
  <2>1. target = RouteTarget(cfg, route, requested.model)
    BY <1>5 DEF Resolve, NamesNothing
  <2>2. /\ target = OnRoute(route, requested.model)
        /\ HasGroup(cfg, route.provider, route.key)
        /\ KeyGroup(cfg.providers[route.provider], route.key).enabled
        /\ ModelEnabled(KeyGroup(cfg.providers[route.provider], route.key), requested.model)
    BY <2>1 DEF RouteTarget
  <2>3. ValidRoute(cfg, target)
    BY <2>2 DEF ValidRoute, OnRoute
  <2>4. QED
    BY <2>2, <2>3, <1>5
<1>6. ~NamesNothing(client, requested) => requested.kind \in {"ref", "bare"}
  BY DEF Resolve
<1>7. QED
  BY <1>2, <1>3, <1>4, <1>5, <1>6 DEF NamesNothing

\* A bare model of a generic client that someone declares goes to one who declares it,
\* and away from the route only when nobody else does.
THEOREM BareNamesAreUnambiguous ==
  ASSUME IsFiniteSet(Ref), NEW cfg, NEW model \in Models,
         Owners(cfg, model) # {},
         Resolve(cfg, "generic", [kind |-> "bare", model |-> model]) # NoRef
  PROVE  LET target == Resolve(cfg, "generic", [kind |-> "bare", model |-> model])
         IN  /\ target \in Owners(cfg, model)
             /\ target # OnRoute(cfg.routes["generic"], model) => Owners(cfg, model) = {target}
<1> DEFINE requested == [kind |-> "bare", model |-> model]
           target == Resolve(cfg, "generic", requested)
           owners == Owners(cfg, model)
<1>1. target = OwnerTarget(cfg, cfg.routes["generic"], model)
  BY DEF Resolve, NamesNothing
<1>2. IsFiniteSet(owners)
  BY FS_Subset DEF Owners, EnabledRefs
<1>3. CASE Cardinality(owners) = 1
  <2>1. PICK ref : owners = {ref}
    BY <1>2, <1>3, FS_Singleton
  <2>2. target = ref
    BY <1>1, <1>3, <2>1 DEF OwnerTarget
  <2>3. QED
    BY <2>1, <2>2
<1>4. CASE Cardinality(owners) # 1
  BY <1>1, <1>4 DEF OwnerTarget
<1>5. QED
  BY <1>3, <1>4

\* The model of its route is served to a client that asks for it by its bare name.  A
\* generic client, whose bare names other providers may claim, needs the provider of
\* the route to be switched on.
RoutedModelIsServed ==
  up => \A c \in Clients :
    c # "generic" \/ view.providers[view.routes[c].provider].enabled =>
      Resolve(view, c, [kind |-> "bare", model |-> view.routes[c].model]) = view.routes[c]

\* However the configuration is edited, what a route names can be asked for by name:
\* validation and routing agree on key groups, models and legacy catalogs.
THEOREM RoutesByName == ASSUME IsFiniteSet(Ref) PROVE Spec => []RoutedModelIsServed
<1>1. IInv => RoutedModelIsServed
  <2> SUFFICES ASSUME IInv, up, NEW c \in Clients,
                      c # "generic" \/ view.providers[view.routes[c].provider].enabled
               PROVE  Resolve(view, c, [kind |-> "bare", model |-> view.routes[c].model])
                        = view.routes[c]
    BY DEF RoutedModelIsServed
  <2> DEFINE route == view.routes[c]
             owners == Owners(view, route.model)
  <2>1. ValidRoute(view, route)
    BY DEF IInv, ViewIsValid, Valid
  <2>2. route \in Ref
    BY DEF IInv, TypeInv, TypeOK, Loaded, Config
  <2>3. OnRoute(route, route.model) = route
    BY <2>2 DEF OnRoute, Ref
  <2>4. CASE c = "generic" /\ owners # {}
    <3>1. EnabledRef(view, route)
      BY <2>1, <2>4 DEF ValidRoute, EnabledRef
    <3>2. route \in owners
      BY <2>2, <3>1 DEF Owners, EnabledRefs
    <3>3. IsFiniteSet(owners)
      BY FS_Subset DEF Owners, EnabledRefs
    <3>4. Cardinality(owners) = 1 => owners = {route}
      BY <3>2, <3>3, FS_Singleton
    <3>5. OwnerTarget(view, route, route.model) = route
      BY <2>3, <3>2, <3>4 DEF OwnerTarget
    <3>6. QED
      BY <2>4, <3>5 DEF Resolve, NamesNothing
  <2>5. CASE ~(c = "generic" /\ owners # {})
    <3>1. RouteTarget(view, route, route.model) = route
      BY <2>1, <2>3 DEF RouteTarget, ValidRoute
    <3>2. QED
      BY <2>5, <3>1 DEF Resolve, NamesNothing
  <2>6. QED
    BY <2>4, <2>5
<1>2. QED
  BY <1>1, Invariant, PTL

\* A settings page filled before a key was rotated does not bring the old key back:
\* keys change only by an update of their provider or of their key group.
THEOREM KeysOnPurpose == Spec => KeysChangeOnPurpose
<1>1. IInv /\ [Next]_vars => OnPurpose \/ UNCHANGED vars
  <2> SUFFICES ASSUME IInv, Next PROVE OnPurpose
    OBVIOUS
  <2>1. ASSUME up, up', view' # view
        PROVE  \E r \in Requests : pc[r] = "publish" /\ view' = tx[r].next
    BY <2>1 DEF Next, Receive, Step, Begin, Open, Reject, SyncOne, SyncFails, WriteFile,
                WriteFails, Publish, Finish, RollbackOne, Abort, StartPoint, FinishPoint,
                FailPoint, RestoreClient, StartFetch, FinishFetch, FailFetch, Crash, Restart,
                gateway
  <2>2. ASSUME up, up', NEW r \in Requests, pc[r] = "publish", view' = tx[r].next,
               NEW p \in Providers, NEW k \in Keys,
               HasGroup(view, p, k), HasGroup(view', p, k),
               ~(asked[r].op.kind \in {"updateProvider", "updateKeyGroup"}
                   /\ asked[r].op.provider = p)
        PROVE  view'.providers[p].groups[k].apiKey = view.providers[p].groups[k].apiKey
    <3>1. /\ view \in Config
          /\ asked[r].op \in Operation
          /\ asked[r].base \in Config
          /\ view' = Result(view, asked[r].op, asked[r].base)
          /\ Accepts(view, tx[r].known, asked[r].op, asked[r].base)
      BY <2>2 DEF IInv, TypeInv, Loaded, AskedSomething, NextIsResult, SnapshotIsFresh
    <3>2. QED
      BY <2>2, <3>1, ResultKeepsKeys
  <2>3. QED
    BY <2>1, <2>2 DEF OnPurpose
<1>2. QED
  BY <1>1, Invariant, PTL DEF Spec, KeysChangeOnPurpose

(***************************************************************************)
(* The client files.                                                       *)
(***************************************************************************)

\* While the process is down nobody works for it.
DownIsQuiet ==
  ~up => /\ cache = NoModels
         /\ txMu = NoOne
         /\ fetching = {}
         /\ \A c \in PointClients : pointing[c] = NoSettings

\* A transaction has written the file of c or not, and knows which.
Midway(r, c) ==
  /\ pc[r] = "sync" /\ c \notin tx[r].applied => Expresses(c, Before(r, c))
  /\ pc[r] = "sync" /\ c \notin tx[r].todo => Expresses(c, After(r, c))
  /\ pc[r] = "publish" => Expresses(c, After(r, c))
  /\ pc[r] = "finish" => Expresses(c, ClientSettings(view, tx[r].known, c))
  /\ pc[r] = "rollback" /\ c \notin tx[r].applied => Expresses(c, Before(r, c))

\* What the file of a managed client expresses that no point request, crash or failed
\* rollback left behind.
InStep(c) ==
  /\ up /\ txMu = NoOne => Expresses(c, Current(c))
  /\ ~up => file[c] = ClientSettings(disk, NoModels, c)
  /\ \A r \in Requests : Midway(r, c)

FilesInStep == \A c \in PointClients \ drift : Managed(c) => InStep(c)

FilesInv == DownIsQuiet /\ FilesInStep

LEMMA InitFilesInv == Init => FilesInv
<1> SUFFICES ASSUME Init PROVE FilesInv
  OBVIOUS
<1>1. PICK managed \in SUBSET PointClients :
        file = [c \in PointClients |->
                  IF c \in managed THEN ClientSettings(InitialConfig, NoModels, c)
                  ELSE NoSettings]
  BY DEF Init
<1>2. ASSUME NEW c \in PointClients, Managed(c)
      PROVE  InStep(c)
  <2>1. file[c] = ClientSettings(InitialConfig, NoModels, c)
    BY <1>1, <1>2 DEF Managed
  <2>2. QED
    BY <2>1 DEF Init, InStep, Midway, Current, Expresses
<1>3. QED
  BY <1>2 DEF Init, FilesInv, DownIsQuiet, FilesInStep

\* Somebody outside every transaction has nothing to keep in step.
LEMMA NotMidway ==
  ASSUME NEW r \in Requests, NEW c \in PointClients,
         pc[r] \notin {"sync", "publish", "finish", "rollback"}
  PROVE  Midway(r, c)
BY DEF Midway

\* What is discovered shows in the catalog only: a file that expresses the settings
\* computed with the models known expresses those with the models found, once the
\* clients that these leave behind are stale.
LEMMA FoundModels ==
  ASSUME NEW c \in PointClients, NEW known, NEW found, Managed(c),
         Expresses(c, ClientSettings(view, known, c))
  PROVE  LET new == ClientSettings(view, found, c)
         IN  \/ file[c] = new
             \/ c \in stale \cup Behind(known, found) /\ Preferences(file[c]) = Preferences(new)
<1> DEFINE old == ClientSettings(view, known, c)
           new == ClientSettings(view, found, c)
<1>1. Preferences(file[c]) = Preferences(new)
  <2>1. Preferences(old) = Preferences(new)
    BY DEF Preferences, ClientSettings
  <2>2. QED
    BY <2>1 DEF Expresses
<1>2. CASE c \in stale \cup Behind(known, found)
  BY <1>1, <1>2
<1>3. CASE c \notin stale \cup Behind(known, found)
  BY <1>3 DEF Behind, Expresses
<1>4. QED
  BY <1>2, <1>3

\* Switching the log on or off is not visible in a client file.
LEMMA LoggingIsInvisible ==
  ASSUME NEW cfg \in Config, NEW on, NEW known, NEW c \in PointClients
  PROVE  ClientSettings(SetLogging(cfg, on), known, c) = ClientSettings(cfg, known, c)
<1> DEFINE next == SetLogging(cfg, on)
<1>1. /\ next.providers = cfg.providers
      /\ next.routes = cfg.routes
      /\ next.helper = cfg.helper
      /\ next.remoteCompaction = cfg.remoteCompaction
  BY DEF SetLogging, Config
<1> HIDE DEF next
<1>2. \A p, k : HasGroup(next, p, k) = HasGroup(cfg, p, k)
  BY <1>1 DEF HasGroup, HasProvider
<1>3. EnabledRefs(next) = EnabledRefs(cfg)
  BY <1>1, <1>2 DEF EnabledRefs, EnabledRef
<1>4. DiscoveredRefs(next, known) = DiscoveredRefs(cfg, known)
  BY <1>1, <1>2 DEF DiscoveredRefs
<1>5. ConfiguredHelper(next, c) = ConfiguredHelper(cfg, c)
  BY <1>1, <1>2 DEF ConfiguredHelper
<1>6. ClientSettings(next, known, c) = ClientSettings(cfg, known, c)
  BY <1>1, <1>3, <1>4, <1>5 DEF ClientSettings, ModelCatalog
<1>7. QED
  BY <1>6 DEF next

\* A client a transaction does not synchronise has nothing new to express.
LEMMA OthersAreUnchanged ==
  ASSUME NEW cfg \in Config, NEW known, NEW op, NEW base,
         NEW cs \in SyncSets(cfg, Result(cfg, op, base), known, op),
         NEW c \in PointClients \ cs
  PROVE  ClientSettings(Result(cfg, op, base), known, c) = ClientSettings(cfg, known, c)
<1>1. CASE op.kind = "logging"
  <2>1. Result(cfg, op, base) = SetLogging(cfg, op.on)
    BY <1>1 DEF Result
  <2>2. QED
    BY <2>1, LoggingIsInvisible
<1>2. CASE op.kind # "logging"
  BY <1>2 DEF SyncSets, Changed
<1>3. QED
  BY <1>1, <1>2

\* The holder of txMu is the only one that can fall out of step.
HolderDecides ==
  \A r \in Requests, c \in PointClients :
    LockHeld /\ up /\ txMu = r /\ Midway(r, c) => InStep(c)

LEMMA HolderIsAlone == HolderDecides
<1> SUFFICES ASSUME NEW r \in Requests, NEW c \in PointClients,
                    LockHeld, up, txMu = r, Midway(r, c)
             PROVE  InStep(c)
  BY DEF HolderDecides
<1>1. \A x \in Requests \ {r} : Midway(x, c)
  BY NotMidway DEF LockHeld
<1>2. QED
  BY <1>1, NoneAssumption DEF InStep

LEMMA HolderIsAloneNext == HolderDecides'
BY HolderIsAlone, PTL

\* A request opens its transaction.
LEMMA BeginFiles ==
  ASSUME IInv, IInv', FilesInStep, NEW r \in Requests, Begin(r)
  PROVE  FilesInStep'
<1>1. /\ pc[r] = "waiting" /\ txMu = NoOne
      /\ pc' = [pc EXCEPT ![r] = "sync"]
      /\ UNCHANGED <<up, view, disk, cache, file, drift, stale>>
  BY DEF Begin, Open, clients
<1>2. PICK cs \in SyncSets(view, Result(view, asked[r].op, asked[r].base), cache, asked[r].op) :
        tx' = [tx EXCEPT ![r] =
                 [start |-> view, next |-> Result(view, asked[r].op, asked[r].base),
                  known |-> cache, todo |-> cs, applied |-> {}]]
  BY DEF Begin, Open
<1>3. up /\ view \in Config
  BY <1>1 DEF IInv, TypeInv, Loaded, InProgress
<1>4. /\ tx'[r].start = view
      /\ tx'[r].next = Result(view, asked[r].op, asked[r].base)
      /\ tx'[r].known = cache /\ tx'[r].todo = cs
      /\ pc'[r] = "sync"
  BY <1>1, <1>2 DEF IInv, TypeInv, TypeOK
<1>5. LockHeld' /\ txMu' = r
  BY <1>4 DEF IInv, LockHeld
<1>6. ASSUME NEW c \in PointClients \ drift, file[c] # NoSettings
      PROVE  InStep(c)'
  <2>1. Expresses(c, ClientSettings(view, cache, c))
    BY <1>1, <1>3, <1>6 DEF FilesInStep, Managed, InStep, Current
  <2>2. c \notin cs => ClientSettings(Result(view, asked[r].op, asked[r].base), cache, c)
                         = ClientSettings(view, cache, c)
    BY <1>3, OthersAreUnchanged
  <2>3. Midway(r, c)'
    BY <1>1, <1>4, <2>1, <2>2 DEF Midway, Before, After, Expresses
  <2>4. QED
    BY <1>1, <1>3, <1>5, <2>3, HolderIsAloneNext DEF HolderDecides
<1>7. QED
  BY <1>1, <1>6 DEF FilesInStep, Managed

\* Between two steps of a transaction: what is left to show is its own part.
LEMMA GoingOnInStep ==
  ASSUME IInv, IInv', FilesInStep, NEW r \in Requests,
         pc[r] \in {"sync", "publish", "rollback"},
         UNCHANGED <<up, cache, txMu>>,
         drift \subseteq drift',
         \A c \in PointClients : file[c] = NoSettings => file'[c] = NoSettings,
         \A c \in PointClients \ drift' : file[c] # NoSettings /\ Midway(r, c) => Midway(r, c)'
  PROVE  FilesInStep'
<1>1. up /\ txMu = r
  BY DEF IInv, TypeInv, Loaded, InProgress, LockHeld
<1>2. ASSUME NEW c \in PointClients \ drift', file'[c] # NoSettings
      PROVE  InStep(c)'
  <2>1. Midway(r, c)
    BY <1>2 DEF FilesInStep, Managed, InStep
  <2>2. Midway(r, c)'
    BY <1>2, <2>1
  <2>3. QED
    BY <1>1, <2>2, HolderIsAloneNext DEF HolderDecides, IInv
<1>3. QED
  BY <1>2 DEF FilesInStep, Managed

LEMMA SyncFiles ==
  ASSUME IInv, IInv', FilesInStep, NEW r \in Requests, SyncOne(r)
  PROVE  FilesInStep'
<1> USE DEF IInv, TypeInv, TypeOK
<1>1. pc[r] = "sync" /\ UNCHANGED <<up, view, disk, cache, txMu, pc, drift>>
  BY DEF SyncOne, gateway
<1>2. PICK d \in Earliest(tx[r].todo) :
        \/ /\ ~Managed(d) \/ file[d] = After(r, d)
           /\ tx' = [tx EXCEPT ![r].todo = @ \ {d}]
           /\ UNCHANGED <<file, stale>>
        \/ /\ Managed(d) /\ file[d] # After(r, d)
           /\ tx' = [tx EXCEPT ![r].todo = @ \ {d}, ![r].applied = @ \cup {d}]
           /\ file' = [file EXCEPT ![d] = After(r, d)]
           /\ stale' = stale \ {d}
  BY DEF SyncOne
<1>3. d \in tx[r].todo
  BY DEF Earliest
<1>4. tx[r] \in Tx
  OBVIOUS
<1>5. /\ tx'[r].start = tx[r].start /\ tx'[r].next = tx[r].next /\ tx'[r].known = tx[r].known
      /\ tx'[r].todo = tx[r].todo \ {d}
      /\ \/ tx'[r].applied = tx[r].applied
         \/ tx'[r].applied = tx[r].applied \cup {d}
  <2>1. CASE tx' = [tx EXCEPT ![r].todo = @ \ {d}]
    BY <1>4, <2>1 DEF Tx
  <2>2. CASE tx' = [tx EXCEPT ![r].todo = @ \ {d}, ![r].applied = @ \cup {d}]
    BY <1>4, <2>2 DEF Tx
  <2>3. QED
    BY <1>2, <2>1, <2>2
<1>6. tx'[r].applied = tx[r].applied => UNCHANGED <<file, stale>> \/ d \in tx[r].applied
  BY <1>2, <1>4 DEF Tx
<1>7. \A c \in PointClients : file[c] = NoSettings => file'[c] = NoSettings
  BY <1>2 DEF Managed
<1>8. ASSUME NEW c \in PointClients \ drift', file[c] # NoSettings, Midway(r, c)
      PROVE  Midway(r, c)'
  <2>1. Before(r, c)' = Before(r, c) /\ After(r, c)' = After(r, c)
    BY <1>5 DEF Before, After
  <2>2. CASE c = d
    <3>1. file'[c] = After(r, c)
      BY <1>2, <1>8, <2>2 DEF Managed
    <3>2. c \notin tx'[r].applied => UNCHANGED <<file, stale>> /\ c \notin tx[r].applied
      BY <1>2, <1>4, <1>5, <2>2 DEF Tx
    <3>3. QED
      BY <1>1, <1>5, <1>8, <2>1, <3>1, <3>2 DEF Midway, Expresses
  <2>3. CASE c # d
    <3>1. file'[c] = file[c] /\ (c \in stale' <=> c \in stale)
      BY <1>2, <2>3
    <3>2. (c \in tx'[r].applied <=> c \in tx[r].applied) /\ (c \in tx'[r].todo <=> c \in tx[r].todo)
      BY <1>5, <2>3
    <3>3. QED
      BY <1>1, <1>5, <1>8, <2>1, <3>1, <3>2 DEF Midway, Expresses
  <2>4. QED
    BY <2>2, <2>3
<1>9. QED
  BY <1>1, <1>7, <1>8, GoingOnInStep

\* A transaction moves on without touching what it carries.
LEMMA MoveFiles ==
  ASSUME IInv, IInv', FilesInStep, NEW r \in Requests,
         WriteFile(r) \/ WriteFails(r) \/ Publish(r)
  PROVE  FilesInStep'
<1> USE DEF IInv, TypeInv, TypeOK
<1>1. /\ pc[r] \in {"sync", "publish"}
      /\ UNCHANGED <<up, cache, txMu, tx, file, drift, stale>>
  BY DEF WriteFile, WriteFails, Publish, gateway, clients
<1>2. ASSUME NEW c \in PointClients, Midway(r, c)
      PROVE  Midway(r, c)'
  <2>1. Before(r, c)' = Before(r, c) /\ After(r, c)' = After(r, c)
    BY <1>1 DEF Before, After
  <2>2. CASE WriteFile(r)
    BY <1>1, <1>2, <2>1, <2>2 DEF WriteFile, Midway, Expresses
  <2>3. CASE WriteFails(r)
    BY <1>1, <1>2, <2>1, <2>3 DEF WriteFails, Midway, Expresses
  <2>4. CASE Publish(r)
    <3>1. pc[r] = "publish" /\ pc'[r] = "finish" /\ view' = tx[r].next
      BY <2>4 DEF Publish
    <3>2. ClientSettings(view, tx[r].known, c)' = After(r, c)
      BY <1>1, <3>1 DEF After
    <3>3. QED
      BY <1>1, <1>2, <3>1, <3>2 DEF Midway, Expresses
  <2>5. QED
    BY <2>2, <2>3, <2>4
<1>3. QED
  BY <1>1, <1>2, GoingOnInStep

LEMMA SyncFailsFiles ==
  ASSUME IInv, IInv', FilesInStep, NEW r \in Requests, SyncFails(r)
  PROVE  FilesInStep'
<1> USE DEF IInv, TypeInv, TypeOK
<1>1. /\ pc[r] = "sync" /\ pc'[r] = "rollback"
      /\ UNCHANGED <<up, view, cache, txMu, tx, stale>>
  BY DEF SyncFails, gateway
<1>2. PICK d \in Earliest(tx[r].todo) :
        \/ UNCHANGED <<file, drift>>
        \/ /\ Managed(d)
           /\ file' = [file EXCEPT ![d] = After(r, d)]
           /\ drift' = drift \cup {d}
  BY DEF SyncFails
<1>3. \A c \in PointClients : file[c] = NoSettings => file'[c] = NoSettings
  BY <1>2 DEF Managed
<1>4. \A c \in PointClients \ drift' : file'[c] = file[c]
  BY <1>2
<1>5. ASSUME NEW c \in PointClients \ drift', Midway(r, c)
      PROVE  Midway(r, c)'
  BY <1>1, <1>4, <1>5 DEF Midway, Before, Expresses
<1>6. QED
  BY <1>1, <1>2, <1>3, <1>5, GoingOnInStep

LEMMA RollbackFiles ==
  ASSUME IInv, IInv', FilesInStep, NEW r \in Requests, RollbackOne(r)
  PROVE  FilesInStep'
<1> USE DEF IInv, TypeInv, TypeOK
<1>1. pc[r] = "rollback" /\ UNCHANGED <<up, view, cache, txMu, pc, stale>>
  BY DEF RollbackOne, gateway
<1>2. PICK d \in Latest(tx[r].applied) :
        /\ \/ /\ file' = IF Managed(d) THEN [file EXCEPT ![d] = Before(r, d)] ELSE file
              /\ UNCHANGED drift
           \/ /\ drift' = IF Managed(d) THEN drift \cup {d} ELSE drift
              /\ UNCHANGED file
        /\ tx' = [tx EXCEPT ![r].applied = @ \ {d}]
  BY DEF RollbackOne
<1>3. tx[r] \in Tx
  OBVIOUS
<1>4. /\ tx'[r].start = tx[r].start /\ tx'[r].known = tx[r].known
      /\ tx'[r].applied = tx[r].applied \ {d}
  BY <1>2, <1>3 DEF Tx
<1>5. \A c \in PointClients : file[c] = NoSettings => file'[c] = NoSettings
  BY <1>2 DEF Managed
<1>6. ASSUME NEW c \in PointClients \ drift', file[c] # NoSettings, Midway(r, c)
      PROVE  Midway(r, c)'
  <2>1. Before(r, c)' = Before(r, c)
    BY <1>4 DEF Before
  <2>2. c = d => file'[c] = Before(r, c)
    BY <1>2, <1>6 DEF Managed
  <2>3. c # d => file'[c] = file[c] /\ (c \in tx'[r].applied <=> c \in tx[r].applied)
    BY <1>2, <1>4
  <2>4. QED
    BY <1>1, <1>4, <1>6, <2>1, <2>2, <2>3 DEF Midway, Expresses
<1>7. drift \subseteq drift'
  BY <1>2
<1>8. QED
  BY <1>1, <1>5, <1>6, <1>7, GoingOnInStep

\* A request leaves, or never got in: what is left to show is that the files express
\* the snapshot.
LEMMA EndInStep ==
  ASSUME IInv, FilesInStep, NEW r \in Requests, NEW response,
         txMu = NoOne \/ pc[r] \in {"finish", "rollback"},
         up, Respond(r, response), UNCHANGED <<up, file>>, drift \subseteq drift',
         \A c \in PointClients \ drift' : Managed(c) /\ InStep(c) => Expresses(c, Current(c))'
  PROVE  FilesInStep'
<1>1. \A x \in Requests : pc'[x] = IF x = r THEN "done" ELSE pc[x]
  BY DEF Respond, IInv, TypeInv, TypeOK
<1>2. \A x \in Requests : pc'[x] \notin {"sync", "publish", "finish", "rollback"}
  BY <1>1, NobodyInside, OnlyOneInside
<1>3. QED
  BY <1>2 DEF FilesInStep, InStep, Midway, Managed

LEMMA EndFiles ==
  ASSUME IInv, FilesInStep, NEW r \in Requests, Reject(r) \/ Finish(r) \/ Abort(r)
  PROVE  FilesInStep'
<1>1. up
  BY DEF Reject, Finish, Abort, IInv, TypeInv, Loaded, InProgress
<1>2. CASE Reject(r)
  <2>1. ASSUME NEW c \in PointClients, InStep(c) PROVE Expresses(c, Current(c))'
    BY <1>1, <1>2, <2>1 DEF Reject, InStep, Current, Expresses, clients
  <2>2. QED
    BY <1>1, <1>2, <2>1, EndInStep DEF Reject, clients
<1>3. CASE Finish(r)
  <2>1. pc[r] = "finish" /\ stale' = stale \cup Behind(tx[r].known, cache')
        /\ Respond(r, "ok") /\ UNCHANGED <<up, view, file, drift>>
    BY <1>3 DEF Finish
  <2>2. ASSUME NEW c \in PointClients, Managed(c), InStep(c) PROVE Expresses(c, Current(c))'
    <3>1. Expresses(c, ClientSettings(view, tx[r].known, c))
      BY <2>1, <2>2 DEF InStep, Midway
    <3>2. QED
      BY <2>1, <2>2, <3>1, FoundModels DEF Expresses, Current
  <2>3. QED
    BY <1>1, <2>1, <2>2, EndInStep
<1>4. CASE Abort(r)
  <2>1. pc[r] = "rollback" /\ tx[r].applied = {}
        /\ stale' = stale \cup Behind(tx[r].known, cache)
        /\ Respond(r, "error") /\ UNCHANGED <<up, view, cache, file, drift>>
    BY <1>4 DEF Abort
  <2>2. ASSUME NEW c \in PointClients, Managed(c), InStep(c) PROVE Expresses(c, Current(c))'
    <3>1. Expresses(c, ClientSettings(view, tx[r].known, c))
      BY <2>1, <2>2 DEF InStep, Midway, Before, IInv, SnapshotIsFresh
    <3>2. QED
      BY <2>1, <2>2, <3>1, FoundModels DEF Expresses, Current
  <2>3. QED
    BY <1>1, <2>1, <2>2, EndInStep
<1>5. QED
  BY <1>2, <1>3, <1>4

LEMMA RequestFiles ==
  ASSUME IInv, IInv', FilesInv, NEW r \in Requests, Receive(r) \/ Step(r)
  PROVE  FilesInv'
<1>1. up /\ up'
  BY DEF Receive, Step, Begin, Open, Reject, SyncOne, SyncFails, WriteFile, WriteFails, Publish,
         Finish, RollbackOne, Abort, IInv, TypeInv, Loaded, InProgress, gateway
<1>2. DownIsQuiet'
  BY <1>1 DEF DownIsQuiet
<1>3. CASE Receive(r)
  <2>1. /\ \A x \in Requests : pc'[x] = IF x = r THEN "waiting" ELSE pc[x]
        /\ UNCHANGED <<gateway, tx, file, drift, stale>>
    BY <1>3 DEF Receive, clients, IInv, TypeInv, TypeOK
  <2>2. FilesInStep'
    BY <2>1 DEF FilesInv, FilesInStep, Managed, InStep, Midway, Before, After, Current, Expresses,
                gateway
  <2>3. QED
    BY <1>2, <2>2 DEF FilesInv
<1>4. CASE Step(r)
  <2>1. FilesInStep'
    BY <1>4, BeginFiles, SyncFiles, SyncFailsFiles, MoveFiles, RollbackFiles, EndFiles
       DEF Step, FilesInv
  <2>2. QED
    BY <1>2, <2>1 DEF FilesInv
<1>5. QED
  BY <1>3, <1>4

LEMMA ClientFiles ==
  ASSUME IInv, FilesInv, NEW c \in PointClients,
         StartPoint(c) \/ FinishPoint(c) \/ FailPoint(c) \/ RestoreClient(c)
  PROVE  FilesInv'
<1> USE DEF IInv, TypeInv, TypeOK, FilesInv
<1>1. /\ up /\ up'
      /\ UNCHANGED <<view, disk, cache, txMu, pc, tx>>
  BY DEF StartPoint, FinishPoint, FailPoint, RestoreClient, DownIsQuiet, gateway, requests
<1>2. DownIsQuiet'
  BY <1>1 DEF DownIsQuiet
<1>3. \A d \in PointClients : file'[d] = file[d] /\ (d \in stale' <=> d \in stale)
                                 => (InStep(d) => InStep(d)')
  BY <1>1 DEF InStep, Midway, Before, After, Current, Expresses
<1>4. \A d \in PointClients \ {c} :
        file'[d] = file[d] /\ (d \in drift' <=> d \in drift) /\ (d \in stale' <=> d \in stale)
  BY DEF StartPoint, FinishPoint, FailPoint, RestoreClient
<1>5. ASSUME c \notin drift', file'[c] # NoSettings
      PROVE  InStep(c)'
  <2>1. CASE UNCHANGED <<file, drift, stale>>
    BY <1>3, <1>5, <2>1 DEF FilesInStep, Managed
  <2>2. CASE FinishPoint(c)
    <3>1. txMu = NoOne /\ file'[c] = Current(c)
      BY <1>5, <2>2 DEF FinishPoint
    <3>2. QED
      BY <1>1, <3>1, NobodyInside DEF InStep, Midway, Current, Expresses
  <2>3. CASE RestoreClient(c)
    BY <1>5, <2>3 DEF RestoreClient
  <2>4. QED
    BY <2>1, <2>2, <2>3 DEF StartPoint, FailPoint
<1>6. FilesInStep'
  BY <1>3, <1>4, <1>5 DEF FilesInStep, Managed
<1>7. QED
  BY <1>2, <1>6

LEMMA FetchFiles ==
  ASSUME IInv, FilesInv, NEW d \in Discoveries, StartFetch(d) \/ FinishFetch(d) \/ FailFetch(d)
  PROVE  FilesInv'
<1> USE DEF IInv, TypeInv, TypeOK, FilesInv
<1>1. /\ up /\ up'
      /\ UNCHANGED <<view, disk, txMu, pc, tx, file>>
  BY DEF StartFetch, FinishFetch, FailFetch, DownIsQuiet, gateway, requests, clients
<1>2. DownIsQuiet'
  BY <1>1 DEF DownIsQuiet
<1>3. CASE UNCHANGED <<cache, drift, stale>>
  <2>1. FilesInStep'
    BY <1>1, <1>3 DEF FilesInStep, Managed, InStep, Midway, Before, After, Current, Expresses
  <2>2. QED
    BY <1>2, <2>1
<1>4. CASE FinishFetch(d)
  <2>1. /\ drift' = drift
        /\ stale' = IF txMu = NoOne THEN stale \cup Behind(cache, cache') ELSE stale
    BY <1>4 DEF FinishFetch
  <2>2. ASSUME NEW c \in PointClients \ drift', Managed(c)
        PROVE  InStep(c)'
    <3>1. InStep(c)
      BY <2>1, <2>2 DEF FilesInStep
    <3>2. CASE txMu = NoOne
      <4>1. Expresses(c, ClientSettings(view, cache, c))
        BY <1>1, <3>1, <3>2 DEF InStep, Current
      <4>2. Expresses(c, Current(c))'
        BY <1>1, <2>1, <2>2, <3>2, <4>1, FoundModels DEF Expresses, Current
      <4>3. QED
        BY <1>1, <3>2, <4>2, NobodyInside DEF InStep, Midway
    <3>3. CASE txMu # NoOne
      BY <1>1, <2>1, <3>1, <3>3 DEF InStep, Midway, Before, After, Expresses
    <3>4. QED
      BY <3>2, <3>3
  <2>3. FilesInStep'
    BY <1>1, <2>2 DEF FilesInStep, Managed
  <2>4. QED
    BY <1>2, <2>3
<1>5. QED
  BY <1>3, <1>4 DEF StartFetch, FailFetch, gateway, clients

LEMMA ProcessFiles ==
  ASSUME IInv, IInv', FilesInv, Crash \/ Restart
  PROVE  FilesInv'
<1> USE DEF FilesInv
<1>1. \A r \in Requests : pc'[r] \notin {"sync", "publish", "finish", "rollback"}
  BY DEF Crash, Restart, requests, InProgress, IInv, TypeInv, Loaded
<1>2. CASE Crash
  <2>1. DownIsQuiet'
    BY <1>2 DEF Crash, DownIsQuiet
  <2>2. FilesInStep'
    BY <1>1, <1>2 DEF Crash, FilesInStep, Managed, InStep, Midway
  <2>3. QED
    BY <2>1, <2>2
<1>3. CASE Restart
  <2>1. DownIsQuiet'
    BY <1>3 DEF Restart, DownIsQuiet
  <2>2. FilesInStep'
    BY <1>1, <1>3 DEF Restart, clients, FilesInStep, Managed, InStep, Midway, Current, DownIsQuiet,
                      Expresses
  <2>3. QED
    BY <2>1, <2>2
<1>4. QED
  BY <1>2, <1>3

LEMMA StepFilesInv == IInv /\ IInv' /\ FilesInv /\ [Next]_vars => FilesInv'
<1> SUFFICES ASSUME IInv, IInv', FilesInv, [Next]_vars PROVE FilesInv'
  OBVIOUS
<1>1. CASE Next
  BY <1>1, RequestFiles, ClientFiles, FetchFiles, ProcessFiles DEF Next
<1>2. CASE UNCHANGED vars
  BY <1>2 DEF vars, gateway, requests, clients, FilesInv, DownIsQuiet, FilesInStep, Managed,
              InStep, Midway, Before, After, Current, Expresses
<1>3. QED
  BY <1>1, <1>2

\* A request that failed anywhere left no half of its change behind, and one that
\* succeeded left no client out: when no transaction is open, every managed client
\* file that no point request, crash or failed rollback left behind expresses the
\* published snapshot, the catalog excepted where the discovery cache changed it.
THEOREM FilesFollow == Spec => []FilesAgree
<1>1. FilesInv => FilesAgree
  BY DEF FilesInv, FilesInStep, InStep, FilesAgree
<1>2. QED
  BY <1>1, InitFilesInv, StepFilesInv, Invariant, PTL DEF Spec

(***************************************************************************)
(* ConfigTx implements ConfigStore, with the mapping of StoreState and     *)
(* StorePhase: a request takes effect when config.yaml is renamed.         *)
(***************************************************************************)

LEMMA StoreResult ==
  ASSUME NEW cfg, NEW op, NEW base
  PROVE  Store!Result(cfg, op, base) = Result(cfg, op, base)
BY DEF Store!Result, Result, Store!PutProvider, PutProvider, Store!PutGroup, PutGroup,
       Store!ProviderFromRequest, ProviderFromRequest, Store!MergedProvider, MergedProvider,
       Store!ProviderAvailability, ProviderAvailability, Store!GroupAvailability,
       GroupAvailability, Store!Overlay, Overlay, Store!FromPayload, FromPayload,
       Store!MergedGroup, MergedGroup, Store!OrElse, OrElse, Store!SavedSettings, SavedSettings,
       Store!PreservedProvider, PreservedProvider, Store!HasProvider, HasProvider,
       Store!HasGroup, HasGroup, Store!NoCatalog, NoCatalog, Store!SetRoute, SetRoute,
       Store!SetHelperModel, SetHelperModel, Store!SetRemoteCompaction, SetRemoteCompaction,
       Store!SetLogging, SetLogging

LEMMA StoreValid ==
  ASSUME NEW cfg
  PROVE  Store!Valid(cfg) = Valid(cfg)
BY DEF Store!Valid, Valid, Store!HasProvider, HasProvider, Store!HasGroup, HasGroup,
       Store!ValidProvider, ValidProvider, Store!ValidRoute, ValidRoute, Store!Groups, Groups,
       Store!ModelEnabled, ModelEnabled, Store!KeyGroup, KeyGroup, Store!NoCatalog, NoCatalog

LEMMA StorePersisted ==
  ASSUME NEW cfg
  PROVE  Store!Persisted(cfg) = Persisted(cfg)
BY DEF Store!Persisted, Persisted, Store!HasProvider, HasProvider, Store!NoCatalog, NoCatalog

\* What a handler checks before it goes on includes what ConfigStore demands.
LEMMA AcceptsAddresses ==
  ASSUME NEW cfg, NEW known, NEW op \in Operation, NEW base, Accepts(cfg, known, op, base)
  PROVE  Store!Addresses(cfg, op)
<1> DEFINE Has(p) == HasProvider(cfg, p)
           HasKey(p, k) == HasGroup(cfg, p, k)
<1>1. op.kind = "createProvider" => ~Has(op.provider)
  BY DEF Accepts, MayCreateProvider
<1>2. op.kind \in {"updateProvider", "deleteProvider", "availability"} => Has(op.provider)
  BY DEF Accepts, MayUpdateProvider, MayDeleteProvider
<1>3. op.kind = "createKeyGroup" => Has(op.provider) /\ ~HasKey(op.provider, op.key)
  BY DEF Accepts, MayCreateKeyGroup
<1>4. op.kind \in {"updateKeyGroup", "deleteKeyGroup"} => HasKey(op.provider, op.key)
  BY DEF Accepts, MayUpdateKeyGroup, MayDeleteKeyGroup
<1>5. /\ \A p : Store!HasProvider(cfg, p) = Has(p)
      /\ \A p, k : Store!HasGroup(cfg, p, k) = HasKey(p, k)
  BY DEF Store!HasProvider, HasProvider, Store!HasGroup, HasGroup
<1> HIDE DEF Has, HasKey
<1>6. QED
  BY <1>1, <1>2, <1>3, <1>4, <1>5 DEF Store!Addresses

\* Between its file and its snapshot a request is the configuration; otherwise the
\* snapshot is, and the file while the process is down.
StoreMapping ==
  /\ \A r \in Requests : pc[r] = "publish" => StoreState = tx[r].next
  /\ ~Publishing => StoreState = IF up THEN view ELSE disk

LEMMA StoreStateIs == IInv => StoreMapping
<1> SUFFICES ASSUME IInv PROVE StoreMapping
  OBVIOUS
<1>1. ASSUME NEW r \in Requests, pc[r] = "publish"
      PROVE  StoreState = tx[r].next
  <2>1. Publishing /\ (CHOOSE x \in Requests : pc[x] = "publish") = r
    BY <1>1, OnlyOneInside DEF Publishing
  <2>2. QED
    BY <2>1 DEF StoreState
<1>2. ~Publishing => StoreState = IF up THEN view ELSE disk
  BY DEF StoreState
<1>3. QED
  BY <1>1, <1>2 DEF StoreMapping

LEMMA StoreStateNext == IInv' => StoreMapping'
BY StoreStateIs, PTL

LEMMA InitStore == Init => Store!Init
<1> SUFFICES ASSUME Init PROVE Store!Init
  OBVIOUS
<1>1. StoreState = InitialConfig
  BY DEF Init, StoreState, Publishing
<1>2. StorePhase = [r \in Requests |-> "idle"]
  BY DEF Init, StorePhase, PhaseOf
<1>3. QED
  BY <1>1, <1>2 DEF Store!Init, Init, NothingAsked, Store!NothingAsked

\* Steps that neither move a request nor touch the configuration.
LEMMA QuietStore ==
  ASSUME IInv, IInv', UNCHANGED <<up, view, disk, pc, asked, answer>>,
         \A r \in Requests : tx'[r].next = tx[r].next
  PROVE  UNCHANGED Store!vars
<1> USE DEF StoreMapping
<1>1. StoreState' = StoreState
  <2>1. CASE Publishing
    BY <2>1, StoreStateIs, StoreStateNext DEF Publishing
  <2>2. CASE ~Publishing
    BY <2>2, StoreStateIs, StoreStateNext DEF Publishing
  <2>3. QED
    BY <2>1, <2>2
<1>2. StorePhase' = StorePhase
  BY DEF StorePhase, PhaseOf
<1>3. QED
  BY <1>1, <1>2 DEF Store!vars

\* A request outside the two halves of a write moves on and stays outside them.
LEMMA StepOutsideWrite ==
  ASSUME IInv, IInv', NEW r \in Requests, UNCHANGED <<up, view, disk>>,
         pc[r] # "publish", pc'[r] # "publish",
         \A x \in Requests \ {r} : pc'[x] = pc[x] /\ answer'[x] = answer[x] /\ tx'[x] = tx[x]
  PROVE  /\ StoreState' = StoreState
         /\ StorePhase' = [StorePhase EXCEPT ![r] = PhaseOf(r)']
<1> USE DEF StoreMapping
<1>1. StoreState' = StoreState
  <2>1. CASE Publishing
    <3>1. PICK x \in Requests \ {r} : pc[x] = "publish"
      BY <2>1 DEF Publishing
    <3>2. QED
      BY <3>1, StoreStateIs, StoreStateNext
  <2>2. CASE ~Publishing
    <3>1. ~Publishing'
      BY <2>2 DEF Publishing
    <3>2. QED
      BY <2>2, <3>1, StoreStateIs, StoreStateNext
  <2>3. QED
    BY <2>1, <2>2
<1>2. \A x \in Requests \ {r} : PhaseOf(x)' = PhaseOf(x)
  BY DEF PhaseOf
<1>3. QED
  BY <1>1, <1>2 DEF StorePhase

LEMMA RequestStore ==
  ASSUME IInv, IInv', NEW r \in Requests, Receive(r) \/ Step(r)
  PROVE  [Store!Next]_Store!vars
<1> USE DEF gateway, requests, clients, StoreMapping
<1>0. /\ pc \in [Requests -> Phases]
      /\ asked \in [Requests -> Request]
      /\ tx \in [Requests -> Tx]
      /\ answer \in [Requests -> {"none", "ok", "rejected", "error", "lost"}]
  BY DEF IInv, TypeInv, TypeOK
<1>1. CASE Receive(r)
  <2>1. /\ pc[r] = "idle" /\ pc' = [pc EXCEPT ![r] = "waiting"]
        /\ UNCHANGED <<up, view, disk, answer, tx>>
    BY <1>1 DEF Receive
  <2>2. PICK op \in Operations : asked' = [asked EXCEPT ![r] = [op |-> op, base |-> view]]
    BY <1>1 DEF Receive
  <2>3. StoreState' = StoreState /\ StorePhase' = [StorePhase EXCEPT ![r] = PhaseOf(r)']
    BY <1>0, <2>1, StepOutsideWrite
  <2>4. PhaseOf(r) = "idle" /\ PhaseOf(r)' = "open"
    BY <1>0, <2>1 DEF PhaseOf
  <2>5. Store!Receive(r)
    BY <1>0, <2>2, <2>3, <2>4 DEF Store!Receive, StorePhase
  <2>6. QED
    BY <2>5 DEF Store!Next
<1>2. CASE Begin(r) \/ SyncFails(r) \/ WriteFails(r)
  <2>1. /\ pc[r] \in {"waiting", "sync"}
        /\ \E s \in {"sync", "rollback"} : pc' = [pc EXCEPT ![r] = s]
        /\ UNCHANGED <<up, view, disk, answer, asked>>
        /\ \A x \in Requests \ {r} : tx'[x] = tx[x]
    BY <1>0, <1>2 DEF Begin, Open, SyncFails, WriteFails
  <2>2. StoreState' = StoreState /\ StorePhase' = [StorePhase EXCEPT ![r] = PhaseOf(r)']
    BY <1>0, <2>1, StepOutsideWrite
  <2>3. PhaseOf(r)' = PhaseOf(r)
    BY <1>0, <2>1 DEF PhaseOf
  <2>4. QED
    BY <2>1, <2>2, <2>3 DEF Store!vars, StorePhase
<1>3. CASE Reject(r) \/ Abort(r)
  <2>1. PICK response \in {"rejected", "error"} :
          /\ pc[r] \in {"waiting", "rollback"}
          /\ Respond(r, response)
          /\ UNCHANGED <<up, view, disk>>
    BY <1>3 DEF Reject, Abort
  <2>2. StoreState' = StoreState /\ StorePhase' = [StorePhase EXCEPT ![r] = PhaseOf(r)']
    BY <1>0, <2>1, StepOutsideWrite DEF Respond
  <2>3. PhaseOf(r) = "open" /\ PhaseOf(r)' = response
    BY <1>0, <2>1 DEF PhaseOf, Respond
  <2>4. Store!Refuse(r)
    BY <2>1, <2>2, <2>3 DEF Store!Refuse, Respond, StorePhase
  <2>5. QED
    BY <2>4 DEF Store!Next
<1>4. CASE SyncOne(r) \/ RollbackOne(r)
  <2>1. /\ UNCHANGED <<up, view, disk, pc, asked, answer>>
        /\ \E c, d : tx' \in {[tx EXCEPT ![r].todo = c],
                              [tx EXCEPT ![r].todo = c, ![r].applied = d],
                              [tx EXCEPT ![r].applied = d]}
    BY <1>4 DEF SyncOne, RollbackOne
  <2>2. \A x \in Requests : tx'[x].next = tx[x].next
    BY <1>0, <2>1 DEF Tx
  <2>3. QED
    BY <2>1, <2>2, QuietStore
<1>5. CASE WriteFile(r)
  <2>1. /\ pc[r] = "sync" /\ pc' = [pc EXCEPT ![r] = "publish"]
        /\ Valid(tx[r].next)
        /\ UNCHANGED <<up, view, asked, answer, tx>>
    BY <1>5 DEF WriteFile
  <2>2. /\ tx[r].next = Result(view, asked[r].op, asked[r].base)
        /\ Accepts(view, tx[r].known, asked[r].op, asked[r].base)
        /\ asked[r].op \in Operation
        /\ up
    BY <2>1 DEF IInv, NextIsResult, SnapshotIsFresh, TypeInv, AskedSomething, Loaded, InProgress
  <2>3. StoreState = view /\ StoreState' = tx[r].next
    <3>1. ~Publishing
      BY <2>1, OnlyOneInside DEF Publishing
    <3>2. QED
      BY <1>0, <2>1, <2>2, <3>1, StoreStateIs, StoreStateNext
  <2>4. StorePhase' = [StorePhase EXCEPT ![r] = "committed"] /\ StorePhase[r] = "open"
    BY <1>0, <2>1 DEF StorePhase, PhaseOf
  <2>5. Store!Addresses(view, asked[r].op)
    BY <2>2, AcceptsAddresses
  <2>6. /\ tx[r].next = Store!Result(view, asked[r].op, asked[r].base)
        /\ Store!Valid(tx[r].next)
    BY <2>1, <2>2, StoreResult, StoreValid
  <2>7. Store!Commit(r)
    BY <2>1, <2>3, <2>4, <2>5, <2>6 DEF Store!Commit
  <2>8. QED
    BY <2>7 DEF Store!Next
<1>6. CASE Publish(r)
  <2>1. /\ pc[r] = "publish" /\ pc' = [pc EXCEPT ![r] = "finish"]
        /\ view' = tx[r].next
        /\ UNCHANGED <<up, disk, asked, answer, tx>>
        /\ up
    BY <1>6 DEF Publish, IInv, TypeInv, Loaded, InProgress
  <2>2. StoreState = tx[r].next /\ StoreState' = view'
    <3>1. ~Publishing'
      BY <1>0, <2>1, OnlyOneInside DEF Publishing
    <3>2. QED
      BY <2>1, <3>1, StoreStateIs, StoreStateNext
  <2>3. StorePhase' = StorePhase
    BY <1>0, <2>1 DEF StorePhase, PhaseOf
  <2>4. QED
    BY <2>1, <2>2, <2>3 DEF Store!vars
<1>7. CASE Finish(r)
  <2>1. /\ pc[r] = "finish"
        /\ Respond(r, "ok")
        /\ UNCHANGED <<up, view, disk>>
    BY <1>7 DEF Finish
  <2>2. StoreState' = StoreState /\ StorePhase' = [StorePhase EXCEPT ![r] = PhaseOf(r)']
    BY <1>0, <2>1, StepOutsideWrite DEF Respond
  <2>3. PhaseOf(r) = "committed" /\ PhaseOf(r)' = "ok"
    BY <1>0, <2>1 DEF PhaseOf, Respond
  <2>4. Store!Succeed(r)
    BY <2>1, <2>2, <2>3 DEF Store!Succeed, Respond, StorePhase
  <2>5. QED
    BY <2>4 DEF Store!Next
<1>8. QED
  BY <1>1, <1>2, <1>3, <1>4, <1>5, <1>6, <1>7 DEF Step

LEMMA ProcessStore ==
  ASSUME IInv, IInv', Crash \/ Restart
  PROVE  [Store!Next]_Store!vars
<1> USE DEF StoreMapping
<1>1. CASE Crash
  <2>1. StoreState' = disk
    <3>1. \A r \in Requests : pc'[r] # "publish"
      BY <1>1 DEF Crash, InProgress
    <3>2. QED
      BY <1>1, <3>1, StoreStateNext DEF Publishing, Crash
  <2>2. disk = Store!Persisted(StoreState)
    <3>1. CASE Publishing
      BY <3>1, StoreStateIs, StorePersisted DEF Publishing, IInv, WrittenFirst
    <3>2. CASE ~Publishing
      BY <1>1, <3>2, StoreStateIs, StorePersisted DEF Crash, IInv, ViewIsDurable
    <3>3. QED
      BY <3>1, <3>2
  <2>3. \A r \in Requests :
          PhaseOf(r)' = IF PhaseOf(r) \in {"open", "committed"} THEN "lost" ELSE PhaseOf(r)
    BY <1>1 DEF Crash, PhaseOf, InProgress, IInv, TypeInv, TypeOK, Phases
  <2>4. Store!Crash
    BY <1>1, <2>1, <2>2, <2>3 DEF Store!Crash, StorePhase, Crash
  <2>5. QED
    BY <2>4 DEF Store!Next
<1>2. CASE Restart
  <2>1. \A r \in Requests : pc[r] \in {"idle", "done"} /\ pc'[r] = pc[r]
    BY <1>2 DEF Restart, requests, IInv, TypeInv, Loaded, InProgress
  <2>2. StoreState = disk /\ StoreState' = disk
    BY <1>2, <2>1, StoreStateIs, StoreStateNext DEF Publishing, Restart
  <2>3. StorePhase' = StorePhase
    BY <1>2 DEF Restart, requests, StorePhase, PhaseOf
  <2>4. QED
    BY <1>2, <2>2, <2>3 DEF Store!vars, Restart, requests
<1>3. QED
  BY <1>1, <1>2

LEMMA StoreStep == IInv /\ IInv' /\ [Next]_vars => [Store!Next]_Store!vars
<1> SUFFICES ASSUME IInv, IInv', [Next]_vars PROVE [Store!Next]_Store!vars
  OBVIOUS
<1>1. CASE \E r \in Requests : Receive(r) \/ Step(r)
  BY <1>1, RequestStore
<1>2. CASE Crash \/ Restart
  BY <1>2, ProcessStore
<1>3. CASE UNCHANGED <<up, view, disk, pc, asked, answer, tx>>
  BY <1>3, QuietStore
<1>4. CASE \E c \in PointClients :
             StartPoint(c) \/ FinishPoint(c) \/ FailPoint(c) \/ RestoreClient(c)
  BY <1>3, <1>4 DEF StartPoint, FinishPoint, FailPoint, RestoreClient, gateway, requests
<1>5. CASE \E d \in Discoveries : StartFetch(d) \/ FinishFetch(d) \/ FailFetch(d)
  BY <1>3, <1>5 DEF StartFetch, FinishFetch, FailFetch, gateway, requests
<1>6. CASE UNCHANGED vars
  BY <1>3, <1>6 DEF vars, gateway, requests
<1>7. QED
  BY <1>1, <1>2, <1>4, <1>5, <1>6 DEF Next

\* Every write request takes effect at one instant on the configuration as it is
\* then, or not at all, for any number of concurrent requests and crashes.
THEOREM Implements == Spec => ImplementsStore
BY InitStore, StoreStep, Invariant, PTL DEF Spec, ImplementsStore, Store!Spec
=============================================================================
