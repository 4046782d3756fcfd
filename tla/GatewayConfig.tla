--------------------------- MODULE GatewayConfig ---------------------------
(***************************************************************************)
(* The gateway configuration as data (internal/config) and what every      *)
(* management request does to it (internal/server handlers), without any   *)
(* concurrency: who runs these operators, under which lock and what is     *)
(* written when, is ConfigTx.                                              *)
(*                                                                         *)
(* A Go map is a function whose missing entries are Absent.  Names, URLs,  *)
(* headers, adapters and token limits are left out: no property tells them *)
(* apart.  A plaintext API key is a member of ApiKeys.                     *)
(***************************************************************************)
EXTENDS FiniteSets

CONSTANTS
  Providers,   \* provider ids
  Keys,        \* key-group ids
  Models,      \* upstream model ids
  ApiKeys,     \* plaintext API keys; NoKey is the empty string
  NoKey,
  Clients,     \* the clients that have a route
  Absent,      \* no entry in a map
  Omitted,     \* a JSON field the request leaves out
  NoRef        \* the empty helper-model preference ("follow the route")

ASSUME NoKeyAssumption == NoKey \in ApiKeys

OrElse(value, default) == IF value = Omitted THEN default ELSE value

(***************************************************************************)
(* Shapes.  A route and a selectable model id are both                     *)
(* <provider>/<key>/<model>.  legacy is the in-memory Provider.Models that *)
(* is never written to YAML.                                               *)
(***************************************************************************)

Ref == [provider : Providers, key : Keys, model : Models]

Catalog == [Models -> {"on", "off", "undeclared"}]

NoCatalog == [m \in Models |-> "undeclared"]

Group == [enabled : BOOLEAN, default : Models, models : Catalog, apiKey : ApiKeys]

Provider ==
  [enabled : BOOLEAN, groups : [Keys -> Group \cup {Absent}], legacy : Catalog]

HelperClients == {"codex", "claude"}

Config ==
  [providers        : [Providers -> Provider \cup {Absent}],
   routes           : [Clients -> Ref],
   helper           : [HelperClients -> Ref \cup {NoRef}],
   remoteCompaction : BOOLEAN,
   logging          : BOOLEAN]

\* Server.modelCache: an entry without models and no entry are the same.
Cache == [Providers \X Keys -> SUBSET Models]

NoModels == [pk \in Providers \X Keys |-> {}]

\* A Go type assertion would fail on these: the special values are none of the
\* values they stand beside.
ASSUME SpecialValuesAssumption ==
  /\ Absent \notin Provider
  /\ Absent \notin Group
  /\ NoRef \notin Ref
  /\ Omitted \notin BOOLEAN \cup ApiKeys

(***************************************************************************)
(* Reading a config.                                                       *)
(***************************************************************************)

\* KeyGroup.ModelEnabled: declared and not switched off.
ModelEnabled(group, model) == group.models[model] = "on"

\* Provider.KeyGroup: a provider that carries in-memory legacy models shows
\* them in place of the catalog of every one of its key groups.
KeyGroup(provider, key) ==
  IF provider.legacy = NoCatalog
    THEN provider.groups[key]
    ELSE [provider.groups[key] EXCEPT !.models = provider.legacy]

HasProvider(cfg, p) == cfg.providers[p] # Absent

HasGroup(cfg, p, k) == HasProvider(cfg, p) /\ cfg.providers[p].groups[k] # Absent

Groups(provider) == {k \in Keys : provider.groups[k] # Absent}

\* A ref whose provider, key group and catalog entry all exist and are enabled.
EnabledRef(cfg, ref) ==
  /\ HasGroup(cfg, ref.provider, ref.key)
  /\ cfg.providers[ref.provider].enabled
  /\ LET group == KeyGroup(cfg.providers[ref.provider], ref.key)
     IN  group.enabled /\ ModelEnabled(group, ref.model)

EnabledRefs(cfg) == {ref \in Ref : EnabledRef(cfg, ref)}

\* The models the last discovery of a key group returned, unless the catalog
\* entry of the model is explicitly switched off.
DiscoveredRefs(cfg, cache) ==
  {ref \in Ref :
     /\ ref.model \in cache[<<ref.provider, ref.key>>]
     /\ HasGroup(cfg, ref.provider, ref.key)
     /\ cfg.providers[ref.provider].enabled
     /\ cfg.providers[ref.provider].groups[ref.key].enabled
     /\ cfg.providers[ref.provider].groups[ref.key].models[ref.model] # "off"}

\* Server.modelCatalog, without the reserved entry.
ModelCatalog(cfg, cache) == EnabledRefs(cfg) \cup DiscoveredRefs(cfg, cache)

\* configuredHelperModel: the stored preference while it is selectable.
ConfiguredHelper(cfg, client) ==
  LET ref == cfg.helper[client]
  IN  IF /\ ref # NoRef
         /\ HasGroup(cfg, ref.provider, ref.key)
         /\ cfg.providers[ref.provider].enabled
         /\ cfg.providers[ref.provider].groups[ref.key].enabled
         /\ ModelEnabled(cfg.providers[ref.provider].groups[ref.key], ref.model)
        THEN ref ELSE NoRef

\* Server.clientSettings: what the file of a pointed client must express.
ClientSettings(cfg, cache, client) ==
  [catalog    |-> ModelCatalog(cfg, cache),
   compaction |-> client = "codex" /\ cfg.remoteCompaction,
   helper     |-> IF client = "claude" THEN ConfiguredHelper(cfg, client) ELSE NoRef,
   display    |-> IF client = "claude-desktop" THEN cfg.routes[client] ELSE NoRef]

(***************************************************************************)
(* Validation.                                                             *)
(***************************************************************************)

ValidProvider(provider) ==
  /\ Groups(provider) # {}
  /\ \A k \in Groups(provider) :
       ModelEnabled(provider.groups[k], provider.groups[k].default)

\* Mutant: a route is checked against its provider only.
ValidRouteProvider(cfg, route) == HasProvider(cfg, route.provider)

ValidRoute(cfg, route) ==
  /\ HasGroup(cfg, route.provider, route.key)
  /\ LET group == KeyGroup(cfg.providers[route.provider], route.key)
     IN  group.enabled /\ ModelEnabled(group, route.model)

\* Config.Validate.  A route may name a provider that is switched off.
Valid(cfg) ==
  /\ \A p \in Providers : HasProvider(cfg, p) => ValidProvider(cfg.providers[p])
  /\ \A c \in Clients : ValidRoute(cfg, cfg.routes[c])

\* What Marshal writes and Parse reads back: the legacy fields carry the YAML
\* tag "-".
Persisted(cfg) ==
  [cfg EXCEPT !.providers =
     [p \in Providers |->
        IF HasProvider(cfg, p) THEN [cfg.providers[p] EXCEPT !.legacy = NoCatalog] ELSE Absent]]

(***************************************************************************)
(* Management requests, decoded.  A request that edits the settings page   *)
(* carries the whole config the page was filled from; here that is the     *)
(* config the user read, with one route changed.                           *)
(***************************************************************************)

GroupPayload ==
  [enabled : BOOLEAN, default : Models, models : Catalog, apiKey : ApiKeys \cup {Omitted}]

GroupPayloads == [Keys -> GroupPayload \cup {Absent}]

Flag == BOOLEAN \cup {Omitted}

GroupChange == [enabled : Flag, models : Catalog]

Operation ==
  [kind : {"createProvider"}, provider : Providers, enabled : Flag, groups : GroupPayloads]
    \cup
  [kind : {"updateProvider"}, provider : Providers, enabled : Flag,
   groups : GroupPayloads \cup {Omitted}]
    \cup
  [kind : {"deleteProvider"}, provider : Providers]
    \cup
  [kind : {"availability"}, provider : Providers, enabled : Flag, models : Catalog,
   groups : [Keys -> GroupChange \cup {Absent}]]
    \cup
  [kind : {"createKeyGroup", "updateKeyGroup"}, provider : Providers, key : Keys,
   group : GroupPayload]
    \cup
  [kind : {"deleteKeyGroup"}, provider : Providers, key : Keys]
    \cup
  [kind : {"route", "settings"}, client : Clients, ref : Ref]
    \cup
  [kind : {"helperModels"}, client : HelperClients, ref : Ref \cup {NoRef}]
    \cup
  [kind : {"remoteCompaction", "logging"}, on : BOOLEAN]

\* Mutant: an omitted key is stored as it came.
FromPayloadUnchecked(group) == group

FromPayload(group) == [group EXCEPT !.apiKey = OrElse(@, NoKey)]

ProviderFromRequest(op) ==
  [enabled |-> OrElse(op.enabled, TRUE),
   groups  |-> [k \in Keys |-> IF op.groups[k] = Absent THEN Absent
                               ELSE FromPayload(op.groups[k])],
   legacy  |-> NoCatalog]

\* handleUpdateProvider: omitted fields are merged from the stored provider,
\* given key groups replace the stored ones.
MergedProvider(cfg, op) ==
  [enabled |-> OrElse(op.enabled, cfg.providers[op.provider].enabled),
   groups  |-> IF op.groups = Omitted THEN cfg.providers[op.provider].groups
               ELSE ProviderFromRequest(op).groups,
   legacy  |-> NoCatalog]

\* The entries of change that are given replace those of catalog.
Overlay(catalog, change) ==
  [m \in Models |-> IF change[m] = "undeclared" THEN catalog[m] ELSE change[m]]

\* handleUpdateProviderAvailability on one key group: only declared models.
GroupAvailability(group, change) ==
  [group EXCEPT
     !.enabled = OrElse(change.enabled, @),
     !.models  = [m \in Models |-> IF @[m] = "undeclared" THEN @[m]
                                   ELSE Overlay(@, change.models)[m]]]

\* ... and on the provider: a provider-level model flag is kept in legacy.
ProviderAvailability(cfg, op) ==
  LET old == cfg.providers[op.provider]
  IN  [enabled |-> OrElse(op.enabled, old.enabled),
       groups  |-> [k \in Keys |->
                      IF old.groups[k] = Absent \/ op.groups[k] = Absent THEN old.groups[k]
                      ELSE GroupAvailability(old.groups[k], op.groups[k])],
       legacy  |-> Overlay(old.legacy, op.models)]

\* keyGroupFromPayload on update: an omitted API key keeps the stored one.
MergedGroup(cfg, op) ==
  [op.group EXCEPT !.apiKey = OrElse(@, cfg.providers[op.provider].groups[op.key].apiKey)]

RoutesReference(cfg, p) == \E c \in Clients : cfg.routes[c].provider = p

RoutesReferenceKeyGroup(cfg, p, k) ==
  \E c \in Clients : cfg.routes[c].provider = p /\ cfg.routes[c].key = k

RemovedRouteModel(cfg, op) ==
  \E c \in Clients :
    LET r == cfg.routes[c]
    IN  /\ r.provider = op.provider /\ r.key = op.key
        /\ ModelEnabled(cfg.providers[op.provider].groups[op.key], r.model)
        /\ ~ModelEnabled(op.group, r.model)

PutProvider(cfg, p, provider) == [cfg EXCEPT !.providers[p] = provider]

PutGroup(cfg, p, k, group) == [cfg EXCEPT !.providers[p].groups[k] = group]

\* Mutant: the keys the page was filled from are written back.
PayloadProvider(cfg, p, provider) == [provider EXCEPT !.legacy = NoCatalog]

\* preserveKeyGroupAPIKeys: a group that survives a settings save keeps the key
\* stored now; a new group starts without one.
PreservedProvider(cfg, p, provider) ==
  [provider EXCEPT
     !.legacy = NoCatalog,
     !.groups = [k \in Keys |->
                   IF @[k] = Absent THEN Absent
                   ELSE [@[k] EXCEPT !.apiKey = IF HasGroup(cfg, p, k)
                                                  THEN cfg.providers[p].groups[k].apiKey
                                                  ELSE NoKey]]]

\* handlePutConfig: providers, routes and logging come from the payload, the
\* client preferences from the current config.
SavedSettings(cfg, payload) ==
  [cfg EXCEPT
     !.providers = [p \in Providers |->
                      IF HasProvider(payload, p)
                        THEN PreservedProvider(cfg, p, payload.providers[p]) ELSE Absent],
     !.routes    = payload.routes,
     !.logging   = payload.logging]

SetRoute(cfg, client, ref) == [cfg EXCEPT !.routes[client] = ref]

SetHelperModel(cfg, client, ref) == [cfg EXCEPT !.helper[client] = ref]

SetRemoteCompaction(cfg, on) == [cfg EXCEPT !.remoteCompaction = on]

SetLogging(cfg, on) == [cfg EXCEPT !.logging = on]

(***************************************************************************)
(* The handlers.  Result is the config a handler builds from the snapshot; *)
(* Accepts is what it checks before it touches a client file.  base is the *)
(* config a settings page was filled from.                                 *)
(***************************************************************************)

Result(cfg, op, base) ==
  CASE op.kind = "createProvider" -> PutProvider(cfg, op.provider, ProviderFromRequest(op))
    [] op.kind = "updateProvider" -> PutProvider(cfg, op.provider, MergedProvider(cfg, op))
    [] op.kind = "deleteProvider" -> PutProvider(cfg, op.provider, Absent)
    [] op.kind = "availability"   -> PutProvider(cfg, op.provider, ProviderAvailability(cfg, op))
    [] op.kind = "createKeyGroup" -> PutGroup(cfg, op.provider, op.key, FromPayload(op.group))
    [] op.kind = "updateKeyGroup" -> PutGroup(cfg, op.provider, op.key, MergedGroup(cfg, op))
    [] op.kind = "deleteKeyGroup" -> PutGroup(cfg, op.provider, op.key, Absent)
    [] op.kind = "route"          -> SetRoute(cfg, op.client, op.ref)
    [] op.kind = "settings"       -> SavedSettings(cfg, [base EXCEPT !.routes[op.client] = op.ref])
    [] op.kind = "helperModels"   -> SetHelperModel(cfg, op.client, op.ref)
    [] op.kind = "remoteCompaction" -> SetRemoteCompaction(cfg, op.on)
    [] op.kind = "logging"          -> SetLogging(cfg, op.on)

\* What each handler checks of its request.
MayCreateProvider(cfg, op) ==
  ~HasProvider(cfg, op.provider) /\ ValidProvider(ProviderFromRequest(op))

MayUpdateProvider(cfg, op) ==
  HasProvider(cfg, op.provider) /\ ValidProvider(MergedProvider(cfg, op))

MayDeleteProvider(cfg, op) == HasProvider(cfg, op.provider) /\ ~RoutesReference(cfg, op.provider)

MayCreateKeyGroup(cfg, op) == HasProvider(cfg, op.provider) /\ ~HasGroup(cfg, op.provider, op.key)

MayUpdateKeyGroup(cfg, op) == HasGroup(cfg, op.provider, op.key) /\ ~RemovedRouteModel(cfg, op)

MayDeleteKeyGroup(cfg, op) ==
  /\ HasGroup(cfg, op.provider, op.key)
  /\ Cardinality(Groups(cfg.providers[op.provider])) # 1
  /\ ~RoutesReferenceKeyGroup(cfg, op.provider, op.key)

MayPutRoute(cfg, op) ==
  /\ HasGroup(cfg, op.ref.provider, op.ref.key)
  /\ LET group == cfg.providers[op.ref.provider].groups[op.ref.key]
     IN  group.enabled /\ ModelEnabled(group, op.ref.model)

MayPutHelperModels(cfg, cache, op) == op.ref # NoRef => op.ref \in ModelCatalog(cfg, cache)

\* The handlers that validate the whole config before they touch a client file.
ValidatesFirst == {"availability", "createKeyGroup", "updateKeyGroup", "settings"}

Accepts(cfg, cache, op, base) ==
  /\ CASE op.kind = "createProvider" -> MayCreateProvider(cfg, op)
       [] op.kind = "updateProvider" -> MayUpdateProvider(cfg, op)
       [] op.kind = "deleteProvider" -> MayDeleteProvider(cfg, op)
       [] op.kind = "availability"   -> HasProvider(cfg, op.provider)
       [] op.kind = "createKeyGroup" -> MayCreateKeyGroup(cfg, op)
       [] op.kind = "updateKeyGroup" -> MayUpdateKeyGroup(cfg, op)
       [] op.kind = "deleteKeyGroup" -> MayDeleteKeyGroup(cfg, op)
       [] op.kind = "route"          -> MayPutRoute(cfg, op)
       [] op.kind = "helperModels"   -> MayPutHelperModels(cfg, cache, op)
       [] OTHER -> TRUE
  /\ op.kind \in ValidatesFirst => Valid(Result(cfg, op, base))

\* The discovery-cache entries a committed request drops.
Invalidated(op) ==
  CASE op.kind \in {"createProvider", "updateProvider", "deleteProvider", "availability"} ->
         {op.provider} \X Keys
    [] op.kind \in {"createKeyGroup", "updateKeyGroup", "deleteKeyGroup"} ->
         {<<op.provider, op.key>>}
    [] op.kind = "settings" -> Providers \X Keys
    [] OTHER -> {}

InvalidateModels(cache, op) ==
  [pk \in Providers \X Keys |-> IF pk \in Invalidated(op) THEN {} ELSE cache[pk]]
=============================================================================
