------------------------ MODULE GatewayConfig_proofs ------------------------
(***************************************************************************)
(* Lemmas about the operators of GatewayConfig: what a request makes of a  *)
(* configuration is a configuration, writing it to the file is idempotent, *)
(* and client settings and the discovery cache have their types.           *)
(***************************************************************************)
EXTENDS GatewayConfig, TLAPS

\* Which fields a request of each kind carries (the request structs of
\* internal/server).
LEMMA OperationFields ==
  ASSUME NEW op \in Operation
  PROVE  /\ op.kind \in {"createProvider", "updateProvider", "deleteProvider", "availability",
                         "createKeyGroup", "updateKeyGroup", "deleteKeyGroup", "route",
                         "settings", "helperModels", "remoteCompaction", "logging"}
         /\ op.kind \in {"createProvider", "updateProvider", "deleteProvider", "availability",
                         "createKeyGroup", "updateKeyGroup", "deleteKeyGroup"}
              => op.provider \in Providers
         /\ op.kind \in {"createProvider", "updateProvider", "availability"} => op.enabled \in Flag
         /\ op.kind = "createProvider" => op.groups \in GroupPayloads
         /\ op.kind = "updateProvider" => op.groups \in GroupPayloads \cup {Omitted}
         /\ op.kind = "availability" =>
              op.models \in Catalog /\ op.groups \in [Keys -> GroupChange \cup {Absent}]
         /\ op.kind \in {"createKeyGroup", "updateKeyGroup", "deleteKeyGroup"} => op.key \in Keys
         /\ op.kind \in {"createKeyGroup", "updateKeyGroup"} => op.group \in GroupPayload
         /\ op.kind \in {"route", "settings"} => op.client \in Clients /\ op.ref \in Ref
         /\ op.kind = "helperModels" =>
              op.client \in HelperClients /\ op.ref \in Ref \cup {NoRef}
         /\ op.kind \in {"remoteCompaction", "logging"} => op.on \in BOOLEAN
BY DEF Operation

\* The key group a create or update payload describes.
LEMMA FromPayloadType ==
  ASSUME NEW group \in GroupPayload
  PROVE  FromPayload(group) \in Group
BY NoKeyAssumption DEF GroupPayload, FromPayload, Group, OrElse

LEMMA NoCatalogType == NoCatalog \in Catalog
BY DEF NoCatalog, Catalog

\* The provider a create or update payload describes.
LEMMA FromRequestType ==
  ASSUME NEW op, op.enabled \in Flag, op.groups \in GroupPayloads
  PROVE  ProviderFromRequest(op) \in Provider
<1>1. OrElse(op.enabled, TRUE) \in BOOLEAN
  BY DEF OrElse, Flag
<1>2. [k \in Keys |-> IF op.groups[k] = Absent THEN Absent ELSE FromPayload(op.groups[k])]
        \in [Keys -> Group \cup {Absent}]
  <2>1. ASSUME NEW k \in Keys, op.groups[k] # Absent
        PROVE  FromPayload(op.groups[k]) \in Group
    BY <2>1, FromPayloadType DEF GroupPayloads
  <2>2. QED
    BY <2>1
<1>3. QED
  BY <1>1, <1>2, NoCatalogType DEF ProviderFromRequest, Provider

\* The configuration has a provider entry of the right type where it has one.
LEMMA ProviderType ==
  ASSUME NEW cfg \in Config, NEW p \in Providers, HasProvider(cfg, p)
  PROVE  cfg.providers[p] \in Provider
BY DEF Config, HasProvider

LEMMA GroupType ==
  ASSUME NEW cfg \in Config, NEW p \in Providers, NEW k \in Keys, HasGroup(cfg, p, k)
  PROVE  cfg.providers[p].groups[k] \in Group
BY ProviderType DEF HasGroup, Provider

LEMMA MergedProviderType ==
  ASSUME NEW cfg \in Config, NEW op \in Operation, op.kind = "updateProvider",
         HasProvider(cfg, op.provider)
  PROVE  MergedProvider(cfg, op) \in Provider
<1>1. /\ op.provider \in Providers
      /\ op.enabled \in Flag
      /\ op.groups \in GroupPayloads \cup {Omitted}
  BY OperationFields
<1>2. cfg.providers[op.provider] \in Provider
  BY <1>1, ProviderType
<1>3. OrElse(op.enabled, cfg.providers[op.provider].enabled) \in BOOLEAN
  BY <1>1, <1>2 DEF OrElse, Flag, Provider
<1>4. CASE op.groups = Omitted
  BY <1>2, <1>3, <1>4, NoCatalogType DEF MergedProvider, Provider
<1>5. CASE op.groups # Omitted
  <2>1. ProviderFromRequest(op) \in Provider
    BY <1>1, <1>5, FromRequestType
  <2>2. QED
    BY <1>3, <1>5, <2>1, NoCatalogType DEF MergedProvider, Provider
<1>6. QED
  BY <1>4, <1>5

LEMMA OverlayType ==
  ASSUME NEW catalog \in Catalog, NEW change \in Catalog
  PROVE  Overlay(catalog, change) \in Catalog
BY DEF Overlay, Catalog

LEMMA GroupAvailabilityType ==
  ASSUME NEW group \in Group, NEW change \in GroupChange
  PROVE  GroupAvailability(group, change) \in Group
<1>1. OrElse(change.enabled, group.enabled) \in BOOLEAN
  BY DEF OrElse, GroupChange, Flag, Group
<1>2. group.models \in Catalog /\ change.models \in Catalog
  BY DEF Group, GroupChange
<1>3. [m \in Models |-> IF group.models[m] = "undeclared" THEN group.models[m]
                        ELSE Overlay(group.models, change.models)[m]] \in Catalog
  BY <1>2, OverlayType DEF Catalog
<1>4. QED
  BY <1>1, <1>3 DEF GroupAvailability, Group

LEMMA ProviderAvailabilityType ==
  ASSUME NEW cfg \in Config, NEW op \in Operation, op.kind = "availability",
         HasProvider(cfg, op.provider)
  PROVE  ProviderAvailability(cfg, op) \in Provider
<1> DEFINE old == cfg.providers[op.provider]
           groups == [k \in Keys |->
                        IF old.groups[k] = Absent \/ op.groups[k] = Absent THEN old.groups[k]
                        ELSE GroupAvailability(old.groups[k], op.groups[k])]
<1>1. /\ op.provider \in Providers
      /\ op.enabled \in Flag
      /\ op.models \in Catalog
      /\ op.groups \in [Keys -> GroupChange \cup {Absent}]
  BY OperationFields
<1>2. old \in Provider
  BY <1>1, ProviderType
<1>3. OrElse(op.enabled, old.enabled) \in BOOLEAN
  BY <1>1, <1>2 DEF OrElse, Flag, Provider
<1>4. groups \in [Keys -> Group \cup {Absent}]
  <2>1. ASSUME NEW k \in Keys, old.groups[k] # Absent, op.groups[k] # Absent
        PROVE  GroupAvailability(old.groups[k], op.groups[k]) \in Group
    <3>1. old.groups[k] \in Group /\ op.groups[k] \in GroupChange
      BY <1>1, <1>2, <2>1 DEF Provider
    <3>2. QED
      BY <3>1, GroupAvailabilityType
  <2>2. ASSUME NEW k \in Keys PROVE old.groups[k] \in Group \cup {Absent}
    BY <1>2, <2>2 DEF Provider
  <2>3. QED
    BY <2>1, <2>2
<1>5. Overlay(old.legacy, op.models) \in Catalog
  BY <1>1, <1>2, OverlayType DEF Provider
<1>6. ProviderAvailability(cfg, op) =
        [enabled |-> OrElse(op.enabled, old.enabled), groups |-> groups,
         legacy |-> Overlay(old.legacy, op.models)]
  BY DEF ProviderAvailability
<1>7. QED
  BY <1>3, <1>4, <1>5, <1>6 DEF Provider

LEMMA MergedGroupType ==
  ASSUME NEW cfg \in Config, NEW op \in Operation, op.kind = "updateKeyGroup",
         HasGroup(cfg, op.provider, op.key)
  PROVE  MergedGroup(cfg, op) \in Group
<1>1. op.provider \in Providers /\ op.key \in Keys /\ op.group \in GroupPayload
  BY OperationFields
<1>2. cfg.providers[op.provider].groups[op.key].apiKey \in ApiKeys
  BY <1>1, GroupType DEF Group
<1>3. QED
  BY <1>1, <1>2 DEF MergedGroup, GroupPayload, Group, OrElse

LEMMA PutProviderType ==
  ASSUME NEW cfg \in Config, NEW p \in Providers, NEW provider \in Provider \cup {Absent}
  PROVE  PutProvider(cfg, p, provider) \in Config
BY DEF PutProvider, Config

LEMMA PutGroupType ==
  ASSUME NEW cfg \in Config, NEW p \in Providers, NEW k \in Keys,
         NEW group \in Group \cup {Absent}, HasProvider(cfg, p)
  PROVE  PutGroup(cfg, p, k, group) \in Config
<1>1. cfg.providers[p] \in Provider
  BY ProviderType
<1>2. [cfg.providers[p] EXCEPT !.groups[k] = group] \in Provider
  BY <1>1 DEF Provider
<1>3. PutGroup(cfg, p, k, group)
        = PutProvider(cfg, p, [cfg.providers[p] EXCEPT !.groups[k] = group])
  BY DEF PutGroup, PutProvider, Config
<1>4. QED
  BY <1>2, <1>3, PutProviderType

LEMMA PreservedProviderType ==
  ASSUME NEW cfg \in Config, NEW p \in Providers, NEW provider \in Provider
  PROVE  PreservedProvider(cfg, p, provider) \in Provider
<1> DEFINE key(k) == IF HasGroup(cfg, p, k) THEN cfg.providers[p].groups[k].apiKey ELSE NoKey
           groups == [k \in Keys |-> IF provider.groups[k] = Absent THEN Absent
                                     ELSE [provider.groups[k] EXCEPT !.apiKey = key(k)]]
<1>1. ASSUME NEW k \in Keys PROVE key(k) \in ApiKeys
  BY GroupType, NoKeyAssumption DEF Group
<1>2. ASSUME NEW k \in Keys, provider.groups[k] # Absent
      PROVE  [provider.groups[k] EXCEPT !.apiKey = key(k)] \in Group
  <2>1. provider.groups[k] \in Group
    BY <1>2 DEF Provider
  <2>2. key(k) \in ApiKeys
    BY <1>1
  <2> HIDE DEF key
  <2>3. QED
    BY <2>1, <2>2 DEF Group
<1>3. groups \in [Keys -> Group \cup {Absent}]
  <2> HIDE DEF key
  <2>1. QED
    BY <1>2
<1>4. PreservedProvider(cfg, p, provider)
        = [provider EXCEPT !.legacy = NoCatalog, !.groups = groups]
  BY DEF PreservedProvider
<1> HIDE DEF groups
<1>5. QED
  BY <1>3, <1>4, NoCatalogType DEF Provider

LEMMA SavedSettingsType ==
  ASSUME NEW cfg \in Config, NEW payload \in Config
  PROVE  SavedSettings(cfg, payload) \in Config
<1> DEFINE providers == [p \in Providers |->
                           IF HasProvider(payload, p)
                             THEN PreservedProvider(cfg, p, payload.providers[p]) ELSE Absent]
<1>1. providers \in [Providers -> Provider \cup {Absent}]
  BY ProviderType, PreservedProviderType
<1>2. SavedSettings(cfg, payload)
        = [cfg EXCEPT !.providers = providers, !.routes = payload.routes,
                      !.logging = payload.logging]
  BY DEF SavedSettings
<1> HIDE DEF providers
<1>3. QED
  BY <1>1, <1>2 DEF Config

\* Whatever an accepted request makes of a configuration is a configuration.
THEOREM ResultIsConfig ==
  ASSUME NEW cfg \in Config, NEW cache \in Cache, NEW op \in Operation, NEW base \in Config,
         Accepts(cfg, cache, op, base)
  PROVE  Result(cfg, op, base) \in Config
<1> USE OperationFields
<1>1. CASE op.kind = "createProvider"
  <2>1. ProviderFromRequest(op) \in Provider
    BY <1>1, FromRequestType
  <2>2. QED
    BY <1>1, <2>1, PutProviderType DEF Result
<1>2. CASE op.kind = "updateProvider"
  <2>1. HasProvider(cfg, op.provider)
    BY <1>2 DEF Accepts, MayUpdateProvider
  <2>2. MergedProvider(cfg, op) \in Provider
    BY <1>2, <2>1, MergedProviderType
  <2>3. QED
    BY <1>2, <2>2, PutProviderType DEF Result
<1>3. CASE op.kind = "deleteProvider"
  BY <1>3, PutProviderType DEF Result
<1>4. CASE op.kind = "availability"
  <2>1. HasProvider(cfg, op.provider)
    BY <1>4 DEF Accepts
  <2>2. ProviderAvailability(cfg, op) \in Provider
    BY <1>4, <2>1, ProviderAvailabilityType
  <2>3. QED
    BY <1>4, <2>2, PutProviderType DEF Result
<1>5. CASE op.kind = "createKeyGroup"
  <2>1. HasProvider(cfg, op.provider)
    BY <1>5 DEF Accepts, MayCreateKeyGroup
  <2>2. FromPayload(op.group) \in Group
    BY <1>5, FromPayloadType
  <2>3. QED
    BY <1>5, <2>1, <2>2, PutGroupType DEF Result
<1>6. CASE op.kind = "updateKeyGroup"
  <2>1. HasGroup(cfg, op.provider, op.key)
    BY <1>6 DEF Accepts, MayUpdateKeyGroup
  <2>2. HasProvider(cfg, op.provider)
    BY <2>1 DEF HasGroup
  <2>3. MergedGroup(cfg, op) \in Group
    BY <1>6, <2>1, MergedGroupType
  <2>4. QED
    BY <1>6, <2>2, <2>3, PutGroupType DEF Result
<1>7. CASE op.kind = "deleteKeyGroup"
  <2>1. HasProvider(cfg, op.provider)
    BY <1>7 DEF Accepts, MayDeleteKeyGroup, HasGroup
  <2>2. QED
    BY <1>7, <2>1, PutGroupType DEF Result
<1>8. CASE op.kind = "route"
  <2>1. Result(cfg, op, base) = [cfg EXCEPT !.routes[op.client] = op.ref]
    BY <1>8 DEF Result, SetRoute
  <2>2. QED
    BY <1>8, <2>1 DEF Config
<1>9. CASE op.kind = "settings"
  <2> DEFINE payload == [base EXCEPT !.routes[op.client] = op.ref]
  <2>1. payload \in Config
    BY <1>9 DEF Config
  <2>2. Result(cfg, op, base) = SavedSettings(cfg, payload)
    BY <1>9 DEF Result
  <2>3. QED
    BY <2>1, <2>2, SavedSettingsType
<1>10. CASE op.kind = "helperModels"
  <2>1. Result(cfg, op, base) = [cfg EXCEPT !.helper[op.client] = op.ref]
    BY <1>10 DEF Result, SetHelperModel
  <2>2. QED
    BY <1>10, <2>1 DEF Config
<1>11. CASE op.kind = "remoteCompaction"
  <2>1. Result(cfg, op, base) = [cfg EXCEPT !.remoteCompaction = op.on]
    BY <1>11 DEF Result, SetRemoteCompaction
  <2>2. QED
    BY <1>11, <2>1 DEF Config
<1>12. CASE op.kind = "logging"
  <2>1. Result(cfg, op, base) = [cfg EXCEPT !.logging = op.on]
    BY <1>12 DEF Result, SetLogging
  <2>2. QED
    BY <1>12, <2>1 DEF Config
<1>13. QED
  BY <1>1, <1>2, <1>3, <1>4, <1>5, <1>6, <1>7, <1>8, <1>9, <1>10, <1>11, <1>12

\* The file holds a configuration, and writing what was read back changes nothing.
LEMMA PersistedType ==
  ASSUME NEW cfg \in Config
  PROVE  Persisted(cfg) \in Config /\ Persisted(Persisted(cfg)) = Persisted(cfg)
<1> DEFINE saved(c) == [p \in Providers |->
                          IF HasProvider(c, p) THEN [c.providers[p] EXCEPT !.legacy = NoCatalog]
                          ELSE Absent]
<1>1. ASSUME NEW p \in Providers, HasProvider(cfg, p)
      PROVE  [cfg.providers[p] EXCEPT !.legacy = NoCatalog] \in Provider
  BY <1>1, ProviderType, NoCatalogType DEF Provider
<1>2. saved(cfg) \in [Providers -> Provider \cup {Absent}]
  BY <1>1
<1>3. Persisted(cfg) = [cfg EXCEPT !.providers = saved(cfg)]
  BY DEF Persisted
<1>4. Persisted(cfg) \in Config /\ Persisted(cfg).providers = saved(cfg)
  <2> HIDE DEF saved
  <2>1. QED
    BY <1>2, <1>3 DEF Config
<1>5. Persisted(Persisted(cfg)) = [Persisted(cfg) EXCEPT !.providers = saved(Persisted(cfg))]
  BY DEF Persisted
<1>6. saved(Persisted(cfg)) = saved(cfg)
  <2>1. ASSUME NEW p \in Providers
        PROVE  saved(Persisted(cfg))[p] = saved(cfg)[p]
    <3>1. CASE HasProvider(cfg, p)
      <4>1. saved(cfg)[p] \in Provider /\ saved(cfg)[p].legacy = NoCatalog
        BY <1>1, <3>1, ProviderType DEF Provider
      <4>2. HasProvider(Persisted(cfg), p)
        BY <1>4, <4>1, SpecialValuesAssumption DEF HasProvider
      <4>3. [saved(cfg)[p] EXCEPT !.legacy = NoCatalog] = saved(cfg)[p]
        <5> HIDE DEF saved
        <5>1. QED
          BY <4>1 DEF Provider
      <4>4. QED
        BY <1>4, <4>2, <4>3
    <3>2. CASE ~HasProvider(cfg, p)
      BY <1>4, <3>2 DEF HasProvider
    <3>3. QED
      BY <3>1, <3>2
  <2>2. QED
    BY <2>1
<1>7. QED
  <2> HIDE DEF saved
  <2>1. QED
    BY <1>4, <1>5, <1>6 DEF Config

LEMMA InvalidateType ==
  ASSUME NEW cache \in Cache, NEW op
  PROVE  InvalidateModels(cache, op) \in Cache
BY DEF InvalidateModels, Cache

LEMMA NoModelsType == NoModels \in Cache
BY DEF NoModels, Cache

\* What a client file expresses: a set of refs, a flag and two optional refs.
LEMMA ClientSettingsType ==
  ASSUME NEW cfg \in Config, NEW cache \in Cache, NEW c \in Clients
  PROVE  ClientSettings(cfg, cache, c)
           \in [catalog : SUBSET Ref, compaction : BOOLEAN, helper : Ref \cup {NoRef},
                display : Ref \cup {NoRef}]
<1>1. ModelCatalog(cfg, cache) \in SUBSET Ref
  BY DEF ModelCatalog, EnabledRefs, DiscoveredRefs
<1>2. (c = "codex" /\ cfg.remoteCompaction) \in BOOLEAN
  OBVIOUS
<1>3. (IF c = "claude" THEN ConfiguredHelper(cfg, c) ELSE NoRef) \in Ref \cup {NoRef}
  <2>1. cfg.helper \in [HelperClients -> Ref \cup {NoRef}]
    BY DEF Config
  <2>2. c = "claude" => ConfiguredHelper(cfg, c) \in {cfg.helper["claude"], NoRef}
    BY DEF ConfiguredHelper
  <2>3. QED
    BY <2>1, <2>2 DEF HelperClients
<1>4. (IF c = "claude-desktop" THEN cfg.routes[c] ELSE NoRef) \in Ref \cup {NoRef}
  BY DEF Config
<1>5. QED
  BY <1>1, <1>2, <1>3, <1>4 DEF ClientSettings

\* What the writers of one entry leave where.
LEMMA PutProviderGet ==
  ASSUME NEW cfg \in Config, NEW p \in Providers, NEW q \in Providers, NEW provider
  PROVE  PutProvider(cfg, p, provider).providers[q]
           = IF q = p THEN provider ELSE cfg.providers[q]
BY DEF PutProvider, Config

LEMMA PutGroupGet ==
  ASSUME NEW cfg \in Config, NEW p \in Providers, NEW k \in Keys, NEW group,
         HasProvider(cfg, p), NEW q \in Providers, NEW x \in Keys, HasProvider(cfg, q)
  PROVE  PutGroup(cfg, p, k, group).providers[q].groups[x]
           = IF q = p /\ x = k THEN group ELSE cfg.providers[q].groups[x]
<1>1. cfg.providers[p] \in Provider /\ cfg.providers[q] \in Provider
  BY ProviderType
<1> DEFINE changed == [cfg.providers[p] EXCEPT !.groups[k] = group]
<1>2. PutGroup(cfg, p, k, group) = PutProvider(cfg, p, changed)
  BY DEF PutGroup, PutProvider, Config
<1>3. changed.groups[x] = IF x = k THEN group ELSE cfg.providers[p].groups[x]
  BY <1>1 DEF Provider
<1> HIDE DEF changed
<1>4. QED
  BY <1>2, <1>3, PutProviderGet

\* The only requests that change the key of a key group that stays are the updates
\* of its provider and of the group itself.
LEMMA ResultKeepsKeys ==
  ASSUME NEW cfg \in Config, NEW known, NEW op \in Operation, NEW base \in Config,
         Accepts(cfg, known, op, base),
         NEW p \in Providers, NEW k \in Keys,
         HasGroup(cfg, p, k), HasGroup(Result(cfg, op, base), p, k),
         ~(op.kind \in {"updateProvider", "updateKeyGroup"} /\ op.provider = p)
  PROVE  Result(cfg, op, base).providers[p].groups[k].apiKey = cfg.providers[p].groups[k].apiKey
<1> DEFINE next == Result(cfg, op, base)
<1> USE OperationFields
<1>0. HasProvider(cfg, p) /\ HasProvider(next, p)
  BY DEF HasGroup
<1>1. CASE op.kind \in {"createProvider", "updateProvider", "deleteProvider"}
  <2>1. PICK x : next = PutProvider(cfg, op.provider, x) /\ (op.kind = "deleteProvider" => x = Absent)
    BY <1>1 DEF Result
  <2>2. op.kind = "createProvider" => ~HasProvider(cfg, op.provider)
    BY DEF Accepts, MayCreateProvider
  <2>3. op.provider # p
    BY <1>0, <1>1, <2>1, <2>2, PutProviderGet DEF HasProvider
  <2>4. QED
    BY <1>1, <2>1, <2>3, PutProviderGet
<1>2. CASE op.kind = "availability"
  <2> DEFINE provider == ProviderAvailability(cfg, op)
  <2>1. next = PutProvider(cfg, op.provider, provider)
    BY <1>2 DEF Result
  <2>2. CASE op.provider = p
    <3>1. cfg.providers[p].groups[k] \in Group
      BY GroupType
    <3>2. provider.groups[k] = IF op.groups[k] = Absent THEN cfg.providers[p].groups[k]
                               ELSE GroupAvailability(cfg.providers[p].groups[k], op.groups[k])
      BY <2>2 DEF ProviderAvailability, HasGroup
    <3>3. \A change : GroupAvailability(cfg.providers[p].groups[k], change).apiKey
                        = cfg.providers[p].groups[k].apiKey
      BY <3>1 DEF GroupAvailability, Group
    <3> HIDE DEF provider
    <3>4. next.providers[p] = provider
      BY <2>1, <2>2, PutProviderGet
    <3>5. QED
      BY <3>2, <3>3, <3>4
  <2>3. CASE op.provider # p
    BY <1>2, <2>1, <2>3, PutProviderGet
  <2>4. QED
    BY <2>2, <2>3
<1>3. CASE op.kind \in {"createKeyGroup", "updateKeyGroup", "deleteKeyGroup"}
  <2>1. PICK x : next = PutGroup(cfg, op.provider, op.key, x)
                   /\ (op.kind = "deleteKeyGroup" => x = Absent)
    BY <1>3 DEF Result
  <2>2. /\ HasProvider(cfg, op.provider)
        /\ op.kind = "createKeyGroup" => ~HasGroup(cfg, op.provider, op.key)
    BY <1>3 DEF Accepts, MayCreateKeyGroup, MayUpdateKeyGroup, MayDeleteKeyGroup, HasGroup
  <2>3. next.providers[p].groups[k]
          = IF p = op.provider /\ k = op.key THEN x ELSE cfg.providers[p].groups[k]
    BY <1>0, <1>3, <2>1, <2>2, PutGroupGet
  <2>4. ~(p = op.provider /\ k = op.key)
    BY <1>3, <2>1, <2>2, <2>3 DEF HasGroup
  <2>5. QED
    BY <2>3, <2>4
<1>4. CASE op.kind = "settings"
  <2> DEFINE payload == [base EXCEPT !.routes[op.client] = op.ref]
  <2>1. payload \in Config
    BY <1>4 DEF Config
  <2>2. next = SavedSettings(cfg, payload)
    BY <1>4 DEF Result
  <2> HIDE DEF payload
  <2>3. next.providers[p] = IF HasProvider(payload, p)
                              THEN PreservedProvider(cfg, p, payload.providers[p]) ELSE Absent
    BY <2>2 DEF SavedSettings, Config
  <2>4. HasProvider(payload, p)
    BY <1>0, <2>3 DEF HasProvider
  <2>5. payload.providers[p] \in Provider
    BY <2>1, <2>4, ProviderType
  <2>6. next.providers[p].groups[k]
          = IF payload.providers[p].groups[k] = Absent THEN Absent
            ELSE [payload.providers[p].groups[k] EXCEPT !.apiKey = cfg.providers[p].groups[k].apiKey]
    BY <2>3, <2>4, <2>5 DEF PreservedProvider, Provider
  <2>7. payload.providers[p].groups[k] \in Group
    BY <2>5, <2>6 DEF HasGroup, Provider
  <2>8. QED
    BY <2>6, <2>7 DEF HasGroup, Group
<1>5. CASE op.kind \in {"route", "helperModels", "remoteCompaction", "logging"}
  <2>1. next.providers = cfg.providers
    BY <1>5 DEF Result, Config, SetRoute, SetHelperModel, SetRemoteCompaction, SetLogging
  <2>2. QED
    BY <2>1
<1>6. QED
  BY <1>1, <1>2, <1>3, <1>4, <1>5
=============================================================================
