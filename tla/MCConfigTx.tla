----------------------------- MODULE MCConfigTx -----------------------------
(* Instances of ConfigTx for TLC. *)
EXTENDS ConfigTx, TLC

CONSTANTS p1, p2, k1, k2, m1, m2, a1, a2, r1, r2, r3

MCProviders == {p1, p2}
MCKeys == {k1, k2}
MCModels == {m1, m2}
MCApiKeys == {NoKey, a1, a2}
MCRequests == {r1, r2}
MCClients == {"codex", "claude", "claude-desktop", "generic"}
MCPointClients == MCClients \ {"generic"}
ThreeRequests == {r1, r2, r3}
OneClient == {"codex"}

At(p, k, m) == [provider |-> p, key |-> k, model |-> m]

CatalogOf(on) == [m \in Models |-> IF m \in on THEN "on" ELSE "undeclared"]

GroupOf(key, on) == [enabled |-> TRUE, default |-> m1, models |-> CatalogOf(on), apiKey |-> key]

OnlyGroup(k, group) == [x \in Keys |-> IF x = k THEN group ELSE Absent]

ProviderOf(groups) == [enabled |-> TRUE, groups |-> groups, legacy |-> NoCatalog]

\* p1 serves every route and also declares m2; p2 is a spare with two key groups.
MCInitial ==
  [providers        |->
     (p1 :> ProviderOf(OnlyGroup(k1, GroupOf(a1, {m1, m2}))) @@
      p2 :> ProviderOf(k1 :> GroupOf(a1, {m1}) @@ k2 :> GroupOf(NoKey, {m1}))),
   routes           |-> [c \in MCClients |-> At(p1, k1, m1)],
   helper           |-> [c \in HelperClients |-> NoRef],
   remoteCompaction |-> FALSE,
   logging          |-> TRUE]

\* A request that only Manager.Write stops, after client files were synchronised:
\* the update removes the key group every route names.
RemoveRoutedGroup ==
  [kind |-> "updateProvider", provider |-> p1, enabled |-> Omitted,
   groups |-> OnlyGroup(k2, GroupOf(a2, {m1}))]

RouteToSpare == [kind |-> "route", client |-> "claude-desktop", ref |-> At(p2, k1, m1)]

RotateKey ==
  [kind |-> "updateKeyGroup", provider |-> p1, key |-> k1, group |-> GroupOf(a2, {m1})]

SaveSettings == [kind |-> "settings", client |-> "codex", ref |-> At(p2, k1, m1)]

SwitchCompaction == [kind |-> "remoteCompaction", on |-> TRUE]

DeleteSpare == [kind |-> "deleteProvider", provider |-> p2]

\* One request of every kind.
MCOperations ==
  {RemoveRoutedGroup, RouteToSpare, RotateKey, SaveSettings, DeleteSpare,
   [kind |-> "updateProvider", provider |-> p2, enabled |-> FALSE, groups |-> Omitted],
   [kind |-> "createProvider", provider |-> p2, enabled |-> Omitted,
    groups |-> OnlyGroup(k1, [GroupOf(a1, {m2}) EXCEPT !.default = m2, !.apiKey = Omitted])],
   [kind |-> "availability", provider |-> p1, enabled |-> Omitted, models |-> NoCatalog,
    groups |-> OnlyGroup(k1, [enabled |-> Omitted,
                              models |-> [NoCatalog EXCEPT ![m2] = "off"]])],
   [kind |-> "createKeyGroup", provider |-> p1, key |-> k2, group |-> GroupOf(Omitted, {m1})],
   [kind |-> "deleteKeyGroup", provider |-> p2, key |-> k1],
   [kind |-> "helperModels", client |-> "claude", ref |-> At(p2, k1, m1)],
   SwitchCompaction,
   [kind |-> "logging", on |-> FALSE]}

\* m2 is added to the last key group of the last provider, whose probe may have found
\* it already: declared or discovered, it is the last entry of every catalog.
DeclareModel ==
  [kind |-> "updateKeyGroup", provider |-> p2, key |-> k2, group |-> GroupOf(Omitted, {m1, m2})]

LastDiscovery == {<<p2, k2, {m2}>>}

\* The requests that meet points and probes: one takes from every catalog, one adds to
\* it, one changes what only the file of Codex says.
RacingOperations == {SwitchCompaction, DeleteSpare, DeclareModel}

OnlyDeclarations == {DeclareModel}

\* m2 becomes the routed model, the models are switched on at the provider, and
\* m2 is switched off in its key group.
ModelSwitches ==
  {[kind |-> "route", client |-> "codex", ref |-> At(p1, k1, m2)],
   [kind |-> "availability", provider |-> p1, enabled |-> Omitted,
    models |-> CatalogOf({m1, m2}), groups |-> [k \in Keys |-> Absent]],
   [kind |-> "availability", provider |-> p1, enabled |-> Omitted, models |-> NoCatalog,
    groups |-> OnlyGroup(k1, [enabled |-> Omitted,
                              models |-> [NoCatalog EXCEPT ![m2] = "off"]])]}

NoDiscoveries == {}

RequestSymmetry == Permutations(MCRequests)
=============================================================================
