------------------------------ MODULE Routing ------------------------------
(***************************************************************************)
(* The routing of the data plane (internal/route Resolve): which provider, *)
(* key group and model a request goes to.  A function of the published     *)
(* config, the client and the model the request names.                     *)
(***************************************************************************)
EXTENDS GatewayConfig

\* What a request may name: nothing or gateway-default; one of the family names the
\* Claude desktop application always sends; a selectable model id; a bare model id.
\* Picker aliases are decoded to one of these first.
DefaultModel == [kind |-> "default"]

RequestedModel ==
  [kind : {"default", "family"}] \cup [kind : {"ref"}, ref : Ref] \cup [kind : {"bare"}, model : Models]

\* isClaudeDesktopFamilyModel: the desktop application cannot name another model.
NamesNothing(client, requested) ==
  \/ requested.kind = "default"
  \/ requested.kind = "family" /\ client = "claude-desktop"

\* ModelRefsView: the enabled key groups that declare a bare model, by provider and
\* key group.
Owners(cfg, model) == {ref \in EnabledRefs(cfg) : ref.model = model}

OnRoute(route, model) == [provider |-> route.provider, key |-> route.key, model |-> model]

\* A bare model of a generic client belongs to its only owner, and to the route
\* when there are several.
OwnerTarget(cfg, route, model) ==
  LET owners == Owners(cfg, model)
  IN  IF Cardinality(owners) = 1 THEN CHOOSE ref \in owners : TRUE
      ELSE IF OnRoute(route, model) \in owners THEN OnRoute(route, model)
      ELSE NoRef

\* A bare model that the key group of the route declares.
RouteTarget(cfg, route, model) ==
  IF /\ HasGroup(cfg, route.provider, route.key)
     /\ KeyGroup(cfg.providers[route.provider], route.key).enabled
     /\ ModelEnabled(KeyGroup(cfg.providers[route.provider], route.key), model)
    THEN OnRoute(route, model) ELSE NoRef

EnabledTarget(cfg, ref) == IF EnabledRef(cfg, ref) THEN ref ELSE NoRef

\* Resolve: the target, or NoRef for a request that is rejected.  A family name of
\* another client, and an id whose provider is unknown, are bare names nobody
\* declares.
Resolve(cfg, client, requested) ==
  LET route == cfg.routes[client]
  IN  CASE NamesNothing(client, requested) -> EnabledTarget(cfg, route)
        [] requested.kind = "ref" -> EnabledTarget(cfg, requested.ref)
        [] requested.kind = "bare" ->
             IF client = "generic" /\ Owners(cfg, requested.model) # {}
               THEN OwnerTarget(cfg, route, requested.model)
               ELSE RouteTarget(cfg, route, requested.model)
        [] OTHER -> NoRef
=============================================================================
