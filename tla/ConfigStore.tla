---------------------------- MODULE ConfigStore ----------------------------
(***************************************************************************)
(* What the management API promises about the configuration: every write   *)
(* request takes effect at one instant on the configuration as it is then, *)
(* or not at all, and its answer says which.  Locks, files, client syncs   *)
(* and the discovery cache are ConfigTx, which implements this module.     *)
(***************************************************************************)
EXTENDS GatewayConfig

CONSTANTS
  Requests,      \* the write requests of a behaviour, each sent once
  Operations,    \* what they may ask for
  InitialConfig

VARIABLES
  store,  \* the configuration
  phase,  \* where each request is; a final phase is its answer
  asked   \* what each request asks: [op, base]

vars == <<store, phase, asked>>

Answers == {"ok", "rejected", "error", "lost"}

NothingAsked == [op |-> Omitted, base |-> Omitted]

Init ==
  /\ store = InitialConfig
  /\ phase = [r \in Requests |-> "idle"]
  /\ asked = [r \in Requests |-> NothingAsked]

\* The settings page a request is based on may be older than the configuration.
Receive(r) ==
  /\ phase[r] = "idle"
  /\ asked'[r].op \in Operations
  /\ asked' = [asked EXCEPT ![r] = asked'[r]]
  /\ phase' = [phase EXCEPT ![r] = "open"]
  /\ UNCHANGED store

\* A creation never replaces what exists, every other request on a provider or
\* key group needs it to exist.
Addresses(cfg, op) ==
  CASE op.kind = "createProvider" -> ~HasProvider(cfg, op.provider)
    [] op.kind \in {"updateProvider", "deleteProvider", "availability"} ->
         HasProvider(cfg, op.provider)
    [] op.kind = "createKeyGroup" ->
         HasProvider(cfg, op.provider) /\ ~HasGroup(cfg, op.provider, op.key)
    [] op.kind \in {"updateKeyGroup", "deleteKeyGroup"} -> HasGroup(cfg, op.provider, op.key)
    [] OTHER -> TRUE

\* The request applies to the configuration as it is now, and only if what it
\* leaves behind is valid.
Commit(r) ==
  /\ phase[r] = "open"
  /\ Addresses(store, asked[r].op)
  /\ store' = Result(store, asked[r].op, asked[r].base)
  /\ Valid(store')
  /\ phase' = [phase EXCEPT ![r] = "committed"]
  /\ UNCHANGED asked

Succeed(r) ==
  /\ phase[r] = "committed"
  /\ phase' = [phase EXCEPT ![r] = "ok"]
  /\ UNCHANGED <<store, asked>>

Refuse(r) ==
  /\ phase[r] = "open"
  /\ \E answer \in {"rejected", "error"} : phase' = [phase EXCEPT ![r] = answer]
  /\ UNCHANGED <<store, asked>>

\* The process dies: what was committed stays, except for what is never written
\* to the file, and open requests get no answer.
Crash ==
  /\ store' = Persisted(store)
  /\ phase' = [r \in Requests |->
                 IF phase[r] \in {"open", "committed"} THEN "lost" ELSE phase[r]]
  /\ UNCHANGED asked

Next ==
  \/ \E r \in Requests : Receive(r) \/ Commit(r) \/ Succeed(r) \/ Refuse(r)
  \/ Crash

Spec == Init /\ [][Next]_vars
=============================================================================
