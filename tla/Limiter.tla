------------------------------ MODULE Limiter ------------------------------
(***************************************************************************)
(* The request limiter of the data plane (internal/server/limiter.go) and  *)
(* the calls that go through it (serveDataPlaneWith): a rate window per    *)
(* client, slots counted globally, per client and per provider, limits     *)
(* that are republished while calls are in flight.                         *)
(*                                                                         *)
(* A call walks  idle, rate, acquire, serving, idle.  What happens while   *)
(* it is served (conversion, upstream, body) ends in the deferred release  *)
(* whatever happens.  A call slot is reused once it is idle again.         *)
(***************************************************************************)
EXTENDS Integers, FiniteSets

CONSTANTS
  Calls,         \* handler goroutines
  Clients,
  Providers,
  LimitChoices,  \* the limits section of every config that may be published
  Minute,        \* length of a rate window
  MaxTime,       \* bound on the clock
  NoCall

\* A zero limit is switched off.
Limits == [global : Nat, perClient : Nat, perProvider : Nat, ratePerMinute : Nat]

Call == [client : Clients, provider : Providers, limits : Limits, clock : Nat]

ASSUME LimitsAssumption == LimitChoices \subseteq Limits
ASSUME CallsAssumption == IsFiniteSet(Calls)
ASSUME TimesAssumption == Minute \in Nat \ {0} /\ MaxTime \in Nat \ {0}
ASSUME NoCallAssumption == NoCall \notin Call

VARIABLES
  now,     \* the clock; 0 is Go's zero time
  limits,  \* limits of the published config
  global,  \* requestLimiter.global
  client,  \* requestLimiter.clients
  provider, \* requestLimiter.providers
  rate,    \* requestLimiter.rate: the current window of each client
  pc,      \* where each call is
  call     \* its client, its provider, the limits it has read and time.Now()

counters == <<global, client, provider>>
vars == <<now, limits, counters, rate, pc, call>>

NoWindow == [started |-> 0, count |-> 0]

\* A call holds its slots until its deferred release runs.
Active == {r \in Calls : pc[r] = "serving"}
ActiveOf(c) == {r \in Active : call[r].client = c}
ActiveOn(p) == {r \in Active : call[r].provider = p}

Init ==
  /\ now = 1
  /\ limits \in LimitChoices
  /\ global = 0
  /\ client = [c \in Clients |-> 0]
  /\ provider = [p \in Providers |-> 0]
  /\ rate = [c \in Clients |-> NoWindow]
  /\ pc = [r \in Calls |-> "idle"]
  /\ call = [r \in Calls |-> NoCall]

GoTo(r, label) == pc' = [pc EXCEPT ![r] = label]

Leave(r) ==
  /\ GoTo(r, "idle")
  /\ call' = [call EXCEPT ![r] = NoCall]

(***************************************************************************)
(* Steps of a call.                                                        *)
(***************************************************************************)

\* A request that routing resolves to a provider.  It works on the snapshot it
\* reads here; allowRate waits for the mutex with the time read here.
Arrive(r) ==
  /\ pc[r] = "idle"
  /\ GoTo(r, "rate")
  /\ \E c \in Clients, p \in Providers :
       call' = [call EXCEPT ![r] = [client |-> c, provider |-> p, limits |-> limits, clock |-> now]]
  /\ UNCHANGED <<now, limits, counters, rate>>

\* Mutant: any other time starts a window.
WindowRestarted(window, t) ==
  IF window.started = 0 \/ t # window.started THEN [started |-> t, count |-> 0] ELSE window

\* The window a call at time t belongs to.
Window(window, t) ==
  IF window.started = 0 \/ t - window.started >= Minute
    THEN [started |-> t, count |-> 0] ELSE window

\* allowRate lets the call through.
PassRate(r) ==
  LET c == call[r].client
      window == Window(rate[c], call[r].clock)
  IN  /\ pc[r] = "rate"
      /\ GoTo(r, "acquire")
      /\ \/ /\ call[r].limits.ratePerMinute = 0
            /\ UNCHANGED rate
         \/ /\ call[r].limits.ratePerMinute > window.count
            /\ rate' = [rate EXCEPT ![c] = [window EXCEPT !.count = @ + 1]]
      /\ UNCHANGED <<now, limits, counters, call>>

RateLimited(r) ==
  LET c == call[r].client
      window == Window(rate[c], call[r].clock)
  IN  /\ pc[r] = "rate"
      /\ call[r].limits.ratePerMinute \in 1..window.count
      /\ rate' = [rate EXCEPT ![c] = window]
      /\ Leave(r)
      /\ UNCHANGED <<now, limits, counters>>

\* Mutant: one call too many.
ReachedTooLate(limit, n) == limit > 0 /\ n > limit

Reached(limit, n) == limit > 0 /\ n >= limit

\* A limit that applies to the call is reached.
Full(r) ==
  \/ Reached(call[r].limits.global, global)
  \/ Reached(call[r].limits.perClient, client[call[r].client])
  \/ Reached(call[r].limits.perProvider, provider[call[r].provider])

\* tryAcquire counts the call everywhere, or nowhere.
Acquire(r) ==
  /\ pc[r] = "acquire"
  /\ ~Full(r)
  /\ global' = global + 1
  /\ client' = [client EXCEPT ![call[r].client] = @ + 1]
  /\ provider' = [provider EXCEPT ![call[r].provider] = @ + 1]
  /\ GoTo(r, "serving")
  /\ UNCHANGED <<now, limits, rate, call>>

\* The charge of the rate window is not given back.
ConcurrencyLimited(r) ==
  /\ pc[r] = "acquire"
  /\ Full(r)
  /\ Leave(r)
  /\ UNCHANGED <<now, limits, counters, rate>>

\* Mutants: the release runs twice, and it uses the limits of today.
ReleaseTwice(r) ==
  /\ pc[r] = "serving"
  /\ global' = global - 2
  /\ client' = [client EXCEPT ![call[r].client] = @ - 2]
  /\ provider' = [provider EXCEPT ![call[r].provider] = @ - 2]
  /\ Leave(r)
  /\ UNCHANGED <<now, limits, rate>>

ReleaseWhatIsLimited(r) ==
  /\ pc[r] = "serving"
  /\ global' = global - 1
  /\ client' = [client EXCEPT ![call[r].client] = @ - 1]
  /\ provider' = IF limits.perProvider = 0 THEN provider
                 ELSE [provider EXCEPT ![call[r].provider] = @ - 1]
  /\ Leave(r)
  /\ UNCHANGED <<now, limits, rate>>

\* The deferred release, however the call was served.
Release(r) ==
  /\ pc[r] = "serving"
  /\ global' = global - 1
  /\ client' = [client EXCEPT ![call[r].client] = @ - 1]
  /\ provider' = [provider EXCEPT ![call[r].provider] = @ - 1]
  /\ Leave(r)
  /\ UNCHANGED <<now, limits, rate>>

(***************************************************************************)
(* The surroundings.                                                       *)
(***************************************************************************)

\* A management write publishes other limits.
ChangeLimits ==
  /\ \E l \in LimitChoices \ {limits} : limits' = l
  /\ UNCHANGED <<now, counters, rate, pc, call>>

Tick ==
  /\ now < MaxTime
  /\ now' = now + 1
  /\ UNCHANGED <<limits, counters, rate, pc, call>>

Step(r) ==
  Arrive(r) \/ PassRate(r) \/ RateLimited(r) \/ Acquire(r) \/ ConcurrencyLimited(r) \/ Release(r)

Next == (\E r \in Calls : Step(r)) \/ ChangeLimits \/ Tick

Spec == Init /\ [][Next]_vars

(***************************************************************************)
(* Properties.                                                             *)
(***************************************************************************)

\* Counters are natural numbers (a slot is never given back twice), and a call in
\* progress has a client, a provider and limits.
TypeOK ==
  /\ now \in Nat
  /\ limits \in LimitChoices
  /\ global \in Nat
  /\ client \in [Clients -> Nat]
  /\ provider \in [Providers -> Nat]
  /\ rate \in [Clients -> [started : Nat, count : Nat]]
  /\ pc \in [Calls -> {"idle", "rate", "acquire", "serving"}]
  /\ call \in [Calls -> Call \cup {NoCall}]
  /\ \A r \in Calls : pc[r] # "idle" => call[r] \in Call

\* The limiter counts exactly the calls in progress, globally, per client and per
\* provider, whatever limits were in force when they came and when they left.
SlotsMatchCalls ==
  /\ global = Cardinality(Active)
  /\ \A c \in Clients : client[c] = Cardinality(ActiveOf(c))
  /\ \A p \in Providers : provider[p] = Cardinality(ActiveOn(p))

GlobalLimit(r) == call[r].limits.global
ClientLimit(r) == call[r].limits.perClient
ProviderLimit(r) == call[r].limits.perProvider

Allows(limit, n) == limit = 0 \/ n <= limit

\* However the limits change, the calls in progress are never more than the last of
\* them to come in was allowed to make them.
LimitsRespected ==
  /\ Active # {} => \E r \in Active : Allows(GlobalLimit(r), global)
  /\ \A c \in Clients : ActiveOf(c) # {} => \E r \in ActiveOf(c) : Allows(ClientLimit(r), client[c])
  /\ \A p \in Providers :
       ActiveOn(p) # {} => \E r \in ActiveOn(p) : Allows(ProviderLimit(r), provider[p])

\* A window takes no more calls than the limit of the last one allows, and gives way
\* to a new one only a minute later, even to calls that read the clock long before
\* they are let through.
RateStep ==
  \A c \in Clients :
    LET w == rate[c]
        next == rate'[c]
    IN  next # w =>
          \/ /\ next.started = w.started
             /\ \E r \in Calls : pc[r] = "rate" /\ next.count <= call[r].limits.ratePerMinute
          \/ w.started = 0
          \/ next.started >= w.started + Minute

RateHolds == [][RateStep]_vars
=============================================================================
