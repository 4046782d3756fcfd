------------------------------ MODULE Circuit ------------------------------
(***************************************************************************)
(* The circuit breaker of the data plane (internal/server/circuit.go) and  *)
(* the upstream calls that go through it (upstreamDo): failures counted    *)
(* per provider, a cooldown, calls that ask and report at any time, with   *)
(* the clock they read before they waited for the mutex.                   *)
(*                                                                         *)
(* A call walks  idle, allow, calling, observe, idle.                      *)
(***************************************************************************)
EXTENDS Integers

CONSTANTS
  Calls,      \* handler goroutines inside upstreamDo
  Providers,
  Threshold,  \* circuitFailureThreshold
  Cooldown,   \* circuitCooldown
  MaxTime,    \* bound on the clock
  NoCall

\* How an upstream call may end: an answer below 500, a 5xx, an upstream that is not
\* reached in time, a client that went away (its context cancels the call), a secret
\* the gateway does not have (nothing is sent).
Answers == {"ok", "serverError", "unreachable", "canceled", "noSecret"}

\* A call with the time it has read, whether it goes through a half-open circuit, and
\* its answer once there is one.
Call == [provider : Providers, clock : Nat, probe : BOOLEAN, answer : Answers \cup {"none"}]

ASSUME TimesAssumption == Cooldown \in Nat \ {0} /\ MaxTime \in Nat \ {0}
ASSUME ThresholdAssumption == Threshold \in Nat \ {0}
ASSUME NoCallAssumption == NoCall \notin Call

VARIABLES
  now,      \* the clock; 0 is Go's zero time
  circuit,  \* circuitBreaker.states; a provider without a state has Closed
  pc,       \* where each call is
  call,     \* the call itself
  streak    \* history: calls in a row that ended without an answer below 500, up to
            \* Threshold, whether or not the circuit was forgotten among them

vars == <<now, circuit, pc, call, streak>>

Closed == [failures |-> 0, openedAt |-> 0]

IsOpen(p) == circuit[p].openedAt # 0

\* What snapshot reports of a provider: open, and not cooled down yet.
ReportedOpen(p) == IsOpen(p) /\ now - circuit[p].openedAt < Cooldown

Init ==
  /\ now = 1
  /\ circuit = [p \in Providers |-> Closed]
  /\ pc = [r \in Calls |-> "idle"]
  /\ call = [r \in Calls |-> NoCall]
  /\ streak = [p \in Providers |-> 0]

GoTo(r, label) == pc' = [pc EXCEPT ![r] = label]

Leave(r) ==
  /\ GoTo(r, "idle")
  /\ call' = [call EXCEPT ![r] = NoCall]

(***************************************************************************)
(* Steps of upstreamDo.                                                    *)
(***************************************************************************)

\* The call reads the clock and goes for the mutex.
Ask(r) ==
  /\ pc[r] = "idle"
  /\ GoTo(r, "allow")
  /\ \E p \in Providers :
       call' = [call EXCEPT ![r] = [provider |-> p, clock |-> now, probe |-> FALSE,
                                    answer |-> "none"]]
  /\ UNCHANGED <<now, circuit, streak>>

\* The circuit is open and the call's time is within the cooldown.
Blocked(r) ==
  LET p == call[r].provider
  IN  IsOpen(p) /\ call[r].clock - circuit[p].openedAt < Cooldown

\* Mutant: an open circuit is half-open at once.
AllowWithoutCooldown(r) ==
  /\ pc[r] = "allow"
  /\ GoTo(r, "calling")
  /\ circuit' = [circuit EXCEPT ![call[r].provider] = Closed]
  /\ call' = [call EXCEPT ![r].clock = 0]
  /\ UNCHANGED <<now, streak>>

\* allow: a circuit that cooled down is forgotten, and the call is its probe.
Allow(r) ==
  /\ pc[r] = "allow"
  /\ ~Blocked(r)
  /\ GoTo(r, "calling")
  /\ circuit' = IF IsOpen(call[r].provider)
                  THEN [circuit EXCEPT ![call[r].provider] = Closed] ELSE circuit
  /\ call' = [call EXCEPT ![r].clock = 0, ![r].probe = IsOpen(call[r].provider)]
  /\ UNCHANGED <<now, streak>>

\* errProviderCircuitOpen: nothing is sent, nothing is observed.
CircuitOpen(r) ==
  /\ pc[r] = "allow"
  /\ Blocked(r)
  /\ Leave(r)
  /\ UNCHANGED <<now, circuit, streak>>

\* The call ends, reads the clock and goes for the mutex.
Answer(r) ==
  /\ pc[r] = "calling"
  /\ GoTo(r, "observe")
  /\ \E a \in Answers : call' = [call EXCEPT ![r].clock = now, ![r].answer = a]
  /\ UNCHANGED <<now, circuit, streak>>

\* Every error counts, whoever caused it.
Failed(a) == a # "ok"

Longer(n) == IF n < Threshold THEN n + 1 ELSE n

\* Mutants: a success does not clear the count; failures that come while the circuit
\* is open keep it open; it opens one failure too late.
ObservedWithoutReset(state, failed, t) ==
  IF state.openedAt # 0 \/ ~failed THEN state
  ELSE [failures |-> state.failures + 1,
        openedAt |-> IF state.failures + 1 >= Threshold THEN t ELSE 0]

ObservedExtending(state, failed, t) ==
  LET n == Longer(state.failures)
  IN  IF ~failed THEN Closed
      ELSE [failures |-> n, openedAt |-> IF n >= Threshold THEN t ELSE 0]

ObservedTooLate(state, failed, t) ==
  IF ~failed THEN Closed
  ELSE IF state.openedAt # 0 THEN state
  ELSE [failures |-> state.failures + 1,
        openedAt |-> IF state.failures + 1 > Threshold THEN t ELSE 0]

\* observe on the state of one provider: a success forgets it, a failure is counted
\* unless the circuit is open already.
Observed(state, failed, t) ==
  IF ~failed THEN Closed
  ELSE IF state.openedAt # 0 THEN state
  ELSE [failures |-> state.failures + 1,
        openedAt |-> IF state.failures + 1 >= Threshold THEN t ELSE 0]

\* observe, and the end of upstreamDo.
Observe(r) ==
  LET p == call[r].provider
      a == call[r].answer
  IN  /\ pc[r] = "observe"
      /\ circuit' = [circuit EXCEPT ![p] = Observed(circuit[p], Failed(a), call[r].clock)]
      /\ streak' = [streak EXCEPT ![p] = IF Failed(a) THEN Longer(streak[p]) ELSE 0]
      /\ Leave(r)
      /\ UNCHANGED now

Tick ==
  /\ now < MaxTime
  /\ now' = now + 1
  /\ UNCHANGED <<circuit, pc, call, streak>>

Step(r) == Ask(r) \/ Allow(r) \/ CircuitOpen(r) \/ Answer(r) \/ Observe(r)

Next == (\E r \in Calls : Step(r)) \/ Tick

Spec == Init /\ [][Next]_vars

(***************************************************************************)
(* Properties.                                                             *)
(***************************************************************************)

CircuitState == [failures : 0..Threshold, openedAt : Nat]

\* A circuit counts up to the threshold, and a call that is under way has a provider,
\* a time it has read and, when it is observed, an answer.
TypeOK ==
  /\ now \in Nat \ {0}
  /\ circuit \in [Providers -> CircuitState]
  /\ pc \in [Calls -> {"idle", "allow", "calling", "observe"}]
  /\ call \in [Calls -> Call \cup {NoCall}]
  /\ \A r \in Calls :
       /\ pc[r] # "idle" => call[r] \in Call
       /\ pc[r] \in {"allow", "observe"} => call[r].clock \in 1..now
       /\ pc[r] = "observe" => call[r].answer \in Answers
  /\ streak \in [Providers -> 0..Threshold]

\* A circuit is open only after a threshold of calls in a row without an answer below
\* 500, in whatever order calls that overlap, or that were sent before it opened,
\* report their ends: one answer among them, and the provider stays reachable.  Whose
\* fault the ends were, and how soon a circuit opens again, it does not say.
OpenAfterStreak ==
  \A p \in Providers : IsOpen(p) => streak[p] = Threshold /\ circuit[p].openedAt <= now

\* What strengthens it to an inductive invariant: the count of a circuit.
CountsStreak ==
  \A p \in Providers :
    /\ circuit[p].failures <= streak[p]
    /\ IsOpen(p) <=> circuit[p].failures = Threshold

\* A failed probe opens the circuit again (the comment of allow): what observe is about
\* to make of it is an open circuit.
FailedProbeReopens ==
  \A r \in Calls :
    pc[r] = "observe" /\ call[r].probe /\ Failed(call[r].answer) =>
      Observed(circuit[call[r].provider], TRUE, call[r].clock).openedAt # 0

BlockStep ==
  \A r \in Calls :
    pc[r] = "allow" /\ pc'[r] = "calling" => ~ReportedOpen(call[r].provider)

\* No call goes to a provider while the metrics report its circuit open, however long
\* ago the call read the clock.
ReportedOpenBlocks == [][BlockStep]_vars

ReopenStep ==
  \A p \in Providers :
    IsOpen(p) /\ circuit'[p].openedAt # circuit[p].openedAt =>
      /\ circuit'[p] = Closed
      /\ now >= circuit[p].openedAt + Cooldown \/ streak'[p] = 0

\* Calls that were sent before the circuit opened and fail after it do not prolong the
\* cooldown: an open circuit changes only to be forgotten, after its cooldown or with
\* an answer of the provider.
CooldownIsFixed == [][ReopenStep]_vars

=============================================================================
