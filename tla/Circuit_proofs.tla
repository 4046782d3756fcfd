--------------------------- MODULE Circuit_proofs ---------------------------
(***************************************************************************)
(* Proofs about the circuit breaker, for any number of calls and providers *)
(* and any threshold and cooldown.                                         *)
(***************************************************************************)
EXTENDS Circuit, TLAPS

USE DEF Answers

\* One observation keeps a circuit well formed, and its count below the streak of
\* failures that the observation leaves.
LEMMA ObservedCircuit ==
  ASSUME NEW c \in CircuitState, NEW failed \in BOOLEAN, NEW t \in Nat \ {0},
         NEW s \in 0..Threshold, c.failures <= s,
         c.openedAt # 0 <=> c.failures = Threshold
  PROVE  LET new == Observed(c, failed, t)
             length == IF failed THEN Longer(s) ELSE 0
         IN  /\ new \in CircuitState
             /\ length \in 0..Threshold
             /\ new.failures <= length
             /\ new.openedAt # 0 <=> new.failures = Threshold
             /\ new.openedAt \in {0, t, c.openedAt}
             /\ c.openedAt # 0 => new \in {c, Closed}
             /\ ~failed <=> length = 0
<1> USE ThresholdAssumption DEF CircuitState, Observed, Longer, Closed
<1>1. CASE ~failed
  BY <1>1
<1>2. CASE failed /\ c.openedAt # 0
  BY <1>2
<1>3. CASE failed /\ c.openedAt = 0 /\ c.failures + 1 >= Threshold
  BY <1>3
<1>4. CASE failed /\ c.openedAt = 0 /\ ~(c.failures + 1 >= Threshold)
  BY <1>4
<1> QED
  BY <1>1, <1>2, <1>3, <1>4

Inv == TypeOK /\ OpenAfterStreak /\ CountsStreak

LEMMA InitInv == Init => Inv
BY ThresholdAssumption, NoCallAssumption
   DEF Init, Inv, TypeOK, OpenAfterStreak, CountsStreak, IsOpen, CircuitState, Closed, Call

LEMMA StepInv == Inv /\ [Next]_vars => Inv'
<1> SUFFICES ASSUME Inv, [Next]_vars PROVE Inv'
  OBVIOUS
<1> USE DEF Inv, TypeOK, OpenAfterStreak, CountsStreak, IsOpen
<1>1. ASSUME NEW r \in Calls, Ask(r) PROVE Inv'
  BY <1>1 DEF Ask, GoTo, Call
<1>2. ASSUME NEW r \in Calls, Allow(r) PROVE Inv'
  <2>1. call[r].provider \in Providers /\ call[r] \in Call /\ r \in DOMAIN call
    BY <1>2 DEF Allow, Call
  <2> DEFINE allowed == [call EXCEPT ![r].clock = 0, ![r].probe = IsOpen(call[r].provider)]
  <2>3. allowed \in [Calls -> Call \cup {NoCall}] /\ allowed[r] \in Call
        /\ \A s \in Calls \ {r} : allowed[s] = call[s]
    BY <2>1, ZenonT(30), SMTT(30) DEF Call
  <2>4. circuit' \in [Providers -> CircuitState]
    BY <1>2, <2>1, ThresholdAssumption DEF Allow, Closed, CircuitState
  <2>5. \A p \in Providers : circuit'[p] \in {circuit[p], Closed}
    BY <1>2, <2>1 DEF Allow
  <2>6. (OpenAfterStreak /\ CountsStreak)'
    BY <1>2, <2>5, ThresholdAssumption DEF Allow, Closed, CircuitState
  <2>7. call' = allowed
    BY <1>2 DEF Allow
  <2> HIDE DEF allowed
  <2>8. TypeOK'
    BY <1>2, <2>3, <2>4, <2>7 DEF Allow, GoTo
  <2> QED
    BY <2>6, <2>8
<1>3. ASSUME NEW r \in Calls, CircuitOpen(r) PROVE Inv'
  BY <1>3 DEF CircuitOpen, Leave, GoTo
<1>4. ASSUME NEW r \in Calls, Answer(r) PROVE Inv'
  <2>1. PICK a \in Answers : call' = [call EXCEPT ![r].clock = now, ![r].answer = a]
    BY <1>4 DEF Answer
  <2>2. call[r] \in Call
    BY <1>4 DEF Answer
  <2>3. /\ call'[r] \in Call
        /\ call'[r].clock = now
        /\ call'[r].answer = a
        /\ call' \in [Calls -> Call \cup {NoCall}]
        /\ \A s \in Calls \ {r} : call'[s] = call[s]
    BY <2>1, <2>2 DEF Call
  <2> QED
    BY <1>4, <2>3 DEF Answer, GoTo
<1>5. ASSUME NEW r \in Calls, Observe(r) PROVE Inv'
  <2> DEFINE p == call[r].provider
             a == call[r].answer
  <2>1. /\ p \in Providers
        /\ a \in Answers
        /\ call[r].clock \in Nat \ {0}
        /\ call[r].clock <= now
        /\ Failed(a) \in BOOLEAN
    BY <1>5 DEF Observe, Call, Failed
  <2>2. circuit[p] \in CircuitState /\ streak[p] \in 0..Threshold /\ circuit[p].failures <= streak[p]
        /\ (circuit[p].openedAt # 0 <=> circuit[p].failures = Threshold)
        /\ circuit[p].openedAt <= now
    BY <2>1
  <2> DEFINE new == Observed(circuit[p], Failed(a), call[r].clock)
             length == IF Failed(a) THEN Longer(streak[p]) ELSE 0
  <2>3. /\ new \in CircuitState
        /\ length \in 0..Threshold
        /\ new.failures <= length
        /\ new.openedAt # 0 <=> new.failures = Threshold
        /\ new.openedAt \in {0, call[r].clock, circuit[p].openedAt}
    BY <2>1, <2>2, ObservedCircuit
  <2>4. circuit' = [circuit EXCEPT ![p] = new] /\ streak' = [streak EXCEPT ![p] = length]
    BY <1>5 DEF Observe
  <2>5. new.openedAt <= now
    BY <2>1, <2>2, <2>3
  <2> HIDE DEF new, length
  <2>6. circuit' \in [Providers -> CircuitState] /\ streak' \in [Providers -> 0..Threshold]
    BY <2>1, <2>3, <2>4
  <2>8. TypeOK'
    BY <1>5, <2>6 DEF Observe, Leave, GoTo
  <2>9. ASSUME NEW q \in Providers
        PROVE  /\ circuit'[q].failures <= streak'[q]
               /\ circuit'[q].openedAt # 0 <=> circuit'[q].failures = Threshold
               /\ circuit'[q].openedAt <= now
               /\ circuit'[q].openedAt # 0 => streak'[q] = Threshold
    <3>1. /\ circuit'[q].failures <= streak'[q]
          /\ circuit'[q].openedAt # 0 <=> circuit'[q].failures = Threshold
          /\ circuit'[q].openedAt <= now
      <4>1. CASE q = p
        BY <2>1, <2>3, <2>4, <2>5, <4>1
      <4>2. CASE q # p
        BY <2>1, <2>4, <4>2
      <4> QED
        BY <4>1, <4>2
    <3> QED
      BY <2>6, <3>1, ThresholdAssumption
  <2>10. now' = now
    BY <1>5 DEF Observe
  <2>11. (OpenAfterStreak /\ CountsStreak)'
    BY <2>9, <2>10
  <2> QED
    BY <2>8, <2>11
<1>6. ASSUME Tick PROVE Inv'
  BY <1>6 DEF Tick, CircuitState
<1>7. ASSUME UNCHANGED vars PROVE Inv'
  BY <1>7 DEF vars
<1> QED
  BY <1>1, <1>2, <1>3, <1>4, <1>5, <1>6, <1>7 DEF Next, Step

LEMMA Invariant == Spec => []Inv
BY InitInv, StepInv, PTL DEF Spec

\* Whatever calls overlap, the circuits and the calls stay well formed: no count goes
\* beyond the threshold.
THEOREM CircuitTypeCorrect == Spec => []TypeOK
BY Invariant, PTL DEF Inv

\* A circuit is open only after a threshold of calls in a row without an answer below
\* 500, for every interleaving of calls sent before and after.
THEOREM OpensAfterStreak == Spec => []OpenAfterStreak
BY Invariant, PTL DEF Inv

\* No call goes to a provider whose circuit the metrics report open.
THEOREM BlocksWhenReportedOpen == Spec => ReportedOpenBlocks
<1>1. Inv /\ [Next]_vars => [BlockStep]_vars
  <2> SUFFICES ASSUME Inv, Next, NEW r \in Calls, pc[r] = "allow", pc'[r] = "calling"
               PROVE  ~ReportedOpen(call[r].provider)
    BY DEF BlockStep
  <2>1. ASSUME NEW s \in Calls, Ask(s) PROVE FALSE
    BY <2>1 DEF Ask, GoTo, Inv, TypeOK
  <2>2. ASSUME NEW s \in Calls, Allow(s) PROVE ~ReportedOpen(call[r].provider)
    <3>1. s = r
      BY <2>2 DEF Allow, GoTo, Inv, TypeOK
    <3>2. call[r].provider \in Providers /\ call[r].clock \in 1..now
      BY DEF Inv, TypeOK, Call
    <3>3. circuit[call[r].provider].openedAt \in Nat /\ now \in Nat
      BY <3>2 DEF Inv, TypeOK, CircuitState
    <3>4. ~Blocked(r)
      BY <2>2, <3>1 DEF Allow
    <3> QED
      BY <3>2, <3>3, <3>4, TimesAssumption DEF Blocked, ReportedOpen, IsOpen
  <2>3. ASSUME NEW s \in Calls, CircuitOpen(s) PROVE FALSE
    BY <2>3 DEF CircuitOpen, Leave, GoTo, Inv, TypeOK
  <2>4. ASSUME NEW s \in Calls, Answer(s) PROVE FALSE
    BY <2>4 DEF Answer, GoTo, Inv, TypeOK
  <2>5. ASSUME NEW s \in Calls, Observe(s) PROVE FALSE
    BY <2>5 DEF Observe, Leave, GoTo, Inv, TypeOK
  <2>6. ASSUME Tick PROVE FALSE
    BY <2>6 DEF Tick
  <2> QED
    BY <2>1, <2>2, <2>3, <2>4, <2>5, <2>6 DEF Next, Step
<1> QED
  BY <1>1, Invariant, PTL DEF Spec, ReportedOpenBlocks

\* Late failures never prolong a cooldown.
THEOREM CooldownKept == Spec => CooldownIsFixed
<1>1. Inv /\ [Next]_vars => [ReopenStep]_vars
  <2> SUFFICES ASSUME Inv, Next, NEW p \in Providers, IsOpen(p),
                      circuit'[p].openedAt # circuit[p].openedAt
               PROVE  /\ circuit'[p] = Closed
                      /\ now >= circuit[p].openedAt + Cooldown \/ streak'[p] = 0
    BY DEF ReopenStep
  <2>1. ASSUME NEW r \in Calls, Allow(r)
        PROVE  circuit'[p] = Closed /\ now >= circuit[p].openedAt + Cooldown
    <3>1. call[r].provider \in Providers /\ call[r].clock \in 1..now
      BY <2>1 DEF Allow, Inv, TypeOK, Call
    <3>2. p = call[r].provider /\ circuit'[p] = Closed
      BY <2>1, <3>1 DEF Allow, Inv, TypeOK
    <3>3. circuit[p].openedAt \in Nat /\ now \in Nat
      BY DEF Inv, TypeOK, CircuitState
    <3>4. ~(call[r].clock - circuit[p].openedAt < Cooldown)
      BY <2>1, <3>2 DEF Allow, Blocked
    <3> QED
      BY <3>1, <3>2, <3>3, <3>4, TimesAssumption
  <2>2. ASSUME NEW r \in Calls, Observe(r)
        PROVE  circuit'[p] = Closed /\ streak'[p] = 0
    <3> DEFINE q == call[r].provider
               a == call[r].answer
    <3>1. q \in Providers /\ call[r].clock \in Nat \ {0} /\ Failed(a) \in BOOLEAN
      BY <2>2 DEF Observe, Inv, TypeOK, Call, Failed
    <3>2. /\ circuit' = [circuit EXCEPT ![q] = Observed(circuit[q], Failed(a), call[r].clock)]
          /\ streak' = [streak EXCEPT ![q] = IF Failed(a) THEN Longer(streak[q]) ELSE 0]
      BY <2>2 DEF Observe
    <3>3. p = q
      BY <3>1, <3>2 DEF Inv, TypeOK
    <3>4. circuit'[p] = Observed(circuit[p], Failed(a), call[r].clock)
          /\ streak'[p] = IF Failed(a) THEN Longer(streak[p]) ELSE 0
      BY <3>1, <3>2, <3>3 DEF Inv, TypeOK
    <3>5. circuit'[p] = Closed /\ ~Failed(a)
      <4>1. ~Failed(a)
        BY <3>4 DEF Observed, IsOpen
      <4> QED
        BY <3>4, <4>1 DEF Observed
    <3> QED
      BY <3>4, <3>5
  <2>3. ASSUME NEW r \in Calls, Ask(r) \/ CircuitOpen(r) \/ Answer(r) PROVE FALSE
    BY <2>3 DEF Ask, CircuitOpen, Answer
  <2>4. ASSUME Tick PROVE FALSE
    BY <2>4 DEF Tick
  <2> QED
    BY <2>1, <2>2, <2>3, <2>4 DEF Next, Step
<1> QED
  BY <1>1, Invariant, PTL DEF Spec, CooldownIsFixed
=============================================================================
