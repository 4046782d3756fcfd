--------------------------- MODULE Limiter_proofs ---------------------------
(***************************************************************************)
(* Proofs about the request limiter, for any number of calls, clients and  *)
(* providers and any limits published while calls are in flight.           *)
(***************************************************************************)
EXTENDS Limiter, FiniteSetTheorems, TLAPS

\* Of any group of calls in progress, the last one to come in saw room for all of
\* them: this is what survives a release, which LimitsRespected alone does not.
LastSawRoom(S, limit) ==
  \A A \in SUBSET S : A # {} => \E r \in A : Allows(limit[r], Cardinality(A))

GlobalLimits == [r \in Calls |-> GlobalLimit(r)]
ClientLimits == [r \in Calls |-> ClientLimit(r)]
ProviderLimits == [r \in Calls |-> ProviderLimit(r)]

LimitsSeen ==
  /\ LastSawRoom(Active, GlobalLimits)
  /\ \A c \in Clients : LastSawRoom(ActiveOf(c), ClientLimits)
  /\ \A p \in Providers : LastSawRoom(ActiveOn(p), ProviderLimits)

Inv == TypeOK /\ SlotsMatchCalls /\ LimitsSeen

(***************************************************************************)
(* Groups of calls.                                                        *)
(***************************************************************************)

LEMMA ActiveFinite ==
  /\ IsFiniteSet(Active)
  /\ \A c : IsFiniteSet(ActiveOf(c))
  /\ \A p : IsFiniteSet(ActiveOn(p))
<1>1. Active \subseteq Calls /\ (\A c : ActiveOf(c) \subseteq Calls) /\ \A p : ActiveOn(p) \subseteq Calls
  BY DEF Active, ActiveOf, ActiveOn
<1> QED
  BY <1>1, CallsAssumption, FS_Subset

\* A call that comes in sees room for itself and those before it.
LEMMA CallComesIn ==
  ASSUME NEW S, IsFiniteSet(S), NEW old, NEW new, NEW r, r \notin S,
         LastSawRoom(S, old), \A s \in S : new[s] = old[s],
         new[r] \in Nat, Allows(new[r], Cardinality(S) + 1)
  PROVE  LastSawRoom(S \cup {r}, new)
<1> SUFFICES ASSUME NEW A \in SUBSET (S \cup {r}), A # {}
             PROVE  \E s \in A : Allows(new[s], Cardinality(A))
  BY DEF LastSawRoom
<1>1. CASE r \notin A
  <2>1. A \in SUBSET S
    BY <1>1
  <2>2. PICK s \in A : Allows(old[s], Cardinality(A))
    BY <2>1 DEF LastSawRoom
  <2> QED
    BY <2>1, <2>2
<1>2. CASE r \in A
  <2>1. IsFiniteSet(S \cup {r}) /\ Cardinality(S \cup {r}) = Cardinality(S) + 1
    BY FS_AddElement
  <2>2. IsFiniteSet(A) /\ Cardinality(A) <= Cardinality(S) + 1
    BY <2>1, FS_Subset
  <2>3. Cardinality(A) \in Nat /\ Cardinality(S) \in Nat
    BY <2>2, FS_CardinalityType
  <2>4. Allows(new[r], Cardinality(A))
    BY <2>2, <2>3 DEF Allows
  <2> QED
    BY <1>2, <2>4
<1> QED
  BY <1>1, <1>2

LEMMA CallsLeave ==
  ASSUME NEW S, NEW T \in SUBSET S, NEW old, NEW new,
         LastSawRoom(S, old), \A s \in T : new[s] = old[s]
  PROVE  LastSawRoom(T, new)
<1> SUFFICES ASSUME NEW A \in SUBSET T, A # {}
             PROVE  \E s \in A : Allows(new[s], Cardinality(A))
  BY DEF LastSawRoom
<1>1. PICK s \in A : Allows(old[s], Cardinality(A))
  BY DEF LastSawRoom
<1> QED
  BY <1>1

\* A step that neither starts nor ends a call in progress.
LEMMA QuietStep ==
  ASSUME Inv, UNCHANGED counters, Active' = Active, \A r \in Active : call'[r] = call[r]
  PROVE  SlotsMatchCalls' /\ LimitsSeen'
<1>1. (\A c \in Clients : ActiveOf(c)' = ActiveOf(c)) /\ \A p \in Providers : ActiveOn(p)' = ActiveOn(p)
  BY DEF ActiveOf, ActiveOn
<1>2. SlotsMatchCalls'
  BY <1>1 DEF Inv, SlotsMatchCalls, counters
<1>3. /\ \A r \in Active : GlobalLimits'[r] = GlobalLimits[r]
      /\ \A r \in Active : ClientLimits'[r] = ClientLimits[r]
      /\ \A r \in Active : ProviderLimits'[r] = ProviderLimits[r]
  BY DEF Active, GlobalLimits, ClientLimits, ProviderLimits, GlobalLimit, ClientLimit, ProviderLimit
<1>4. (\A c : ActiveOf(c) \subseteq Active) /\ \A p : ActiveOn(p) \subseteq Active
  BY DEF ActiveOf, ActiveOn
<1>5. LastSawRoom(Active, GlobalLimits)'
  BY <1>3, CallsLeave DEF Inv, LimitsSeen, LastSawRoom
<1>6. ASSUME NEW c \in Clients PROVE LastSawRoom(ActiveOf(c), ClientLimits)'
  BY <1>1, <1>3, <1>4 DEF Inv, LimitsSeen, LastSawRoom
<1>7. ASSUME NEW p \in Providers PROVE LastSawRoom(ActiveOn(p), ProviderLimits)'
  BY <1>1, <1>3, <1>4 DEF Inv, LimitsSeen, LastSawRoom
<1> QED
  BY <1>2, <1>5, <1>6, <1>7 DEF LimitsSeen

(***************************************************************************)
(* The invariant.                                                          *)
(***************************************************************************)

LEMMA InitInv == Init => Inv
<1> SUFFICES ASSUME Init PROVE Inv
  OBVIOUS
<1>1. TypeOK
  BY NoCallAssumption DEF Init, TypeOK, NoWindow
<1>2. Active = {}
  BY DEF Init, Active
<1>3. (\A c : ActiveOf(c) = {}) /\ \A p : ActiveOn(p) = {}
  BY <1>2 DEF ActiveOf, ActiveOn
<1>4. SlotsMatchCalls
  BY <1>2, <1>3, FS_EmptySet DEF SlotsMatchCalls, Init
<1>5. LimitsSeen
  BY <1>2, <1>3 DEF LimitsSeen, LastSawRoom
<1> QED
  BY <1>1, <1>4, <1>5 DEF Inv

LEMMA ArriveInv == ASSUME Inv, NEW r \in Calls, Arrive(r) PROVE Inv'
<1>1. TypeOK'
  BY LimitsAssumption DEF Arrive, GoTo, Inv, TypeOK, Call, counters
<1>2. Active' = Active /\ \A s \in Active : call'[s] = call[s]
  BY DEF Arrive, GoTo, Inv, TypeOK, Active
<1> QED
  BY <1>1, <1>2, QuietStep DEF Arrive, Inv

LEMMA WindowType ==
  ASSUME NEW w \in [started : Nat, count : Nat], NEW t \in Nat
  PROVE  Window(w, t) \in [started : Nat, count : Nat]
BY TimesAssumption DEF Window

LEMMA PassRateInv == ASSUME Inv, NEW r \in Calls, PassRate(r) PROVE Inv'
<1> DEFINE window == Window(rate[call[r].client], call[r].clock)
<1>1. call[r] \in Call /\ call[r].client \in Clients /\ call[r].clock \in Nat
  BY DEF PassRate, Inv, TypeOK, Call
<1>2. window \in [started : Nat, count : Nat]
  BY <1>1, WindowType DEF Inv, TypeOK
<1>3. rate' = rate \/ rate' = [rate EXCEPT ![call[r].client] = [window EXCEPT !.count = @ + 1]]
  BY DEF PassRate
<1> HIDE DEF window
<1> DEFINE charged == [window EXCEPT !.count = @ + 1]
<1>4. charged \in [started : Nat, count : Nat]
  BY <1>2
<1>5. rate' = rate \/ rate' = [rate EXCEPT ![call[r].client] = charged]
  BY <1>3
<1> HIDE DEF charged
<1>6. rate' \in [Clients -> [started : Nat, count : Nat]]
  BY <1>1, <1>4, <1>5 DEF Inv, TypeOK
<1>7. TypeOK'
  BY <1>6 DEF PassRate, GoTo, Inv, TypeOK, counters
<1>8. Active' = Active /\ \A s \in Active : call'[s] = call[s]
  BY DEF PassRate, GoTo, Inv, TypeOK, Active
<1> QED
  BY <1>7, <1>8, QuietStep DEF PassRate, Inv

LEMMA RateLimitedInv == ASSUME Inv, NEW r \in Calls, RateLimited(r) PROVE Inv'
<1>1. call[r] \in Call /\ call[r].client \in Clients /\ call[r].clock \in Nat
  BY DEF RateLimited, Inv, TypeOK, Call
<1>2. Window(rate[call[r].client], call[r].clock) \in [started : Nat, count : Nat]
  BY <1>1, WindowType DEF Inv, TypeOK
<1>3. TypeOK'
  BY <1>1, <1>2 DEF RateLimited, Leave, GoTo, Inv, TypeOK, counters
<1>4. Active' = Active /\ \A s \in Active : call'[s] = call[s]
  BY DEF RateLimited, Leave, GoTo, Inv, TypeOK, Active
<1> QED
  BY <1>3, <1>4, QuietStep DEF RateLimited, Inv

LEMMA ConcurrencyLimitedInv == ASSUME Inv, NEW r \in Calls, ConcurrencyLimited(r) PROVE Inv'
<1>1. TypeOK'
  BY DEF ConcurrencyLimited, Leave, GoTo, Inv, TypeOK, counters
<1>2. Active' = Active /\ \A s \in Active : call'[s] = call[s]
  BY DEF ConcurrencyLimited, Leave, GoTo, Inv, TypeOK, Active
<1> QED
  BY <1>1, <1>2, QuietStep DEF ConcurrencyLimited, Inv

LEMMA AcquireInv == ASSUME Inv, NEW r \in Calls, Acquire(r) PROVE Inv'
<1>1. PICK c \in Clients, p \in Providers :
        /\ c = call[r].client
        /\ p = call[r].provider
        /\ call[r] \in Call
        /\ call[r].limits \in Limits
  BY DEF Acquire, Inv, TypeOK, Call
<1>2. TypeOK'
  BY <1>1 DEF Acquire, GoTo, Inv, TypeOK
<1>3. /\ Active' = Active \cup {r}
      /\ r \notin Active
      /\ call' = call
  BY DEF Acquire, GoTo, Inv, TypeOK, Active
<1>4. /\ ActiveOf(c)' = ActiveOf(c) \cup {r}
      /\ r \notin ActiveOf(c)
      /\ \A d \in Clients \ {c} : ActiveOf(d)' = ActiveOf(d)
  BY <1>1, <1>3 DEF ActiveOf
<1>5. /\ ActiveOn(p)' = ActiveOn(p) \cup {r}
      /\ r \notin ActiveOn(p)
      /\ \A q \in Providers \ {p} : ActiveOn(q)' = ActiveOn(q)
  BY <1>1, <1>3 DEF ActiveOn
<1>6. /\ Cardinality(Active') = global + 1
      /\ Cardinality(ActiveOf(c)') = client[c] + 1
      /\ Cardinality(ActiveOn(p)') = provider[p] + 1
  <2>1. Cardinality(Active') = global + 1
    BY <1>1, <1>3, ActiveFinite, FS_AddElement DEF Inv, SlotsMatchCalls
  <2>2. Cardinality(ActiveOf(c)') = client[c] + 1
    <3>1. IsFiniteSet(ActiveOf(c)) /\ Cardinality(ActiveOf(c)) = client[c]
      BY <1>1, ActiveFinite DEF Inv, SlotsMatchCalls
    <3> QED
      BY <1>4, <3>1, FS_AddElement
  <2>3. Cardinality(ActiveOn(p)') = provider[p] + 1
    <3>1. IsFiniteSet(ActiveOn(p)) /\ Cardinality(ActiveOn(p)) = provider[p]
      BY <1>1, ActiveFinite DEF Inv, SlotsMatchCalls
    <3> QED
      BY <1>5, <3>1, FS_AddElement
  <2> QED
    BY <2>1, <2>2, <2>3
<1>7. SlotsMatchCalls'
  <2>1. global' = Cardinality(Active')
    BY <1>6 DEF Acquire
  <2>2. ASSUME NEW d \in Clients PROVE client'[d] = Cardinality(ActiveOf(d)')
    BY <1>1, <1>4, <1>6 DEF Acquire, Inv, TypeOK, SlotsMatchCalls
  <2>3. ASSUME NEW q \in Providers PROVE provider'[q] = Cardinality(ActiveOn(q)')
    BY <1>1, <1>5, <1>6 DEF Acquire, Inv, TypeOK, SlotsMatchCalls
  <2> QED
    BY <2>1, <2>2, <2>3 DEF SlotsMatchCalls
<1>8. /\ GlobalLimits' = GlobalLimits
      /\ ClientLimits' = ClientLimits
      /\ ProviderLimits' = ProviderLimits
  BY <1>3 DEF GlobalLimits, ClientLimits, ProviderLimits, GlobalLimit, ClientLimit, ProviderLimit
<1>9. /\ GlobalLimits[r] \in Nat /\ ClientLimits[r] \in Nat /\ ProviderLimits[r] \in Nat
      /\ Allows(GlobalLimits[r], Cardinality(Active) + 1)
      /\ Allows(ClientLimits[r], Cardinality(ActiveOf(c)) + 1)
      /\ Allows(ProviderLimits[r], Cardinality(ActiveOn(p)) + 1)
  <2>1. /\ Cardinality(Active) = global
        /\ Cardinality(ActiveOf(c)) = client[c]
        /\ Cardinality(ActiveOn(p)) = provider[p]
    BY <1>1 DEF Inv, SlotsMatchCalls
  <2>2. global \in Nat /\ client[c] \in Nat /\ provider[p] \in Nat
    BY <1>1 DEF Inv, TypeOK
  <2>3. /\ call[r].limits.global \in Nat
        /\ call[r].limits.perClient \in Nat
        /\ call[r].limits.perProvider \in Nat
    BY <1>1 DEF Limits
  <2> QED
    BY <1>1, <2>1, <2>2, <2>3
       DEF Acquire, Full, Reached, Allows, GlobalLimits, ClientLimits, ProviderLimits,
           GlobalLimit, ClientLimit, ProviderLimit
<1>10. LimitsSeen'
  <2>1. LastSawRoom(Active \cup {r}, GlobalLimits)
    BY <1>3, <1>9, ActiveFinite, CallComesIn DEF Inv, LimitsSeen
  <2>2. ASSUME NEW d \in Clients PROVE LastSawRoom(ActiveOf(d)', ClientLimits)
    <3>1. LastSawRoom(ActiveOf(c) \cup {r}, ClientLimits)
      BY <1>1, <1>4, <1>9, ActiveFinite, CallComesIn DEF Inv, LimitsSeen
    <3> QED
      BY <1>4, <3>1 DEF Inv, LimitsSeen
  <2>3. ASSUME NEW q \in Providers PROVE LastSawRoom(ActiveOn(q)', ProviderLimits)
    <3>1. LastSawRoom(ActiveOn(p) \cup {r}, ProviderLimits)
      BY <1>1, <1>5, <1>9, ActiveFinite, CallComesIn DEF Inv, LimitsSeen
    <3> QED
      BY <1>5, <3>1 DEF Inv, LimitsSeen
  <2> QED
    BY <1>3, <1>8, <2>1, <2>2, <2>3 DEF LimitsSeen, LastSawRoom
<1> QED
  BY <1>2, <1>7, <1>10 DEF Inv

LEMMA ReleaseInv == ASSUME Inv, NEW r \in Calls, Release(r) PROVE Inv'
<1>1. PICK c \in Clients, p \in Providers :
        c = call[r].client /\ p = call[r].provider /\ call[r] \in Call
  BY DEF Release, Inv, TypeOK, Call
<1>2. /\ Active' = Active \ {r}
      /\ r \in Active
      /\ \A s \in Active' : call'[s] = call[s]
  BY DEF Release, Leave, GoTo, Inv, TypeOK, Active
<1>3. /\ ActiveOf(c)' = ActiveOf(c) \ {r}
      /\ r \in ActiveOf(c)
      /\ \A d \in Clients \ {c} : ActiveOf(d)' = ActiveOf(d)
  BY <1>1, <1>2 DEF ActiveOf
<1>4. /\ ActiveOn(p)' = ActiveOn(p) \ {r}
      /\ r \in ActiveOn(p)
      /\ \A q \in Providers \ {p} : ActiveOn(q)' = ActiveOn(q)
  BY <1>1, <1>2 DEF ActiveOn
<1>5. /\ Cardinality(Active') = global - 1
      /\ Cardinality(ActiveOf(c)') = client[c] - 1
      /\ Cardinality(ActiveOn(p)') = provider[p] - 1
  <2>1. Cardinality(Active') = global - 1
    BY <1>1, <1>2, ActiveFinite, FS_RemoveElement DEF Inv, SlotsMatchCalls
  <2>2. Cardinality(ActiveOf(c)') = client[c] - 1
    BY <1>1, <1>3, ActiveFinite, FS_RemoveElement DEF Inv, SlotsMatchCalls
  <2>3. Cardinality(ActiveOn(p)') = provider[p] - 1
    BY <1>1, <1>4, ActiveFinite, FS_RemoveElement DEF Inv, SlotsMatchCalls
  <2> QED
    BY <2>1, <2>2, <2>3
<1>6. global - 1 \in Nat /\ client[c] - 1 \in Nat /\ provider[p] - 1 \in Nat
  <2>1. IsFiniteSet(Active') /\ IsFiniteSet(ActiveOf(c)') /\ IsFiniteSet(ActiveOn(p)')
    BY <1>2, <1>3, <1>4, ActiveFinite, FS_RemoveElement
  <2> QED
    BY <1>5, <2>1, FS_CardinalityType
<1>7. TypeOK'
  BY <1>1, <1>6 DEF Release, Leave, GoTo, Inv, TypeOK
<1>8. SlotsMatchCalls'
  <2>1. global' = Cardinality(Active')
    BY <1>5 DEF Release
  <2>2. ASSUME NEW d \in Clients PROVE client'[d] = Cardinality(ActiveOf(d)')
    BY <1>1, <1>3, <1>5 DEF Release, Inv, TypeOK, SlotsMatchCalls
  <2>3. ASSUME NEW q \in Providers PROVE provider'[q] = Cardinality(ActiveOn(q)')
    BY <1>1, <1>4, <1>5 DEF Release, Inv, TypeOK, SlotsMatchCalls
  <2> QED
    BY <2>1, <2>2, <2>3 DEF SlotsMatchCalls
<1>9. /\ \A s \in Active' : GlobalLimits'[s] = GlobalLimits[s]
      /\ \A s \in Active' : ClientLimits'[s] = ClientLimits[s]
      /\ \A s \in Active' : ProviderLimits'[s] = ProviderLimits[s]
  BY <1>2 DEF Active, GlobalLimits, ClientLimits, ProviderLimits, GlobalLimit, ClientLimit, ProviderLimit
<1>10. /\ \A d : ActiveOf(d)' \subseteq Active'
       /\ \A q : ActiveOn(q)' \subseteq Active'
  BY DEF ActiveOf, ActiveOn
<1>11. LimitsSeen'
  <2>1. LastSawRoom(Active', GlobalLimits')
    BY <1>2, <1>9, CallsLeave DEF Inv, LimitsSeen
  <2>2. ASSUME NEW d \in Clients PROVE LastSawRoom(ActiveOf(d)', ClientLimits')
    <3>1. ActiveOf(d)' \subseteq ActiveOf(d)
      BY <1>2 DEF ActiveOf
    <3> QED
      BY <1>9, <1>10, <3>1, CallsLeave DEF Inv, LimitsSeen
  <2>3. ASSUME NEW q \in Providers PROVE LastSawRoom(ActiveOn(q)', ProviderLimits')
    <3>1. ActiveOn(q)' \subseteq ActiveOn(q)
      BY <1>2 DEF ActiveOn
    <3> QED
      BY <1>9, <1>10, <3>1, CallsLeave DEF Inv, LimitsSeen
  <2> QED
    BY <2>1, <2>2, <2>3 DEF LimitsSeen, LastSawRoom
<1> QED
  BY <1>7, <1>8, <1>11 DEF Inv

LEMMA StepInv == Inv /\ [Next]_vars => Inv'
<1> SUFFICES ASSUME Inv, [Next]_vars PROVE Inv'
  OBVIOUS
<1>1. ASSUME NEW r \in Calls, Step(r) PROVE Inv'
  BY <1>1, ArriveInv, PassRateInv, RateLimitedInv, AcquireInv, ConcurrencyLimitedInv, ReleaseInv
     DEF Step
<1>2. ASSUME ChangeLimits \/ Tick \/ UNCHANGED vars PROVE Inv'
  <2>1. TypeOK'
    BY <1>2 DEF ChangeLimits, Tick, vars, counters, Inv, TypeOK
  <2>2. Active' = Active /\ call' = call /\ UNCHANGED counters
    BY <1>2 DEF ChangeLimits, Tick, vars, Active
  <2> QED
    BY <2>1, <2>2, QuietStep DEF Inv
<1> QED
  BY <1>1, <1>2 DEF Next

LEMMA Invariant == Spec => []Inv
BY InitInv, StepInv, PTL DEF Spec

\* Counters never go below zero, and a call in progress is well formed.
THEOREM LimiterTypeCorrect == Spec => []TypeOK
BY Invariant, PTL DEF Inv

\* The counters of the limiter are exact, however limits change between the time a
\* slot is taken and the time it is given back.
THEOREM SlotsAreExact == Spec => []SlotsMatchCalls
BY Invariant, PTL DEF Inv

\* The calls in progress never exceed what the last of them was allowed.
THEOREM LimitsAreRespected == Spec => []LimitsRespected
<1>1. Inv => LimitsRespected
  <2> SUFFICES ASSUME Inv PROVE LimitsRespected
    OBVIOUS
  <2>1. Active # {} => \E r \in Active : Allows(GlobalLimit(r), global)
    <3>1. Active # {} => \E r \in Active : Allows(GlobalLimits[r], Cardinality(Active))
      BY DEF Inv, LimitsSeen, LastSawRoom
    <3> QED
      BY <3>1 DEF Inv, SlotsMatchCalls, GlobalLimits, Active
  <2>2. ASSUME NEW c \in Clients, ActiveOf(c) # {}
        PROVE  \E r \in ActiveOf(c) : Allows(ClientLimit(r), client[c])
    <3>1. \E r \in ActiveOf(c) : Allows(ClientLimits[r], Cardinality(ActiveOf(c)))
      BY <2>2 DEF Inv, LimitsSeen, LastSawRoom
    <3> QED
      BY <3>1 DEF Inv, SlotsMatchCalls, ClientLimits, ActiveOf, Active
  <2>3. ASSUME NEW p \in Providers, ActiveOn(p) # {}
        PROVE  \E r \in ActiveOn(p) : Allows(ProviderLimit(r), provider[p])
    <3>1. \E r \in ActiveOn(p) : Allows(ProviderLimits[r], Cardinality(ActiveOn(p)))
      BY <2>3 DEF Inv, LimitsSeen, LastSawRoom
    <3> QED
      BY <3>1 DEF Inv, SlotsMatchCalls, ProviderLimits, ActiveOn, Active
  <2> QED
    BY <2>1, <2>2, <2>3 DEF LimitsRespected
<1> QED
  BY <1>1, Invariant, PTL
(***************************************************************************)
(* The rate window.                                                        *)
(***************************************************************************)

\* The window a call belongs to is the present one, or one that may follow it.
LEMMA WindowFollows ==
  ASSUME NEW w \in [started : Nat, count : Nat], NEW t \in Nat
  PROVE  \/ Window(w, t) = w
         \/ Window(w, t).started = t /\ (w.started = 0 \/ t >= w.started + Minute)
BY TimesAssumption DEF Window

\* A call at the rate window changes the window of its own client only.
LEMMA RateStepOf ==
  ASSUME Inv, NEW r \in Calls, pc[r] = "rate",
         NEW next \in [started : Nat, count : Nat],
         rate' = [rate EXCEPT ![call[r].client] = next],
         next.started = Window(rate[call[r].client], call[r].clock).started,
         \/ next = Window(rate[call[r].client], call[r].clock)
         \/ next.count <= call[r].limits.ratePerMinute
  PROVE  RateStep
<1>1. PICK c \in Clients, t \in Nat : c = call[r].client /\ t = call[r].clock
  BY DEF Inv, TypeOK, Call
<1>2. rate[c] \in [started : Nat, count : Nat]
  BY DEF Inv, TypeOK
<1>3. \/ Window(rate[c], t) = rate[c]
      \/ /\ Window(rate[c], t).started = t
         /\ rate[c].started = 0 \/ t >= rate[c].started + Minute
  BY <1>2, WindowFollows
<1>4. rate'[c] = next /\ \A d \in Clients \ {c} : rate'[d] = rate[d]
  BY <1>1 DEF Inv, TypeOK
<1>5. \/ next = rate[c]
      \/ next.started = rate[c].started /\ next.count <= call[r].limits.ratePerMinute
      \/ rate[c].started = 0
      \/ next.started >= rate[c].started + Minute
  BY <1>1, <1>3
<1> QED
  BY <1>4, <1>5 DEF RateStep

\* A rate window takes no more calls than the limit of the last one allows, and gives
\* way to a new one only a minute later, for any calls that read the clock at any time
\* before.
THEOREM RateIsKept == Spec => RateHolds
<1>1. Inv /\ [Next]_vars => [RateStep]_vars
  <2> SUFFICES ASSUME Inv, Next PROVE RateStep
    BY DEF RateStep
  <2>1. CASE UNCHANGED rate
    BY <2>1 DEF RateStep
  <2>2. ASSUME NEW r \in Calls, PassRate(r), ~UNCHANGED rate
        PROVE  RateStep
    <3>1. PICK w \in [started : Nat, count : Nat] : w = Window(rate[call[r].client], call[r].clock)
      BY <2>2, WindowType DEF PassRate, Inv, TypeOK, Call
    <3>2. /\ pc[r] = "rate"
          /\ call[r].limits.ratePerMinute > w.count
          /\ rate' = [rate EXCEPT ![call[r].client] = [w EXCEPT !.count = @ + 1]]
      BY <2>2, <3>1 DEF PassRate
    <3>3. PICK next \in [started : Nat, count : Nat] :
            next = [w EXCEPT !.count = @ + 1] /\ next.started = w.started /\ next.count = w.count + 1
      <4>1. PICK n \in Nat : n = w.count + 1
        OBVIOUS
      <4>2. [w EXCEPT !.count = n] \in [started : Nat, count : Nat]
        OBVIOUS
      <4>3. [w EXCEPT !.count = n].started = w.started /\ [w EXCEPT !.count = n].count = n
        OBVIOUS
      <4> QED
        BY <4>1, <4>2, <4>3
    <3>4. call[r].limits.ratePerMinute \in Nat
      BY <3>2, LimitsAssumption DEF Inv, TypeOK, Call, Limits
    <3>5. next.count <= call[r].limits.ratePerMinute
      BY <3>2, <3>3, <3>4
    <3> QED
      BY <3>1, <3>2, <3>3, <3>5, RateStepOf
  <2>3. ASSUME NEW r \in Calls, RateLimited(r)
        PROVE  RateStep
    <3>1. PICK w \in [started : Nat, count : Nat] : w = Window(rate[call[r].client], call[r].clock)
      BY <2>3, WindowType DEF RateLimited, Inv, TypeOK, Call
    <3>2. pc[r] = "rate" /\ rate' = [rate EXCEPT ![call[r].client] = w]
      BY <2>3, <3>1 DEF RateLimited
    <3> QED
      BY <3>1, <3>2, RateStepOf
  <2>4. QED
    BY <2>1, <2>2, <2>3
       DEF Next, Step, Arrive, Acquire, ConcurrencyLimited, Release, ChangeLimits, Tick
<1> QED
  BY <1>1, Invariant, PTL DEF Spec, RateHolds
=============================================================================
