--------------------------- MODULE LogStore_proofs ---------------------------
(***************************************************************************)
(* Proofs about the request log, for any number of requests, listings and  *)
(* removals and for any logs that earlier runs left behind.                *)
(*                                                                         *)
(* First the operators: sums of lines, the least of a set of logs, the     *)
(* order of a listing.  Then three invariants, each with what follows from *)
(* it: Inv (what the cache, listings and removals know), TypeInv (types,   *)
(* and what retention knows) and PageInv (what a client has been shown).   *)
(***************************************************************************)
EXTENDS LogStore, FiniteSetTheorems, WellFoundedInduction, TLAPS

(***************************************************************************)
(* Sums, and the least and the last of a finite set.                       *)
(***************************************************************************)

\* The pairs of finitely many finite sets are finitely many, and they add up.
LEMMA PairsAddUp ==
  ASSUME NEW S, IsFiniteSet(S), NEW f, \A r \in S : IsFiniteSet(f[r])
  PROVE  /\ IsFiniteSet(UNION {{r} \X f[r] : r \in S})
         /\ \A x \in S : Cardinality(UNION {{r} \X f[r] : r \in S}) =
                           Cardinality(UNION {{r} \X f[r] : r \in S \ {x}}) + Cardinality(f[x])
<1> DEFINE P(T) == UNION {{r} \X f[r] : r \in T}
<1>1. ASSUME NEW T \in SUBSET S PROVE IsFiniteSet(P(T))
  <2> DEFINE G == {{r} \X f[r] : r \in T}
             g == [r \in T |-> {r} \X f[r]]
  <2>1. IsFiniteSet(T)
    BY FS_Subset
  <2>2. g \in Surjection(T, G)
    BY DEF Surjection
  <2>3. IsFiniteSet(G)
    BY <2>1, <2>2, FS_Surjection
  <2>4. \A r \in T : IsFiniteSet({r} \X f[r])
    BY FS_Singleton, FS_Product
  <2>5. \A X \in G : IsFiniteSet(X)
    BY <2>4
  <2> HIDE DEF G
  <2>6. IsFiniteSet(UNION G)
    BY <2>3, <2>5, FS_UNION
  <2> QED
    BY <2>6 DEF G
<1>2. ASSUME NEW x \in S
      PROVE  Cardinality(P(S)) = Cardinality(P(S \ {x})) + Cardinality(f[x])
  <2> DEFINE X == {x} \X f[x]
  <2>0. IsFiniteSet({x}) /\ Cardinality({x}) = 1 /\ IsFiniteSet(f[x])
    BY FS_Singleton
  <2>1. IsFiniteSet(X) /\ Cardinality(X) = Cardinality({x}) * Cardinality(f[x])
    BY <2>0, FS_Product
  <2>2. P(S) = P(S \ {x}) \cup X /\ P(S \ {x}) \cap X = {}
    OBVIOUS
  <2>3. IsFiniteSet(P(S \ {x}))
    BY <1>1
  <2> HIDE DEF P, X
  <2>4. Cardinality(P(S)) = Cardinality(P(S \ {x})) + Cardinality(X) - Cardinality(P(S \ {x}) \cap X)
    BY <2>1, <2>2, <2>3, FS_Union
  <2>5. Cardinality(P(S \ {x}) \cap X) = 0
    BY <2>2, FS_EmptySet
  <2>6. /\ Cardinality(P(S \ {x})) \in Nat /\ Cardinality(X) \in Nat /\ Cardinality(f[x]) \in Nat
    BY <2>0, <2>1, <2>3, FS_CardinalityType
  <2> QED
    BY <2>0, <2>1, <2>4, <2>5, <2>6
<1>3. IsFiniteSet(P(S))
  BY <1>1
<1> QED
  BY <1>2, <1>3

\* A set of numbers that is not empty has a least one.
LEMMA LeastNumber ==
  ASSUME NEW S, S \subseteq Nat, S # {}
  PROVE  \E m \in S : \A k \in S : m <= k
<1> DEFINE Less == {p \in Nat \X Nat : p[1] < p[2]}
<1>1. IsWellFoundedOn(Less, Nat)
  BY NatLessThanWellFounded DEF OpToRel
<1>2. PICK m \in S : \A k \in S : <<k, m>> \notin Less
  <2> HIDE DEF Less
  <2> QED
    BY <1>1, WFMin, Zenon
<1>3. ASSUME NEW k \in S PROVE m <= k
  <2>1. <<k, m>> \notin Less
    BY <1>2
  <2>2. k \in Nat /\ m \in Nat
    BY <1>2
  <2> QED
    BY <2>1, <2>2
<1> QED
  BY <1>2, <1>3

\* Listings and removals work through their logs from the least one.
LEMMA MinIsLeast ==
  ASSUME NEW S, S \subseteq Requests, S # {}
  PROVE  Min(S) \in S /\ Min(S) \in Requests
<1>1. PICK m \in S : \A k \in S : m <= k
  BY LeastNumber, RequestsAssumption
<1> QED
  BY <1>1 DEF Min

LEMMA SetOfRequestsIsFinite == ASSUME NEW S, S \subseteq Requests PROVE IsFiniteSet(S)
BY RequestsAssumption, FS_Subset

(***************************************************************************)
(* Lines.                                                                  *)
(***************************************************************************)

\* Logs that exist have so many lines, and one less has so many less.
LEMMA LinesAddUp ==
  ASSUME NEW logs, logs \subseteq Requests, \A r \in logs : file[r] \in Files
  PROVE  /\ Lines(logs) \in Nat
         /\ \A x \in logs : Size(x) \in Nat /\ Lines(logs) = Lines(logs \ {x}) + Size(x)
<1>1. PICK f : f = [r \in logs |-> DOMAIN file[r].events]
  OBVIOUS
<1>2. ASSUME NEW r \in logs
      PROVE  /\ f[r] = 1..Size(r) /\ Size(r) \in Nat
             /\ IsFiniteSet(f[r]) /\ Cardinality(f[r]) = Size(r)
  <2>1. file[r].events \in Seq(Events)
    BY DEF Files
  <2>2. DOMAIN file[r].events = 1..Size(r) /\ Size(r) \in Nat
    BY <2>1 DEF Size
  <2>3. IsFiniteSet(1..Size(r)) /\ Cardinality(1..Size(r)) = Size(r)
    BY <2>2, FS_Interval
  <2> QED
    BY <1>1, <2>2, <2>3
<1>3. ASSUME NEW T \in SUBSET logs PROVE Lines(T) = Cardinality(UNION {{r} \X f[r] : r \in T})
  <2>1. {{r} \X DOMAIN file[r].events : r \in T} = {{r} \X f[r] : r \in T}
    BY <1>1
  <2> QED
    BY <2>1 DEF Lines
<1>4. IsFiniteSet(logs)
  BY SetOfRequestsIsFinite
<1>5. IsFiniteSet(UNION {{r} \X f[r] : r \in logs})
  BY <1>2, <1>4, PairsAddUp
<1>6. Lines(logs) \in Nat
  BY <1>3, <1>5, FS_CardinalityType
<1>7. ASSUME NEW x \in logs PROVE Lines(logs) = Lines(logs \ {x}) + Size(x)
  <2>1. Cardinality(UNION {{r} \X f[r] : r \in logs}) =
          Cardinality(UNION {{r} \X f[r] : r \in logs \ {x}}) + Cardinality(f[x])
    BY <1>2, <1>4, PairsAddUp
  <2>2. Lines(logs) = Cardinality(UNION {{r} \X f[r] : r \in logs})
    BY <1>3
  <2>3. Lines(logs \ {x}) = Cardinality(UNION {{r} \X f[r] : r \in logs \ {x}})
    BY <1>3
  <2> QED
    BY <1>2, <2>1, <2>2, <2>3
<1> QED
  BY <1>2, <1>6, <1>7

(***************************************************************************)
(* Pages.                                                                  *)
(***************************************************************************)

LEMMA PrecedesOrders ==
  ASSUME NEW a \in SummaryTypes, NEW b \in SummaryTypes
  PROVE  /\ ~Precedes(a, a)
         /\ Precedes(a, b) => ~Precedes(b, a)
         /\ a.id # b.id => Precedes(a, b) \/ Precedes(b, a)
         /\ \A c \in SummaryTypes : Precedes(a, b) /\ Precedes(b, c) => Precedes(a, c)
<1>1. ASSUME NEW x \in SummaryTypes PROVE x.id \in Nat /\ x.started \in Nat
  <2>1. x.id \in Requests /\ x.started \in 1..MaxTime
    BY DEF SummaryTypes
  <2>2. x.id \in Nat
    BY <2>1, RequestsAssumption
  <2>3. x.started \in Nat
    BY <2>1
  <2> QED
    BY <2>2, <2>3
<1> QED
  BY <1>1 DEF Precedes

\* Of finitely many logs fewer come before an earlier one.
LEMMA EarlierHasFewer ==
  ASSUME NEW rest, rest \subseteq SummaryTypes, IsFiniteSet(rest),
         NEW a \in rest, NEW b \in rest
  PROVE  /\ Cardinality({x \in rest : Precedes(x, b)}) \in Nat
         /\ Precedes(a, b) =>
              Cardinality({x \in rest : Precedes(x, a)}) < Cardinality({x \in rest : Precedes(x, b)})
<1> DEFINE B(y) == {x \in rest : Precedes(x, y)}
<1>1. ASSUME NEW y \in rest PROVE IsFiniteSet(B(y)) /\ Cardinality(B(y)) \in Nat
  <2>1. B(y) \in SUBSET rest
    OBVIOUS
  <2>2. IsFiniteSet(B(y))
    BY <2>1, FS_Subset
  <2> QED
    BY <2>2, FS_CardinalityType
<1>2. ASSUME Precedes(a, b) PROVE Cardinality(B(a)) < Cardinality(B(b))
  <2>1. B(a) \in SUBSET B(b) /\ a \in B(b) /\ a \notin B(a)
    BY <1>2, PrecedesOrders
  <2>2. IsFiniteSet(B(b)) /\ Cardinality(B(a)) \in Nat /\ Cardinality(B(b)) \in Nat
    BY <1>1
  <2> HIDE DEF B
  <2>3. Cardinality(B(a)) <= Cardinality(B(b)) /\ Cardinality(B(a)) # Cardinality(B(b))
    BY <2>1, <2>2, FS_Subset
  <2> QED
    BY <2>2, <2>3
<1> QED
  BY <1>1, <1>2

\* A page is a beginning of what is left.  One that is not the whole of it has a last log.
LEMMA PageBegins ==
  ASSUME NEW rest, rest \subseteq SummaryTypes, IsFiniteSet(rest),
         \A a, b \in rest : a.id = b.id => a = b
  PROVE  /\ PageOf(rest) \subseteq rest
         /\ \A a \in rest, b \in PageOf(rest) : Precedes(a, b) => a \in PageOf(rest)
         /\ PageOf(rest) # rest =>
              /\ LastOf(PageOf(rest)) \in PageOf(rest)
              /\ \A a \in PageOf(rest) \ {LastOf(PageOf(rest))} :
                   Precedes(a, LastOf(PageOf(rest)))
<1> DEFINE Count(b) == Cardinality({a \in rest : Precedes(a, b)})
           page == PageOf(rest)
<1>1. \A a, b \in rest : Count(b) \in Nat /\ (Precedes(a, b) => Count(a) < Count(b))
  BY EarlierHasFewer
<1>2. page \subseteq rest /\ \A b \in rest : b \in page <=> Count(b) < PageSize
  BY DEF PageOf
<1> HIDE DEF Count, page
<1>3. \A a \in rest, b \in page : Precedes(a, b) => a \in page
  BY <1>1, <1>2, BoundsAssumption
<1>4. ASSUME page # rest
      PROVE  LastOf(page) \in page /\ \A a \in page \ {LastOf(page)} : Precedes(a, LastOf(page))
  <2>1. page # {}
    <3> DEFINE N == {Count(b) : b \in rest}
    <3>1. N \subseteq Nat /\ N # {}
      BY <1>1, <1>2, <1>4
    <3>2. PICK m \in N : \A k \in N : m <= k
      <4> HIDE DEF N
      <4> QED
        BY <3>1, LeastNumber
    <3>3. PICK b \in rest : Count(b) = m
      BY <3>2
    <3>4. \A a \in rest : ~Precedes(a, b)
      <4>1. \A a \in rest : Count(b) <= Count(a)
        BY <3>2, <3>3
      <4> QED
        BY <1>1, <4>1
    <3>5. {a \in rest : Precedes(a, b)} = {}
      BY <3>4
    <3>6. Count(b) = 0
      BY <3>5, FS_EmptySet DEF Count
    <3> QED
      BY <1>2, <3>3, <3>6, BoundsAssumption
  <2>2. PICK b \in page : \A a \in page : Count(a) <= Count(b)
    <3> DEFINE N == {PageSize - Count(a) : a \in page}
    <3>0. \A a \in page : Count(a) \in Nat /\ PageSize - Count(a) \in Nat
      BY <1>1, <1>2, BoundsAssumption
    <3>1. N \subseteq Nat /\ N # {}
      BY <2>1, <3>0
    <3>2. PICK m \in N : \A k \in N : m <= k
      <4> HIDE DEF N
      <4> QED
        BY <3>1, LeastNumber
    <3>3. PICK b \in page : PageSize - Count(b) = m
      BY <3>2
    <3>4. ASSUME NEW a \in page PROVE Count(a) <= Count(b)
      <4>1. PageSize - Count(b) <= PageSize - Count(a)
        BY <3>2, <3>3
      <4> QED
        BY <3>0, <4>1, BoundsAssumption
    <3> QED
      BY <3>4
  <2>3. \A a \in page \ {b} : Precedes(a, b)
    <3>1. ASSUME NEW a \in page \ {b} PROVE Precedes(a, b)
      <4>1. Precedes(a, b) \/ Precedes(b, a)
        BY <1>2, PrecedesOrders
      <4>2. Count(a) <= Count(b) /\ Count(a) \in Nat /\ Count(b) \in Nat
        BY <1>1, <1>2, <2>2
      <4>3. ~Precedes(b, a)
        BY <1>1, <1>2, <4>2
      <4> QED
        BY <4>1, <4>3
    <3> QED
      BY <3>1
  <2> QED
    BY <2>3 DEF LastOf
<1> QED
  BY <1>2, <1>3, <1>4 DEF page

(***************************************************************************)
(* Shapes.  A task is described by its own fields, whatever is in those    *)
(* that the arguments below do not look at.                                *)
(***************************************************************************)

IsListing(x) ==
  x \in [kind : {"list"}, at : {x.at}, todo : {x.todo}, size : {x.size}, item : {x.item},
         items : {x.items}, cursor : {x.cursor}, shown : {x.shown}, expected : {x.expected}]

IsRemoval(x) ==
  x \in [kind : {"delete", "clear"}, at : {x.at}, todo : {x.todo}, busy : {x.busy}]

Shapes ==
  /\ now \in 1..MaxTime
  /\ file \in [Requests -> Files \cup {Missing}]
  /\ session \in [Requests -> Phases]
  /\ sessions \subseteq Requests
  /\ cache = [r \in Requests |-> cache[r]]
  /\ task = [t \in Tasks |-> task[t]]

ShapeOf(t) == task[t] = NoTask \/ IsListing(task[t]) \/ IsRemoval(task[t])

LEMMA AppendGrows ==
  ASSUME NEW f \in Files, NEW event \in Events, NEW day \in 1..MaxTime
  PROVE  /\ [f EXCEPT !.events = Append(@, event)] \in Files
         /\ Len([f EXCEPT !.events = Append(@, event)].events) > Len(f.events)
         /\ [f EXCEPT !.events = Append(@, event), !.started = day] \in Files
         /\ Len([f EXCEPT !.events = Append(@, event), !.started = day].events) > Len(f.events)
         /\ Len(f.events) \in Nat
<1>1. f.events \in Seq(Events) /\ f.day \in 1..MaxTime /\ f.started \in 1..MaxTime
  BY DEF Files
<1>2. Append(f.events, event) \in Seq(Events) /\ Len(Append(f.events, event)) = Len(f.events) + 1
  BY <1>1
<1>3. Len(f.events) \in Nat
  BY <1>1
<1> DEFINE new == Append(f.events, event)
<1>4. [f EXCEPT !.events = new] \in Files /\ [f EXCEPT !.events = new].events = new
  BY <1>1, <1>2 DEF Files
<1>5. /\ [f EXCEPT !.events = new, !.started = day] \in Files
      /\ [f EXCEPT !.events = new, !.started = day].events = new
  BY <1>1, <1>2 DEF Files
<1> QED
  BY <1>2, <1>3, <1>4, <1>5

(***************************************************************************)
(* Files grow and are never made again.                                    *)
(***************************************************************************)

\* What a step may do to the log of r: create it once, make it longer, remove it.
Grows(r) ==
  /\ file'[r] \in Files \cup {Missing}
  /\ session'[r] = "new" => session[r] = "new" /\ file'[r] = file[r]
  /\ session[r] # "new" /\ file'[r] # Missing =>
       file[r] # Missing /\ (file'[r] = file[r] \/ Size(r)' > Size(r))

GrowsTyped ==
  /\ file' \in [Requests -> Files \cup {Missing}]
  /\ session' \in [Requests -> Phases]
  /\ \A r \in Requests : Grows(r)

LEMMA SizeIsNat == ASSUME NEW r \in Requests, Shapes, Exists(r) PROVE Size(r) \in Nat
BY AppendGrows DEF Shapes, Exists, Size, Events, Files

LEMMA WrittenGrows ==
  ASSUME Shapes, NEW r \in Requests, NEW event \in Events, session[r] # "new",
         file' = Written(r, event), session' \in [Requests -> Phases],
         \A q \in Requests : session'[q] = "new" => session[q] = "new"
  PROVE  GrowsTyped
<1>1. CASE ~Exists(r)
  BY <1>1 DEF Shapes, Written, GrowsTyped, Grows
<1>2. CASE Exists(r)
  <2>1. file[r] \in Files
    BY <1>2 DEF Shapes, Exists
  <2> DEFINE f == [file[r] EXCEPT !.events = Append(@, event)]
  <2>2. f \in Files /\ Len(f.events) > Len(file[r].events)
    BY <2>1, AppendGrows DEF Files
  <2>3. file' = [file EXCEPT ![r] = f]
    BY <1>2, <2>1 DEF Written, Shapes, Files
  <2> HIDE DEF f
  <2> QED
    BY <1>2, <2>2, <2>3, MissingAssumption DEF Shapes, GrowsTyped, Grows, Size, Exists
<1> QED
  BY <1>1, <1>2

\* No step of a handler does more than that.
LEMMA HandlerGrows == ASSUME Shapes, NEW r \in Requests, HandlerNext(r) PROVE GrowsTyped
<1> USE DEF GoTo, Phases, handlers, retention
<1>1. CASE CreateLog(r)
  <2>1. [day |-> now, started |-> now, events |-> <<>>] \in Files
    BY DEF Shapes, Files
  <2> QED
    BY <1>1, <2>1 DEF CreateLog, Shapes, GrowsTyped, Grows
<1>2. CASE Register(r) \/ CloseSession(r)
  BY <1>2 DEF Register, CloseSession, Shapes, GrowsTyped, Grows
<1>3. CASE AppendRequest(r)
  <2>1. CASE ~Exists(r)
    BY <1>3, <2>1 DEF AppendRequest, Shapes, GrowsTyped, Grows
  <2>2. CASE Exists(r)
    <3>1. file[r] \in Files /\ now \in 1..MaxTime
      BY <2>2 DEF Shapes, Exists
    <3> DEFINE f == [file[r] EXCEPT !.events = Append(@, "request"), !.started = now]
    <3>2. PICK day \in 1..MaxTime : day = now
      BY <3>1
    <3>3. f \in Files /\ Len(f.events) > Len(file[r].events)
      BY <3>1, <3>2, AppendGrows DEF Files, Events
    <3>4. file' = [file EXCEPT ![r] = f]
      BY <1>3, <2>2, <3>1 DEF AppendRequest, Shapes, Files
    <3> HIDE DEF f
    <3> QED
      BY <1>3, <2>2, <3>3, <3>4, MissingAssumption DEF AppendRequest, Shapes, GrowsTyped, Grows, Size, Exists
  <2> QED
    BY <2>1, <2>2
<1>4. CASE RefuseRequest(r)
  <2>1. CASE file' = file
    BY <1>4, <2>1 DEF RefuseRequest, Shapes, GrowsTyped, Grows
  <2>2. CASE file' = Written(r, "torn")
    BY <1>4, <2>2, WrittenGrows DEF RefuseRequest, Shapes, Events
  <2> QED
    BY <1>4, <2>1, <2>2 DEF RefuseRequest
<1>5. CASE AppendNote(r)
  <2>1. session[r] = "running" /\ (session' = session \/ session' = [session EXCEPT ![r] = "over"])
    BY <1>5 DEF AppendNote
  <2>2. file' = Written(r, "note") \/ file' = Written(r, "torn")
    BY <1>5 DEF AppendNote
  <2> QED
    BY <2>1, <2>2, WrittenGrows DEF Shapes, Events
<1>6. CASE AppendResult(r)
  <2>1. session[r] = "over" /\ session' = [session EXCEPT ![r] = "finished"]
    BY <1>6 DEF AppendResult
  <2>2. CASE file' = file
    BY <2>1, <2>2 DEF Shapes, GrowsTyped, Grows
  <2>3. CASE file' = Written(r, "result") \/ file' = Written(r, "torn")
    BY <2>1, <2>3, WrittenGrows DEF Shapes, Events
  <2> QED
    BY <1>6, <2>2, <2>3 DEF AppendResult
<1>7. CASE EndExchange(r)
  BY <1>7 DEF EndExchange, Shapes, GrowsTyped, Grows
<1> QED
  BY <1>1, <1>2, <1>3, <1>4, <1>5, <1>6, <1>7 DEF HandlerNext, OwnStep

(***************************************************************************)
(* What the cache and the listings know.                                   *)
(***************************************************************************)

\* A log that was never made is not known; no entry is of a size the log has not had;
\* one of the size it has says what it says.
EntryOK(r) ==
  cache[r] # NoEntry =>
    /\ session[r] # "new"
    /\ Exists(r) => /\ cache[r].size \in Nat
                    /\ cache[r].size <= Size(r)
                    /\ cache[r].size = Size(r) => cache[r].summary = Summary(r)

\* The same of the size and the summary a listing has in hand.
ListingOK(t) ==
  \A r \in Requests :
    /\ Scanning(t, "read") \/ Scanning(t, "store")
    /\ r = Min(task[t].todo)
    => /\ session[r] # "new"
       /\ Exists(r) => /\ task[t].size \in Nat
                       /\ task[t].size <= Size(r)
                       /\ Scanning(t, "store") /\ task[t].size = Size(r) =>
                            task[t].item = Summary(r)

NewIsMissing == \A r \in Requests : session[r] = "new" => file[r] = Missing

\* A session registers once, when its log is made, and leaves for good.
SessionsOpen == \A r \in sessions : session[r] \in {"open", "running", "over", "finished"}

\* A removal has looked at the sessions before it removes.
RemovalOK(t) ==
  task[t] # NoTask /\ task[t].kind \in {"delete", "clear"} =>
    /\ \A r \in task[t].busy : r \in Requests /\ session[r] \notin {"new", "created"}
    /\ task[t].at = "remove" =>
         \A r \in Requests : r = Min(task[t].todo) => r \notin task[t].busy \cap sessions

TaskOK(t) == ShapeOf(t) /\ ListingOK(t) /\ RemovalOK(t)

Inv ==
  /\ Shapes /\ NewIsMissing /\ SessionsOpen
  /\ \A r \in Requests : EntryOK(r)
  /\ \A t \in Tasks : TaskOK(t)

LEMMA InitInv == Init => Inv
<1> SUFFICES ASSUME Init PROVE Inv
  OBVIOUS
<1>1. PICK old \in LeftBehind :
        /\ file = old
        /\ session = [r \in Requests |-> IF old[r] = Missing THEN "new" ELSE "done"]
  BY DEF Init
<1>2. old \in [Requests -> Files \cup {Missing}]
  BY LeftBehindAssumption
<1>3. Shapes
  BY <1>1, <1>2, BoundsAssumption DEF Init, Shapes, Phases
<1>4. NewIsMissing /\ SessionsOpen
  BY <1>1, <1>2 DEF Init, NewIsMissing, SessionsOpen
<1>5. \A r \in Requests : EntryOK(r)
  BY DEF Init, EntryOK
<1>6. \A t \in Tasks : TaskOK(t)
  BY DEF Init, TaskOK, ShapeOf, ListingOK, RemovalOK, Scanning
<1> QED
  BY <1>3, <1>4, <1>5, <1>6 DEF Inv

\* An entry that is kept or dropped stays right while the log grows.
LEMMA KeepEntry ==
  ASSUME NEW r \in Requests, Shapes, EntryOK(r), Grows(r), cache'[r] \in {cache[r], NoEntry}
  PROVE  EntryOK(r)'
<1> SUFFICES ASSUME cache'[r] # NoEntry, cache'[r] = cache[r] PROVE EntryOK(r)'
  BY DEF EntryOK
<1>1. session[r] # "new" /\ session'[r] # "new"
  BY DEF EntryOK, Grows
<1>2. ASSUME Exists(r)'
      PROVE  /\ cache[r].size \in Nat
             /\ cache[r].size <= Size(r)'
             /\ cache[r].size = Size(r)' => cache[r].summary = Summary(r)'
  <2>1. Exists(r) /\ (file'[r] = file[r] \/ Size(r)' > Size(r))
    BY <1>1, <1>2 DEF Grows, Exists
  <2>2. Size(r) \in Nat /\ cache[r].size \in Nat /\ cache[r].size <= Size(r)
    BY <2>1, SizeIsNat DEF EntryOK
  <2>3. CASE file'[r] = file[r]
    BY <2>1, <2>2, <2>3 DEF EntryOK, Size, Summary
  <2>4. CASE Size(r)' > Size(r)
    <3>1. Size(r)' \in Nat
      BY <1>2 DEF Grows, Exists, Size, Files
    <3> QED
      BY <2>2, <2>4, <3>1
  <2> QED
    BY <2>1, <2>3, <2>4
<1> QED
  BY <1>1, <1>2 DEF EntryOK

\* A task that does not move knows what it knew.
LEMMA KeepTask ==
  ASSUME NEW t \in Tasks, Shapes, TaskOK(t), \A r \in Requests : Grows(r), task'[t] = task[t],
         \A r \in Requests : session[r] \notin {"new", "created"} =>
                               session'[r] \notin {"new", "created"},
         \A r \in Requests : session[r] \notin {"new", "created"} /\ r \in sessions' => r \in sessions
  PROVE  TaskOK(t)'
<1>1. ShapeOf(t)'
  BY DEF TaskOK, ShapeOf, IsListing, IsRemoval
<1>2. RemovalOK(t)'
  BY DEF TaskOK, RemovalOK
<1>3. ASSUME NEW r \in Requests, Scanning(t, "read") \/ Scanning(t, "store"),
             r = Min(task[t].todo)
      PROVE  /\ session'[r] # "new"
             /\ Exists(r)' => /\ task[t].size \in Nat
                              /\ task[t].size <= Size(r)'
                              /\ Scanning(t, "store") /\ task[t].size = Size(r)' =>
                                   task[t].item = Summary(r)'
  <2>1. session[r] # "new" /\ session'[r] # "new"
    BY <1>3 DEF TaskOK, ListingOK, Grows
  <2>2. ASSUME Exists(r)'
        PROVE  /\ task[t].size \in Nat
               /\ task[t].size <= Size(r)'
               /\ Scanning(t, "store") /\ task[t].size = Size(r)' =>
                    task[t].item = Summary(r)'
    <3>1. Exists(r) /\ (file'[r] = file[r] \/ Size(r)' > Size(r))
      BY <2>1, <2>2 DEF Grows, Exists
    <3>2. Size(r) \in Nat /\ task[t].size \in Nat /\ task[t].size <= Size(r)
      BY <1>3, <3>1, SizeIsNat DEF TaskOK, ListingOK
    <3>3. CASE file'[r] = file[r]
      BY <1>3, <3>1, <3>2, <3>3 DEF TaskOK, ListingOK, Size, Summary
    <3>4. CASE Size(r)' > Size(r)
      <4>1. Size(r)' \in Nat
        BY <2>2 DEF Grows, Exists, Size, Files
      <4> QED
        BY <3>2, <3>4, <4>1
    <3> QED
      BY <3>1, <3>3, <3>4
  <2> QED
    BY <2>1, <2>2
<1>4. ListingOK(t)'
  BY <1>3 DEF ListingOK, Scanning
<1> QED
  BY <1>1, <1>2, <1>4 DEF TaskOK

\* Handlers.
LEMMA HandlerInv == ASSUME NEW r \in Requests, Inv, HandlerNext(r) PROVE Inv'
<1> USE DEF Inv
<1>1. GrowsTyped
  BY HandlerGrows
<1>2. UNCHANGED <<now, phase, cache, task>>
  BY DEF HandlerNext, OwnStep, CreateLog, Register, AppendRequest, RefuseRequest, AppendNote,
         EndExchange, AppendResult, CloseSession
<1>3. /\ \A q \in Requests : session[q] \notin {"new", "created"} =>
                              session'[q] \notin {"new", "created"}
      /\ \A q \in Requests : session[q] \notin {"new", "created"} /\ q \in sessions' => q \in sessions
      /\ sessions' \subseteq Requests
      /\ \A q \in sessions' : session'[q] \in {"open", "running", "over", "finished"}
  BY DEF HandlerNext, OwnStep, CreateLog, Register, AppendRequest, RefuseRequest, AppendNote,
         EndExchange, AppendResult, CloseSession, GoTo, Shapes, SessionsOpen
<1>4. Shapes'
  BY <1>1, <1>2, <1>3 DEF Shapes, GrowsTyped
<1>5. NewIsMissing'
  BY <1>1 DEF NewIsMissing, GrowsTyped, Grows
<1>6. \A q \in Requests : EntryOK(q)'
  BY <1>1, <1>2, KeepEntry DEF GrowsTyped
<1>7. \A t \in Tasks : TaskOK(t)'
  BY <1>1, <1>2, <1>3, KeepTask DEF GrowsTyped
<1> QED
  BY <1>3, <1>4, <1>5, <1>6, <1>7 DEF SessionsOpen

(***************************************************************************)
(* Listings and removals.                                                  *)
(***************************************************************************)

\* A step of t that leaves the files alone need only be looked at where it works.
LEMMA TaskStep ==
  ASSUME NEW t \in Tasks, NEW state, Inv, Put(t, state),
         UNCHANGED <<now, file, session, sessions>>,
         cache' = [r \in Requests |-> cache'[r]],
         \A r \in Requests : EntryOK(r)',
         TaskOK(t)'
  PROVE  Inv'
<1>1. \A r \in Requests : Grows(r)
  BY DEF Inv, Shapes, Grows
<1>2. \A u \in Tasks \ {t} : task'[u] = task[u]
  BY DEF Inv, Shapes, Put
<1>3. \A u \in Tasks \ {t} : TaskOK(u)'
  BY <1>1, <1>2, KeepTask DEF Inv
<1>4. Shapes' /\ NewIsMissing' /\ SessionsOpen'
  BY DEF Inv, Shapes, NewIsMissing, SessionsOpen, Put
<1> QED
  BY <1>3, <1>4 DEF Inv

LEMMA TaskUpdated == ASSUME NEW t \in Tasks, NEW state, Shapes, Put(t, state) PROVE task'[t] = state
BY DEF Shapes, Put

\* A summary that is dropped is nobody's.
LEMMA Dropped ==
  ASSUME NEW r, Inv, Drop(r), UNCHANGED <<file, session>>
  PROVE  /\ cache' = [q \in Requests |-> cache'[q]]
         /\ \A q \in Requests : EntryOK(q)'
<1>1. \A q \in Requests : cache'[q] \in {cache[q], NoEntry}
  BY DEF Inv, Shapes, Drop
<1>2. \A q \in Requests : Grows(q)
  BY DEF Inv, Shapes, Grows
<1>3. cache' = [q \in Requests |-> cache'[q]]
  BY DEF Inv, Shapes, Drop
<1> QED
  BY <1>1, <1>2, <1>3, KeepEntry DEF Inv

LEMMA CacheKept ==
  ASSUME Inv, UNCHANGED <<cache, file, session>>
  PROVE  /\ cache' = [q \in Requests |-> cache'[q]]
         /\ \A q \in Requests : EntryOK(q)'
BY DEF Inv, Shapes, EntryOK, Exists, Size, Summary

\* A task that has nothing in hand knows nothing wrong.
LEMMA IdleTask ==
  ASSUME NEW t \in Tasks, task'[t] = NoTask \/ IsListing(task'[t]),
         task'[t] # NoTask => task'[t].at \notin {"read", "store"}
  PROVE  TaskOK(t)'
BY DEF TaskOK, ShapeOf, ListingOK, RemovalOK, Scanning, IsListing

LEMMA ListingInv ==
  ASSUME NEW t \in Tasks, Inv,
         \/ BeginListing(t) \/ StatPath(t) \/ LookUpOrRead(t) \/ Store(t)
         \/ AnswerPage(t) \/ RefuseCursor(t) \/ AnswerReport(t)
  PROVE  Inv'
<1> USE DEF handlers, retention
<1>0. Shapes /\ ShapeOf(t) /\ ListingOK(t)
  BY DEF Inv, TaskOK
<1>a. ASSUME NEW step, Scanning(t, step) PROVE IsListing(task[t]) /\ task[t] # NoTask
  BY <1>0, <1>a DEF ShapeOf, Scanning, IsRemoval
<1>1. ASSUME BeginListing(t) PROVE Inv'
  <2>1. PICK state : Put(t, state) /\ IsListing(state) /\ state.at = "stat"
    BY <1>1 DEF BeginListing, IsListing
  <2>2. TaskOK(t)'
    BY <1>0, <2>1, TaskUpdated, IdleTask
  <2> QED
    BY <1>1, <2>1, <2>2, TaskStep, CacheKept DEF BeginListing
<1>2. ASSUME NEW step, Scanning(t, step), Skip(t), UNCHANGED <<now, file, session, sessions>>,
             UNCHANGED cache \/ \E r : Drop(r)
      PROVE  Inv'
  <2> DEFINE todo == task[t].todo \ {Min(task[t].todo)}
             next == [task[t] EXCEPT !.at = "stat", !.todo = todo, !.size = 0, !.item = NoEntry]
  <2>0. Put(t, next)
    BY <1>2 DEF Skip
  <2>1. PICK state : Put(t, state) /\ IsListing(state) /\ state.at = "stat"
    <3> HIDE DEF todo
    <3>1. IsListing(next) /\ next.at = "stat"
      BY <1>2, <1>a DEF IsListing
    <3> QED
      BY <2>0, <3>1
  <2>2. TaskOK(t)'
    BY <1>0, <2>1, TaskUpdated, IdleTask
  <2> QED
    BY <1>2, <2>1, <2>2, TaskStep, CacheKept, Dropped
<1>3. ASSUME NEW step, NEW summary, Scanning(t, step), Show(t, summary),
             UNCHANGED <<now, file, session, sessions>>,
             cache' = [q \in Requests |-> cache'[q]], \A q \in Requests : EntryOK(q)'
      PROVE  Inv'
  <2> DEFINE todo == task[t].todo \ {Min(task[t].todo)}
             items == task[t].items \cup {summary}
             next == [task[t] EXCEPT !.at = "stat", !.todo = todo, !.size = 0, !.item = NoEntry,
                                     !.items = items]
  <2>0. Put(t, next)
    BY <1>3 DEF Show
  <2>1. PICK state : Put(t, state) /\ IsListing(state) /\ state.at = "stat"
    <3> HIDE DEF todo, items
    <3>1. IsListing(next) /\ next.at = "stat"
      BY <1>3, <1>a DEF IsListing
    <3> QED
      BY <2>0, <3>1
  <2>2. TaskOK(t)'
    BY <1>0, <2>1, TaskUpdated, IdleTask
  <2> QED
    BY <1>3, <2>1, <2>2, TaskStep
<1>4. ASSUME StatPath(t) PROVE Inv'
  <2> DEFINE r == Min(task[t].todo)
  <2>1. CASE ~Exists(r)
    BY <1>2, <1>4, <2>1 DEF StatPath
  <2>2. CASE Exists(r)
    <3>1. IsListing(task[t])
      BY <1>4, <1>a DEF StatPath
    <3>2. task'[t] = [task[t] EXCEPT !.at = "read", !.size = Size(r)]
      BY <1>0, <1>4, <2>2, TaskUpdated DEF StatPath
    <3>3. /\ IsListing(task'[t]) /\ task'[t].at = "read" /\ task'[t].size = Size(r)
          /\ task'[t].todo = task[t].todo /\ task'[t].kind = "list"
      BY <3>1, <3>2 DEF IsListing
    <3>4. UNCHANGED <<now, file, session, sessions, cache>>
      BY <1>4, <2>2 DEF StatPath
    <3>5. ASSUME r \in Requests PROVE session[r] # "new" /\ Size(r) \in Nat
      BY <1>0, <2>2, <3>5, SizeIsNat DEF Inv, NewIsMissing, Exists
    <3>6. ListingOK(t)'
      BY <2>2, <3>3, <3>4, <3>5 DEF ListingOK, Scanning, Exists, Size
    <3>7. TaskOK(t)'
      BY <3>3, <3>6 DEF TaskOK, ShapeOf, RemovalOK
    <3>8. PICK state : Put(t, state)
      BY <1>4, <2>2 DEF StatPath
    <3> QED
      BY <3>4, <3>7, <3>8, TaskStep, CacheKept
  <2> QED
    BY <2>1, <2>2
<1>5. ASSUME LookUpOrRead(t) PROVE Inv'
  <2> DEFINE r == Min(task[t].todo)
  <2>1. Scanning(t, "read") /\ UNCHANGED <<now, file, session, sessions>>
    BY <1>5 DEF LookUpOrRead
  <2>2. CASE Show(t, cache[r].summary) /\ UNCHANGED cache
    BY <1>3, <2>1, <2>2, CacheKept
  <2>3. CASE Skip(t) /\ Drop(r)
    BY <1>2, <2>1, <2>3
  <2>4. CASE /\ Exists(r)
             /\ Put(t, [task[t] EXCEPT !.at = "store", !.item = Summary(r)])
             /\ UNCHANGED cache
    <3>1. IsListing(task[t])
      BY <2>1, <1>a
    <3>2. task'[t] = [task[t] EXCEPT !.at = "store", !.item = Summary(r)]
      BY <1>0, <2>4, TaskUpdated
    <3>3. /\ IsListing(task'[t]) /\ task'[t].at = "store" /\ task'[t].size = task[t].size
          /\ task'[t].item = Summary(r)
          /\ task'[t].todo = task[t].todo /\ task'[t].kind = "list"
      BY <3>1, <3>2 DEF IsListing
    <3>4. ListingOK(t)'
      BY <1>0, <2>1, <2>4, <3>3 DEF ListingOK, Scanning, Exists, Size, Summary
    <3>5. TaskOK(t)'
      BY <3>3, <3>4 DEF TaskOK, ShapeOf, RemovalOK
    <3> QED
      BY <2>1, <2>4, <3>5, TaskStep, CacheKept
  <2> QED
    BY <1>5, <2>2, <2>3, <2>4 DEF LookUpOrRead
<1>6. ASSUME Store(t) PROVE Inv'
  <2> DEFINE r == Min(task[t].todo)
             entry == EntryOf(r, task[t].size, task[t].item)
  <2>1. /\ Scanning(t, "store") /\ Show(t, task[t].item)
        /\ UNCHANGED <<now, file, session, sessions>>
        /\ cache' = [cache EXCEPT ![r] = entry]
    BY <1>6 DEF Store
  <2>2. entry.size = task[t].size /\ entry.summary = task[t].item
    BY DEF EntryOf
  <2> HIDE DEF entry
  <2>3. cache' = [q \in Requests |-> cache'[q]]
    BY <1>0, <2>1 DEF Shapes
  <2>4. ASSUME NEW q \in Requests PROVE EntryOK(q)'
    <3>1. CASE q # r
      BY <1>0, <2>1, <3>1 DEF Inv, Shapes, EntryOK, Exists, Size, Summary
    <3>2. CASE q = r
      <4>1. cache'[q] = entry
        BY <1>0, <2>1, <3>2 DEF Shapes
      <4> QED
        BY <1>0, <2>1, <2>2, <3>2, <4>1 DEF ListingOK, EntryOK, Exists, Size, Summary
    <3> QED
      BY <3>1, <3>2
  <2> QED
    BY <1>3, <2>1, <2>3, <2>4
<1>7. ASSUME AnswerPage(t) \/ RefuseCursor(t) \/ AnswerReport(t) PROVE Inv'
  <2>1. UNCHANGED <<now, file, session, sessions, cache>>
    BY <1>7 DEF AnswerPage, RefuseCursor, AnswerReport
  <2>2. PICK state : /\ Put(t, state)
                     /\ state = NoTask \/ IsListing(state)
                     /\ state # NoTask => state.at \notin {"read", "store"}
    <3>1. CASE AnswerPage(t)
      <4>1. IsListing(task[t]) /\ task[t].at = "stat"
        BY <3>1, <1>a DEF AnswerPage, Scanning
      <4>2. PICK shown, cursor :
              \/ Put(t, [task[t] EXCEPT !.shown = shown, !.cursor = cursor,
                                       !.todo = AllFiles, !.items = {}])
              \/ Put(t, [task[t] EXCEPT !.shown = shown, !.at = "answered", !.items = {}])
        BY <3>1 DEF AnswerPage
      <4> DEFINE onward == [task[t] EXCEPT !.shown = shown, !.cursor = cursor,
                                           !.todo = AllFiles, !.items = {}]
                 last == [task[t] EXCEPT !.shown = shown, !.at = "answered", !.items = {}]
      <4>3. IsListing(onward) /\ onward.at = "stat"
        BY <4>1 DEF IsListing
      <4>4. IsListing(last) /\ last.at = "answered"
        BY <4>1 DEF IsListing
      <4> QED
        BY <4>2, <4>3, <4>4
    <3>2. CASE RefuseCursor(t) \/ AnswerReport(t)
      BY <3>2 DEF RefuseCursor, AnswerReport, Leave
    <3> QED
      BY <1>7, <3>1, <3>2
  <2>3. TaskOK(t)'
    BY <1>0, <2>2, TaskUpdated, IdleTask
  <2> QED
    BY <2>1, <2>2, <2>3, TaskStep, CacheKept
<1> QED
  BY <1>1, <1>4, <1>5, <1>6, <1>7

\* A removal that is not about to remove anything.
LEMMA CheckingTask ==
  ASSUME NEW t \in Tasks, IsRemoval(task'[t]), task'[t].at # "remove",
         \A r \in task'[t].busy : r \in Requests /\ session'[r] \notin {"new", "created"}
  PROVE  TaskOK(t)'
BY DEF TaskOK, ShapeOf, ListingOK, RemovalOK, Scanning, IsRemoval

LEMMA RemovalInv ==
  ASSUME NEW t \in Tasks, Inv,
         \/ BeginRemoval(t) \/ CheckActive(t) \/ RemoveFile(t) \/ RemoveFails(t) \/ Forget(t)
         \/ AnswerRemoval(t)
  PROVE  Inv'
<1> USE DEF handlers, retention
<1>0. Shapes /\ ShapeOf(t) /\ RemovalOK(t)
  BY DEF Inv, TaskOK
<1>a. ASSUME task[t] # NoTask, task[t].kind \in {"delete", "clear"}
      PROVE  /\ IsRemoval(task[t])
             /\ \A r \in task[t].busy : r \in Requests /\ session[r] \notin {"new", "created"}
  BY <1>0, <1>a DEF ShapeOf, RemovalOK, IsListing
<1>1. ASSUME BeginRemoval(t) PROVE Inv'
  <2>1. PICK state : Put(t, state) /\ IsRemoval(state) /\ state.at = "check" /\ state.busy = sessions
    <3>1. PICK files : \/ Put(t, [kind |-> "clear", at |-> "check", todo |-> files, busy |-> sessions])
                       \/ Put(t, [kind |-> "delete", at |-> "check", todo |-> files, busy |-> sessions])
      BY <1>1 DEF BeginRemoval
    <3>2. /\ IsRemoval([kind |-> "clear", at |-> "check", todo |-> files, busy |-> sessions])
          /\ IsRemoval([kind |-> "delete", at |-> "check", todo |-> files, busy |-> sessions])
      BY DEF IsRemoval
    <3> QED
      BY <3>1, <3>2
  <2>2. task'[t] = state /\ session' = session
    BY <1>0, <1>1, <2>1, TaskUpdated DEF BeginRemoval
  <2>3. \A r \in sessions : r \in Requests /\ session[r] \notin {"new", "created"}
    BY DEF Inv, Shapes, SessionsOpen
  <2>4. TaskOK(t)'
    BY <2>1, <2>2, <2>3, CheckingTask
  <2> QED
    BY <1>1, <2>1, <2>4, TaskStep, CacheKept DEF BeginRemoval
<1>2. ASSUME task[t] # NoTask, task[t].kind \in {"delete", "clear"}, NextFile(t),
             UNCHANGED <<now, file, session, sessions>>, UNCHANGED cache \/ \E r : Drop(r)
      PROVE  Inv'
  <2> DEFINE todo == task[t].todo \ {Min(task[t].todo)}
             next == [task[t] EXCEPT !.at = "check", !.todo = todo]
  <2>1. Put(t, next)
    BY <1>2 DEF NextFile
  <2>2. IsRemoval(next) /\ next.at = "check" /\ next.busy = task[t].busy
    <3> HIDE DEF todo
    <3> QED
      BY <1>2, <1>a DEF IsRemoval
  <2> HIDE DEF next
  <2>3. task'[t] = next
    BY <1>0, <2>1, TaskUpdated
  <2>4. TaskOK(t)'
    BY <1>2, <1>a, <2>2, <2>3, CheckingTask
  <2> QED
    BY <1>2, <2>1, <2>4, TaskStep, CacheKept, Dropped
<1>3. ASSUME Leave(t), UNCHANGED <<now, file, session, sessions, cache>> PROVE Inv'
  <2>1. task'[t] = NoTask
    BY <1>0, <1>3, TaskUpdated DEF Leave
  <2>2. TaskOK(t)'
    BY <2>1, IdleTask
  <2> QED
    BY <1>3, <2>2, TaskStep, CacheKept DEF Leave
<1>4. ASSUME CheckActive(t) PROVE Inv'
  <2> DEFINE r == Min(task[t].todo)
             next == [task[t] EXCEPT !.at = "remove"]
  <2>0. /\ task[t] # NoTask /\ task[t].kind \in {"delete", "clear"}
        /\ UNCHANGED <<now, file, session, sessions, cache>>
    BY <1>4 DEF CheckActive, Removing
  <2>1. CASE r \in sessions
    BY <1>2, <1>4, <2>0, <2>1 DEF CheckActive, IsActivePath
  <2>2. CASE r \notin sessions
    <3>1. Put(t, next)
      BY <1>4, <2>2 DEF CheckActive, IsActivePath
    <3>2. task'[t] = next
      BY <1>0, <3>1, TaskUpdated
    <3>3. /\ IsRemoval(next) /\ next.busy = task[t].busy /\ next.todo = task[t].todo
      BY <2>0, <1>a DEF IsRemoval
    <3>4. RemovalOK(t)'
      BY <2>0, <1>a, <2>2, <3>2, <3>3 DEF RemovalOK
    <3>5. TaskOK(t)'
      BY <3>2, <3>3, <3>4 DEF TaskOK, ShapeOf, ListingOK, Scanning, IsRemoval
    <3> QED
      BY <2>0, <3>1, <3>5, TaskStep, CacheKept
  <2> QED
    BY <2>1, <2>2
<1>5. ASSUME RemoveFile(t) PROVE Inv'
  <2> DEFINE r == Min(task[t].todo)
             next == [task[t] EXCEPT !.at = "forget"]
  <2>0. /\ task[t] # NoTask /\ task[t].kind \in {"delete", "clear"}
        /\ UNCHANGED <<now, session, sessions, cache>>
        /\ file' = [file EXCEPT ![r] = Missing]
    BY <1>5 DEF RemoveFile, Removing
  <2>1. Put(t, NoTask) \/ Put(t, next)
    BY <1>5 DEF RemoveFile, Leave
  <2>2. IsRemoval(next) /\ next.busy = task[t].busy /\ next.at = "forget"
    BY <2>0, <1>a DEF IsRemoval
  <2>3. task'[t] = NoTask \/ task'[t] = next
    BY <1>0, <2>1, TaskUpdated
  <2>4. TaskOK(t)'
    <3>1. CASE task'[t] = NoTask
      BY <3>1, IdleTask
    <3>2. CASE task'[t] = next
      BY <2>0, <1>a, <2>2, <3>2, CheckingTask
    <3> QED
      BY <2>3, <3>1, <3>2
  <2>5. \A q \in Requests : file'[q] \in {file[q], Missing} /\ Grows(q)
    BY <1>0, <2>0 DEF Inv, NewIsMissing, Shapes, Grows
  <2>6. \A u \in Tasks \ {t} : task'[u] = task[u]
    BY <1>0, <2>1 DEF Shapes, Put
  <2>7. \A u \in Tasks : TaskOK(u)'
    BY <2>0, <2>4, <2>5, <2>6, KeepTask DEF Inv
  <2>8. \A q \in Requests : EntryOK(q)'
    BY <2>0, <2>5, KeepEntry DEF Inv
  <2>9. Shapes' /\ NewIsMissing' /\ SessionsOpen'
    BY <2>0, <2>1, <2>5 DEF Inv, Shapes, NewIsMissing, SessionsOpen, Put
  <2> QED
    BY <2>7, <2>8, <2>9 DEF Inv
<1>6. ASSUME RemoveFails(t) PROVE Inv'
  BY <1>3, <1>6 DEF RemoveFails
<1>7. ASSUME Forget(t) PROVE Inv'
  BY <1>2, <1>7 DEF Forget, Removing
<1>8. ASSUME AnswerRemoval(t) PROVE Inv'
  BY <1>3, <1>8 DEF AnswerRemoval
<1> QED
  BY <1>1, <1>4, <1>5, <1>6, <1>7, <1>8

(***************************************************************************)
(* The gateway starts, retains, serves, stops and dies.                    *)
(***************************************************************************)

LEMMA StartInv == ASSUME Inv, Start PROVE Inv'
<1>1. UNCHANGED <<file, task, session, sessions>> /\ now' \in now..MaxTime
  BY DEF Start, handlers
<1>2. cache' = [r \in Requests |-> IF Exists(r) /\ Readable(file[r])
                                     THEN EntryOf(r, Size(r), Summary(r)) ELSE NoEntry]
  BY DEF Start
<1>3. ASSUME NEW r \in Requests PROVE EntryOK(r)'
  <2>1. CASE cache'[r] = NoEntry
    BY <2>1 DEF EntryOK
  <2>2. CASE Exists(r) /\ cache'[r] = EntryOf(r, Size(r), Summary(r))
    <3>1. session[r] # "new" /\ Size(r) \in Nat
      BY <2>2, SizeIsNat DEF Inv, NewIsMissing, Exists
    <3>2. cache'[r].size = Size(r) /\ cache'[r].summary = Summary(r)
      BY <2>2 DEF EntryOf
    <3> QED
      BY <1>1, <3>1, <3>2 DEF EntryOK, Exists, Size, Summary
  <2> QED
    BY <1>2, <2>1, <2>2
<1>4. \A t \in Tasks : TaskOK(t)'
  <2>1. \A r \in Requests : Grows(r)
    BY <1>1 DEF Inv, Shapes, Grows
  <2> QED
    BY <1>1, <2>1, KeepTask DEF Inv
<1>5. Shapes' /\ NewIsMissing' /\ SessionsOpen'
  BY <1>1, <1>2, BoundsAssumption DEF Inv, Shapes, NewIsMissing, SessionsOpen
<1> QED
  BY <1>3, <1>4, <1>5 DEF Inv

\* Retention, the start of serving and the stop: files and entries go, sessions close.
LEMMA QuietInv ==
  ASSUME Inv, RetainNext \/ Serve \/ Stop \/ UNCHANGED vars
  PROVE  Inv'
<1> USE DEF handlers, retention, vars
<1>1. UNCHANGED <<now, session, task>> /\ (sessions' = sessions \/ sessions' = {})
  BY DEF RetainNext, Serve, Stop
<1>2. file' \in [Requests -> Files \cup {Missing}]
      /\ \A r \in Requests : file'[r] \in {file[r], Missing}
  BY DEF RetainNext, Serve, Stop, Inv, Shapes
<1>3. cache' = [r \in Requests |-> cache'[r]]
      /\ \A r \in Requests : cache'[r] \in {cache[r], NoEntry}
  BY DEF RetainNext, Serve, Stop, Drop, Inv, Shapes
<1>4. \A r \in Requests : Grows(r)
  BY <1>1, <1>2 DEF Grows, Inv, NewIsMissing
<1>5. \A r \in Requests : EntryOK(r)'
  BY <1>3, <1>4, KeepEntry DEF Inv
<1>6. \A t \in Tasks : TaskOK(t)'
  BY <1>1, <1>4, KeepTask DEF Inv
<1>7. Shapes' /\ NewIsMissing' /\ SessionsOpen'
  BY <1>1, <1>2, <1>3 DEF Inv, Shapes, NewIsMissing, SessionsOpen
<1> QED
  BY <1>5, <1>6, <1>7 DEF Inv

\* What survives the process are the files, some with a torn line.
LEMMA DieInv == ASSUME Inv, Die PROVE Inv'
<1>1. /\ session' = [r \in Requests |-> IF session[r] = "new" THEN "new" ELSE "done"]
      /\ sessions' = {}
      /\ cache' = [r \in Requests |-> NoEntry]
      /\ task' = [t \in Tasks |-> NoTask]
      /\ now' = now
  BY DEF Die
<1>2. PICK cut \in SUBSET {r \in sessions : Exists(r) /\ session[r] \in {"open", "running", "over"}} :
        file' = [r \in Requests |-> IF r \in cut THEN [file[r] EXCEPT !.events = Append(@, "torn")]
                                                 ELSE file[r]]
  BY DEF Die
<1>3. ASSUME NEW r \in Requests
      PROVE  /\ file'[r] \in Files \cup {Missing}
             /\ session[r] = "new" => file'[r] = Missing
  <2>1. CASE r \in cut
    <3>1. file[r] \in Files /\ session[r] # "new"
      BY <2>1 DEF Exists, Inv, Shapes
    <3>2. [file[r] EXCEPT !.events = Append(@, "torn")] \in Files
      BY <3>1, AppendGrows, BoundsAssumption DEF Events, Files
    <3> QED
      BY <1>2, <2>1, <3>1, <3>2
  <2>2. CASE r \notin cut
    BY <1>2, <2>2 DEF Inv, Shapes, NewIsMissing
  <2> QED
    BY <2>1, <2>2
<1>4. Shapes' /\ NewIsMissing' /\ SessionsOpen'
  BY <1>1, <1>2, <1>3 DEF Inv, Shapes, NewIsMissing, SessionsOpen, Phases
<1>5. \A r \in Requests : EntryOK(r)'
  BY <1>1 DEF EntryOK
<1>6. \A t \in Tasks : TaskOK(t)'
  BY <1>1 DEF TaskOK, ShapeOf, ListingOK, RemovalOK, Scanning
<1> QED
  BY <1>4, <1>5, <1>6 DEF Inv

LEMMA StepInv == Inv /\ [Next]_vars => Inv'
BY HandlerInv, ListingInv, RemovalInv, StartInv, QuietInv, DieInv DEF Next, TaskNext

LEMMA Invariant == Spec => []Inv
BY InitInv, StepInv, PTL DEF Spec

(***************************************************************************)
(* What follows.                                                           *)
(***************************************************************************)

\* A listing that finds an entry of the size of the log answers what the log says,
\* however many handlers write, listings read and removals remove meanwhile.
THEOREM CacheIsAlwaysExact == Spec => []CacheIsExact
<1>1. Inv => CacheIsExact
  BY DEF Inv, EntryOK, CacheIsExact
<1> QED
  BY <1>1, Invariant, PTL

\* No removal takes the log of a session that was registered when it began and still is.
THEOREM RunningLogsAreSpared == Spec => SessionsAreSpared
<1>1. ASSUME Inv, Next, NEW t \in Tasks, NEW r \in Requests,
             Removing(t, "remove"), task'[t] # task[t], Exists(r), file'[r] = Missing
      PROVE  r \notin task[t].busy \cap sessions
  <2>1. RemovalOK(t)
    BY <1>1 DEF Inv, TaskOK
  <2>2. r = Min(task[t].todo)
    <3>1. RemoveFile(t)
      <4>1. ASSUME Start \/ Serve \/ Stop \/ RetainNext \/ \E q \in Requests : HandlerNext(q)
            PROVE  FALSE
        BY <1>1, <4>1
           DEF Start, Serve, Stop, RetainNext, HandlerNext, OwnStep, CreateLog, Register,
               AppendRequest, RefuseRequest, AppendNote, EndExchange, AppendResult, CloseSession
      <4>2. Die => file'[r] # Missing
        <5> SUFFICES ASSUME Die PROVE file'[r] # Missing
          OBVIOUS
        <5>1. file[r] \in Files
          BY <1>1 DEF Inv, Shapes, Exists
        <5>2. [file[r] EXCEPT !.events = Append(@, "torn")] \in Files
          BY <1>1, <5>1, AppendGrows DEF Inv, Shapes, Events, Files
        <5> QED
          BY <5>1, <5>2, MissingAssumption DEF Die
      <4>3. PICK u \in Tasks : TaskNext(u)
        BY <1>1, <4>1, <4>2 DEF Next
      <4>4. RemoveFile(u)
        <5>1. file' # file
          BY <1>1 DEF Exists
        <5>2. BeginListing(u) \/ StatPath(u) \/ LookUpOrRead(u) \/ Store(u) => file' = file
          BY DEF BeginListing, StatPath, LookUpOrRead, Store
        <5>3. AnswerPage(u) \/ RefuseCursor(u) \/ AnswerReport(u) => file' = file
          BY DEF AnswerPage, RefuseCursor, AnswerReport
        <5>4. BeginRemoval(u) \/ CheckActive(u) \/ RemoveFails(u) \/ Forget(u)
              \/ AnswerRemoval(u) => file' = file
          BY DEF BeginRemoval, CheckActive, RemoveFails, Forget, AnswerRemoval
        <5> QED
          BY <4>3, <5>1, <5>2, <5>3, <5>4 DEF TaskNext
      <4>5. u = t
        BY <1>1, <4>4 DEF RemoveFile, Put, Leave, Inv, Shapes
      <4> QED
        BY <4>4, <4>5
    <3> QED
      BY <1>1, <3>1 DEF RemoveFile, Inv, Shapes, Exists
  <2> QED
    BY <1>1, <2>1, <2>2 DEF RemovalOK, Removing
<1>2. Inv /\ [Next]_vars =>
        [\A t \in Tasks, r \in Requests :
           Removing(t, "remove") /\ task'[t] # task[t] /\ Exists(r) /\ file'[r] = Missing
             => r \notin task[t].busy \cap sessions]_vars
  BY <1>1
<1> QED
  BY <1>2, Invariant, PTL DEF Spec, SessionsAreSpared

(***************************************************************************)
(* Types, and what retention knows.                                        *)
(***************************************************************************)

\* Before it serves the gateway has no handler and no task.
NobodyRuns ==
  phase \in {"down", "retaining"} =>
    /\ \A r \in Requests : session[r] \in {"new", "done"}
    /\ \A t \in Tasks : task[t] = NoTask

\* total is the size of the complete logs there are, those not looked at yet are among them,
\* and of the others each is young and has been left there by the quota.
Retained ==
  phase = "retaining" =>
    /\ candidates \subseteq CompleteLogs
    /\ total = Lines(CompleteLogs)
    /\ \A r \in CompleteLogs \ candidates : ~Old(r) /\ ~OverQuota(total)

\* A listing has collected finitely much, one summary of each log that it is done with;
\* while it looks at a log there is one to look at, and what it has in hand is about it.
InHand(x) ==
  x # NoTask /\ x.kind = "list" =>
    /\ IsFiniteSet(x.items)
    /\ \A a \in x.items : a.id \notin x.todo /\ \A b \in x.items : a.id = b.id => a = b
    /\ x.at \in {"read", "store"} => x.todo # {}
    /\ x.at = "store" => x.item \in SummaryTypes /\ x.item.id = Min(x.todo)

OwnEntries == \A r \in Requests : cache[r] # NoEntry => cache[r].summary.id = r

TypeInv ==
  TypeOK /\ NobodyRuns /\ Retained /\ OwnEntries /\ \A t \in Tasks : InHand(task[t])

LEMMA CompleteLogsAreFiles == Inv => CompleteLogs \subseteq Requests /\ \A r \in CompleteLogs : file[r] \in Files
BY DEF CompleteLogs, Complete, Exists, Inv, Shapes

LEMMA SummaryType == ASSUME NEW r \in Requests, Inv, Exists(r) PROVE Summary(r) \in SummaryTypes
<1>1. file[r] \in Files
  BY DEF Inv, Shapes, Exists
<1> QED
  BY <1>1 DEF Summary, SummaryTypes, Files

LEMMA InitTypes == Init => TypeInv
<1> SUFFICES ASSUME Init PROVE TypeInv
  OBVIOUS
<1>1. Inv
  BY InitInv
<1>2. TypeOK
  BY <1>1 DEF Init, TypeOK, Inv, Shapes
<1>3. NobodyRuns /\ Retained /\ OwnEntries
  BY LeftBehindAssumption DEF Init, NobodyRuns, Retained, OwnEntries
<1>4. \A t \in Tasks : InHand(task[t])
  BY DEF Init, InHand
<1> QED
  BY <1>2, <1>3, <1>4 DEF TypeInv

LEMMA HandlerTypes == ASSUME NEW r \in Requests, Inv, Inv', TypeInv, HandlerNext(r) PROVE TypeInv'
<1>1. UNCHANGED <<now, phase, candidates, total, cache, task, starts>> /\ faults' \in Nat
  BY DEF HandlerNext, OwnStep, CreateLog, Register, AppendRequest, RefuseRequest, AppendNote,
         EndExchange, AppendResult, CloseSession, retention, TypeInv, TypeOK
<1>2. phase \notin {"down", "retaining"}
  BY DEF HandlerNext, OwnStep, CreateLog, Register, AppendRequest, RefuseRequest, AppendNote,
         EndExchange, AppendResult, CloseSession, TypeInv, NobodyRuns
<1>3. TypeOK'
  BY <1>1 DEF TypeInv, TypeOK, Inv, Shapes
<1> QED
  BY <1>1, <1>2, <1>3 DEF TypeInv, NobodyRuns, Retained, OwnEntries

\* A step of t need only be looked at where it works.
LEMMA TaskTypes ==
  ASSUME NEW t \in Tasks, NEW state, Inv', TypeInv, phase \notin {"down", "retaining"},
         Put(t, state), UNCHANGED <<now, phase, retention, starts>>, faults' \in Nat,
         cache' \in [Requests -> Entries \cup {NoEntry}], OwnEntries',
         state \in Listing \cup Removal \cup {NoTask}, InHand(state)
  PROVE  TypeInv'
<1>1. task' \in [Tasks -> Listing \cup Removal \cup {NoTask}] /\ \A u \in Tasks : InHand(task'[u])
  <2>1. task' \in [Tasks -> Listing \cup Removal \cup {NoTask}]
    BY DEF TypeInv, TypeOK, Put
  <2>2. \A u \in Tasks : task'[u] = IF u = t THEN state ELSE task[u]
    BY DEF TypeInv, TypeOK, Put
  <2> QED
    BY <2>1, <2>2 DEF TypeInv
<1>2. TypeOK'
  BY <1>1 DEF TypeInv, TypeOK, Inv, Shapes, retention
<1> QED
  BY <1>1, <1>2 DEF TypeInv, NobodyRuns, Retained

LEMMA Dropping ==
  ASSUME NEW r, TypeInv, Drop(r) \/ UNCHANGED cache 
  PROVE  cache' \in [Requests -> Entries \cup {NoEntry}] /\ OwnEntries'
BY DEF TypeInv, TypeOK, OwnEntries, Drop

\* The fields of a listing.
LEMMA ListingFields ==
  ASSUME NEW t \in Tasks, TypeInv, task[t] # NoTask, task[t].kind = "list"
  PROVE  /\ task[t] \in Listing /\ phase \notin {"down", "retaining"}
         /\ IsFiniteSet(task[t].items)
         /\ \A a, b \in task[t].items : a.id = b.id => a = b
         /\ \A a \in task[t].items : a.id \notin task[t].todo
         /\ task[t].at \in {"read", "store"} =>
              Min(task[t].todo) \in task[t].todo /\ Min(task[t].todo) \in Requests
         /\ task[t].at = "store" =>
              task[t].item \in SummaryTypes /\ task[t].item.id = Min(task[t].todo)
<1>1. task[t] \in Listing
  BY DEF TypeInv, TypeOK, Removal
<1>2. InHand(task[t])
  BY DEF TypeInv
<1>3. task[t].todo \subseteq Requests
  BY <1>1 DEF Listing
<1>4. phase \notin {"down", "retaining"}
  BY DEF TypeInv, NobodyRuns
<1>5. task[t].todo # {} => Min(task[t].todo) \in task[t].todo /\ Min(task[t].todo) \in Requests
  BY <1>3, MinIsLeast
<1> QED
  BY <1>1, <1>2, <1>4, <1>5 DEF InHand

LEMMA SkipTypes ==
  ASSUME NEW t \in Tasks, Inv', TypeInv, NEW step, Scanning(t, step), Skip(t),
         UNCHANGED <<now, phase, retention, starts, faults>>,
         cache' \in [Requests -> Entries \cup {NoEntry}], OwnEntries'
  PROVE  TypeInv'
<1>1. /\ task[t] \in Listing /\ phase \notin {"down", "retaining"} /\ IsFiniteSet(task[t].items)
      /\ \A a, b \in task[t].items : a.id = b.id => a = b
      /\ \A a \in task[t].items : a.id \notin task[t].todo
  BY ListingFields DEF Scanning
<1>2. PICK todo : todo = task[t].todo \ {Min(task[t].todo)}
  OBVIOUS
<1> DEFINE next == [task[t] EXCEPT !.at = "stat", !.todo = todo, !.size = 0, !.item = NoEntry]
<1>3. Put(t, next)
  BY <1>2 DEF Skip
<1>4. todo \in SUBSET Requests
  BY <1>1, <1>2 DEF Listing
<1>5. next \in Listing /\ next.items = task[t].items /\ next.at = "stat" /\ next.todo = todo
  BY <1>1, <1>4 DEF Listing
<1>6. InHand(next)
  BY <1>1, <1>2, <1>5 DEF InHand
<1>7. faults' \in Nat
  BY DEF TypeInv, TypeOK
<1> HIDE DEF next
<1> QED
  BY <1>1, <1>3, <1>5, <1>6, <1>7, TaskTypes

LEMMA ShowTypes ==
  ASSUME NEW t \in Tasks, Inv', TypeInv, NEW step, Scanning(t, step),
         NEW summary \in SummaryTypes, Show(t, summary),
         summary.id = Min(task[t].todo), step \in {"read", "store"},
         UNCHANGED <<now, phase, retention, starts, faults>>,
         cache' \in [Requests -> Entries \cup {NoEntry}], OwnEntries'
  PROVE  TypeInv'
<1>1. /\ task[t] \in Listing /\ phase \notin {"down", "retaining"} /\ IsFiniteSet(task[t].items)
      /\ \A a, b \in task[t].items : a.id = b.id => a = b
      /\ \A a \in task[t].items : a.id \notin task[t].todo
  BY ListingFields DEF Scanning
<1>2. PICK todo, items : /\ todo = task[t].todo \ {Min(task[t].todo)}
                         /\ items = task[t].items \cup {summary}
  OBVIOUS
<1> DEFINE next == [task[t] EXCEPT !.at = "stat", !.todo = todo, !.size = 0, !.item = NoEntry,
                                   !.items = items]
<1>3. Put(t, next)
  BY <1>2 DEF Show
<1>4. todo \in SUBSET Requests /\ items \in SUBSET SummaryTypes /\ IsFiniteSet(items)
  BY <1>1, <1>2, FS_AddElement DEF Listing
<1>5. next \in Listing /\ next.items = items /\ next.at = "stat" /\ next.todo = todo
  BY <1>1, <1>4 DEF Listing
<1>a. Min(task[t].todo) \in task[t].todo
  BY ListingFields DEF Scanning
<1>b. \A a \in items : a.id \notin todo /\ \A b \in items : a.id = b.id => a = b
  BY <1>1, <1>2, <1>a
<1>6. InHand(next)
  BY <1>4, <1>5, <1>b DEF InHand
<1>7. faults' \in Nat
  BY DEF TypeInv, TypeOK
<1> HIDE DEF next
<1> QED
  BY <1>1, <1>3, <1>5, <1>6, <1>7, TaskTypes

LEMMA ListingTypes ==
  ASSUME NEW t \in Tasks, Inv, Inv', TypeInv,
         \/ BeginListing(t) \/ StatPath(t) \/ LookUpOrRead(t) \/ Store(t)
         \/ AnswerPage(t) \/ RefuseCursor(t) \/ AnswerReport(t)
  PROVE  TypeInv'
<1> USE DEF handlers
<1>0. /\ faults \in Nat
      /\ cache \in [Requests -> Entries \cup {NoEntry}] /\ OwnEntries
      /\ task \in [Tasks -> Listing \cup Removal \cup {NoTask}]
      /\ file \in [Requests -> Files \cup {Missing}]
  BY DEF TypeInv, TypeOK
<1>c. UNCHANGED cache => cache' \in [Requests -> Entries \cup {NoEntry}] /\ OwnEntries'
  BY Dropping
<1>a. AllFiles \in SUBSET Requests
  BY DEF AllFiles
<1>1. ASSUME BeginListing(t) PROVE TypeInv'
  <2>1. PICK expected \in SUBSET Requests :
          Put(t, [kind |-> "list", at |-> "stat", todo |-> AllFiles, size |-> 0, item |-> NoEntry,
                  items |-> {}, cursor |-> NoPath, shown |-> [r \in Requests |-> 0],
                  expected |-> expected])
    <3>1. {r \in Requests : Complete(r)} \in SUBSET Requests /\ {} \in SUBSET Requests
      OBVIOUS
    <3> QED
      BY <1>1, <3>1 DEF BeginListing
  <2>2. PICK files : files = AllFiles
    OBVIOUS
  <2>3. PICK none : none = [r \in Requests |-> 0]
    OBVIOUS
  <2>4. none \in [Requests -> Nat]
    BY <2>3
  <2> DEFINE state == [kind |-> "list", at |-> "stat", todo |-> files, size |-> 0, item |-> NoEntry,
                       items |-> {}, cursor |-> NoPath, shown |-> none, expected |-> expected]
  <2>5. Put(t, state)
    BY <2>1, <2>2, <2>3
  <2>6. state \in Listing /\ state.items = {} /\ state.at = "stat"
    BY <1>a, <2>2, <2>4 DEF Listing
  <2>7. InHand(state)
    BY <2>6, FS_EmptySet DEF InHand
  <2>8. phase \notin {"down", "retaining"} /\ UNCHANGED <<now, phase, retention, cache, starts, faults>>
    BY <1>1 DEF BeginListing
  <2> HIDE DEF state
  <2> QED
    BY <1>0, <1>c, <2>5, <2>6, <2>7, <2>8, TaskTypes
<1>2. ASSUME StatPath(t) PROVE TypeInv'
  <2>1. Scanning(t, "stat") /\ UNCHANGED <<now, phase, retention, starts, faults>>
    BY <1>2 DEF StatPath
  <2>2. task[t] \in Listing /\ phase \notin {"down", "retaining"} /\ InHand(task[t])
        /\ task[t].todo # {}
    BY <1>2, <2>1, ListingFields DEF Scanning, TypeInv, StatPath
  <2>3. CASE \E r : Skip(t) /\ Drop(r)
    BY <2>1, <2>3, Dropping, SkipTypes
  <2>4. CASE /\ Exists(Min(task[t].todo))
             /\ Put(t, [task[t] EXCEPT !.at = "read", !.size = Size(Min(task[t].todo))])
             /\ UNCHANGED cache
    <3>1. PICK size : size = Size(Min(task[t].todo))
      OBVIOUS
    <3>2. Min(task[t].todo) \in Requests
      BY <2>2, MinIsLeast DEF Listing
    <3>3. size \in Nat
      BY <2>4, <3>1, <3>2, SizeIsNat DEF Inv
    <3> DEFINE next == [task[t] EXCEPT !.at = "read", !.size = size]
    <3>4. next \in Listing /\ next.items = task[t].items /\ next.todo = task[t].todo /\ next.at = "read"
      BY <2>2, <3>3 DEF Listing
    <3>5. Put(t, next)
      BY <2>4, <3>1
    <3>6. InHand(next)
      BY <2>1, <2>2, <3>4 DEF InHand, Scanning
    <3> HIDE DEF next
    <3> QED
      BY <1>0, <1>c, <2>1, <2>2, <2>4, <3>4, <3>5, <3>6, TaskTypes
  <2> QED
    BY <1>2, <2>3, <2>4 DEF StatPath
<1>3. ASSUME LookUpOrRead(t) PROVE TypeInv'
  <2> DEFINE r == Min(task[t].todo)
  <2>1. Scanning(t, "read") /\ UNCHANGED <<now, phase, retention, starts, faults>>
    BY <1>3 DEF LookUpOrRead
  <2>2. task[t] \in Listing /\ phase \notin {"down", "retaining"} /\ InHand(task[t])
        /\ task[t].todo # {} /\ r \in Requests
    BY <2>1, ListingFields DEF Scanning, TypeInv
  <2>3. CASE cache[r] # NoEntry /\ Show(t, cache[r].summary) /\ UNCHANGED cache
    <3>1. cache[r].summary \in SummaryTypes /\ cache[r].summary.id = r
      BY <1>0, <2>2, <2>3 DEF Entries, OwnEntries
    <3> QED
      BY <1>c, <2>1, <2>3, <3>1, ShowTypes
  <2>4. CASE \E q : Skip(t) /\ Drop(q)
    BY <2>1, <2>4, Dropping, SkipTypes
  <2>5. CASE /\ Exists(r)
             /\ Put(t, [task[t] EXCEPT !.at = "store", !.item = Summary(r)])
             /\ UNCHANGED cache
    <3>1. PICK item : item = Summary(r)
      OBVIOUS
    <3>2. item \in SummaryTypes /\ item.id = r
      BY <2>2, <2>5, <3>1, SummaryType DEF Summary
    <3> DEFINE next == [task[t] EXCEPT !.at = "store", !.item = item]
    <3>3. next \in Listing /\ next.items = task[t].items /\ next.todo = task[t].todo
          /\ next.at = "store" /\ next.item = item
      BY <2>2, <3>2 DEF Listing
    <3>4. Put(t, next)
      BY <2>5, <3>1
    <3>5. InHand(next)
      BY <2>1, <2>2, <3>2, <3>3 DEF InHand, Scanning
    <3> HIDE DEF next
    <3> QED
      BY <1>0, <1>c, <2>1, <2>2, <2>5, <3>3, <3>4, <3>5, TaskTypes
  <2> QED
    BY <1>3, <2>3, <2>4, <2>5 DEF LookUpOrRead
<1>4. ASSUME Store(t) PROVE TypeInv'
  <2> DEFINE r == Min(task[t].todo)
  <2>1. /\ Scanning(t, "store") /\ UNCHANGED <<now, phase, retention, starts, faults>>
        /\ Show(t, task[t].item)
        /\ cache' = [cache EXCEPT ![r] = EntryOf(r, task[t].size, task[t].item)]
    BY <1>4 DEF Store
  <2>2. /\ task[t] \in Listing /\ r \in Requests
        /\ task[t].item \in SummaryTypes /\ task[t].item.id = r
    BY <2>1, ListingFields DEF Scanning
  <2>3. PICK entry : entry = EntryOf(r, task[t].size, task[t].item)
    OBVIOUS
  <2>4. entry \in Entries /\ entry.summary.id = r
    BY <2>2, <2>3 DEF EntryOf, Entries, Listing
  <2>5. cache' \in [Requests -> Entries \cup {NoEntry}] /\ OwnEntries'
    BY <1>0, <2>1, <2>2, <2>3, <2>4 DEF OwnEntries
  <2> QED
    BY <2>1, <2>2, <2>5, ShowTypes
<1>5. ASSUME AnswerPage(t) PROVE TypeInv'
  <2>1. Scanning(t, "stat") /\ UNCHANGED <<now, phase, retention, cache, starts, faults>>
    BY <1>5 DEF AnswerPage
  <2>2. /\ task[t] \in Listing /\ phase \notin {"down", "retaining"}
        /\ IsFiniteSet(task[t].items)
        /\ \A a, b \in task[t].items : a.id = b.id => a = b
    BY <2>1, ListingFields DEF Scanning
  <2>3. PICK rest, page, shown :
          /\ rest = AfterCursor(task[t].items, task[t].cursor)
          /\ page = PageOf(rest)
          /\ shown = [r \in Requests |-> task[t].shown[r] + Cardinality({b \in page : b.id = r})]
    OBVIOUS
  <2>4. /\ rest \subseteq task[t].items /\ rest \subseteq SummaryTypes /\ IsFiniteSet(rest)
        /\ page \subseteq rest /\ IsFiniteSet(page)
    <3>1. rest \subseteq task[t].items /\ page \subseteq rest
      BY <2>3 DEF AfterCursor, PageOf
    <3>2. task[t].items \subseteq SummaryTypes
      BY <2>2 DEF Listing
    <3> QED
      BY <2>2, <3>1, <3>2, FS_Subset
  <2>5. shown \in [Requests -> Nat]
    <3>1. ASSUME NEW r \in Requests PROVE Cardinality({b \in page : b.id = r}) \in Nat
      <4>1. IsFiniteSet({b \in page : b.id = r})
        BY <2>4, FS_Subset
      <4> QED
        BY <4>1, FS_CardinalityType
    <3>2. task[t].shown \in [Requests -> Nat]
      BY <2>2 DEF Listing
    <3> QED
      BY <2>3, <3>1, <3>2
  <2>6. CASE page # rest
    <3>1. LastOf(page) \in page
      BY <2>2, <2>3, <2>4, <2>6, PageBegins
    <3>2. PICK cursor : cursor = LastOf(page).id
      OBVIOUS
    <3>3. cursor \in Requests
      BY <2>4, <3>1, <3>2 DEF SummaryTypes
    <3>4. PICK files : files = AllFiles
      OBVIOUS
    <3> DEFINE next == [task[t] EXCEPT !.shown = shown, !.cursor = cursor, !.todo = files, !.items = {}]
    <3>5. Put(t, next)
      BY <1>5, <2>3, <2>6, <3>2, <3>4 DEF AnswerPage
    <3>6. next \in Listing /\ next.items = {} /\ next.at = task[t].at
      BY <1>a, <2>2, <2>5, <3>3, <3>4 DEF Listing
    <3>7. InHand(next)
      BY <2>1, <3>6, FS_EmptySet DEF InHand, Scanning
    <3> HIDE DEF next
    <3> QED
      BY <1>0, <1>c, <2>1, <2>2, <3>5, <3>6, <3>7, TaskTypes
  <2>7. CASE page = rest
    <3> DEFINE next == [task[t] EXCEPT !.shown = shown, !.at = "answered", !.items = {}]
    <3>5. Put(t, next)
      BY <1>5, <2>3, <2>7 DEF AnswerPage
    <3>6. next \in Listing /\ next.items = {} /\ next.at = "answered"
      BY <2>2, <2>5 DEF Listing
    <3>7. InHand(next)
      BY <3>6, FS_EmptySet DEF InHand
    <3> HIDE DEF next
    <3> QED
      BY <1>0, <1>c, <2>1, <2>2, <3>5, <3>6, <3>7, TaskTypes
  <2> QED
    BY <2>6, <2>7
<1>6. ASSUME RefuseCursor(t) \/ AnswerReport(t) PROVE TypeInv'
  <2>1. /\ Leave(t) /\ UNCHANGED <<now, phase, retention, cache, starts, faults>>
        /\ task[t] # NoTask
    BY <1>6 DEF RefuseCursor, AnswerReport, Scanning
  <2>2. phase \notin {"down", "retaining"} /\ InHand(NoTask)
    BY <2>1 DEF TypeInv, NobodyRuns, InHand
  <2> QED
    BY <1>0, <1>c, <2>1, <2>2, TaskTypes DEF Leave
<1> QED
  BY <1>1, <1>2, <1>3, <1>4, <1>5, <1>6

LEMMA RemovalTypes ==
  ASSUME NEW t \in Tasks, Inv, Inv', TypeInv,
         \/ BeginRemoval(t) \/ CheckActive(t) \/ RemoveFile(t) \/ RemoveFails(t) \/ Forget(t)
         \/ AnswerRemoval(t)
  PROVE  TypeInv'
<1> USE DEF handlers
<1>1. phase \notin {"down", "retaining"} /\ UNCHANGED <<now, phase, retention, starts>>
      /\ faults' \in Nat
  BY DEF BeginRemoval, CheckActive, RemoveFile, RemoveFails, Forget, AnswerRemoval, Removing,
         TypeInv, TypeOK, NobodyRuns
<1>2. cache' \in [Requests -> Entries \cup {NoEntry}] /\ OwnEntries'
  BY Dropping DEF BeginRemoval, CheckActive, RemoveFile, RemoveFails, Forget, AnswerRemoval
<1>3. AllFiles \in SUBSET Requests /\ sessions \in SUBSET Requests
  BY DEF AllFiles, TypeInv, TypeOK
<1>4. PICK state : Put(t, state) /\ state \in Removal \cup {NoTask}
  <2>1. CASE BeginRemoval(t)
    <3>1. PICK kind \in {"delete", "clear"}, files \in SUBSET Requests :
            Put(t, [kind |-> kind, at |-> "check", todo |-> files, busy |-> sessions])
      <4>1. \A r \in AllFiles : {r} \in SUBSET Requests
        BY <1>3
      <4> QED
        BY <1>3, <2>1, <4>1 DEF BeginRemoval
    <3>2. [kind |-> kind, at |-> "check", todo |-> files, busy |-> sessions] \in Removal
      BY <1>3 DEF Removal
    <3> QED
      BY <3>1, <3>2
  <2>2. CASE Leave(t)
    BY <2>2 DEF Leave
  <2>3. ASSUME task[t] # NoTask, task[t].kind \in {"delete", "clear"} PROVE task[t] \in Removal
    BY <2>3 DEF TypeInv, TypeOK, Listing
  <2>4. ASSUME task[t] \in Removal, NEW step \in {"check", "remove", "forget"}, NEW todo \in SUBSET Requests
        PROVE  /\ [task[t] EXCEPT !.at = step] \in Removal
               /\ [task[t] EXCEPT !.at = step, !.todo = todo] \in Removal
    BY <2>4 DEF Removal
  <2>5. CASE \/ Removing(t, "check") /\ (NextFile(t) \/ Put(t, [task[t] EXCEPT !.at = "remove"]))
             \/ Removing(t, "remove") /\ Put(t, [task[t] EXCEPT !.at = "forget"])
             \/ Removing(t, "forget") /\ NextFile(t)
    <3>1. task[t] \in Removal
      BY <2>3, <2>5 DEF Removing
    <3>2. PICK todo \in SUBSET Requests : todo = task[t].todo \ {Min(task[t].todo)}
      BY <3>1 DEF Removal
    <3>3. /\ [task[t] EXCEPT !.at = "remove"] \in Removal
          /\ [task[t] EXCEPT !.at = "forget"] \in Removal
          /\ [task[t] EXCEPT !.at = "check", !.todo = todo] \in Removal
      BY <2>4, <3>1
    <3>4. NextFile(t) => Put(t, [task[t] EXCEPT !.at = "check", !.todo = todo])
      BY <3>2 DEF NextFile
    <3> QED
      BY <2>5, <3>3, <3>4
  <2> QED
    BY <2>1, <2>2, <2>5
       DEF CheckActive, RemoveFile, RemoveFails, Forget, AnswerRemoval
<1>5. InHand(state)
  BY <1>4 DEF InHand, Removal
<1> QED
  BY <1>1, <1>2, <1>4, <1>5, TaskTypes

LEMMA StartTypes == ASSUME Inv, Inv', TypeInv, Start PROVE TypeInv'
<1>1. /\ UNCHANGED <<file, task, session, sessions, faults>> /\ now' \in now..MaxTime
      /\ phase' = "retaining" /\ candidates' = CompleteLogs /\ total' = Lines(CompleteLogs)
      /\ starts' = starts + 1 /\ starts \in Nat
      /\ phase = "down"
  BY DEF Start, handlers, TypeInv, TypeOK
<1>2. /\ CompleteLogs \subseteq Requests /\ Lines(CompleteLogs) \in Nat
      /\ CompleteLogs' = CompleteLogs /\ Lines(CompleteLogs)' = Lines(CompleteLogs)
  BY <1>1, CompleteLogsAreFiles, LinesAddUp DEF CompleteLogs, Complete, Exists, Lines
<1>3. ASSUME NEW r \in Requests
      PROVE  /\ cache'[r] \in Entries \cup {NoEntry}
             /\ cache'[r] # NoEntry => cache'[r].summary.id = r
  <2>1. CASE cache'[r] = NoEntry
    BY <2>1
  <2>2. CASE Exists(r) /\ cache'[r] = EntryOf(r, Size(r), Summary(r))
    <3>1. Summary(r) \in SummaryTypes /\ Summary(r).id = r /\ Size(r) \in Nat
      BY <2>2, SummaryType, SizeIsNat DEF Inv, Summary
    <3> QED
      BY <2>2, <3>1 DEF EntryOf, Entries
  <2> QED
    BY <2>1, <2>2 DEF Start
<1>4. cache' \in [Requests -> Entries \cup {NoEntry}] /\ OwnEntries'
  BY <1>3 DEF Start, OwnEntries
<1>5. TypeOK'
  BY <1>1, <1>2, <1>4 DEF TypeInv, TypeOK, Inv, Shapes
<1>6. NobodyRuns'
  BY <1>1 DEF TypeInv, NobodyRuns
<1>7. Retained'
  BY <1>1, <1>2 DEF Retained
<1> QED
  BY <1>1, <1>4, <1>5, <1>6, <1>7 DEF TypeInv

\* One log less, or one known to be kept.
LEMMA RetainTypes == ASSUME Inv, Inv', TypeInv, RetainNext PROVE TypeInv'
<1>1. /\ UNCHANGED <<now, phase, task, starts, session, sessions, faults>> /\ phase = "retaining"
  BY DEF RetainNext, handlers
<1>2. PICK r \in candidates :
        /\ candidates' = candidates \ {r}
        /\ IF Old(r) \/ OverQuota(total)
             THEN /\ file' = [file EXCEPT ![r] = Missing]
                  /\ total' = total - Size(r)
                  /\ Drop(r)
             ELSE UNCHANGED <<file, total, cache>>
  BY DEF RetainNext
<1>3. /\ candidates \subseteq CompleteLogs /\ total = Lines(CompleteLogs)
      /\ \A q \in CompleteLogs \ candidates : ~Old(q) /\ ~OverQuota(total)
      /\ CompleteLogs \subseteq Requests /\ r \in Requests
      /\ file \in [Requests -> Files \cup {Missing}]
  BY <1>1, CompleteLogsAreFiles DEF TypeInv, TypeOK, Retained
<1>4. /\ Lines(CompleteLogs) \in Nat
      /\ Lines(CompleteLogs) = Lines(CompleteLogs \ {r}) + Size(r) /\ Size(r) \in Nat
  BY <1>2, <1>3, CompleteLogsAreFiles, LinesAddUp
<1>5. Lines(CompleteLogs \ {r}) \in Nat
  BY <1>3, CompleteLogsAreFiles, LinesAddUp
<1>6. candidates' \subseteq CompleteLogs' /\ total' \in Nat /\ total' = Lines(CompleteLogs)'
      /\ \A q \in CompleteLogs' \ candidates' : ~Old(q)' /\ ~OverQuota(total)'
  <2>1. CASE Old(r) \/ OverQuota(total)
    <3>1. CompleteLogs' = CompleteLogs \ {r}
      BY <1>2, <1>3, <2>1 DEF CompleteLogs, Complete, Exists
    <3>2. \A q \in CompleteLogs \ {r} : file'[q] = file[q]
      BY <1>2, <1>3, <2>1
    <3>3. {{q} \X DOMAIN file'[q].events : q \in CompleteLogs \ {r}} =
            {{q} \X DOMAIN file[q].events : q \in CompleteLogs \ {r}}
      BY <3>2
    <3>4. Lines(CompleteLogs)' = Lines(CompleteLogs \ {r})
      BY <3>1, <3>3 DEF Lines
    <3>5. total' = total - Size(r) /\ total' \in Nat /\ total' <= total /\ total \in Nat
      BY <1>2, <1>3, <1>4, <1>5, <2>1
    <3>6. total' = Lines(CompleteLogs)'
      BY <1>3, <1>4, <1>5, <3>4, <3>5
    <3>7. ASSUME NEW q \in CompleteLogs' \ candidates' PROVE ~Old(q)' /\ ~OverQuota(total)'
      <4>1. ~Old(q) /\ ~OverQuota(total) /\ file'[q] = file[q]
        BY <1>2, <1>3, <3>1, <3>2
      <4>2. ~Old(q)'
        BY <1>1, <4>1 DEF Old
      <4>3. ~OverQuota(total)'
        BY <3>5, <4>1, BoundsAssumption DEF OverQuota
      <4> QED
        BY <4>2, <4>3
    <3> QED
      BY <1>2, <1>3, <3>1, <3>5, <3>6, <3>7
  <2>2. CASE ~Old(r) /\ ~OverQuota(total)
    <3>1. file' = file /\ total' = total
      BY <1>2, <2>2
    <3>2. CompleteLogs' = CompleteLogs /\ Lines(CompleteLogs)' = Lines(CompleteLogs)
      BY <3>1 DEF CompleteLogs, Complete, Exists, Lines
    <3> QED
      BY <1>1, <1>2, <1>3, <1>4, <2>2, <3>1, <3>2 DEF Old, OverQuota
  <2> QED
    BY <2>1, <2>2
<1>7. cache' \in [Requests -> Entries \cup {NoEntry}] /\ OwnEntries'
  BY <1>2, Dropping
<1>8. TypeOK'
  BY <1>1, <1>2, <1>6, <1>7 DEF TypeInv, TypeOK, Inv, Shapes
<1>9. NobodyRuns' /\ Retained' /\ \A t \in Tasks : InHand(task'[t])
  BY <1>1, <1>6 DEF TypeInv, NobodyRuns, Retained
<1> QED
  BY <1>7, <1>8, <1>9 DEF TypeInv

LEMMA QuietTypes ==
  ASSUME Inv, Inv', TypeInv, Serve \/ Stop \/ UNCHANGED vars PROVE TypeInv'
<1> USE DEF handlers, retention, vars
<1>1. UNCHANGED <<now, candidates, total, file, cache, task, session, starts, faults>>
      /\ (phase' = phase \/ phase' \in {"serving", "closed"})
  BY DEF Serve, Stop
<1>2. TypeOK'
  BY <1>1 DEF TypeInv, TypeOK, Inv, Shapes
<1>3. NobodyRuns' /\ OwnEntries' /\ \A t \in Tasks : InHand(task'[t])
  BY <1>1 DEF TypeInv, NobodyRuns, OwnEntries
<1>4. Retained'
  <2>1. CompleteLogs' = CompleteLogs /\ Lines(CompleteLogs)' = Lines(CompleteLogs)
    BY <1>1 DEF CompleteLogs, Complete, Exists, Lines
  <2> QED
    BY <1>1, <2>1 DEF TypeInv, Retained, Old, OverQuota
<1> QED
  BY <1>2, <1>3, <1>4 DEF TypeInv

LEMMA DieTypes == ASSUME Inv, Inv', TypeInv, Die PROVE TypeInv'
<1>1. /\ phase' = "down" /\ candidates' = {} /\ total' = 0
      /\ session' = [r \in Requests |-> IF session[r] = "new" THEN "new" ELSE "done"]
      /\ cache' = [r \in Requests |-> NoEntry] /\ task' = [t \in Tasks |-> NoTask]
      /\ UNCHANGED <<now, starts, faults>>
  BY DEF Die
<1>2. TypeOK'
  BY <1>1 DEF TypeInv, TypeOK, Inv, Shapes
<1> QED
  BY <1>1, <1>2 DEF TypeInv, NobodyRuns, Retained, OwnEntries, InHand

LEMMA StepTypes == Inv /\ Inv' /\ TypeInv /\ [Next]_vars => TypeInv'
BY HandlerTypes, ListingTypes, RemovalTypes, StartTypes, RetainTypes, QuietTypes, DieTypes
   DEF Next, TaskNext

LEMMA Types == Spec => []TypeInv
BY InitTypes, StepTypes, Invariant, PTL DEF Spec

\* Every variable of the request log has its type: in particular the quota is never charged
\* with fewer than no lines, and every cursor names a log.
THEOREM LogTypeCorrect == Spec => []TypeOK
<1>1. TypeInv => TypeOK
  BY DEF TypeInv
<1> QED
  BY <1>1, Types, PTL

(***************************************************************************)
(* Retention.                                                              *)
(***************************************************************************)

\* While the gateway retains, nothing else touches a log.
LEMMA OnlyRetention ==
  ASSUME Inv, TypeInv, Next, phase = "retaining" PROVE RetainNext \/ Serve \/ Die
<1>1. \A r \in Requests : session[r] \in {"new", "done"}
  BY DEF TypeInv, NobodyRuns
<1>2. \A t \in Tasks : task[t] = NoTask
  BY DEF TypeInv, NobodyRuns
<1>3. ASSUME NEW r \in Requests PROVE ~HandlerNext(r)
  BY <1>1 DEF HandlerNext, OwnStep, CreateLog, Register, AppendRequest, RefuseRequest, AppendNote,
              EndExchange, AppendResult, CloseSession
<1>4. ASSUME NEW t \in Tasks PROVE ~TaskNext(t)
  BY <1>2 DEF TaskNext, BeginListing, StatPath, LookUpOrRead, Store, AnswerPage, RefuseCursor,
              AnswerReport, BeginRemoval, CheckActive, RemoveFile, RemoveFails, Forget,
              AnswerRemoval, Scanning, Removing
<1> QED
  BY <1>3, <1>4 DEF Next, Start, Stop

\* A torn line is no removal.
LEMMA DieKeepsFiles == ASSUME Inv, Die, NEW r \in Requests, Exists(r) PROVE file'[r] # Missing
<1>1. file[r] \in Files /\ now \in 1..MaxTime
  BY DEF Inv, Shapes, Exists
<1>2. PICK day \in 1..MaxTime : day = now
  BY <1>1
<1>3. [file[r] EXCEPT !.events = Append(@, "torn")] \in Files
  BY <1>1, <1>2, AppendGrows DEF Events, Files
<1> QED
  BY <1>1, <1>3, MissingAssumption DEF Die

\* Retention removes a complete log that is old or the oldest of too many, never the log of
\* an interrupted request; when serving begins no complete log is old and the quota holds.
THEOREM RetentionIsRight == Spec => RetentionHolds
<1> DEFINE Step ==
      phase = "retaining" =>
       /\ \A r \in Requests :
            Exists(r) /\ file'[r] = Missing =>
              /\ Complete(r)
              /\ \/ RetentionDays > 0 /\ file[r].day <= now - RetentionDays
                 \/ /\ Quota > 0 /\ Lines(CompleteLogs) > Quota
                    /\ \A s \in CompleteLogs : file[r].day <= file[s].day
       /\ phase' = "serving" =>
            /\ Quota > 0 => Lines(CompleteLogs) <= Quota
            /\ RetentionDays > 0 => \A r \in CompleteLogs : file[r].day > now - RetentionDays
<1>1. ASSUME Inv, TypeInv, Next, phase = "retaining" PROVE Step
  <2>1. /\ candidates \subseteq CompleteLogs /\ total = Lines(CompleteLogs) /\ total \in Nat
        /\ \A q \in CompleteLogs \ candidates : ~Old(q) /\ ~OverQuota(total)
        /\ CompleteLogs \subseteq Requests
        /\ file \in [Requests -> Files \cup {Missing}]
    BY <1>1, CompleteLogsAreFiles DEF TypeInv, TypeOK, Retained
  <2>2. now \in Nat /\ \A q \in CompleteLogs : file[q].day \in Nat
    <3>1. now \in 1..MaxTime /\ \A q \in CompleteLogs : file[q].day \in 1..MaxTime
      BY <1>1, CompleteLogsAreFiles DEF TypeInv, TypeOK, Files
    <3> QED
      BY <3>1
  <2>3. RetentionDays \in Nat /\ Quota \in Nat
    BY BoundsAssumption
  <2>4. CASE RetainNext
    <3>1. PICK r \in candidates :
            /\ \A s \in candidates : file[r].day <= file[s].day
            /\ IF Old(r) \/ OverQuota(total)
                 THEN file' = [file EXCEPT ![r] = Missing]
                 ELSE UNCHANGED file
      BY <2>4 DEF RetainNext
    <3>2. phase' # "serving"
      BY <2>4 DEF RetainNext
    <3>3. ASSUME NEW q \in Requests, Exists(q), file'[q] = Missing
          PROVE  /\ Complete(q)
                 /\ \/ RetentionDays > 0 /\ file[q].day <= now - RetentionDays
                    \/ /\ Quota > 0 /\ Lines(CompleteLogs) > Quota
                       /\ \A s \in CompleteLogs : file[q].day <= file[s].day
      <4>1. q = r /\ (Old(r) \/ OverQuota(total))
        BY <2>1, <3>1, <3>3 DEF Exists
      <4>2. Complete(q) /\ q \in CompleteLogs
        BY <2>1, <4>1 DEF CompleteLogs
      <4>3. CASE Old(r)
        BY <2>2, <2>3, <4>1, <4>2, <4>3 DEF Old
      <4>4. CASE OverQuota(total)
        <5>1. \A s \in CompleteLogs : s \in candidates
          BY <2>1, <4>4
        <5> QED
          BY <2>1, <3>1, <4>1, <4>2, <4>4, <5>1 DEF OverQuota
      <4> QED
        BY <4>1, <4>3, <4>4
    <3> QED
      BY <3>2, <3>3
  <2>5. CASE Serve
    <3>1. candidates = {} /\ file' = file
      BY <2>5 DEF Serve
    <3>2. \A q \in CompleteLogs : ~Old(q) /\ ~OverQuota(total)
      BY <2>1, <3>1
    <3>3. Quota > 0 => Lines(CompleteLogs) <= Quota
      <4>1. CASE CompleteLogs = {}
        <5>1. {{r} \X DOMAIN file[r].events : r \in CompleteLogs} = {}
          BY <4>1
        <5>2. UNION {{r} \X DOMAIN file[r].events : r \in CompleteLogs} = {}
          BY <5>1
        <5>3. Lines(CompleteLogs) = 0
          BY <5>2, FS_EmptySet DEF Lines
        <5> QED
          BY <2>3, <5>3
      <4>2. CASE CompleteLogs # {}
        BY <2>1, <2>3, <3>2, <4>2 DEF OverQuota
      <4> QED
        BY <4>1, <4>2
    <3>4. RetentionDays > 0 => \A q \in CompleteLogs : file[q].day > now - RetentionDays
      BY <2>2, <2>3, <3>2 DEF Old
    <3> QED
      BY <3>1, <3>3, <3>4 DEF Exists
  <2>6. CASE Die
    BY <1>1, <2>6, DieKeepsFiles DEF Die
  <2> QED
    BY <1>1, <2>4, <2>5, <2>6, OnlyRetention
<1>2. Inv /\ TypeInv /\ [Next]_vars => [Step]_vars
  BY <1>1
<1> QED
  BY <1>2, Invariant, Types, PTL DEF Spec, RetentionHolds

(***************************************************************************)
(* Pages.  Logs are ordered by their start, which changes while a session  *)
(* is early.  Nobody has a summary of such a log; of any other, everybody  *)
(* who has one has the same start, even after the log is removed.          *)
(***************************************************************************)

Early == {"new", "created", "open"}

OnDisk(r, d) == Exists(r) /\ session[r] \notin Early /\ file[r].started = d

InCache(r, d) == cache[r] # NoEntry /\ cache[r].summary.started = d

Holding(x, r, d) ==
  /\ x # NoTask
  /\ x.kind = "list"
  /\ \/ x.at = "store" /\ x.item.id = r /\ x.item.started = d
     \/ \E a \in x.items : a.id = r /\ a.started = d

Known(r, d) == OnDisk(r, d) \/ InCache(r, d) \/ \E t \in Tasks : Holding(task[t], r, d)

SameStart ==
  \A r \in Requests : \A d :
    Known(r, d) => session[r] \notin Early /\ \A e : Known(r, e) => d = e

\* A log is empty while its session is early; a result is the last that is written.
LogLives ==
  \A r \in Requests :
    Exists(r) => /\ session[r] \in Early => file[r].events = <<>>
                 /\ Holds(file[r], "result") => session[r] \in {"finished", "done"}

\* Where a log r that started at d comes in the order of a listing, compared with c.
AtOrBefore(d, r, e, c) == d > e \/ (d = e /\ r >= c)

\* Between two pages a client has seen what it expected up to the cursor, and nothing after it;
\* what it expects and has not seen yet is in the listing at work or still before it.
Walk(x) ==
  x # NoTask /\ x.kind = "list" =>
    /\ \A r \in Requests :
         /\ x.shown[r] \in {0, 1}
         /\ r = x.cursor \/ x.shown[r] > 0 \/ r \in x.expected => session[r] \notin Early
         /\ x.shown[r] > 0 => x.at = "answered" \/ x.cursor # NoPath
    /\ x.at # "answered" /\ x.cursor # NoPath =>
         \A r \in Requests : \A d, e :
           Known(x.cursor, e) /\ Known(r, d) =>
             /\ x.shown[r] > 0 => AtOrBefore(d, r, e, x.cursor)
             /\ r \in x.expected /\ Exists(r) /\ AtOrBefore(d, r, e, x.cursor) => x.shown[r] = 1
    /\ \A r \in x.expected :
         Exists(r) =>
           /\ Complete(r)
           /\ x.at # "answered" => r \in x.todo \/ \E a \in x.items : a.id = r
           /\ x.at = "answered" => x.shown[r] = 1

PageInv == SameStart /\ LogLives /\ \A t \in Tasks : Walk(task[t])

(***************************************************************************)
(* What a step may do to all of this.                                      *)
(***************************************************************************)

\* Only a log that stops being early becomes known, with the start it has on disk; no session
\* becomes early again; a complete log stays complete while it is there.
Learns ==
  /\ \A r \in Requests : \A d :
       Known(r, d)' => \/ Known(r, d)
                       \/ session[r] \in Early /\ session'[r] \notin Early /\ OnDisk(r, d)'
  /\ \A r \in Requests :
       /\ session[r] \notin Early => session'[r] \notin Early
       /\ session[r] \notin Early /\ Exists(r)' => Exists(r)
       /\ Complete(r) /\ Exists(r)' => Complete(r)'

LEMMA KnownIsNat ==
  ASSUME TypeInv, NEW r \in Requests, NEW d, Known(r, d) PROVE d \in Nat
<1>1. CASE OnDisk(r, d)
  <2>1. d \in 1..MaxTime
    BY <1>1 DEF OnDisk, Exists, TypeInv, TypeOK, Files
  <2> QED
    BY <2>1
<1>2. CASE InCache(r, d)
  <2>1. d \in 1..MaxTime
    BY <1>2 DEF InCache, TypeInv, TypeOK, Entries, SummaryTypes
  <2> QED
    BY <2>1
<1>3. ASSUME NEW t \in Tasks, Holding(task[t], r, d) PROVE d \in Nat
  <2>1. /\ task[t] \in Listing /\ task[t].items \subseteq SummaryTypes
        /\ task[t].at = "store" => task[t].item \in SummaryTypes
    BY <1>3, ListingFields DEF Holding, Listing
  <2>2. d \in 1..MaxTime
    BY <1>3, <2>1 DEF Holding, SummaryTypes
  <2> QED
    BY <2>2
<1> QED
  BY <1>1, <1>2, <1>3 DEF Known

LEMMA StartsStaySame == ASSUME SameStart, Learns PROVE SameStart'
<1> SUFFICES ASSUME NEW r \in Requests, NEW d, Known(r, d)'
             PROVE  session'[r] \notin Early /\ \A e : Known(r, e)' => d = e
  BY DEF SameStart
<1>1. CASE session[r] \in Early
  <2>1. \A e : ~Known(r, e)
    BY <1>1 DEF SameStart
  <2>2. \A e : Known(r, e)' => session'[r] \notin Early /\ file'[r].started = e
    BY <2>1 DEF Learns, OnDisk
  <2> QED
    BY <2>2
<1>2. CASE session[r] \notin Early
  BY <1>2 DEF SameStart, Learns
<1> QED
  BY <1>1, <1>2

LEMMA WalkGoesOn == ASSUME NEW x, Walk(x), Learns, x.cursor \in Requests \cup {NoPath},
                           x.expected \subseteq Requests
                    PROVE  Walk(x)'
<1> SUFFICES ASSUME x # NoTask, x.kind = "list" PROVE Walk(x)'
  BY DEF Walk
<1>1. \A r \in Requests :
        /\ x.shown[r] \in {0, 1}
        /\ r = x.cursor \/ x.shown[r] > 0 \/ r \in x.expected =>
             session[r] \notin Early /\ session'[r] \notin Early
        /\ x.shown[r] > 0 => x.at = "answered" \/ x.cursor # NoPath
  BY DEF Walk, Learns
<1>2. ASSUME x.at # "answered", x.cursor # NoPath, NEW r \in Requests, NEW d, NEW e,
             Known(x.cursor, e)', Known(r, d)'
      PROVE  /\ x.shown[r] > 0 => AtOrBefore(d, r, e, x.cursor)
             /\ r \in x.expected /\ Exists(r)' /\ AtOrBefore(d, r, e, x.cursor) => x.shown[r] = 1
  <2>1. Known(x.cursor, e)
    BY <1>1, <1>2 DEF Learns
  <2>2. x.shown[r] > 0 \/ r \in x.expected => Known(r, d)
    BY <1>1, <1>2 DEF Learns
  <2>3. r \in x.expected /\ Exists(r)' => Exists(r)
    BY <1>1 DEF Learns
  <2> QED
    BY <1>2, <2>1, <2>2, <2>3 DEF Walk
<1>3. ASSUME NEW r \in x.expected, Exists(r)'
      PROVE  /\ Complete(r)'
             /\ x.at # "answered" => r \in x.todo \/ \E a \in x.items : a.id = r
             /\ x.at = "answered" => x.shown[r] = 1
  <2>1. Exists(r)
    BY <1>1, <1>3 DEF Learns
  <2> QED
    BY <1>3, <2>1 DEF Walk, Learns
<1> QED
  BY <1>1, <1>2, <1>3 DEF Walk, AtOrBefore

\* What a task has that does not move.
LEMMA WalkKept ==
  ASSUME NEW t \in Tasks, TypeInv, Walk(task[t]), Learns, task'[t] = task[t]
  PROVE  Walk(task[t])'
<1>1. PICK x : x = task[t]
  OBVIOUS
<1>2. CASE x # NoTask /\ x.kind = "list"
  <2>1. x.cursor \in Requests \cup {NoPath} /\ x.expected \subseteq Requests
    BY <1>1, <1>2, ListingFields DEF Listing
  <2>2. Walk(x)'
    BY <1>1, <2>1, WalkGoesOn
  <2> QED
    BY <1>1, <2>2 DEF Walk
<1>3. CASE ~(x # NoTask /\ x.kind = "list")
  BY <1>1, <1>3 DEF Walk
<1> QED
  BY <1>2, <1>3

LEMMA OthersGoOn ==
  ASSUME TypeInv, PageInv, Learns, LogLives', \A t \in Tasks : task'[t] = task[t] \/ Walk(task[t])'
  PROVE  PageInv'
BY StartsStaySame, WalkKept DEF PageInv

LEMMA InitPages == Init => PageInv
<1> SUFFICES ASSUME Init PROVE PageInv
  OBVIOUS
<1>1. PICK old \in LeftBehind :
        /\ file = old
        /\ session = [r \in Requests |-> IF old[r] = Missing THEN "new" ELSE "done"]
  BY DEF Init
<1>2. \A r \in Requests : Exists(r) => session[r] = "done"
  BY <1>1, LeftBehindAssumption DEF Exists
<1>3. SameStart
  BY <1>2 DEF Init, SameStart, Known, OnDisk, InCache, Holding, Early
<1>4. LogLives
  BY <1>2 DEF LogLives, Early
<1>5. \A t \in Tasks : Walk(task[t])
  BY DEF Init, Walk
<1> QED
  BY <1>3, <1>4, <1>5 DEF PageInv

(***************************************************************************)
(* Handlers.                                                               *)
(***************************************************************************)

\* What is appended is the last event, and changes no start.
LEMMA AppendedLog ==
  ASSUME NEW f \in Files, NEW event \in Events, NEW day \in 1..MaxTime
  PROVE  /\ [f EXCEPT !.events = Append(@, event)].started = f.started
         /\ Holds([f EXCEPT !.events = Append(@, event)], "result") =>
              Holds(f, "result") \/ event = "result"
         /\ Holds([f EXCEPT !.events = Append(@, event), !.started = day], "result") =>
              Holds(f, "result") \/ event = "result"
<1>1. f.events \in Seq(Events)
  BY DEF Files
<1>2. PICK new : new = Append(f.events, event)
  OBVIOUS
<1>3. /\ [f EXCEPT !.events = new].events = new /\ [f EXCEPT !.events = new].started = f.started
      /\ [f EXCEPT !.events = new, !.started = day].events = new
  BY DEF Files
<1>4. ASSUME NEW i \in DOMAIN new, new[i] = "result", event # "result"
      PROVE  \E j \in DOMAIN f.events : f.events[j] = "result"
  <2>1. i \in 1..(Len(f.events) + 1) /\ Len(f.events) \in Nat
    BY <1>1, <1>2, <1>4
  <2>2. i # Len(f.events) + 1
    BY <1>1, <1>2, <1>4
  <2>3. i \in 1..Len(f.events) /\ f.events[i] = new[i]
    BY <1>1, <1>2, <2>1, <2>2
  <2>4. i \in DOMAIN f.events
    BY <1>1, <2>3
  <2> QED
    BY <1>4, <2>3, <2>4
<1> QED
  BY <1>2, <1>3, <1>4 DEF Holds

LEMMA WrittenLog ==
  ASSUME Inv, NEW r \in Requests, NEW event \in Events, file' = Written(r, event), Exists(r)'
  PROVE  /\ Exists(r)
         /\ file'[r].started = file[r].started
         /\ Holds(file'[r], "result") => Holds(file[r], "result") \/ event = "result"
<1>1. Exists(r)
  BY DEF Written, Exists
<1>2. file[r] \in Files /\ now \in 1..MaxTime
  BY <1>1 DEF Inv, Shapes, Exists
<1>3. PICK day \in 1..MaxTime : day = now
  BY <1>2
<1>4. file'[r] = [file[r] EXCEPT !.events = Append(@, event)]
  BY <1>1, <1>2 DEF Written, Inv, Shapes, Files
<1>5. PICK f \in Files : f = file[r]
  BY <1>2
<1>6. /\ [f EXCEPT !.events = Append(@, event)].started = f.started
      /\ Holds([f EXCEPT !.events = Append(@, event)], "result") =>
           Holds(f, "result") \/ event = "result"
  BY <1>3, AppendedLog
<1> QED
  BY <1>1, <1>4, <1>5, <1>6

\* The log of r after a step of its handler.
LEMMA HandlersLog ==
  ASSUME Inv, LogLives, NEW r \in Requests, HandlerNext(r)
  PROVE  /\ session[r] \notin Early => session'[r] \notin Early
         /\ Complete(r) => session[r] # "done" /\ file' = file
         /\ Exists(r)' =>
              /\ session[r] \notin Early => Exists(r) /\ file'[r].started = file[r].started
              /\ session'[r] \in Early => file'[r].events = <<>>
              /\ Holds(file'[r], "result") => session'[r] \in {"finished", "done"}
<1> USE DEF Early, GoTo
<1>0. /\ session \in [Requests -> Phases] /\ file \in [Requests -> Files \cup {Missing}]
      /\ now \in 1..MaxTime
      /\ Complete(r) => session[r] \in {"finished", "done"}
      /\ Exists(r) /\ session[r] \in Early => file[r].events = <<>>
      /\ Exists(r) /\ Holds(file[r], "result") => session[r] \in {"finished", "done"}
  BY DEF Inv, Shapes, LogLives, Complete
<1>1. CASE CreateLog(r)
  <2>1. file'[r] = [day |-> now, started |-> now, events |-> <<>>] /\ session'[r] = "created"
    BY <1>0, <1>1 DEF CreateLog
  <2>2. file'[r].events = <<>> /\ ~Holds(file'[r], "result")
    BY <2>1 DEF Holds
  <2> QED
    BY <1>0, <1>1, <2>1, <2>2 DEF CreateLog
<1>2. CASE Register(r) \/ CloseSession(r)
  <2>1. /\ file' = file
        /\ \/ session[r] = "created" /\ session'[r] = "open"
           \/ session[r] = "finished" /\ session'[r] = "done"
    BY <1>0, <1>2 DEF Register, CloseSession
  <2> QED
    BY <1>0, <2>1 DEF Exists
<1>3. CASE AppendRequest(r)
  <2>1. session[r] = "open" /\ session'[r] = "running"
    BY <1>0, <1>3 DEF AppendRequest
  <2>2. ASSUME Exists(r)' PROVE ~Holds(file'[r], "result")
    <3>1. Exists(r)
      BY <1>3, <2>2 DEF AppendRequest, Exists
    <3>2. file[r] \in Files /\ file[r].events = <<>>
      BY <1>0, <2>1, <3>1 DEF Exists
    <3>3. PICK day \in 1..MaxTime : day = now
      BY <1>0
    <3>4. file'[r] = [file[r] EXCEPT !.events = Append(@, "request"), !.started = day]
      BY <1>0, <1>3, <3>1, <3>2, <3>3 DEF AppendRequest, Files
    <3>5. ~Holds(file[r], "result")
      BY <3>2 DEF Holds
    <3>6. PICK f \in Files : f = file[r]
      BY <3>2
    <3>7. Holds([f EXCEPT !.events = Append(@, "request"), !.started = day], "result") =>
            Holds(f, "result")
      BY AppendedLog DEF Events
    <3> QED
      BY <3>4, <3>5, <3>6, <3>7
  <2> QED
    BY <1>0, <2>1, <2>2
<1>4. CASE RefuseRequest(r)
  <2>1. session[r] = "open" /\ session'[r] = "finished"
    BY <1>0, <1>4 DEF RefuseRequest
  <2> QED
    BY <1>0, <2>1
<1>5. CASE AppendNote(r)
  <2>1. session[r] = "running" /\ session'[r] \in {"running", "over"}
    BY <1>0, <1>5 DEF AppendNote
  <2>2. PICK event \in {"note", "torn"} : file' = Written(r, event)
    BY <1>5 DEF AppendNote
  <2>3. event \in Events
    BY DEF Events
  <2> QED
    BY <1>0, <2>1, <2>2, <2>3, WrittenLog
<1>6. CASE AppendResult(r)
  <2>1. session[r] = "over" /\ session'[r] = "finished"
    BY <1>0, <1>6 DEF AppendResult
  <2>2. file' = file \/ file' = Written(r, "result") \/ file' = Written(r, "torn")
    BY <1>6 DEF AppendResult
  <2>3. Exists(r)' => Exists(r) /\ file'[r].started = file[r].started
    BY <2>2, WrittenLog DEF Exists, Events
  <2> QED
    BY <1>0, <2>1, <2>3
<1>7. CASE EndExchange(r)
  <2>1. session[r] = "running" /\ session'[r] = "over" /\ file' = file
    BY <1>0, <1>7 DEF EndExchange
  <2> QED
    BY <1>0, <2>1 DEF Exists
<1> QED
  BY <1>1, <1>2, <1>3, <1>4, <1>5, <1>6, <1>7 DEF HandlerNext, OwnStep

LEMMA HandlerPages ==
  ASSUME NEW r \in Requests, Inv, Inv', TypeInv, PageInv, HandlerNext(r) PROVE PageInv'
<1>1. UNCHANGED <<cache, task>>
  BY DEF HandlerNext, OwnStep, CreateLog, Register, AppendRequest, RefuseRequest, AppendNote,
         EndExchange, AppendResult, CloseSession
<1>2. ASSUME NEW q \in Requests, q # r PROVE file'[q] = file[q] /\ session'[q] = session[q]
  BY <1>2 DEF HandlerNext, OwnStep, CreateLog, Register, AppendRequest, RefuseRequest, AppendNote,
              EndExchange, AppendResult, CloseSession, GoTo, Written, Inv, Shapes
<1>3. /\ session[r] \notin Early => session'[r] \notin Early
      /\ Complete(r) => session[r] # "done" /\ file' = file
      /\ Exists(r)' =>
           /\ session[r] \notin Early => Exists(r) /\ file'[r].started = file[r].started
           /\ session'[r] \in Early => file'[r].events = <<>>
           /\ Holds(file'[r], "result") => session'[r] \in {"finished", "done"}
  BY HandlersLog DEF PageInv
<1>4. ASSUME NEW q \in Requests, NEW d, Known(q, d)'
      PROVE  Known(q, d) \/ (session[q] \in Early /\ session'[q] \notin Early /\ OnDisk(q, d)')
  <2>1. CASE OnDisk(q, d)'
    <3>1. CASE q = r /\ session[r] \in Early
      BY <2>1, <3>1 DEF OnDisk
    <3>2. CASE q # r \/ session[r] \notin Early
      <4>1. OnDisk(q, d)
        BY <1>2, <1>3, <2>1, <3>2 DEF OnDisk, Exists
      <4> QED
        BY <4>1 DEF Known
    <3> QED
      BY <3>1, <3>2
  <2>2. CASE ~OnDisk(q, d)'
    BY <1>1, <1>4, <2>2 DEF Known, InCache, Holding
  <2> QED
    BY <2>1, <2>2
<1>5. ASSUME NEW q \in Requests
      PROVE  /\ session[q] \notin Early => session'[q] \notin Early
             /\ session[q] \notin Early /\ Exists(q)' => Exists(q)
             /\ Complete(q) /\ Exists(q)' => Complete(q)'
  <2>1. CASE q # r
    BY <1>2, <2>1 DEF Exists, Complete
  <2>2. CASE q = r
    BY <1>3, <2>2 DEF Exists, Complete
  <2> QED
    BY <2>1, <2>2
<1>6. Learns
  BY <1>4, <1>5 DEF Learns
<1>7. LogLives'
  <2> SUFFICES ASSUME NEW q \in Requests, Exists(q)'
               PROVE  /\ session'[q] \in Early => file'[q].events = <<>>
                      /\ Holds(file'[q], "result") => session'[q] \in {"finished", "done"}
    BY DEF LogLives
  <2>1. CASE q = r
    BY <1>3, <2>1
  <2>2. CASE q # r
    BY <1>2, <2>2 DEF PageInv, LogLives, Exists
  <2> QED
    BY <2>1, <2>2
<1> QED
  BY <1>1, <1>6, <1>7, OthersGoOn

(***************************************************************************)
(* Steps that let logs, entries and tasks go.                              *)
(***************************************************************************)

LEMMA LettingGo ==
  ASSUME TypeInv, PageInv, session' = session,
         \A r \in Requests : file'[r] \in {file[r], Missing} /\ cache'[r] \in {cache[r], NoEntry},
         \A t \in Tasks : \/ task'[t] = task[t] \/ task'[t] = NoTask
                          \/ task'[t].kind \in {"delete", "clear"}
  PROVE  PageInv'
<1>1. ASSUME NEW r \in Requests, NEW d, Known(r, d)' PROVE Known(r, d)
  <2>1. OnDisk(r, d)' => OnDisk(r, d)
    BY DEF OnDisk, Exists
  <2>2. InCache(r, d)' => InCache(r, d)
    BY DEF InCache
  <2>3. \A t \in Tasks : Holding(task'[t], r, d) => Holding(task[t], r, d)
    BY DEF Holding
  <2> QED
    BY <1>1, <2>1, <2>2, <2>3 DEF Known, Holding
<1>2. Learns
  BY <1>1 DEF Learns, Exists, Complete
<1>3. LogLives'
  BY DEF PageInv, LogLives, Exists, Holds
<1>4. \A t \in Tasks : task'[t] = task[t] \/ Walk(task[t])'
  BY DEF Walk
<1> QED
  BY <1>2, <1>3, <1>4, OthersGoOn

LEMMA RemovalPages ==
  ASSUME NEW t \in Tasks, TypeInv, PageInv,
         \/ BeginRemoval(t) \/ CheckActive(t) \/ RemoveFile(t) \/ RemoveFails(t) \/ Forget(t)
         \/ AnswerRemoval(t)
  PROVE  PageInv'
<1> USE DEF handlers
<1>1. session' = session
  BY DEF BeginRemoval, CheckActive, RemoveFile, RemoveFails, Forget, AnswerRemoval
<1>2. \A r \in Requests : file'[r] \in {file[r], Missing} /\ cache'[r] \in {cache[r], NoEntry}
  BY DEF BeginRemoval, CheckActive, RemoveFile, RemoveFails, Forget, AnswerRemoval, Drop,
         TypeInv, TypeOK
<1>3. PICK state : Put(t, state) /\ (state = NoTask \/ state.kind \in {"delete", "clear"})
  <2>1. CASE BeginRemoval(t)
    <3>1. PICK kind \in {"delete", "clear"} : \E files :
            Put(t, [kind |-> kind, at |-> "check", todo |-> files, busy |-> sessions])
      BY <2>1 DEF BeginRemoval
    <3> QED
      BY <3>1
  <2>2. CASE Leave(t)
    BY <2>2 DEF Leave
  <2>3. ASSUME task[t] # NoTask, task[t].kind \in {"delete", "clear"}, NEW step, NEW todo
        PROVE  /\ [task[t] EXCEPT !.at = step].kind \in {"delete", "clear"}
               /\ [task[t] EXCEPT !.at = step, !.todo = todo].kind \in {"delete", "clear"}
    <3>1. task[t] \in Removal
      BY <2>3 DEF TypeInv, TypeOK, Listing
    <3> QED
      BY <3>1 DEF Removal
  <2>4. CASE \E step : Removing(t, step) /\ (NextFile(t) \/ \E s : Put(t, [task[t] EXCEPT !.at = s]))
    BY <2>3, <2>4 DEF Removing, NextFile
  <2> QED
    BY <2>1, <2>2, <2>4
       DEF CheckActive, RemoveFile, RemoveFails, Forget, AnswerRemoval
<1>4. \A u \in Tasks : task'[u] = IF u = t THEN state ELSE task[u]
  BY <1>3 DEF Put, TypeInv, TypeOK
<1> QED
  BY <1>1, <1>2, <1>3, <1>4, LettingGo

LEMMA QuietPages ==
  ASSUME TypeInv, PageInv, RetainNext \/ Serve \/ Stop \/ UNCHANGED vars PROVE PageInv'
<1> USE DEF handlers, retention, vars
<1>1. UNCHANGED <<session, task>>
  BY DEF RetainNext, Serve, Stop
<1>2. \A r \in Requests : file'[r] \in {file[r], Missing} /\ cache'[r] \in {cache[r], NoEntry}
  BY DEF RetainNext, Serve, Stop, Drop, TypeInv, TypeOK
<1> QED
  BY <1>1, <1>2, LettingGo

(***************************************************************************)
(* Start and end of the process.                                           *)
(***************************************************************************)

LEMMA StartPages == ASSUME TypeInv, PageInv, Start PROVE PageInv'
<1>1. /\ UNCHANGED <<file, task, session>>
      /\ cache' = [r \in Requests |-> IF Exists(r) /\ Readable(file[r])
                                        THEN EntryOf(r, Size(r), Summary(r)) ELSE NoEntry]
  BY DEF Start, handlers
<1>2. ASSUME NEW r \in Requests, NEW d, InCache(r, d)' PROVE OnDisk(r, d)
  <2>1. Exists(r) /\ Readable(file[r]) /\ cache'[r] = EntryOf(r, Size(r), Summary(r))
    BY <1>1, <1>2 DEF InCache
  <2>2. session[r] \notin Early
    BY <2>1 DEF PageInv, LogLives, Readable
  <2> QED
    BY <1>2, <2>1, <2>2 DEF InCache, OnDisk, EntryOf, Summary
<1>3. ASSUME NEW r \in Requests, NEW d, Known(r, d)' PROVE Known(r, d)
  <2>1. OnDisk(r, d)' => OnDisk(r, d)
    BY <1>1 DEF OnDisk, Exists
  <2> QED
    BY <1>1, <1>2, <1>3, <2>1 DEF Known, Holding
<1>4. Learns
  BY <1>1, <1>3 DEF Learns, Exists, Complete
<1>5. LogLives'
  BY <1>1 DEF PageInv, LogLives, Exists
<1> QED
  BY <1>1, <1>4, <1>5, OthersGoOn

LEMMA DiePages == ASSUME Inv, Inv', TypeInv, PageInv, Die PROVE PageInv'
<1>1. /\ session' = [r \in Requests |-> IF session[r] = "new" THEN "new" ELSE "done"]
      /\ cache' = [r \in Requests |-> NoEntry]
      /\ task' = [t \in Tasks |-> NoTask]
  BY DEF Die
<1>2. PICK cut \in SUBSET {r \in sessions : Exists(r) /\ session[r] \in {"open", "running", "over"}} :
        file' = [r \in Requests |-> IF r \in cut THEN [file[r] EXCEPT !.events = Append(@, "torn")]
                                                 ELSE file[r]]
  BY DEF Die
<1>3. ASSUME NEW r \in Requests, session[r] # "new"
      PROVE  /\ Exists(r)' => Exists(r) /\ file'[r].started = file[r].started
             /\ Complete(r) => file'[r] = file[r]
  <2>1. CASE r \in cut
    <3>1. Exists(r) /\ session[r] \in {"open", "running", "over"}
      BY <2>1
    <3>2. ~Complete(r)
      BY <3>1 DEF PageInv, LogLives, Complete
    <3>3. file[r] \in Files
      BY <3>1 DEF Exists, Inv, Shapes
    <3> QED
      BY <1>2, <2>1, <3>1, <3>2, <3>3 DEF Files
  <2>2. CASE r \notin cut
    BY <1>2, <2>2 DEF Exists
  <2> QED
    BY <2>1, <2>2
<1>4. \A r \in Requests : session'[r] = "new" <=> session[r] = "new"
  BY <1>1
<1>5. \A r \in Requests : session[r] = "new" => ~Exists(r)'
  BY <1>4 DEF Inv, NewIsMissing, Exists
<1>6. ASSUME NEW r \in Requests, NEW d, Known(r, d)'
      PROVE  Known(r, d) \/ (session[r] \in Early /\ session'[r] \notin Early /\ OnDisk(r, d)')
  <2>1. OnDisk(r, d)'
    BY <1>1, <1>6 DEF Known, InCache, Holding
  <2>2. session[r] # "new" /\ session'[r] \notin Early
    BY <1>5, <2>1 DEF OnDisk
  <2>3. session[r] \notin Early => OnDisk(r, d)
    BY <1>3, <2>1, <2>2 DEF OnDisk
  <2> QED
    BY <2>1, <2>2, <2>3 DEF Known
<1>7. Learns
  <2>1. ASSUME NEW r \in Requests
        PROVE  /\ session[r] \notin Early => session'[r] \notin Early
               /\ session[r] \notin Early /\ Exists(r)' => Exists(r)
               /\ Complete(r) /\ Exists(r)' => Complete(r)'
    <3>1. session[r] \notin Early => session'[r] \notin Early
      BY <1>1 DEF Early
    <3>2. session[r] # "new" => (Exists(r)' => Exists(r)) /\ (Complete(r) => file'[r] = file[r])
      BY <1>3
    <3> QED
      BY <1>5, <3>1, <3>2 DEF Early, Complete
  <2> QED
    BY <1>6, <2>1 DEF Learns
<1>8. LogLives'
  BY <1>1, <1>4, <1>5 DEF LogLives, Early
<1>9. \A t \in Tasks : Walk(task[t])'
  BY <1>1 DEF Walk
<1> QED
  BY <1>7, <1>8, <1>9, OthersGoOn

(***************************************************************************)
(* Listings.                                                               *)
(***************************************************************************)

\* A listing learns from what is known.
LEMMA ListingLearns ==
  ASSUME NEW t \in Tasks, NEW y, TypeInv, PageInv, Put(t, y), UNCHANGED <<file, session>>,
         \A r \in Requests : \A d : InCache(r, d)' \/ Holding(y, r, d) => Known(r, d)
  PROVE  Learns /\ (Walk(y)' => PageInv')
<1>1. \A u \in Tasks : task'[u] = IF u = t THEN y ELSE task[u]
  BY DEF Put, TypeInv, TypeOK
<1>2. ASSUME NEW r \in Requests, NEW d, Known(r, d)' PROVE Known(r, d)
  <2>1. CASE OnDisk(r, d)'
    BY <2>1 DEF OnDisk, Exists, Known
  <2>2. CASE InCache(r, d)'
    BY <2>2
  <2>3. ASSUME NEW u \in Tasks, Holding(task'[u], r, d) PROVE Known(r, d)
    BY <1>1, <2>3 DEF Known
  <2> QED
    BY <1>2, <2>1, <2>2, <2>3 DEF Known, Holding
<1>3. Learns
  BY <1>2 DEF Learns, Exists, Complete
<1>4. LogLives'
  BY DEF PageInv, LogLives, Exists
<1>5. ASSUME Walk(y)' PROVE \A u \in Tasks : task'[u] = task[u] \/ Walk(task[u])'
  <2>1. ASSUME NEW u \in Tasks, u = t PROVE Walk(task[u])'
    <3>1. task'[u] = y
      BY <1>1, <2>1
    <3> QED
      BY <1>5, <3>1 DEF Walk
  <2> QED
    BY <1>1, <2>1
<1> QED
  BY <1>3, <1>4, <1>5, OthersGoOn

\* A listing on its way from one log to the next.
LEMMA WalkMoves ==
  ASSUME NEW x, NEW y, Walk(x)', x # NoTask, x.kind = "list",
         x.at # "answered", y.at # "answered",
         y.shown = x.shown, y.cursor = x.cursor, y.expected = x.expected,
         \A r \in x.expected :
           Complete(r)' /\ (r \in x.todo \/ \E a \in x.items : a.id = r) =>
             r \in y.todo \/ \E a \in y.items : a.id = r
  PROVE  Walk(y)'
BY DEF Walk

\* The same, with the step that takes it there.
LEMMA ListingMoves ==
  ASSUME NEW t \in Tasks, NEW y, TypeInv, PageInv, Put(t, y), UNCHANGED <<file, session>>,
         \A r \in Requests : \A d : InCache(r, d)' \/ Holding(y, r, d) => Known(r, d),
         task[t] # NoTask, task[t].kind = "list", task[t].at # "answered", y.at # "answered",
         y.shown = task[t].shown, y.cursor = task[t].cursor, y.expected = task[t].expected,
         \A r \in Requests :
           Complete(r) /\ (r \in task[t].todo \/ \E a \in task[t].items : a.id = r) =>
             r \in y.todo \/ \E a \in y.items : a.id = r
  PROVE  PageInv'
<1>1. PICK x : x = task[t]
  OBVIOUS
<1>2. x.cursor \in Requests \cup {NoPath} /\ x.expected \subseteq Requests
  BY <1>1, ListingFields DEF Listing
<1>3. Learns /\ (Walk(y)' => PageInv')
  BY ListingLearns
<1>4. Walk(x)
  BY <1>1 DEF PageInv
<1>5. Walk(x)'
  BY <1>2, <1>3, <1>4, WalkGoesOn
<1>6. \A r \in x.expected :
        Complete(r)' /\ (r \in x.todo \/ \E a \in x.items : a.id = r) =>
          r \in y.todo \/ \E a \in y.items : a.id = r
  BY <1>1, <1>2 DEF Complete, Exists
<1>7. Walk(y)'
  BY <1>1, <1>5, <1>6, WalkMoves
<1> QED
  BY <1>3, <1>7

\* What a listing has in hand is known.
LEMMA ListingKnows ==
  ASSUME NEW t \in Tasks, NEW r \in Requests, NEW d, Holding(task[t], r, d) PROVE Known(r, d)
BY DEF Known

LEMMA CacheKnows == UNCHANGED cache => \A r \in Requests : \A d : InCache(r, d)' => Known(r, d)
BY DEF InCache, Known

LEMMA DropKnows ==
  ASSUME NEW r, TypeInv, Drop(r) PROVE \A q \in Requests : \A d : InCache(q, d)' => Known(q, d)
BY DEF TypeInv, TypeOK, Drop, InCache, Known

LEMMA SkipPages ==
  ASSUME NEW t \in Tasks, TypeInv, PageInv, NEW step, Scanning(t, step), step # "answered", Skip(t),
         UNCHANGED <<file, session>>, ~Complete(Min(task[t].todo)),
         \A r \in Requests : \A d : InCache(r, d)' => Known(r, d)
  PROVE  PageInv'
<1>1. task[t] \in Listing /\ task[t] # NoTask /\ task[t].kind = "list" /\ task[t].at # "answered"
  BY ListingFields DEF Scanning
<1>2. PICK todo : todo = task[t].todo \ {Min(task[t].todo)}
  OBVIOUS
<1> DEFINE next == [task[t] EXCEPT !.at = "stat", !.todo = todo, !.size = 0, !.item = NoEntry]
<1>3. Put(t, next)
  BY <1>2 DEF Skip
<1>4. /\ next.items = task[t].items /\ next.at = "stat" /\ next.todo = todo /\ next.shown = task[t].shown
      /\ next.cursor = task[t].cursor /\ next.expected = task[t].expected
  BY <1>1 DEF Listing
<1> HIDE DEF next
<1>5. \A r \in Requests : \A d : Holding(next, r, d) => Known(r, d)
  BY <1>1, <1>4, ListingKnows DEF Holding
<1>6. \A r \in Requests :
        Complete(r) /\ (r \in task[t].todo \/ \E a \in task[t].items : a.id = r) =>
          r \in next.todo \/ \E a \in next.items : a.id = r
  BY <1>2, <1>4
<1> QED
  BY <1>1, <1>3, <1>4, <1>5, <1>6, ListingMoves

LEMMA ShowPages ==
  ASSUME NEW t \in Tasks, TypeInv, PageInv, NEW step, Scanning(t, step), step # "answered",
         NEW summary, Show(t, summary), summary.id = Min(task[t].todo),
         Known(summary.id, summary.started), UNCHANGED <<file, session>>,
         \A r \in Requests : \A d : InCache(r, d)' => Known(r, d)
  PROVE  PageInv'
<1>1. task[t] \in Listing /\ task[t] # NoTask /\ task[t].kind = "list" /\ task[t].at # "answered"
  BY ListingFields DEF Scanning
<1>2. PICK todo, items : /\ todo = task[t].todo \ {Min(task[t].todo)}
                         /\ items = task[t].items \cup {summary}
  OBVIOUS
<1> DEFINE next == [task[t] EXCEPT !.at = "stat", !.todo = todo, !.size = 0, !.item = NoEntry,
                                   !.items = items]
<1>3. Put(t, next)
  BY <1>2 DEF Show
<1>4. /\ next.items = items /\ next.at = "stat" /\ next.todo = todo /\ next.shown = task[t].shown
      /\ next.cursor = task[t].cursor /\ next.expected = task[t].expected
  BY <1>1 DEF Listing
<1> HIDE DEF next
<1>5. ASSUME NEW r \in Requests, NEW d, Holding(next, r, d) PROVE Known(r, d)
  <2>1. PICK a \in items : a.id = r /\ a.started = d
    BY <1>4, <1>5 DEF Holding
  <2>2. CASE a = summary
    BY <2>1, <2>2
  <2>3. CASE a \in task[t].items
    BY <1>1, <2>1, <2>3, ListingKnows DEF Holding
  <2> QED
    BY <1>2, <2>2, <2>3
<1>6. \A r \in Requests :
        Complete(r) /\ (r \in task[t].todo \/ \E a \in task[t].items : a.id = r) =>
          r \in next.todo \/ \E a \in next.items : a.id = r
  BY <1>2, <1>4
<1> QED
  BY <1>1, <1>3, <1>4, <1>5, <1>6, ListingMoves

LEMMA ScanPages ==
  ASSUME NEW t \in Tasks, Inv, TypeInv, PageInv, StatPath(t) \/ LookUpOrRead(t) \/ Store(t)
  PROVE  PageInv'
<1> USE DEF handlers
<1> DEFINE r == Min(task[t].todo)
<1>1. ASSUME StatPath(t) PROVE PageInv'
  <2>1. Scanning(t, "stat") /\ UNCHANGED <<file, session>>
    BY <1>1 DEF StatPath
  <2>2. CASE ~Exists(r) /\ Skip(t) /\ Drop(r)
    BY <2>1, <2>2, SkipPages, DropKnows DEF Complete
  <2>3. CASE Put(t, [task[t] EXCEPT !.at = "read", !.size = Size(r)]) /\ UNCHANGED cache
    <3>1. task[t] \in Listing /\ task[t] # NoTask /\ task[t].kind = "list" /\ task[t].at # "answered"
      BY <2>1, ListingFields DEF Scanning
    <3>2. PICK size : size = Size(r)
      OBVIOUS
    <3> DEFINE next == [task[t] EXCEPT !.at = "read", !.size = size]
    <3>3. /\ next.items = task[t].items /\ next.at = "read" /\ next.todo = task[t].todo
          /\ next.shown = task[t].shown
          /\ next.cursor = task[t].cursor /\ next.expected = task[t].expected
      BY <3>1 DEF Listing
    <3>4. Put(t, next)
      BY <2>3, <3>2
    <3> HIDE DEF next, r
    <3>5. \A q \in Requests : \A d : Holding(next, q, d) => Known(q, d)
      BY <3>1, <3>3, ListingKnows DEF Holding
    <3> QED
      BY <2>1, <2>3, <3>1, <3>3, <3>4, <3>5, CacheKnows, ListingMoves
  <2> QED
    BY <1>1, <2>2, <2>3 DEF StatPath
<1>2. ASSUME LookUpOrRead(t) PROVE PageInv'
  <2>1. Scanning(t, "read") /\ UNCHANGED <<file, session>>
    BY <1>2 DEF LookUpOrRead
  <2>2. r \in Requests /\ task[t] \in Listing /\ task[t] # NoTask /\ task[t].kind = "list"
        /\ task[t].at = "read"
    BY <2>1, ListingFields DEF Scanning
  <2>3. CASE cache[r] # NoEntry /\ Show(t, cache[r].summary) /\ UNCHANGED cache
    <3>1. cache[r].summary.id = r /\ InCache(r, cache[r].summary.started)
      BY <2>2, <2>3 DEF TypeInv, OwnEntries, InCache
    <3> QED
      BY <2>1, <2>3, <3>1, CacheKnows, ShowPages DEF Known
  <2>4. CASE ~(Exists(r) /\ Readable(file[r])) /\ Skip(t) /\ Drop(r)
    BY <2>1, <2>4, SkipPages, DropKnows DEF Complete
  <2>5. CASE /\ Exists(r) /\ Readable(file[r])
             /\ Put(t, [task[t] EXCEPT !.at = "store", !.item = Summary(r)])
             /\ UNCHANGED cache
    <3>1. PICK item : item = Summary(r)
      OBVIOUS
    <3>2. session[r] \notin Early
      BY <2>2, <2>5 DEF PageInv, LogLives, Readable
    <3>3. item.id = r /\ Known(r, item.started)
      BY <2>5, <3>1, <3>2 DEF Summary, Known, OnDisk
    <3> DEFINE next == [task[t] EXCEPT !.at = "store", !.item = item]
    <3>4. /\ next.items = task[t].items /\ next.at = "store" /\ next.todo = task[t].todo
          /\ next.shown = task[t].shown /\ next.item = item
          /\ next.cursor = task[t].cursor /\ next.expected = task[t].expected
      BY <2>2 DEF Listing
    <3>5. Put(t, next)
      BY <2>5, <3>1
    <3> HIDE DEF next, r
    <3>6. \A q \in Requests : \A d : Holding(next, q, d) => Known(q, d)
      BY <2>2, <3>3, <3>4, ListingKnows DEF Holding
    <3> QED
      BY <2>1, <2>2, <2>5, <3>4, <3>5, <3>6, CacheKnows, ListingMoves
  <2> QED
    BY <1>2, <2>3, <2>4, <2>5 DEF LookUpOrRead
<1>3. ASSUME Store(t) PROVE PageInv'
  <2>1. /\ Scanning(t, "store") /\ UNCHANGED <<file, session>> /\ Show(t, task[t].item)
        /\ cache' = [cache EXCEPT ![r] = EntryOf(r, task[t].size, task[t].item)]
    BY <1>3 DEF Store
  <2>2. r \in Requests /\ task[t].item.id = r
    BY <2>1, ListingFields DEF Scanning
  <2>3. Known(r, task[t].item.started)
    BY <2>1, <2>2, ListingKnows DEF Scanning, Holding
  <2>4. PICK entry : entry = EntryOf(r, task[t].size, task[t].item)
    OBVIOUS
  <2>5. entry.summary = task[t].item
    BY <2>4 DEF EntryOf
  <2>6. ASSUME NEW q \in Requests, NEW d, InCache(q, d)' PROVE Known(q, d)
    <3>1. CASE q = r
      <4>1. cache'[q] = entry
        BY <2>1, <2>4, <3>1 DEF TypeInv, TypeOK
      <4> QED
        BY <2>3, <2>5, <2>6, <3>1, <4>1 DEF InCache
    <3>2. CASE q # r
      BY <2>1, <2>6, <3>2 DEF InCache, Known, TypeInv, TypeOK
    <3> QED
      BY <3>1, <3>2
  <2> QED
    BY <2>1, <2>2, <2>3, <2>6, ShowPages
<1> QED
  BY <1>1, <1>2, <1>3

\* A client that asks for the first page expects what is complete.
LEMMA BeginPages == ASSUME NEW t \in Tasks, TypeInv, PageInv, BeginListing(t) PROVE PageInv'
<1>1. PICK files, none, expected :
        /\ files = AllFiles /\ none = [r \in Requests |-> 0]
        /\ expected = IF t \in Walkers THEN {r \in Requests : Complete(r)} ELSE {}
  OBVIOUS
<1> DEFINE y == [kind |-> "list", at |-> "stat", todo |-> files, size |-> 0, item |-> NoEntry,
                 items |-> {}, cursor |-> NoPath, shown |-> none, expected |-> expected]
<1>2. Put(t, y) /\ UNCHANGED <<file, cache, session>>
  BY <1>1 DEF BeginListing, handlers
<1>3. /\ y.at = "stat" /\ y.todo = files /\ y.items = {} /\ y.cursor = NoPath /\ y.shown = none
      /\ y.expected = expected
  OBVIOUS
<1> HIDE DEF y
<1>4. \A r \in Requests : \A d : InCache(r, d)' \/ Holding(y, r, d) => Known(r, d)
  BY <1>2, <1>3, CacheKnows DEF Holding
<1>5. Learns /\ (Walk(y)' => PageInv')
  BY <1>2, <1>4, ListingLearns
<1>6. \A r \in expected : r \in Requests /\ Complete(r) /\ Exists(r) /\ r \in files
  BY <1>1 DEF Complete, AllFiles
<1>7. \A r \in expected : session[r] \notin Early
  BY <1>6 DEF PageInv, LogLives, Complete, Early
<1>8. \A r \in expected : Complete(r)' /\ session'[r] \notin Early
  BY <1>2, <1>6, <1>7 DEF Complete, Exists
<1>9. \A r \in Requests : y.shown[r] = 0 /\ r # y.cursor
  BY <1>1, <1>3, NamesAssumption
<1>10. Walk(y)'
  BY <1>3, <1>6, <1>8, <1>9 DEF Walk
<1> QED
  BY <1>5, <1>10

\* The listing is over.
LEMMA LeavePages ==
  ASSUME NEW t \in Tasks, TypeInv, PageInv, RefuseCursor(t) \/ AnswerReport(t) PROVE PageInv'
<1>1. Put(t, NoTask) /\ UNCHANGED <<file, cache, session>>
  BY DEF RefuseCursor, AnswerReport, Leave, handlers
<1>2. \A u \in Tasks : task'[u] = task[u] \/ task'[u] = NoTask
  BY <1>1 DEF Put, TypeInv, TypeOK
<1> QED
  BY <1>1, <1>2, LettingGo

(***************************************************************************)
(* A page is answered.                                                     *)
(***************************************************************************)

\* One log of each id is shown at most once on a page.
LEMMA TimesOnPage ==
  ASSUME NEW page, \A a, b \in page : a.id = b.id => a = b, NEW r
  PROVE  /\ (\E b \in page : b.id = r) => Cardinality({b \in page : b.id = r}) = 1
         /\ (\A b \in page : b.id # r) => Cardinality({b \in page : b.id = r}) = 0
<1>1. ASSUME NEW b \in page, b.id = r PROVE Cardinality({a \in page : a.id = r}) = 1
  <2>1. {a \in page : a.id = r} = {b}
    BY <1>1
  <2> QED
    BY <2>1, FS_Singleton
<1>2. ASSUME \A b \in page : b.id # r PROVE Cardinality({b \in page : b.id = r}) = 0
  <2>1. {b \in page : b.id = r} = {}
    BY <1>2
  <2> QED
    BY <2>1, FS_EmptySet
<1> QED
  BY <1>1, <1>2

\* The order of summaries is the order of the logs they are of.
LEMMA OrderOfSummaries ==
  ASSUME NEW a \in SummaryTypes, NEW b \in SummaryTypes, a.id = b.id => a = b
  PROVE  /\ a.id \in Requests /\ a.id \in Nat /\ a.started \in Nat
         /\ AtOrBefore(a.started, a.id, b.started, b.id) <=> Precedes(a, b) \/ a = b
         /\ Precedes(a, b) \/ Precedes(b, a) \/ a = b
         /\ ~(Precedes(a, b) /\ Precedes(b, a)) /\ ~Precedes(a, a)
<1>1. ASSUME NEW x \in SummaryTypes PROVE x.id \in Nat /\ x.started \in Nat /\ x.id \in Requests
  <2>1. x.id \in Requests /\ x.started \in 1..MaxTime
    BY DEF SummaryTypes
  <2>2. x.id \in Nat
    BY <2>1, RequestsAssumption
  <2>3. x.started \in Nat
    BY <2>1
  <2> QED
    BY <2>1, <2>2, <2>3
<1> QED
  BY <1>1 DEF AtOrBefore, Precedes

\* What is after the cursor has not been shown; what is not, and is expected, has.
LEMMA ShownUpToCursor ==
  ASSUME NEW t \in Tasks, TypeInv, PageInv, Scanning(t, "stat"),
         task[t].cursor = NoPath \/ \E a \in task[t].items : a.id = task[t].cursor,
         NEW b \in task[t].items
  PROVE  /\ b.id \in Requests
         /\ Known(b.id, b.started)
         /\ b \in AfterCursor(task[t].items, task[t].cursor) => task[t].shown[b.id] = 0
         /\ b \notin AfterCursor(task[t].items, task[t].cursor) /\ b.id \in task[t].expected
              /\ Exists(b.id) => task[t].shown[b.id] = 1
<1>1. /\ task[t] # NoTask /\ task[t].kind = "list" /\ task[t].at = "stat" /\ task[t] \in Listing
      /\ \A c, d \in task[t].items : c.id = d.id => c = d
      /\ task[t].items \subseteq SummaryTypes
  BY ListingFields DEF Scanning, Listing
<1>2. PICK x : x = task[t]
  OBVIOUS
<1>3. Walk(x)
  BY <1>2 DEF PageInv
<1>4. ASSUME NEW a \in x.items PROVE a.id \in Requests /\ a \in SummaryTypes /\ Known(a.id, a.started)
  <2>1. a \in SummaryTypes /\ a.id \in Requests
    BY <1>1, <1>2, <1>4 DEF SummaryTypes
  <2> QED
    BY <1>1, <1>2, <1>4, <2>1 DEF Known, Holding
<1>5. x.shown[b.id] \in {0, 1}
  BY <1>1, <1>2, <1>3, <1>4 DEF Walk
<1>6. CASE x.cursor = NoPath
  <2>1. x.shown[b.id] = 0
    BY <1>1, <1>2, <1>3, <1>4, <1>5, <1>6 DEF Walk
  <2> QED
    BY <1>2, <1>4, <1>6, <2>1 DEF AfterCursor
<1>7. CASE x.cursor # NoPath
  <2>1. PICK a \in x.items : a.id = x.cursor
    BY <1>2, <1>7
  <2>2. /\ x.shown[b.id] > 0 => AtOrBefore(b.started, b.id, a.started, a.id)
        /\ b.id \in x.expected /\ Exists(b.id) /\ AtOrBefore(b.started, b.id, a.started, a.id) =>
             x.shown[b.id] = 1
    <3>1. Known(x.cursor, a.started) /\ Known(b.id, b.started) /\ b.id \in Requests
      BY <1>2, <1>4, <2>1
    <3> QED
      BY <1>1, <1>2, <1>3, <1>7, <2>1, <3>1 DEF Walk
  <2>3. b \in AfterCursor(x.items, x.cursor) <=> Precedes(a, b)
    BY <1>1, <1>2, <1>7, <2>1 DEF AfterCursor
  <2>4. /\ AtOrBefore(b.started, b.id, a.started, a.id) <=> Precedes(b, a) \/ a = b
        /\ Precedes(a, b) \/ Precedes(b, a) \/ a = b
        /\ ~(Precedes(a, b) /\ Precedes(b, a)) /\ ~Precedes(b, b)
    BY <1>1, <1>2, <1>4, <2>1, OrderOfSummaries
  <2> QED
    BY <1>2, <1>4, <1>5, <2>2, <2>3, <2>4
<1> QED
  BY <1>6, <1>7

LEMMA AnswerPages ==
  ASSUME NEW t \in Tasks, TypeInv, PageInv, AnswerPage(t) PROVE PageInv'
<1>1. /\ Scanning(t, "stat") /\ task[t].todo = {}
      /\ task[t].cursor = NoPath \/ \E a \in task[t].items : a.id = task[t].cursor
      /\ UNCHANGED <<file, cache, session>>
  BY DEF AnswerPage, handlers
<1>2. PICK x : x = task[t]
  OBVIOUS
<1>3. /\ x # NoTask /\ x.kind = "list" /\ x.at = "stat" /\ x \in Listing
      /\ IsFiniteSet(x.items) /\ x.items \subseteq SummaryTypes
      /\ \A a, b \in x.items : a.id = b.id => a = b
      /\ x.expected \subseteq Requests
  BY <1>1, <1>2, ListingFields DEF Scanning, Listing
<1>4. Walk(x)
  BY <1>2 DEF PageInv
<1>5. PICK rest, page, shown :
        /\ rest = AfterCursor(x.items, x.cursor)
        /\ page = PageOf(rest)
        /\ shown = [r \in Requests |-> x.shown[r] + Cardinality({b \in page : b.id = r})]
  OBVIOUS
<1>6. /\ rest \subseteq x.items /\ IsFiniteSet(rest) /\ rest \subseteq SummaryTypes
      /\ page \subseteq rest
      /\ \A a \in rest, b \in page : Precedes(a, b) => a \in page
      /\ page # rest =>
           /\ LastOf(page) \in page
           /\ \A a \in page \ {LastOf(page)} : Precedes(a, LastOf(page))
  <2>1. rest \subseteq x.items
    BY <1>5 DEF AfterCursor
  <2>2. IsFiniteSet(rest) /\ rest \subseteq SummaryTypes /\ \A a, b \in rest : a.id = b.id => a = b
    BY <1>3, <2>1, FS_Subset
  <2> QED
    BY <1>5, <2>1, <2>2, PageBegins
<1>7. ASSUME NEW b \in x.items
      PROVE  /\ b.id \in Requests
             /\ Known(b.id, b.started)
             /\ b \in rest => x.shown[b.id] = 0
             /\ b \notin rest /\ b.id \in x.expected /\ Exists(b.id) => x.shown[b.id] = 1
  BY <1>1, <1>2, <1>5, ShownUpToCursor
<1>8. ASSUME NEW r \in Requests
      PROVE  /\ x.shown[r] \in {0, 1}
             /\ \A b \in page : b.id = r => x.shown[r] = 0 /\ shown[r] = 1
             /\ (\A b \in page : b.id # r) => shown[r] = x.shown[r]
  <2>1. x.shown[r] \in {0, 1} /\ shown[r] = x.shown[r] + Cardinality({b \in page : b.id = r})
    BY <1>3, <1>4, <1>5 DEF Walk
  <2>2. \A a, b \in page : a.id = b.id => a = b
    BY <1>3, <1>6
  <2>3. /\ (\E b \in page : b.id = r) => Cardinality({b \in page : b.id = r}) = 1
        /\ (\A b \in page : b.id # r) => Cardinality({b \in page : b.id = r}) = 0
    BY <2>2, TimesOnPage
  <2> QED
    BY <1>6, <1>7, <2>1, <2>3
<1>9. ASSUME NEW r \in Requests, shown[r] > 0 \/ r \in x.expected PROVE session[r] \notin Early
  <2>1. CASE x.shown[r] > 0 \/ r \in x.expected
    BY <1>3, <1>4, <2>1 DEF Walk
  <2>2. ASSUME NEW b \in page, b.id = r PROVE session[r] \notin Early
    BY <1>6, <1>7, <2>2 DEF PageInv, SameStart
  <2> QED
    BY <1>8, <1>9, <2>1, <2>2
<1>10. ASSUME NEW r \in x.expected, Exists(r)
       PROVE  /\ r \in Requests /\ Complete(r)
              /\ \E b \in x.items : b.id = r /\ (b \in rest \/ shown[r] = 1)
  <2>1. r \in Requests /\ Complete(r) /\ \E b \in x.items : b.id = r
    BY <1>1, <1>2, <1>3, <1>4, <1>10 DEF Walk
  <2>2. PICK b \in x.items : b.id = r
    BY <2>1
  <2>3. b \notin rest => x.shown[r] = 1
    BY <1>7, <1>10, <2>2
  <2>4. x.shown[r] = 1 => shown[r] = 1
    BY <1>8, <2>1
  <2> QED
    BY <2>1, <2>2, <2>3, <2>4
<1>11. CASE page # rest
  <2>1. PICK l \in page : l = LastOf(page) /\ \A a \in page \ {l} : Precedes(a, l)
    BY <1>6, <1>11
  <2>2. PICK files : files = AllFiles
    OBVIOUS
  <2>3. PICK cursor : cursor = l.id
    OBVIOUS
  <2> DEFINE y == [x EXCEPT !.shown = shown, !.cursor = cursor, !.todo = files, !.items = {}]
  <2>4. Put(t, y)
    BY <1>2, <1>5, <1>11, <2>1, <2>2, <2>3 DEF AnswerPage
  <2>5. /\ y.kind = "list" /\ y.at = "stat" /\ y.shown = shown /\ y.cursor = l.id /\ y.todo = files
        /\ y.items = {} /\ y.expected = x.expected
    BY <1>3, <2>3 DEF Listing
  <2> HIDE DEF y
  <2>6. \A r \in Requests : \A d : InCache(r, d)' \/ Holding(y, r, d) => Known(r, d)
    BY <1>1, <2>5, CacheKnows DEF Holding
  <2>7. Learns /\ (Walk(y)' => PageInv')
    BY <1>1, <2>4, <2>6, ListingLearns
  <2>8. l \in x.items /\ l.id \in Requests /\ Known(l.id, l.started) /\ session[l.id] \notin Early
    BY <1>6, <1>7, <2>1 DEF PageInv, SameStart
  <2>9. ASSUME NEW r \in Requests, NEW d, NEW e, Known(l.id, e)', Known(r, d)',
               shown[r] > 0 \/ r \in x.expected
        PROVE  Known(r, d) /\ e = l.started
    <3>1. Known(l.id, e)
      BY <2>7, <2>8, <2>9 DEF Learns
    <3>2. Known(r, d)
      BY <1>9, <2>7, <2>9 DEF Learns
    <3> QED
      BY <2>8, <3>1, <3>2 DEF PageInv, SameStart
  <2>10. ASSUME NEW b \in x.items
         PROVE  /\ AtOrBefore(b.started, b.id, l.started, l.id) <=> Precedes(b, l) \/ b = l
                /\ b \in rest /\ (Precedes(b, l) \/ b = l) <=> b \in page
    <3>1. AtOrBefore(b.started, b.id, l.started, l.id) <=> Precedes(b, l) \/ b = l
      BY <1>3, <2>8, OrderOfSummaries
    <3> QED
      BY <1>6, <2>1, <3>1
  <2>11. ASSUME NEW r \in Requests, NEW d, Known(r, d), shown[r] > 0
         PROVE  AtOrBefore(d, r, l.started, l.id)
    <3>1. CASE \E b \in page : b.id = r
      <4>1. PICK b \in page : b.id = r
        BY <3>1
      <4>2. b \in x.items /\ b.started = d
        BY <1>6, <1>7, <2>11, <4>1 DEF PageInv, SameStart
      <4> QED
        BY <2>10, <4>1, <4>2
    <3>2. CASE \A b \in page : b.id # r
      <4>1. x.shown[r] > 0
        BY <1>8, <2>11, <3>2
      <4>2. x.cursor # NoPath
        BY <1>3, <1>4, <4>1 DEF Walk
      <4>3. PICK a \in x.items : a.id = x.cursor
        BY <1>1, <1>2, <4>2
      <4>4. AtOrBefore(d, r, a.started, a.id)
        <5>1. Known(x.cursor, a.started)
          BY <1>7, <4>3
        <5> QED
          BY <1>3, <1>4, <2>11, <4>1, <4>2, <4>3, <5>1 DEF Walk
      <4>5. Precedes(a, l)
        BY <1>3, <1>5, <1>6, <2>1, <4>2, <4>3 DEF AfterCursor
      <4>6. d \in Nat /\ r \in Nat
        BY <2>11, KnownIsNat, RequestsAssumption
      <4>7. a.started \in Nat /\ a.id \in Nat /\ l.started \in Nat /\ l.id \in Nat
        BY <1>3, <2>8, <4>3, OrderOfSummaries
      <4> QED
        BY <4>4, <4>5, <4>6, <4>7 DEF AtOrBefore, Precedes
    <3> QED
      BY <3>1, <3>2
  <2>12. ASSUME NEW r \in x.expected, NEW d, Known(r, d), Exists(r),
                AtOrBefore(d, r, l.started, l.id)
         PROVE  shown[r] = 1
    <3>1. PICK b \in x.items : b.id = r /\ (b \in rest \/ shown[r] = 1)
      BY <1>10, <2>12
    <3>2. r \in Requests /\ b.started = d
      BY <1>7, <2>12, <3>1 DEF PageInv, SameStart
    <3>3. Precedes(b, l) \/ b = l
      BY <2>10, <2>12, <3>1, <3>2
    <3>4. b \in page \/ shown[r] = 1
      BY <2>10, <3>1, <3>3
    <3> QED
      BY <1>8, <3>1, <3>2, <3>4
  <2>13. \A r \in Requests :
           /\ y.shown[r] \in {0, 1}
           /\ r = y.cursor \/ y.shown[r] > 0 \/ r \in y.expected => session'[r] \notin Early
           /\ y.cursor # NoPath
    <3>1. l.id # NoPath
      BY <2>8, NamesAssumption
    <3>2. \A r \in Requests : shown[r] \in {0, 1}
      BY <1>8
    <3> QED
      BY <1>1, <1>9, <2>5, <2>8, <3>1, <3>2
  <2>14. ASSUME NEW r \in Requests, NEW d, NEW e, Known(y.cursor, e)', Known(r, d)'
         PROVE  /\ y.shown[r] > 0 => AtOrBefore(d, r, e, y.cursor)
                /\ r \in y.expected /\ Exists(r)' /\ AtOrBefore(d, r, e, y.cursor) => y.shown[r] = 1
    <3>1. shown[r] > 0 \/ r \in x.expected => Known(r, d) /\ e = l.started
      BY <2>5, <2>9, <2>14
    <3>2. shown[r] > 0 => AtOrBefore(d, r, l.started, l.id)
      BY <2>11, <3>1
    <3>3. Exists(r)' => Exists(r)
      BY <1>1 DEF Exists
    <3>4. r \in x.expected /\ Exists(r)' /\ AtOrBefore(d, r, l.started, l.id) => shown[r] = 1
      BY <2>12, <3>1, <3>3
    <3> QED
      BY <2>5, <3>1, <3>2, <3>4
  <2>15. ASSUME NEW r \in y.expected, Exists(r)' PROVE Complete(r)' /\ r \in y.todo
    <3>1. Exists(r) /\ Complete(r) /\ r \in Requests
      BY <1>1, <1>10, <2>5, <2>15 DEF Exists
    <3> QED
      BY <1>1, <2>2, <2>5, <2>15, <3>1 DEF Complete, AllFiles
  <2>16. Walk(y)'
    BY <2>5, <2>13, <2>14, <2>15 DEF Walk, AtOrBefore
  <2> QED
    BY <2>7, <2>16
<1>12. CASE page = rest
  <2> DEFINE y == [x EXCEPT !.shown = shown, !.at = "answered", !.items = {}]
  <2>1. Put(t, y)
    BY <1>2, <1>5, <1>12 DEF AnswerPage
  <2>2. /\ y.kind = "list" /\ y.at = "answered" /\ y.shown = shown /\ y.cursor = x.cursor
        /\ y.items = {} /\ y.expected = x.expected
    BY <1>3 DEF Listing
  <2> HIDE DEF y
  <2>3. \A r \in Requests : \A d : InCache(r, d)' \/ Holding(y, r, d) => Known(r, d)
    BY <1>1, <2>2, CacheKnows DEF Holding
  <2>4. Learns /\ (Walk(y)' => PageInv')
    BY <1>1, <2>1, <2>3, ListingLearns
  <2>5. \A r \in Requests :
          /\ y.shown[r] \in {0, 1}
          /\ r = y.cursor \/ y.shown[r] > 0 \/ r \in y.expected => session'[r] \notin Early
    <3>1. \A r \in Requests : r = x.cursor => session[r] \notin Early
      BY <1>3, <1>4 DEF Walk
    <3>2. \A r \in Requests : shown[r] \in {0, 1}
      BY <1>8
    <3> QED
      BY <1>1, <1>9, <2>2, <3>1, <3>2
  <2>6. ASSUME NEW r \in y.expected, Exists(r)' PROVE Complete(r)' /\ y.shown[r] = 1
    <3>1. Exists(r) /\ r \in x.expected
      BY <1>1, <2>2, <2>6 DEF Exists
    <3>2. PICK b \in x.items : b.id = r /\ (b \in rest \/ shown[r] = 1)
      BY <1>10, <3>1
    <3>3. shown[r] = 1 /\ Complete(r)
      BY <1>8, <1>10, <1>12, <3>1, <3>2
    <3> QED
      BY <1>1, <2>2, <2>6, <3>3 DEF Complete
  <2>7. Walk(y)'
    BY <2>2, <2>5, <2>6 DEF Walk
  <2> QED
    BY <2>4, <2>7
<1> QED
  BY <1>11, <1>12

LEMMA StepPages == Inv /\ Inv' /\ TypeInv /\ PageInv /\ [Next]_vars => PageInv'
BY HandlerPages, ScanPages, BeginPages, AnswerPages, LeavePages, RemovalPages, StartPages,
   QuietPages, DiePages DEF Next, TaskNext

LEMMA Pages == Spec => []PageInv
BY InitPages, StepPages, Invariant, Types, PTL DEF Spec

\* A client that turns pages to the last one sees every log that was complete when it began and
\* is still there, once, and none twice: whatever logs are written, made and removed meanwhile,
\* however long its pages are, and whatever other listings put into the cache.
THEOREM PagesAreWhole == Spec => []PagesCover
<1>1. ASSUME TypeInv, PageInv, NEW t \in Tasks, Scanning(t, "answered")
      PROVE  /\ \A r \in task[t].expected : Exists(r) => task[t].shown[r] = 1
             /\ \A r \in Requests : task[t].shown[r] <= 1
  <2>1. Walk(task[t]) /\ task[t] # NoTask /\ task[t].kind = "list" /\ task[t].at = "answered"
    BY <1>1 DEF PageInv, Scanning
  <2>2. \A r \in Requests : task[t].shown[r] \in {0, 1}
    BY <2>1 DEF Walk
  <2> QED
    BY <2>1, <2>2 DEF Walk
<1>2. TypeInv /\ PageInv => PagesCover
  BY <1>1 DEF PagesCover
<1> QED
  BY <1>2, Types, Pages, PTL
=============================================================================
