------------------------ MODULE QueryPlanning_proofs ------------------------
(***************************************************************************)
(* Proofs about QueryPlanning and the modules it composes, for every       *)
(* budget, every set of candidates, keys and askers and every number of    *)
(* rounds: first what a method of the accountant does to the sums it       *)
(* keeps, then the searches of the rounds, then the planner's gates.       *)
(***************************************************************************)
EXTENDS QueryPlanning, FiniteInduction

-----------------------------------------------------------------------------
(* The accountant: what it reserves, and the effect of its methods. *)

Typed == used \in Amounts /\ book \in [Keys -> Bookings]

SettledKeys  == {k \in Keys : book[k].state = "settled"}
Estimated(d) == [k \in Keys |-> book[k].estimate[d]]

LEMMA EstimatedType ==
    ASSUME Typed, NEW d \in Dimensions
    PROVE  \A k \in Keys : Estimated(d)[k] = book[k].estimate[d] /\ Estimated(d)[k] \in Nat
BY DEF Typed, Bookings, Amounts, Estimated

LEMMA ReservedType ==
    ASSUME Typed, IsFiniteSet(Active), NEW d \in Dimensions
    PROVE  /\ Reserved[d] = SumFunctionOnSet(Estimated(d), Active)
           /\ Reserved[d] \in Nat
<1> DEFINE f == Estimated(d)
<1>1. Reserved[d] = SumFunctionOnSet(f, Active)
  BY DEF Reserved, Estimated
<1>2. \A k \in Active : f[k] \in Nat
  BY EstimatedType DEF Active
<1> HIDE DEF f
<1>3. SumFunctionOnSet(f, Active) \in Nat
  BY <1>2, SumType
<1> QED BY <1>1, <1>3 DEF f

\* A new reservation is one more active one, and reserves what it estimates.
LEMMA NewReservation ==
    ASSUME Typed, IsFiniteSet(Active), NEW k \in Keys, ~Booked(k), NEW e \in Amounts,
           book' = [book EXCEPT ![k] = [state |-> "active", estimate |-> e]], used' = used
    PROVE  /\ Typed' /\ SettledKeys' = SettledKeys
           /\ Active' = Active \cup {k} /\ IsFiniteSet(Active')
           /\ \A d \in Dimensions : Reserved'[d] = Reserved[d] + e[d]
<1>1. Typed'
  BY DEF Typed, Bookings
<1>2. k \notin Active /\ Active' = Active \cup {k} /\ SettledKeys' = SettledKeys
  BY DEF Active, Booked, Typed, SettledKeys
<1>3. IsFiniteSet(Active')
  BY <1>2, FS_AddElement
<1>4. ASSUME NEW d \in Dimensions PROVE Reserved'[d] = Reserved[d] + e[d]
  <2> DEFINE f == Estimated(d)
             g == Estimated(d)'
  <2>1. \A x \in Keys : g[x] = IF x = k THEN e[d] ELSE f[x]
    BY DEF Estimated, Typed
  <2>2. \A x \in Active : g[x] = f[x] /\ f[x] \in Nat
    BY <1>2, <2>1, EstimatedType DEF Active
  <2>3. g[k] = e[d] /\ e[d] \in Nat
    BY <2>1 DEF Amounts
  <2>4. Reserved'[d] = SumFunctionOnSet(g, Active')
    BY DEF Reserved, Estimated
  <2>5. Reserved[d] = SumFunctionOnSet(f, Active) /\ Reserved[d] \in Nat
    BY ReservedType
  <2> HIDE DEF f, g
  <2>6. SumFunctionOnSet(g, Active \cup {k}) = g[k] + SumFunctionOnSet(f, Active)
    BY <1>2, <2>2, <2>3, SumAdd
  <2> QED BY <1>2, <2>3, <2>4, <2>5, <2>6
<1> QED BY <1>1, <1>2, <1>3, <1>4

\* A reservation that ends is one less active, and frees what it estimated.
LEMMA EndedReservation ==
    ASSUME Typed, IsFiniteSet(Active), NEW k \in Active, NEW state \in {"settled", "released"},
           book' = [book EXCEPT ![k].state = state]
    PROVE  /\ book' \in [Keys -> Bookings]
           /\ Active' = Active \ {k} /\ IsFiniteSet(Active')
           /\ SettledKeys' = IF state = "settled" THEN SettledKeys \cup {k} ELSE SettledKeys
           /\ \A d \in Dimensions : /\ Reserved[d] = Reserved'[d] + book[k].estimate[d]
                                    /\ Reserved'[d] \in Nat
<1>1. book' \in [Keys -> Bookings] /\ k \in Keys
  BY DEF Typed, Bookings, Active
<1>2. /\ Active' = Active \ {k}
      /\ SettledKeys' = IF state = "settled" THEN SettledKeys \cup {k} ELSE SettledKeys
  BY DEF Active, Typed, SettledKeys
<1>3. IsFiniteSet(Active')
  BY <1>2, FS_RemoveElement
<1>4. ASSUME NEW d \in Dimensions
      PROVE  Reserved[d] = Reserved'[d] + book[k].estimate[d] /\ Reserved'[d] \in Nat
  <2> DEFINE f == Estimated(d)
             g == Estimated(d)'
  <2>1. \A x \in Active : g[x] = f[x] /\ f[x] \in Nat
    <3>1. \A x \in Keys : g[x] = f[x]
      BY DEF Estimated, Typed, Bookings
    <3> QED BY <3>1, EstimatedType DEF Active
  <2>2. f[k] = book[k].estimate[d]
    BY <1>1, EstimatedType
  <2>3. Reserved'[d] = SumFunctionOnSet(g, Active')
    BY DEF Reserved, Estimated
  <2>4. Reserved[d] = SumFunctionOnSet(f, Active)
    BY ReservedType
  <2> HIDE DEF f, g
  <2> DEFINE R == Active \ {k}
  <2>5. SumFunctionOnSet(f, Active) = f[k] + SumFunctionOnSet(f, R)
    BY <2>1, SumRemove
  <2>6. IsFiniteSet(R) /\ \A x \in R : g[x] = f[x] /\ f[x] \in Nat
    BY <1>2, <1>3, <2>1
  <2>7. f[k] \in Nat BY <2>1
  <2>8. R = Active' BY <1>2
  <2> HIDE DEF R
  <2>9. SumFunctionOnSet(f, R) = SumFunctionOnSet(g, R) /\ SumFunctionOnSet(f, R) \in Nat
    BY <2>6, SumSame, SumType
  <2> QED BY <2>2, <2>3, <2>4, <2>5, <2>7, <2>8, <2>9
<1> QED BY <1>1, <1>2, <1>3, <1>4

-----------------------------------------------------------------------------
(* The searches of the rounds. *)

\* What the methods of the accountant keep: the invariant of the ledger.
Ledger ==
    /\ Typed /\ IsFiniteSet(Active) /\ IsFiniteSet(SettledKeys)
    /\ \A k \in Keys : Booked(k) => book[k].estimate \in Estimates
    /\ used["search_calls"] = Cardinality(SettledKeys)
    /\ CapacityKept

\* Every task that was dispatched has an estimate, and the rounds to come have none.
TasksKept ==
    /\ \A t \in Tasks : t[1] > round => task[t].at = "none"
    /\ \A t \in Tasks : task[t].at # "none" => task[t].estimate \in Estimates

\* The queries that were charged are those with a hit.
HitsAreSettled == {KeyOf(t) : t \in In("hits")} = SettledKeys

DispatchInv ==
    /\ DispatchTypeOK /\ Ledger /\ TasksKept
    /\ HitsAreSettled /\ ReservationsReturn

LEMMA EstimateType ==
    ASSUME NEW e \in Estimates
    PROVE  e \in Amounts /\ e["search_calls"] \in Nat /\ e["search_calls"] >= 1
BY DispatchConstants DEF Amounts

LEMMA LedgerReserve ==
    ASSUME Ledger, NEW k \in Keys, NEW e \in Estimates, Reserve(k, e)
    PROVE  /\ Ledger' /\ SettledKeys' = SettledKeys
           /\ Active' \subseteq Active \cup {k}
<1>1. CASE Booked(k)
  <2>1. book' = book /\ used' = used BY <1>1 DEF Reserve
  <2> QED BY <2>1 DEF Ledger, Typed, Active, SettledKeys, Booked, CapacityKept, Committed, Reserved, Plus
<1>2. CASE ~Booked(k)
  <2>1. /\ book' = [book EXCEPT ![k] = [state |-> "active", estimate |-> e]]
        /\ used' = used /\ Fits(e)
    BY <1>2 DEF Reserve
  <2>2. e \in Amounts BY EstimateType
  <2>3. /\ Typed' /\ SettledKeys' = SettledKeys
        /\ Active' = Active \cup {k} /\ IsFiniteSet(Active')
        /\ \A d \in Dimensions : Reserved'[d] = Reserved[d] + e[d]
    BY <1>2, <2>1, <2>2, NewReservation DEF Ledger
  <2>4. \A q \in Keys : Booked(q)' => book'[q].estimate \in Estimates
    BY <2>1 DEF Ledger, Typed, Booked
  <2>5. ASSUME NEW d \in Dimensions PROVE Committed'[d] <= Limit[d]
    <3>1. used[d] + Reserved[d] + e[d] <= Limit[d]
      BY <2>1 DEF Fits, Committed, Plus
    <3>2. Committed'[d] = used[d] + Reserved'[d]
      BY <2>1 DEF Committed, Plus
    <3>3. used[d] \in Nat /\ Reserved[d] \in Nat /\ e[d] \in Nat
      BY <2>2, ReservedType DEF Ledger, Typed, Amounts
    <3> QED BY <2>3, <3>1, <3>2, <3>3
  <2> QED BY <2>1, <2>3, <2>4, <2>5 DEF Ledger, CapacityKept
<1> QED BY <1>1, <1>2

LEMMA LedgerRelease ==
    ASSUME Ledger, NEW k \in Keys, Release(k)
    PROVE  Ledger' /\ SettledKeys' = SettledKeys /\ Active' = Active \ {k}
<1>1. book' = [book EXCEPT ![k].state = "released"] /\ used' = used /\ Releases(k)
  BY DEF Release
<1>2. CASE k \in Active
  <2>1. /\ Typed' /\ SettledKeys' = SettledKeys
        /\ Active' = Active \ {k} /\ IsFiniteSet(Active')
        /\ \A d \in Dimensions : /\ Reserved[d] = Reserved'[d] + book[k].estimate[d]
                                 /\ Reserved'[d] \in Nat
    BY <1>1, <1>2, EndedReservation DEF Ledger, Typed
  <2>2. \A q \in Keys : Booked(q)' => book'[q].estimate \in Estimates
    BY <1>1, <1>2 DEF Ledger, Typed, Booked, Bookings, Active
  <2>3. ASSUME NEW d \in Dimensions PROVE Committed'[d] <= Limit[d]
    <3>1. used[d] + Reserved[d] <= Limit[d] /\ Committed'[d] = used[d] + Reserved'[d]
      BY <1>1 DEF Ledger, CapacityKept, Committed, Plus
    <3>2. used[d] \in Nat /\ Reserved'[d] \in Nat /\ book[k].estimate[d] \in Nat /\ Limit[d] \in Nat
      BY <1>2, <2>1, AccountantConstants DEF Ledger, Typed, Amounts, Bookings, Active
    <3> QED BY <2>1, <3>1, <3>2
  <2> QED BY <1>1, <2>1, <2>2, <2>3 DEF Ledger, CapacityKept
<1>3. CASE k \notin Active
  <2>1. book' = book
    BY <1>1, <1>3 DEF Ledger, Typed, Bookings, Active, Releases
  <2> QED BY <1>1, <1>3, <2>1
      DEF Ledger, Typed, Active, SettledKeys, Booked, CapacityKept, Committed, Reserved, Plus
<1> QED BY <1>2, <1>3

\* An answer is charged, unless the query was charged before.
LEMMA LedgerSettle ==
    ASSUME Ledger, NEW k \in Keys, Settle(k, OneSearch)
    PROVE  Ledger' /\ SettledKeys' = SettledKeys \cup {k} /\ Active' = Active \ {k}
<1>1. book' = [book EXCEPT ![k].state = "settled"] /\ Settles(k)
  BY DEF Settle
<1>2. CASE k \in Active
  <2>1. used' = Plus(used, OneSearch)
    BY <1>2 DEF Settle, Active
  <2>2. \A d \in Dimensions : OneSearch[d] = IF d = "search_calls" THEN 1 ELSE 0
    BY DispatchConstants DEF OneSearch, Nothing
  <2>3. used' \in Amounts /\ \A d \in Dimensions : used'[d] = used[d] + OneSearch[d]
    BY <2>1, <2>2 DEF Ledger, Typed, Amounts, Plus
  <2>4. /\ book' \in [Keys -> Bookings] /\ SettledKeys' = SettledKeys \cup {k}
        /\ Active' = Active \ {k} /\ IsFiniteSet(Active')
        /\ \A d \in Dimensions : /\ Reserved[d] = Reserved'[d] + book[k].estimate[d]
                                 /\ Reserved'[d] \in Nat
    BY <1>1, <1>2, EndedReservation DEF Ledger
  <2>5. \A q \in Keys : Booked(q)' => book'[q].estimate \in Estimates
    BY <1>1, <1>2 DEF Ledger, Typed, Booked, Bookings, Active
  <2>6. IsFiniteSet(SettledKeys') /\ Cardinality(SettledKeys') = Cardinality(SettledKeys) + 1
    <3>1. k \notin SettledKeys BY <1>2 DEF SettledKeys, Active
    <3> QED BY <2>4, <3>1, FS_AddElement DEF Ledger
  <2>7. used'["search_calls"] = Cardinality(SettledKeys')
    BY <2>2, <2>3, <2>6, DispatchConstants DEF Ledger
  <2>8. ASSUME NEW d \in Dimensions PROVE Committed'[d] <= Limit[d]
    <3>1. used[d] + Reserved[d] <= Limit[d] /\ Committed'[d] = used[d] + OneSearch[d] + Reserved'[d]
      BY <2>3 DEF Ledger, CapacityKept, Committed, Plus
    <3>2. used[d] \in Nat /\ Reserved'[d] \in Nat /\ Limit[d] \in Nat
      BY <2>4, AccountantConstants DEF Ledger, Typed, Amounts
    <3>3. book[k].estimate[d] \in Nat /\ book[k].estimate[d] >= OneSearch[d]
      <4>1. book[k].estimate \in Estimates
        BY <1>2 DEF Ledger, Active, Booked
      <4> QED BY <2>2, <4>1, EstimateType DEF Amounts
    <3>4. OneSearch[d] \in Nat BY <2>2
    <3> QED BY <2>4, <3>1, <3>2, <3>3, <3>4
  <2> QED BY <2>3, <2>4, <2>5, <2>6, <2>7, <2>8 DEF Ledger, CapacityKept, Typed
<1>3. CASE k \notin Active
  <2>1. book' = book /\ k \in SettledKeys /\ used' = used
    BY <1>1, <1>3 DEF Ledger, Typed, Bookings, Active, Settles, Settle, SettledKeys
  <2> QED BY <1>3, <2>1
      DEF Ledger, Typed, Active, SettledKeys, Booked, CapacityKept, Committed, Reserved, Plus
<1> QED BY <1>2, <1>3

LEMMA KeyOfType == \A t \in Tasks : KeyOf(t) \in Keys
BY DispatchConstants DEF Tasks, KeyOf

LEMMA GoEffect ==
    ASSUME DispatchTypeOK, TasksKept, NEW t \in Tasks, task[t].at # "none",
           NEW place \in Places \ {"none"}, Go(t, place), round' = round
    PROVE  /\ task' \in [Tasks -> [at : Places, estimate : {Nothing} \union Estimates]]
           /\ task'[t].at = place /\ \A u \in Tasks : u # t => task'[u] = task[u]
           /\ TasksKept'
BY DEF DispatchTypeOK, TasksKept, Go

\* Where the other tasks stand does not change.
LEMMA GoPlaces ==
    ASSUME DispatchTypeOK, NEW t \in Tasks, NEW place, Go(t, place), NEW other
    PROVE  In(other)' = IF place = other THEN In(other) \cup {t} ELSE In(other) \ {t}
BY DEF DispatchTypeOK, Go, In

\* A task leaves the provider without hits: its reservation is given back, or
\* was settled by another task of its query.
LEMMA GiveBackStep ==
    ASSUME DispatchInv, NEW t \in In("searching"),
           NEW place \in {"raised", "cancelled"}, GiveBack(t, place),
           UNCHANGED <<token, round, gather>>, searched' \in Nat
    PROVE  DispatchInv' /\ In("searching")' \subseteq In("searching")
<1> DEFINE k == KeyOf(t)
<1>1. t \in Tasks /\ k \in Keys /\ task[t].at = "searching"
  BY KeyOfType DEF In
<1>2. PICK p \in {"raised", "cancelled"} : Go(t, p)
  BY DEF GiveBack, Skip
<1>3. /\ task' \in [Tasks -> [at : Places, estimate : {Nothing} \union Estimates]]
      /\ TasksKept'
  BY <1>1, <1>2, GoEffect DEF DispatchInv, Places
<1>4. /\ In("searching")' = In("searching") \ {t} /\ In("hits")' = In("hits") \ {t}
      /\ In("interrupted")' = In("interrupted") \ {t}
  BY <1>1, <1>2, GoPlaces DEF DispatchInv
<1>5. Ledger' /\ SettledKeys' = SettledKeys /\ Active' = Active \ {k}
  <2>1. CASE Release(k)
    BY <1>1, <2>1, LedgerRelease DEF DispatchInv
  <2>2. CASE ~Releases(k) /\ UNCHANGED accountant
    <3>1. k \notin Active BY <2>2 DEF Releases, Active
    <3> QED BY <2>2, <3>1 DEF accountant, DispatchInv, Ledger, Typed, Active, SettledKeys,
                  Booked, CapacityKept, Committed, Reserved, Plus
  <2> QED BY <2>1, <2>2 DEF GiveBack, Skip
<1>6. HitsAreSettled'
  <2>1. In("hits")' = In("hits") BY <1>1, <1>4 DEF In
  <2> QED BY <1>5, <2>1 DEF HitsAreSettled, DispatchInv, KeyOf
<1>7. ReservationsReturn'
  <2> SUFFICES ASSUME NEW q \in Active'
               PROVE  \E u \in In("searching")' \cup In("interrupted")' : KeyOf(u) = q
    BY DEF ReservationsReturn, KeyOf
  <2>1. PICK u \in In("searching") \cup In("interrupted") : KeyOf(u) = q
    BY <1>5 DEF DispatchInv, ReservationsReturn
  <2>2. u # t BY <1>5, <2>1
  <2> QED BY <1>4, <2>1, <2>2
<1>8. DispatchTypeOK'
  BY <1>3, <1>5 DEF DispatchInv, DispatchTypeOK, Ledger, Typed
<1> QED BY <1>3, <1>4, <1>5, <1>6, <1>7, <1>8 DEF DispatchInv

LEMMA StartStep ==
    ASSUME DispatchInv, NEW t \in Tasks, Start(t)
    PROVE  DispatchInv' /\ (token => In("searching")' \subseteq In("searching"))
<1> DEFINE k == KeyOf(t)
           e == task[t].estimate
<1>1. k \in Keys /\ task[t].at = "waiting" /\ e \in Estimates
  BY KeyOfType DEF Start, HasSlot, DispatchInv, TasksKept
<1>2. UNCHANGED <<token, round, gather, searched>>
  BY DEF Start
<1>3. CASE Reserve(k, e) /\ Go(t, "searching") /\ ~token
  <2>1. /\ task' \in [Tasks -> [at : Places, estimate : {Nothing} \union Estimates]]
        /\ TasksKept'
    BY <1>1, <1>2, <1>3, GoEffect DEF DispatchInv, Places
  <2>2. /\ In("searching")' = In("searching") \cup {t} /\ In("hits")' = In("hits") \ {t}
        /\ In("interrupted")' = In("interrupted") \ {t}
    BY <1>3, GoPlaces DEF DispatchInv
  <2>3. Ledger' /\ SettledKeys' = SettledKeys /\ Active' \subseteq Active \cup {k}
    BY <1>1, <1>3, LedgerReserve DEF DispatchInv
  <2>4. t \notin In("hits") /\ t \notin In("interrupted") BY <1>1 DEF In
  <2>5. HitsAreSettled'
    BY <2>2, <2>3, <2>4 DEF HitsAreSettled, DispatchInv, KeyOf
  <2>6. ReservationsReturn'
    BY <2>2, <2>3, <2>4 DEF ReservationsReturn, DispatchInv, KeyOf
  <2>7. DispatchTypeOK'
    BY <1>2, <2>1, <2>3 DEF DispatchInv, DispatchTypeOK, Ledger, Typed
  <2> QED BY <1>3, <2>1, <2>3, <2>5, <2>6, <2>7 DEF DispatchInv
<1>4. ASSUME NEW reason \in {"cancelled", "budget", "raised"}, Skip(t, reason)
      PROVE  DispatchInv' /\ In("searching")' \subseteq In("searching")
  <2>1. /\ task' \in [Tasks -> [at : Places, estimate : {Nothing} \union Estimates]]
        /\ TasksKept'
    BY <1>1, <1>2, <1>4, GoEffect DEF DispatchInv, Places, Skip
  <2>2. /\ In("searching")' = In("searching") \ {t} /\ In("hits")' = In("hits") \ {t}
        /\ In("interrupted")' = In("interrupted") \ {t}
    BY <1>4, GoPlaces DEF DispatchInv, Skip
  <2>3. /\ In("searching")' = In("searching") /\ In("hits")' = In("hits")
        /\ In("interrupted")' = In("interrupted")
    BY <1>1, <2>2 DEF In
  <2>4. UNCHANGED <<used, book>> BY <1>4 DEF Skip, accountant
  <2>5. Ledger' /\ SettledKeys' = SettledKeys /\ Active' = Active
    BY <2>4 DEF DispatchInv, Ledger, Typed, Active, SettledKeys, Booked, CapacityKept,
                Committed, Reserved, Plus
  <2>6. HitsAreSettled' /\ ReservationsReturn'
    BY <2>3, <2>5 DEF HitsAreSettled, ReservationsReturn, DispatchInv, KeyOf
  <2>7. DispatchTypeOK'
    BY <1>2, <2>1, <2>5 DEF DispatchInv, DispatchTypeOK, Ledger, Typed
  <2> QED BY <2>1, <2>3, <2>5, <2>6, <2>7 DEF DispatchInv
<1> QED BY <1>3, <1>4 DEF Start

LEMMA AnswerStep ==
    ASSUME DispatchInv, NEW t \in Tasks, Answer(t)
    PROVE  DispatchInv' /\ In("searching")' \subseteq In("searching")
<1> DEFINE k == KeyOf(t)
<1>1. k \in Keys /\ task[t].at = "searching" /\ t \in In("searching")
  BY KeyOfType DEF Answer, In
<1>2. UNCHANGED <<token, round, gather>> /\ searched' = searched + 1
  BY DEF Answer
<1>3. searched' \in Nat
  BY <1>2 DEF DispatchInv, DispatchTypeOK
<1>4. CASE \E place \in {"raised", "cancelled"} : GiveBack(t, place)
  BY <1>1, <1>2, <1>3, <1>4, GiveBackStep
<1>5. CASE Settle(k, OneSearch) /\ Go(t, "hits")
  <2>1. /\ task' \in [Tasks -> [at : Places, estimate : {Nothing} \union Estimates]]
        /\ TasksKept'
    BY <1>1, <1>2, <1>5, GoEffect DEF DispatchInv, Places
  <2>2. /\ In("searching")' = In("searching") \ {t} /\ In("hits")' = In("hits") \cup {t}
        /\ In("interrupted")' = In("interrupted") \ {t}
    BY <1>5, GoPlaces DEF DispatchInv
  <2>3. Ledger' /\ SettledKeys' = SettledKeys \cup {k} /\ Active' = Active \ {k}
    BY <1>1, <1>5, LedgerSettle DEF DispatchInv
  <2>4. HitsAreSettled'
    BY <2>2, <2>3 DEF HitsAreSettled, DispatchInv, KeyOf
  <2>5. ReservationsReturn'
    <3> SUFFICES ASSUME NEW q \in Active'
                 PROVE  \E u \in In("searching")' \cup In("interrupted")' : KeyOf(u) = q
      BY DEF ReservationsReturn, KeyOf
    <3>1. PICK u \in In("searching") \cup In("interrupted") : KeyOf(u) = q
      BY <2>3 DEF DispatchInv, ReservationsReturn
    <3>2. u # t BY <2>3, <3>1
    <3> QED BY <2>2, <3>1, <3>2
  <2>6. DispatchTypeOK'
    BY <1>2, <1>3, <2>1, <2>3 DEF DispatchInv, DispatchTypeOK, Ledger, Typed
  <2> QED BY <2>1, <2>2, <2>3, <2>4, <2>5, <2>6 DEF DispatchInv
<1> QED BY <1>4, <1>5 DEF Answer

LEMMA FailStep ==
    ASSUME DispatchInv, NEW t \in Tasks, Fail(t)
    PROVE  DispatchInv' /\ In("searching")' \subseteq In("searching")
<1>1. t \in In("searching") /\ UNCHANGED <<token, round, gather>> /\ searched' \in Nat
  BY DEF Fail, In, DispatchInv, DispatchTypeOK
<1>2. \E place \in {"raised", "cancelled"} : GiveBack(t, place)
  BY DEF Fail
<1> QED BY <1>1, <1>2, GiveBackStep

\* The ledger stays as it is.
LEMMA LedgerStays ==
    ASSUME UNCHANGED accountant
    PROVE  /\ Active' = Active /\ SettledKeys' = SettledKeys
           /\ Ledger => Ledger'
BY DEF accountant, Ledger, Typed, Active, SettledKeys, Booked, CapacityKept, Committed,
       Reserved, Plus

LEMMA DispatchStep ==
    ASSUME DispatchInv, Dispatch
    PROVE  DispatchInv' /\ In("searching")' = In("searching")
<1>0. PICK batch \in SUBSET Candidates : \E estimate \in [batch -> Estimates] :
        task' = [t \in Tasks |->
             IF t[1] = round + 1 /\ t[2] \in batch
               THEN [at |-> "waiting", estimate |-> estimate[t[2]]] ELSE task[t]]
  BY DEF Dispatch
<1>1. PICK estimate \in [batch -> Estimates] :
        task' = [t \in Tasks |->
             IF t[1] = round + 1 /\ t[2] \in batch
               THEN [at |-> "waiting", estimate |-> estimate[t[2]]] ELSE task[t]]
  BY <1>0
<1>2. /\ round' = round + 1 /\ round' \in 0..Rounds /\ gather' = "waiting"
      /\ UNCHANGED <<accountant, token, searched>>
  BY DispatchConstants DEF Dispatch, DispatchInv, DispatchTypeOK
<1>3. task' \in [Tasks -> [at : Places, estimate : {Nothing} \union Estimates]]
  BY <1>1 DEF DispatchInv, DispatchTypeOK, Places
<1>4. \A t \in Tasks : t[1] = round + 1 => task[t].at = "none"
  BY DEF DispatchInv, TasksKept, DispatchTypeOK
<1>5. TasksKept'
  <2>1. ASSUME NEW t \in Tasks PROVE t[1] > round' => task'[t].at = "none"
    <3>1. t[1] \in Nat BY DispatchConstants DEF Tasks
    <3> QED BY <1>1, <1>2, <3>1 DEF DispatchInv, TasksKept, DispatchTypeOK
  <2>2. ASSUME NEW t \in Tasks PROVE task'[t].at # "none" => task'[t].estimate \in Estimates
    BY <1>1 DEF DispatchInv, TasksKept
  <2> QED BY <2>1, <2>2 DEF TasksKept
<1>6. /\ In("searching")' = In("searching") /\ In("hits")' = In("hits")
      /\ In("interrupted")' = In("interrupted")
  BY <1>1, <1>4 DEF In
<1>7. Ledger' /\ SettledKeys' = SettledKeys /\ Active' = Active
  BY <1>2, LedgerStays DEF DispatchInv
<1>8. HitsAreSettled' /\ ReservationsReturn'
  BY <1>6, <1>7 DEF HitsAreSettled, ReservationsReturn, DispatchInv, KeyOf
<1>9. DispatchTypeOK'
  BY <1>2, <1>3, <1>7 DEF DispatchInv, DispatchTypeOK, Ledger, Typed
<1> QED BY <1>5, <1>6, <1>7, <1>8, <1>9 DEF DispatchInv

LEMMA InterruptStep ==
    ASSUME DispatchInv, Interrupt
    PROVE  DispatchInv' /\ In("searching")' \subseteq In("searching")
<1>1. /\ task' = [t \in Tasks |->
            IF Ended(t) THEN task[t] ELSE [task[t] EXCEPT !.at = "interrupted"]]
      /\ gather' = "interrupted" /\ UNCHANGED <<accountant, token, round, searched>>
  BY DEF Interrupt
<1>2. ASSUME NEW t \in Tasks
      PROVE  /\ task'[t] = IF Ended(t) THEN task[t]
                           ELSE [at |-> "interrupted", estimate |-> task[t].estimate]
             /\ task'[t] \in [at : Places, estimate : {Nothing} \union Estimates]
  <2>1. task[t] \in [at : Places, estimate : {Nothing} \union Estimates]
    BY DEF DispatchInv, DispatchTypeOK
  <2>2. [task[t] EXCEPT !.at = "interrupted"]
          = [at |-> "interrupted", estimate |-> task[t].estimate]
    BY <2>1
  <2> QED BY <1>1, <2>1, <2>2 DEF Places
<1>3. task' \in [Tasks -> [at : Places, estimate : {Nothing} \union Estimates]]
  BY <1>1, <1>2
<1>4. TasksKept'
  BY <1>1, <1>2 DEF TasksKept, DispatchInv, Ended
<1>5. /\ In("searching")' = {} /\ In("hits")' = In("hits")
      /\ In("searching") \cup In("interrupted") \subseteq In("interrupted")'
  <2>1. ASSUME NEW t \in Tasks
        PROVE  /\ task'[t].at # "searching"
               /\ task'[t].at = "hits" <=> task[t].at = "hits"
               /\ task[t].at \in {"searching", "interrupted"} => task'[t].at = "interrupted"
    <3>1. CASE Ended(t)
      <4>1. task'[t] = task[t] BY <1>2, <3>1
      <4> QED BY <3>1, <4>1 DEF Ended
    <3>2. CASE ~Ended(t)
      <4>1. task'[t] = [at |-> "interrupted", estimate |-> task[t].estimate] BY <1>2, <3>2
      <4>2. task'[t].at = "interrupted" BY <4>1
      <4> QED BY <3>2, <4>2 DEF Ended
    <3> QED BY <3>1, <3>2
  <2> QED BY <2>1 DEF In
<1>6. Ledger' /\ SettledKeys' = SettledKeys /\ Active' = Active
  BY <1>1, LedgerStays DEF DispatchInv
<1>7. HitsAreSettled' /\ ReservationsReturn'
  BY <1>5, <1>6 DEF HitsAreSettled, ReservationsReturn, DispatchInv, KeyOf
<1>8. DispatchTypeOK'
  BY <1>1, <1>3, <1>6 DEF DispatchInv, DispatchTypeOK, Ledger, Typed
<1> QED BY <1>4, <1>5, <1>6, <1>7, <1>8 DEF DispatchInv

\* What the tasks and the ledger do not see.
LEMMA OtherStep ==
    ASSUME DispatchInv, UNCHANGED <<accountant, round, task, searched>>,
           token' \in BOOLEAN, gather' \in {"idle", "waiting", "returned", "raised", "interrupted"}
    PROVE  DispatchInv' /\ In("searching")' = In("searching")
<1>1. \A place : In(place)' = In(place)
  BY DEF In
<1>2. Ledger' /\ SettledKeys' = SettledKeys /\ Active' = Active
  BY LedgerStays DEF DispatchInv
<1>3. HitsAreSettled' /\ ReservationsReturn' /\ TasksKept'
  BY <1>1, <1>2 DEF HitsAreSettled, ReservationsReturn, TasksKept, DispatchInv, KeyOf
<1>4. DispatchTypeOK'
  BY <1>2 DEF DispatchInv, DispatchTypeOK, Ledger, Typed
<1> QED BY <1>1, <1>2, <1>3, <1>4 DEF DispatchInv

LEMMA DispatchInitInv ==
    ASSUME DispatchInit
    PROVE  DispatchInv
<1>1. Typed
  BY DEF DispatchInit, AccountantInit, Typed, Amounts, Nothing, NoBooking, Bookings
<1>2. Active = {} /\ SettledKeys = {} /\ \A k \in Keys : ~Booked(k)
  BY DEF DispatchInit, AccountantInit, NoBooking, Active, SettledKeys, Booked
<1>3. \A t \in Tasks : task[t].at = "none"
  BY DEF DispatchInit, NoTask
<1>4. CapacityKept
  <2> SUFFICES ASSUME NEW d \in Dimensions PROVE Committed[d] <= Limit[d]
    BY DEF CapacityKept
  <2>1. Reserved[d] = 0
    BY <1>1, <1>2, FS_EmptySet, ReservedType, SumEmpty
  <2>2. Committed[d] = 0
    BY <2>1 DEF Committed, Plus, DispatchInit, AccountantInit, Nothing
  <2> QED BY <2>2, AccountantConstants
<1>5. Ledger
  <2>1. used["search_calls"] = 0
    BY DispatchConstants DEF DispatchInit, AccountantInit, Nothing
  <2> QED BY <1>1, <1>2, <1>4, <2>1, FS_EmptySet DEF Ledger
<1>6. DispatchTypeOK /\ TasksKept
  <2>1. task \in [Tasks -> [at : Places, estimate : {Nothing} \union Estimates]]
    BY DEF DispatchInit, NoTask, Places
  <2>2. round \in 0..Rounds /\ token \in BOOLEAN /\ gather = "idle" /\ searched \in Nat
    <3>1. 0 \in 0..Rounds BY DispatchConstants
    <3>2. round = 0 /\ token = FALSE /\ gather = "idle" /\ searched = 0
      BY DEF DispatchInit
    <3>3. FALSE \in BOOLEAN /\ 0 \in Nat OBVIOUS
    <3> QED BY <3>1, <3>2, <3>3, Zenon
  <2> QED BY <1>1, <1>3, <2>1, <2>2 DEF DispatchTypeOK, TasksKept, Typed
<1>7. HitsAreSettled /\ ReservationsReturn
  BY <1>2, <1>3 DEF HitsAreSettled, ReservationsReturn, In
<1> QED BY <1>5, <1>6, <1>7 DEF DispatchInv

\* The charge is one search per query with a hit.
LEMMA ChargedOnce ==
    ASSUME DispatchInv
    PROVE  ChargedOncePerQuery
BY DEF DispatchInv, Ledger, HitsAreSettled, ChargedOncePerQuery

-----------------------------------------------------------------------------
(* The planner: its ledger, and the gates of the subquestions. *)

Asking == {"waiting", "calling"}

PlanningTypeOK ==
    /\ plan \in [at : {"none", "initial", "rejected", "repair", "made", "failed", "searching"},
                 holds : Nat]
    /\ lent \in Nat /\ spent \in Nat
    /\ gate \in [Subquestions -> Askers \cup {None}] /\ cache \in [Subquestions -> Askers \cup {None}]
    /\ asker \in [Askers -> [at : {"idle"} \cup Asking \cup Finished,
                             gate : Askers \cup {None}, got : Askers \cup {None}]]

\* Who waits or calls has the gate of its subquestion; one calls for it at a
\* time, while nothing is cached; and who returned has what is cached.
GateKept ==
    /\ \A a \in Askers : IF asker[a].at \in Asking
                           THEN asker[a].gate = GateOf(a) /\ GateOf(a) # None
                           ELSE asker[a].gate = None
    /\ \A s \in Subquestions : gate[s] # None => AsksFor[gate[s]] = s
    /\ \A a, b \in At("calling") : AsksFor[a] = AsksFor[b] => a = b
    /\ \A a \in At("calling") : Cached(a) = None
    /\ \A a \in At("returned") : Cached(a) # None /\ asker[a].got = Cached(a)

\* A model is asked for the plan, or for queries once there is a plan.
PlanBeforeQueries ==
    /\ IF plan.at \in {"initial", "repair"}
         THEN \E kind \in DOMAIN Bound : plan.holds = Bound[kind]
         ELSE plan.holds = 0
    /\ plan.at # "made" => \A a \in Askers : asker[a].at = "idle"

LedgerKept ==
    /\ PlannerOverdraft
    /\ plan.at \in {"initial", "repair"} => spent + lent <= MaxTokens

PlanningInv == PlanningTypeOK /\ GateKept /\ PlanBeforeQueries /\ LedgerKept

LEMMA BoundsAre ==
    /\ None \notin Askers /\ IsFiniteSet(Askers) /\ MaxTokens \in Nat /\ MostTokens \in Nat
    /\ \A kind \in DOMAIN Bound : Bound[kind] \in Nat /\ Bound["queries"] <= Bound[kind]
    /\ Bound["queries"] \in Nat /\ Bound["queries"] <= MostTokens
    /\ DOMAIN Bound = {"plan", "repair", "blank repair", "queries"}
    /\ \A a \in Askers : AsksFor[a] \in Subquestions
BY PlannerConstants

\* What one call may use over its bound, and how many subquestions there are.
Overuse == MostTokens - Bound["queries"]
Many    == Cardinality(Subquestions)

LEMMA ManyType == Overuse \in Nat /\ Many \in Nat /\ Many >= 1
<1>1. Many \in Nat
  BY PlannerConstants, FS_CardinalityType DEF Many
<1>2. Many # 0
  BY PlannerConstants, FS_EmptySet DEF Many
<1>3. Overuse \in Nat
  <2> DEFINE B == Bound["queries"]
  <2>1. B \in Nat /\ MostTokens \in Nat /\ B <= MostTokens BY BoundsAre
  <2> HIDE DEF B
  <2>2. MostTokens - B \in Nat BY <2>1
  <2> QED BY <2>2 DEF B, Overuse
<1> QED BY <1>1, <1>2, <1>3

\* Callers of different subquestions are no more than the subquestions.
LEMMA CallersFit ==
    ASSUME NEW S \in SUBSET Askers, \A a, b \in S : AsksFor[a] = AsksFor[b] => a = b
    PROVE  IsFiniteSet(S) /\ Cardinality(S) \in Nat /\ Cardinality(S) <= Many
<1> DEFINE f == [a \in S |-> AsksFor[a]]
<1>1. f \in Injection(S, Subquestions)
  BY BoundsAre DEF Injection, IsInjective
<1>2. IsFiniteSet(S) /\ Cardinality(S) <= Cardinality(Subquestions)
  <2> HIDE DEF f
  <2> QED BY <1>1, FS_Injection, PlannerConstants
<1>3. Cardinality(S) \in Nat
  BY <1>2, FS_CardinalityType
<1> QED BY <1>2, <1>3 DEF Many

LEMMA Products ==
    ASSUME NEW x \in Nat, NEW n \in Int
    PROVE  /\ x * 0 = 0 /\ x * (n + 1) = x * n + x /\ x * (n - 1) = x * n - x
           /\ n >= 0 => x * n >= 0
           /\ x * n \in Int
OBVIOUS

LEMMA NothingLent == Bound["queries"] * 0 = 0
<1> DEFINE B == Bound["queries"]
<1>1. B \in Nat BY BoundsAre
<1> HIDE DEF B
<1>2. B * 0 = 0 BY <1>1
<1> QED BY <1>2 DEF B

\* The two sums of the ledger, for n calls that are out.
Ledgers(n) ==
    /\ lent = plan.holds + Bound["queries"] * n
    /\ spent + lent <= MaxTokens + Overuse * (Many - n)

LEMMA OverdraftIs ==
    ASSUME NEW n
    PROVE  /\ Cardinality(At("calling")) = n => (PlannerOverdraft <=> Ledgers(n))
           /\ Cardinality(At("calling")') = n => (PlannerOverdraft' <=> Ledgers(n)')
BY DEF PlannerOverdraft, Ledgers, Overuse, Many

\* While nobody calls, what is within the budget is within the ledger's bound.
LEMMA LedgerQuiet ==
    ASSUME NEW sum \in Int
    PROVE  /\ sum <= MaxTokens => sum <= MaxTokens + Overuse * (Many - 0)
           /\ sum <= MaxTokens + Overuse => sum <= MaxTokens + Overuse * (Many - 0)
<1>1. Overuse * ((Many - 1) + 1) = Overuse * (Many - 1) + Overuse /\ Overuse * (Many - 1) >= 0
      /\ Overuse * (Many - 1) \in Int
  BY ManyType, Products
<1>2. (Many - 1) + 1 = Many - 0 BY ManyType
<1>3. Overuse * (Many - 0) = Overuse * (Many - 1) + Overuse
  BY <1>1, <1>2
<1>4. Overuse \in Nat /\ MaxTokens \in Nat BY ManyType, BoundsAre
<1> DEFINE P == Overuse * (Many - 0)
           Q == Overuse * (Many - 1)
<1>5. P = Q + Overuse /\ Q >= 0 /\ Q \in Int BY <1>1, <1>3
<1> HIDE DEF P, Q
<1>6. /\ sum <= MaxTokens => sum <= MaxTokens + P
      /\ sum <= MaxTokens + Overuse => sum <= MaxTokens + P
  BY <1>4, <1>5
<1> QED BY <1>6 DEF P

LEMMA PlanningInitInv ==
    ASSUME PlanningInit
    PROVE  PlanningInv
<1>1. \A a \in Askers : asker[a] = Idle
  BY DEF PlanningInit
<1>2. PlanningTypeOK
  BY DEF PlanningInit, PlanningTypeOK, Idle
<1>3. At("calling") = {} /\ At("returned") = {}
  BY <1>1 DEF At, Idle
<1>4. GateKept /\ PlanBeforeQueries
  BY <1>1, <1>3 DEF GateKept, PlanBeforeQueries, Idle, Asking, PlanningInit
<1>5. LedgerKept
  <2>1. lent = 0 /\ spent = 0 /\ plan.holds = 0 /\ plan.at = "none"
    BY DEF PlanningInit
  <2>2. Bound["queries"] * 0 = 0 BY NothingLent
  <2>3. 0 <= MaxTokens /\ 0 + 0 = 0 /\ 0 \in Int
    <3>1. MaxTokens \in Nat BY BoundsAre
    <3> QED BY <3>1
  <2>4. 0 <= MaxTokens + Overuse * (Many - 0) BY <2>3, LedgerQuiet, Zenon
  <2>5. Cardinality(At("calling")) = 0 BY <1>3, FS_EmptySet
  <2>6. Ledgers(0) BY <2>1, <2>2, <2>3, <2>4 DEF Ledgers
  <2> QED BY <2>1, <2>5, <2>6, OverdraftIs DEF LedgerKept
<1> QED BY <1>2, <1>4, <1>5 DEF PlanningInv

\* create_plan: no query is asked for yet.
LEMMA PlanStep ==
    ASSUME PlanningInv, UNCHANGED <<gate, cache, asker>>,
           plan.at # "made", plan' \in [at : {"none", "initial", "rejected", "repair", "made",
                                              "failed", "searching"}, holds : Nat],
           lent' \in Nat, spent' \in Nat, lent' = plan'.holds,
           IF plan'.at \in {"initial", "repair"}
             THEN (\E kind \in DOMAIN Bound : plan'.holds = Bound[kind]) /\ spent' + lent' <= MaxTokens
             ELSE plan'.holds = 0,
           spent' + lent' <= MaxTokens + Overuse * (Many - 0)
    PROVE  PlanningInv'
<1>1. At("calling") = {} /\ At("calling")' = {} /\ At("returned")' = At("returned")
  BY DEF At, PlanningInv, PlanBeforeQueries
<1>2. PlanningTypeOK' /\ PlanBeforeQueries'
  BY DEF PlanningInv, PlanningTypeOK, PlanBeforeQueries
<1>3. GateKept'
  BY <1>1 DEF PlanningInv, GateKept, Cached, GateOf
<1>4. LedgerKept'
  <2>1. Cardinality(At("calling")') = 0 BY <1>1, FS_EmptySet
  <2>2. Bound["queries"] * 0 = 0 BY NothingLent
  <2>3. lent' = plan'.holds + Bound["queries"] * 0 BY <2>2
  <2>4. Ledgers(0)' BY <2>3 DEF Ledgers, Overuse, Many
  <2> QED BY <2>1, <2>4, OverdraftIs DEF LedgerKept
<1> QED BY <1>2, <1>3, <1>4 DEF PlanningInv

\* A request is made for what the ledger covers, or not at all.
LEMMA GenerateStep ==
    ASSUME PlanningInv, plan.at \in {"none", "rejected"},
           NEW stage \in {"initial", "repair"}, NEW kind \in DOMAIN Bound, NEW fallback \in BOOLEAN,
           Generate(stage, kind, fallback), UNCHANGED <<spent, gate, cache, asker>>
    PROVE  PlanningInv'
<1>1. lent = 0 /\ spent \in Nat /\ spent + lent <= MaxTokens + Overuse * (Many - 0)
  <2>1. plan.holds = 0 /\ At("calling") = {}
    BY DEF PlanningInv, PlanBeforeQueries, At
  <2>2. Bound["queries"] * 0 = 0 BY NothingLent
  <2>3. Ledgers(0)
    BY <2>1, OverdraftIs, FS_EmptySet DEF PlanningInv, LedgerKept
  <2> QED BY <2>1, <2>2, <2>3 DEF PlanningInv, PlanningTypeOK, Ledgers
<1>2. CASE GoPlan("failed", 0) /\ UNCHANGED lent
  <2>1. plan' = [at |-> "failed", holds |-> 0] /\ lent' = 0 /\ spent' = spent
    BY <1>1, <1>2 DEF GoPlan
  <2>2. /\ plan' \in [at : {"none", "initial", "rejected", "repair", "made", "failed", "searching"},
                      holds : Nat]
        /\ plan'.at = "failed" /\ plan'.holds = 0
    BY <2>1
  <2> QED BY <1>1, <2>1, <2>2, PlanStep
<1>3. ASSUME NEW k \in DOMAIN Bound, Covers(Bound[k]), lent' = lent + Bound[k],
             GoPlan(stage, Bound[k])
      PROVE  PlanningInv'
  <2>2. Bound[k] \in Nat BY BoundsAre
  <2>1. plan' = [at |-> stage, holds |-> Bound[k]] /\ lent' = Bound[k] /\ spent' = spent
    BY <1>1, <1>3, <2>2 DEF GoPlan
  <2>3. /\ plan' \in [at : {"none", "initial", "rejected", "repair", "made", "failed", "searching"},
                      holds : Nat]
        /\ plan'.at \in {"initial", "repair"} /\ plan'.holds = Bound[k]
    BY <2>1, <2>2
  <2>4. spent' + lent' <= MaxTokens /\ spent' + lent' <= MaxTokens + Overuse * (Many - 0)
    <3> DEFINE K == Bound[k]
    <3>1. MaxTokens \in Nat /\ K \in Nat
      BY BoundsAre
    <3>2. spent + lent + K <= MaxTokens /\ lent' = K BY <1>3, <2>1 DEF Covers
    <3>3. spent' = spent /\ lent = 0 /\ spent \in Nat BY <1>1, <2>1
    <3> HIDE DEF K
    <3>4. spent' + lent' <= MaxTokens /\ spent' + lent' \in Int BY <3>1, <3>2, <3>3
    <3> QED BY <3>4, LedgerQuiet
  <2> QED BY <1>1, <2>1, <2>2, <2>3, <2>4, PlanStep
<1> QED BY <1>2, <1>3, BoundsAre DEF Generate

LEMMA CandidateStep ==
    ASSUME PlanningInv, NEW units \in 0..MostTokens, Candidate(units) \/ CandidateFails(units)
    PROVE  PlanningInv'
<1> DEFINE B == Bound["queries"]
<1>1. plan.at \in {"initial", "repair"} /\ Settled(plan.holds, units) /\ UNCHANGED <<gate, cache, asker>>
  BY DEF Candidate, CandidateFails
<1>2. PICK at \in {"failed", "made", "rejected"} : plan' = [at |-> at, holds |-> 0]
  BY DEF Candidate, CandidateFails, GoPlan
<1>3. PICK kind \in DOMAIN Bound : plan.holds = Bound[kind]
  BY <1>1 DEF PlanningInv, PlanBeforeQueries
<1>4. /\ B \in Nat /\ plan.holds \in Nat /\ B <= plan.holds /\ units \in Nat /\ units <= MostTokens
      /\ MaxTokens \in Nat /\ MostTokens \in Nat /\ spent \in Nat /\ lent \in Nat
  <2>1. B \in Nat /\ plan.holds \in Nat /\ B <= plan.holds
    BY <1>3, BoundsAre
  <2>2. MaxTokens \in Nat /\ MostTokens \in Nat BY BoundsAre
  <2>3. units \in Nat /\ units <= MostTokens BY <2>2
  <2>4. spent \in Nat /\ lent \in Nat BY DEF PlanningInv, PlanningTypeOK
  <2> QED BY <2>1, <2>2, <2>3, <2>4
<1>5. lent = plan.holds /\ spent + lent <= MaxTokens
  <2>1. At("calling") = {} BY <1>1 DEF PlanningInv, PlanBeforeQueries, At
  <2>2. B * 0 = 0 BY <1>4, Products
  <2>3. Ledgers(0) BY <2>1, OverdraftIs, FS_EmptySet DEF PlanningInv, LedgerKept
  <2>4. lent = plan.holds + 0 BY <2>2, <2>3 DEF Ledgers
  <2> QED BY <1>1, <1>4, <2>4 DEF PlanningInv, LedgerKept
<1>6. lent' = lent - plan.holds /\ spent' = spent + units
  BY <1>1 DEF Settled
<1>7. plan'.at = at /\ plan'.holds = 0 /\ plan' \in [at : {"none", "initial", "rejected", "repair",
                                       "made", "failed", "searching"}, holds : Nat]
  BY <1>2
<1>8. plan.at # "made" BY <1>1
<1>9. lent' = 0 /\ spent' \in Nat /\ spent' + lent' <= MaxTokens + Overuse * (Many - 0)
  <2>1. Overuse = MostTokens - B BY DEF Overuse
  <2> HIDE DEF B
  <2>2. lent' = 0 /\ spent' \in Nat /\ spent' + lent' <= MaxTokens + Overuse
    BY <1>4, <1>5, <1>6, <2>1
  <2>3. spent' + lent' \in Int BY <2>2
  <2> QED BY <2>2, <2>3, LedgerQuiet
<1> QED BY <1>1, <1>7, <1>8, <1>9, PlanStep

\* Who asks no longer waits or calls: its gate goes if nobody else has it.
LEMMA AskerEnds ==
    ASSUME PlanningInv, NEW a \in Askers, asker[a].at \in Asking, Leave(a), UNCHANGED plan,
           NEW place \in Finished, NEW got \in Askers \cup {None}, NEW kept \in Askers \cup {None},
           asker' = [asker EXCEPT ![a] = [at |-> place, gate |-> None, got |-> got]],
           lent' \in Nat, spent' \in Nat, SetCached(a, kept),
           kept = Cached(a) \/ asker[a].at = "calling",
           place = "returned" => kept # None /\ got = kept
    PROVE  /\ PlanningTypeOK' /\ GateKept' /\ PlanBeforeQueries'
           /\ At("calling")' = At("calling") \ {a}
<1>1. \A b \in Askers : asker'[b] = IF b = a THEN [at |-> place, gate |-> None, got |-> got]
                                    ELSE asker[b]
  BY DEF PlanningInv, PlanningTypeOK
<1>2. At("calling")' = At("calling") \ {a}
  BY <1>1 DEF At, Finished
<1>3. /\ asker[a].gate = GateOf(a) /\ GateOf(a) # None
      /\ AsksFor[a] \in Subquestions /\ AsksFor[GateOf(a)] = AsksFor[a]
  BY BoundsAre DEF PlanningInv, GateKept, GateOf
<1>4. /\ \A s \in Subquestions : gate'[s] = IF s = AsksFor[a] /\ UsersOf(GateOf(a)) = {a}
                                              THEN None ELSE gate[s]
      /\ gate' \in [Subquestions -> Askers \cup {None}]
  BY <1>3 DEF PlanningInv, PlanningTypeOK, Leave, SetGate, GateOf
<1>5. /\ \A s \in Subquestions : cache'[s] = IF s = AsksFor[a] THEN kept ELSE cache[s]
      /\ cache' \in [Subquestions -> Askers \cup {None}]
  BY <1>3 DEF PlanningInv, PlanningTypeOK, SetCached
<1>6. PlanningTypeOK'
  BY <1>4, <1>5 DEF PlanningInv, PlanningTypeOK
<1>7. PlanBeforeQueries'
  <2>1. plan.at = "made" BY DEF PlanningInv, PlanBeforeQueries, Asking
  <2> QED BY <2>1 DEF PlanningInv, PlanBeforeQueries
<1>8. GateKept'
  <2>1. ASSUME NEW b \in Askers
        PROVE  IF asker'[b].at \in Asking THEN asker'[b].gate = GateOf(b)' /\ GateOf(b)' # None
                                          ELSE asker'[b].gate = None
    <3>1. CASE b = a
      BY <1>1, <3>1 DEF Finished, Asking
    <3>2. CASE b # a /\ asker[b].at \notin Asking
      BY <1>1, <3>2 DEF PlanningInv, GateKept
    <3>3. CASE b # a /\ asker[b].at \in Asking
      <4>1. asker[b].gate = GateOf(b) /\ GateOf(b) # None /\ AsksFor[b] \in Subquestions
        BY <3>3, BoundsAre DEF PlanningInv, GateKept
      <4>2. AsksFor[b] = AsksFor[a] => UsersOf(GateOf(a)) # {a}
        BY <3>3, <4>1 DEF UsersOf, GateOf
      <4>3. GateOf(b)' = GateOf(b) BY <1>4, <4>1, <4>2 DEF GateOf
      <4> QED BY <1>1, <3>3, <4>1, <4>3
    <3> QED BY <3>1, <3>2, <3>3
  <2>2. \A s \in Subquestions : gate'[s] # None => AsksFor[gate'[s]] = s
    BY <1>4 DEF PlanningInv, GateKept
  <2>3. ASSUME NEW b \in At("calling")' PROVE Cached(b)' = None
    <3>1. b \in At("calling") /\ b # a /\ AsksFor[b] \in Subquestions /\ Cached(b) = None
      BY <1>2, <2>3, BoundsAre DEF PlanningInv, GateKept, At
    <3>2. CASE AsksFor[b] = AsksFor[a]
      <4>1. a \notin At("calling") BY <3>1, <3>2 DEF PlanningInv, GateKept
      <4>2. kept = Cached(a) BY <4>1 DEF At
      <4> QED BY <1>5, <3>1, <3>2, <4>2 DEF Cached
    <3>3. CASE AsksFor[b] # AsksFor[a]
      BY <1>5, <3>1, <3>3 DEF Cached
    <3> QED BY <3>2, <3>3
  <2>4. ASSUME NEW b \in At("returned")' PROVE Cached(b)' # None /\ asker'[b].got = Cached(b)'
    <3>1. CASE b = a
      <4>1. Cached(a)' = kept BY <1>3, <1>5 DEF Cached
      <4>2. asker'[a] = [at |-> place, gate |-> None, got |-> got] BY <1>1
      <4>3. place = "returned" BY <2>4, <3>1, <4>2 DEF At
      <4> QED BY <3>1, <4>1, <4>2, <4>3
    <3>2. CASE b # a
      <4>1. b \in At("returned") /\ asker'[b] = asker[b] /\ AsksFor[b] \in Subquestions
        BY <1>1, <2>4, <3>2, BoundsAre DEF At
      <4>2. Cached(b) # None /\ asker[b].got = Cached(b) BY <4>1 DEF PlanningInv, GateKept
      <4>3. Cached(b)' = Cached(b)
        <5>1. CASE AsksFor[b] # AsksFor[a] BY <1>5, <4>1, <5>1 DEF Cached
        <5>2. CASE AsksFor[b] = AsksFor[a]
          <6>1. Cached(a) # None BY <4>2, <5>2 DEF Cached
          <6>2. a \notin At("calling") BY <6>1 DEF PlanningInv, GateKept
          <6>3. kept = Cached(a) BY <6>2 DEF At
          <6> QED BY <1>5, <4>1, <5>2, <6>3 DEF Cached
        <5> QED BY <5>1, <5>2
      <4> QED BY <4>1, <4>2, <4>3
    <3> QED BY <3>1, <3>2
  <2>5. \A b, c \in At("calling")' : AsksFor[b] = AsksFor[c] => b = c
    BY <1>2 DEF PlanningInv, GateKept
  <2> QED BY <2>1, <2>2, <2>3, <2>4, <2>5 DEF GateKept
<1> QED BY <1>2, <1>6, <1>7, <1>8

\* The same, when nobody's call ends with it.
LEMMA WaiterEnds ==
    ASSUME PlanningInv, NEW a \in Askers, asker[a].at = "waiting", Leave(a), UNCHANGED <<plan, lent, spent, cache>>,
           NEW place \in Finished, NEW got \in Askers \cup {None},
           asker' = [asker EXCEPT ![a] = [at |-> place, gate |-> None, got |-> got]],
           place = "returned" => Cached(a) # None /\ got = Cached(a)
    PROVE  PlanningInv'
<1>1. asker[a].at \in Asking BY DEF Asking
<1>2. lent' \in Nat /\ spent' \in Nat /\ Cached(a) \in Askers \cup {None} /\ SetCached(a, Cached(a))
  BY BoundsAre DEF PlanningInv, PlanningTypeOK, Cached, SetCached
<1>3. /\ PlanningTypeOK' /\ GateKept' /\ PlanBeforeQueries'
      /\ At("calling")' = At("calling") \ {a}
  BY <1>1, <1>2, AskerEnds
<1>4. At("calling")' = At("calling") BY <1>3 DEF At
<1>5. LedgerKept' BY <1>4 DEF PlanningInv, LedgerKept, PlannerOverdraft
<1> QED BY <1>3, <1>5 DEF PlanningInv

\* The same, with what the call used.
LEMMA CallerEnds ==
    ASSUME PlanningInv, NEW a \in Askers, asker[a].at = "calling", Leave(a), UNCHANGED plan,
           NEW units \in 0..MostTokens, Settled(Bound["queries"], units),
           NEW place \in Finished, NEW got \in Askers \cup {None}, NEW kept \in Askers \cup {None},
           asker' = [asker EXCEPT ![a] = [at |-> place, gate |-> None, got |-> got]],
           SetCached(a, kept),
           place = "returned" => kept # None /\ got = kept
    PROVE  PlanningInv'
<1> DEFINE B == Bound["queries"]
<1>0. PICK n : n = Cardinality(At("calling")) OBVIOUS
<1>1. asker[a].at \in Asking BY DEF Asking
<1>2. plan.at = "made" /\ plan.holds = 0 /\ a \in At("calling") /\ At("calling") \subseteq Askers
  BY DEF PlanningInv, PlanBeforeQueries, At
<1>3. IsFiniteSet(At("calling")) /\ n \in Nat /\ n <= Many /\ n >= 1
  <2>1. IsFiniteSet(At("calling")) /\ n \in Nat /\ n <= Many
    BY <1>0, <1>2, CallersFit DEF PlanningInv, GateKept
  <2>2. n # 0 BY <1>0, <1>2, <2>1, FS_EmptySet
  <2> QED BY <2>1, <2>2
<1>4. /\ B \in Nat /\ MaxTokens \in Nat /\ MostTokens \in Nat /\ Overuse = MostTokens - B
      /\ units \in Nat /\ units <= MostTokens /\ spent \in Nat /\ Overuse \in Nat /\ Many \in Nat
  <2>1. B \in Nat /\ MaxTokens \in Nat /\ MostTokens \in Nat BY BoundsAre
  <2>2. units \in Nat /\ units <= MostTokens BY <2>1
  <2>3. spent \in Nat BY DEF PlanningInv, PlanningTypeOK
  <2> QED BY <2>1, <2>2, <2>3, ManyType DEF Overuse
<1>5. lent = 0 + B * n /\ spent + lent <= MaxTokens + Overuse * (Many - n)
  BY <1>0, <1>2, OverdraftIs DEF PlanningInv, LedgerKept, Ledgers
<1>6. lent' = lent - B /\ spent' = spent + units
  BY DEF Settled
<1>7. /\ B * (n - 1) = B * n - B /\ B * (n - 1) >= 0 /\ B * n \in Int
      /\ Overuse * ((Many - n) + 1) = Overuse * (Many - n) + Overuse
      /\ Overuse * (Many - n) \in Int
  BY <1>3, <1>4, Products
<1> DEFINE p == B * n
           q == Overuse * (Many - n)
           q2 == Overuse * (Many - (n - 1))
<1>8. (Many - n) + 1 = Many - (n - 1) BY <1>3, <1>4
<1>9. /\ lent = p /\ p \in Int /\ p - B >= 0 /\ spent + lent <= MaxTokens + q
      /\ q2 = q + Overuse /\ q \in Int
  BY <1>4, <1>5, <1>7, <1>8
<1>10. lent' = p - B /\ lent' \in Nat /\ spent' \in Nat /\ spent' + lent' <= MaxTokens + q2
  <2> HIDE DEF B, p, q, q2
  <2> QED BY <1>4, <1>6, <1>9
<1>11. /\ PlanningTypeOK' /\ GateKept' /\ PlanBeforeQueries'
      /\ At("calling")' = At("calling") \ {a}
  BY <1>1, <1>10, AskerEnds
<1>12. Cardinality(At("calling")') = n - 1
  BY <1>0, <1>2, <1>3, <1>11, FS_RemoveElement
<1>13. Ledgers(n - 1)'
  <2>1. lent' = plan'.holds + B * (n - 1)
    <3>1. plan'.holds = 0 /\ lent' = B * (n - 1) BY <1>2, <1>7, <1>10
    <3>2. B * (n - 1) \in Int BY <1>3, <1>4, Products
    <3> QED BY <3>1, <3>2
  <2> QED BY <1>10, <2>1 DEF Ledgers, Overuse, Many
<1>14. LedgerKept'
  BY <1>2, <1>12, <1>13, OverdraftIs DEF LedgerKept
<1> QED BY <1>11, <1>14 DEF PlanningInv

LEMMA AskStep ==
    ASSUME PlanningInv, NEW a \in Askers, Ask(a)
    PROVE  PlanningInv'
<1>1. /\ plan.at = "made" /\ asker[a].at = "idle"
      /\ UNCHANGED <<plan, lent, spent, cache>>
  BY DEF Ask
<1>2. asker[a].gate = None /\ AsksFor[a] \in Subquestions
  BY <1>1, BoundsAre DEF PlanningInv, GateKept, Asking
<1> DEFINE AsksWith(w, g) ==
             /\ asker' = [asker EXCEPT ![a] = w] /\ gate' = [gate EXCEPT ![AsksFor[a]] = g]
             /\ w \in [at : {"waiting"} \cup Finished, gate : Askers \cup {None}, got : Askers \cup {None}]
             /\ g \in Askers \cup {None} /\ (g = GateOf(a) \/ (GateOf(a) = None /\ g = a))
             /\ IF w.at = "waiting" THEN w.gate = g /\ g # None ELSE w.gate = None
             /\ w.at = "returned" => Cached(a) # None /\ w.got = Cached(a)
<1>3. ASSUME NEW w, NEW g, AsksWith(w, g)
      PROVE  PlanningInv'
  <2>1. \A b \in Askers : asker'[b] = IF b = a THEN w ELSE asker[b]
    BY <1>3 DEF PlanningInv, PlanningTypeOK
  <2>2. At("calling")' = At("calling")
    BY <1>1, <1>3, <2>1 DEF At, Finished
  <2>3. \A s \in Subquestions : gate'[s] = IF s = AsksFor[a] THEN g ELSE gate[s]
    BY <1>3 DEF PlanningInv, PlanningTypeOK
  <2>4. PlanningTypeOK'
    BY <1>1, <1>3 DEF PlanningInv, PlanningTypeOK, Asking
  <2>5. PlanBeforeQueries'
    BY <1>1 DEF PlanningInv, PlanBeforeQueries
  <2>6. LedgerKept'
    BY <1>1, <2>2 DEF PlanningInv, LedgerKept, PlannerOverdraft
  <2>7. ASSUME NEW b \in Askers
        PROVE  IF asker'[b].at \in Asking THEN asker'[b].gate = GateOf(b)' /\ GateOf(b)' # None
                                          ELSE asker'[b].gate = None
    <3>1. CASE b = a
      <4>1. GateOf(a)' = g /\ asker'[a] = w BY <1>2, <2>1, <2>3 DEF GateOf
      <4> QED BY <1>3, <3>1, <4>1 DEF Finished, Asking
    <3>2. CASE b # a
      <4>1. asker'[b] = asker[b] /\ AsksFor[b] \in Subquestions BY <2>1, <3>2, BoundsAre
      <4>2. GateOf(b) # None => GateOf(b)' = GateOf(b) BY <1>3, <2>3, <4>1 DEF GateOf
      <4> QED BY <4>1, <4>2 DEF PlanningInv, GateKept
    <3> QED BY <3>1, <3>2
  <2>8. ASSUME NEW b \in At("returned")' PROVE Cached(b)' # None /\ asker'[b].got = Cached(b)'
    BY <1>1, <1>3, <2>1 DEF PlanningInv, GateKept, At, Cached
  <2>9. \A s \in Subquestions : gate'[s] # None => AsksFor[gate'[s]] = s
    BY <1>3, <2>3 DEF PlanningInv, GateKept, GateOf
  <2>10. GateKept'
    BY <1>1, <2>2, <2>7, <2>8, <2>9 DEF PlanningInv, GateKept, Cached
  <2> QED BY <2>4, <2>5, <2>6, <2>10 DEF PlanningInv
<1>4. gate = [gate EXCEPT ![AsksFor[a]] = GateOf(a)] /\ GateOf(a) \in Askers \cup {None}
      /\ Cached(a) \in Askers \cup {None}
  BY <1>2 DEF PlanningInv, PlanningTypeOK, GateOf, Cached
<1>5. CASE EndAs(a, "stopped") /\ UNCHANGED gate
  <2> DEFINE w == [at |-> "stopped", gate |-> None, got |-> None]
  <2>1. asker' = [asker EXCEPT ![a] = w] BY <1>5 DEF EndAs
  <2>2. /\ w \in [at : {"waiting"} \cup Finished, gate : Askers \cup {None}, got : Askers \cup {None}]
        /\ w.at = "stopped" /\ w.gate = None
    BY DEF Finished
  <2>3. gate' = [gate EXCEPT ![AsksFor[a]] = GateOf(a)] BY <1>4, <1>5
  <2> HIDE DEF w
  <2>4. AsksWith(w, GateOf(a)) BY <1>4, <2>1, <2>2, <2>3
  <2> HIDE DEF AsksWith
  <2> QED BY <1>3, <2>4
<1>6. CASE Cached(a) # None /\ Return(a, Cached(a)) /\ UNCHANGED gate
  <2> DEFINE w == [at |-> "returned", gate |-> None, got |-> Cached(a)]
  <2>1. asker' = [asker EXCEPT ![a] = w] BY <1>6 DEF Return
  <2>2. /\ w \in [at : {"waiting"} \cup Finished, gate : Askers \cup {None}, got : Askers \cup {None}]
        /\ w.at = "returned" /\ w.gate = None /\ w.got = Cached(a)
    BY <1>4 DEF Finished
  <2>3. gate' = [gate EXCEPT ![AsksFor[a]] = GateOf(a)] BY <1>4, <1>6
  <2> HIDE DEF w
  <2>4. AsksWith(w, GateOf(a)) BY <1>4, <1>6, <2>1, <2>2, <2>3
  <2> HIDE DEF AsksWith
  <2> QED BY <1>3, <2>4
<1>7. CASE /\ SetGate(a, IF GateOf(a) = None THEN a ELSE GateOf(a))
           /\ asker' = [asker EXCEPT ![a] = [at |-> "waiting", gate |-> GateOf(a)', got |-> None]]
  <2> DEFINE w == [at |-> "waiting", gate |-> GateOf(a)', got |-> None]
  <2>1. PICK g \in Askers : /\ g # None /\ g = IF GateOf(a) = None THEN a ELSE GateOf(a)
                            /\ gate' = [gate EXCEPT ![AsksFor[a]] = g]
    BY <1>4, <1>7, BoundsAre DEF SetGate
  <2>2. GateOf(a)' = g BY <1>2, <2>1 DEF PlanningInv, PlanningTypeOK, GateOf
  <2>3. asker' = [asker EXCEPT ![a] = w] BY <1>7
  <2>4. /\ w \in [at : {"waiting"} \cup Finished, gate : Askers \cup {None}, got : Askers \cup {None}]
        /\ w.at = "waiting" /\ w.gate = g
    BY <2>2
  <2> HIDE DEF w
  <2>5. AsksWith(w, g) BY <2>1, <2>3, <2>4
  <2> HIDE DEF AsksWith
  <2> QED BY <1>3, <2>5
<1> QED BY <1>5, <1>6, <1>7 DEF Ask

LEMMA EnterStep ==
    ASSUME PlanningInv, NEW a \in Askers, Enter(a)
    PROVE  PlanningInv'
<1> DEFINE B == Bound["queries"]
<1>0. PICK n : n = Cardinality(At("calling")) OBVIOUS
<1>1. /\ asker[a].at = "waiting" /\ Holder(asker[a].gate) = {} /\ UNCHANGED <<plan, spent, cache>>
  BY DEF Enter
<1>2. \A b \in At("calling") : AsksFor[b] # AsksFor[a]
  <2>1. \A b \in At("calling") : asker[b].gate = GateOf(b) /\ asker[a].gate = GateOf(a)
    BY <1>1 DEF PlanningInv, GateKept, At, Asking
  <2> QED BY <1>1, <2>1 DEF Holder, GateOf
<1>3. CASE EndAs(a, "stopped") /\ Leave(a) /\ UNCHANGED lent
  BY <1>1, <1>3, WaiterEnds DEF EndAs, Finished
<1>4. CASE Cached(a) # None /\ Return(a, Cached(a)) /\ Leave(a) /\ UNCHANGED lent
  <2>1. Cached(a) \in Askers \cup {None} BY BoundsAre DEF PlanningInv, PlanningTypeOK, Cached
  <2> QED BY <1>1, <1>4, <2>1, WaiterEnds DEF Return, Finished
<1>5. CASE EndAs(a, "budget") /\ Leave(a) /\ UNCHANGED lent
  BY <1>1, <1>5, WaiterEnds DEF EndAs, Finished
<1>6. CASE /\ Cached(a) = None /\ Covers(B) /\ lent' = lent + B
           /\ asker' = [asker EXCEPT ![a].at = "calling"] /\ UNCHANGED gate
  <2>1. /\ asker[a].gate = GateOf(a) /\ GateOf(a) # None /\ plan.at = "made" /\ plan.holds = 0
        /\ a \notin At("calling") /\ At("calling") \subseteq Askers
    BY <1>1 DEF PlanningInv, GateKept, PlanBeforeQueries, Asking, At
  <2>2. /\ B \in Nat /\ MaxTokens \in Nat /\ spent \in Nat /\ lent \in Nat
        /\ Overuse \in Nat /\ Many \in Nat
    BY BoundsAre, ManyType DEF PlanningInv, PlanningTypeOK
  <2>3. \A b \in Askers : /\ asker'[b].gate = asker[b].gate /\ asker'[b].got = asker[b].got
                          /\ asker'[b].at = IF b = a THEN "calling" ELSE asker[b].at
    BY <1>6 DEF PlanningInv, PlanningTypeOK
  <2>4. At("calling")' = At("calling") \cup {a} /\ At("returned")' = At("returned")
    BY <1>1, <2>3 DEF At
  <2>5. PlanningTypeOK'
    <3>1. asker' \in [Askers -> [at : {"idle"} \cup Asking \cup Finished,
                                 gate : Askers \cup {None}, got : Askers \cup {None}]]
      BY <1>6 DEF PlanningInv, PlanningTypeOK, Asking
    <3>2. lent' \in Nat
      <4> HIDE DEF B
      <4> QED BY <1>6, <2>2
    <3> QED BY <1>1, <1>6, <3>1, <3>2 DEF PlanningInv, PlanningTypeOK
  <2>6. GateKept'
    <3>1. \A b \in Askers : GateOf(b)' = GateOf(b) /\ Cached(b)' = Cached(b)
      BY <1>1, <1>6 DEF GateOf, Cached
    <3>2. \A b, c \in At("calling")' : AsksFor[b] = AsksFor[c] => b = c
      BY <1>2, <2>4 DEF PlanningInv, GateKept
    <3>3. \A b \in At("calling")' : Cached(b)' = None
      BY <1>6, <2>1, <2>4, <3>1 DEF PlanningInv, GateKept
    <3>4. \A b \in At("returned")' : Cached(b)' # None /\ asker'[b].got = Cached(b)'
      BY <2>3, <2>4, <3>1 DEF PlanningInv, GateKept, At
    <3>5. \A b \in Askers : IF asker'[b].at \in Asking
                              THEN asker'[b].gate = GateOf(b)' /\ GateOf(b)' # None
                              ELSE asker'[b].gate = None
      BY <1>1, <2>1, <2>3, <3>1 DEF PlanningInv, GateKept, Asking
    <3>6. \A s \in Subquestions : gate'[s] # None => AsksFor[gate'[s]] = s
      BY <1>6 DEF PlanningInv, GateKept
    <3> QED BY <3>2, <3>3, <3>4, <3>5, <3>6 DEF GateKept
  <2>7. PlanBeforeQueries'
    BY <1>1, <2>1 DEF PlanningInv, PlanBeforeQueries
  <2>8. IsFiniteSet(At("calling")) /\ n \in Nat
    BY <1>0, <2>1, CallersFit DEF PlanningInv, GateKept
  <2>9. Cardinality(At("calling")') = n + 1 /\ n + 1 <= Many
    <3>1. Cardinality(At("calling")') = n + 1
      BY <1>0, <2>1, <2>4, <2>8, FS_AddElement
    <3>2. \A b, c \in At("calling")' : AsksFor[b] = AsksFor[c] => b = c
      BY <2>6 DEF GateKept
    <3>3. At("calling")' \subseteq Askers BY <2>1, <2>4
    <3> QED BY <3>1, <3>2, <3>3, CallersFit
  <2>10. lent = B * n
    <3>1. lent = 0 + B * n
      BY <1>0, <2>1, OverdraftIs DEF PlanningInv, LedgerKept, Ledgers
    <3>2. B * n \in Int BY <2>2, <2>8, Products
    <3> QED BY <3>1, <3>2
  <2>11. Ledgers(n + 1)'
    <3>1. B * (n + 1) = B * n + B /\ B * n \in Int BY <2>2, <2>8, Products
    <3>2. Many - (n + 1) \in Int /\ Many - (n + 1) >= 0 BY <2>2, <2>8, <2>9
    <3>3. Overuse * (Many - (n + 1)) >= 0 /\ Overuse * (Many - (n + 1)) \in Int
      BY <2>2, <3>2, Products
    <3> DEFINE p == B * n
               p2 == B * (n + 1)
               q == Overuse * (Many - (n + 1))
    <3>4. lent = p /\ p2 = p + B /\ p \in Int /\ q >= 0 /\ q \in Int BY <2>10, <3>1, <3>3
    <3>5. spent + lent + B <= MaxTokens BY <1>6 DEF Covers
    <3>6. lent' = 0 + p2 /\ spent' + lent' <= MaxTokens + q
      <4> HIDE DEF B, p, p2, q
      <4> QED BY <1>1, <1>6, <2>2, <3>4, <3>5
    <3>7. plan'.holds = 0 BY <1>1, <2>1
    <3>8. lent' = plan'.holds + p2 BY <3>6, <3>7
    <3> QED BY <3>6, <3>8 DEF Ledgers, Overuse, Many
  <2>12. LedgerKept'
    BY <1>1, <2>1, <2>9, <2>11, OverdraftIs DEF LedgerKept
  <2> QED BY <2>5, <2>6, <2>7, <2>12 DEF PlanningInv
<1> QED BY <1>3, <1>4, <1>5, <1>6 DEF Enter

LEMMA BeginStep ==
    ASSUME PlanningInv, Begin
    PROVE  PlanningInv'
<1>1. /\ plan' = [at |-> "searching", holds |-> 0] /\ lent' = 0 /\ spent' = 0
      /\ gate' = [s \in Subquestions |-> None] /\ cache' = [s \in Subquestions |-> None]
      /\ asker' = [a \in Askers |-> Idle]
  BY DEF Begin, GoPlan
<1>2. At("calling")' = {} /\ At("returned")' = {} /\ \A a \in Askers : asker'[a] = Idle
  BY <1>1 DEF At, Idle
<1>3. PlanningTypeOK'
  BY <1>1 DEF PlanningTypeOK, Idle
<1>4. GateKept' /\ PlanBeforeQueries'
  BY <1>1, <1>2 DEF GateKept, PlanBeforeQueries, Idle, Asking
<1>5. LedgerKept'
  <2>1. Bound["queries"] * 0 = 0 BY NothingLent
  <2>2. 0 <= MaxTokens /\ 0 + 0 = 0 /\ 0 \in Int
    <3>1. MaxTokens \in Nat BY BoundsAre
    <3> QED BY <3>1
  <2>3. 0 <= MaxTokens + Overuse * (Many - 0) BY <2>2, LedgerQuiet, Zenon
  <2>4. Cardinality(At("calling")') = 0 BY <1>2, FS_EmptySet
  <2>5. Ledgers(0)' BY <1>1, <2>1, <2>2, <2>3 DEF Ledgers, Overuse, Many
  <2> QED BY <1>1, <2>4, <2>5, OverdraftIs DEF LedgerKept
<1> QED BY <1>3, <1>4, <1>5 DEF PlanningInv
-----------------------------------------------------------------------------
(* Every step, and the theorems. *)

Inv == DispatchInv /\ PlanningInv

\* A step of the rounds leaves the planner alone, one of the planner the rounds.
LEMMA InvStep ==
    ASSUME Inv, [PlanningNext]_pvars
    PROVE  Inv' /\ (token => In("searching")' \subseteq In("searching"))
<1> USE DEF Inv
<1>1. ASSUME UNCHANGED planning PROVE PlanningInv'
  BY <1>1 DEF planning, PlanningInv, PlanningTypeOK, GateKept, PlanBeforeQueries, LedgerKept,
              PlannerOverdraft, At, Cached, GateOf
<1>2. ASSUME UNCHANGED dvars PROVE DispatchInv' /\ In("searching")' = In("searching")
  BY <1>2, OtherStep DEF dvars, DispatchInv, DispatchTypeOK
<1>3. CASE StartPlan
  <2>1. PlanningInv'
    <3>1. plan.at = "none" /\ Generate("initial", "plan", FALSE)
          /\ UNCHANGED <<spent, gate, cache, asker>>
      BY <1>3 DEF StartPlan
    <3> QED BY <3>1, GenerateStep, BoundsAre
  <2> QED BY <1>2, <1>3, <2>1 DEF StartPlan
<1>4. CASE Repair
  <2>1. PlanningInv'
    <3>1. /\ plan.at = "rejected" /\ UNCHANGED <<spent, gate, cache, asker>>
          /\ \/ Generate("repair", "repair", TRUE)
             \/ Generate("repair", "blank repair", FALSE)
      BY <1>4 DEF Repair
    <3> QED BY <3>1, GenerateStep, BoundsAre
  <2> QED BY <1>2, <1>4, <2>1 DEF Repair
<1>5. CASE Begin
  BY <1>2, <1>5, BeginStep DEF Begin
<1>6. CASE Round
  BY <1>1, <1>6, DispatchStep DEF Round
<1>7. ASSUME NEW units \in 0..MostTokens, Candidate(units) \/ CandidateFails(units)
      PROVE  Inv' /\ In("searching")' = In("searching")
  BY <1>2, <1>7, CandidateStep DEF Candidate, CandidateFails
<1>8. ASSUME NEW a \in Askers, Ask(a)
      PROVE  Inv' /\ In("searching")' = In("searching")
  BY <1>2, <1>8, AskStep DEF Ask
<1>9. ASSUME NEW a \in Askers, Enter(a)
      PROVE  Inv' /\ In("searching")' = In("searching")
  BY <1>2, <1>9, EnterStep DEF Enter
<1>10. ASSUME NEW a \in Askers, Desist(a)
       PROVE  Inv' /\ In("searching")' = In("searching")
  <2>1. PlanningInv'
    BY <1>10, WaiterEnds DEF Desist, EndAs, Finished
  <2> QED BY <1>2, <1>10, <2>1 DEF Desist
<1>11. ASSUME NEW a \in Askers, NEW units \in 0..MostTokens, Queries(a, units) \/ QueriesFail(a, units)
       PROVE  Inv' /\ In("searching")' = In("searching")
  <2>1. /\ asker[a].at = "calling" /\ Settled(Bound["queries"], units) /\ Leave(a)
        /\ UNCHANGED <<dvars, plan>>
    BY <1>11 DEF Queries, QueriesFail
  <2>2. Cached(a) \in Askers \cup {None} /\ (UNCHANGED cache => SetCached(a, Cached(a)))
    <3>1. [cache EXCEPT ![AsksFor[a]] = Cached(a)] = cache
      BY BoundsAre DEF PlanningInv, PlanningTypeOK, Cached
    <3> QED BY <3>1, BoundsAre DEF PlanningInv, PlanningTypeOK, Cached, SetCached
  <2>3. ASSUME SetCached(a, a), Return(a, a) PROVE PlanningInv'
    <3>1. /\ "returned" \in Finished /\ a \in Askers \cup {None} /\ a # None
          /\ asker' = [asker EXCEPT ![a] = [at |-> "returned", gate |-> None, got |-> a]]
      BY <2>3, BoundsAre DEF Return, Finished
    <3>2. PlanningInv /\ UNCHANGED plan BY <2>1
    <3> QED BY <2>1, <2>3, <3>1, <3>2, CallerEnds, Zenon
  <2>4. ASSUME NEW place \in {"stopped", "budget", "failed"}, EndAs(a, place),
               NEW kept \in Askers \cup {None}, SetCached(a, kept)
        PROVE  PlanningInv'
    BY <2>1, <2>4, CallerEnds DEF EndAs, Finished
  <2>5. PlanningInv'
    BY <1>11, <2>2, <2>3, <2>4 DEF Queries, QueriesFail
  <2> QED BY <1>2, <2>1, <2>5
<1>12. CASE UNCHANGED planning /\ (Cancel \/ Gather)
  <2>1. DispatchInv' /\ In("searching")' = In("searching")
    BY <1>12, OtherStep DEF Cancel, Gather, DispatchInv, DispatchTypeOK
  <2> QED BY <1>1, <1>12, <2>1
<1>13. CASE UNCHANGED planning /\ Interrupt
  BY <1>1, <1>13, InterruptStep
<1>14. CASE UNCHANGED planning /\ \E t \in Tasks : Start(t) \/ Answer(t) \/ Fail(t)
  BY <1>1, <1>14, StartStep, AnswerStep, FailStep
<1>15. CASE UNCHANGED pvars
  BY <1>1, <1>2, <1>15 DEF pvars
<1> QED BY <1>3, <1>4, <1>5, <1>6, <1>7, <1>8, <1>9, <1>10, <1>11, <1>12, <1>13, <1>14, <1>15
        DEF PlanningNext

LEMMA InvHolds == PlanningSpec => []Inv
<1>1. PlanningInit => Inv
  BY DispatchInitInv, PlanningInitInv DEF PlanningInit, Inv
<1>2. Inv /\ [PlanningNext]_pvars => Inv'
  BY InvStep
<1> QED BY <1>1, <1>2, PTL DEF PlanningSpec

\* The rounds stay typed, whatever the tasks do.
THEOREM DispatchTyped == PlanningSpec => []DispatchTypeOK
<1>1. Inv => DispatchTypeOK BY DEF Inv, DispatchInv
<1> QED BY <1>1, InvHolds, PTL

\* What concurrent searches used and reserved stays within the budget, for any
\* number of tasks, queries and rounds: reserve admits only what fits beside
\* what is reserved, and a search costs no more than was reserved for it.
THEOREM CapacityIsKept == PlanningSpec => []CapacityKept
<1>1. Inv => CapacityKept BY DEF Inv, DispatchInv, Ledger
<1> QED BY <1>1, InvHolds, PTL

\* A reservation outlives no task of its query, unless the caller was cancelled.
THEOREM ReservationsAreReturned == PlanningSpec => []ReservationsReturn
<1>1. Inv => ReservationsReturn BY DEF Inv, DispatchInv
<1> QED BY <1>1, InvHolds, PTL

\* The run is charged one search for every query that returned hits.
THEOREM QueriesAreChargedOnce == PlanningSpec => []ChargedOncePerQuery
<1>1. Inv => ChargedOncePerQuery BY ChargedOnce DEF Inv
<1> QED BY <1>1, InvHolds, PTL

\* Askers of one subquestion get the same queries, and the planner's ledger is
\* overdrawn by one call of each subquestion at most.
THEOREM PlannerIsSound == PlanningSpec => []PlannerSound
<1>1. Inv => PlannerSound
  BY DEF Inv, PlanningInv, GateKept, LedgerKept, PlannerSound, QueriesAgree, Cached
<1> QED BY <1>1, InvHolds, PTL
=============================================================================
