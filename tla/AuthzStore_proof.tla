-------------------------- MODULE AuthzStore_proof --------------------------
(***************************************************************************)
(* Proofs about AuthzStore, for all names, models, page sizes and bounds:  *)
(* ids refer to stores that were opened, and a second store of a name is   *)
(* owed to a request that was given up (TypeCorrect, OneStorePerName).     *)
(* As long as no request outlives its time-out (MaxLate = 0), models only  *)
(* change, grants stay in force, an operator at rest has handed on what is *)
(* wanted, and the module implements AccessStore.  The run latestore shows *)
(* that GrantsKept needs that condition.                                   *)
(***************************************************************************)
EXTENDS AuthzStore, SequenceTheorems, FiniteSetTheorems, TLAPS

-----------------------------------------------------------------------------
(* The stores *)

(* What opening a store does to the list.                                     *)
LEMMA OpenedLemma ==
    ASSUME stores \in Seq(Store), NEW n \in Names \cup {"lakekeeper"}
    PROVE  /\ Opened(n) \in Seq(Store)
           /\ Len(Opened(n)) = Len(stores) + 1
           /\ \A i \in DOMAIN stores : i \in DOMAIN Opened(n) /\ Opened(n)[i] = stores[i]
           /\ \A i \in DOMAIN Opened(n) : i \in DOMAIN stores \/ i = Len(stores) + 1
           /\ Len(stores) + 1 \in DOMAIN Opened(n)
           /\ Len(stores) + 1 \notin DOMAIN stores
           /\ Opened(n)[Len(stores) + 1] = [name |-> n, deleted |-> FALSE, models |-> <<>>]
  <1> DEFINE s == [name |-> n, deleted |-> FALSE, models |-> <<>>]
  <1>1. s \in Store
    BY DEF Store
  <1> HIDE DEF s
  <1>2. /\ Append(stores, s) \in Seq(Store)
        /\ Len(Append(stores, s)) = Len(stores) + 1
        /\ Append(stores, s)[Len(stores) + 1] = s
        /\ \A i \in 1..Len(stores) : Append(stores, s)[i] = stores[i]
    BY <1>1
  <1>3. Opened(n) = Append(stores, s)
    BY DEF Opened, s
  <1>4. DOMAIN stores = 1..Len(stores) /\ Len(stores) \in Nat
    OBVIOUS
  <1>5. DOMAIN Opened(n) = 1..(Len(stores) + 1)
    BY <1>2, <1>3
  <1> QED
    BY <1>2, <1>3, <1>4, <1>5 DEF s

(* ... writing a model, ...                                                   *)
LEMMA WrittenLemma ==
    ASSUME stores \in Seq(Store), NEW i \in DOMAIN stores, NEW m \in Models
    PROVE  /\ Written(i, m) \in Seq(Store)
           /\ Len(Written(i, m)) = Len(stores) /\ DOMAIN Written(i, m) = DOMAIN stores
           /\ \A j \in DOMAIN stores : j # i => Written(i, m)[j] = stores[j]
           /\ Written(i, m)[i].name = stores[i].name
           /\ Written(i, m)[i].deleted = stores[i].deleted
           /\ Written(i, m)[i].models = Append(stores[i].models, m)
  <1>1. stores[i] \in Store /\ Append(stores[i].models, m) \in Seq(Models)
    <2>1. stores[i] \in Store
      BY ElementOfSeq, LenProperties
    <2>2. stores[i].models \in Seq(Models)
      BY <2>1 DEF Store
    <2> QED
      BY <2>1, <2>2, AppendProperties
  <1> DEFINE s == [stores[i] EXCEPT !.models = Append(stores[i].models, m)]
  <1>2. s \in Store /\ s.name = stores[i].name /\ s.deleted = stores[i].deleted
        /\ s.models = Append(stores[i].models, m)
    BY <1>1 DEF Store
  <1>3. Written(i, m) = [stores EXCEPT ![i] = s]
    BY DEF Written
  <1> HIDE DEF s
  <1>4. i \in 1..Len(stores) /\ DOMAIN stores = 1..Len(stores)
    BY LenProperties
  <1>5. /\ Written(i, m) \in Seq(Store) /\ Len(Written(i, m)) = Len(stores)
        /\ \A j \in DOMAIN stores : Written(i, m)[j] = IF j = i THEN s ELSE stores[j]
    BY <1>2, <1>3, <1>4, ExceptSeq
  <1> QED
    BY <1>2, <1>4, <1>5, LenProperties

\* The stores without store i.
Without(i) == [stores EXCEPT ![i].deleted = TRUE]

(* ... and deleting one.                                                      *)
LEMMA DeletedLemma ==
    ASSUME stores \in Seq(Store), NEW i \in DOMAIN stores
    PROVE  /\ Without(i) \in Seq(Store)
           /\ Len(Without(i)) = Len(stores) /\ DOMAIN Without(i) = DOMAIN stores
           /\ \A j \in DOMAIN stores : j # i => Without(i)[j] = stores[j]
           /\ Without(i)[i].name = stores[i].name /\ Without(i)[i].deleted = TRUE
           /\ Without(i)[i].models = stores[i].models
  <1>1. stores[i] \in Store
    BY ElementOfSeq, LenProperties
  <1> DEFINE s == [stores[i] EXCEPT !.deleted = TRUE]
  <1>2. s \in Store /\ s.name = stores[i].name /\ s.deleted = TRUE /\ s.models = stores[i].models
    BY <1>1 DEF Store
  <1>3. Without(i) = [stores EXCEPT ![i] = s]
    BY DEF Without
  <1> HIDE DEF s
  <1>4. i \in 1..Len(stores) /\ DOMAIN stores = 1..Len(stores)
    BY LenProperties
  <1>5. /\ Without(i) \in Seq(Store) /\ Len(Without(i)) = Len(stores)
        /\ \A j \in DOMAIN stores : Without(i)[j] = IF j = i THEN s ELSE stores[j]
    BY <1>2, <1>3, <1>4, ExceptSeq
  <1> QED
    BY <1>2, <1>4, <1>5, LenProperties
-----------------------------------------------------------------------------
(* Types *)

HasStore == pc \in {"latest", "write", "done"} => id # 0

LEMMA BudgetLemma ==
    ASSUME budget \in Budget
    PROVE  /\ \/ Spend("edits", MaxEdits) \/ Spend("faults", MaxFaults)
              \/ Spend("deletes", MaxDeletes) \/ Spend("others", MaxOthers)
              => budget' \in Budget /\ budget'.late = budget.late
           /\ Spend("late", MaxLate) => /\ budget' \in Budget
                                        /\ budget'.late = budget.late + 1
                                        /\ budget'.late \in 1..MaxLate
  BY BoundsAssumption DEF Budget, Spend

\* The list of stores grows, and what goes by a name stays under it.
Grows ==
    /\ stores' \in Seq(Store)
    /\ Len(stores) <= Len(stores')
    /\ \A i \in DOMAIN stores : i \in DOMAIN stores' /\ stores'[i].name = stores[i].name

LEMMA SameStores == ASSUME TypeOK, UNCHANGED stores PROVE Grows
  BY LenProperties DEF Grows, TypeOK

LEMMA OpenedGrows ==
    ASSUME TypeOK, NEW n \in Names \cup {"lakekeeper"}, stores' = Opened(n) PROVE Grows
  <1>1. stores \in Seq(Store) /\ Len(stores) \in Nat
    BY LenProperties DEF TypeOK
  <1>2. stores' \in Seq(Store) /\ Len(stores') = Len(stores) + 1
    BY <1>1, OpenedLemma
  <1>3. \A i \in DOMAIN stores : i \in DOMAIN stores' /\ stores'[i] = stores[i]
    BY <1>1, OpenedLemma
  <1> QED
    BY <1>1, <1>2, <1>3 DEF Grows

LEMMA WrittenGrows ==
    ASSUME TypeOK, NEW i \in DOMAIN stores, NEW m \in Models, stores' = Written(i, m) PROVE Grows
  <1>1. stores \in Seq(Store) /\ Len(stores) \in Nat
    BY LenProperties DEF TypeOK
  <1> QED
    BY <1>1, WrittenLemma DEF Grows

(* A request that was given up stays one while the list grows.                *)
LEMMA LateGrows == ASSUME TypeOK, Grows PROVE Late \subseteq Late'
  <1>1. DOMAIN stores \subseteq DOMAIN stores'
    BY DEF Grows
  <1> HIDE DEF Grows
  <1> QED
    BY <1>1 DEF Late

(* What leaves the operator's own variables alone, and adds no late request,  *)
(* keeps the types when the stores grow.                                      *)
LEMMA OthersType ==
    ASSUME TypeOK, HasStore, Grows, UNCHANGED <<clientVars, published>>,
           wanted' \in Wanted, queued' \in BOOLEAN, late' \subseteq late,
           granted' \subseteq DOMAIN stores, budget' \in Budget
    PROVE  TypeOK' /\ HasStore'
  <1>1. Len(stores) \in Nat /\ Len(stores') \in Nat /\ Len(stores) <= Len(stores')
    BY LenProperties DEF TypeOK, Grows
  <1>2. late' \subseteq Late'
    BY LateGrows DEF TypeOK
  <1>3. token' \in 0..Len(stores') /\ id' \in 0..Len(stores') /\ published' \in 0..Len(stores')
    BY <1>1 DEF TypeOK, clientVars
  <1>4. granted' \subseteq DOMAIN stores'
    BY DEF Grows
  <1> QED
    BY <1>2, <1>3, <1>4 DEF TypeOK, HasStore, Grows, clientVars

(* The operator gives up, or is done, while the stores grow.                  *)
LEMMA IdleType ==
    ASSUME TypeOK, Grows, Idle, UNCHANGED <<wanted, granted>>,
           queued' \in BOOLEAN, late' \subseteq Late', published' \in 0..Len(stores),
           budget' \in Budget
    PROVE  TypeOK' /\ HasStore'
  <1>1. Len(stores) \in Nat /\ Len(stores') \in Nat /\ Len(stores) <= Len(stores')
    BY LenProperties DEF TypeOK, Grows
  <1>2. published' \in 0..Len(stores') /\ 0 \in 0..Len(stores')
    BY <1>1
  <1>3. granted' \subseteq DOMAIN stores'
    BY DEF Grows, TypeOK
  <1> QED
    BY <1>2, <1>3 DEF Idle, TypeOK, HasStore, Grows

LEMMA TypeInit == Init => TypeOK /\ HasStore
  <1> SUFFICES ASSUME Init PROVE TypeOK /\ HasStore
    OBVIOUS
  <1>1. stores \in Seq(Store) /\ Len(stores) = 0
    BY EmptySeq DEF Init
  <1>2. budget \in Budget
    BY BoundsAssumption DEF Init, Budget
  <1> QED
    BY <1>1, <1>2 DEF Init, TypeOK, HasStore

LEMMA TypeStep == TypeOK /\ HasStore /\ [Next]_vars => TypeOK' /\ HasStore'
  <1> SUFFICES ASSUME TypeOK, HasStore, [Next]_vars PROVE TypeOK' /\ HasStore'
    OBVIOUS
  <1>t. /\ stores \in Seq(Store) /\ Len(stores) \in Nat /\ DOMAIN stores = 1..Len(stores)
        /\ budget \in Budget /\ late \subseteq Late /\ published \in 0..Len(stores)
        /\ req.name \in Names /\ req.model \in Models /\ queued \in BOOLEAN
    BY LenProperties DEF TypeOK, Wanted
  <1>s. pc \in {"latest", "write", "done"} => id \in DOMAIN stores
    BY <1>t DEF TypeOK, HasStore
  <1>1. CASE Begin
    <2>1. UNCHANGED <<wanted, token, id, stores, late, granted, budget>> /\ queued' \in BOOLEAN
      BY <1>1 DEF Begin
    <2>2. Grows /\ late' \subseteq Late'
      BY <1>t, <2>1, SameStores, LateGrows
    <2>3. pc' \in {"idle", "find"} /\ req' \in Wanted /\ published' \in 0..Len(stores)
      BY <1>1, <1>t DEF Begin, TypeOK
    <2> QED
      BY <2>1, <2>2, <2>3 DEF TypeOK, HasStore
  <1>2. CASE FindPage
    <2>1. token' \in 0..Len(stores)
      BY <1>2, <1>t, BoundsAssumption DEF FindPage, MorePages, TypeOK
    <2>2. id' \in 0..Len(stores) /\ pc' \in {"find", "create", "latest"}
      BY <1>2, <1>t DEF FindPage, Page, TypeOK
    <2>3. HasStore'
      BY <1>2, <1>t DEF FindPage, Page, HasStore
    <2> QED
      BY <1>2, <2>1, <2>2, <2>3 DEF FindPage, TypeOK, Late
  <1>3. CASE Create
    <2>1. stores' = Opened(req.name)
      BY <1>3 DEF Create
    <2>2. Grows /\ Len(stores') = Len(stores) + 1
      BY <1>t, <2>1, OpenedGrows, OpenedLemma
    <2>3. id' = Len(stores) + 1 /\ id' \in 0..Len(stores')
      BY <1>3, <1>t, <2>2 DEF Create
    <2>4. late' \subseteq Late'
      BY <1>3, <1>t, <2>2, LateGrows DEF Create
    <2>5. token' \in 0..Len(stores') /\ published' \in 0..Len(stores')
      BY <1>3, <1>t, <2>2 DEF Create, TypeOK
    <2>6. granted' \subseteq DOMAIN stores'
      BY <1>3, <2>2 DEF Create, Grows, TypeOK
    <2> QED
      BY <1>3, <1>t, <2>2, <2>3, <2>4, <2>5, <2>6 DEF Create, TypeOK, HasStore, Grows
  <1>4. CASE ReadModel
    BY <1>4, <1>s DEF ReadModel, TypeOK, HasStore, Late
  <1>5. CASE WriteModel
    <2>1. stores' = Written(id, req.model) /\ id \in DOMAIN stores
      BY <1>5, <1>s DEF WriteModel
    <2>2. Grows /\ Len(stores') = Len(stores)
      BY <1>t, <2>1, WrittenGrows, WrittenLemma
    <2>3. late' \subseteq Late'
      BY <1>5, <1>t, <2>2, LateGrows DEF WriteModel
    <2>4. granted' \subseteq DOMAIN stores'
      BY <1>5, <2>2 DEF WriteModel, Grows, TypeOK
    <2> QED
      BY <1>5, <1>s, <2>2, <2>3, <2>4 DEF WriteModel, TypeOK, HasStore, Grows
  <1>6. CASE Publish
    <2>1. published' \in 0..Len(stores) /\ UNCHANGED <<stores, late, budget>>
      BY <1>6 DEF Publish, TypeOK
    <2> QED
      BY <1>6, <1>t, <2>1, SameStores, IdleType, LateGrows DEF Publish
  <1>7. CASE WriteRefused
    BY <1>7, <1>t, SameStores, IdleType, LateGrows DEF WriteRefused
  <1>8. CASE GiveUp
    BY <1>8, <1>t, SameStores, IdleType, LateGrows, BudgetLemma DEF GiveUp
  <1>9. CASE AnswerLost
    <2>1. Grows
      <3>1. CASE pc = "create" /\ stores' = Opened(req.name)
        BY <1>t, <3>1, OpenedGrows
      <3>2. CASE pc = "write" /\ stores' = Written(id, req.model)
        BY <1>t, <1>s, <3>2, WrittenGrows
      <3> QED
        BY <1>9, <3>1, <3>2 DEF AnswerLost
    <2> QED
      BY <1>9, <1>t, <2>1, IdleType, LateGrows, BudgetLemma DEF AnswerLost
  <1>10. CASE GiveUpEarly
    <2>1. budget' \in Budget /\ budget'.late \in 1..MaxLate /\ UNCHANGED stores
      BY <1>10, <1>t, BudgetLemma DEF GiveUpEarly
    <2>2. late' \subseteq Late
      <3>1. CASE late' = late \cup {[op |-> "create", name |-> req.name, n |-> budget'.late]}
        BY <1>t, <2>1, <3>1 DEF Late
      <3>2. CASE /\ pc = "write"
                 /\ late' = late \cup
                       {[op |-> "write", id |-> id, model |-> req.model, n |-> budget'.late]}
        BY <1>t, <1>s, <2>1, <3>2 DEF Late
      <3> QED
        BY <1>10, <3>1, <3>2 DEF GiveUpEarly
    <2> QED
      BY <1>10, <1>t, <2>1, <2>2, SameStores, IdleType, LateGrows DEF GiveUpEarly
  <1>11. CASE TakesEffect
    <2>1. PICK r \in late :
             /\ stores' = IF r.op = "create" THEN Opened(r.name)
                          ELSE IF stores[r.id].deleted THEN stores
                          ELSE Written(r.id, r.model)
             /\ late' = late \ {r}
      BY <1>11 DEF TakesEffect
    <2>2. \/ r.op = "create" /\ r.name \in Names
          \/ r.op = "write" /\ r.id \in DOMAIN stores /\ r.model \in Models
      BY <1>t DEF Late
    <2>3. Grows
      BY <2>1, <2>2, SameStores, OpenedGrows, WrittenGrows
    <2> QED
      BY <1>11, <1>t, <2>1, <2>3, OthersType DEF TakesEffect, TypeOK
  <1>12. CASE EditPolicies
    BY <1>12, <1>t, SameStores, OthersType, BudgetLemma DEF EditPolicies, TypeOK
  <1>13. CASE Requeue
    BY <1>13, SameStores, OthersType DEF Requeue, TypeOK
  <1>14. CASE WriteTuples
    <2>1. granted' \subseteq DOMAIN stores
      BY <1>14, <1>t DEF WriteTuples, TypeOK
    <2> QED
      BY <1>14, <2>1, SameStores, OthersType DEF WriteTuples, TypeOK
  <1>15. CASE OtherStore
    <2>1. Grows
      BY <1>15, OpenedGrows DEF OtherStore
    <2> QED
      BY <1>15, <1>t, <2>1, OthersType, BudgetLemma DEF OtherStore, TypeOK
  <1>16. CASE DeleteStore
    <2>1. Grows
      BY <1>16, <1>t, DeletedLemma DEF DeleteStore, Without, Grows
    <2> QED
      BY <1>16, <1>t, <2>1, OthersType, BudgetLemma DEF DeleteStore, TypeOK
  <1>17. CASE UNCHANGED vars
    BY <1>17, SameStores, OthersType DEF vars, TypeOK
  <1> QED
    BY <1>1, <1>2, <1>3, <1>4, <1>5, <1>6, <1>7, <1>8, <1>9, <1>10, <1>11, <1>12, <1>13, <1>14,
       <1>15, <1>16, <1>17 DEF Next, Operator

(* Ids, tokens and late requests refer to stores that were opened.            *)
THEOREM TypeCorrect == Spec => []TypeOK
  <1>1. Spec => [](TypeOK /\ HasStore)
    BY TypeInit, TypeStep, PTL DEF Spec
  <1> QED
    BY <1>1, PTL
-----------------------------------------------------------------------------
(* One store per name *)

Live(n) == {i \in DOMAIN stores : IsStore(i, n)}

\* The creates of a store that were given up and may still take effect.
Owed(n) == {r \in late : r.op = "create" /\ r.name = n}

Tagged == \A r \in late : r.n <= budget.late

\* Live stores and those still to come are paid for by requests given up, but
\* for one; and that one is not there when the operator is about to create it.
Accounted(n) ==
    /\ Cardinality(Live(n)) + Cardinality(Owed(n)) <= 1 + budget.late
    /\ pc = "create" /\ req.name = n =>
           Cardinality(Live(n)) + Cardinality(Owed(n)) <= budget.late
    /\ pc = "find" /\ req.name = n => \A i \in Live(n) : token < i

LEMMA FiniteLemma ==
    ASSUME TypeOK, Tagged, NEW n \in Names
    PROVE  /\ IsFiniteSet(Live(n)) /\ Cardinality(Live(n)) \in Nat
           /\ IsFiniteSet(Owed(n)) /\ Cardinality(Owed(n)) \in Nat
           /\ Cardinality(Owed(n)) <= budget.late
           /\ budget.late \in Nat
  <1>1. Len(stores) \in Nat /\ DOMAIN stores = 1..Len(stores)
    BY LenProperties DEF TypeOK
  <1>2. IsFiniteSet(Live(n))
    <2>1. Live(n) \in SUBSET (1..Len(stores))
      BY <1>1 DEF Live
    <2>2. IsFiniteSet(1..Len(stores))
      BY <1>1, FS_Interval
    <2> QED
      BY <2>1, <2>2, FS_Subset
  <1>3. budget.late \in Nat
    BY BoundsAssumption DEF TypeOK, Budget
  <1>4. IsFiniteSet(1..budget.late) /\ Cardinality(1..budget.late) = budget.late
    BY <1>3, FS_Interval
  <1> DEFINE tag == [r \in Owed(n) |-> r.n]
  <1>5. \A r \in Owed(n) : /\ r = [op |-> "create", name |-> n, n |-> r.n]
                           /\ r.n \in 1..budget.late
    BY <1>3, BoundsAssumption DEF TypeOK, Tagged, Owed, Late
  <1>6. tag \in Injection(Owed(n), 1..budget.late)
    <2>1. tag \in [Owed(n) -> 1..budget.late]
      BY <1>5
    <2>2. \A r, q \in Owed(n) : tag[r] = tag[q] => r = q
      <3> TAKE r, q \in Owed(n)
      <3> HAVE tag[r] = tag[q]
      <3>1. r.n = q.n
        OBVIOUS
      <3> QED
        BY <1>5, <3>1
    <2> QED
      BY <2>1, <2>2 DEF Injection, IsInjective
  <1>7. IsFiniteSet(Owed(n)) /\ Cardinality(Owed(n)) <= budget.late
    BY <1>4, <1>6, FS_Injection
  <1> QED
    BY <1>2, <1>3, <1>7, FS_CardinalityType

(* What opens no store and owes no further one keeps the account.             *)
LEMMA NoneOpened ==
    ASSUME TypeOK, TypeOK', Tagged, NEW n \in Names, Accounted(n),
           Live(n)' \subseteq Live(n), Owed(n)' \subseteq Owed(n),
           budget'.late \in {budget.late, budget.late + 1},
           pc' = "create" => pc = "create" /\ req' = req,
           pc' = "find" => token' = 0 \/ UNCHANGED <<pc, req, token>>
    PROVE  Accounted(n)'
  <1> DEFINE live == Live(n)  owed == Owed(n)  live1 == Live(n)'  owed1 == Owed(n)'
  <1>1. /\ IsFiniteSet(live) /\ Cardinality(live) \in Nat
        /\ IsFiniteSet(owed) /\ Cardinality(owed) \in Nat
        /\ budget.late \in Nat
    BY FiniteLemma
  <1>2. /\ Cardinality(live1) \in Nat /\ Cardinality(live1) <= Cardinality(live)
        /\ Cardinality(owed1) \in Nat /\ Cardinality(owed1) <= Cardinality(owed)
    <2> HIDE DEF live, owed, live1, owed1
    <2>1. live1 \in SUBSET live /\ owed1 \in SUBSET owed
      BY DEF live, owed, live1, owed1
    <2> QED
      BY <1>1, <2>1, FS_Subset, FS_CardinalityType
  <1>3. pc' = "find" /\ req'.name = n => \A i \in live1 : token' < i
    <2>1. \A i \in live1 : i \in DOMAIN stores' /\ DOMAIN stores' = 1..Len(stores')
      BY LenProperties DEF TypeOK, Live
    <2> QED
      BY <2>1 DEF Accounted
  <1> HIDE DEF live, owed, live1, owed1
  <1>4. /\ Cardinality(live) + Cardinality(owed) <= 1 + budget.late
        /\ pc = "create" /\ req.name = n => Cardinality(live) + Cardinality(owed) <= budget.late
    BY DEF Accounted, live, owed
  <1>5. /\ Cardinality(live1) + Cardinality(owed1) <= 1 + budget'.late
        /\ pc' = "create" /\ req'.name = n =>
               Cardinality(live1) + Cardinality(owed1) <= budget'.late
    BY <1>1, <1>2, <1>4
  <1> QED
    BY <1>3, <1>5 DEF Accounted, live1, owed1

(* How the live stores of a name change.                                      *)
LEMMA LiveOpened ==
    ASSUME TypeOK, NEW n \in Names, NEW m \in Names \cup {"lakekeeper"}, stores' = Opened(m)
    PROVE  /\ m # n => Live(n)' = Live(n)
           /\ m = n => Live(n)' = Live(n) \cup {Len(stores) + 1}
           /\ Len(stores) + 1 \notin Live(n)
  <1>1. stores \in Seq(Store)
    BY DEF TypeOK
  <1>2. /\ \A i \in DOMAIN stores : i \in DOMAIN stores' /\ stores'[i] = stores[i]
        /\ \A i \in DOMAIN stores' : i \in DOMAIN stores \/ i = Len(stores) + 1
        /\ Len(stores) + 1 \in DOMAIN stores' /\ Len(stores) + 1 \notin DOMAIN stores
        /\ stores'[Len(stores) + 1] = [name |-> m, deleted |-> FALSE, models |-> <<>>]
    BY <1>1, OpenedLemma
  <1>3. stores'[Len(stores) + 1].name = m /\ ~stores'[Len(stores) + 1].deleted
    BY <1>2
  <1>4. Live(n)' = {i \in DOMAIN stores' : stores'[i].name = n /\ ~stores'[i].deleted}
    BY DEF Live, IsStore
  <1>5. Live(n) = {i \in DOMAIN stores : stores[i].name = n /\ ~stores[i].deleted}
    BY DEF Live, IsStore
  <1> QED
    BY <1>2, <1>3, <1>4, <1>5

LEMMA LiveWritten ==
    ASSUME TypeOK, NEW n \in Names, NEW i \in DOMAIN stores, NEW m \in Models,
           stores' = Written(i, m)
    PROVE  Live(n)' = Live(n)
  <1>1. stores \in Seq(Store)
    BY DEF TypeOK
  <1>2. Live(n)' = {j \in DOMAIN stores' : stores'[j].name = n /\ ~stores'[j].deleted}
    BY DEF Live, IsStore
  <1>3. \A j \in DOMAIN stores :
            stores'[j].name = stores[j].name /\ stores'[j].deleted = stores[j].deleted
    BY <1>1, WrittenLemma
  <1>4. DOMAIN stores' = DOMAIN stores
    BY <1>1, WrittenLemma
  <1> QED
    BY <1>2, <1>3, <1>4 DEF Live, IsStore

LEMMA LiveDeleted ==
    ASSUME TypeOK, NEW n \in Names, NEW i \in DOMAIN stores, stores' = Without(i)
    PROVE  Live(n)' = Live(n) \ {i}
  <1>1. stores \in Seq(Store)
    BY DEF TypeOK
  <1>2. Live(n)' = {j \in DOMAIN stores' : stores'[j].name = n /\ ~stores'[j].deleted}
    BY DEF Live, IsStore
  <1>3. /\ \A j \in DOMAIN stores : j # i => stores'[j] = stores[j]
        /\ stores'[i].deleted
    BY <1>1, DeletedLemma
  <1>4. DOMAIN stores' = DOMAIN stores
    BY <1>1, DeletedLemma
  <1> QED
    BY <1>2, <1>3, <1>4 DEF Live, IsStore

LEMMA LiveSame == ASSUME NEW n \in Names, UNCHANGED stores PROVE Live(n)' = Live(n)
  BY DEF Live, IsStore

(* The operator opens the store it did not find: the one that is not owed.    *)
LEMMA OneOpened ==
    ASSUME TypeOK, TypeOK', Tagged, NEW n \in Names, Accounted(n), pc = "create",
           stores' = Opened(req.name), pc' \in {"idle", "latest"},
           UNCHANGED late, budget'.late = budget.late
    PROVE  Accounted(n)'
  <1>1. Owed(n)' = Owed(n)
    BY DEF Owed
  <1>2. req.name \in Names
    BY DEF TypeOK, Wanted
  <1>3. CASE req.name # n
    <2>1. Live(n)' = Live(n)
      BY <1>2, <1>3, LiveOpened
    <2> QED
      BY <1>1, <2>1, NoneOpened
  <1>4. CASE req.name = n
    <2>1. Live(n)' = Live(n) \cup {Len(stores) + 1} /\ Len(stores) + 1 \notin Live(n)
      BY <1>2, <1>4, LiveOpened
    <2>2. Cardinality(Live(n)') = Cardinality(Live(n)) + 1
      BY <2>1, FiniteLemma, FS_AddElement
    <2>3. Cardinality(Live(n)) + Cardinality(Owed(n)) <= budget.late
      BY <1>4 DEF Accounted
    <2>4. Cardinality(Live(n)') + Cardinality(Owed(n)') <= 1 + budget'.late
      BY <1>1, <2>2, <2>3, FiniteLemma
    <2> QED
      BY <2>4 DEF Accounted
  <1> QED
    BY <1>3, <1>4

(* A request that was given up takes effect: what was owed is there now.      *)
LEMMA OwedOpened ==
    ASSUME TypeOK, TypeOK', Tagged, NEW n \in Names, Accounted(n),
           NEW r \in late, late' = late \ {r}, r.op = "create", stores' = Opened(r.name),
           UNCHANGED <<clientVars, budget>>
    PROVE  Accounted(n)'
  <1>1. r.name \in Names
    BY DEF TypeOK, Late
  <1>2. CASE r.name # n
    <2>1. Live(n)' = Live(n) /\ Owed(n)' \subseteq Owed(n)
      BY <1>1, <1>2, LiveOpened DEF Owed
    <2> QED
      BY <2>1, NoneOpened DEF clientVars
  <1>3. CASE r.name = n
    <2>1. Live(n)' = Live(n) \cup {Len(stores) + 1} /\ Len(stores) + 1 \notin Live(n)
      BY <1>1, <1>3, LiveOpened
    <2>2. Owed(n)' = Owed(n) \ {r} /\ r \in Owed(n)
      BY <1>3 DEF Owed
    <2>3. Cardinality(Live(n)') = Cardinality(Live(n)) + 1
      BY <2>1, FiniteLemma, FS_AddElement
    <2>4. Cardinality(Owed(n)') = Cardinality(Owed(n)) - 1
      BY <2>2, FiniteLemma, FS_RemoveElement
    <2>5. Cardinality(Live(n)') + Cardinality(Owed(n)')
              = Cardinality(Live(n)) + Cardinality(Owed(n))
      BY <2>3, <2>4, FiniteLemma
    <2>6. token < Len(stores) + 1
      BY LenProperties DEF TypeOK
    <2>7. pc = "find" /\ req.name = n => \A i \in Live(n)' : token < i
      BY <2>1, <2>6 DEF Accounted
    <2> QED
      BY <2>5, <2>7 DEF Accounted, clientVars
  <1> QED
    BY <1>2, <1>3

(* The operator gives up on the create, which is owed from then on.           *)
LEMMA OneOwed ==
    ASSUME TypeOK, TypeOK', Tagged, NEW n \in Names, Accounted(n), pc = "create",
           NEW r, late' = late \cup {r}, r.op = "create", r.name = req.name,
           UNCHANGED stores, pc' = "idle", budget'.late = budget.late + 1
    PROVE  Accounted(n)'
  <1>1. Live(n)' = Live(n)
    BY LiveSame
  <1>2. CASE req.name # n
    <2>1. Owed(n)' = Owed(n)
      BY <1>2 DEF Owed
    <2> QED
      BY <1>1, <2>1, NoneOpened
  <1>3. CASE req.name = n
    <2>1. Owed(n)' = Owed(n) \cup {r}
      BY <1>3 DEF Owed
    <2>2. Cardinality(Owed(n)') \in Nat /\ Cardinality(Owed(n)') <= Cardinality(Owed(n)) + 1
      <3>1. IsFiniteSet(Owed(n)) /\ Cardinality(Owed(n)) \in Nat
        BY FiniteLemma
      <3>2. Cardinality(Owed(n) \cup {r}) \in {Cardinality(Owed(n)), Cardinality(Owed(n)) + 1}
        BY <3>1, FS_AddElement
      <3> QED
        BY <2>1, <3>1, <3>2
    <2>3. Cardinality(Live(n)) + Cardinality(Owed(n)) <= budget.late
      BY <1>3 DEF Accounted
    <2>4. Cardinality(Live(n)') + Cardinality(Owed(n)') <= 1 + budget'.late
      BY <1>1, <2>2, <2>3, FiniteLemma
    <2> QED
      BY <2>4 DEF Accounted
  <1> QED
    BY <1>2, <1>3

(* The last page is read: no store of the name is live.                       *)
LEMMA NoneFound ==
    ASSUME TypeOK, TypeOK', Tagged, NEW n \in Names, Accounted(n), FindPage, pc' = "create"
    PROVE  Accounted(n)'
  <1>1. UNCHANGED <<req, stores, late, budget>> /\ ~MorePages /\ pc = "find"
        /\ \A i \in Page : ~IsStore(i, req.name)
    BY DEF FindPage
  <1>2. Live(n)' = Live(n) /\ Owed(n)' = Owed(n)
    BY <1>1, LiveSame DEF Owed
  <1>3. Cardinality(Live(n)) + Cardinality(Owed(n)) <= 1 + budget.late
    BY DEF Accounted
  <1>4. CASE req.name # n
    BY <1>1, <1>2, <1>3, <1>4 DEF Accounted
  <1>5. CASE req.name = n
    <2>1. Live(n) = {}
      <3> SUFFICES ASSUME NEW i \in Live(n) PROVE FALSE
        OBVIOUS
      <3>1. i \in DOMAIN stores /\ IsStore(i, n) /\ token < i
        BY <1>1, <1>5 DEF Accounted, Live
      <3>2. i \in 1..Len(stores) /\ Len(stores) \in Nat /\ token \in Nat
        BY <3>1, LenProperties DEF TypeOK
      <3>3. i <= token + PageSize
        BY <1>1, <3>2, BoundsAssumption DEF MorePages
      <3> QED
        BY <1>1, <1>5, <3>1, <3>3 DEF Page
    <2>2. Cardinality(Live(n)) + Cardinality(Owed(n)) <= budget.late
      BY <2>1, FiniteLemma, FS_EmptySet
    <2> QED
      BY <1>1, <1>2, <1>3, <2>2 DEF Accounted
  <1> QED
    BY <1>4, <1>5

(* A page without the store is read: it is on none of the pages so far.       *)
LEMMA NextPage ==
    ASSUME TypeOK, TypeOK', Tagged, NEW n \in Names, Accounted(n), FindPage, pc' = "find"
    PROVE  Accounted(n)'
  <1>1. UNCHANGED <<pc, req, stores, late, budget>> /\ token' = token + PageSize
        /\ pc = "find" /\ \A i \in Page : ~IsStore(i, req.name)
    BY DEF FindPage
  <1>2. Live(n)' = Live(n) /\ Owed(n)' = Owed(n)
    BY <1>1, LiveSame DEF Owed
  <1>3. req.name = n => \A i \in Live(n) : token' < i
    <2> SUFFICES ASSUME req.name = n, NEW i \in Live(n) PROVE token' < i
      OBVIOUS
    <2>1. i \in DOMAIN stores /\ IsStore(i, n) /\ token < i
      BY <1>1 DEF Accounted, Live
    <2>2. i \in Nat /\ token \in Nat
      BY <2>1, LenProperties DEF TypeOK
    <2> QED
      BY <1>1, <2>1, <2>2, BoundsAssumption DEF Page
  <1> QED
    BY <1>1, <1>2, <1>3 DEF Accounted

\* A listing starts at the first page.
FirstPage == pc # "find" => token = 0

Account == Tagged /\ FirstPage /\ \A n \in Names : Accounted(n)

\* Every conjunct of the invariants so far.
Counted == TypeOK /\ HasStore /\ Account

LEMMA AccountInit == Init => Account
  <1> SUFFICES ASSUME Init PROVE Account
    OBVIOUS
  <1>1. DOMAIN stores = {} /\ late = {} /\ budget.late = 0 /\ pc = "idle"
    BY DEF Init
  <1>2. ASSUME NEW n \in Names PROVE Accounted(n)
    <2>1. Live(n) = {} /\ Owed(n) = {}
      BY <1>1 DEF Live, Owed
    <2> QED
      BY <1>1, <2>1, FS_EmptySet DEF Accounted
  <1> QED
    BY <1>1, <1>2 DEF Init, Account, Tagged, FirstPage

LEMMA TaggedStep == TypeOK /\ Tagged /\ [Next]_vars => Tagged'
  <1> SUFFICES ASSUME TypeOK, Tagged, [Next]_vars PROVE Tagged'
    OBVIOUS
  <1>1. budget \in Budget /\ budget.late \in Nat /\ \A r \in late : r.n \in Nat
    BY BoundsAssumption DEF TypeOK, Budget, Late
  <1>2. CASE GiveUpEarly
    <2>1. budget'.late = budget.late + 1
      BY <1>1, <1>2, BudgetLemma DEF GiveUpEarly
    <2>2. \A r \in late' : r \in late \/ r.n = budget'.late
      BY <1>2 DEF GiveUpEarly
    <2> QED
      BY <1>1, <2>1, <2>2 DEF Tagged
  <1>3. CASE late' \subseteq late /\ budget'.late = budget.late
    BY <1>3 DEF Tagged
  <1>4. CASE GiveUp \/ AnswerLost \/ EditPolicies \/ OtherStore \/ DeleteStore
    BY <1>1, <1>3, <1>4, BudgetLemma DEF GiveUp, AnswerLost, EditPolicies, OtherStore, DeleteStore
  <1>5. CASE Operator \/ TakesEffect \/ Requeue \/ WriteTuples \/ UNCHANGED vars
    BY <1>3, <1>5 DEF Operator, Begin, FindPage, Create, ReadModel, WriteModel, Publish,
       WriteRefused, TakesEffect, Requeue, WriteTuples, vars
  <1> QED
    BY <1>2, <1>4, <1>5 DEF Next

LEMMA FirstPageStep == FirstPage /\ [Next]_vars => FirstPage'
  <1> SUFFICES ASSUME FirstPage, [Next]_vars PROVE FirstPage'
    OBVIOUS
  <1>1. CASE Operator \/ UNCHANGED vars
    BY <1>1 DEF FirstPage, Operator, Begin, FindPage, Create, ReadModel, WriteModel, Publish,
       WriteRefused, Idle, vars, clientVars
  <1>2. CASE GiveUp \/ AnswerLost \/ GiveUpEarly
    BY <1>2 DEF FirstPage, GiveUp, AnswerLost, GiveUpEarly, Idle
  <1>3. CASE TakesEffect \/ EditPolicies \/ Requeue \/ WriteTuples \/ OtherStore \/ DeleteStore
    BY <1>3 DEF FirstPage, TakesEffect, EditPolicies, Requeue, WriteTuples, OtherStore,
       DeleteStore, clientVars
  <1> QED
    BY <1>1, <1>2, <1>3 DEF Next

LEMMA AccountStep == Counted /\ [Next]_vars => Counted'
  <1> SUFFICES ASSUME Counted, [Next]_vars PROVE Counted'
    OBVIOUS
  <1>t. /\ TypeOK /\ HasStore /\ Tagged /\ FirstPage
        /\ TypeOK' /\ HasStore' /\ Tagged' /\ FirstPage'
    BY TypeStep, TaggedStep, FirstPageStep DEF Counted, Account
  <1> SUFFICES ASSUME NEW n \in Names PROVE Accounted(n)'
    BY <1>t DEF Counted, Account
  <1>a. Accounted(n)
    BY DEF Counted, Account
  <1>b. budget \in Budget
    BY <1>t DEF TypeOK
  <1>s. pc \in {"latest", "write", "done"} => id \in DOMAIN stores
    BY <1>t, LenProperties DEF TypeOK, HasStore
  <1>m. req.model \in Models /\ req.name \in Names
    BY <1>t DEF TypeOK, Wanted
  <1>e. UNCHANGED stores => Live(n)' = Live(n)
    BY LiveSame
  <1>o. late' \subseteq late => Owed(n)' \subseteq Owed(n)
    BY DEF Owed
  <1>1. CASE FindPage
    <2>1. /\ UNCHANGED <<req, stores, late, budget>>
          /\ pc' \in {"find", "create"} \/ pc' = "latest"
      BY <1>1 DEF FindPage
    <2> QED
      BY <1>1, <1>t, <1>a, <1>e, <1>o, <2>1, NoneFound, NextPage, NoneOpened
  <1>2. CASE Create
    BY <1>2, <1>t, <1>a, OneOpened DEF Create
  <1>3. CASE WriteModel
    <2>1. Live(n)' = Live(n)
      BY <1>3, <1>t, <1>s, <1>m, LiveWritten DEF WriteModel
    <2> QED
      BY <1>3, <1>t, <1>a, <1>o, <2>1, NoneOpened DEF WriteModel
  <1>4. CASE Begin \/ ReadModel \/ Publish \/ WriteRefused
    <2>1. /\ UNCHANGED <<stores, late, budget>>
          /\ pc' = "find" => token' = 0 \/ UNCHANGED <<pc, req, token>>
          /\ pc' = "create" => pc = "create" /\ req' = req
      BY <1>4, <1>t DEF Begin, ReadModel, Publish, WriteRefused, Idle, FirstPage
    <2> QED
      BY <1>t, <1>a, <1>e, <1>o, <2>1, NoneOpened
  <1>5. CASE GiveUp
    BY <1>5, <1>t, <1>a, <1>b, <1>e, <1>o, BudgetLemma, NoneOpened DEF GiveUp, Idle
  <1>6. CASE AnswerLost
    <2>1. budget'.late = budget.late /\ UNCHANGED late /\ pc' = "idle"
      BY <1>6, <1>b, BudgetLemma DEF AnswerLost, Idle
    <2>2. CASE pc = "create" /\ stores' = Opened(req.name)
      BY <1>t, <1>a, <2>1, <2>2, OneOpened
    <2>3. CASE pc = "write" /\ stores' = Written(id, req.model)
      <3>1. Live(n)' = Live(n)
        BY <1>t, <1>s, <1>m, <2>3, LiveWritten
      <3> QED
        BY <1>t, <1>a, <1>o, <2>1, <3>1, NoneOpened
    <2> QED
      BY <1>6, <2>2, <2>3 DEF AnswerLost
  <1>7. CASE GiveUpEarly
    <2>1. budget'.late = budget.late + 1 /\ UNCHANGED stores /\ pc' = "idle"
      BY <1>7, <1>b, BudgetLemma DEF GiveUpEarly, Idle
    <2> DEFINE create == [op |-> "create", name |-> req.name, n |-> budget'.late]
               write == [op |-> "write", id |-> id, model |-> req.model, n |-> budget'.late]
    <2>2. CASE pc = "create" /\ late' = late \cup {create}
      <3>1. create.op = "create" /\ create.name = req.name
        OBVIOUS
      <3> HIDE DEF create
      <3> QED
        BY <1>t, <1>a, <2>1, <2>2, <3>1, OneOwed
    <2>3. CASE late' = late \cup {write}
      <3>1. Owed(n)' = Owed(n)
        BY <2>3 DEF Owed
      <3> QED
        BY <1>t, <1>a, <1>e, <2>1, <3>1, NoneOpened
    <2> QED
      BY <1>7, <2>2, <2>3 DEF GiveUpEarly
  <1>8. CASE TakesEffect
    <2>1. PICK r \in late :
             /\ stores' = IF r.op = "create" THEN Opened(r.name)
                          ELSE IF stores[r.id].deleted THEN stores
                          ELSE Written(r.id, r.model)
             /\ late' = late \ {r}
      BY <1>8 DEF TakesEffect
    <2>2. \/ r.op = "create"
          \/ r.op = "write" /\ r.id \in DOMAIN stores /\ r.model \in Models
      BY <1>t DEF Late, TypeOK
    <2>3. UNCHANGED <<clientVars, budget>>
      BY <1>8 DEF TakesEffect
    <2>4. CASE r.op = "create"
      BY <1>t, <1>a, <2>1, <2>3, <2>4, OwedOpened
    <2>5. CASE r.op = "write"
      <3>1. Live(n)' = Live(n)
        BY <1>t, <1>e, <2>1, <2>2, <2>5, LiveWritten
      <3> QED
        BY <1>t, <1>a, <1>o, <2>1, <2>3, <3>1, NoneOpened DEF clientVars
    <2> QED
      BY <2>2, <2>4, <2>5
  <1>9. CASE EditPolicies \/ Requeue \/ WriteTuples \/ UNCHANGED vars
    <2>1. UNCHANGED <<clientVars, stores, late>> /\ budget'.late = budget.late
      BY <1>9, <1>b, BudgetLemma DEF EditPolicies, Requeue, WriteTuples, vars
    <2> QED
      BY <1>t, <1>a, <1>e, <1>o, <2>1, NoneOpened DEF clientVars
  <1>10. CASE OtherStore
    <2>1. Live(n)' = Live(n)
      BY <1>10, <1>t, LiveOpened, NamesAssumption DEF OtherStore
    <2>2. UNCHANGED <<clientVars, late>> /\ budget'.late = budget.late
      BY <1>10, <1>b, BudgetLemma DEF OtherStore
    <2> QED
      BY <1>t, <1>a, <1>o, <2>1, <2>2, NoneOpened DEF clientVars
  <1>11. CASE DeleteStore
    <2>1. PICK i \in DOMAIN stores : stores' = Without(i)
      BY <1>11 DEF DeleteStore, Without
    <2>2. Live(n)' \subseteq Live(n)
      BY <1>t, <2>1, LiveDeleted
    <2>3. UNCHANGED <<clientVars, late>> /\ budget'.late = budget.late
      BY <1>11, <1>b, BudgetLemma DEF DeleteStore
    <2> QED
      BY <1>t, <1>a, <1>o, <2>2, <2>3, NoneOpened DEF clientVars
  <1> QED
    BY <1>1, <1>2, <1>3, <1>4, <1>5, <1>6, <1>7, <1>8, <1>9, <1>10, <1>11 DEF Next, Operator

(* The accounts are kept on every behaviour.                                  *)
THEOREM Counting == Spec => []Counted
  BY TypeInit, AccountInit, AccountStep, PTL DEF Spec, Counted

LEMMA CountedOneStore == Counted => OneStore
  <1> SUFFICES ASSUME Counted, NEW n \in Names
               PROVE  Cardinality({i \in DOMAIN stores : IsStore(i, n)}) <= 1 + budget.late
    BY DEF OneStore
  <1>1. TypeOK /\ Tagged /\ Accounted(n)
    BY DEF Counted, Account
  <1>2. Cardinality(Live(n)) <= 1 + budget.late
    BY <1>1, FiniteLemma DEF Accounted
  <1> QED
    BY <1>2 DEF Live

(* A second store of a name is always owed to a request that was given up.    *)
THEOREM OneStorePerName == Spec => []OneStore
  BY Counting, CountedOneStore, PTL
-----------------------------------------------------------------------------
(* As long as no request outlives its time-out *)

\* What the operator knows on its way through EnsureAuthzStore.
Pass ==
    /\ pc # "idle" => req.on /\ (~queued => req = wanted)
    /\ pc \in {"latest", "write", "done"} =>
           /\ stores[id].name = req.name
           /\ \A j \in DOMAIN stores : IsStore(j, req.name) => j = id
    /\ pc = "write" /\ ~stores[id].deleted => LatestModel(id) # req.model
    /\ pc = "done" /\ ~stores[id].deleted => LatestModel(id) = req.model

LEMMA UniqueLemma ==
    ASSUME MaxLate = 0, Counted
    PROVE  /\ late = {}
           /\ \A n \in Names : \A i, j \in DOMAIN stores :
                  IsStore(i, n) /\ IsStore(j, n) => i = j
           /\ pc = "create" => \A i \in DOMAIN stores : ~IsStore(i, req.name)
  <1>t. TypeOK /\ Tagged /\ \A n \in Names : Accounted(n)
    BY DEF Counted, Account
  <1>1. budget.late = 0
    BY <1>t DEF TypeOK, Budget
  <1>2. late = {}
    BY <1>t DEF TypeOK, Late
  <1>3. ASSUME NEW n \in Names, NEW i \in DOMAIN stores, NEW j \in DOMAIN stores,
               IsStore(i, n), IsStore(j, n), i # j
        PROVE  FALSE
    <2>1. IsFiniteSet(Live(n)) /\ Cardinality(Live(n)) <= 1 /\ Cardinality(Live(n)) \in Nat
      BY <1>t, <1>1, FiniteLemma DEF Accounted
    <2>2. {i, j} \in SUBSET Live(n)
      BY <1>3 DEF Live
    <2>3. Cardinality({i, j}) <= Cardinality(Live(n))
      BY <2>1, <2>2, FS_Subset
    <2>4. Cardinality({i} \cup {j}) = 2
      <3>1. IsFiniteSet({i}) /\ Cardinality({i}) = 1 /\ j \notin {i}
        BY <1>3, FS_Singleton
      <3> QED
        BY <3>1, FS_AddElement
    <2>5. {i, j} = {i} \cup {j}
      OBVIOUS
    <2> QED
      BY <2>1, <2>3, <2>4, <2>5
  <1>4. ASSUME pc = "create", NEW i \in DOMAIN stores, IsStore(i, req.name)
        PROVE  FALSE
    <2>1. req.name \in Names
      BY <1>t DEF TypeOK, Wanted
    <2>2. Accounted(req.name)
      BY <1>t, <2>1
    <2>3. IsFiniteSet(Live(req.name)) /\ Cardinality(Live(req.name)) \in Nat
          /\ Cardinality(Owed(req.name)) \in Nat
      BY <1>t, <2>1, FiniteLemma
    <2>4. Cardinality(Live(req.name)) = 0
      BY <1>1, <1>4, <2>2, <2>3 DEF Accounted
    <2>5. Live(req.name) = {}
      BY <2>3, <2>4, FS_EmptySet
    <2> QED
      BY <1>4, <2>5 DEF Live
  <1> QED
    BY <1>2, <1>3, <1>4

\* Nobody but the operator opens a store of the policies or writes a model.
Kept ==
    /\ \A i \in DOMAIN stores :
          /\ i \in DOMAIN stores'
          /\ stores'[i].name = stores[i].name /\ stores'[i].models = stores[i].models
          /\ stores[i].deleted => stores'[i].deleted
    /\ \A i \in DOMAIN stores' \ DOMAIN stores :
          stores'[i].name = "lakekeeper" /\ stores'[i].models = <<>>

\* What everyone else does between two steps of the operator.
Aside ==
    /\ Kept
    /\ UNCHANGED <<clientVars, published>>
    /\ granted' \subseteq granted \cup {published}
    /\ wanted' # wanted => queued'
    /\ queued => queued'

\* What the operator does that leaves the stores alone.
Quiet == UNCHANGED <<stores, wanted, granted>>

\* The operator opens a store of the name it did not find.
Opens == pc = "create" /\ stores' = Opened(req.name) /\ UNCHANGED <<wanted, granted>>

\* The operator writes the model the store does not have.
Writes ==
    /\ pc = "write" /\ ~stores[id].deleted /\ stores' = Written(id, req.model)
    /\ UNCHANGED <<wanted, granted>>

LEMMA KeptOpened ==
    ASSUME TypeOK, stores' = Opened("lakekeeper") PROVE Kept
  <1>1. stores \in Seq(Store)
    BY DEF TypeOK
  <1>2. /\ \A i \in DOMAIN stores : i \in DOMAIN stores' /\ stores'[i] = stores[i]
        /\ \A i \in DOMAIN stores' : i \in DOMAIN stores \/ i = Len(stores) + 1
        /\ stores'[Len(stores) + 1] = [name |-> "lakekeeper", deleted |-> FALSE, models |-> <<>>]
    BY <1>1, OpenedLemma
  <1> QED
    BY <1>2 DEF Kept

LEMMA KeptDeleted ==
    ASSUME TypeOK, NEW i \in DOMAIN stores, stores' = Without(i) PROVE Kept
  <1>1. stores \in Seq(Store)
    BY DEF TypeOK
  <1> QED
    BY <1>1, DeletedLemma DEF Kept

(* Who does what, without late requests.                                      *)
LEMMA StepKinds ==
    ASSUME MaxLate = 0, Counted, [Next]_vars
    PROVE  \/ Aside
           \/ Begin
           \/ FindPage
           \/ Create
           \/ ReadModel
           \/ WriteModel
           \/ Publish
           \/ Idle /\ UNCHANGED published /\ queued' /\ (Quiet \/ Opens \/ Writes)
  <1>t. TypeOK /\ late = {} /\ budget.late = 0
    BY UniqueLemma DEF Counted, TypeOK, Budget
  <1>1. CASE Operator
    BY <1>1 DEF Operator, WriteRefused, Quiet
  <1>2. CASE GiveUp \/ AnswerLost
    BY <1>2 DEF GiveUp, AnswerLost, Quiet, Opens, Writes
  <1>3. CASE GiveUpEarly \/ TakesEffect
    BY <1>3, <1>t DEF GiveUpEarly, TakesEffect, Spend
  <1>4. CASE EditPolicies \/ Requeue \/ WriteTuples \/ UNCHANGED vars
    <2>1. UNCHANGED stores => Kept
      BY DEF Kept
    <2> QED
      BY <1>4, <2>1 DEF EditPolicies, Requeue, WriteTuples, vars, Aside
  <1>5. CASE OtherStore
    BY <1>5, <1>t, KeptOpened DEF OtherStore, Aside
  <1>6. CASE DeleteStore
    <2>1. PICK i \in DOMAIN stores : stores' = Without(i)
      BY <1>6 DEF DeleteStore, Without
    <2>2. Kept
      BY <1>t, <2>1, KeptDeleted
    <2> QED
      BY <1>6, <2>2 DEF DeleteStore, Aside
  <1> QED
    BY <1>1, <1>2, <1>3, <1>4, <1>5, <1>6 DEF Next

(* What an opened store is like, and a written model is the latest.           *)
LEMMA OpensLemma ==
    ASSUME TypeOK, stores' = Opened(req.name)
    PROVE  /\ \A i \in DOMAIN stores : i \in DOMAIN stores' /\ stores'[i] = stores[i]
           /\ \A i \in DOMAIN stores' : i \in DOMAIN stores \/ i = Len(stores')
           /\ Len(stores') \in DOMAIN stores' /\ Len(stores') \notin DOMAIN stores
           /\ stores'[Len(stores')]
                = [name |-> req.name, deleted |-> FALSE, models |-> <<>>]
  <1>1. stores \in Seq(Store) /\ req.name \in Names
    BY DEF TypeOK, Wanted
  <1> QED
    BY <1>1, OpenedLemma

LEMMA WritesLemma ==
    ASSUME TypeOK, HasStore, Writes
    PROVE  /\ DOMAIN stores' = DOMAIN stores
           /\ \A i \in DOMAIN stores :
                  stores'[i].name = stores[i].name /\ stores'[i].deleted = stores[i].deleted
           /\ \A i \in DOMAIN stores \ {id} : stores'[i] = stores[i]
           /\ id \in DOMAIN stores
           /\ stores'[id].models = Append(stores[id].models, req.model)
           /\ stores[id].models \in Seq(Models) /\ req.model \in Models
           /\ stores'[id].models # <<>>
           /\ stores'[id].models[Len(stores'[id].models)] = req.model
  <1>1. stores \in Seq(Store) /\ req.model \in Models
    BY DEF TypeOK, Wanted
  <1>2. id \in DOMAIN stores
    BY LenProperties DEF TypeOK, HasStore, Writes
  <1>3. stores' = Written(id, req.model)
    BY DEF Writes
  <1>4. stores[id].models \in Seq(Models)
    <2>1. stores[id] \in Store
      BY <1>1, <1>2, ElementOfSeq, LenProperties
    <2> QED
      BY <2>1 DEF Store
  <1>5. stores'[id].models = Append(stores[id].models, req.model)
    BY <1>1, <1>2, <1>3, WrittenLemma
  <1>6. /\ stores'[id].models # <<>>
        /\ stores'[id].models[Len(stores'[id].models)] = req.model
    BY <1>1, <1>4, <1>5, AppendProperties
  <1> QED
    BY <1>1, <1>2, <1>3, <1>4, <1>5, <1>6, WrittenLemma

LEMMA PassInit == Init => Pass
  BY DEF Init, Pass

LEMMA PassStep ==
    ASSUME MaxLate = 0, Counted, Pass, [Next]_vars PROVE Pass'
  <1>t. TypeOK /\ HasStore /\ req.name \in Names /\ wanted.name \in Names
    BY DEF Counted, TypeOK, Wanted
  <1>s. pc \in {"latest", "write", "done"} => id \in DOMAIN stores
    BY <1>t, LenProperties DEF TypeOK, HasStore
  <1>i. pc' = "idle" => Pass'
    BY DEF Pass
  <1>1. CASE Aside
    <2>1. UNCHANGED <<pc, req, id>> /\ Kept
      BY <1>1 DEF Aside, clientVars
    <2>2. pc # "idle" => req.on /\ (~queued' => req = wanted')
      BY <1>1 DEF Aside, Pass
    <2>3. CASE pc \in {"latest", "write", "done"}
      <3>1. id \in DOMAIN stores /\ id \in DOMAIN stores' /\ stores'[id].name = req.name
            /\ (stores[id].deleted => stores'[id].deleted)
            /\ stores'[id].models = stores[id].models
        BY <1>s, <2>1, <2>3 DEF Kept, Pass
      <3>2. ASSUME NEW j \in DOMAIN stores', stores'[j].name = req.name, ~stores'[j].deleted
            PROVE  j = id
        <4>1. j \in DOMAIN stores
          BY <1>t, <2>1, <3>2, NamesAssumption DEF Kept
        <4>2. IsStore(j, req.name)
          BY <2>1, <3>2, <4>1 DEF Kept, IsStore
        <4> QED
          BY <2>3, <4>1, <4>2 DEF Pass
      <3>3. LatestModel(id)' = LatestModel(id)
        BY <2>1, <3>1 DEF LatestModel
      <3> QED
        BY <2>1, <2>2, <3>1, <3>2, <3>3 DEF Pass, IsStore
    <2> QED
      BY <2>1, <2>2, <2>3 DEF Pass
  <1>2. CASE Begin
    BY <1>2 DEF Begin, Pass
  <1>3. CASE FindPage
    <2>1. UNCHANGED <<wanted, queued, req, stores>> /\ pc # "idle"
      BY <1>3 DEF FindPage
    <2>2. pc' \in {"find", "create"} \/ (pc' = "latest" /\ id' \in Page /\ IsStore(id', req.name))
      BY <1>3 DEF FindPage
    <2>3. CASE pc' \in {"find", "create"}
      BY <2>1, <2>3 DEF Pass
    <2>4. CASE pc' = "latest" /\ id' \in Page /\ IsStore(id', req.name)
      <3>1. \A j \in DOMAIN stores : IsStore(j, req.name) => j = id'
        BY <1>t, <2>4, UniqueLemma DEF Page
      <3> QED
        BY <2>1, <2>4, <3>1 DEF Pass, IsStore
    <2> QED
      BY <2>2, <2>3, <2>4
  <1>4. CASE Create
    <2>1. UNCHANGED <<wanted, queued, req>> /\ pc = "create" /\ pc' = "latest"
          /\ id' = Len(stores') /\ stores' = Opened(req.name)
      BY <1>4 DEF Create
    <2>2. stores'[id'].name = req.name
      BY <1>t, <2>1, OpensLemma
    <2>3. ASSUME NEW j \in DOMAIN stores', stores'[j].name = req.name, ~stores'[j].deleted
          PROVE  j = id'
      BY <1>t, <2>1, <2>3, OpensLemma, UniqueLemma DEF IsStore
    <2> QED
      BY <2>1, <2>2, <2>3 DEF Pass, IsStore
  <1>5. CASE ReadModel
    <2>1. UNCHANGED <<wanted, queued, req, stores, id>> /\ pc = "latest"
          /\ pc' \in {"write", "done"}
          /\ (pc' = "write" => stores[id].deleted \/ LatestModel(id) # req.model)
          /\ (pc' = "done" => LatestModel(id) = req.model)
      BY <1>5 DEF ReadModel, ModelMatches
    <2>2. LatestModel(id)' = LatestModel(id)
      BY <2>1 DEF LatestModel
    <2> QED
      BY <2>1, <2>2 DEF Pass, IsStore
  <1>6. CASE WriteModel
    <2>1. UNCHANGED <<wanted, queued, req, id>> /\ pc = "write" /\ pc' = "done" /\ Writes
      <3>1. UNCHANGED <<wanted, granted>>
        BY <1>6 DEF WriteModel
      <3> QED
        BY <1>6, <3>1 DEF WriteModel, Writes
    <2>2. stores'[id].name = req.name
      BY <1>t, <2>1, WritesLemma DEF Pass
    <2>3. ASSUME NEW j \in DOMAIN stores', stores'[j].name = req.name, ~stores'[j].deleted
          PROVE  j = id
      BY <1>t, <2>1, <2>3, WritesLemma DEF Pass, IsStore
    <2>4. LatestModel(id)' = req.model
      BY <1>t, <2>1, WritesLemma DEF LatestModel
    <2> QED
      BY <2>1, <2>2, <2>3, <2>4 DEF Pass, IsStore
  <1>7. CASE Publish
    BY <1>7, <1>i DEF Publish, Idle
  <1>8. CASE Idle
    BY <1>8, <1>i DEF Idle
  <1> QED
    BY <1>1, <1>2, <1>3, <1>4, <1>5, <1>6, <1>7, <1>8, StepKinds

LEMMA ModelsStep ==
    ASSUME MaxLate = 0, Counted, Pass, ModelsChange, [Next]_vars PROVE ModelsChange'
  <1>t. TypeOK /\ HasStore
    BY DEF Counted
  <1>1. CASE Kept
    <2> SUFFICES ASSUME NEW i \in DOMAIN stores', NEW k \in 1..(Len(stores'[i].models) - 1)
                 PROVE  stores'[i].models[k] # stores'[i].models[k + 1]
      BY DEF ModelsChange
    <2>1. CASE i \in DOMAIN stores
      BY <1>1, <2>1 DEF Kept, ModelsChange
    <2>2. CASE i \notin DOMAIN stores
      BY <1>1, <2>2 DEF Kept
    <2> QED
      BY <2>1, <2>2
  <1>2. CASE UNCHANGED stores
    BY <1>2 DEF ModelsChange
  <1>3. CASE stores' = Opened(req.name)
    <2> SUFFICES ASSUME NEW i \in DOMAIN stores', NEW k \in 1..(Len(stores'[i].models) - 1)
                 PROVE  stores'[i].models[k] # stores'[i].models[k + 1]
      BY DEF ModelsChange
    <2>1. CASE i \in DOMAIN stores
      BY <1>3, <1>t, <2>1, OpensLemma DEF ModelsChange
    <2>2. CASE i \notin DOMAIN stores
      <3>1. stores'[i].models = <<>>
        BY <1>3, <1>t, <2>2, OpensLemma
      <3> QED
        BY <3>1
    <2> QED
      BY <2>1, <2>2
  <1>4. CASE Writes
    <2> SUFFICES ASSUME NEW i \in DOMAIN stores', NEW k \in 1..(Len(stores'[i].models) - 1)
                 PROVE  stores'[i].models[k] # stores'[i].models[k + 1]
      BY DEF ModelsChange
    <2>1. CASE i # id
      BY <1>4, <1>t, <2>1, WritesLemma DEF ModelsChange
    <2>2. CASE i = id
      <3> DEFINE models == stores[id].models
      <3>1. /\ id \in DOMAIN stores /\ models \in Seq(Models) /\ req.model \in Models
            /\ stores'[id].models = Append(models, req.model)
        BY <1>4, <1>t, WritesLemma
      <3>2. \A l \in 1..(Len(models) - 1) : models[l] # models[l + 1]
        BY <3>1 DEF ModelsChange
      <3>3. models # <<>> => models[Len(models)] # req.model
        BY <1>4 DEF Pass, Writes, LatestModel
      <3> HIDE DEF models
      <3>4. Len(Append(models, req.model)) = Len(models) + 1 /\ Len(models) \in Nat
        BY <3>1, AppendProperties, LenProperties
      <3>5. k \in 1..Len(models)
        BY <2>2, <3>1, <3>4
      <3>6. Append(models, req.model)[k] = models[k]
        BY <3>1, <3>5, AppendProperties
      <3>7. CASE k = Len(models)
        <4>1. Append(models, req.model)[k + 1] = req.model /\ models # <<>>
          BY <3>1, <3>5, <3>7, AppendProperties
        <4> QED
          BY <2>2, <3>1, <3>3, <3>6, <3>7, <4>1
      <3>8. CASE k # Len(models)
        <4>1. k \in 1..(Len(models) - 1) /\ k + 1 \in 1..Len(models)
          BY <3>4, <3>5, <3>8
        <4>2. Append(models, req.model)[k + 1] = models[k + 1]
          BY <3>1, <4>1, AppendProperties
        <4> QED
          BY <2>2, <3>1, <3>2, <3>6, <4>1, <4>2
      <3> QED
        BY <3>7, <3>8
    <2> QED
      BY <2>1, <2>2
  <1>5. Aside => Kept
    BY DEF Aside
  <1>6. Begin \/ FindPage \/ ReadModel \/ Publish \/ Quiet => UNCHANGED stores
    BY DEF Begin, FindPage, ReadModel, Publish, Quiet
  <1>7. Create \/ Opens => stores' = Opened(req.name)
    BY DEF Create, Opens
  <1>8. WriteModel => Writes
    <2> SUFFICES ASSUME WriteModel PROVE Writes
      OBVIOUS
    <2>1. UNCHANGED <<wanted, granted>>
      BY DEF WriteModel
    <2> QED
      BY <2>1 DEF WriteModel, Writes
  <1> QED
    BY <1>1, <1>2, <1>3, <1>4, <1>5, <1>6, <1>7, <1>8, StepKinds

LEMMA UpToDateStep ==
    ASSUME MaxLate = 0, Counted, Pass, UpToDate, [Next]_vars PROVE UpToDate'
  <1>t. TypeOK /\ HasStore
    BY DEF Counted
  <1>i. pc' # "idle" \/ queued' => UpToDate'
    BY DEF UpToDate
  <1>1. CASE Aside
    <2> SUFFICES ASSUME pc' = "idle", ~queued' PROVE UpToDate'
      BY <1>i
    <2>1. pc = "idle" /\ ~queued /\ UNCHANGED <<wanted, published>> /\ Kept
      BY <1>1 DEF Aside, clientVars
    <2>2. CASE ~wanted.on
      BY <2>1, <2>2 DEF UpToDate
    <2>3. CASE wanted.on
      <3>1. published # 0 /\ stores[published].name = wanted.name
            /\ (~stores[published].deleted => LatestModel(published) = wanted.model)
        BY <2>1, <2>3 DEF UpToDate
      <3>2. published \in DOMAIN stores
        BY <1>t, <3>1, LenProperties DEF TypeOK
      <3>3. stores'[published].name = wanted.name
            /\ (~stores'[published].deleted => ~stores[published].deleted)
        BY <2>1, <3>1, <3>2 DEF Kept
      <3>4. LatestModel(published)' = LatestModel(published)
        BY <2>1, <3>2 DEF Kept, LatestModel
      <3> QED
        BY <2>1, <2>3, <3>1, <3>3, <3>4 DEF UpToDate
    <2> QED
      BY <2>2, <2>3
  <1>2. CASE Begin
    BY <1>2, <1>i DEF Begin, UpToDate
  <1>3. CASE FindPage \/ Create \/ ReadModel \/ WriteModel
    <2>1. pc' # "idle"
      BY <1>3 DEF FindPage, Create, ReadModel, WriteModel
    <2> QED
      BY <1>i, <2>1
  <1>4. CASE Publish
    <2> SUFFICES ASSUME ~queued' PROVE UpToDate'
      BY <1>i
    <2>1. pc = "done" /\ published' = id /\ UNCHANGED <<wanted, queued, stores>>
      BY <1>4 DEF Publish
    <2>2. req.on /\ req = wanted /\ id # 0 /\ stores[id].name = req.name
          /\ (~stores[id].deleted => LatestModel(id) = req.model)
      BY <1>t, <2>1 DEF Pass, HasStore
    <2>3. LatestModel(published)' = LatestModel(id)
      BY <2>1 DEF LatestModel
    <2> QED
      BY <2>1, <2>2, <2>3 DEF UpToDate
  <1>5. CASE queued'
    BY <1>5, <1>i
  <1> QED
    BY <1>1, <1>2, <1>3, <1>4, <1>5, StepKinds

LEMMA GrantsStep ==
    ASSUME MaxLate = 0, Counted, Pass, GrantsKept, [Next]_vars PROVE GrantsKept'
  <1>t. TypeOK /\ HasStore /\ granted \subseteq DOMAIN stores
    BY DEF Counted, TypeOK
  <1>p. published # 0 => published \in DOMAIN stores
    BY <1>t, LenProperties DEF TypeOK
  <1> SUFFICES ASSUME published' # 0, NEW i \in granted',
                      stores'[i].name = stores'[published'].name, ~stores'[i].deleted
               PROVE  i = published'
    BY DEF GrantsKept
  <1>1. CASE Aside
    <2>1. published' = published /\ published \in DOMAIN stores /\ Kept
          /\ granted' \subseteq granted \cup {published}
      BY <1>1, <1>p DEF Aside
    <2>2. CASE i \in granted
      BY <1>t, <2>1, <2>2 DEF Kept, GrantsKept
    <2> QED
      BY <2>1, <2>2
  <1>2. CASE Publish
    <2>1. published' = id /\ pc = "done" /\ UNCHANGED <<stores, granted>>
      BY <1>2 DEF Publish
    <2>2. IsStore(i, req.name) /\ i \in DOMAIN stores
      BY <1>t, <2>1 DEF Pass, IsStore
    <2> QED
      BY <2>1, <2>2 DEF Pass
  <1>3. ASSUME /\ \A j \in DOMAIN stores :
                     stores'[j].name = stores[j].name /\ stores'[j].deleted = stores[j].deleted,
               UNCHANGED granted, published' \in {published, 0}
        PROVE  i = published'
    BY <1>t, <1>p, <1>3 DEF GrantsKept
  <1>4. CASE Begin \/ FindPage \/ ReadModel \/ (Quiet /\ UNCHANGED published)
    BY <1>3, <1>4 DEF Begin, FindPage, ReadModel, Quiet
  <1>5. CASE Create \/ (Opens /\ UNCHANGED published)
    <2>1. stores' = Opened(req.name) /\ UNCHANGED <<granted, published>>
      BY <1>5 DEF Create, Opens
    <2> QED
      BY <1>3, <1>t, <2>1, OpensLemma
  <1>6. CASE WriteModel \/ (Writes /\ UNCHANGED published)
    <2>1. Writes /\ UNCHANGED <<granted, published>>
      <3>1. WriteModel => UNCHANGED <<wanted, granted, published>>
        BY DEF WriteModel
      <3> QED
        BY <1>6, <3>1 DEF WriteModel, Writes
    <2> QED
      BY <1>3, <1>t, <2>1, WritesLemma
  <1> QED
    BY <1>1, <1>2, <1>4, <1>5, <1>6, StepKinds

Sound == Counted /\ Pass /\ ModelsChange /\ UpToDate /\ GrantsKept

LEMMA SoundInit == Init => Sound
  <1> SUFFICES ASSUME Init PROVE Sound
    OBVIOUS
  <1>1. Counted
    BY TypeInit, AccountInit DEF Counted
  <1>2. DOMAIN stores = {} /\ queued /\ published = 0
    BY DEF Init
  <1> QED
    BY <1>1, <1>2, PassInit DEF Sound, ModelsChange, UpToDate, GrantsKept

LEMMA SoundStep == MaxLate = 0 /\ Sound /\ [Next]_vars => Sound'
  BY AccountStep, PassStep, ModelsStep, UpToDateStep, GrantsStep DEF Sound

(* The safety properties hold together, each step leaning on the accounts and *)
(* on what the operator knows.                                                *)
THEOREM Soundness == ASSUME MaxLate = 0 PROVE Spec => []Sound
  <1>1. Sound /\ [Next]_vars => Sound'
    BY SoundStep
  <1> QED
    BY <1>1, SoundInit, PTL DEF Spec

(* An unchanged model is left alone.                                          *)
THEOREM ModelsOnlyChange == ASSUME MaxLate = 0 PROVE Spec => []ModelsChange
  BY Soundness, PTL DEF Sound

(* An operator at rest has handed on the store and the model that are wanted. *)
THEOREM RestsUpToDate == ASSUME MaxLate = 0 PROVE Spec => []UpToDate
  BY Soundness, PTL DEF Sound

(* The id never moves from a store users wrote tuples to, while it exists.    *)
THEOREM GrantsStayInForce == ASSUME MaxLate = 0 PROVE Spec => []GrantsKept
  BY Soundness, PTL DEF Sound
-----------------------------------------------------------------------------
(* The abstract store *)

LiveIn(s, i, n) == s[i].name = n /\ ~s[i].deleted

Unique(s) == \A n \in Names : \A i, j \in DOMAIN s : LiveIn(s, i, n) /\ LiveIn(s, j, n) => i = j

LatestIn(s, i) == IF s[i].models = <<>> THEN "none" ELSE s[i].models[Len(s[i].models)]

HeldIn(s, n) ==
    LET live == {i \in DOMAIN s : LiveIn(s, i, n)}
    IN IF live = {} THEN [id |-> 0, model |-> "none"]
       ELSE LET first == CHOOSE i \in live : \A j \in live : i <= j
            IN [id |-> first, model |-> LatestIn(s, first)]

\* What AccessStore sees of the stores.
Holds == [n \in Names |-> Held(n)]
Ids == {i \in DOMAIN stores : stores[i].name \in Names}

LEMMA HoldsLemma ==
    /\ Holds = [n \in Names |-> HeldIn(stores, n)]
    /\ Holds' = [n \in Names |-> HeldIn(stores', n)]
  BY DEF Holds, Held, HeldIn, LiveIn, LatestIn, IsStore, LatestModel

LEMMA HeldLive ==
    ASSUME NEW s, Unique(s), NEW n \in Names, NEW i \in DOMAIN s, LiveIn(s, i, n), i \in Nat
    PROVE  HeldIn(s, n) = [id |-> i, model |-> LatestIn(s, i)]
  <1>1. {j \in DOMAIN s : LiveIn(s, j, n)} = {i}
    BY DEF Unique
  <1>2. (CHOOSE k \in {i} : \A j \in {i} : k <= j) = i
    <2>1. \A j \in {i} : i <= j
      OBVIOUS
    <2> QED
      BY <2>1
  <1> QED
    BY <1>1, <1>2 DEF HeldIn

LEMMA HeldNone ==
    ASSUME NEW s, NEW n, \A i \in DOMAIN s : ~LiveIn(s, i, n)
    PROVE  HeldIn(s, n) = [id |-> 0, model |-> "none"]
  BY DEF HeldIn

(* Where the live stores of a name and their models stay, so does what is held. *)
LEMMA HeldSame ==
    ASSUME NEW s, NEW t, NEW n \in Names, Unique(s), Unique(t),
           DOMAIN s \subseteq Nat, DOMAIN s \subseteq DOMAIN t,
           \A i \in DOMAIN t : LiveIn(t, i, n) <=> i \in DOMAIN s /\ LiveIn(s, i, n),
           \A i \in DOMAIN s : LiveIn(s, i, n) => t[i].models = s[i].models
    PROVE  HeldIn(t, n) = HeldIn(s, n)
  <1>1. CASE \A i \in DOMAIN s : ~LiveIn(s, i, n)
    <2>1. \A i \in DOMAIN t : ~LiveIn(t, i, n)
      BY <1>1
    <2> QED
      BY <1>1, <2>1, HeldNone
  <1>2. ASSUME NEW i \in DOMAIN s, LiveIn(s, i, n) PROVE HeldIn(t, n) = HeldIn(s, n)
    <2>1. i \in DOMAIN t /\ LiveIn(t, i, n) /\ i \in Nat
      BY <1>2
    <2>2. HeldIn(t, n) = [id |-> i, model |-> LatestIn(t, i)]
      BY <2>1, HeldLive
    <2>3. HeldIn(s, n) = [id |-> i, model |-> LatestIn(s, i)]
      BY <1>2, <2>1, HeldLive
    <2>4. LatestIn(t, i) = LatestIn(s, i)
      BY <1>2 DEF LatestIn
    <2> QED
      BY <2>2, <2>3, <2>4
  <1> QED
    BY <1>1, <1>2

LEMMA UniqueStores == ASSUME MaxLate = 0, Counted PROVE Unique(stores)
  BY UniqueLemma DEF Unique, LiveIn, IsStore

(* A store is opened under a name that holds none.                            *)
LEMMA OpenMaps ==
    ASSUME TypeOK, Unique(stores), Unique(stores'), NEW n \in Names, n = req.name,
           stores' = Opened(n), \A i \in DOMAIN stores : ~IsStore(i, n), UNCHANGED published
    PROVE  Abstract!Open(n)
  <1> DEFINE new == Len(stores')
  <1>1. n \in Names /\ stores \in Seq(Store) /\ Len(stores) \in Nat
    BY LenProperties DEF TypeOK, Wanted
  <1>2. new = Len(stores) + 1
    BY <1>1, OpenedLemma
  <1>3. /\ \A i \in DOMAIN stores : i \in DOMAIN stores' /\ stores'[i] = stores[i]
        /\ \A i \in DOMAIN stores' : i \in DOMAIN stores \/ i = new
        /\ new \in DOMAIN stores' /\ new \notin DOMAIN stores /\ new \in Nat /\ new # 0
        /\ stores'[new] = [name |-> n, deleted |-> FALSE, models |-> <<>>]
    BY <1>1, <1>2, OpensLemma
  <1> HIDE DEF new
  <1>4. HeldIn(stores, n) = [id |-> 0, model |-> "none"]
    BY HeldNone DEF LiveIn, IsStore
  <1>5. HeldIn(stores', n) = [id |-> new, model |-> "none"]
    <2>1. LiveIn(stores', new, n) /\ LatestIn(stores', new) = "none"
      BY <1>3 DEF LiveIn, LatestIn
    <2> QED
      BY <1>1, <1>3, <2>1, HeldLive
  <1>6. \A m \in Names \ {n} : HeldIn(stores', m) = HeldIn(stores, m)
    <2> TAKE m \in Names \ {n}
    <2>1. \A i \in DOMAIN stores' :
              LiveIn(stores', i, m) <=> i \in DOMAIN stores /\ LiveIn(stores, i, m)
      BY <1>3 DEF LiveIn
    <2>2. DOMAIN stores \subseteq Nat /\ DOMAIN stores \subseteq DOMAIN stores'
      BY <1>1, <1>3, LenProperties
    <2>3. \A i \in DOMAIN stores : stores'[i].models = stores[i].models
      BY <1>3
    <2> QED
      BY <2>1, <2>2, <2>3, HeldSame
  <1>7. Holds' = [Holds EXCEPT ![n] = [id |-> new, model |-> "none"]]
    BY <1>5, <1>6, HoldsLemma
  <1>8. Ids' = Ids \cup {new} /\ new \notin Ids
    BY <1>1, <1>3 DEF Ids
  <1>9. Holds[n] = [id |-> 0, model |-> "none"] /\ Holds'[n].id = new
    BY <1>1, <1>4, <1>5, HoldsLemma
  <1>10. /\ Holds[n] = [id |-> 0, model |-> "none"]
         /\ Holds' = [Holds EXCEPT ![n] = [id |-> Holds'[n].id, model |-> "none"]]
         /\ Holds'[n].id \notin Ids \cup {0}
         /\ Ids' = Ids \cup {Holds'[n].id}
    BY <1>3, <1>7, <1>8, <1>9
  <1> QED
    BY <1>1, <1>10 DEF Abstract!Open, Abstract!Nothing, Holds, Ids

(* A model is written to the store that lacks it.                             *)
LEMMA RemodelMaps ==
    ASSUME TypeOK, HasStore, Pass, Unique(stores), Unique(stores'), NEW n \in Names,
           n = req.name, Writes, UNCHANGED published
    PROVE  Abstract!Remodel(n)
  <1>1. /\ n \in Names /\ DOMAIN stores \subseteq Nat
        /\ id \in DOMAIN stores /\ id # 0 /\ stores[id].name = n /\ ~stores[id].deleted
        /\ LatestIn(stores, id) # req.model
    BY LenProperties, WritesLemma
       DEF TypeOK, HasStore, Wanted, Pass, Writes, LatestModel, LatestIn
  <1>2. /\ DOMAIN stores' = DOMAIN stores
        /\ \A i \in DOMAIN stores :
               stores'[i].name = stores[i].name /\ stores'[i].deleted = stores[i].deleted
        /\ \A i \in DOMAIN stores \ {id} : stores'[i] = stores[i]
        /\ LatestIn(stores', id) = req.model /\ req.model \in Models
    BY WritesLemma DEF LatestIn
  <1>3. HeldIn(stores, n) = [id |-> id, model |-> LatestIn(stores, id)]
    BY <1>1, HeldLive DEF LiveIn
  <1>4. HeldIn(stores', n) = [id |-> id, model |-> req.model]
    <2>1. LiveIn(stores', id, n)
      BY <1>1, <1>2 DEF LiveIn
    <2> QED
      BY <1>1, <1>2, <2>1, HeldLive
  <1>5. \A m \in Names \ {n} : HeldIn(stores', m) = HeldIn(stores, m)
    <2> TAKE m \in Names \ {n}
    <2>1. \A i \in DOMAIN stores' :
              LiveIn(stores', i, m) <=> i \in DOMAIN stores /\ LiveIn(stores, i, m)
      BY <1>2 DEF LiveIn
    <2>2. \A i \in DOMAIN stores : LiveIn(stores, i, m) => stores'[i].models = stores[i].models
      BY <1>1, <1>2 DEF LiveIn
    <2> QED
      BY <1>1, <1>2, <2>1, <2>2, HeldSame
  <1>6. /\ Holds[n] = [id |-> id, model |-> LatestIn(stores, id)]
        /\ Holds'[n] = [id |-> id, model |-> req.model]
        /\ Holds' = [Holds EXCEPT ![n] = [id |-> id, model |-> req.model]]
    BY <1>1, <1>3, <1>4, <1>5, HoldsLemma
  <1>7. Ids' = Ids
    BY <1>2 DEF Ids
  <1>8. /\ Holds[n] # [id |-> 0, model |-> "none"]
        /\ Holds'[n].model \in Models \ {Holds[n].model}
        /\ Holds' = [Holds EXCEPT ![n].model = Holds'[n].model]
    <2>1. Holds[n] # [id |-> 0, model |-> "none"] /\ Holds'[n].model \in Models \ {Holds[n].model}
      BY <1>1, <1>2, <1>6
    <2>2. [Holds[n] EXCEPT !.model = Holds'[n].model] = [id |-> id, model |-> req.model]
      BY <1>6
    <2> QED
      BY <1>6, <2>1, <2>2
  <1> QED
    BY <1>1, <1>7, <1>8 DEF Abstract!Remodel, Abstract!Nothing, Holds, Ids

(* A store is deleted.                                                        *)
LEMMA LoseMaps ==
    ASSUME TypeOK, Unique(stores), Unique(stores'), NEW i \in DOMAIN stores,
           ~stores[i].deleted, stores' = Without(i), UNCHANGED published
    PROVE  \/ \E n \in Names : Abstract!Lose(n)
           \/ UNCHANGED <<Holds, Ids, published>>
  <1>1. /\ DOMAIN stores \subseteq Nat /\ i # 0 /\ DOMAIN stores' = DOMAIN stores
        /\ \A j \in DOMAIN stores : j # i => stores'[j] = stores[j]
        /\ stores'[i].name = stores[i].name /\ stores'[i].deleted
    <2>1. stores \in Seq(Store)
      BY DEF TypeOK
    <2>2. DOMAIN stores = 1..Len(stores) /\ Len(stores) \in Nat
      BY <2>1, LenProperties
    <2>3. DOMAIN stores \subseteq Nat /\ i # 0
      BY <2>2
    <2>4. stores'[i].deleted = TRUE
      BY <2>1, DeletedLemma
    <2> QED
      BY <2>1, <2>3, <2>4, DeletedLemma
  <1>2. Ids' = Ids
    BY <1>1 DEF Ids
  <1>3. \A m \in Names : m # stores[i].name => HeldIn(stores', m) = HeldIn(stores, m)
    <2> SUFFICES ASSUME NEW m \in Names, m # stores[i].name
                 PROVE  HeldIn(stores', m) = HeldIn(stores, m)
      OBVIOUS
    <2>1. \A j \in DOMAIN stores' :
              LiveIn(stores', j, m) <=> j \in DOMAIN stores /\ LiveIn(stores, j, m)
      BY <1>1 DEF LiveIn
    <2>2. \A j \in DOMAIN stores : LiveIn(stores, j, m) => stores'[j].models = stores[j].models
      BY <1>1 DEF LiveIn
    <2> QED
      BY <1>1, <2>1, <2>2, HeldSame
  <1>4. CASE stores[i].name \notin Names
    BY <1>2, <1>3, <1>4, HoldsLemma
  <1>5. CASE stores[i].name \in Names
    <2> DEFINE n == stores[i].name
    <2>1. HeldIn(stores, n) = [id |-> i, model |-> LatestIn(stores, i)]
      BY <1>1, <1>5, HeldLive DEF LiveIn
    <2>2. HeldIn(stores', n) = [id |-> 0, model |-> "none"]
      <3>1. \A j \in DOMAIN stores' : ~LiveIn(stores', j, n)
        BY <1>1, <1>5 DEF LiveIn, Unique
      <3> QED
        BY <3>1, HeldNone
    <2>3. /\ Holds[n] # [id |-> 0, model |-> "none"]
          /\ Holds' = [Holds EXCEPT ![n] = [id |-> 0, model |-> "none"]]
      BY <1>1, <1>3, <1>5, <2>1, <2>2, HoldsLemma
    <2>4. Abstract!Lose(n)
      BY <1>2, <2>3 DEF Abstract!Lose, Abstract!Nothing, Holds, Ids
    <2> QED
      BY <1>5, <2>4
  <1> QED
    BY <1>4, <1>5

(* The id of a store with a model is handed on.                               *)
LEMMA PublishMaps ==
    ASSUME TypeOK, HasStore, Pass, Unique(stores), Publish PROVE Abstract!Publish
  <1>1. /\ published' = id /\ UNCHANGED stores /\ DOMAIN stores \subseteq Nat
        /\ id \in DOMAIN stores /\ id # 0
        /\ stores[id].name = req.name /\ req.name \in Names /\ req.model \in Models
        /\ ~stores[id].deleted => LatestIn(stores, id) = req.model
    BY LenProperties DEF TypeOK, HasStore, Wanted, Pass, Publish, LatestModel, LatestIn
  <1>2. Holds' = Holds /\ Ids' = Ids
    BY <1>1, HoldsLemma DEF Ids
  <1>3. published' \in Ids
    BY <1>1 DEF Ids
  <1>4. ASSUME NEW n \in Names, Holds[n].id = published' PROVE Holds[n].model # "none"
    <2>1. PICK j \in DOMAIN stores : LiveIn(stores, j, n)
      BY <1>1, <1>4, HeldNone, HoldsLemma
    <2>2. HeldIn(stores, n) = [id |-> j, model |-> LatestIn(stores, j)]
      BY <1>1, <2>1, HeldLive
    <2>3. j = id /\ Holds[n].model = LatestIn(stores, id)
      BY <1>1, <1>4, <2>2, HoldsLemma
    <2> QED
      BY <1>1, <2>1, <2>3, ModelsAssumption DEF LiveIn
  <1>5. \A n \in Names : Holds[n].id = published' => Holds[n].model # "none"
    BY <1>4
  <1> QED
    BY <1>2, <1>3, <1>5 DEF Abstract!Publish, Holds, Ids

(* A store of another client is none of the abstract store's.                 *)
LEMMA OtherMaps ==
    ASSUME TypeOK, Unique(stores), Unique(stores'), OtherStore
    PROVE  UNCHANGED <<Holds, Ids, published>>
  <1>1. stores \in Seq(Store) /\ DOMAIN stores \subseteq Nat /\ stores' = Opened("lakekeeper")
    BY LenProperties DEF TypeOK, OtherStore
  <1>2. /\ \A i \in DOMAIN stores : i \in DOMAIN stores' /\ stores'[i] = stores[i]
        /\ \A i \in DOMAIN stores' : i \in DOMAIN stores \/ stores'[i].name = "lakekeeper"
    <2>1. stores'[Len(stores) + 1]
            = [name |-> "lakekeeper", deleted |-> FALSE, models |-> <<>>]
      BY <1>1, OpenedLemma
    <2> QED
      BY <1>1, <2>1, OpenedLemma
  <1>3. \A m \in Names : HeldIn(stores', m) = HeldIn(stores, m)
    <2> TAKE m \in Names
    <2>1. \A i \in DOMAIN stores' :
              LiveIn(stores', i, m) <=> i \in DOMAIN stores /\ LiveIn(stores, i, m)
      BY <1>2, NamesAssumption DEF LiveIn
    <2> QED
      BY <1>1, <1>2, <2>1, HeldSame
  <1>4. Ids' = Ids
    BY <1>2, NamesAssumption DEF Ids
  <1> QED
    BY <1>3, <1>4, HoldsLemma DEF OtherStore

LEMMA StepMaps ==
    ASSUME MaxLate = 0, Sound, Unique(stores), Unique(stores'), [Next]_vars
    PROVE  [Abstract!Next]_<<Holds, Ids, published>>
  <1>t. TypeOK /\ HasStore /\ Pass /\ late = {} /\ budget.late = 0
        /\ (pc = "create" => \A i \in DOMAIN stores : ~IsStore(i, req.name))
    BY UniqueLemma DEF Sound, Counted, TypeOK, Budget
  <1>e. UNCHANGED stores => UNCHANGED <<Holds, Ids>>
    BY HoldsLemma DEF Ids
  <1>1. CASE Begin
    <2>1. UNCHANGED stores /\ published' \in {published, 0}
      BY <1>1 DEF Begin
    <2> QED
      BY <1>e, <2>1 DEF Abstract!Next, Abstract!Withdraw, Holds, Ids
  <1>2. CASE /\ stores' = Opened(req.name) /\ pc = "create" /\ UNCHANGED published
    <2>1. PICK n \in Names : n = req.name
      BY <1>t DEF TypeOK, Wanted
    <2>2. Abstract!Open(n)
      BY <1>2, <1>t, <2>1, OpenMaps
    <2> QED
      BY <2>2 DEF Abstract!Next
  <1>3. CASE Writes /\ UNCHANGED published
    <2>1. PICK n \in Names : n = req.name
      BY <1>t DEF TypeOK, Wanted
    <2>2. Abstract!Remodel(n)
      BY <1>3, <1>t, <2>1, RemodelMaps
    <2> QED
      BY <2>2 DEF Abstract!Next
  <1>4. CASE Publish
    BY <1>4, <1>t, PublishMaps DEF Abstract!Next
  <1>5. CASE UNCHANGED <<stores, published>>
    BY <1>5, <1>e
  <1>6. CASE OtherStore
    BY <1>6, <1>t, OtherMaps
  <1>7. CASE DeleteStore
    <2>1. PICK i \in DOMAIN stores : ~stores[i].deleted /\ stores' = Without(i)
      BY <1>7 DEF DeleteStore, Without
    <2>2. UNCHANGED published
      BY <1>7 DEF DeleteStore
    <2> QED
      BY <1>t, <2>1, <2>2, LoseMaps DEF Abstract!Next
  <1>8. CASE GiveUpEarly \/ TakesEffect
    BY <1>8, <1>t DEF GiveUpEarly, TakesEffect, Spend
  <1>9. CASE Create
    BY <1>2, <1>9 DEF Create
  <1>10. CASE WriteModel
    <2>1. UNCHANGED <<wanted, granted, published>>
      BY <1>10 DEF WriteModel
    <2> QED
      BY <1>3, <1>10, <2>1 DEF WriteModel, Writes
  <1>11. CASE AnswerLost
    BY <1>2, <1>3, <1>11 DEF AnswerLost, Writes
  <1>12. CASE FindPage \/ ReadModel \/ WriteRefused \/ GiveUp \/ EditPolicies \/ Requeue
              \/ WriteTuples \/ UNCHANGED vars
    BY <1>5, <1>12 DEF FindPage, ReadModel, WriteRefused, GiveUp, EditPolicies, Requeue,
       WriteTuples, vars
  <1> QED
    BY <1>1, <1>4, <1>6, <1>7, <1>8, <1>9, <1>10, <1>11, <1>12 DEF Next, Operator

LEMMA InitMaps == Init => Abstract!Init
  <1> SUFFICES ASSUME Init PROVE Abstract!Init
    OBVIOUS
  <1>1. DOMAIN stores = {} /\ published = 0
    BY DEF Init
  <1>2. \A n \in Names : HeldIn(stores, n) = [id |-> 0, model |-> "none"]
    BY <1>1, HeldNone
  <1>3. Holds = [n \in Names |-> [id |-> 0, model |-> "none"]] /\ Ids = {}
    BY <1>1, <1>2, HoldsLemma DEF Ids
  <1> QED
    BY <1>1, <1>3 DEF Abstract!Init, Abstract!Nothing, Holds, Ids

(* EnsureAuthzStore, its failures and its users implement the abstract store. *)
THEOREM Refinement == ASSUME MaxLate = 0 PROVE Spec => ImplementsAccessStore
  <1>1. Sound => Unique(stores)
    BY UniqueStores DEF Sound
  <1>2. Sound /\ Unique(stores) /\ Unique(stores)' /\ [Next]_vars
            => [Abstract!Next]_<<Holds, Ids, published>>
    <2> SUFFICES ASSUME Sound, Unique(stores), Unique(stores)', [Next]_vars
                 PROVE  [Abstract!Next]_<<Holds, Ids, published>>
      OBVIOUS
    <2>1. Unique(stores')
      BY DEF Unique, LiveIn
    <2> QED
      BY <2>1, StepMaps
  <1>3. Spec => Abstract!Init /\ [][Abstract!Next]_<<Holds, Ids, published>>
    BY <1>1, <1>2, InitMaps, Soundness, PTL DEF Spec
  <1> QED
    BY <1>3, PTL DEF ImplementsAccessStore, Abstract!Spec, Holds, Ids
=============================================================================
