------------------------- MODULE AccessPolicy_proof -------------------------
(***************************************************************************)
(* Proofs about AccessPolicy: whatever the users, grants, tables, policies *)
(* and cache duration are, a query shows what its user is entitled to, and *)
(* nothing once OpenFGA has been away for long, both except on coordinators*)
(* configured while the Postgres of OpenFGA was not ready; and it shows    *)
(* all of that once OpenFGA has been calm for long.                        *)
(***************************************************************************)
EXTENDS AccessPolicy, TLAPS

\* What a pass works with was a spec.
PassReadSpec == pc # "idle" => pass.policies \in PolicySets

\* A policy in force is in every OPA pod, in OPA's template and in the pass; Trino's
\* pods and template apply it, those that know of OPA at all.
Upheld(p) ==
    /\ pc = "idle" \/ p \in pass.policies
    /\ \A e \in opaPods \cup {opa} : p \in e.policies
    /\ \A a \in trinoPods \cup {trino} : a.opa => p.kind \in a.asks
EnforcedInForce == \A p \in inForce : Upheld(p)

\* Until a pass finds the Postgres of OpenFGA not ready, Trino knows of OPA.
OPAIsKnown ==
    ~databaseLost =>
        /\ pc # "idle" => pass.authz # "noDatabase"
        /\ \A a \in trinoPods \cup {trino} : a.opa

\* What is cached was so, not longer ago than its age.
CacheSound ==
    \A e \in Env, u \in Users, q \in Questions :
        Cached(e, u, q) =>
            \A id \in cache[e][<<u, q>>].ids : \E t \in Tuples :
                /\ t.user = u /\ Question(t) = q /\ t.id = id
                /\ t \in grants \/ held[t] <= cache[e][<<u, q>>].age

\* Nothing was added to a cache since OpenFGA went away.
CacheOld ==
    \A e \in Env, u \in Users, q \in Questions :
        Cached(e, u, q) /\ ~up => calm <= cache[e][<<u, q>>].age

\* What was asked since OpenFGA and its model last changed includes every grant
\* that is older than the answer.
CacheComplete ==
    \A e \in Env, u \in Users, q \in Questions :
        Cached(e, u, q) /\ up /\ q \in model /\ cache[e][<<u, q>>].age < calm =>
            \A t \in grants :
                t.user = u /\ Question(t) = q /\ held[t] > cache[e][<<u, q>>].age
                => t.id \in cache[e][<<u, q>>].ids

Typed == TypeOK /\ PassReadSpec
Inv == Typed /\ EnforcedInForce /\ OPAIsKnown /\ CacheSound /\ CacheOld /\ CacheComplete
-----------------------------------------------------------------------------
(* Environments, access controls, answers *)

(* The environment of OPA says which policies it was made from.               *)
LEMMA EnvLemma ==
    /\ \A ps \in PolicySets : \A known \in BOOLEAN :
          /\ EnvOf(ps, known) \in Env
          /\ EnvOf(ps, known).policies = ps
          /\ EnvOf(ps, known).store = (known /\ ps # {})
    /\ \A e \in Env : e.policies \in PolicySets /\ e.store \in BOOLEAN
  <1>1. \A ps : \A known \in BOOLEAN :
            /\ EnvOf(ps, known).policies = ps
            /\ EnvOf(ps, known).store = (known /\ ps # {})
            /\ EnvOf(ps, known).store \in BOOLEAN
    BY DEF EnvOf
  <1>2. \A ps \in PolicySets : \A known \in BOOLEAN : EnvOf(ps, known) \in Env
    BY DEF Env
  <1>3. \A e \in Env : \E ps \in PolicySets, known \in BOOLEAN : e = EnvOf(ps, known)
    BY DEF Env
  <1>4. \A e \in Env : e.policies \in PolicySets /\ e.store \in BOOLEAN
    <2> TAKE e \in Env
    <2>1. PICK ps \in PolicySets, known \in BOOLEAN : e = EnvOf(ps, known)
      BY <1>3
    <2> QED
      BY <1>1, <2>1
  <1> QED
    BY <1>1, <1>2, <1>4

(* ... and Trino's access control asks for the kinds of those policies.       *)
LEMMA AccessControlLemma ==
    \A ps \in PolicySets : \A known \in BOOLEAN :
        /\ AccessControl(ps, known) \in AccessControls
        /\ AccessControl(ps, known).opa = known
        /\ known => \A p \in ps : p.kind \in AccessControl(ps, known).asks
  <1>1. \A ps \in PolicySets : \A known \in BOOLEAN : AccessControl(ps, known) \in AccessControls
    BY DEF AccessControls
  <1>2. \A ps : AccessControl(ps, TRUE).asks = {p.kind : p \in ps}
    BY DEF AccessControl
  <1>3. \A ps, known : AccessControl(ps, known).opa = known
    BY DEF AccessControl
  <1> QED
    BY <1>1, <1>2, <1>3

(* The questions of configured policies.                                      *)
LEMMA QuestionsLemma ==
    \A ps \in PolicySets :
        /\ ps \subseteq Policies
        /\ QuestionsOf(ps) \subseteq Questions
        /\ \A p \in ps : Question(p) \in QuestionsOf(ps)
  <1>1. \A ps \in PolicySets : ps \subseteq Policies
    BY DEF Policies
  <1>2. \A ps : \A p \in ps : Question(p) \in QuestionsOf(ps)
    BY DEF QuestionsOf
  <1>3. \A ps, qs : ps \subseteq qs => QuestionsOf(ps) \subseteq QuestionsOf(qs)
    BY DEF QuestionsOf
  <1> QED
    BY <1>1, <1>2, <1>3 DEF Questions

(* A policy is a row filter or a column restriction.                          *)
LEMMA KindLemma ==
    \A p \in Policies :
        /\ p \in Restrictions => p.kind = "columns"
        /\ p \notin Restrictions => p.kind = "rows" /\ p.numeric \in BOOLEAN
  BY PoliciesAssumption DEF Restrictions

(* An entry that is cached is an entry.                                       *)
LEMMA CachedLemma ==
    ASSUME TypeOK, NEW e \in Env, NEW u \in Users, NEW q \in Questions
    PROVE  /\ Cached(e, u, q) => cache[e][<<u, q>>] \in Entry
           /\ cache[e][<<u, q>>].age \in 0..CacheSeconds
  <1>1. <<u, q>> \in Key /\ cache[e][<<u, q>>] \in Entry \cup {NoEntry}
    BY DEF TypeOK, Key
  <1>2. \A x \in Entry \cup {NoEntry} : x.age \in 0..CacheSeconds
    BY BoundsAssumption DEF Entry, NoEntry
  <1> QED
    BY <1>1, <1>2 DEF Cached

LEMMA LaterLemma ==
    \A n \in 0..Long :
        /\ Later(n) \in 0..Long
        /\ \A age \in 0..CacheSeconds :
              age # CacheSeconds =>
                  /\ n <= age => Later(n) <= age + 1
                  /\ Later(n) <= age + 1 => n <= age
                  /\ (age + 1 < Later(n)) <=> (age < n)
  BY BoundsAssumption DEF Later, Long

(* What OpenFGA lists are ids.                                                *)
LEMMA ListObjectsLemma ==
    ASSUME TypeOK, NEW e \in Env, NEW u \in Users, NEW q \in Questions
    PROVE  ~Cached(e, u, q) =>
               /\ ListObjects(e, u, q) \subseteq Ids
               /\ ~Answers(q) => ListObjects(e, u, q) = {}
               /\ e.store /\ Answers(q) => ListObjects(e, u, q) = Objects(u, q)
  <1>1. Objects(u, q) \subseteq Ids
    BY DEF Objects, Ids, TypeOK
  <1> QED
    BY <1>1 DEF ListObjects
-----------------------------------------------------------------------------
(* What a request leaves in a cache *)

\* The answer that is kept for a question nobody has asked the pod.
Answered(e, u, q) ==
    /\ ~Cached(e, u, q)
    /\ \/ Answers(q) /\ cache'[e][<<u, q>>] = [age |-> 0, ids |-> Objects(u, q)]
       \/ up /\ q \notin model /\ cache'[e][<<u, q>>] = [age |-> 0, ids |-> {}]

LEMMA RememberLemma ==
    ASSUME TypeOK, NEW e \in Env, NEW u \in Users, NEW qs, Remember(e, u, qs)
    PROVE  /\ cache' \in [Env -> [Key -> Entry \cup {NoEntry}]]
           /\ \A d \in Env, v \in Users, q \in Questions :
                 \/ cache'[d][<<v, q>>] = cache[d][<<v, q>>]
                 \/ Answered(d, v, q)
  <1>1. PICK refusals \in {{}, {q \in qs : up /\ q \notin model}} :
        cache' = [cache EXCEPT ![e] = [k \in Key |->
            IF /\ k[1] = u /\ k[2] \in qs /\ e.store
               /\ ~Cached(e, u, k[2])
               /\ Answers(k[2]) \/ k[2] \in refusals
            THEN [age |-> 0, ids |-> ListObjects(e, u, k[2])]
            ELSE @[k]]]
    BY DEF Remember
  <1> DEFINE Asked(q) == /\ q \in qs /\ e.store /\ ~Cached(e, u, q)
                         /\ Answers(q) \/ q \in refusals
             new == [k \in Key |-> IF k[1] = u /\ Asked(k[2])
                                   THEN [age |-> 0, ids |-> ListObjects(e, u, k[2])]
                                   ELSE cache[e][k]]
  <1>2. cache' = [cache EXCEPT ![e] = new]
    BY <1>1
  <1>3. /\ DOMAIN cache = Env
        /\ \A d \in Env : cache[d] \in [Key -> Entry \cup {NoEntry}]
    BY DEF TypeOK
  <1>4. \A q \in Questions : Asked(q) =>
            /\ [age |-> 0, ids |-> ListObjects(e, u, q)] \in Entry
            /\ \/ Answers(q) /\ ListObjects(e, u, q) = Objects(u, q)
               \/ up /\ q \notin model /\ ListObjects(e, u, q) = {}
    <2> SUFFICES ASSUME NEW q \in Questions, Asked(q)
                 PROVE  /\ [age |-> 0, ids |-> ListObjects(e, u, q)] \in Entry
                        /\ \/ Answers(q) /\ ListObjects(e, u, q) = Objects(u, q)
                           \/ up /\ q \notin model /\ ListObjects(e, u, q) = {}
      OBVIOUS
    <2>1. /\ ListObjects(e, u, q) \subseteq Ids
          /\ ~Answers(q) => ListObjects(e, u, q) = {}
          /\ Answers(q) => ListObjects(e, u, q) = Objects(u, q)
      BY ListObjectsLemma
    <2>2. Answers(q) \/ (up /\ q \notin model)
      BY <1>1
    <2>3. ~Answers(q) \/ ~(up /\ q \notin model)
      BY DEF Answers
    <2>4. [age |-> 0, ids |-> ListObjects(e, u, q)] \in Entry
      BY <2>1, BoundsAssumption DEF Entry
    <2> QED
      BY <2>1, <2>2, <2>3, <2>4
  <1>5. \A k \in Key : k[1] \in Users /\ k[2] \in Questions
    BY DEF Key
  <1>6. new \in [Key -> Entry \cup {NoEntry}]
    BY <1>3, <1>4, <1>5
  <1>7. \A v \in Users, q \in Questions :
            <<v, q>> \in Key /\ <<v, q>>[1] = v /\ <<v, q>>[2] = q
    BY DEF Key
  <1>8. \A v \in Users, q \in Questions :
            new[<<v, q>>] = IF v = u /\ Asked(q) THEN [age |-> 0, ids |-> ListObjects(e, u, q)]
                                             ELSE cache[e][<<v, q>>]
    BY <1>7
  <1>9. \A q : Asked(q) => ~Cached(e, u, q)
    OBVIOUS
  <1> HIDE DEF new, Asked
  <1>10. cache' \in [Env -> [Key -> Entry \cup {NoEntry}]]
    BY <1>2, <1>3, <1>6
  <1>11. /\ cache'[e] = new
         /\ \A d \in Env \ {e} : cache'[d] = cache[d]
    BY <1>2, <1>3
  <1>12. ASSUME NEW d \in Env, NEW v \in Users, NEW q \in Questions,
                cache'[d][<<v, q>>] # cache[d][<<v, q>>]
         PROVE  Answered(d, v, q)
    <2>1. d = e /\ v = u /\ Asked(q)
      BY <1>8, <1>11, <1>12
    <2>2. cache'[d][<<v, q>>] = [age |-> 0, ids |-> ListObjects(e, u, q)]
      BY <1>8, <1>11, <2>1
    <2> QED
      BY <1>4, <1>9, <2>1, <2>2 DEF Answered
  <1> QED
    BY <1>10, <1>12
-----------------------------------------------------------------------------
(* Types *)

LEMMA TypeInit == Init => Typed
  <1> SUFFICES ASSUME Init PROVE Typed
    OBVIOUS
  <1>1. /\ spec \in PolicySets /\ pc = "idle" /\ pass = NoPass
        /\ model = QuestionsOf(spec)
        /\ opa = EnvOf(spec, TRUE) /\ opaPods = {opa}
        /\ cache = [e \in Env |-> Empty]
        /\ trino = AccessControl(spec, TRUE) /\ trinoPods = {trino}
        /\ grants \subseteq Tuples
        /\ held = [t \in Tuples |-> Long] /\ calm = Long
        /\ inForce = spec /\ databaseLost = FALSE /\ events = 0
    BY DEF Init
  <1>2. model \subseteq Questions /\ opa \in Env /\ trino \in AccessControls
    BY <1>1, EnvLemma, AccessControlLemma, QuestionsLemma
  <1>3. cache \in [Env -> [Key -> Entry \cup {NoEntry}]]
    BY <1>1 DEF Empty
  <1>4. Long \in 0..Long /\ events \in 0..MaxEvents
    BY <1>1, BoundsAssumption DEF Long
  <1>5. held \in [Tuples -> 0..Long] /\ calm \in 0..Long
    BY <1>1, <1>4
  <1>6. queued \in BOOLEAN /\ up \in BOOLEAN
    BY DEF Init
  <1> QED
    BY <1>1, <1>2, <1>3, <1>4, <1>5, <1>6 DEF Typed, TypeOK, PassReadSpec

(* The bound on the events.                                                   *)
LEMMA EventLemma ==
    ASSUME TypeOK, Event \/ UNCHANGED events
    PROVE  events' \in 0..MaxEvents
  BY BoundsAssumption DEF TypeOK, Event

(* No time is less than no time.                                              *)
LEMMA ZeroLemma == 0 \in 0..Long /\ 0 \in 0..CacheSeconds
  BY BoundsAssumption DEF Long

(* Time in a cache: an entry is dropped or one tick older.                    *)
LEMMA TickLemma ==
    ASSUME TypeOK, Tick
    PROVE  /\ cache' \in [Env -> [Key -> Entry \cup {NoEntry}]]
           /\ \A e \in Env, u \in Users, q \in Questions :
                 \/ cache'[e][<<u, q>>] = NoEntry
                 \/ /\ Cached(e, u, q)
                    /\ cache[e][<<u, q>>].age # CacheSeconds
                    /\ cache'[e][<<u, q>>].age = cache[e][<<u, q>>].age + 1
                    /\ cache'[e][<<u, q>>].ids = cache[e][<<u, q>>].ids
  <1> DEFINE Older(x) == IF x = NoEntry \/ Expired(x) THEN NoEntry
                         ELSE [x EXCEPT !.age = @ + 1]
  <1>1. cache' = [e \in DOMAIN cache |-> [k \in Key |-> Older(cache[e][k])]]
    BY DEF Tick
  <1>2. /\ DOMAIN cache = Env
        /\ \A e \in Env : cache[e] \in [Key -> Entry \cup {NoEntry}]
    BY DEF TypeOK
  <1>3. \A x \in Entry \cup {NoEntry} :
            \/ Older(x) = NoEntry
            \/ /\ x # NoEntry /\ x.age # CacheSeconds
               /\ Older(x) \in Entry
               /\ Older(x).age = x.age + 1 /\ Older(x).ids = x.ids
    <2> SUFFICES ASSUME NEW x \in Entry, x # NoEntry, x.age # CacheSeconds
                 PROVE  /\ Older(x) \in Entry
                        /\ Older(x).age = x.age + 1 /\ Older(x).ids = x.ids
      BY DEF Expired
    <2>1. Older(x) = [age |-> x.age + 1, ids |-> x.ids]
      BY DEF Expired, Entry
    <2>2. x.age + 1 \in 0..CacheSeconds /\ x.ids \in SUBSET Ids
      BY BoundsAssumption DEF Entry
    <2> QED
      BY <2>1, <2>2 DEF Entry
  <1> HIDE DEF Older
  <1>4. cache' \in [Env -> [Key -> Entry \cup {NoEntry}]]
    BY <1>1, <1>2, <1>3
  <1>5. ASSUME NEW e \in Env, NEW u \in Users, NEW q \in Questions
        PROVE  /\ cache[e][<<u, q>>] \in Entry \cup {NoEntry}
               /\ cache'[e][<<u, q>>] = Older(cache[e][<<u, q>>])
    BY <1>1, <1>2 DEF Key
  <1> QED
    BY <1>3, <1>4, <1>5 DEF Cached

(* A pod that starts is of its template; one that stops takes its cache along. *)
LEMMA StopLemma ==
    ASSUME TypeOK, NEW e \in opaPods, StopOPA(e)
    PROVE  /\ opaPods' \subseteq opaPods
           /\ cache' \in [Env -> [Key -> Entry \cup {NoEntry}]]
           /\ \A d \in Env, u \in Users, q \in Questions :
                 \/ cache'[d][<<u, q>>] = cache[d][<<u, q>>]
                 \/ cache'[d][<<u, q>>] = NoEntry
  <1>1. opaPods' = opaPods \ {e} /\ cache' = [cache EXCEPT ![e] = Empty]
    BY DEF StopOPA
  <1>2. Empty \in [Key -> Entry \cup {NoEntry}] /\ \A k \in Key : Empty[k] = NoEntry
    BY DEF Empty
  <1>3. \A u \in Users, q \in Questions : <<u, q>> \in Key
    BY DEF Key
  <1> QED
    BY <1>1, <1>2, <1>3 DEF TypeOK

(* The pass, while there is one.                                              *)
LEMMA PassLemma ==
    Typed /\ pc # "idle" => pass \in [policies : PolicySets, authz : Outcomes]
  BY DEF Typed, TypeOK, PassReadSpec, NoPass, Outcomes

CacheType == cache \in [Env -> [Key -> Entry \cup {NoEntry}]]

(* The operator's steps keep the types.                                       *)
LEMMA TypeOperator ==
    ASSUME Typed, Begin \/ EnsureStore \/ ApplyOPA \/ ApplyTrino \/ Abort
    PROVE  Typed'
  <1> USE DEF Typed, TypeOK, PassReadSpec
  <1>1. CASE Begin
    <2>1. pass' \in [policies : PolicySets, authz : Outcomes]
      BY <1>1 DEF Begin, Outcomes
    <2>2. pass'.policies \in PolicySets
      BY <2>1
    <2> QED
      BY <1>1, <2>1, <2>2 DEF Begin, clusterVars, openfgaVars
  <1>2. CASE EnsureStore
    <2>1. pass \in [policies : PolicySets, authz : Outcomes]
      BY <1>2, PassLemma DEF EnsureStore
    <2>2. PICK found \in Outcomes :
              /\ pass' = [pass EXCEPT !.authz = found]
              /\ model' = IF found = "ready" /\ pass.policies # {}
                          THEN QuestionsOf(pass.policies) ELSE model
              /\ databaseLost' = (databaseLost \/ found = "noDatabase")
              /\ Event \/ UNCHANGED events
      BY <1>2 DEF EnsureStore
    <2>3. /\ pass' \in [policies : PolicySets, authz : Outcomes]
          /\ pass'.policies = pass.policies
      BY <2>1, <2>2
    <2>4. model' \subseteq Questions /\ databaseLost' \in BOOLEAN
      BY <2>1, <2>2, QuestionsLemma
    <2>5. calm' \in 0..Long
      BY <1>2, ZeroLemma DEF EnsureStore
    <2>6. events' \in 0..MaxEvents
      BY <2>2, EventLemma
    <2>7. UNCHANGED <<spec, queued, clusterVars, grants, held, up, cache, inForce>>
      BY <1>2 DEF EnsureStore
    <2>8. pc' = "opa"
      BY <1>2 DEF EnsureStore
    <2> QED
      BY <2>1, <2>3, <2>4, <2>5, <2>6, <2>7, <2>8 DEF clusterVars
  <1>3. CASE ApplyOPA
    <2>1. pass.policies \in PolicySets
      BY <1>3 DEF ApplyOPA
    <2>2. opa' \in Env
      BY <1>3, <2>1, EnvLemma DEF ApplyOPA
    <2>3. UNCHANGED << spec, queued, pass, databaseLost, opaPods, trino, trinoPods,
                       openfgaVars, cache, calm, inForce, events >> /\ pc' = "trino"
      BY <1>3 DEF ApplyOPA
    <2> QED
      BY <2>1, <2>2, <2>3 DEF openfgaVars
  <1>4. CASE ApplyTrino
    <2>1. trino' \in AccessControls
      BY <1>4, AccessControlLemma DEF ApplyTrino
    <2>2. UNCHANGED << spec, databaseLost, opa, opaPods, trinoPods, openfgaVars, cache, calm,
                       inForce, events >>
      BY <1>4 DEF ApplyTrino
    <2>3. pc' = "idle" /\ pass' = NoPass /\ queued' \in BOOLEAN
      BY <1>4 DEF ApplyTrino
    <2> QED
      BY <2>1, <2>2, <2>3 DEF openfgaVars
  <1>5. CASE Abort
    BY <1>5 DEF Abort, clusterVars, openfgaVars
  <1> QED
    BY <1>1, <1>2, <1>3, <1>4, <1>5

(* ... those of the pods ...                                                  *)
LEMMA TypePods ==
    ASSUME Typed, PodsChange,
           opaPods' \subseteq opaPods \cup {opa}, trinoPods' \subseteq trinoPods \cup {trino},
           CacheType', events' \in 0..MaxEvents
    PROVE  Typed'
  <1>1. UNCHANGED <<spec, operatorVars, openfgaVars, opa, trino, calm>>
    BY DEF PodsChange
  <1>2. inForce' \subseteq spec'
    BY <1>1 DEF PodsChange, KeepInForce
  <1> QED
    BY <1>1, <1>2 DEF Typed, TypeOK, PassReadSpec, CacheType, operatorVars, openfgaVars

(* ... and those of users, administrators and time.                           *)
LEMMA TypeWorld ==
    ASSUME Typed, \/ Notify \/ EditPolicies \/ Outage \/ Recover \/ Tick
                  \/ \E t \in Tuples : WriteTuple(t)
    PROVE  Typed'
  <1> USE DEF Typed, TypeOK, PassReadSpec
  <1>1. CASE EditPolicies
    BY <1>1, EventLemma DEF EditPolicies, clusterVars, openfgaVars
  <1>2. CASE Outage
    BY <1>2, EventLemma, ZeroLemma DEF Outage, clusterVars
  <1>3. CASE Recover
    BY <1>3, ZeroLemma DEF Recover, clusterVars
  <1>4. CASE Tick
    <2>1. held' \in [Tuples -> 0..Long] /\ calm' \in 0..Long
      BY <1>4, LaterLemma DEF Tick
    <2>2. CacheType'
      BY <1>4, TickLemma DEF CacheType
    <2>3. UNCHANGED <<spec, operatorVars, clusterVars, model, grants, up, inForce, events>>
      BY <1>4 DEF Tick
    <2> QED
      BY <2>1, <2>2, <2>3 DEF CacheType, operatorVars, clusterVars
  <1>5. ASSUME NEW t \in Tuples, WriteTuple(t)
        PROVE  Typed'
    <2>1. grants' \subseteq Tuples /\ held' \in [Tuples -> 0..Long]
      BY <1>5, ZeroLemma DEF WriteTuple
    <2>2. events' \in 0..MaxEvents
      BY <1>5, EventLemma DEF WriteTuple
    <2>3. UNCHANGED <<spec, operatorVars, clusterVars, model, up, cache, calm, inForce>>
      BY <1>5 DEF WriteTuple
    <2> QED
      BY <2>1, <2>2, <2>3 DEF operatorVars, clusterVars
  <1>6. CASE Notify
    BY <1>6, EventLemma DEF Notify, clusterVars, openfgaVars
  <1> QED
    BY <1>1, <1>2, <1>3, <1>4, <1>5, <1>6
-----------------------------------------------------------------------------
(* The kinds of steps *)

\* A query puts answers into a cache.
Asks ==
    /\ \E e \in opaPods, u \in Users : \E qs : Remember(e, u, qs)
    /\ UNCHANGED <<spec, operatorVars, clusterVars, openfgaVars, calm, inForce, events>>

\* Pods come from the templates; a cache can only lose what it has.
PodsStep ==
    /\ PodsChange
    /\ opaPods' \subseteq opaPods \cup {opa} /\ trinoPods' \subseteq trinoPods \cup {trino}
    /\ CacheType' /\ events' \in 0..MaxEvents
    /\ \A e \in Env, u \in Users, q \in Questions :
          \/ cache'[e][<<u, q>>] = cache[e][<<u, q>>]
          \/ cache'[e][<<u, q>>] = NoEntry

OperatorStep == Begin \/ EnsureStore \/ ApplyOPA \/ ApplyTrino \/ Abort
WorldStep ==
    \/ Notify \/ EditPolicies \/ Outage \/ Recover \/ Tick
    \/ \E t \in Tuples : WriteTuple(t)

LEMMA StepKinds ==
    ASSUME Typed, [Next]_vars
    PROVE  Asks \/ PodsStep \/ OperatorStep \/ WorldStep \/ UNCHANGED vars
  <1>1. ASSUME NEW e \in opaPods, NEW u \in Users,
               AskColumns(e, u) \/ \E t \in Tables : AskRows(e, u, t)
        PROVE  Asks
    BY <1>1 DEF Asks, AskColumns, AskRows
  <1>2. ASSUME StartOPA \/ StartTrino \/ \E a \in trinoPods : StopOldTrino(a)
        PROVE  PodsStep
    <2>1. PodsChange /\ UNCHANGED <<cache, events>>
      BY <1>2 DEF StartOPA, StartTrino, StopOldTrino
    <2>2. opaPods' \subseteq opaPods \cup {opa} /\ trinoPods' \subseteq trinoPods \cup {trino}
      BY <1>2 DEF StartOPA, StartTrino, StopOldTrino
    <2> QED
      BY <2>1, <2>2 DEF PodsStep, CacheType, Typed, TypeOK
  <1>3. ASSUME NEW e \in opaPods, StopOldOPA(e) \/ LoseOPA(e)
        PROVE  PodsStep
    <2>1. StopOPA(e) /\ (Event \/ UNCHANGED events)
      BY <1>3 DEF StopOldOPA, LoseOPA
    <2>2. events' \in 0..MaxEvents
      BY <2>1, EventLemma DEF Typed
    <2>3. PodsChange /\ UNCHANGED trinoPods
      BY <2>1 DEF StopOPA
    <2> QED
      BY <2>1, <2>2, <2>3, StopLemma DEF PodsStep, CacheType, Typed
  <1> QED
    BY <1>1, <1>2, <1>3 DEF Next, OperatorStep, WorldStep

LEMMA TypeStep == Typed /\ [Next]_vars => Typed'
  <1> SUFFICES ASSUME Typed, [Next]_vars PROVE Typed'
    OBVIOUS
  <1>1. CASE Asks
    <2>1. CacheType'
      BY <1>1, RememberLemma DEF Asks, CacheType, Typed, TypeOK
    <2> QED
      BY <1>1, <2>1 DEF Asks, Typed, TypeOK, PassReadSpec, CacheType, operatorVars,
         clusterVars, openfgaVars
  <1>2. CASE PodsStep
    BY <1>2, TypePods DEF PodsStep
  <1>3. CASE OperatorStep
    BY <1>3, TypeOperator DEF OperatorStep
  <1>4. CASE WorldStep
    BY <1>4, TypeWorld DEF WorldStep
  <1>5. CASE UNCHANGED vars
    BY <1>5 DEF vars, Typed, TypeOK, PassReadSpec, operatorVars, clusterVars, openfgaVars
  <1> QED
    BY <1>1, <1>2, <1>3, <1>4, <1>5, StepKinds

(* Every variable stays within its type: AccessPolicy's state, and the        *)
(* policies a pass works with, which it read from a spec (Begin).             *)
THEOREM TypeCorrect == Spec => []TypeOK
  <1>1. Spec => []Typed
    BY TypeInit, TypeStep, PTL DEF Spec
  <1>2. Typed => TypeOK
    BY DEF Typed
  <1> QED
    BY <1>1, <1>2, PTL
-----------------------------------------------------------------------------
(* What is in force is enforced *)

LEMMA EnforcedStep == Typed /\ EnforcedInForce /\ [Next]_vars => EnforcedInForce'
  <1> SUFFICES ASSUME Typed, EnforcedInForce, [Next]_vars, NEW p \in inForce'
               PROVE  Upheld(p)'
    BY DEF EnforcedInForce
  <1>1. p \in inForce => Upheld(p) /\ p \in spec
    BY DEF EnforcedInForce, Typed, TypeOK
  <1>2. CASE PodsStep
    <2>1. CASE Enforced(p)'
      BY <2>1 DEF Enforced, Upheld
    <2>2. CASE p \in inForce
      BY <1>1, <1>2, <2>2 DEF PodsStep, PodsChange, operatorVars, Upheld
    <2> QED
      BY <1>2, <2>1, <2>2 DEF PodsStep, PodsChange, KeepInForce
  <1>3. ASSUME p \in inForce, UNCHANGED clusterVars, pc' = "idle" \/ UNCHANGED <<pc, pass>>
        PROVE  Upheld(p)'
    BY <1>1, <1>3 DEF Upheld, clusterVars
  <1>4. CASE Asks \/ WorldStep \/ Abort \/ UNCHANGED vars
    <2>1. p \in inForce
      BY <1>4 DEF Asks, WorldStep, Abort, EditPolicies, Outage, Recover, Tick, WriteTuple,
         Notify, vars
    <2>2. UNCHANGED clusterVars /\ (pc' = "idle" \/ UNCHANGED <<pc, pass>>)
      BY <1>4 DEF Asks, WorldStep, Abort, EditPolicies, Outage, Recover, Tick, WriteTuple,
         Notify, vars, operatorVars
    <2> QED
      BY <1>3, <2>1, <2>2
  <1>5. CASE Begin
    BY <1>1, <1>5 DEF Begin, Upheld, clusterVars
  <1>6. CASE EnsureStore
    <2>1. pass'.policies = pass.policies
      BY <1>6, PassLemma DEF EnsureStore
    <2> QED
      BY <1>1, <1>6, <2>1 DEF EnsureStore, Upheld, clusterVars
  <1>7. CASE ApplyOPA
    <2>1. p \in pass.policies /\ pass.policies \in PolicySets
      BY <1>1, <1>7 DEF ApplyOPA, Upheld, Typed, PassReadSpec
    <2>2. p \in opa'.policies
      BY <1>7, <2>1, EnvLemma DEF ApplyOPA
    <2> QED
      BY <1>1, <1>7, <2>1, <2>2 DEF ApplyOPA, Upheld
  <1>8. CASE ApplyTrino
    <2>1. p \in inForce
      BY <1>8 DEF ApplyTrino
    <2>2. p \in pass.policies /\ pass.policies \in PolicySets
      BY <1>1, <1>8, <2>1 DEF ApplyTrino, Upheld, Typed, PassReadSpec
    <2>3. trino'.opa => p.kind \in trino'.asks
      BY <1>8, <2>2, AccessControlLemma DEF ApplyTrino
    <2> QED
      BY <1>1, <1>8, <2>1, <2>3 DEF ApplyTrino, Upheld
  <1> QED
    BY <1>2, <1>4, <1>5, <1>6, <1>7, <1>8, StepKinds DEF OperatorStep

LEMMA OPAIsKnownStep == Typed /\ OPAIsKnown /\ [Next]_vars => OPAIsKnown'
  <1> SUFFICES ASSUME Typed, OPAIsKnown, [Next]_vars, ~databaseLost'
               PROVE  /\ pc' # "idle" => pass'.authz # "noDatabase"
                      /\ \A a \in trinoPods' \cup {trino'} : a.opa
    BY DEF OPAIsKnown
  <1>1. CASE PodsStep
    BY <1>1 DEF PodsStep, PodsChange, operatorVars, OPAIsKnown
  <1>2. CASE Asks \/ WorldStep \/ Abort \/ UNCHANGED vars
    <2>1. /\ UNCHANGED <<databaseLost, clusterVars>>
          /\ pc' = "idle" \/ UNCHANGED <<pc, pass>>
      BY <1>2 DEF Asks, WorldStep, Abort, EditPolicies, Outage, Recover, Tick, WriteTuple,
         Notify, vars, operatorVars
    <2> QED
      BY <2>1 DEF OPAIsKnown, clusterVars
  <1>3. CASE Begin
    <2>1. pass'.authz = "ready" /\ UNCHANGED <<databaseLost, clusterVars>>
      BY <1>3 DEF Begin
    <2> QED
      BY <2>1 DEF OPAIsKnown, clusterVars
  <1>4. CASE EnsureStore
    <2>1. pass \in [policies : PolicySets, authz : Outcomes]
      BY <1>4, PassLemma DEF EnsureStore
    <2>2. PICK found \in Outcomes :
              /\ pass' = [pass EXCEPT !.authz = found]
              /\ databaseLost' = (databaseLost \/ found = "noDatabase")
      BY <1>4 DEF EnsureStore
    <2>3. pass'.authz # "noDatabase" /\ ~databaseLost
      BY <2>1, <2>2
    <2>4. UNCHANGED clusterVars
      BY <1>4 DEF EnsureStore
    <2> QED
      BY <2>3, <2>4 DEF OPAIsKnown, clusterVars
  <1>5. CASE ApplyOPA
    BY <1>5 DEF ApplyOPA, OPAIsKnown
  <1>6. CASE ApplyTrino
    <2>1. ~databaseLost /\ pc # "idle" /\ pc' = "idle" /\ trinoPods' = trinoPods
      BY <1>6 DEF ApplyTrino
    <2>2. pass.authz # "noDatabase"
      BY <2>1 DEF OPAIsKnown
    <2>3. pass.policies \in PolicySets
      BY <2>1 DEF Typed, PassReadSpec
    <2>4. trino'.opa
      BY <1>6, <2>2, <2>3, AccessControlLemma DEF ApplyTrino
    <2> QED
      BY <2>1, <2>4 DEF OPAIsKnown
  <1> QED
    BY <1>1, <1>2, <1>3, <1>4, <1>5, <1>6, StepKinds DEF OperatorStep
-----------------------------------------------------------------------------
(* What is cached stays true of OpenFGA *)

\* A step that neither serves a query nor is time leaves the entries or drops them.
LEMMA KeptLemma ==
    ASSUME Typed, PodsStep \/ OperatorStep \/ UNCHANGED vars
           \/ Notify \/ EditPolicies \/ Outage \/ Recover \/ \E t \in Tuples : WriteTuple(t)
    PROVE  \A e \in Env, u \in Users, q \in Questions :
               \/ cache'[e][<<u, q>>] = cache[e][<<u, q>>]
               \/ cache'[e][<<u, q>>] = NoEntry
  BY DEF PodsStep, OperatorStep, Begin, EnsureStore, ApplyOPA, ApplyTrino, Abort, Notify,
         EditPolicies, Outage, Recover, WriteTuple, vars

(* How OpenFGA changes under the caches: only the operator changes its model, *)
(* which restarts calm, as an outage and its end do.                          *)
LEMMA OpenFGALemma ==
    ASSUME Typed, [Next]_vars, ~Tick
    PROVE  /\ \/ UNCHANGED <<grants, held>>
              \/ \E t \in Tuples :
                    /\ grants' \ {t} = grants \ {t}
                    /\ held' = [held EXCEPT ![t] = 0]
           /\ \/ UNCHANGED <<up, model, calm>>
              \/ calm' = 0
  <1>1. CASE Asks \/ PodsStep \/ UNCHANGED vars
    BY <1>1 DEF Asks, PodsStep, PodsChange, openfgaVars, vars
  <1>2. CASE OperatorStep
    BY <1>2 DEF OperatorStep, Begin, EnsureStore, ApplyOPA, ApplyTrino, Abort, openfgaVars
  <1>3. CASE Notify \/ EditPolicies \/ Outage \/ Recover
    BY <1>3 DEF Notify, EditPolicies, Outage, Recover, openfgaVars
  <1>4. ASSUME NEW t \in Tuples, WriteTuple(t)
        PROVE  /\ grants' \ {t} = grants \ {t}
               /\ held' = [held EXCEPT ![t] = 0]
               /\ UNCHANGED <<up, model, calm>>
    BY <1>4 DEF WriteTuple
  <1> QED
    BY <1>1, <1>2, <1>3, <1>4, StepKinds DEF WorldStep

\* How an entry came about that is cached after a step.
Kept(e, u, q) == ~Tick /\ Cached(e, u, q) /\ cache'[e][<<u, q>>] = cache[e][<<u, q>>]
New(e, u, q) == ~Tick /\ Answered(e, u, q) /\ UNCHANGED <<openfgaVars, calm>>
Aged(e, u, q) ==
    /\ Tick /\ Cached(e, u, q)
    /\ cache[e][<<u, q>>].age # CacheSeconds
    /\ cache'[e][<<u, q>>].age = cache[e][<<u, q>>].age + 1
    /\ cache'[e][<<u, q>>].ids = cache[e][<<u, q>>].ids

LEMMA EntryLemma ==
    ASSUME Typed, [Next]_vars, NEW e \in Env, NEW u \in Users, NEW q \in Questions,
           cache'[e][<<u, q>>] # NoEntry
    PROVE  Kept(e, u, q) \/ New(e, u, q) \/ Aged(e, u, q)
  <1>1. CASE Tick
    BY <1>1, TickLemma DEF Aged, Typed
  <1>2. CASE ~Tick /\ Asks
    <2>1. PICK d \in opaPods, v \in Users : \E qs : Remember(d, v, qs)
      BY <1>2 DEF Asks
    <2>2. d \in Env
      BY DEF Typed, TypeOK
    <2>3. cache'[e][<<u, q>>] = cache[e][<<u, q>>] \/ Answered(e, u, q)
      BY <2>1, <2>2, RememberLemma DEF Typed
    <2> QED
      BY <1>2, <2>3 DEF Asks, New, Kept, Cached
  <1>3. CASE ~Tick /\ ~Asks
    <2>1. cache'[e][<<u, q>>] = cache[e][<<u, q>>]
      BY <1>3, KeptLemma, StepKinds DEF WorldStep
    <2> QED
      BY <1>3, <2>1 DEF Kept, Cached
  <1> QED
    BY <1>1, <1>2, <1>3

LEMMA CacheSoundStep == Typed /\ CacheSound /\ [Next]_vars => CacheSound'
  <1> SUFFICES ASSUME Typed, CacheSound, [Next]_vars,
                      NEW e \in Env, NEW u \in Users, NEW q \in Questions,
                      cache'[e][<<u, q>>] # NoEntry,
                      NEW id \in cache'[e][<<u, q>>].ids
               PROVE  \E t \in Tuples :
                          /\ t.user = u /\ Question(t) = q /\ t.id = id
                          /\ t \in grants' \/ held'[t] <= cache'[e][<<u, q>>].age
    BY DEF CacheSound, Cached
  <1>1. CASE Kept(e, u, q)
    <2>1. PICK t \in Tuples :
              /\ t.user = u /\ Question(t) = q /\ t.id = id
              /\ t \in grants \/ held[t] <= cache[e][<<u, q>>].age
      BY <1>1 DEF Kept, CacheSound
    <2>2. cache[e][<<u, q>>].age \in 0..CacheSeconds
      BY CachedLemma DEF Typed
    <2>3. t \in grants' \/ held'[t] <= cache[e][<<u, q>>].age
      <3>1. CASE UNCHANGED <<grants, held>>
        BY <2>1, <3>1
      <3>2. ASSUME NEW w \in Tuples, grants' \ {w} = grants \ {w},
                   held' = [held EXCEPT ![w] = 0]
            PROVE  t \in grants' \/ held'[t] <= cache[e][<<u, q>>].age
        <4>1. CASE t = w
          BY <2>2, <3>2, <4>1, BoundsAssumption DEF Typed, TypeOK
        <4>2. CASE t # w
          BY <2>1, <3>2, <4>2 DEF Typed, TypeOK
        <4> QED
          BY <4>1, <4>2
      <3> QED
        BY <1>1, <3>1, <3>2, OpenFGALemma DEF Kept
    <2> QED
      BY <1>1, <2>1, <2>3 DEF Kept
  <1>2. CASE New(e, u, q)
    <2>1. id \in Objects(u, q)
      BY <1>2 DEF New, Answered
    <2>2. PICK t \in grants : t.user = u /\ Question(t) = q /\ t.id = id
      BY <2>1 DEF Objects
    <2> QED
      BY <1>2, <2>2 DEF New, openfgaVars, Typed, TypeOK
  <1>3. CASE Aged(e, u, q)
    <2>1. PICK t \in Tuples :
              /\ t.user = u /\ Question(t) = q /\ t.id = id
              /\ t \in grants \/ held[t] <= cache[e][<<u, q>>].age
      BY <1>3 DEF Aged, CacheSound
    <2>2. cache[e][<<u, q>>].age \in 0..CacheSeconds /\ held[t] \in 0..Long
      BY CachedLemma DEF Typed, TypeOK
    <2>3. grants' = grants /\ held'[t] = Later(held[t])
      BY <1>3 DEF Aged, Tick
    <2> QED
      BY <1>3, <2>1, <2>2, <2>3, LaterLemma DEF Aged
  <1> QED
    BY <1>1, <1>2, <1>3, EntryLemma

LEMMA CacheOldStep == Typed /\ CacheOld /\ [Next]_vars => CacheOld'
  <1> SUFFICES ASSUME Typed, CacheOld, [Next]_vars,
                      NEW e \in Env, NEW u \in Users, NEW q \in Questions,
                      cache'[e][<<u, q>>] # NoEntry, ~up'
               PROVE  calm' <= cache'[e][<<u, q>>].age
    BY DEF CacheOld, Cached
  <1>1. cache[e][<<u, q>>].age \in 0..CacheSeconds
    BY CachedLemma DEF Typed
  <1>2. CASE Kept(e, u, q)
    <2>1. CASE UNCHANGED <<up, model, calm>>
      BY <1>2, <2>1 DEF Kept, CacheOld
    <2>2. CASE calm' = 0
      BY <1>1, <1>2, <2>2, BoundsAssumption DEF Kept
    <2> QED
      BY <1>2, <2>1, <2>2, OpenFGALemma DEF Kept
  <1>3. CASE New(e, u, q)
    BY <1>3 DEF New, Answered, Answers, openfgaVars
  <1>4. CASE Aged(e, u, q)
    <2>1. up' = up /\ calm' = Later(calm) /\ calm \in 0..Long
      BY <1>4 DEF Aged, Tick, Typed, TypeOK
    <2>2. calm <= cache[e][<<u, q>>].age
      BY <1>4, <2>1 DEF Aged, CacheOld
    <2> QED
      BY <1>1, <1>4, <2>1, <2>2, LaterLemma DEF Aged
  <1> QED
    BY <1>2, <1>3, <1>4, EntryLemma

LEMMA CacheCompleteStep == Typed /\ CacheComplete /\ [Next]_vars => CacheComplete'
  <1> SUFFICES ASSUME Typed, CacheComplete, [Next]_vars,
                      NEW e \in Env, NEW u \in Users, NEW q \in Questions,
                      cache'[e][<<u, q>>] # NoEntry, up', q \in model',
                      cache'[e][<<u, q>>].age < calm',
                      NEW t \in grants', t.user = u, Question(t) = q,
                      held'[t] > cache'[e][<<u, q>>].age
               PROVE  t.id \in cache'[e][<<u, q>>].ids
    BY DEF CacheComplete, Cached
  <1>1. cache[e][<<u, q>>].age \in 0..CacheSeconds
    BY CachedLemma DEF Typed
  <1>2. CASE Kept(e, u, q)
    <2>1. UNCHANGED <<up, model, calm>>
      <3>1. CASE calm' = 0
        BY <1>1, <1>2, <3>1, BoundsAssumption DEF Kept
      <3> QED
        BY <1>2, <3>1, OpenFGALemma DEF Kept
    <2>2. t \in grants /\ held'[t] = held[t]
      <3>1. ASSUME NEW w \in Tuples, grants' \ {w} = grants \ {w},
                   held' = [held EXCEPT ![w] = 0]
            PROVE  t \in grants /\ held'[t] = held[t]
        <4>1. t # w
          <5>1. CASE t = w
            BY <1>1, <1>2, <3>1, <5>1, BoundsAssumption DEF Typed, TypeOK, Kept
          <5> QED
            BY <5>1
        <4> QED
          BY <3>1, <4>1 DEF Typed, TypeOK
      <3> QED
        BY <1>2, <3>1, OpenFGALemma DEF Kept
    <2> QED
      BY <1>2, <2>1, <2>2 DEF Kept, CacheComplete
  <1>3. CASE New(e, u, q)
    <2>1. q \in model /\ t \in grants
      BY <1>3 DEF New, openfgaVars
    <2>2. cache'[e][<<u, q>>].ids = Objects(u, q)
      BY <1>3, <2>1 DEF New, Answered
    <2> QED
      BY <2>1, <2>2 DEF Objects
  <1>4. CASE Aged(e, u, q)
    <2>1. UNCHANGED <<up, model, grants>> /\ calm' = Later(calm) /\ calm \in 0..Long
      BY <1>4 DEF Aged, Tick, Typed, TypeOK
    <2>2. held'[t] = Later(held[t]) /\ held[t] \in 0..Long
      BY <1>4, <2>1 DEF Aged, Tick, Typed, TypeOK
    <2>3. cache[e][<<u, q>>].age < calm /\ cache[e][<<u, q>>].age < held[t]
      BY <1>1, <1>4, <2>1, <2>2, LaterLemma DEF Aged, Long
    <2> QED
      BY <1>4, <2>1, <2>3 DEF Aged, CacheComplete, Long
  <1> QED
    BY <1>2, <1>3, <1>4, EntryLemma
-----------------------------------------------------------------------------
(* The invariant *)

LEMMA InvInit == Init => Inv
  <1> SUFFICES ASSUME Init PROVE Inv
    OBVIOUS
  <1>1. Typed
    BY TypeInit
  <1>2. EnforcedInForce
    <2>1. /\ pc = "idle" /\ inForce = spec /\ spec \in PolicySets
          /\ opa = EnvOf(spec, TRUE) /\ opaPods = {opa}
          /\ trino = AccessControl(spec, TRUE) /\ trinoPods = {trino}
      BY DEF Init
    <2>2. opa.policies = spec /\ \A p \in spec : p.kind \in trino.asks
      BY <2>1, EnvLemma, AccessControlLemma
    <2> QED
      BY <2>1, <2>2 DEF EnforcedInForce, Upheld
  <1>3. OPAIsKnown
    <2>1. /\ pc = "idle" /\ spec \in PolicySets
          /\ trino = AccessControl(spec, TRUE) /\ trinoPods = {trino}
      BY DEF Init
    <2> QED
      BY <2>1, AccessControlLemma DEF OPAIsKnown
  <1>4. \A e \in Env, u \in Users, q \in Questions : ~Cached(e, u, q)
    BY DEF Init, Empty, Cached, Key
  <1> QED
    BY <1>1, <1>2, <1>3, <1>4 DEF Inv, CacheSound, CacheOld, CacheComplete

THEOREM Invariance == Spec => []Inv
  <1>1. Inv /\ [Next]_vars => Inv'
    BY TypeStep, EnforcedStep, OPAIsKnownStep, CacheSoundStep, CacheOldStep, CacheCompleteStep
       DEF Inv
  <1> QED
    BY InvInit, <1>1, PTL DEF Spec
-----------------------------------------------------------------------------
(* What users see *)

(* Who is listed is entitled.                                                 *)
LEMMA ListedIsEntitled ==
    ASSUME Inv, NEW e \in Env, NEW u \in Users, NEW p \in Policies,
           NEW id \in ListObjects(e, u, Question(p))
    PROVE  Entitled(u, p, id)
  <1> DEFINE q == Question(p)
  <1>1. q \in Questions
    BY DEF Questions, QuestionsOf
  <1>2. CASE Cached(e, u, q)
    <2>1. id \in cache[e][<<u, q>>].ids
      BY <1>2 DEF ListObjects
    <2>2. PICK t \in Tuples :
              /\ t.user = u /\ Question(t) = q /\ t.id = id
              /\ t \in grants \/ held[t] <= cache[e][<<u, q>>].age
      BY <1>1, <1>2, <2>1 DEF Inv, CacheSound
    <2>3. cache[e][<<u, q>>].age \in 0..CacheSeconds /\ held[t] \in 0..Long
      BY <1>1, CachedLemma DEF Inv, Typed, TypeOK
    <2>4. t \in grants \/ held[t] <= CacheSeconds
      BY <2>2, <2>3, BoundsAssumption DEF Long
    <2> QED
      BY <2>2, <2>4 DEF Entitled
  <1>3. CASE ~Cached(e, u, q)
    <2>1. id \in Objects(u, q)
      BY <1>3 DEF ListObjects
    <2>2. PICK t \in grants : t.user = u /\ Question(t) = q /\ t.id = id
      BY <2>1 DEF Objects
    <2> QED
      BY <2>2 DEF Entitled, Inv, Typed, TypeOK
  <1> QED
    BY <1>2, <1>3

(* What a pod of a policy in force decides, and that no coordinator decides   *)
(* without one, the excused ones apart.                                       *)
LEMMA InForceLemma ==
    ASSUME Inv, NEW p \in inForce
    PROVE  /\ p \in Policies
           /\ \A e \in opaPods : e \in Env /\ p \in e.policies
           /\ \A a \in trinoPods : ~Excused(a) => p.kind \in a.asks
  <1>1. p \in spec /\ spec \in PolicySets
    BY DEF Inv, Typed, TypeOK
  <1>2. Upheld(p)
    BY DEF Inv, EnforcedInForce
  <1>3. \A a \in trinoPods : ~Excused(a) => a.opa
    BY DEF Inv, OPAIsKnown, Excused
  <1>4. \A a \in trinoPods : ~Excused(a) => p.kind \in a.asks
    BY <1>2, <1>3 DEF Upheld
  <1> QED
    BY <1>1, <1>2, <1>4 DEF Inv, Typed, TypeOK, Upheld, Policies

LEMMA RowsLemma ==
    ASSUME Inv, NEW a \in trinoPods, ~Excused(a), NEW u \in Users,
           NEW f \in inForce \ Restrictions,
           NEW rows \in RowsShown(a, u, f.table), NEW r \in rows
    PROVE  \E e \in opaPods : e \in Env /\ r.at[f.column] \in ListObjects(e, u, Question(f))
  <1>1. /\ f \in Policies
        /\ \A e \in opaPods : e \in Env /\ f \in e.policies
        /\ f.kind \in a.asks
    BY InForceLemma
  <1>2. f.kind = "rows"
    BY <1>1, KindLemma
  <1>3. PICK e \in opaPods : rows = Shown(e, u, f.table)
    BY <1>1, <1>2 DEF RowsShown
  <1>4. f \in Matching(e, f.table)
    BY <1>1, <1>2 DEF Matching
  <1>5. r.at[f.column] \in Literals(e, u, f)
    BY <1>3, <1>4 DEF Shown
  <1> QED
    BY <1>1, <1>5 DEF Literals

LEMMA ColumnsLemma ==
    ASSUME Inv, NEW a \in trinoPods, ~Excused(a), NEW u \in Users,
           NEW columns \in ColumnsShown(a, u), NEW c \in columns \cap inForce
    PROVE  \E e \in opaPods : e \in Env /\ c.object \in ListObjects(e, u, Question(c))
  <1>1. columns \subseteq Restrictions
    BY DEF ColumnsShown
  <1>2. /\ c \in Policies /\ c \in Restrictions
        /\ \A e \in opaPods : e \in Env /\ c \in e.policies
        /\ c.kind \in a.asks
    BY <1>1, InForceLemma
  <1>3. c.kind = "columns"
    BY <1>2, KindLemma
  <1>4. PICK e \in opaPods : columns = Restrictions \ Masked(e, u)
    BY <1>2, <1>3 DEF ColumnsShown
  <1>5. c \in Restricted(e) /\ c \notin Masked(e, u)
    BY <1>2, <1>4 DEF Restricted
  <1> QED
    BY <1>2, <1>5 DEF Masked

(* Nobody sees a row or a column past its revocation for longer than answers  *)
(* are cached, and a policy that took effect stays in effect (row_filters,    *)
(* batch_column_masks, force_cache, and the operator's passes and rollouts),  *)
(* except on a coordinator configured by a pass that found the Postgres of    *)
(* OpenFGA not ready (Excused; openfga.go:91-94, trino.go:53-57).             *)
THEOREM OnlyTheEntitled == Spec => []OnlyEntitledIsShown
  <1>1. Inv => OnlyEntitledIsShown
    <2> SUFFICES ASSUME Inv, NEW u \in Users, NEW a \in trinoPods, ~Excused(a)
                 PROVE  /\ \A f \in inForce \ Restrictions :
                              \A rows \in RowsShown(a, u, f.table) :
                                  \A r \in rows : Entitled(u, f, r.at[f.column])
                        /\ \A columns \in ColumnsShown(a, u) :
                              \A c \in columns \cap inForce : Entitled(u, c, c.object)
      BY DEF OnlyEntitledIsShown
    <2>1. ASSUME NEW f \in inForce \ Restrictions, NEW rows \in RowsShown(a, u, f.table),
                 NEW r \in rows
          PROVE  Entitled(u, f, r.at[f.column])
      BY <2>1, RowsLemma, InForceLemma, ListedIsEntitled
    <2>2. ASSUME NEW columns \in ColumnsShown(a, u), NEW c \in columns \cap inForce
          PROVE  Entitled(u, c, c.object)
      BY <2>2, ColumnsLemma, InForceLemma, ListedIsEntitled
    <2> QED
      BY <2>1, <2>2
  <1> QED
    BY <1>1, Invariance, PTL

(* Once OpenFGA has been unreachable for longer than answers are cached, a    *)
(* coordinator shows no row of a filtered table and no restricted column,     *)
(* unless it was configured by a pass that found the Postgres of OpenFGA not  *)
(* ready (Excused): that one asks OPA for nothing and shows all of them       *)
(* (openfga.go:91-94, trino.go:53-57).                                        *)
THEOREM ClosedWithoutOpenFGA == Spec => []FailsClosed
  <1>1. Inv => FailsClosed
    <2> SUFFICES ASSUME Inv, ~up, calm = Long,
                        NEW u \in Users, NEW a \in trinoPods, ~Excused(a)
                 PROVE  /\ \A f \in inForce \ Restrictions :
                              RowsShown(a, u, f.table) \subseteq {{}}
                        /\ \A columns \in ColumnsShown(a, u) : columns \cap inForce = {}
      BY DEF FailsClosed
    <2>1. ASSUME NEW e \in Env, NEW p \in Policies
          PROVE  ListObjects(e, u, Question(p)) = {}
      <3>1. Question(p) \in Questions
        BY DEF Questions, QuestionsOf
      <3>2. CASE Cached(e, u, Question(p))
        <4>1. cache[e][<<u, Question(p)>>].age \in 0..CacheSeconds
          BY <3>1, CachedLemma DEF Inv, Typed
        <4>2. Long <= cache[e][<<u, Question(p)>>].age
          BY <3>1, <3>2 DEF Inv, CacheOld
        <4> QED
          BY <4>1, <4>2, BoundsAssumption DEF Long
      <3>3. CASE ~Cached(e, u, Question(p))
        BY <3>3 DEF ListObjects, Answers
      <3> QED
        BY <3>2, <3>3
    <2>2. ASSUME NEW f \in inForce \ Restrictions, NEW rows \in RowsShown(a, u, f.table)
          PROVE  rows = {}
      BY <2>1, <2>2, RowsLemma, InForceLemma
    <2>3. ASSUME NEW columns \in ColumnsShown(a, u), NEW c \in columns \cap inForce
          PROVE  FALSE
      BY <2>1, <2>3, ColumnsLemma, InForceLemma
    <2> QED
      BY <2>2, <2>3
  <1> QED
    BY <1>1, Invariance, PTL

(* Once OpenFGA and its model are calm, a grant that is as old is listed.     *)
LEMMA HolderIsListed ==
    ASSUME Inv, up, calm = Long, NEW e \in Env, e.store,
           NEW u \in Users, NEW p \in Policies, Question(p) \in model,
           NEW t \in grants, t.user = u, Question(t) = Question(p), held[t] = Long
    PROVE  t.id \in ListObjects(e, u, Question(p))
  <1>1. Question(p) \in Questions
    BY DEF Questions, QuestionsOf
  <1>2. CASE Cached(e, u, Question(p))
    <2>1. cache[e][<<u, Question(p)>>].age \in 0..CacheSeconds
      BY <1>1, CachedLemma DEF Inv, Typed
    <2>2. /\ cache[e][<<u, Question(p)>>].age < calm
          /\ held[t] > cache[e][<<u, Question(p)>>].age
      BY <2>1, BoundsAssumption DEF Long
    <2>3. t.id \in cache[e][<<u, Question(p)>>].ids
      BY <1>1, <1>2, <2>2 DEF Inv, CacheComplete
    <2> QED
      BY <1>2, <2>3 DEF ListObjects
  <1>3. CASE ~Cached(e, u, Question(p))
    <2>1. t.id \in Objects(u, Question(p))
      BY DEF Objects
    <2> QED
      BY <1>3, <2>1 DEF ListObjects, Answers
  <1> QED
    BY <1>2, <1>3

(* Failing closed is not for ever: when OpenFGA and its model have not        *)
(* changed for longer than answers are cached, whoever has held the grants as *)
(* long sees the rows and the columns, whatever was refused before.           *)
THEOREM EffectiveGrants == Spec => []GrantsTakeEffect
  <1> DEFINE Holds(u, p, id) ==
                 \E t \in grants :
                     t.user = u /\ Question(t) = Question(p) /\ t.id = id /\ held[t] = Long
  <1>1. Inv => GrantsTakeEffect
    <2> SUFFICES ASSUME Inv, RolledOut, up, calm = Long, QuestionsOf(spec) \subseteq model,
                        NEW u \in Users, NEW a \in trinoPods
                 PROVE  /\ \A r \in Rows : \A rows \in RowsShown(a, u, r.table) :
                              (\A f \in spec \ Restrictions :
                                  f.table = r.table => Holds(u, f, r.at[f.column]))
                              => r \in rows
                        /\ \A columns \in ColumnsShown(a, u) :
                              \A c \in spec \cap Restrictions :
                                  Holds(u, c, c.object) => c \in columns
      BY DEF GrantsTakeEffect
    <2>1. spec \in PolicySets /\ spec \subseteq Policies
      BY QuestionsLemma DEF Inv, Typed, TypeOK
    <2>2. /\ \A e \in opaPods : e = EnvOf(spec, TRUE)
          /\ EnvOf(spec, TRUE) \in Env
          /\ EnvOf(spec, TRUE).policies = spec
          /\ spec # {} => EnvOf(spec, TRUE).store
      BY <2>1, EnvLemma DEF RolledOut
    <2>3. ASSUME NEW e \in opaPods, NEW p \in spec, NEW id, Holds(u, p, id)
          PROVE  id \in ListObjects(e, u, Question(p))
      <3>1. p \in Policies /\ Question(p) \in model
        BY <2>1, QuestionsLemma
      <3>2. e \in Env /\ e.store
        BY <2>2
      <3> QED
        BY <2>3, <3>1, <3>2, HolderIsListed
    <2> HIDE DEF Holds
    <2>4. ASSUME NEW r \in Rows, NEW rows \in RowsShown(a, u, r.table),
                 \A f \in spec \ Restrictions : f.table = r.table => Holds(u, f, r.at[f.column])
          PROVE  r \in rows
      <3>1. r \in RowsOf(r.table)
        BY DEF RowsOf
      <3>2. ASSUME NEW e \in opaPods
            PROVE  r \in Shown(e, u, r.table)
        <4>1. ASSUME NEW f \in Matching(e, r.table)
              PROVE  r.at[f.column] \in Literals(e, u, f)
          <5>1. f \in spec /\ f.kind = "rows" /\ f.table = r.table
            BY <2>2 DEF Matching
          <5>2. f \in Policies /\ f \notin Restrictions
            BY <2>1, <5>1, KindLemma
          <5>3. r.at[f.column] \in ListObjects(e, u, Question(f))
            BY <2>3, <2>4, <5>1, <5>2
          <5>4. f.numeric => r.at[f.column] \in Numerals
            BY <5>1, <5>2, DataAssumption
          <5> QED
            BY <5>3, <5>4 DEF Literals
        <4> QED
          BY <3>1, <4>1 DEF Shown
      <3> QED
        BY <3>1, <3>2 DEF RowsShown
    <2>5. ASSUME NEW columns \in ColumnsShown(a, u), NEW c \in spec \cap Restrictions,
                 Holds(u, c, c.object)
          PROVE  c \in columns
      <3>1. \A e \in opaPods : c \notin Masked(e, u)
        BY <2>3, <2>5 DEF Masked
      <3> QED
        BY <3>1 DEF ColumnsShown
    <2> QED
      BY <2>4, <2>5
  <1> QED
    BY <1>1, Invariance, PTL
=============================================================================
