---------------------------- MODULE AccessPolicy ----------------------------
(***************************************************************************)
(* What Trino's users see: the row filters and column masks that OPA       *)
(* computes from OpenFGA (internal/controller/embed/rowfilters), and how   *)
(* the operator brings the policies of the spec to OPA and Trino.          *)
(*                                                                         *)
(* Trino asks OPA anew for every query; OPA asks OpenFGA which objects the *)
(* user holds a relation on and keeps each answer for CacheSeconds.  In    *)
(* the meantime grants change, OpenFGA is down, the policies are edited    *)
(* and the pods of OPA and Trino are replaced one by one.                  *)
(*                                                                         *)
(* An OpenFGA answer is the set of object ids, a decision is the set of    *)
(* rows or columns it leaves visible; the SQL in between is not modelled.  *)
(* The operator never sets TRINO_ADMIN_USERS: nobody is an admin.          *)
(***************************************************************************)
EXTENDS Naturals, FiniteSets

CONSTANTS
    Users,
    Tuples,       \* the grants that may exist: user, type, relation, id
    Rows,         \* the rows of the tables: table, and a value per column
    Numerals,     \* the object ids that are numbers
    PolicySets,   \* the access policies a user may configure
    CacheSeconds, \* OPENFGA_CACHE_SECONDS, in ticks
    MaxEvents     \* bound: edits of the policies, grants written or deleted,
                  \* outages of OpenFGA, passes that see it not ready although
                  \* it answers, OPA pods lost and notifications, taken together

\* An entry of rowFilters or columnAccess with its defaults resolved.
FilterFields == {"kind", "table", "column", "type", "relation", "numeric"}
RestrictionFields == {"kind", "table", "column", "type", "relation", "object"}

Policies == UNION PolicySets

ASSUME PoliciesAssumption ==
    /\ IsFiniteSet(Policies)
    /\ \A p \in Policies :
          \/ DOMAIN p = FilterFields /\ p.kind = "rows" /\ p.numeric \in BOOLEAN
          \/ DOMAIN p = RestrictionFields /\ p.kind = "columns"
\* dataplatform_types.go: a numeric filter is "for integer and decimal columns".
ASSUME DataAssumption ==
    /\ \A t \in Tuples : t.user \in Users
    /\ \A r \in Rows : \A p \in Policies :
          p.table = r.table =>
              /\ p.column \in DOMAIN r.at
              /\ p.kind = "rows" /\ p.numeric => r.at[p.column] \in Numerals
ASSUME BoundsAssumption ==
    /\ CacheSeconds \in Nat \ {0}
    /\ MaxEvents \in Nat

VARIABLES
    spec,      \* spec.authz.rowFilters and spec.authz.columnAccess
    queued,    \* the platform is on the work queue
    pc,        \* where the operator's pass is
    pass,      \* what the pass works with: the policies it read, and the answer
               \* of reconcileAuthz
    model,     \* the questions the store's authorization model defines
    opa,       \* OPA's Deployment: the environment in its template
    opaPods,   \* the environments of the OPA pods behind the Service
    cache,     \* for each of them, the answers it keeps
    trino,     \* the access control of Trino's template
    trinoPods, \* the access controls of the coordinators behind the Service
    grants,    \* OpenFGA's tuples
    held,      \* for each tuple, the ticks since it was last written or deleted
    up,        \* OpenFGA answers
    calm,      \* the ticks since up or the model last changed
    inForce,   \* the policies that have taken effect and were kept in the spec
    databaseLost, \* a pass has found the Postgres of OpenFGA not ready
    events     \* how many of the bounded events have happened

operatorVars == <<queued, pc, pass, databaseLost>>
clusterVars == <<opa, opaPods, trino, trinoPods>>
openfgaVars == <<model, grants, held, up>>
vars == << spec, operatorVars, clusterVars, openfgaVars, cache, calm, inForce, events >>
-----------------------------------------------------------------------------
(* Types *)

Question(p) == [type |-> p.type, relation |-> p.relation]
QuestionsOf(policies) == {Question(p) : p \in policies}
Questions == QuestionsOf(Policies)
Ids == {t.id : t \in Tuples}
Tables == {r.table : r \in Rows}
RowsOf(t) == {r \in Rows : r.table = t}
Outcomes == {"ready", "notReady", "noDatabase"}
NoPass == [policies |-> {}, authz |-> "ready"]

\* The ticks after which a change is no longer recent.
Long == CacheSeconds + 1

\* OPA's environment: the policies, and whether OPENFGA_STORE_ID is set.
EnvOf(policies, known) == [policies |-> policies, store |-> known /\ policies # {}]
Env == {EnvOf(policies, known) : policies \in PolicySets, known \in BOOLEAN}

\* access-control.properties: the decisions Trino asks OPA for.
AccessControl(policies, opaURL) ==
    [opa |-> opaURL, asks |-> IF opaURL THEN {p.kind : p \in policies} ELSE {}]
AccessControls == {AccessControl(policies, known) : policies \in PolicySets, known \in BOOLEAN}

Key == Users \X Questions
Entry == [age : 0..CacheSeconds, ids : SUBSET Ids]
NoEntry == [age |-> 0, ids |-> {"none"}]
Empty == [k \in Key |-> NoEntry]

Restrictions == {p \in Policies : p.kind = "columns"}

TypeOK ==
    /\ spec \in PolicySets
    /\ queued \in BOOLEAN
    /\ pc \in {"idle", "authz", "opa", "trino"}
    /\ pass \in [policies : PolicySets, authz : Outcomes] \cup {NoPass}
    /\ model \subseteq Questions
    /\ opa \in Env
    /\ opaPods \subseteq Env
    /\ cache \in [Env -> [Key -> Entry \cup {NoEntry}]]
    /\ trino \in AccessControls
    /\ trinoPods \subseteq AccessControls
    /\ grants \subseteq Tuples
    /\ held \in [Tuples -> 0..Long]
    /\ up \in BOOLEAN
    /\ calm \in 0..Long
    /\ inForce \subseteq spec
    /\ databaseLost \in BOOLEAN
    /\ events \in 0..MaxEvents

\* A platform that has been deployed with its policies, and none of the tuples or
\* all of them written.
Init ==
    /\ spec \in PolicySets
    /\ queued = FALSE /\ pc = "idle" /\ pass = NoPass
    /\ model = QuestionsOf(spec)
    /\ opa = EnvOf(spec, TRUE) /\ opaPods = {opa}
    /\ cache = [e \in Env |-> Empty]
    /\ trino = AccessControl(spec, TRUE) /\ trinoPods = {trino}
    /\ grants \in {{}, Tuples}
    /\ held = [t \in Tuples |-> Long]
    /\ up = TRUE /\ calm = Long
    /\ inForce = spec /\ databaseLost = FALSE
    /\ events = 0

Event == events < MaxEvents /\ events' = events + 1
-----------------------------------------------------------------------------
(* OPA *)

\* The objects OpenFGA lists for a user and a relation.
Objects(u, q) ==
    {t.id : t \in {g \in grants : g.user = u /\ Question(g) = q}}

\* OpenFGA answers with status 200: it is up and the model knows the relation.
Answers(q) == up /\ q \in model

Cached(e, u, q) == cache[e][<<u, q>>] # NoEntry

\* _list_objects: without a store id nothing is asked; force_cache serves an
\* answer from the cache, whatever has happened since.
ListObjects(e, u, q) ==
    IF ~e.store THEN {}
    ELSE IF Cached(e, u, q) THEN cache[e][<<u, q>>].ids
    ELSE IF Answers(q) THEN Objects(u, q)
    ELSE {}

\* The answers to a set of questions are kept.  A refusal may be kept as well,
\* no answer at all may not.
Remember(e, u, qs) ==
    \E refusals \in {{}, {q \in qs : up /\ q \notin model}} :
        cache' = [cache EXCEPT ![e] = [k \in Key |->
            IF /\ k[1] = u /\ k[2] \in qs /\ e.store
               /\ ~Cached(e, u, k[2])
               /\ Answers(k[2]) \/ k[2] \in refusals
            THEN [age |-> 0, ids |-> ListObjects(e, u, k[2])]
            ELSE @[k]]]

\* _literals: a numeric filter drops the ids that are not numbers.
Literals(e, u, f) ==
    {id \in ListObjects(e, u, Question(f)) : f.numeric => id \in Numerals}

\* _matches_resource, for the filters in OPA's environment.
Matching(e, t) == {f \in e.policies : f.kind = "rows" /\ f.table = t}

\* Mutant of Shown: no permitted value is no filter.
ShownWithoutLiterals(e, u, t) ==
    {r \in RowsOf(t) : \A f \in Matching(e, t) :
        Literals(e, u, f) = {} \/ r.at[f.column] \in Literals(e, u, f)}

\* row_filters: each matching filter is one more WHERE clause; without a
\* permitted value the clause is "false".
Shown(e, u, t) ==
    {r \in RowsOf(t) : \A f \in Matching(e, t) :
        r.at[f.column] \in Literals(e, u, f)}

\* _column_permitted and batch_column_masks: the columns that are masked.
Restricted(e) == e.policies \cap Restrictions
Masked(e, u) == {c \in Restricted(e) : c.object \notin ListObjects(e, u, Question(c))}

\* The decisions a query of u may get from coordinator a: one that asks no OPA pod
\* for them filters and masks nothing.
RowsShown(a, u, t) ==
    IF "rows" \in a.asks THEN {Shown(e, u, t) : e \in opaPods} ELSE {RowsOf(t)}
ColumnsShown(a, u) ==
    IF "columns" \in a.asks THEN {Restrictions \ Masked(e, u) : e \in opaPods}
    ELSE {Restrictions}

\* OPA evaluates row_filters for a query of u on table t, ...
AskRows(e, u, t) ==
    /\ \E a \in trinoPods : "rows" \in a.asks
    /\ Remember(e, u, {Question(f) : f \in Matching(e, t)})
    /\ UNCHANGED <<spec, operatorVars, clusterVars, openfgaVars, calm, inForce, events>>

\* ... and batch_column_masks in another request, perhaps to another pod.
AskColumns(e, u) ==
    /\ \E a \in trinoPods : "columns" \in a.asks
    /\ Remember(e, u, {Question(c) : c \in Restricted(e)})
    /\ UNCHANGED <<spec, operatorVars, clusterVars, openfgaVars, calm, inForce, events>>
-----------------------------------------------------------------------------
(* The operator *)

\* An object the platform owns has changed, or the informers resync.
Notify ==
    /\ Event
    /\ ~queued /\ queued' = TRUE
    /\ UNCHANGED <<spec, pc, pass, databaseLost, clusterVars, openfgaVars, cache, calm, inForce>>

\* The pass reads the spec.
Begin ==
    /\ pc = "idle" /\ queued
    /\ queued' = FALSE
    /\ pc' = "authz" /\ pass' = [policies |-> spec, authz |-> "ready"]
    /\ UNCHANGED << spec, databaseLost, clusterVars, openfgaVars, cache, calm, inForce,
                    events >>

\* reconcileOpenFGA finds that OpenFGA or its Postgres is not ready, and the pass
\* goes on all the same, or writes the model of the policies it read, for which
\* OpenFGA has to answer.  Readiness is a status in the cache: it may be behind
\* on what OpenFGA does, and the other way round.
EnsureStore ==
    /\ pc = "authz"
    /\ pc' = "opa"
    /\ \E found \in Outcomes :
          /\ found = "ready" => up \/ pass.policies = {}
          /\ pass' = [pass EXCEPT !.authz = found]
          /\ model' = IF found = "ready" /\ pass.policies # {} THEN QuestionsOf(pass.policies)
                      ELSE model
          /\ databaseLost' = (databaseLost \/ found = "noDatabase")
          /\ IF up /\ found # "ready" THEN Event ELSE UNCHANGED events
    /\ calm' = IF model' = model THEN calm ELSE 0
    /\ UNCHANGED <<spec, queued, clusterVars, grants, held, up, cache, inForce>>

\* opaAccessEnv: nothing without policies; the store id is empty unless OpenFGA
\* was ready in this pass.
ApplyOPA ==
    /\ pc = "opa"
    /\ pc' = "trino"
    /\ opa' = EnvOf(pass.policies, pass.authz = "ready")
    /\ UNCHANGED << spec, queued, pass, databaseLost, opaPods, trino, trinoPods, openfgaVars,
                    cache, calm, inForce, events >>

\* trinoAccessControlProperties: without OPA's URL there is no access control.
\* The ConfigMap and the Deployment whose hash rolls it out are one write here.
\* While OpenFGA is not ready the platform is reconciled again and again.
ApplyTrino ==
    /\ pc = "trino"
    /\ pc' = "idle" /\ pass' = NoPass
    /\ queued' = (queued \/ pass.authz # "ready")
    /\ trino' = AccessControl(pass.policies, pass.authz # "noDatabase")
    /\ UNCHANGED << spec, databaseLost, opa, opaPods, trinoPods, openfgaVars, cache, calm,
                    inForce, events >>

\* The pass fails (EnsureAuthzStore while OpenFGA does not answer, or any write
\* to the API server), or the operator stops.
Abort ==
    /\ pc # "idle"
    /\ pc' = "idle" /\ pass' = NoPass
    /\ queued' = TRUE
    /\ UNCHANGED << spec, databaseLost, clusterVars, openfgaVars, cache, calm, inForce,
                    events >>
-----------------------------------------------------------------------------
(* Pods: a rolling update starts the new pod before the old one is stopped *)

\* Every pod that may be asked applies the policy, those to come will, and no
\* pass is under way that read the spec without it.
Enforced(p) ==
    /\ pc = "idle" \/ p \in pass.policies
    /\ \A e \in opaPods \cup {opa} : p \in e.policies
    /\ \A a \in trinoPods \cup {trino} : p.kind \in a.asks

\* What has taken effect stays in force as long as the spec keeps it.
KeepInForce == inForce' = {p \in spec : p \in inForce \/ Enforced(p)'}

PodsChange ==
    /\ UNCHANGED <<spec, operatorVars, openfgaVars, opa, trino, calm>>
    /\ KeepInForce

StartOPA ==
    /\ opa \notin opaPods
    /\ opaPods' = opaPods \cup {opa}
    /\ UNCHANGED <<trinoPods, cache, events>>
    /\ PodsChange

\* A pod's cache goes with it.
StopOPA(e) ==
    /\ opaPods' = opaPods \ {e}
    /\ cache' = [cache EXCEPT ![e] = Empty]
    /\ UNCHANGED trinoPods
    /\ PodsChange

StopOldOPA(e) == e # opa /\ opa \in opaPods /\ StopOPA(e) /\ UNCHANGED events

LoseOPA(e) == Event /\ StopOPA(e)

StartTrino ==
    /\ trino \notin trinoPods
    /\ trinoPods' = trinoPods \cup {trino}
    /\ UNCHANGED <<opaPods, cache, events>>
    /\ PodsChange

StopOldTrino(a) ==
    /\ a # trino /\ trino \in trinoPods
    /\ trinoPods' = trinoPods \ {a}
    /\ UNCHANGED <<opaPods, cache, events>>
    /\ PodsChange
-----------------------------------------------------------------------------
(* Users, administrators, time *)

EditPolicies ==
    /\ Event
    /\ spec' \in PolicySets \ {spec}
    /\ inForce' = inForce \cap spec'
    /\ queued' = TRUE
    /\ UNCHANGED <<pc, pass, databaseLost, clusterVars, openfgaVars, cache, calm>>

\* OpenFGA accepts a tuple only if the model knows its type and relation.
WriteTuple(t) ==
    /\ Event
    /\ up
    /\ \/ t \in grants /\ grants' = grants \ {t}
       \/ t \notin grants /\ Question(t) \in model /\ grants' = grants \cup {t}
    /\ held' = [held EXCEPT ![t] = 0]
    /\ UNCHANGED <<spec, operatorVars, clusterVars, model, up, cache, calm, inForce>>

Outage ==
    /\ up /\ Event
    /\ up' = FALSE /\ calm' = 0
    /\ queued' = TRUE
    /\ UNCHANGED << spec, pc, pass, databaseLost, clusterVars, model, grants, held, cache,
                    inForce >>

Recover ==
    /\ ~up
    /\ up' = TRUE /\ calm' = 0
    /\ queued' = TRUE
    /\ UNCHANGED << spec, pc, pass, databaseLost, clusterVars, model, grants, held, cache,
                    inForce, events >>

Later(n) == IF n = Long THEN Long ELSE n + 1

\* Mutant of Expired: an answer is kept for ever.
NeverExpired(entry) == FALSE

\* force_cache_duration_seconds
Expired(entry) == entry.age = CacheSeconds

Tick ==
    /\ held' = [t \in Tuples |-> Later(held[t])]
    /\ calm' = Later(calm)
    /\ cache' = [e \in DOMAIN cache |-> [k \in Key |->
          IF cache[e][k] = NoEntry \/ Expired(cache[e][k]) THEN NoEntry
          ELSE [cache[e][k] EXCEPT !.age = @ + 1]]]
    /\ UNCHANGED <<spec, operatorVars, clusterVars, model, grants, up, inForce, events>>

Next ==
    \/ \E e \in opaPods, u \in Users :
          AskColumns(e, u) \/ \E t \in Tables : AskRows(e, u, t)
    \/ Notify \/ Begin \/ EnsureStore \/ ApplyOPA \/ ApplyTrino \/ Abort
    \/ StartOPA \/ StartTrino
    \/ \E e \in opaPods : StopOldOPA(e) \/ LoseOPA(e)
    \/ \E a \in trinoPods : StopOldTrino(a)
    \/ EditPolicies \/ Outage \/ Recover \/ Tick
    \/ \E t \in Tuples : WriteTuple(t)

Spec == Init /\ [][Next]_vars
-----------------------------------------------------------------------------
(* Properties *)

\* The user holds, or held until at most CacheSeconds ago, what policy p asks of
\* an object.
Entitled(u, p, id) ==
    \E t \in Tuples :
        /\ t.user = u /\ Question(t) = Question(p) /\ t.id = id
        /\ t \in grants \/ held[t] <= CacheSeconds

\* The exception to both properties below.  A pass that finds the Postgres of
\* OpenFGA not ready hands on no OPA URL (openfga.go:91-94), and the coordinators
\* configured by it know of no OPA and ask for nothing (trino.go:53-57).  One that
\* knows of none although no pass has found that is not excused.
Excused(a) == databaseLost /\ ~a.opa

(* Nobody sees a row or a column past its revocation for longer than answers  *)
(* are cached, and a policy that took effect stays in effect through edits of *)
(* the others, restarts, outages and rollouts: every row a query can show was *)
(* granted, by each filter in force on its table, and every unmasked column   *)
(* by each restriction in force on it.  Except on a coordinator that was      *)
(* configured while the Postgres of OpenFGA was not ready (Excused), which    *)
(* shows every row; beside it the other coordinators still show no more than  *)
(* was granted.                                                               *)
OnlyEntitledIsShown ==
    \A u \in Users, a \in trinoPods :
        ~Excused(a) =>
            /\ \A f \in inForce \ Restrictions : \A rows \in RowsShown(a, u, f.table) :
                  \A r \in rows : Entitled(u, f, r.at[f.column])
            /\ \A columns \in ColumnsShown(a, u) :
                  \A c \in columns \cap inForce : Entitled(u, c, c.object)

(* README.md says of both features that they "fail closed: ... everyone does  *)
(* if OpenFGA becomes unreachable".  What the code does is less: once OpenFGA *)
(* has been unreachable for longer than answers are cached, a coordinator     *)
(* shows no row of a filtered table and no restricted column, unless it was   *)
(* configured while the Postgres of OpenFGA was not ready (Excused).  Such a  *)
(* coordinator shows all of them: the sentence does not hold of it, which the *)
(* run failclosed of DataPlatformController shows.                            *)
FailsClosed ==
    ~up /\ calm = Long =>
        \A u \in Users, a \in trinoPods :
            ~Excused(a) =>
                /\ \A f \in inForce \ Restrictions :
                      RowsShown(a, u, f.table) \subseteq {{}}
                /\ \A columns \in ColumnsShown(a, u) : columns \cap inForce = {}

\* The policies of the spec have reached every pod.
RolledOut ==
    /\ opaPods \subseteq {EnvOf(spec, TRUE)}
    /\ trinoPods = {AccessControl(spec, TRUE)}

(* Failing closed is not for ever: when OpenFGA and its model have not changed *)
(* for longer than answers are cached, whoever has held the grants as long     *)
(* sees the rows and the columns, whatever was refused or unanswered before.   *)
GrantsTakeEffect ==
    LET Holds(u, p, id) ==
            \E t \in grants : t.user = u /\ Question(t) = Question(p) /\ t.id = id /\ held[t] = Long
    IN RolledOut /\ up /\ calm = Long /\ QuestionsOf(spec) \subseteq model =>
        \A u \in Users, a \in trinoPods :
            /\ \A r \in Rows : \A rows \in RowsShown(a, u, r.table) :
                  (\A f \in spec \ Restrictions :
                      f.table = r.table => Holds(u, f, r.at[f.column])) => r \in rows
            /\ \A columns \in ColumnsShown(a, u) :
                  \A c \in spec \cap Restrictions : Holds(u, c, c.object) => c \in columns
=============================================================================
