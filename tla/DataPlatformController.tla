----------------------- MODULE DataPlatformController -----------------------
(***************************************************************************)
(* The reconcile loop of the DataPlatform operator                         *)
(* (internal/controller/dataplatform_controller.go) together with the      *)
(* parts of the cluster it reads and writes.                               *)
(*                                                                         *)
(* One worker takes the platform off the work queue, reads it from the     *)
(* informer cache and runs a pass: a fixed sequence of component           *)
(* reconcilers, each of which applies its workloads, looks at their        *)
(* readiness and sets one status condition of the pass's private copy.     *)
(* The pass ends by writing that copy's status back.  Between any two      *)
(* steps of a pass the user may edit the spec, pods may start and fail,    *)
(* watch events may arrive, an API call may fail and the operator may      *)
(* crash.                                                                  *)
(*                                                                         *)
(* The pass only ever sees the informer cache: "cached" is the cache's     *)
(* copy of the platform, "seen" its view of which workloads are ready.     *)
(***************************************************************************)
EXTENDS Naturals, FiniteSets

CONSTANTS
    Specs,          \* the platform specs a user may write
    WarehouseNames, \* the names spec.lakekeeper.warehouse.name may take
    MaxGeneration,  \* bound: how many specs the user writes
    MaxFaults,      \* bound: API calls that fail
    MaxLosses,      \* bound: pods (or the bucket Job) that fail
    MaxLag,         \* bound: workloads whose readiness the cache is behind on
    MaxCrashes      \* bound: restarts of the operator

\* How a dependency is provided: deployed by the operator, brought by the user,
\* or brought by the user with a required field left out.
Provider == {"embedded", "external", "incomplete"}

\* What the reconcile loop distinguishes in a DataPlatformSpec.
SpecType ==
    [ lakekeeper : BOOLEAN, trino : BOOLEAN,
      storage : Provider, postgres : Provider,
      auth : Provider \cup {"disabled"},
      authz : {"embedded", "external", "disabled"},
      policies : BOOLEAN, warehouse : WarehouseNames ]

ASSUME SpecsAssumption == Specs # {} /\ Specs \subseteq SpecType
ASSUME BoundsAssumption ==
    /\ MaxGeneration \in Nat \ {0}
    /\ MaxFaults \in Nat
    /\ MaxLosses \in Nat
    /\ MaxLag \in Nat
    /\ MaxCrashes \in Nat

\* Long-running workloads the operator deploys.
Workloads == { "minio", "postgres", "keycloak", "openfga-postgres",
               "openfga", "lakekeeper", "opa", "trino" }

\* What a pod template may carry that other components depend on.
Settings == {"oidc", "authz", "opa", "policies", "storeID"}

Conditions == { "MinioReady", "PostgresReady", "AuthReady", "OpenFGAReady",
                "LakekeeperReady", "WarehouseReady", "TrinoReady", "Ready" }

\* The identities that catalogPrincipals lists.
Principals == {"admin", "opa"}

JobStates == {"absent", "running", "failed", "succeeded", "deleting"}

\* The steps of a pass, in order; "idle" is the worker waiting on the queue.
Steps == { "lakekeeperStack", "storage", "auth", "authz", "lakekeeper",
           "warehouse", "trinoStack", "trino" }

VARIABLES
    dp,          \* the DataPlatform in the API server
    cached,      \* the informer cache's copy of it
    pc,          \* where the worker is
    work,        \* the pass's copy of the platform (dp in the code)
    pass,        \* results the component reconcilers hand to later ones
    pending,     \* the platform is on the work queue
    timer,       \* a requeue (RequeueAfter or the back-off) is scheduled
    template,    \* what the applied pod template of each workload says
    deployed,    \* the workloads that exist
    ready,       \* the workloads with a ready replica
    started,     \* the workloads that have had one (history)
    seen,        \* the informer cache's view of ready
    job,         \* the MinIO bucket Job
    seenJob,     \* the informer cache's view of it
    accessStore, \* the OpenFGA store for access policies exists, with its model
    catalog,     \* what LakeKeeper has been told to keep
    budget       \* faults, losses and crashes spent so far (bounds)

platformVars == <<dp, cached>>
workerVars == <<pc, work, pass>>
queueVars == <<pending, timer>>
workloadVars == <<template, deployed>>
podVars == <<ready, started, seen>>
jobVars == <<job, seenJob>>
serviceVars == <<accessStore, catalog>>
vars == << platformVars, workerVars, queueVars, workloadVars, podVars,
           jobVars, serviceVars, budget >>
-----------------------------------------------------------------------------
(* Types *)

Condition == [status : {"Absent", "False", "True"}, gen : 0..MaxGeneration]

Platform == [ spec : Specs, gen : 0..MaxGeneration,
              conditions : [Conditions -> Condition] ]

Pass == [ oidc : BOOLEAN, authReady : BOOLEAN, storeReady : BOOLEAN,
          fgaReady : BOOLEAN, fga : SUBSET {"enabled", "opaURL", "storeID"},
          progressing : BOOLEAN, failed : BOOLEAN ]

Catalog == [ bootstrapped : BOOLEAN, granted : SUBSET Principals,
             warehouses : SUBSET WarehouseNames ]

Budget == [ faults : 0..MaxFaults, losses : 0..MaxLosses,
            crashes : 0..MaxCrashes ]

\* Every variable stays within its type.
TypeOK ==
    /\ dp \in Platform
    /\ cached \in Platform
    /\ pc \in Steps \cup {"idle", "patchStatus"}
    /\ work \in Platform
    /\ pass \in Pass
    /\ pending \in BOOLEAN
    /\ timer \in BOOLEAN
    /\ template \in [Workloads -> SUBSET Settings]
    /\ deployed \in SUBSET Workloads
    /\ ready \in SUBSET Workloads
    /\ started \in SUBSET Workloads
    /\ seen \in SUBSET Workloads
    /\ job \in JobStates
    /\ seenJob \in JobStates
    /\ accessStore \in BOOLEAN
    /\ catalog \in Catalog
    /\ budget \in Budget

NoConditions == [c \in Conditions |-> [status |-> "Absent", gen |-> 0]]

\* The worker's copy between passes; its content is never read.
IdleWork == [ spec |-> CHOOSE s \in Specs : TRUE, gen |-> 0,
              conditions |-> NoConditions ]

NoPass == [ oidc |-> FALSE, authReady |-> FALSE, storeReady |-> FALSE,
            fgaReady |-> FALSE, fga |-> {}, progressing |-> FALSE,
            failed |-> FALSE ]

\* A user has created the platform; the operator starts with a synced cache
\* and an initial event for it.
Init ==
    /\ \E s \in Specs :
          dp = [spec |-> s, gen |-> 1, conditions |-> NoConditions]
    /\ cached = dp
    /\ pc = "idle" /\ work = IdleWork /\ pass = NoPass
    /\ pending = TRUE /\ timer = FALSE
    /\ template = [w \in Workloads |-> {}]
    /\ deployed = {} /\ ready = {} /\ started = {} /\ seen = {}
    /\ job = "absent" /\ seenJob = "absent"
    /\ accessStore = FALSE
    /\ catalog = [bootstrapped |-> FALSE, granted |-> {}, warehouses |-> {}]
    /\ budget = [faults |-> 0, losses |-> 0, crashes |-> 0]
-----------------------------------------------------------------------------
(* Reading a spec *)

AuthEnabled(s) == s.auth # "disabled"
AuthzEnabled(s) == s.authz # "disabled"
HasAccessPolicies(s) == AuthzEnabled(s) /\ s.policies

\* The store and model of the access policies are wanted (reconcileAccessStore).
WantsAccessStore(s) == HasAccessPolicies(s) /\ s.trino

\* The principals that need grants: none for an external issuer, whose user
\* list the operator does not own.
CatalogPrincipals(s) ==
    IF s.auth = "embedded"
    THEN {"admin"} \cup {p \in {"opa"} : AuthzEnabled(s)}
    ELSE {}

(* The pass's copy of the platform *)

\* Mutant of SetCondition: stamps the generation the write is thought to create.
SetConditionNextGeneration(p, c, status) ==
    [p EXCEPT !.conditions[c] = [status |-> status, gen |-> p.gen + 1]]

SetCondition(p, c, status) ==
    [p EXCEPT !.conditions[c] = [status |-> status, gen |-> p.gen]]

StatusOf(ok) == IF ok THEN "True" ELSE "False"

ConditionTrue(p, c) == p.conditions[c].status = "True"

\* reconcileOPA deploys OPA, and reconcileTrino sends Trino's checks to it.

\* Mutant of OPAWanted: OPA waits for the store of the access policies.
OPAWantedWithStore ==
    {"enabled", "storeID"} \subseteq pass.fga /\ pass.oidc /\ work.spec.trino

OPAWanted == "enabled" \in pass.fga /\ pass.oidc /\ work.spec.trino
TrinoUsesOPA == "enabled" \in pass.fga /\ pass.oidc /\ "opaURL" \in pass.fga

\* What the pod templates say, from the pass's spec and the results of the steps
\* before: where LakeKeeper authenticates and authorizes, what OPA knows of the
\* access policies, and what Trino asks OPA.
LakekeeperTemplate ==
    {x \in {"oidc"} : pass.oidc} \cup {x \in {"authz"} : "enabled" \in pass.fga}

OPATemplate ==
    IF HasAccessPolicies(work.spec) THEN {"policies"} \cup (pass.fga \cap {"storeID"}) ELSE {}

TrinoTemplate ==
    {x \in {"oidc"} : pass.oidc} \cup
    IF ~TrinoUsesOPA THEN {}
    ELSE {"opa"} \cup {x \in {"policies"} : HasAccessPolicies(work.spec)}

Template(w) ==
    CASE w = "lakekeeper" -> LakekeeperTemplate
      [] w = "opa" -> OPATemplate
      [] w = "trino" -> TrinoTemplate
      [] OTHER -> {}

Apply(ws) ==
    /\ deployed' = deployed \cup ws
    /\ template' = [w \in Workloads |-> IF w \in ws THEN Template(w) ELSE template[w]]

\* The step is done: the worker moves on with conditions w and results p.
Continue(next, w, p) == pc' = next /\ work' = w /\ pass' = p

\* The step returns an error: its condition and Ready become False and the
\* pass goes straight to writing the status.
Fail(c) ==
    Continue("patchStatus",
             SetCondition(SetCondition(work, c, "False"), "Ready", "False"),
             [pass EXCEPT !.failed = TRUE])
-----------------------------------------------------------------------------
(* The pass *)

\* The worker takes the platform off the queue and reads it from the cache.
Dequeue ==
    /\ pc = "idle" /\ pending
    /\ pending' = FALSE
    /\ Continue("lakekeeperStack", cached, NoPass)
    /\ UNCHANGED << platformVars, timer, workloadVars, podVars, jobVars,
                    serviceVars, budget >>

\* Mutant of LakekeeperStackConditions: one condition keeps its last pass's value.
LakekeeperStackConditionsMissed ==
    {"MinioReady", "PostgresReady", "LakekeeperReady", "WarehouseReady"}

LakekeeperStackConditions ==
    {"MinioReady", "PostgresReady", "LakekeeperReady", "WarehouseReady", "OpenFGAReady"}

\* LakeKeeper disabled: its conditions become True and nothing is handed on.
\* AuthReady is only touched when auth is disabled as well.
SkipLakekeeperStack ==
    /\ pc = "lakekeeperStack" /\ ~work.spec.lakekeeper
    /\ LET set == LakekeeperStackConditions \cup
                  {c \in {"AuthReady"} : ~AuthEnabled(work.spec)}
       IN Continue("trinoStack",
              [work EXCEPT !.conditions =
                  [c \in Conditions |->
                      IF c \in set THEN [status |-> "True", gen |-> work.gen]
                                   ELSE work.conditions[c]]],
              pass)
    /\ UNCHANGED << platformVars, queueVars, workloadVars, podVars, jobVars,
                    serviceVars, budget >>

\* LakeKeeper enabled: ensureNamespace, which only creates, and reconcilePostgres.
ReconcileEmbeddedPostgres ==
    /\ work.spec.postgres = "embedded"
    /\ Apply({"postgres"})
    /\ Continue("storage",
                SetCondition(work, "PostgresReady", StatusOf("postgres" \in seen)), pass)

ExternalPostgres ==
    /\ \/ /\ work.spec.postgres = "external"
          /\ Continue("storage", SetCondition(work, "PostgresReady", "True"), pass)
       \/ work.spec.postgres = "incomplete" /\ Fail("PostgresReady")
    /\ UNCHANGED workloadVars

ReconcilePostgres ==
    /\ pc = "lakekeeperStack" /\ work.spec.lakekeeper
    /\ ReconcileEmbeddedPostgres \/ ExternalPostgres
    /\ UNCHANGED << platformVars, queueVars, podVars, jobVars, serviceVars, budget >>

\* Mutant of EnsureMinioBucket: a failed Job is left in place.
EnsureMinioBucketKeepsFailed ==
    \/ /\ seenJob = "absent" /\ job = "absent" /\ job' = "running"
    \/ /\ seenJob # "absent" /\ UNCHANGED job

\* Mutant of EnsureMinioBucket: a finished Job is deleted, however it ended.
EnsureMinioBucketCleansUp ==
    \/ /\ seenJob = "absent" /\ job = "absent" /\ job' = "running"
    \/ /\ seenJob \in {"failed", "succeeded"} /\ job \in {seenJob, "deleting"}
       /\ job' = "deleting"
    \/ /\ seenJob \in {"running", "deleting"} /\ UNCHANGED job

\* ensureMinioBucket, once MinIO is seen ready: a missing Job is created, a
\* failed one deleted so that a later pass creates it again.
EnsureMinioBucket ==
    \/ /\ seenJob = "absent" /\ job = "absent" /\ job' = "running"
    \/ /\ seenJob = "failed" /\ job \in {"failed", "deleting"} /\ job' = "deleting"
    \/ /\ seenJob \in {"running", "succeeded", "deleting"} /\ UNCHANGED job

ReconcileMinio ==
    /\ work.spec.storage = "embedded"
    /\ Apply({"minio"})
    /\ \/ /\ LET ok == "minio" \in seen /\ seenJob = "succeeded"
             IN Continue("auth", SetCondition(work, "MinioReady", StatusOf(ok)),
                         [pass EXCEPT !.storeReady = ok])
          /\ IF "minio" \in seen THEN EnsureMinioBucket ELSE UNCHANGED job
       \/ \* the cache is behind: the Job exists although it looks absent, or
          \* the Job to delete is gone already
          /\ "minio" \in seen
          /\ \/ seenJob = "absent" /\ job # "absent"
             \/ seenJob = "failed" /\ job = "absent"
          /\ Fail("MinioReady")
          /\ UNCHANGED job

ExternalObjectStore ==
    /\ \/ /\ work.spec.storage = "external"
          /\ Continue("auth", SetCondition(work, "MinioReady", "True"),
                      [pass EXCEPT !.storeReady = TRUE])
       \/ work.spec.storage = "incomplete" /\ Fail("MinioReady")
    /\ UNCHANGED <<workloadVars, job>>

ReconcileObjectStore ==
    /\ pc = "storage"
    /\ ReconcileMinio \/ ExternalObjectStore
    /\ UNCHANGED << platformVars, queueVars, podVars, seenJob, serviceVars, budget >>

ReconcileKeycloak ==
    /\ work.spec.auth = "embedded"
    /\ Apply({"keycloak"})
    /\ LET ok == "keycloak" \in seen
       IN Continue("authz", SetCondition(work, "AuthReady", StatusOf(ok)),
                   [pass EXCEPT !.oidc = TRUE, !.authReady = ok])

ExternalOIDC ==
    /\ \/ /\ work.spec.auth = "external"
          /\ Continue("authz", SetCondition(work, "AuthReady", "True"),
                      [pass EXCEPT !.oidc = TRUE, !.authReady = TRUE])
       \/ work.spec.auth = "incomplete" /\ Fail("AuthReady")
    /\ UNCHANGED workloadVars

ReconcileAuth ==
    /\ pc = "auth"
    /\ \/ /\ work.spec.auth = "disabled"
          /\ Continue("authz", SetCondition(work, "AuthReady", "True"),
                      [pass EXCEPT !.authReady = TRUE])
          /\ UNCHANGED workloadVars
       \/ ReconcileKeycloak
       \/ ExternalOIDC
    /\ UNCHANGED << platformVars, queueVars, podVars, jobVars, serviceVars, budget >>

\* reconcileAuthz without OpenFGA: disabled, or external and so an error.
SkipAuthz ==
    /\ pc = "authz"
    /\ \/ /\ work.spec.authz = "disabled"
          /\ Continue("lakekeeper", SetCondition(work, "OpenFGAReady", "True"),
                      [pass EXCEPT !.fgaReady = TRUE])
       \/ /\ work.spec.authz = "external"
          /\ Fail("OpenFGAReady")
    /\ UNCHANGED << platformVars, queueVars, workloadVars, podVars, jobVars,
                    serviceVars, budget >>

\* reconcileOpenFGA, with the early returns in the order of the code: its
\* Postgres not ready (no OPA URL in the result), OpenFGA not ready (no store
\* id in the result), and reconcileAccessStore.
ReconcileOpenFGA ==
    /\ pc = "authz" /\ work.spec.authz = "embedded"
    /\ \/ /\ "openfga-postgres" \notin seen
          /\ Apply({"openfga-postgres"})
          /\ Continue("lakekeeper", SetCondition(work, "OpenFGAReady", "False"),
                      [pass EXCEPT !.fga = {"enabled"}])
          /\ UNCHANGED accessStore
       \/ /\ "openfga-postgres" \in seen
          /\ Apply({"openfga-postgres", "openfga"})
          /\ \/ /\ "openfga" \notin seen
                /\ Continue("lakekeeper", SetCondition(work, "OpenFGAReady", "False"),
                            [pass EXCEPT !.fga = {"enabled", "opaURL"}])
                /\ UNCHANGED accessStore
             \/ /\ "openfga" \in seen /\ ~WantsAccessStore(work.spec)
                /\ Continue("lakekeeper", SetCondition(work, "OpenFGAReady", "True"),
                            [pass EXCEPT !.fga = {"enabled", "opaURL"}, !.fgaReady = TRUE])
                /\ UNCHANGED accessStore
             \/ /\ "openfga" \in seen /\ WantsAccessStore(work.spec)
                /\ "openfga" \in ready
                /\ accessStore' = TRUE
                /\ Continue("lakekeeper", SetCondition(work, "OpenFGAReady", "True"),
                            [pass EXCEPT !.fga = {"enabled", "opaURL", "storeID"},
                                         !.fgaReady = TRUE])
             \/ \* OpenFGA went down after the cache last saw it
                /\ "openfga" \in seen /\ WantsAccessStore(work.spec)
                /\ "openfga" \notin ready
                /\ Fail("OpenFGAReady")
                /\ UNCHANGED accessStore
    /\ UNCHANGED << platformVars, queueVars, podVars, jobVars, catalog, budget >>

\* Mutant of DeployLakekeeper: it only waits for the identity provider.
DeployLakekeeperEarly == pass.authReady

\* What LakeKeeper waits for before it is deployed.
DeployLakekeeper == pass.authReady /\ pass.fgaReady

\* reconcileLakekeeper, or the wait for the components it needs, and then
\* reconcileLakekeeperStack's decision whether the warehouse can be ensured.
ReconcileLakekeeper ==
    /\ pc = "lakekeeper"
    /\ LET w == SetCondition(work, "LakekeeperReady",
                             StatusOf(DeployLakekeeper /\ "lakekeeper" \in seen))
           progressing == \/ ~ConditionTrue(w, "PostgresReady")
                          \/ ~ConditionTrue(w, "LakekeeperReady")
                          \/ ~pass.authReady \/ ~pass.fgaReady \/ ~pass.storeReady
       IN /\ Apply({x \in {"lakekeeper"} : DeployLakekeeper})
          /\ Continue(IF progressing THEN "trinoStack" ELSE "warehouse", w,
                      [pass EXCEPT !.progressing = progressing])
    /\ UNCHANGED << platformVars, queueVars, podVars, jobVars, serviceVars, budget >>

\* The services the warehouse step calls answer: LakeKeeper and, for a token,
\* the embedded Keycloak.
CatalogReachable ==
    /\ "lakekeeper" \in ready
    /\ work.spec.auth = "embedded" => "keycloak" \in ready

\* Mutant of CatalogAfter: a catalog that was bootstrapped before is left alone.
CatalogAfterOnce(grants, names) ==
    IF catalog.bootstrapped THEN catalog
    ELSE [bootstrapped |-> TRUE, granted |-> grants, warehouses |-> names]

\* LakeKeeper after Bootstrap, EnsureGrants for grants and EnsureWarehouse for
\* names: what is there already is left as it is.
CatalogAfter(grants, names) ==
    [ bootstrapped |-> TRUE,
      granted |-> catalog.granted \cup grants,
      warehouses |-> catalog.warehouses \cup names ]

ReconcileWarehouse ==
    /\ pc = "warehouse"
    /\ \/ /\ CatalogReachable
          /\ catalog' = CatalogAfter(CatalogPrincipals(work.spec), {work.spec.warehouse})
          /\ Continue("trinoStack", SetCondition(work, "WarehouseReady", "True"), pass)
       \/ /\ ~CatalogReachable
          /\ Fail("WarehouseReady")
          /\ UNCHANGED catalog
    /\ UNCHANGED << platformVars, queueVars, workloadVars, podVars, jobVars,
                    accessStore, budget >>

\* Mutant of Conclude: the Trino stack's verdict replaces the LakeKeeper stack's.
ConcludeTrinoOnly(w) ==
    LET progressing == ~ConditionTrue(w, "TrinoReady")
    IN Continue("patchStatus", SetCondition(w, "Ready", StatusOf(~progressing)),
                [pass EXCEPT !.progressing = progressing])

\* The end of reconcile, with conditions w: Ready, and whether to come back
\* in 15 seconds.
Conclude(w) ==
    LET progressing == pass.progressing \/ ~ConditionTrue(w, "TrinoReady")
    IN Continue("patchStatus", SetCondition(w, "Ready", StatusOf(~progressing)),
                [pass EXCEPT !.progressing = progressing])

SkipTrinoStack ==
    /\ pc = "trinoStack" /\ ~work.spec.trino
    /\ Conclude(SetCondition(work, "TrinoReady", "True"))
    /\ UNCHANGED << platformVars, queueVars, workloadVars, podVars, jobVars,
                    serviceVars, budget >>

\* Trino enabled: ensureNamespace and reconcileOPA.  reconcileTrinoStack
\* ignores whether OPA is ready.
ReconcileOPA ==
    /\ pc = "trinoStack" /\ work.spec.trino
    /\ Apply({x \in {"opa"} : OPAWanted})
    /\ Continue("trino", work, pass)
    /\ UNCHANGED << platformVars, queueVars, podVars, jobVars, serviceVars, budget >>

ReconcileTrino ==
    /\ pc = "trino"
    /\ Apply({"trino"})
    /\ Conclude(SetCondition(work, "TrinoReady", StatusOf("trino" \in seen)))
    /\ UNCHANGED << platformVars, queueVars, podVars, jobVars, serviceVars, budget >>

EndPass == Continue("idle", IdleWork, NoPass)

\* patchStatus: the whole status is written onto the cache's latest copy, and
\* the API server refuses the write when that copy is not current.  An error
\* and a progressing platform are both retried.
PatchStatus ==
    /\ pc = "patchStatus"
    /\ \/ /\ cached = dp
          /\ dp' = [dp EXCEPT !.conditions = work.conditions]
          /\ timer' = (timer \/ pass.failed \/ pass.progressing)
       \/ /\ cached # dp
          /\ timer' = TRUE
          /\ UNCHANGED dp
    /\ EndPass
    /\ UNCHANGED << cached, pending, workloadVars, podVars, jobVars,
                    serviceVars, budget >>

PassStep ==
    \/ Dequeue \/ SkipLakekeeperStack \/ ReconcilePostgres
    \/ ReconcileObjectStore \/ ReconcileAuth \/ SkipAuthz \/ ReconcileOpenFGA
    \/ ReconcileLakekeeper \/ ReconcileWarehouse \/ SkipTrinoStack
    \/ ReconcileOPA \/ ReconcileTrino \/ PatchStatus
-----------------------------------------------------------------------------
(* Failures inside a pass: an API call returns an error, a read hits a cache  *)
(* that has not caught up with a creation, or a response is lost after the    *)
(* request took effect.                                                       *)

SpendFault ==
    /\ budget.faults < MaxFaults
    /\ budget' = [budget EXCEPT !.faults = @ + 1]

\* The condition a step's error is recorded in.  Errors of ensureNamespace, the
\* first call of both stacks, and of reconcileOPA only reach Ready.
StepConditions ==
    {c \in Conditions :
        \/ pc = "lakekeeperStack" /\ c \in {"PostgresReady", "Ready"}
        \/ pc = "storage" /\ c = "MinioReady"
        \/ pc = "auth" /\ c = "AuthReady"
        \/ pc = "authz" /\ c = "OpenFGAReady"
        \/ pc = "lakekeeper" /\ c = "LakekeeperReady"
        \/ pc = "warehouse" /\ c = "WarehouseReady"
        \/ pc = "trinoStack" /\ c = "Ready"
        \/ pc = "trino" /\ c = "TrinoReady"}

\* The step, in its current state, calls the API server or a service.
StepMakesCalls ==
    /\ pc = "lakekeeperStack" => work.spec.lakekeeper
    /\ pc = "storage" => work.spec.storage # "incomplete"
    /\ pc = "auth" => work.spec.auth \in {"embedded", "external"}
    /\ pc = "authz" => work.spec.authz = "embedded"
    /\ pc = "lakekeeper" => DeployLakekeeper
    /\ pc = "trinoStack" => work.spec.trino

\* The workloads the step applies before it is done.
StepWorkloads ==
    {w \in Workloads :
        \/ pc = "lakekeeperStack" /\ w = "postgres" /\ work.spec.postgres = "embedded"
        \/ pc = "storage" /\ w = "minio" /\ work.spec.storage = "embedded"
        \/ pc = "auth" /\ w = "keycloak" /\ work.spec.auth = "embedded"
        \/ pc = "authz" /\ w = "openfga-postgres"
        \/ pc = "authz" /\ w = "openfga" /\ "openfga-postgres" \in seen
        \/ pc = "lakekeeper" /\ w = "lakekeeper"
        \/ pc = "trinoStack" /\ w = "opa" /\ OPAWanted
        \/ pc = "trino" /\ w = "trino"}

\* The step fails after it applied some of its workloads.
StepError ==
    /\ pc \in Steps /\ StepMakesCalls /\ SpendFault
    /\ \E ws \in SUBSET StepWorkloads, c \in StepConditions :
          /\ "openfga" \in ws => "openfga-postgres" \in ws
          /\ pc = "lakekeeperStack" /\ c = "Ready" => ws = {}
          /\ Apply(ws)
          /\ Fail(c)
    /\ UNCHANGED <<platformVars, queueVars, podVars, jobVars, serviceVars>>

\* The bucket Job was created or deleted, and the response lost.
BucketError ==
    /\ pc = "storage" /\ work.spec.storage = "embedded" /\ "minio" \in seen
    /\ SpendFault
    /\ Apply({"minio"})
    /\ EnsureMinioBucket /\ job' # job
    /\ Fail("MinioReady")
    /\ UNCHANGED <<platformVars, queueVars, podVars, seenJob, serviceVars>>

\* OpenFGA holds the store and its model, and the response was lost.
AccessStoreError ==
    /\ pc = "authz" /\ work.spec.authz = "embedded"
    /\ WantsAccessStore(work.spec)
    /\ {"openfga-postgres", "openfga"} \subseteq seen /\ "openfga" \in ready
    /\ SpendFault
    /\ Apply(StepWorkloads)
    /\ accessStore' = TRUE
    /\ Fail("OpenFGAReady")
    /\ UNCHANGED <<platformVars, queueVars, podVars, jobVars, catalog>>

\* Bootstrap, grants and warehouse are separate calls: the pass fails after
\* the bootstrap and some grants, or with the answer to the last call lost.
WarehouseError ==
    /\ pc = "warehouse" /\ CatalogReachable /\ SpendFault
    /\ \E g \in SUBSET CatalogPrincipals(work.spec), ws \in SUBSET {work.spec.warehouse} :
          /\ "opa" \in g => "admin" \in g
          /\ ws # {} => g = CatalogPrincipals(work.spec)
          /\ catalog' = CatalogAfter(g, ws)
    /\ Fail("WarehouseReady")
    /\ UNCHANGED << platformVars, queueVars, workloadVars, podVars, jobVars, accessStore >>

\* The status write fails, or succeeds and its response is lost.
PatchStatusError ==
    /\ pc = "patchStatus" /\ SpendFault
    /\ \/ UNCHANGED dp
       \/ /\ cached = dp
          /\ dp' = [dp EXCEPT !.conditions = work.conditions]
    /\ timer' = TRUE
    /\ EndPass
    /\ UNCHANGED << cached, pending, workloadVars, podVars, jobVars, serviceVars >>

PassError ==
    StepError \/ BucketError \/ AccessStoreError \/ WarehouseError \/ PatchStatusError

\* The operator stops anywhere and a new process (or leader) takes over: it
\* syncs its cache and finds the platform on its queue.
Crash ==
    /\ budget.crashes < MaxCrashes
    /\ budget' = [budget EXCEPT !.crashes = @ + 1]
    /\ EndPass
    /\ cached' = dp /\ seen' = ready /\ seenJob' = job
    /\ pending' = TRUE /\ timer' = FALSE
    /\ UNCHANGED <<dp, workloadVars, ready, started, job, serviceVars>>
-----------------------------------------------------------------------------
(* The user, the watches and the cluster *)

EditSpec ==
    /\ dp.gen < MaxGeneration
    /\ \E s \in Specs \ {dp.spec} :
          dp' = [dp EXCEPT !.spec = s, !.gen = @ + 1]
    /\ UNCHANGED << cached, workerVars, queueVars, workloadVars, podVars, jobVars,
                    serviceVars, budget >>

\* Mutant of DeliverPlatform: the cache is kept current but nothing is queued.
DeliverPlatformUnwatched ==
    /\ cached # dp
    /\ cached' = dp
    /\ UNCHANGED << dp, workerVars, queueVars, workloadVars, podVars, jobVars,
                    serviceVars, budget >>

\* A watch event for the platform: For(&DataPlatform{}).  Status writes are
\* events as well.
DeliverPlatform ==
    /\ cached # dp
    /\ cached' = dp
    /\ pending' = TRUE
    /\ UNCHANGED << dp, workerVars, timer, workloadVars, podVars, jobVars,
                    serviceVars, budget >>

\* Mutant of DeliverReadiness: workloads are read but not owned.
DeliverReadinessUnowned(w) ==
    /\ (w \in ready) # (w \in seen)
    /\ seen' = IF w \in ready THEN seen \cup {w} ELSE seen \ {w}
    /\ UNCHANGED << platformVars, workerVars, queueVars, workloadVars, ready, started,
                    jobVars, serviceVars, budget >>

\* A watch event for an owned StatefulSet or Deployment whose readiness changed.
DeliverReadiness(w) ==
    /\ (w \in ready) # (w \in seen)
    /\ seen' = IF w \in ready THEN seen \cup {w} ELSE seen \ {w}
    /\ pending' = TRUE
    /\ UNCHANGED << platformVars, workerVars, timer, workloadVars, ready, started,
                    jobVars, serviceVars, budget >>

\* A watch event for the owned bucket Job.
DeliverJob ==
    /\ seenJob # job
    /\ seenJob' = job
    /\ pending' = TRUE
    /\ UNCHANGED << platformVars, workerVars, timer, workloadVars, podVars, job,
                    serviceVars, budget >>

\* Any other event of an owned object enqueues the platform too; during a pass
\* that has the effect it has right after it.
OwnedObjectEvent ==
    /\ pc = "idle" /\ deployed # {} /\ ~pending
    /\ pending' = TRUE
    /\ UNCHANGED << platformVars, workerVars, timer, workloadVars, podVars, jobVars,
                    serviceVars, budget >>

\* The 15 seconds, or the back-off, are over; during a pass that has the effect
\* it has right after it.
TimerFires ==
    /\ pc = "idle" /\ timer
    /\ timer' = FALSE
    /\ pending' = TRUE
    /\ UNCHANGED << platformVars, workerVars, workloadVars, podVars, jobVars,
                    serviceVars, budget >>

\* Room for one more readiness change on its way to the cache.
LagLeft == Cardinality({w \in Workloads : (w \in ready) # (w \in seen)}) < MaxLag

PodStarts(w) ==
    /\ w \in deployed \ ready /\ LagLeft
    /\ ready' = ready \cup {w}
    /\ started' = started \cup {w}
    /\ UNCHANGED << platformVars, workerVars, queueVars, workloadVars, seen, jobVars,
                    serviceVars, budget >>

SpendLoss ==
    /\ budget.losses < MaxLosses
    /\ budget' = [budget EXCEPT !.losses = @ + 1]

PodLost(w) ==
    /\ w \in ready /\ LagLeft
    /\ SpendLoss
    /\ ready' = ready \ {w}
    /\ UNCHANGED << platformVars, workerVars, queueVars, workloadVars, started, seen,
                    jobVars, serviceVars >>

JobSucceeds ==
    /\ job = "running" /\ "minio" \in ready
    /\ job' = "succeeded"
    /\ UNCHANGED << platformVars, workerVars, queueVars, workloadVars, podVars, seenJob,
                    serviceVars, budget >>

\* The Job's back-off limit is used up.
JobFails ==
    /\ job = "running"
    /\ SpendLoss
    /\ job' = "failed"
    /\ UNCHANGED << platformVars, workerVars, queueVars, workloadVars, podVars, seenJob,
                    serviceVars >>

JobRemoved ==
    /\ job = "deleting"
    /\ job' = "absent"
    /\ UNCHANGED << platformVars, workerVars, queueVars, workloadVars, podVars, seenJob,
                    serviceVars, budget >>

Watches == DeliverPlatform \/ DeliverJob \/ \E w \in Workloads : DeliverReadiness(w)

Pods == \E w \in Workloads : PodStarts(w) \/ PodLost(w)

Next ==
    \/ PassStep \/ PassError \/ Crash
    \/ EditSpec \/ Watches \/ OwnedObjectEvent \/ TimerFires
    \/ Pods \/ JobSucceeds \/ JobFails \/ JobRemoved

Spec == Init /\ [][Next]_vars

(***************************************************************************)
(* Fairness.  The worker runs whenever the queue is not empty, timers      *)
(* fire and watches deliver: controller-runtime promises that much.        *)
(* Kubernetes restarts pods and finishes Jobs, unless the outage is        *)
(* permanent.  Edits, errors, crashes and losses are never fair.           *)
(***************************************************************************)
OperatorFairness ==
    /\ WF_vars(PassStep)
    /\ WF_vars(DeliverPlatform)
    /\ WF_vars(DeliverJob)
    /\ WF_vars(TimerFires)
    /\ \A w \in Workloads : WF_vars(DeliverReadiness(w))

ClusterFairness ==
    /\ \A w \in Workloads : WF_vars(PodStarts(w))
    /\ WF_vars(JobSucceeds)
    /\ WF_vars(JobRemoved)

OutageSpec == Spec /\ OperatorFairness
LiveSpec == OutageSpec /\ ClusterFairness
-----------------------------------------------------------------------------
(* What the operator promises *)

ReadyAt(p) == p.conditions["Ready"] = [status |-> "True", gen |-> p.gen]

\* The workloads Ready vouches for.  OPA is not among them.
Required(s) ==
    {w \in {"trino"} : s.trino} \cup
    IF ~s.lakekeeper THEN {} ELSE
        {"lakekeeper"} \cup
        {w \in {"postgres"} : s.postgres = "embedded"} \cup
        {w \in {"minio"} : s.storage = "embedded"} \cup
        {w \in {"keycloak"} : s.auth = "embedded"} \cup
        {w \in {"openfga", "openfga-postgres"} : s.authz = "embedded"}

\* A spec the operator can act on.
Resolvable(s) ==
    s.lakekeeper => /\ "incomplete" \notin {s.storage, s.postgres, s.auth}
                    /\ s.authz # "external"

\* What a pass leaves behind in LakeKeeper and MinIO for spec s.
Provisioned(s) ==
    /\ s.storage = "embedded" => job = "succeeded"
    /\ catalog.bootstrapped
    /\ CatalogPrincipals(s) \subseteq catalog.granted
    /\ s.warehouse \in catalog.warehouses

\* Trino asks OPA exactly when LakeKeeper, auth and authz are all in use.
EnforcedBySpec(s) == s.lakekeeper /\ s.trino /\ AuthEnabled(s) /\ s.authz = "embedded"

Wired(s) ==
    s.trino =>
      /\ ("opa" \in template["trino"]) <=> EnforcedBySpec(s)
      /\ ("policies" \in template["trino"]) <=> (EnforcedBySpec(s) /\ s.policies)
      /\ ("oidc" \in template["trino"]) <=> (s.lakekeeper /\ AuthEnabled(s))
      /\ EnforcedBySpec(s) =>
            (("storeID" \in template["opa"]) <=> s.policies)

\* Everything the spec asks for is there and the status says so.
Settled(s) ==
    /\ ReadyAt(dp)
    /\ Required(s) \subseteq ready
    /\ s.lakekeeper => Provisioned(s)
    /\ Wired(s)

\* Nothing is queued, scheduled or under way, and the cache is current.
Quiescent ==
    /\ pc = "idle" /\ ~pending /\ ~timer
    /\ cached = dp /\ seen = ready /\ seenJob = job

(* Ready=True is never a mix of passes: every other condition that the pass   *)
(* which wrote it went through is True and observed the same generation, so   *)
(* no condition of an earlier pass (an early return, an error, an edit in     *)
(* between) survives under Ready=True.  reconcile, setCondition, patchStatus. *)
ReadyIsComplete ==
    dp.conditions["Ready"].status = "True" =>
        /\ \A c \in Conditions \ {"AuthReady"} : dp.conditions[c] = dp.conditions["Ready"]
        /\ dp.conditions["Ready"].gen = dp.gen /\ dp.spec.lakekeeper =>
              dp.conditions["AuthReady"] = dp.conditions["Ready"]

(* Ready=True for the current generation means the bucket Job of an embedded  *)
(* store has succeeded, LakeKeeper was bootstrapped, the principals of this   *)
(* very spec hold their grants and its warehouse exists, whatever was edited, *)
(* failed half-way or crashed while ensureMinioBucket and reconcileWarehouse  *)
(* ran.                                                                       *)
ReadyIsProvisioned ==
    ReadyAt(dp) /\ dp.spec.lakekeeper => Provisioned(dp.spec)

(* No wake-up is lost: once the queue and the timer are empty and the cache   *)
(* is current, the platform is settled for its latest spec.  An edit, a lost  *)
(* pod, a conflict on the status write or an error that no queue entry, timer *)
(* or undelivered event stands for would break it.  SetupWithManager, the     *)
(* results of Reconcile and patchStatus.                                      *)
QuiescentIsSettled == Quiescent => Settled(dp.spec)

(* Workloads are deployed only once what they need at start-up has been up:   *)
(* OpenFGA (it migrates its database first) after its Postgres, LakeKeeper    *)
(* with the OpenFGA authorizer after OpenFGA, the bucket Job after MinIO.     *)
StartupOrder ==
    /\ "openfga" \in deployed => "openfga-postgres" \in started
    /\ "authz" \in template["lakekeeper"] => "openfga" \in started
    /\ job # "absent" => "minio" \in started

(* Trino is pointed at OPA only after OPA was deployed, and OPA at the access *)
(* store only after the store exists, so neither enforcement point is ever    *)
(* configured with an address that was never there (reconcileTrinoStack's     *)
(* order; opaAccessEnv).                                                      *)
EnforcementOrder ==
    /\ "opa" \in template["trino"] => "opa" \in deployed
    /\ "storeID" \in template["opa"] => accessStore

(* The generation that Ready has observed never goes back and is never ahead  *)
(* of the spec: no pass, however stale the cache it started from and whatever *)
(* was edited or crashed since, overwrites the verdict on a newer spec        *)
(* (setCondition, and patchStatus's write of a whole status).                 *)
ReadyGenerationAdvances ==
    [][/\ dp'.conditions["Ready"].gen >= dp.conditions["Ready"].gen
       /\ dp'.conditions["Ready"].gen <= dp'.gen]_vars

-----------------------------------------------------------------------------
(* Why the safety properties hold: an inductive invariant, by parts *)

\* The cache never runs ahead of the API server, a pass never ahead of the
\* cache, and the verdict never ahead of the pass that may replace it.  A
\* generation identifies a spec.
Generations ==
    /\ cached.gen <= dp.gen
    /\ cached.gen = dp.gen => cached.spec = dp.spec
    /\ dp.conditions["Ready"].gen <= cached.gen
    /\ pc # "idle" =>
          /\ work.gen <= cached.gen
          /\ work.gen = cached.gen => work.spec = cached.spec
          /\ dp.conditions["Ready"].gen <= work.gen

\* Condition c of the pass is True for the spec the pass works on.
Done(c) == work.conditions[c] = [status |-> "True", gen |-> work.gen]

\* Every condition that Ready answers for is.
AllDone == /\ \A c \in Conditions \ {"AuthReady", "TrinoReady", "Ready"} : Done(c)
           /\ work.spec.lakekeeper => Done("AuthReady")

\* What each step of the pass may rely on, and what the write at its end does.
PassFacts ==
    /\ pc \in {"lakekeeperStack", "storage", "auth", "authz"} =>
          pass.fga = {} /\ ~pass.fgaReady
    /\ pc \in {"storage", "auth", "authz", "lakekeeper", "warehouse"} =>
          work.spec.lakekeeper /\ work.conditions["PostgresReady"].gen = work.gen
    /\ pc \in {"lakekeeperStack", "storage", "auth", "authz", "lakekeeper", "warehouse"} =>
          /\ pass.storeReady => /\ Done("MinioReady")
                                /\ work.spec.storage = "embedded" => job = "succeeded"
          /\ pass.authReady => Done("AuthReady")
          /\ pass.fgaReady => Done("OpenFGAReady")
    /\ pc = "warehouse" =>
          /\ pass.storeReady /\ pass.authReady /\ pass.fgaReady /\ ~pass.progressing
          /\ Done("PostgresReady") /\ Done("LakekeeperReady")
    /\ pc \in {"trinoStack", "trino"} /\ ~pass.progressing =>
          AllDone /\ (work.spec.lakekeeper => Provisioned(work.spec))
    /\ pc = "patchStatus" =>
          /\ work.conditions["Ready"].gen = work.gen
          /\ ConditionTrue(work, "Ready") =>
                /\ AllDone /\ Done("TrinoReady")
                /\ work.spec.lakekeeper => Provisioned(work.spec)

\* What the cache and the pass say of workloads and stores was true once.
History ==
    /\ ready \subseteq started
    /\ seen \subseteq started
    /\ seenJob = "succeeded" => job = "succeeded"
    /\ "enabled" \in pass.fga /\ pass.fgaReady => "openfga" \in started
    /\ "storeID" \in pass.fga => accessStore
    /\ pc = "trino" /\ TrinoUsesOPA => "opa" \in deployed

\* The invariant, which the steps of the specification preserve.
Inv ==
    /\ TypeOK
    /\ Generations
    /\ PassFacts
    /\ History
    /\ ReadyIsComplete
    /\ ReadyIsProvisioned
    /\ StartupOrder
    /\ EnforcementOrder
-----------------------------------------------------------------------------
(* Liveness *)

(* When edits, errors, crashes and losses stop, a spec the operator can act   *)
(* on is eventually settled and stays settled.                                *)
EventuallySettled == <>[](Resolvable(dp.spec) => Settled(dp.spec))

(* A workload that Ready vouches for and that stays down is eventually        *)
(* reported: Ready does not stay True over a permanent outage.                *)
OutageReported ==
    \A w \in Workloads :
        <>[](w \in Required(dp.spec) \ ready) => <>[](~ReadyAt(dp))

(* Every spec the user writes is eventually judged: Ready observes its        *)
(* generation or a later one, even when pods never come up.                   *)
GenerationObserved ==
    \A g \in 1..MaxGeneration :
        (dp.gen = g) ~> (dp.conditions["Ready"].gen >= g)
-----------------------------------------------------------------------------
(* What the documentation says and the code does not do *)

(* README.md: row filters and column masks fail closed "and everyone does if  *)
(* OpenFGA becomes unreachable".  For a platform created with policies and    *)
(* never edited, whose access store has been provisioned, a Trino that serves *)
(* queries asks OPA.                                                          *)
TrinoFailsClosed ==
    /\ dp.gen = 1 /\ EnforcedBySpec(dp.spec) /\ dp.spec.policies
    /\ pc = "idle" /\ accessStore /\ "trino" \in ready
    => "opa" \in template["trino"]

(* api/v1alpha1/dataplatform_types.go: "Ready": every enabled component is    *)
(* fully functional; here, OPA is when Trino depends on it.                   *)
ReadyCoversOPA ==
    Quiescent /\ ReadyAt(dp) /\ EnforcedBySpec(dp.spec) => "opa" \in ready

(* api/v1alpha1/dataplatform_types.go: rowFilters "Requires Trino and authz   *)
(* to be enabled".  With both enabled, Ready means Trino applies the policies. *)
ReadyCoversPolicies ==
    Quiescent /\ ReadyAt(dp) /\ dp.spec.trino /\ HasAccessPolicies(dp.spec)
    => "policies" \in template["trino"]
=============================================================================
