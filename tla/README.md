# A verification of the data platform operator

The operator is a Kubernetes controller. From one cluster-scoped `DataPlatform`
it deploys an Iceberg lakehouse: an object store, Postgres, an identity
provider, OpenFGA, LakeKeeper, OPA and Trino. This directory models how it does
so, model-checks the model, and proves its main safety properties for every
value of the constants.

    tlc -workers 2 -config MC_live.cfg MCDataPlatformController   # a run
    tlapm DataPlatformController_proof.tla                        # its proofs
    tlapm Quiescence_proof.tla
    tlapm AuthzStore_proof.tla
    tlapm Lakehouse_proof.tla
    tlapm Credentials_proof.tla
    tlapm AccessPolicy_proof.tla

`PROJECT.json` lists the runs, the mutants that show each property can fail, the
source lines each definition stands for, the hazards and the theorems.

## The system

| Part | Source (`internal/controller/` unless said) | State it keeps | Operations |
| --- | --- | --- | --- |
| Reconcile loop | `dataplatform_controller.go` | none in memory; the platform's status | `Reconcile`, the two stacks, the watches |
| Status | `apply.go` | conditions with observed generation | `setCondition`, `patchStatus` |
| API modes | `api/v1alpha1/` | the spec | enabled, embedded, access policies |
| Postgres | `postgres.go` | StatefulSet, Secret | embedded or external |
| Object store | `minio.go` | StatefulSet, Secret, bucket Job | embedded or external; create, delete, recreate the Job |
| Identity provider | `keycloak.go`, `oidc.go` | Deployment, realm, Secrets | embedded, external, disabled; tokens |
| OpenFGA | `openfga.go` | its Postgres, Deployment, Secret | apply in order, hand on what is known |
| Access store | `authzstore.go` | store and model inside OpenFGA | find, create, compare, rewrite |
| LakeKeeper | `lakekeeper.go` | Deployment, Secret | deploy after auth and OpenFGA |
| Catalog bootstrap | `warehouse.go`, `catalog.go` | bootstrap, grants, warehouse inside LakeKeeper | three idempotent calls |
| OPA bridge | `opa.go` | Deployment, Secret, ConfigMap | deploy with the store id when known |
| Trino | `trino.go` | coordinator, workers, configuration | deploy, access control on or off |
| Process | `cmd/main.go` | leader lease | start, stop |
| Generated Secrets | `apply.go`, `keycloak.go`, `opa.go` | Secrets, and copies in templates, pods, databases | create once, read back, hash into templates |
| Row filters, column masks | `embed/rowfilters/` | OPA's caches | filter, mask |
| LakeKeeper's policies | `embed/opapolicies/` (vendored) | OPA's caches | allow |

A pass of the reconcile loop runs the reconcilers in a fixed order. Each applies
its objects, reads their readiness from the informer cache, sets a condition on
the pass's copy of the platform, and returns a small result that later ones use:
whether the store is ready, the OIDC configuration, the OpenFGA configuration
(with the OPA URL and the store id, as far as they are known). The pass ends by
writing the whole status. Events of owned objects, a 15-second requeue and the
back-off after an error start the next pass. LakeKeeper, OpenFGA and Keycloak are
called over HTTP from inside a pass.

What is hard here is not the concurrency of passes (there is one worker and one
platform) but everything that moves while a pass runs: the user edits the spec,
pods come and go, the cache lags, calls fail or take effect without an answer, the
operator stops. What must hold in spite of it:

* the verdict in the status is about one spec, by one pass, and it is right;
* nobody is started or configured against something that was never there;
* no change goes unnoticed; what can settle settles, what cannot is reported;
* a credential is generated once and the programs that share it come to agree;
* what is written once in another program (a warehouse) is right when written;
* no query shows more than was granted;
* the enforcement of access policies does not depend on timing.

The hazards, each at its line, are in `PROJECT.json`; those no property covers say why.

## The modules

| Module | What it is |
| --- | --- |
| `DataPlatformController` | the reconcile loop, the reconcilers, the cluster; properties and the inductive invariant |
| `MCDataPlatformController` | the specs a user writes in each run |
| `DataPlatformController_proof` | lemmas and theorems about the first |
| `Quiescence_proof` | its theorem that no wake-up is lost |
| `AuthzStore` | `EnsureAuthzStore` and `reconcileAccessStore` request by request, OpenFGA's stores and models, the users who write tuples |
| `AccessStore` | abstract specification: one store per name, a model that changes only when another is wanted, an id that is handed on |
| `MCAuthzStore` | the names and models of the runs |
| `AccessPolicy` | row filters and column masks: OPA's decisions over OpenFGA's answers and its cache, and the rollout of policies to OPA and Trino |
| `Credentials` | the realm's key, the clients' secrets, OpenFGA's API key and its database's password, from Secret to pod |
| `Lakehouse` | MinIO with its key and bucket Job, LakeKeeper's warehouses, Trino's catalog |
| `AuthzStore_proof`, `AccessPolicy_proof`, `Credentials_proof`, `Lakehouse_proof` | lemmas and theorems about these |
| `MCAccessPolicy`, `MCCredentials`, `MCLakehouse` | the policies and specs of their runs |

The core has every reconciler with its early returns, and one bit where another
program keeps data. The last four models open such bits: `AuthzStore` the access
store, `Lakehouse` the bucket Job and the warehouse, `Credentials` the Secrets
below all of them, `AccessPolicy` what the wiring of Trino and OPA is for. In each
of them a pass is the steps that touch its data, in the order of the code; the
steps between that only wait are left to the core.

### State

| Variable | In the code |
| --- | --- |
| `dp`, `cached` | the platform in the API server, and what `r.Get` returns |
| `pc`, `work`, `pass` | where the pass is, the `dp` it works on, the results handed on (`storeReady`, `authReady`, `fgaReady`, `oidcConfig.enabled`, `openfgaConfig`, `progressing`, an error) |
| `pending`, `timer` | the work queue; `RequeueAfter` and the back-off |
| `template` | what the applied pod template of a workload says: OIDC, authz, OPA, policies, store id |
| `deployed`, `ready`, `started` | workloads that exist, have a ready replica, have ever had one (history) |
| `seen`, `job`, `seenJob` | readiness in the cache; the bucket Job, and the cache's view of it |
| `accessStore`, `catalog` | the store with its model in OpenFGA; bootstrap, grants, warehouses in LakeKeeper |
| `budget` | failed calls, losses and crashes so far |

`cached = dp` compares values where the API server compares resource versions;
the pass is the only writer of the status and every edit changes the generation,
so the two agree.

### Actions

One action per reconciler: `Dequeue` reads the platform; `ReconcilePostgres`,
`ReconcileObjectStore`, `ReconcileAuth`, `ReconcileOpenFGA`,
`ReconcileLakekeeper`, `ReconcileWarehouse`, `ReconcileOPA`, `ReconcileTrino`
and the `Skip` actions are the steps, with their early returns as disjuncts in
the order of the code; `PatchStatus` writes the status or meets a conflict. A
reconciler is one action because between its own calls it reads nothing that it
has not read or written itself; whatever it reads from the cache it reads once.
The exception, calls that fail or take effect without an answer, are the actions
of `PassError`: they apply any part of what the step applies and take the step's
error path. `Crash` ends a pass anywhere and starts a new process with a synced
cache and an initial event.

Of the environment: `EditSpec`; the watches `DeliverPlatform`,
`DeliverReadiness`, `DeliverJob`; `OwnedObjectEvent` (any other event of an owned
object); `TimerFires`; `PodStarts`, `PodLost`, `JobSucceeds`, `JobFails`,
`JobRemoved`. An event or timer during a pass only marks the platform as
pending, which has the effect it has right after the pass: two of them are
restricted to an idle worker.

### Left out of the core

Names, Services, ConfigMaps and their content; reasons and messages; the
deletion of a platform and a second platform; two leaders at once; Trino's workers
(folded into `trino`). Secrets, the content of the bucket Job and old against new
pods are in the modules below. A disabled component's workloads stay deployed, as
they do in the code.

### The access store

`AuthzStore` opens up what is one bit (`accessStore`) and one step of the core.
Its actions are the HTTP requests of `EnsureAuthzStore`, in order: `FindPage`
(`findAuthzStore` reads pages until a live store has the name), `Create`,
`ReadModel` (with `authzModelMatches`), `WriteModel`; around them `Begin` and
`Publish` of `reconcileAccessStore`. The request is built when the pass begins
(`req`), so an edit during the pass is seen by the next. `WriteRefused` is
OpenFGA's answer for a store deleted in between. Requests fail (`GiveUp`), take
effect without an answer (`AnswerLost`), or take effect after the operator's
30-second time-out or its end (`GiveUpEarly`, `TakesEffect`). The last is also
what the request of a leader that lost its lease looks like to its successor; two
leaders that both go on with a pass are not modelled.

Of OpenFGA, from how the code uses it: names are not unique, ids are never
reused, models are appended and the latest is listed first, stores are listed in
the order of their creation, and a token continues behind what was listed.
`authzModelMatches` compares types and relations; a model value stands for all
models of one such shape.

The refinement maps each name to its first live store and that store's latest
model: passes, retries and paging disappear, and what remains is opening a store
under a name that has none, changing its model to another, losing it, and handing
an id on.

### Access policies

`AccessPolicy` has the rules of `embed/rowfilters/` as operators: `ListObjects`
(with `force_cache`), `Literals`, `Shown` for `row_filters`, `Masked` for the two
ways of masking. OPA's environment (`Env`) and Trino's `access-control.properties`
(`AccessControl`) are what a pass makes of the policies it read; both reach pods
that are replaced one by one, and a query may be served by any Trino pod asking
any OPA pod, filters and masks apart. `EnsureStore`, `ApplyOPA` and `ApplyTrino`
are the steps of a pass; its outcomes are the three answers of `reconcileOpenFGA`,
which reads readiness from the cache: OpenFGA may be found not ready while it
answers, and is found ready while it does not only if there is no model to write.
Two variables remember, and no guard reads them: `inForce`, the policies that have
taken effect and that the spec has kept since; `databaseLost`, that a pass has found
OpenFGA's Postgres not ready. After that a coordinator without OPA's URL is
`Excused`. Two simplifications: Trino's ConfigMap and Deployment are written in one
step, and a Trino pod is replaced by a rollout only, it does not restart by itself.
A cached answer carries its age in ticks. An OpenFGA answer is the set of ids, a
decision is the set of rows or columns left visible; the SQL text is not modelled.

### Credentials

A credential is the number of its generation. `secrets` is the API server, `seen`
the cache; `template` and `pods` hold credentials by value where the code puts
them into the template or hashes them, by name where the template names a Secret
and a pod reads it at its start. `EnsureGeneratedSecret` and `EnsureOIDC` are
`ensureGeneratedSecret` and the upgrade of `ensureOIDCSecretKeys`; `ApplyRealm` and
`ApplyKeycloak` the realm, its hash and the second read of `embeddedOIDCConfig`;
then OpenFGA with its Postgres, LakeKeeper, OPA (whose own Secret is also named
`oidc`) and Trino. OpenFGA and Keycloak refuse what does not match, which ends the
pass. The instance assumes what the default namespaces give, Keycloak and OpenFGA
apart; the mutant of `SecretsKept` is the shared namespace.

### The lakehouse

`Lakehouse` follows three values: the bucket's name, MinIO's key and the
warehouse's name. Steps are `EnsureMinio`, `ReconcileMinio` (with
`EnsureMinioBucket`: create, await, replace or accept the Job), `EnsureLakekeeper`,
`ListWarehouses` and `CreateWarehouse` of `EnsureWarehouse`, `ReconcileTrino`. The
platform may have the bucket Job of an operator before `mcHomePath`, which never
succeeds. A pass reads the spec once; an edit that reaches the cache late is an
edit made late.

## The runs

Runs of `MCDataPlatformController`. Bounds: how many specs are written
(`MaxGeneration`), calls that fail (`MaxFaults`), pods or Jobs lost (`MaxLosses`),
operator restarts (`MaxCrashes`), and workloads whose readiness the cache is
behind on (`MaxLag`).

| Run | Specs | Gen/Faults/Losses/Crashes/Lag | Checks |
| --- | --- | --- | --- |
| `live` | OpenFGA with policies; MinIO; one incomplete | 1/0/1/0/1 | `ReadyIsProvisioned`, `StartupOrder`, `QuiescentIsSettled`, `EnforcementOrder`, `EventuallySettled` |
| `outage` | the LakeKeeper stack with policies, without Trino; nothing enabled | 2/0/1/1/1 | `ReadyIsComplete`, `ReadyIsProvisioned`, `QuiescentIsSettled`, `ReadyGenerationAdvances`, `OutageReported`, `GenerationObserved` |
| `modes` | fifteen, every branch of every reconciler | 1/1/0/0/1 | `TypeOK`, `Inv` |

Runs of `MCAuthzStore` (two names, two models, pages of one store; the second
column is edits, faults, late requests, deletions, stores of others):

| Run | Edits/Faults/Late/Deletes/Others | Checks |
| --- | --- | --- |
| `authzstore` | 2/1/0/1/0 | `ModelsChange`, `UpToDate`, `GrantsKept`, `ImplementsAccessStore` |
| `authzlate` | 1/1/1/1/1 | `TypeOK`, `OneStore` |

Two edits are what it takes to leave a name or a model and come back to it. With
pages of one store, two stores already need a second page; the code's 100 per
page is `PageSize`.

Runs of the other modules:

| Run | Instance and bounds | Checks |
| --- | --- | --- |
| `policy` | one user; a filter by text, one by number and a column; three policy sets, one of them empty; answers kept for one tick; any two of: edits, grants written or deleted, outages, readiness seen wrong, notifications, OPA pods lost | `TypeOK`, `OnlyEntitledIsShown`, `FailsClosed`, `GrantsTakeEffect` |
| `credentials` | fresh or upgraded; one Secret deleted; one pod lost or operator stopped | `TypeOK`, `TokensSurvive`, `SecretsKept`, `CredentialsAgree` |
| `lakehouse` | fresh or with an old Job; two buckets and two warehouse names; one edit, one Secret deleted, one fault | `TypeOK`, `StorageReachable`, `OneSpec`, `EventuallyUsable` |

These runs and `outage` do not check for deadlock: a platform at rest, after its
last permitted edit or fault, has no step to take.

The installation of everything embedded at once has too many interleavings to be
enumerated together with losses; `modes` and `live` cover the reconcilers it adds
(MinIO, Keycloak, Postgres) one or two at a time, `credentials` and `lakehouse`
have them together for the data they follow, and the proofs cover it for the
safety properties.

An edit of the warehouse's name is in `Lakehouse` (`OneSpec`) and, for the verdict,
in the proofs.

Why the bounds are enough: a pass looks at each workload's readiness once, so one
change in flight (`MaxLag` 1) between any two steps is already every order of
one change against a pass. Each hazard about edits is between a pass and the
spec after it, hence two generations; each about failure needs one failure and
the passes after it, which are not bounded. In `policy` two events are what a
stale answer takes (a grant revoked and an outage, an edit and a pod lost), and
one user is enough because no decision depends on another user's grants. In
`credentials` one deletion already makes two generations of a credential that
exist side by side, and what a second one would do to the same Secret is what the
first did. What is proved below holds whatever the bounds.

What they show:

* `ReadyIsComplete`: under Ready=True no condition of an earlier pass survives.
  With LakeKeeper disabled it says nothing of AuthReady, which the code leaves alone.
* `ReadyIsProvisioned`: Ready=True for the current generation means its bucket
  Job succeeded, LakeKeeper is bootstrapped, this spec's principals hold their
  grants and its warehouse exists.
* `QuiescentIsSettled`: no lost wake-up. When queue, timer and watches are empty
  the platform is settled: verdict, workloads, catalog and the wiring of Trino and
  OPA all agree with the spec. A spec the operator cannot resolve is never silent:
  its pass fails and is retried.
* `StartupOrder`, `EnforcementOrder`: what is deployed or configured refers to
  what has been up, or exists.
* `ReadyGenerationAdvances`: no stale pass overwrites a newer verdict.
* `EventuallySettled`, `OutageReported`, `GenerationObserved`: settling, reporting
  and judging.
* `OneStore`, `GrantsKept`, `ImplementsAccessStore`: the store users write tuples to
  stays the store that is asked, through renames and back, failures and lost
  answers, as long as no request outlives its time-out; and any second store of one
  name is owed to such a request.
* `OnlyEntitledIsShown`: through revocations, outages, edits and two rollouts, no
  pair of pods shows a user a row or column that a policy in force withholds, for
  longer than an answer is kept. `FailsClosed`: after an outage of that length
  nothing is shown. Both with one exception, `Excused`: a coordinator that a pass
  configured while it found OpenFGA's Postgres not ready (`openfga.go:91-94`,
  `trino.go:53-57`) shows everything, and the README's "fail closed" is not true of
  it (the run `failclosed`, below); the coordinators beside it still show no more
  than they may. `GrantsTakeEffect`: whoever holds the grants does see the rows,
  so nothing is kept secret by being broken.
* `SecretsKept`, `TokensSurvive`, `CredentialsAgree`: no credential is generated
  twice because the cache lags; a restart of Keycloak invalidates no token; and
  the programs end up with credentials that agree, also after an upgrade that adds
  OPA's client.
* `StorageReachable`, `OneSpec`, `EventuallyUsable`: what LakeKeeper stores of a
  warehouse is right when it is stored, of one spec, and Trino ends up with a
  warehouse it can read and write.
* `UpToDate`, `ModelsChange`: a pass that ends leaves the wanted model in place,
  and no pass piles up copies of it.

### Fairness

`OperatorFairness` is what controller-runtime promises: a queued platform is
taken, a pass goes on, watches deliver, timers fire (weak fairness of each).
`ClusterFairness` is what Kubernetes promises when nothing is permanently broken:
deployed pods become ready, the bucket Job ends, deleted Jobs go.
`EventuallySettled` assumes both; `OutageReported` and `GenerationObserved` only
the first, for pods may stay down. Edits, errors, crashes and losses are never
fair, and bounded; the liveness properties say what follows when they stop.

`Fairness` of `Credentials` and `Lakehouse` is weak fairness of the pass as a whole
(exactly one step of it is enabled at a time), of the watches, of a pod that has
what it needs to start (that is in its guard, not assumed), and of the Job's end
and removal.

### Where the code departs from its documentation

Four runs are expected to fail; each checks a sentence of the documentation.

* `failclosed` (`README.md` 178-180, "Both features fail closed ... and everyone
  does if OpenFGA becomes unreachable"): when OpenFGA's Postgres is not seen
  ready, `reconcileOpenFGA` returns a configuration without the OPA URL, and the
  same pass drops the access control from Trino's configuration. Trino then
  serves without filters, masks or permission checks until OpenFGA's Postgres is
  back and another pass has run.
* `opaready` (`dataplatform_types.go` 697, "every enabled component is fully
  functional"): OPA's readiness is discarded.
* `policies` (`dataplatform_types.go` 250, "Requires Trino and authz to be
  enabled"): they also require auth; without it they are silently not applied.
* `latestore` (`authzstore.go` 76, "creates the named OpenFGA store if it is
  missing"; `README.md` 158-159, "Write those tuples against the store id in
  `status.rowFilterStoreID`"): a create that timed out takes effect between the
  retry's find and its create. The retry hands on its own store, tuples are written
  to it, and the next pass finds the older one: the id changes and the grants
  no longer apply.

Not runs, because a property states the limit instead:

* `dataplatform_types.go` 451, "The bucket is created in MinIO if it does not
  exist": a bucket renamed after the Job succeeded is never made, for the Job's
  name does not depend on it (`minio.go` 320), and Ready stays True. An existing
  warehouse is not updated either (`catalog.go` 206). `EventuallyUsable` holds as
  long as the bucket keeps its name.
* After a user deletes a generated Secret: OPA's pods keep the old client secret,
  and OpenFGA's the old API key, until something restarts them (with the second,
  LakeKeeper's new pod cannot start and passes fail); a database keeps its first
  password; MinIO keeps its key until its next start while Trino has the new one at
  once and the warehouse never; without the old encryption key warehouses cannot be
  read. `CredentialsAgree`, `StorageReachable` and `EventuallyUsable` name the
  Secrets they except.
* With Keycloak and OpenFGA in one namespace, `applyOPASecret` writes Keycloak's own
  Secret (`opa.go` 55).
* With LakeKeeper disabled and auth left enabled (the default)
  `reconcileLakekeeperStack` returns before it sets AuthReady, and Ready becomes
  True (`ReadyIsComplete` leaves that case out).

## The proofs

### The reconcile loop

`DataPlatformController_proof` proves, for every set of specs, every set of
warehouse names and all bounds (assumptions `SpecsAssumption`: the specs are
specs, and there is one; `BoundsAssumption`: the bounds are natural numbers and
at least one generation is written):

| Theorem | States |
| --- | --- |
| `TypeCorrect` | `Spec => []TypeOK` |
| `Invariance` | `Spec => []Inv` |
| `ReadyComplete`, `ReadyProvisioned` | `ReadyIsComplete`, `ReadyIsProvisioned` |
| `StartsInOrder`, `EnforcesInOrder` | `StartupOrder`, `EnforcementOrder` |
| `GenerationAdvances` | the action property `ReadyGenerationAdvances` |
| `QuiescenceInvariance` (here and below in `Quiescence_proof`) | `[]QuiescenceInv` |
| `NoWakeUpIsLost` | `QuiescentIsSettled` |
| `UnresolvableIsRetried` | `[](Quiescent => Resolvable(dp.spec))` |

None of the properties is inductive alone. `Inv` adds:

* `Generations`: Ready's generation <= the pass's <= the cache's <= the API
  server's, and equal generations mean equal specs. This is what makes the write of
  an old pass over a newer platform harmless: the verdict names the old generation.
* `PassFacts`: what a step may assume of the steps before it. Each boolean handed
  on is backed by its condition being True at the pass's generation; a pass that
  is not progressing after the LakeKeeper stack has all its conditions and the
  catalog; a pass about to write Ready=True has everything.
* `History`: what the cache has seen was true once, a succeeded Job stays
  succeeded, and results handed on refer to things that were up or exist. It
  carries the two order properties from one step to the next.

`StableLemma` says what never goes away (history, catalog, access store, a
succeeded Job); `ReconcileStepLemma` that reconcilers change neither spec nor
generation of their copy. The preservation of each part is a lemma with one step
per action, and `InvStep` puts them together. TLC checks `Inv` in run `modes`.

`NoWakeUpIsLost` holds for any number of edits, failed calls, lost pods and crashes
and for every spec, resolvable or not. Nothing in `Inv` gives it: that OPA's and
Trino's templates agree with the spec is the work of the last pass, and that this
pass was not over too early is due to the queue. `QuiescenceInv` adds to `Inv`:

* `HandedOn`: a pass that misses nothing hands on the OIDC and OpenFGA configuration
  its spec asks for (`FGAConfig`), has wired OPA, then Trino, accordingly, and is
  about to write Ready=True for its generation. OpenFGA's early returns hand on
  less, but then the pass is progressing.
* `NothingNew`: unless the platform is queued again, the pass works on the very
  platform the cache holds, and every workload it found ready is still seen ready
  (`FoundReady`): whatever reaches the cache, queues the platform.
* `Feasible`: a pass that has come past a step has met nothing there that it cannot
  resolve.
* `AtRest`: between passes, with nothing queued, no timer and a current cache, the
  spec is resolvable, the status says Ready for the generation, the cache sees the
  required workloads ready and the templates are wired.

The step that establishes `AtRest` is `PatchStatus`: it leaves no timer only if the
pass neither failed nor was progressing, and then the other parts say what it has
found. An edit leaves the cache behind; every other event queues the
platform or leaves alone what `AtRest` is about. Each reconciler has a lemma that
says what it hands on (`PostgresStep` to `TrinoStep`), and the parts follow from these.

### The access store

`AuthzStore_proof`, for all names, models, page sizes and bounds (`NamesAssumption`,
`ModelsAssumption`, `BoundsAssumption`):

| Theorem | States | Condition |
| --- | --- | --- |
| `TypeCorrect` | `TypeOK` | |
| `OneStorePerName` | `OneStore` | |
| `ModelsOnlyChange`, `RestsUpToDate`, `GrantsStayInForce` | `ModelsChange`, `UpToDate`, `GrantsKept` | `MaxLate = 0` |
| `Refinement` | `Spec => ImplementsAccessStore` | `MaxLate = 0` |

`MaxLate = 0`, no request outlives its time-out, is the condition of the run
`authzstore` too; `latestore` shows that `GrantsKept` needs it.

* `Accounted`: for every name, live stores and creates still on their way are
  together at most one more than the requests given up, and when the operator is
  about to create one, at most as many: each page it read held no live store of the
  name, and a store opened since stands behind the token, on a page still to come.
* `Pass`: what the operator knows on its way. Once it has a store, that is the only
  live one of the name it asked for; at the write it lacks the wanted model, at the
  end it has it.
* The refinement needs that a name has at most one live store (`Unique`, from the
  accounts), so that what the abstract store holds under a name is that store.
  `OpenMaps`, `RemodelMaps`, `LoseMaps`, `PublishMaps` map the steps that are not
  stutters.

### Access policies

`AccessPolicy_proof`, for all users, tuples, rows, sets of policies, cache times and
bounds:

| Theorem | States |
| --- | --- |
| `TypeCorrect` | `TypeOK` |
| `Invariance` | `[]Inv` |
| `OnlyTheEntitled` | `OnlyEntitledIsShown` |
| `ClosedWithoutOpenFGA` | `FailsClosed` |
| `EffectiveGrants` | `GrantsTakeEffect` |

They assume `PoliciesAssumption` (finitely many policies, each a row filter or a
column restriction), `BoundsAssumption`, and `DataAssumption`: tuples name users,
the column of a filter is a column of its table, and the column of a numeric filter
holds numbers, as its documentation demands. `EffectiveGrants` alone needs the
last: a numeric filter on a column of text would hide rows that were granted.

`Inv` has, besides the types, the policies a pass works with (they were a spec) and:

* `EnforcedInForce`: a policy in force is in the environment of every OPA pod and
  of its template, in every access control of Trino that names OPA, and in the pass
  under way, so neither a pod that starts nor the rest of the pass takes it away.
* `OPAIsKnown`: until a pass finds OpenFGA's Postgres not ready, every access control
  of Trino names OPA. So a coordinator that is not `Excused` names it, always.
* `CacheSound`: each id in a cached answer was granted when the answer was as old as
  it is: the grant is still there, or was deleted no longer ago than that.
* `CacheOld`: an answer kept while OpenFGA is down is at least as old as the outage.
* `CacheComplete`: an answer younger than the last change of OpenFGA and its model
  includes every grant that is older than the answer.

The first three give `OnlyEntitledIsShown`: a coordinator that is not excused asks
for every policy in force, and what it is told was granted at most `CacheSeconds`
ago. `CacheOld`, with the first two, gives `FailsClosed`: it empties the caches
within that time of an outage; `CacheComplete` makes the answers left then, and the
new ones, include every grant held as long.

### The lakehouse

`Lakehouse_proof`, for all specs and bounds (`LakehouseAssumption`): `TypeCorrect`,
`StorageIsReachable` (`StorageReachable`), `WarehouseOfOneSpec` (`OneSpec`). Its
invariant `Inv` adds to them:

* `Generations`: a Secret is generated once, and once more after it was deleted.
* `Keys`: until its Secret is deleted, one key is all that anybody knows of it: the
  cache, LakeKeeper's pod and the pass; and no warehouse is made without keys.
* `Jobs`, `PassFacts`: a Job is for a bucket some spec named, and has made it if it
  succeeded; the pass works on a spec the user wrote, and is told that the store is
  ready only with a key and such a bucket.

`Writes` says, variable by variable, who writes what; each part of the invariant
is then proved from `Writes` and not from every action again.

### Credentials

`Credentials_proof`, for all bounds (`CredentialsBoundsAssumption`):
`TokensStayValid` (`TokensSurvive`), the action property `CredentialsAreKept`
(`SecretsKept`) and `TypeCorrect` (`TypeOK`). The invariant of the first two is `Shape` (which variables are functions, on what),
`RealmFirst` (Keycloak is deployed after its realm is written) and `OneKey` (until
the realm key's Secret is deleted, that Secret, its copy in the cache, the realm and
the tokens have one key).

`TypeOK` bounds the credentials that are ever generated, so it needs to know why
there are no more of them: `Counted`, a Secret is generated at most once more than
it was deleted, and once more again when an upgrade adds a client. `Typed` carries
that bound to every place a credential is copied to: Secrets and the cache, the
realm, the database, templates, pods and the pass.

### Only model-checked

The properties under fairness, which are outside the prover's reach:
`EventuallySettled`, `OutageReported`, `GenerationObserved`, `CredentialsAgree` and
`EventuallyUsable`. Every invariant, action property and refinement that a passing
run checks is stated by a theorem; the four runs that expect a violation show what
is not true, and so not proved.

## Not modelled

* LakeKeeper's policies for OPA are vendored and not to be edited here: rules
  without state over LakeKeeper's answers.
* The text the operator produces (manifests, the realm's users, SQL in filters,
  properties files) beyond the values the properties follow; reasons, messages and
  endpoints in the status.
* Secrets a user brings: nothing in this repository is at their other end.
* Trino's workers and their shared secret, made and used within one object.
* A disabled component is not removed; no document promises that it is.
* The Helm chart, CRDs, generated deep copies, tests.

## Plan

1. What Ready=True says during a rollout (`ReadyReplicas >= 1` counts old pods).
2. A second version of OPA's policies: their ConfigMap is not part of the pod's
   hash (`opa.go` 69), which matters on an upgrade of the operator.
3. `Ownership`: two platforms with the same namespaces, and deletion.
4. A proof that `AuthzStore` and the core agree on the access store: `accessStore`
   as an abstraction of the stores behind it.
