------------------------------ MODULE Lakehouse ------------------------------
(***************************************************************************)
(* Where the tables live: the embedded MinIO with its bucket Job, the      *)
(* warehouse that LakeKeeper is told of, and Trino's catalog.              *)
(*                                                                         *)
(* Three programs keep the settings of the object store, each in its own   *)
(* way.  MinIO reads its key when its pod starts; the bucket is made by a  *)
(* Job that runs once; LakeKeeper stores bucket and key, encrypted, when   *)
(* the warehouse is created and never again; Trino's catalog is written by *)
(* every pass.  The module follows the bucket's name, the keys and the     *)
(* warehouse's name through them while the user edits the spec and deletes *)
(* Secrets, pods are lost, requests fail and the operator stops.           *)
(*                                                                         *)
(* LakeKeeper's bootstrap and grants are in DataPlatformController.  A key *)
(* is the number of its generation.                                        *)
(***************************************************************************)
EXTENDS Naturals, FiniteSets, Functions

CONSTANTS
    Specs,     \* what the user writes: the bucket, and the warehouse's name
    Installed, \* ... and which of them the platform is installed with
    MaxEdits,  \* bound: edits of the spec
    MaxLosses, \* bound: Secrets deleted by a user
    MaxFaults  \* bound: pods lost, requests failed, stops of the operator

ASSUME LakehouseAssumption ==
    /\ Installed # {} /\ Installed \subseteq Specs
    /\ \A s \in Specs : s = [bucket |-> s.bucket, warehouse |-> s.warehouse]
    /\ MaxEdits \in Nat /\ MaxLosses \in Nat /\ MaxFaults \in Nat

VARIABLES
    spec,       \* the platform's spec
    api,        \* Secrets and Job in the API server
    seen,       \* ... and in the operator's cache
    mcHost,     \* the key in the Secret the bucket Job uses
    generated,  \* for each Secret, the last key generated for it
    deployed,   \* MinIO and LakeKeeper, once they are applied
    catalog,    \* Trino's lakekeeper.properties
    pods,       \* what the running pods were started with
    buckets,    \* the buckets on MinIO's volume
    warehouses, \* LakeKeeper's warehouses, by name
    written,    \* the specs the user has written (history)
    lost,       \* the Secrets a user has deleted (history)
    faults,     \* faults so far
    queued,     \* the platform is on the work queue
    pc,         \* the next step of the pass
    pass        \* what the pass has read and found

storeVars == <<api, seen, generated>>
userVars == <<spec, written, lost>>
workloadVars == <<mcHost, deployed, catalog>>
serviceVars == <<pods, buckets, warehouses>>
operatorVars == <<queued, pc, pass>>
vars == <<storeVars, workloadVars, serviceVars, userVars, faults, operatorVars>>
-----------------------------------------------------------------------------
(* Objects *)

Secrets == {"minio", "encryption"}
Steps == {"minio", "bucket", "encryption", "lakekeeper", "list", "create", "trino"}
Buckets == {s.bucket : s \in Specs}
Names == {s.warehouse : s \in Specs}

None == 0
Key == 0..MaxLosses + 1

\* The bucket Job: without a writable config directory if an operator before
\* mcHomePath made it.
JobStates == {"absent", "running", "failed", "succeeded", "deleting"}
Job == [state : JobStates, bucket : Buckets, writable : BOOLEAN]
AnyBucket == CHOOSE b \in Buckets : TRUE
NoJob == [state |-> "absent", bucket |-> AnyBucket, writable |-> TRUE]
NewJob(bucket) == [state |-> "running", bucket |-> bucket, writable |-> TRUE]

Objects == [minio : Key, encryption : Key, job : Job]

\* What LakeKeeper keeps of a warehouse; cipher is the key it is encrypted with.
Warehouse == [bucket : Buckets, key : Key, cipher : Key]

\* What Trino's catalog says.
Properties == [warehouse : Names, key : Key]
AnyName == CHOOSE n \in Names : TRUE
NoProperties == [warehouse |-> AnyName, key |-> None]

Down(p) == IF p = "trino" THEN NoProperties ELSE None
Up(p) == pods[p] # Down(p)

AnySpec == CHOOSE s \in Specs : TRUE
NoPass == [spec |-> AnySpec, key |-> None, storeReady |-> FALSE, warehouseReady |-> FALSE]

TypeOK ==
    /\ spec \in Specs /\ api \in Objects /\ seen \in Objects
    /\ mcHost \in Key
    /\ generated \in [Secrets -> Key]
    /\ deployed \subseteq {"minio", "lakekeeper"}
    /\ catalog \in Properties
    /\ pods \in [minio : Key, lakekeeper : Key, trino : Properties]
    /\ buckets \subseteq Buckets
    /\ DOMAIN warehouses \subseteq Names /\ Range(warehouses) \subseteq Warehouse
    /\ written \subseteq Specs /\ lost \subseteq Secrets /\ faults \in 0..MaxFaults
    /\ queued \in BOOLEAN
    /\ pc \in {"idle"} \cup Steps
    /\ pass \in [spec : Specs, key : Key, storeReady : BOOLEAN, warehouseReady : BOOLEAN]

\* A fresh installation, or MinIO with the Job of an earlier operator, which
\* keeps failing.
Init ==
    /\ spec \in Installed /\ written = {spec}
    /\ \/ /\ api = [minio |-> None, encryption |-> None, job |-> NoJob]
          /\ deployed = {} /\ mcHost = None
          /\ pods = [minio |-> None, lakekeeper |-> None, trino |-> NoProperties]
       \/ /\ api = [ minio |-> 1, encryption |-> None,
                     job |-> [NewJob(spec.bucket) EXCEPT !.writable = FALSE] ]
          /\ deployed = {"minio"} /\ mcHost = 1
          /\ pods = [minio |-> 1, lakekeeper |-> None, trino |-> NoProperties]
    /\ seen = api
    /\ generated = [s \in Secrets |-> api[s]]
    /\ catalog = NoProperties
    /\ buckets = {} /\ warehouses = [n \in {} |-> None]
    /\ lost = {} /\ faults = 0
    /\ queued = TRUE /\ pc = "idle" /\ pass = NoPass
-----------------------------------------------------------------------------
(* The pass *)

Begin ==
    /\ pc = "idle" /\ queued
    /\ queued' = FALSE /\ pc' = "minio"
    /\ pass' = [NoPass EXCEPT !.spec = spec]
    /\ UNCHANGED <<storeVars, workloadVars, serviceVars, userVars, faults>>

At(step) == pc = step /\ UNCHANGED <<seen, pods, buckets, userVars, faults>>

Goto(step) == pc' = step /\ UNCHANGED queued

\* An error, returned from Reconcile, queues the platform again.
Fail == pc' = "idle" /\ queued' = TRUE /\ pass' = NoPass

\* Mutant of CreateSecret: a Secret the cache does not have is written.
CreateSecretOrUpdate(s) ==
    /\ generated' = [generated EXCEPT ![s] = @ + 1]
    /\ api' = [api EXCEPT ![s] = generated[s] + 1]

\* Create: refused when the Secret exists, whatever the cache says.
CreateSecret(s) ==
    /\ api[s] = None
    /\ generated' = [generated EXCEPT ![s] = @ + 1]
    /\ api' = [api EXCEPT ![s] = generated[s] + 1]

\* ensureMinioSecret and ensureEncryptionSecret, then the workload that names
\* the Secret.
EnsureSecret(step, s, workload, next) ==
    /\ At(step)
    /\ UNCHANGED <<mcHost, catalog, warehouses>>
    /\ \/ /\ \/ seen[s] # None /\ UNCHANGED <<api, generated>>
             \/ seen[s] = None /\ CreateSecret(s)
          /\ deployed' = deployed \cup {workload}
          /\ Goto(next) /\ UNCHANGED pass
       \/ /\ seen[s] = None /\ api[s] # None
          /\ Fail /\ UNCHANGED <<api, generated, deployed>>

EnsureMinio == EnsureSecret("minio", "minio", "minio", "bucket")
EnsureLakekeeper == EnsureSecret("encryption", "encryption", "lakekeeper", "lakekeeper")

\* The store goes to the later steps; ready only if the bucket is.
StoreIs(bucketReady) ==
    /\ pass' = [pass EXCEPT !.key = seen.minio, !.storeReady = bucketReady]
    /\ Goto("encryption")

SetJob(j) == api' = [api EXCEPT !.job = j]

\* No Job in the cache: one is made for the bucket of the spec.
CreateJob ==
    /\ seen.job.state = "absent"
    /\ IF api.job.state = "absent"
       THEN SetJob(NewJob(pass.spec.bucket)) /\ StoreIs(FALSE)
       ELSE Fail /\ UNCHANGED api

\* A Job that failed, or cannot succeed, makes room for another.
ReplaceJob ==
    /\ seen.job.state = "failed" \/ (seen.job.state = "running" /\ ~seen.job.writable)
    /\ IF api.job.state # "absent"
       THEN SetJob([api.job EXCEPT !.state = "deleting"]) /\ StoreIs(FALSE)
       ELSE Fail /\ UNCHANGED api

AwaitJob ==
    /\ seen.job.state = "deleting" \/ (seen.job.state = "running" /\ seen.job.writable)
    /\ StoreIs(FALSE) /\ UNCHANGED api

\* A Job that succeeded is enough, whatever bucket it made.
JobDone == seen.job.state = "succeeded" /\ StoreIs(TRUE) /\ UNCHANGED api

\* Mutant of EnsureMinioBucket: a failed Job is waited for.
EnsureMinioBucketKeepsFailed ==
    \/ CreateJob \/ AwaitJob \/ JobDone
    \/ /\ seen.job.state = "failed"
       /\ StoreIs(FALSE) /\ UNCHANGED api

EnsureMinioBucket == CreateJob \/ ReplaceJob \/ AwaitJob \/ JobDone

\* The rest of reconcileMinio: the keys are read back, and once MinIO is up the
\* Job gets them and is seen to.
ReconcileMinio ==
    /\ At("bucket")
    /\ UNCHANGED <<generated, deployed, catalog, warehouses>>
    /\ \/ seen.minio = None /\ Fail /\ UNCHANGED <<api, mcHost>>
       \/ seen.minio # None /\ ~Up("minio") /\ StoreIs(FALSE) /\ UNCHANGED <<api, mcHost>>
       \/ seen.minio # None /\ Up("minio") /\ mcHost' = seen.minio /\ EnsureMinioBucket

\* Mutant of StoreReady: the warehouse does not wait for the bucket.
StoreReadyEarly == pass.key # None

StoreReady == pass.storeReady

\* The warehouse is seen to once the store and LakeKeeper are ready.
ReconcileLakekeeper ==
    /\ At("lakekeeper")
    /\ UNCHANGED <<api, generated, workloadVars, warehouses, pass>>
    /\ Goto(IF StoreReady /\ Up("lakekeeper") THEN "list" ELSE "trino")

Name == pass.spec.warehouse
Listed == Name \in DOMAIN warehouses

WarehouseDone == pass' = [pass EXCEPT !.warehouseReady = TRUE] /\ Goto("trino")

\* EnsureWarehouse looks for the name, ...
ListWarehouses ==
    /\ At("list")
    /\ UNCHANGED <<api, generated, workloadVars, warehouses>>
    /\ \/ ~Up("lakekeeper") /\ Fail
       \/ Up("lakekeeper") /\ Listed /\ WarehouseDone
       \/ Up("lakekeeper") /\ ~Listed /\ Goto("create") /\ UNCHANGED pass

\* Mutant of WarehouseRequest: the platform is read again.
WarehouseRequestLatest == [bucket |-> spec.bucket, key |-> pass.key]

WarehouseRequest == [bucket |-> pass.spec.bucket, key |-> pass.key]

\* LakeKeeper makes a warehouse under a new name, and answers 409 for another.
Created ==
    IF Listed THEN warehouses
    ELSE LET w == [ bucket |-> WarehouseRequest.bucket, key |-> WarehouseRequest.key,
                    cipher |-> pods.lakekeeper ]
         IN [n \in DOMAIN warehouses \cup {Name} |-> IF n = Name THEN w ELSE warehouses[n]]

\* ... and creates the warehouse; both answers are success.
CreateWarehouse ==
    /\ At("create")
    /\ UNCHANGED <<api, generated, workloadVars>>
    /\ \/ ~Up("lakekeeper") /\ Fail /\ UNCHANGED warehouses
       \/ Up("lakekeeper") /\ warehouses' = Created /\ WarehouseDone

\* The catalog is written by every pass that comes so far, and its hash replaces
\* Trino's pods.  While something is not ready the pass is repeated.
ReconcileTrino ==
    /\ At("trino")
    /\ UNCHANGED <<api, generated, mcHost, deployed, warehouses>>
    /\ catalog' = [warehouse |-> pass.spec.warehouse, key |-> pass.key]
    /\ pc' = "idle" /\ pass' = NoPass
    /\ queued' = (queued \/ ~pass.warehouseReady \/ ~Up("trino"))

Pass ==
    \/ Begin \/ EnsureMinio \/ ReconcileMinio
    \/ EnsureLakekeeper \/ ReconcileLakekeeper
    \/ ListWarehouses \/ CreateWarehouse \/ ReconcileTrino
-----------------------------------------------------------------------------
(* What goes wrong in a pass *)

Spend == faults < MaxFaults /\ faults' = faults + 1

Unharmed == UNCHANGED <<seen, generated, workloadVars, pods, buckets, userVars>>

\* A request fails, or the answer to the create is lost.
RequestFails ==
    /\ Spend /\ pc # "idle" /\ Fail
    /\ UNCHANGED api /\ Unharmed
    /\ \/ UNCHANGED warehouses
       \/ pc = "create" /\ Up("lakekeeper") /\ warehouses' = Created

\* The list is refused or unreadable: the warehouse is asked for all the same.
ListRefused ==
    /\ Spend /\ pc = "list" /\ Up("lakekeeper")
    /\ Goto("create")
    /\ UNCHANGED <<api, warehouses, pass>> /\ Unharmed

\* The operator stops, and its successor starts with a pass and a synced cache.
Crash ==
    /\ Spend /\ Fail
    /\ seen' = api
    /\ UNCHANGED <<api, generated, workloadVars, serviceVars, userVars>>
-----------------------------------------------------------------------------
(* The cluster and its users *)

\* Secrets and Job are watched, each for itself.
Deliver(k) ==
    /\ seen[k] # api[k]
    /\ seen' = [seen EXCEPT ![k] = api[k]]
    /\ queued' = TRUE
    /\ UNCHANGED <<api, generated, workloadVars, serviceVars, userVars, faults, pc, pass>>

\* Every spec but the first is an edit.  A pass reads the spec when it begins,
\* and an edit that reaches the cache late is an edit made late.
EditSpec(s) ==
    /\ Cardinality(written) <= MaxEdits
    /\ s \notin written
    /\ spec' = s /\ written' = written \cup {s}
    /\ queued' = TRUE
    /\ UNCHANGED <<storeVars, workloadVars, serviceVars, lost, faults, pc, pass>>

DeleteSecret(s) ==
    /\ Cardinality(lost) < MaxLosses /\ s \notin lost
    /\ api[s] # None
    /\ api' = [api EXCEPT ![s] = None]
    /\ lost' = lost \cup {s}
    /\ UNCHANGED <<seen, generated, workloadVars, serviceVars, spec, written, faults, operatorVars>>

Pods(p, with) ==
    /\ pods' = [pods EXCEPT ![p] = with]
    /\ queued' = TRUE
    /\ UNCHANGED <<storeVars, workloadVars, buckets, warehouses, userVars, pc, pass>>

SecretOf(p) == IF p = "minio" THEN "minio" ELSE "encryption"

\* A pod waits for the Secret it names, and keeps what that said.
StartPod(p) ==
    /\ p \in deployed /\ ~Up(p)
    /\ api[SecretOf(p)] # None
    /\ Pods(p, api[SecretOf(p)]) /\ UNCHANGED faults

\* A new catalog is a rollout of Trino.
StartTrino ==
    /\ pods.trino # catalog
    /\ Pods("trino", catalog) /\ UNCHANGED faults

LosePod(p) == Spend /\ Up(p) /\ Pods(p, Down(p))

JobBecomes(state) ==
    /\ SetJob([api.job EXCEPT !.state = state])
    /\ UNCHANGED <<seen, generated, workloadVars, pods, warehouses, userVars, faults, operatorVars>>

\* The Job reads its key when it tries; mc needs its config directory.
MCSucceeds == api.job.writable /\ Up("minio") /\ mcHost = pods.minio

JobSucceeds ==
    /\ api.job.state = "running" /\ MCSucceeds
    /\ JobBecomes("succeeded")
    /\ buckets' = buckets \cup {api.job.bucket}

JobFails ==
    /\ api.job.state = "running" /\ ~MCSucceeds
    /\ JobBecomes("failed") /\ UNCHANGED buckets

JobRemoved ==
    /\ api.job.state = "deleting"
    /\ SetJob(NoJob)
    /\ UNCHANGED <<seen, generated, workloadVars, serviceVars, userVars, faults, operatorVars>>

Next ==
    \/ Pass \/ RequestFails \/ ListRefused \/ Crash
    \/ \E k \in {"minio", "encryption", "job"} : Deliver(k)
    \/ \E s \in Specs : EditSpec(s)
    \/ \E s \in Secrets : DeleteSecret(s)
    \/ \E p \in {"minio", "lakekeeper"} : StartPod(p)
    \/ \E p \in {"minio", "lakekeeper", "trino"} : LosePod(p)
    \/ StartTrino \/ JobSucceeds \/ JobFails \/ JobRemoved

\* The operator works, watches deliver, pods that can start do, Jobs end.
Fairness ==
    /\ WF_vars(Pass)
    /\ \A k \in {"minio", "encryption", "job"} : WF_vars(Deliver(k))
    /\ \A p \in {"minio", "lakekeeper"} : WF_vars(StartPod(p))
    /\ WF_vars(StartTrino)
    /\ WF_vars(JobSucceeds) /\ WF_vars(JobFails) /\ WF_vars(JobRemoved)

Spec == Init /\ [][Next]_vars /\ Fairness
-----------------------------------------------------------------------------
(* Properties *)

\* The user has never renamed the bucket.
OneBucket == \A s, t \in written : s.bucket = t.bucket

(* A warehouse is made once and never changed (EnsureWarehouse), so what it is   *)
(* made with has to be right: the key MinIO has, or will have after its next     *)
(* start, encrypted with the key LakeKeeper has or will have, in a bucket that   *)
(* is there.  It is, through failures, restarts and a cache that lags, until a   *)
(* user deletes the Secret, or renames the bucket.                               *)
StorageReachable ==
    \A n \in DOMAIN warehouses :
        /\ "minio" \notin lost => warehouses[n].key = api.minio
        /\ "encryption" \notin lost => warehouses[n].cipher = api.encryption
        /\ OneBucket => warehouses[n].bucket \in buckets

(* reconcileObjectStore takes the bucket at the start of a pass and              *)
(* reconcileWarehouse the name near its end.  Whatever the user edits meanwhile, *)
(* every warehouse has the name and the bucket of one and the same spec.         *)
OneSpec ==
    \A n \in DOMAIN warehouses :
        [bucket |-> warehouses[n].bucket, warehouse |-> n] \in written

\* Trino, LakeKeeper and MinIO agree on the warehouse the user wants.
Usable ==
    /\ pods.trino.warehouse = spec.warehouse
    /\ spec.warehouse \in DOMAIN warehouses
    /\ LET w == warehouses[spec.warehouse] IN
       /\ w.bucket = spec.bucket /\ w.bucket \in buckets
       /\ w.key = pods.minio /\ pods.trino.key = pods.minio
       /\ w.cipher = pods.lakekeeper

(* From an installation, or from the Job of an operator before mcHomePath        *)
(* (mcJobWritableConfig), Trino's queries end up with a warehouse they can read  *)
(* and write: in the right bucket, with keys all three programs accept.  Without *)
(* the two limits that is not so: a user who renames the bucket gets the old one *)
(* or none, and a user who deletes a Secret keeps warehouses with the old key.   *)
EventuallyUsable == <>[](OneBucket /\ lost = {} => Usable)
=============================================================================
