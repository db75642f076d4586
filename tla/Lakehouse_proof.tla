--------------------------- MODULE Lakehouse_proof ---------------------------
(***************************************************************************)
(* Proofs about Lakehouse: the type invariant, StorageReachable and        *)
(* OneSpec, for every set of specs and all bounds.                         *)
(***************************************************************************)
EXTENDS Lakehouse, FiniteSetTheorems, TLAPS

\* How often each Secret has been generated: once, and once more after a user
\* deleted it.
Generations ==
    \A s \in Secrets :
        IF s \in lost
        THEN /\ MaxLosses >= 1
             /\ \/ api[s] = None /\ generated[s] = 1
                \/ api[s] = 2 /\ generated[s] = 2
        ELSE api[s] = generated[s] /\ api[s] \in 0..1

\* Until a Secret is deleted there is one key, wherever one is known.
Keys ==
    /\ \A s \in Secrets : s \notin lost => seen[s] \in {None, api[s]}
    /\ "minio" \notin lost => pass.key \in {None, api.minio}
    /\ "encryption" \notin lost => pods.lakekeeper \in {None, api.encryption}
    /\ \A n \in DOMAIN warehouses : warehouses[n].key # None /\ warehouses[n].cipher # None

WrittenBucket(b) == \E s \in written : s.bucket = b

\* A Job is for the bucket of a spec, and one that succeeded has made it.
JobIsHonest(job) ==
    /\ job.state # "absent" => WrittenBucket(job.bucket)
    /\ job.state = "succeeded" => job.bucket \in buckets

\* What the pass has read and found.
PassFacts ==
    /\ spec \in written
    /\ pc # "idle" => pass.spec \in written
    /\ pass.storeReady => pass.key # None /\ \E b \in buckets : WrittenBucket(b)
    /\ pc \in {"list", "create"} => pass.storeReady

Jobs == JobIsHonest(api.job) /\ JobIsHonest(seen.job)

Inv ==
    /\ TypeOK
    /\ Generations
    /\ Keys
    /\ Jobs
    /\ PassFacts
    /\ StorageReachable
    /\ OneSpec
-----------------------------------------------------------------------------
(* Data *)

(* There is a bucket and a name, because there is a spec.                     *)
LEMMA AnyLemma == AnySpec \in Specs /\ AnyBucket \in Buckets /\ AnyName \in Names
  <1>1. PICK s \in Specs : TRUE
    BY LakehouseAssumption
  <1>2. s.bucket \in Buckets /\ s.warehouse \in Names
    BY <1>1 DEF Buckets, Names
  <1> QED
    BY <1>1, <1>2 DEF AnySpec, AnyBucket, AnyName

(* The Jobs the actions make are Jobs.                                        *)
LEMMA JobLemma ==
    /\ NoJob \in Job
    /\ \A b \in Buckets : NewJob(b) \in Job
    /\ \A j \in Job, st \in JobStates : [j EXCEPT !.state = st] \in Job
    /\ \A j \in Job : [j EXCEPT !.writable = FALSE] \in Job
  BY AnyLemma DEF Job, NoJob, NewJob, JobStates

(* What is written to the API server leaves objects there.                    *)
LEMMA ObjectsLemma ==
    ASSUME NEW o \in Objects
    PROVE  /\ \A s \in Secrets, k \in Key : /\ [o EXCEPT ![s] = k] \in Objects
                                          /\ [o EXCEPT ![s] = k][s] = k
           /\ \A j \in Job : /\ [o EXCEPT !.job = j] \in Objects
                            /\ [o EXCEPT !.job = j].job = j
           /\ \A s \in Secrets : o[s] \in Key
           /\ o.job \in Job
  BY DEF Objects, Secrets

(* A pass is about a spec, and a new one has found nothing.                   *)
PassType == [spec : Specs, key : Key, storeReady : BOOLEAN, warehouseReady : BOOLEAN]

LEMMA NoPassLemma == NoPass \in PassType
  BY AnyLemma, LakehouseAssumption DEF NoPass, PassType, Key, None

(* A Secret that is missing has been generated less often than keys are       *)
(* numbered, so that a further one still is a key.                            *)
LEMMA NextKeyLemma ==
    ASSUME Generations, NEW s \in Secrets, api[s] = None
    PROVE  generated[s] + 1 \in Key
  BY LakehouseAssumption DEF Generations, Key, None
-----------------------------------------------------------------------------
(* Types *)

LEMMA TypeInit == Init => TypeOK
  <1> SUFFICES ASSUME Init PROVE TypeOK
    OBVIOUS
  <1>1. 0 \in Key /\ 1 \in Key
    BY LakehouseAssumption DEF Key
  <1>2. spec \in Specs /\ spec.bucket \in Buckets
    BY LakehouseAssumption DEF Init, Buckets
  <1>3. api \in Objects
    <2> DEFINE old == [NewJob(spec.bucket) EXCEPT !.writable = FALSE]
    <2>1. old \in Job /\ NoJob \in Job
      BY <1>2, JobLemma
    <2>2. \/ api = [minio |-> 0, encryption |-> 0, job |-> NoJob]
          \/ api = [minio |-> 1, encryption |-> 0, job |-> old]
      BY DEF Init, None
    <2> HIDE DEF old
    <2> QED
      BY <1>1, <2>1, <2>2 DEF Objects
  <1>4. generated \in [Secrets -> Key]
    BY <1>3, ObjectsLemma DEF Init
  <1>5. pods \in [minio : Key, lakekeeper : Key, trino : Properties] /\ catalog \in Properties
    BY <1>1, AnyLemma DEF Init, Properties, NoProperties, None
  <1>6. deployed \subseteq {"minio", "lakekeeper"} /\ mcHost \in Key
    BY <1>1 DEF Init, None
  <1>7. DOMAIN warehouses \subseteq Names /\ Range(warehouses) \subseteq Warehouse
    BY DEF Init, Range
  <1>8. faults \in 0..MaxFaults
    BY LakehouseAssumption DEF Init
  <1>9. pass \in PassType
    BY NoPassLemma DEF Init
  <1> QED
    BY <1>2, <1>3, <1>4, <1>5, <1>6, <1>7, <1>8, <1>9 DEF Init, TypeOK, PassType

(* Ending a pass leaves a new one.                                            *)
LEMMA FailLemma ==
    ASSUME Fail
    PROVE  /\ pc' = "idle" /\ queued' = TRUE
           /\ pass' = NoPass /\ pass' \in PassType
           /\ pass'.key = None /\ pass'.storeReady = FALSE
  BY NoPassLemma DEF Fail, NoPass

(* Handing on the store.                                                      *)
LEMMA StoreLemma ==
    ASSUME TypeOK, NEW b \in BOOLEAN, StoreIs(b)
    PROVE  /\ pc' = "encryption" /\ queued' = queued
           /\ pass' \in PassType
           /\ pass'.key = seen.minio /\ pass'.storeReady = b /\ pass'.spec = pass.spec
  <1>1. pass \in PassType /\ seen.minio \in Key
    BY DEF TypeOK, PassType, Objects
  <1> QED
    BY <1>1 DEF StoreIs, Goto, PassType

(* LakeKeeper keeps what it had, and at most one warehouse more, made of what *)
(* the pass sends it.                                                         *)
LEMMA CreatedLemma ==
    ASSUME NEW n \in DOMAIN Created
    PROVE  \/ n \in DOMAIN warehouses /\ Created[n] = warehouses[n]
           \/ /\ n = pass.spec.warehouse
              /\ Created[n] = [ bucket |-> pass.spec.bucket, key |-> pass.key,
                                cipher |-> pods.lakekeeper ]
  BY DEF Created, Listed, Name, WarehouseRequest

LEMMA CreatedType ==
    ASSUME TypeOK
    PROVE  DOMAIN Created \subseteq Names /\ Range(Created) \subseteq Warehouse
  <1>1. pass.spec.warehouse \in Names /\ pass.spec.bucket \in Buckets
    BY DEF TypeOK, Names, Buckets
  <1>2. pass.key \in Key /\ pods.lakekeeper \in Key
    BY DEF TypeOK
  <1>3. \A n \in DOMAIN warehouses : n \in Names /\ warehouses[n] \in Warehouse
    BY DEF TypeOK, Range
  <1>4. ASSUME NEW n \in DOMAIN Created PROVE n \in Names /\ Created[n] \in Warehouse
    BY <1>1, <1>2, <1>3, CreatedLemma DEF Warehouse
  <1> QED
    BY <1>4 DEF Range

LEMMA TypeStep == TypeOK /\ Generations /\ [Next]_vars => TypeOK'
  <1> SUFFICES ASSUME TypeOK, Generations, [Next]_vars PROVE TypeOK'
    OBVIOUS
  <1>p. pass \in PassType /\ seen \in Objects /\ api \in Objects
    BY DEF TypeOK, PassType
  <1>j. api.job \in Job /\ \A s \in Secrets : api[s] \in Key /\ seen[s] \in Key
    BY <1>p, ObjectsLemma
  <1>1. CASE Begin
    <2>1. pass' \in PassType
      BY <1>1, NoPassLemma DEF Begin, TypeOK, PassType
    <2> QED
      BY <1>1, <2>1 DEF Begin, Steps, storeVars, workloadVars, serviceVars, userVars,
         TypeOK, PassType
  <1>2. ASSUME NEW step, NEW s \in Secrets, NEW w \in {"minio", "lakekeeper"},
               NEW next \in Steps, EnsureSecret(step, s, w, next)
        PROVE  TypeOK'
    <2>1. api' \in Objects /\ generated' \in [Secrets -> Key]
      <3>1. CASE CreateSecret(s)
        <4>1. generated[s] + 1 \in Key
          BY <3>1, NextKeyLemma DEF CreateSecret
        <4> QED
          BY <3>1, <4>1, <1>p, ObjectsLemma DEF CreateSecret, TypeOK
      <3> QED
        BY <1>2, <3>1 DEF EnsureSecret, TypeOK
    <2>2. pass' \in PassType /\ queued' \in BOOLEAN /\ pc' \in {"idle"} \cup Steps
      BY <1>2, <1>p, FailLemma DEF EnsureSecret, Goto, TypeOK
    <2>3. deployed' \subseteq {"minio", "lakekeeper"}
      BY <1>2 DEF EnsureSecret, TypeOK
    <2> QED
      BY <1>2, <2>1, <2>2, <2>3 DEF EnsureSecret, At, userVars, TypeOK, PassType
  <1>3. CASE ReconcileMinio
    <2>1. api' \in Objects
      <3>1. pass.spec.bucket \in Buckets
        BY <1>p DEF PassType, Buckets
      <3>2. CASE EnsureMinioBucket
        <4>1. CASE CreateJob
          BY <1>p, <3>1, <4>1, JobLemma, ObjectsLemma DEF CreateJob, SetJob
        <4>2. CASE ReplaceJob
          <5>1. [api.job EXCEPT !.state = "deleting"] \in Job
            BY <1>j, JobLemma DEF JobStates
          <5>2. \A j \in Job : SetJob(j) => api' \in Objects
            BY <1>p, ObjectsLemma DEF SetJob
          <5> QED
            BY <1>p, <4>2, <5>1, <5>2 DEF ReplaceJob
        <4> QED
          BY <1>p, <3>2, <4>1, <4>2 DEF EnsureMinioBucket, AwaitJob, JobDone
      <3> QED
        BY <1>3, <1>p, <3>2 DEF ReconcileMinio
    <2>2. pass' \in PassType /\ queued' \in BOOLEAN /\ pc' \in {"idle"} \cup Steps
      <3>1. Fail \/ StoreIs(TRUE) \/ StoreIs(FALSE)
        BY <1>3 DEF ReconcileMinio, EnsureMinioBucket, CreateJob, ReplaceJob, AwaitJob, JobDone
      <3>2. CASE Fail
        BY <3>2, FailLemma
      <3>3. CASE StoreIs(TRUE)
        BY <3>3, StoreLemma DEF TypeOK, Steps
      <3>4. CASE StoreIs(FALSE)
        BY <3>4, StoreLemma DEF TypeOK, Steps
      <3> QED
        BY <3>1, <3>2, <3>3, <3>4
    <2>3. mcHost' \in Key
      BY <1>3, <1>j DEF ReconcileMinio, TypeOK, Secrets, Objects
    <2> QED
      BY <1>3, <2>1, <2>2, <2>3 DEF ReconcileMinio, At, userVars, TypeOK, PassType
  <1>4. CASE ReconcileLakekeeper
    <2>1. pc' \in Steps /\ UNCHANGED queued
      BY <1>4 DEF ReconcileLakekeeper, Goto, Steps
    <2> QED
      BY <1>4, <2>1 DEF ReconcileLakekeeper, At, workloadVars, userVars, TypeOK
  <1>5. CASE ListWarehouses
    <2>1. pass' \in PassType /\ queued' \in BOOLEAN /\ pc' \in {"idle"} \cup Steps
      BY <1>5, <1>p, FailLemma DEF ListWarehouses, WarehouseDone, Goto, Steps, TypeOK, PassType
    <2> QED
      BY <1>5, <2>1 DEF ListWarehouses, At, workloadVars, userVars, TypeOK, PassType
  <1>6. CASE CreateWarehouse
    <2>1. pass' \in PassType /\ queued' \in BOOLEAN /\ pc' \in {"idle"} \cup Steps
      BY <1>6, <1>p, FailLemma DEF CreateWarehouse, WarehouseDone, Goto, Steps, TypeOK, PassType
    <2>2. DOMAIN warehouses' \subseteq Names /\ Range(warehouses') \subseteq Warehouse
      BY <1>6, CreatedType DEF CreateWarehouse, TypeOK, Range
    <2> QED
      BY <1>6, <2>1, <2>2 DEF CreateWarehouse, At, workloadVars, userVars, TypeOK, PassType, Range
  <1>7. CASE ReconcileTrino
    <2>1. catalog' \in Properties
      BY <1>7, <1>p DEF ReconcileTrino, Properties, PassType, Names
    <2>2. pass' \in PassType
      BY <1>7, NoPassLemma DEF ReconcileTrino
    <2>3. queued' \in BOOLEAN
      BY <1>7 DEF ReconcileTrino, TypeOK
    <2> QED
      BY <1>7, <2>1, <2>2, <2>3 DEF ReconcileTrino, At, userVars, TypeOK, PassType
  <1>8. CASE RequestFails
    <2>1. DOMAIN warehouses' \subseteq Names /\ Range(warehouses') \subseteq Warehouse
      BY <1>8, CreatedType DEF RequestFails, TypeOK, Range
    <2>2. pass' \in PassType /\ queued' \in BOOLEAN /\ pc' = "idle"
      BY <1>8, FailLemma DEF RequestFails
    <2>3. faults' \in 0..MaxFaults
      BY <1>8, LakehouseAssumption DEF RequestFails, Spend, TypeOK
    <2> QED
      BY <1>8, <2>1, <2>2, <2>3 DEF RequestFails, Unharmed, workloadVars, userVars, TypeOK,
         PassType, Range
  <1>9. CASE ListRefused
    <2>1. faults' \in 0..MaxFaults
      BY <1>9, LakehouseAssumption DEF ListRefused, Spend, TypeOK
    <2> QED
      BY <1>9, <2>1 DEF ListRefused, Unharmed, Goto, Steps, workloadVars, userVars, TypeOK
  <1>10. CASE Crash
    <2>1. pass' \in PassType /\ queued' \in BOOLEAN /\ pc' = "idle"
      BY <1>10, FailLemma DEF Crash
    <2>2. faults' \in 0..MaxFaults
      BY <1>10, LakehouseAssumption DEF Crash, Spend, TypeOK
    <2> QED
      BY <1>10, <2>1, <2>2 DEF Crash, workloadVars, serviceVars, userVars, TypeOK, PassType, Range
  <1>11. ASSUME NEW k \in {"minio", "encryption", "job"}, Deliver(k) PROVE TypeOK'
    <2>1. seen' \in Objects
      <3>1. CASE k = "job"
        BY <1>11, <1>j, <1>p, <3>1 DEF Deliver, Objects
      <3>2. CASE k \in Secrets
        BY <1>11, <1>j, <1>p, <3>2, ObjectsLemma DEF Deliver
      <3> QED
        BY <3>1, <3>2 DEF Secrets
    <2> QED
      BY <1>11, <2>1 DEF Deliver, workloadVars, serviceVars, userVars, TypeOK, Range
  <1>12. ASSUME NEW s \in Specs, EditSpec(s) PROVE TypeOK'
    BY <1>12 DEF EditSpec, storeVars, workloadVars, serviceVars, TypeOK, Range
  <1>13. ASSUME NEW s \in Secrets, DeleteSecret(s) PROVE TypeOK'
    <2>1. api' \in Objects
      <3>1. None \in Key
        BY LakehouseAssumption DEF None, Key
      <3> QED
        BY <1>13, <1>p, <3>1, ObjectsLemma DEF DeleteSecret
    <2> QED
      BY <1>13, <2>1 DEF DeleteSecret, workloadVars, serviceVars, operatorVars, TypeOK, Range
  <1>14. ASSUME NEW p \in {"minio", "lakekeeper", "trino"}, NEW with, Pods(p, with),
                p = "trino" => with \in Properties,
                p # "trino" => with \in Key,
                faults' \in 0..MaxFaults
         PROVE  TypeOK'
    <2>1. pods' \in [minio : Key, lakekeeper : Key, trino : Properties]
      <3>1. CASE p = "minio"
        BY <1>14, <3>1 DEF Pods, TypeOK
      <3>2. CASE p = "lakekeeper"
        BY <1>14, <3>2 DEF Pods, TypeOK
      <3>3. CASE p = "trino"
        BY <1>14, <3>3 DEF Pods, TypeOK
      <3> QED
        BY <3>1, <3>2, <3>3
    <2> QED
      BY <1>14, <2>1 DEF Pods, storeVars, workloadVars, userVars, TypeOK, Range
  <1>15. ASSUME NEW p \in {"minio", "lakekeeper"}, StartPod(p) PROVE TypeOK'
    <2>1. api[SecretOf(p)] \in Key
      BY <1>j DEF SecretOf, Secrets
    <2>2. Pods(p, api[SecretOf(p)]) /\ faults' \in 0..MaxFaults
      BY <1>15 DEF StartPod, TypeOK
    <2> QED
      BY <1>14, <2>1, <2>2
  <1>16. CASE StartTrino
    <2>1. Pods("trino", catalog) /\ catalog \in Properties /\ faults' \in 0..MaxFaults
      BY <1>16 DEF StartTrino, TypeOK
    <2> QED
      BY <1>14, <2>1
  <1>17. ASSUME NEW p \in {"minio", "lakekeeper", "trino"}, LosePod(p) PROVE TypeOK'
    <2>1. Pods(p, Down(p)) /\ faults' \in 0..MaxFaults
      BY <1>17, LakehouseAssumption DEF LosePod, Spend, TypeOK
    <2>2. NoProperties \in Properties /\ None \in Key
      BY AnyLemma, LakehouseAssumption DEF NoProperties, Properties, None, Key
    <2>3. p = "trino" => Down(p) \in Properties
      BY <2>2 DEF Down
    <2>4. p # "trino" => Down(p) \in Key
      BY <2>2 DEF Down
    <2> QED
      BY <1>14, <2>1, <2>3, <2>4
  <1>18. ASSUME NEW st \in JobStates, JobBecomes(st), buckets' \subseteq Buckets PROVE TypeOK'
    <2>1. [api.job EXCEPT !.state = st] \in Job
      BY <1>j, JobLemma
    <2>2. api' \in Objects
      BY <1>18, <1>p, <2>1, ObjectsLemma DEF JobBecomes, SetJob
    <2> QED
      BY <1>18, <2>2 DEF JobBecomes, workloadVars, userVars, operatorVars, TypeOK, Range
  <1>19. CASE JobSucceeds
    <2>1. buckets' \subseteq Buckets
      BY <1>19, <1>j DEF JobSucceeds, Job, TypeOK
    <2> QED
      BY <1>18, <1>19, <2>1 DEF JobSucceeds, JobStates
  <1>20. CASE JobFails
    BY <1>18, <1>20 DEF JobFails, JobStates, TypeOK
  <1>21. CASE JobRemoved
    <2>1. api' \in Objects
      BY <1>21, <1>p, JobLemma, ObjectsLemma DEF JobRemoved, SetJob
    <2> QED
      BY <1>21, <2>1 DEF JobRemoved, workloadVars, serviceVars, userVars, operatorVars, TypeOK,
         Range
  <1>22. CASE UNCHANGED vars
    BY <1>22 DEF vars, storeVars, workloadVars, serviceVars, userVars, operatorVars, TypeOK, Range
  <1>23. CASE EnsureMinio \/ EnsureLakekeeper
    BY <1>2, <1>23 DEF EnsureMinio, EnsureLakekeeper, Secrets, Steps
  <1> QED
    BY <1>1, <1>23, <1>3, <1>4, <1>5, <1>6, <1>7, <1>8, <1>9, <1>10, <1>11, <1>12, <1>13,
       <1>15, <1>16, <1>17, <1>19, <1>20, <1>21, <1>22 DEF Next, Pass
-----------------------------------------------------------------------------
(* Who writes what *)

Grows == written \subseteq written' /\ buckets \subseteq buckets' /\ lost \subseteq lost'

WritesSecrets ==
    \/ UNCHANGED <<generated, lost>> /\ \A s \in Secrets : api'[s] = api[s]
    \/ \E s \in Secrets : CreateSecret(s) /\ UNCHANGED lost
    \/ \E s \in Secrets : DeleteSecret(s)

WritesSeen == \A k \in {"minio", "encryption", "job"} : seen'[k] \in {seen[k], api[k]}

JobTo(state) == api'.job = [api.job EXCEPT !.state = state]

WritesJob ==
    \/ api'.job = api.job
    \/ api'.job = NoJob
    \/ pc = "bucket" /\ api'.job = NewJob(pass.spec.bucket)
    \/ api.job.state # "absent" /\ (JobTo("deleting") \/ JobTo("failed"))
    \/ api.job.state # "absent" /\ JobTo("succeeded") /\ api.job.bucket \in buckets'

WritesPods == pods'.lakekeeper \in {None, pods.lakekeeper, api.encryption}

\* A step of the pass that leaves what the later ones build on.
GoesOn ==
    /\ pc # "idle" /\ pass'.spec = pass.spec /\ pass'.key = pass.key
    /\ pass'.storeReady = pass.storeReady
    /\ pc' \in {"list", "create"} => pass.storeReady

TakesStore ==
    /\ pc = "bucket" /\ pc' = "encryption"
    /\ pass'.spec = pass.spec /\ pass'.key = seen.minio
    /\ pass'.storeReady => seen.minio # None /\ seen.job.state = "succeeded"

WritesPass ==
    \/ UNCHANGED <<pc, pass>>
    \/ pc' = "idle" /\ pass' = NoPass
    \/ pc' = "minio" /\ pass' = [NoPass EXCEPT !.spec = spec]
    \/ GoesOn \/ TakesStore

WritesWarehouses ==
    \/ UNCHANGED warehouses
    \/ pc = "create" /\ pods.lakekeeper # None /\ warehouses' = Created

WritesSpec == UNCHANGED spec \/ spec' \in written'

Writes ==
    /\ Grows /\ WritesSpec /\ WritesSecrets /\ WritesSeen /\ WritesJob
    /\ WritesPods /\ WritesPass /\ WritesWarehouses

(* Whatever leaves the API server and the services alone writes nothing else  *)
(* but the pass.                                                              *)
LEMMA QuietLemma ==
    ASSUME WritesPass, WritesWarehouses, UNCHANGED <<storeVars, userVars, pods, buckets>>
    PROVE  Writes
  BY DEF Writes, Grows, WritesSpec, WritesSecrets, WritesSeen, WritesJob, WritesPods,
     storeVars, userVars

(* Each action is among the writers of each variable it changes.              *)
LEMMA WritesLemma == Inv /\ [Next]_vars => Writes
  <1> SUFFICES ASSUME Inv, [Next]_vars PROVE Writes
    OBVIOUS
  <1>t. /\ pass \in PassType /\ seen \in Objects /\ api \in Objects
        /\ PassFacts
    BY DEF Inv, TypeOK, PassType
  <1>1. CASE Begin
    BY <1>1, QuietLemma DEF Begin, WritesPass, WritesWarehouses, serviceVars
  <1>2. ASSUME NEW step \in Steps, NEW s \in Secrets, NEW w, NEW next,
               next \in {"bucket", "lakekeeper"},
               EnsureSecret(step, s, w, next)
        PROVE  Writes
    <2>1. WritesPass
      <3>1. CASE Fail
        BY <3>1 DEF Fail, WritesPass
      <3>2. CASE Goto(next) /\ UNCHANGED pass
        BY <1>2, <3>2 DEF Goto, WritesPass, GoesOn, EnsureSecret, At, Steps
      <3> QED
        BY <1>2, <3>1, <3>2 DEF EnsureSecret
    <2>2. WritesSecrets /\ WritesJob
      <3>1. CASE CreateSecret(s)
        <4>1. api'.job = api.job
          BY <1>t, <3>1 DEF CreateSecret, Objects, Secrets
        <4> QED
          BY <1>2, <3>1, <4>1 DEF WritesSecrets, WritesJob, EnsureSecret, At, userVars
      <3>2. CASE UNCHANGED <<api, generated>>
        BY <1>2, <3>2 DEF WritesSecrets, WritesJob, EnsureSecret, At, userVars
      <3> QED
        BY <1>2, <3>1, <3>2 DEF EnsureSecret
    <2> QED
      BY <1>2, <2>1, <2>2 DEF Writes, EnsureSecret, At, userVars, Grows, WritesSpec, WritesSeen,
         WritesPods, WritesWarehouses
  <1>3. CASE ReconcileMinio
    <2>1. WritesPass
      <3>1. ASSUME NEW b \in BOOLEAN, StoreIs(b),
                   b => seen.minio # None /\ seen.job.state = "succeeded"
            PROVE  TakesStore
        BY <1>3, <1>t, <3>1 DEF ReconcileMinio, At, StoreIs, Goto, TakesStore, PassType
      <3>2. Fail \/ StoreIs(FALSE) \/ (seen.minio # None /\ JobDone)
        BY <1>3 DEF ReconcileMinio, EnsureMinioBucket, CreateJob, ReplaceJob, AwaitJob
      <3>3. CASE Fail
        BY <3>3 DEF Fail, WritesPass
      <3>4. CASE StoreIs(FALSE)
        BY <3>1, <3>4 DEF WritesPass
      <3>5. CASE seen.minio # None /\ JobDone
        BY <3>1, <3>5 DEF JobDone, WritesPass
      <3> QED
        BY <3>2, <3>3, <3>4, <3>5
    <2>2. WritesJob /\ \A s \in Secrets : api'[s] = api[s]
      <3>1. CASE UNCHANGED api
        BY <3>1 DEF WritesJob
      <3>2. ASSUME NEW j, SetJob(j)
            PROVE  api'.job = j /\ \A s \in Secrets : api'[s] = api[s]
        BY <1>t, <3>2 DEF SetJob, Objects, Secrets
      <3>3. CASE SetJob(NewJob(pass.spec.bucket))
        BY <1>3, <3>2, <3>3 DEF WritesJob, ReconcileMinio, At
      <3>4. CASE ReplaceJob
        BY <3>1, <3>2, <3>4 DEF WritesJob, JobTo, ReplaceJob
      <3> QED
        BY <1>3, <3>1, <3>3, <3>4 DEF ReconcileMinio, EnsureMinioBucket, CreateJob, AwaitJob,
           JobDone
    <2> QED
      BY <1>3, <2>1, <2>2 DEF Writes, ReconcileMinio, At, userVars, Grows, WritesSpec, WritesSeen,
         WritesPods, WritesWarehouses, WritesSecrets
  <1>4. CASE ReconcileLakekeeper
    <2>1. WritesPass
      BY <1>4 DEF ReconcileLakekeeper, At, Goto, StoreReady, WritesPass, GoesOn
    <2> QED
      BY <1>4, <2>1, QuietLemma DEF ReconcileLakekeeper, At, storeVars, WritesWarehouses
  <1>5. CASE ListWarehouses
    <2>1. WritesPass
      BY <1>5, <1>t DEF ListWarehouses, At, Goto, Fail, WarehouseDone, PassFacts, PassType,
         WritesPass, GoesOn
    <2> QED
      BY <1>5, <2>1, QuietLemma DEF ListWarehouses, At, storeVars, WritesWarehouses
  <1>6. CASE CreateWarehouse
    <2>1. WritesPass
      BY <1>6, <1>t DEF CreateWarehouse, At, Goto, Fail, WarehouseDone, PassType,
         WritesPass, GoesOn
    <2>2. WritesWarehouses
      BY <1>6 DEF CreateWarehouse, At, Up, Down, WritesWarehouses
    <2> QED
      BY <1>6, <2>1, <2>2, QuietLemma DEF CreateWarehouse, At, storeVars
  <1>7. CASE ReconcileTrino
    <2>1. WritesPass
      BY <1>7 DEF ReconcileTrino, WritesPass
    <2> QED
      BY <1>7, <2>1, QuietLemma DEF ReconcileTrino, At, storeVars, WritesWarehouses
  <1>8. CASE RequestFails
    <2>1. WritesPass
      BY <1>8 DEF RequestFails, Fail, WritesPass
    <2>2. WritesWarehouses
      BY <1>8 DEF RequestFails, Up, Down, WritesWarehouses
    <2> QED
      BY <1>8, <2>1, <2>2, QuietLemma DEF RequestFails, Unharmed, storeVars
  <1>9. CASE ListRefused
    <2>1. WritesPass
      BY <1>9, <1>t DEF ListRefused, Goto, PassFacts, WritesPass, GoesOn
    <2> QED
      BY <1>9, <2>1, QuietLemma DEF ListRefused, Unharmed, storeVars, WritesWarehouses
  <1>10. CASE Crash
    BY <1>10 DEF Crash, Fail, workloadVars, serviceVars, userVars, Writes, Grows, WritesSpec,
       WritesSecrets, WritesSeen, WritesJob, WritesPods, WritesPass, WritesWarehouses
  <1>11. ASSUME NEW k \in {"minio", "encryption", "job"}, Deliver(k) PROVE Writes
    <2>1. WritesSeen
      BY <1>11, <1>t DEF Deliver, WritesSeen, Objects
    <2> QED
      BY <1>11, <2>1 DEF Deliver, serviceVars, userVars, Writes, Grows, WritesSpec,
         WritesSecrets, WritesJob, WritesPods, WritesPass, WritesWarehouses
  <1>12. ASSUME NEW s \in Specs, EditSpec(s) PROVE Writes
    BY <1>12 DEF EditSpec, storeVars, serviceVars, Writes, Grows, WritesSpec,
       WritesSecrets, WritesSeen, WritesJob, WritesPods, WritesPass, WritesWarehouses
  <1>13. ASSUME NEW s \in Secrets, DeleteSecret(s) PROVE Writes
    <2>1. api'.job = api.job
      BY <1>13, <1>t DEF DeleteSecret, Objects, Secrets
    <2>2. WritesSecrets
      BY <1>13 DEF WritesSecrets
    <2> QED
      BY <1>13, <2>1, <2>2 DEF DeleteSecret, serviceVars, operatorVars, Writes, Grows,
         WritesSpec, WritesSeen, WritesJob, WritesPods, WritesPass, WritesWarehouses
  <1>14. ASSUME NEW p \in {"minio", "lakekeeper", "trino"}, NEW with, Pods(p, with),
                p = "lakekeeper" => with \in {None, api.encryption}
         PROVE  Writes
    <2>1. WritesPods
      BY <1>14 DEF Pods, WritesPods, Inv, TypeOK
    <2> QED
      BY <1>14, <2>1 DEF Pods, storeVars, userVars, Writes, Grows, WritesSpec,
         WritesSecrets, WritesSeen, WritesJob, WritesPass, WritesWarehouses
  <1>15. ASSUME NEW p \in {"minio", "lakekeeper"}, StartPod(p) PROVE Writes
    BY <1>14, <1>15 DEF StartPod, SecretOf
  <1>16. CASE StartTrino
    BY <1>14, <1>16 DEF StartTrino
  <1>17. ASSUME NEW p \in {"minio", "lakekeeper", "trino"}, LosePod(p) PROVE Writes
    BY <1>14, <1>17 DEF LosePod, Down
  <1>18. ASSUME NEW j, SetJob(j),
                UNCHANGED <<seen, generated, pods, warehouses, userVars, pc, pass>>
         PROVE  /\ api'.job = j
                /\ WritesJob /\ buckets \subseteq buckets' => Writes
    <2>1. api'.job = j /\ \A s \in Secrets : api'[s] = api[s]
      BY <1>t, <1>18 DEF SetJob, Objects, Secrets
    <2> QED
      BY <1>18, <2>1 DEF userVars, Writes, Grows, WritesSpec, WritesSecrets, WritesSeen,
         WritesPods, WritesPass, WritesWarehouses
  <1>19. CASE JobSucceeds
    <2>1. SetJob([api.job EXCEPT !.state = "succeeded"])
      BY <1>19 DEF JobSucceeds, JobBecomes
    <2>2. UNCHANGED <<seen, generated, pods, warehouses, userVars, pc, pass>>
      BY <1>19 DEF JobSucceeds, JobBecomes, operatorVars
    <2>3. JobTo("succeeded")
      BY <1>18, <2>1, <2>2 DEF JobTo
    <2> QED
      BY <1>18, <1>19, <2>1, <2>2, <2>3 DEF JobSucceeds, WritesJob
  <1>20. CASE JobFails
    <2>1. SetJob([api.job EXCEPT !.state = "failed"])
      BY <1>20 DEF JobFails, JobBecomes
    <2>2. UNCHANGED <<seen, generated, pods, warehouses, userVars, pc, pass>>
      BY <1>20 DEF JobFails, JobBecomes, operatorVars
    <2>3. JobTo("failed")
      BY <1>18, <2>1, <2>2 DEF JobTo
    <2> QED
      BY <1>18, <1>20, <2>1, <2>2, <2>3 DEF JobFails, WritesJob
  <1>21. CASE JobRemoved
    BY <1>18, <1>21 DEF JobRemoved, serviceVars, operatorVars, WritesJob
  <1>22. CASE UNCHANGED vars
    BY <1>22, QuietLemma DEF vars, serviceVars, operatorVars, WritesPass, WritesWarehouses
  <1>23. CASE EnsureMinio \/ EnsureLakekeeper
    BY <1>2, <1>23 DEF EnsureMinio, EnsureLakekeeper, Secrets, Steps
  <1> QED
    BY <1>1, <1>23, <1>3, <1>4, <1>5, <1>6, <1>7, <1>8, <1>9, <1>10, <1>11, <1>12, <1>13,
       <1>15, <1>16, <1>17, <1>19, <1>20, <1>21, <1>22 DEF Next, Pass
-----------------------------------------------------------------------------
(* The parts of the invariant *)

(* What becomes of one Secret: nothing, a new one where there was none, or    *)
(* its loss.                                                                  *)
LEMMA SecretLemma ==
    ASSUME TypeOK, WritesSecrets, NEW s \in Secrets
    PROVE  \/ api'[s] = api[s] /\ generated'[s] = generated[s] /\ (s \in lost' <=> s \in lost)
           \/ /\ api[s] = None /\ api'[s] = generated[s] + 1 /\ generated'[s] = generated[s] + 1
              /\ (s \in lost' <=> s \in lost)
           \/ /\ s \notin lost /\ s \in lost' /\ Cardinality(lost) < MaxLosses
              /\ api[s] # None /\ api'[s] = None /\ generated'[s] = generated[s]
  <1>1. api \in Objects /\ generated \in [Secrets -> Key]
    BY DEF TypeOK
  <1>2. CASE \E r \in Secrets : CreateSecret(r) /\ UNCHANGED lost
    BY <1>1, <1>2 DEF CreateSecret, Objects, Secrets
  <1>3. CASE \E r \in Secrets : DeleteSecret(r)
    BY <1>1, <1>3 DEF DeleteSecret, Objects, Secrets
  <1> QED
    BY <1>2, <1>3 DEF WritesSecrets

(* Secrets are generated once, and once more after their deletion.            *)
LEMMA GenerationsStep == TypeOK /\ Generations /\ WritesSecrets => Generations'
  <1> SUFFICES ASSUME TypeOK, Generations, WritesSecrets PROVE Generations'
    OBVIOUS
  <1>1. Cardinality(lost) \in Nat
    <2>1. IsFiniteSet(Secrets)
      <3>1. Secrets = {"minio"} \cup {"encryption"}
        BY DEF Secrets
      <3> QED
        BY <3>1, FS_Singleton, FS_AddElement
    <2>2. IsFiniteSet(lost)
      BY <2>1, FS_Subset DEF TypeOK
    <2> QED
      BY <2>2, FS_CardinalityType
  <1>2. \A s \in Secrets : generated[s] \in Nat
    BY LakehouseAssumption DEF TypeOK, Key
  <1> QED
    BY <1>1, <1>2, SecretLemma, LakehouseAssumption DEF Generations, None

(* Nobody who knows a key is outdated by a step that does not delete it.      *)
LEMMA KeyLemma ==
    ASSUME TypeOK, WritesSecrets, NEW s \in Secrets, s \notin lost'
    PROVE  /\ s \notin lost
           /\ api[s] # None => api'[s] = api[s]
  BY SecretLemma

LEMMA KeysStep == TypeOK /\ PassFacts /\ Keys /\ Writes => Keys'
  <1> SUFFICES ASSUME TypeOK, PassFacts, Keys, Writes PROVE Keys'
    OBVIOUS
  <1>1. ASSUME NEW s \in Secrets, s \notin lost' PROVE seen'[s] \in {None, api'[s]}
    <2>1. seen[s] \in {None, api[s]} /\ seen'[s] \in {seen[s], api[s]}
      BY <1>1, KeyLemma DEF Writes, WritesSeen, Keys, Secrets
    <2> QED
      BY <1>1, <2>1, KeyLemma DEF Writes
  <1>2. ASSUME "minio" \notin lost' PROVE pass'.key \in {None, api'.minio}
    <2>1. pass'.key \in {None, pass.key, seen.minio}
      BY DEF Writes, WritesPass, GoesOn, TakesStore, NoPass
    <2>2. /\ pass.key \in {None, api.minio} /\ seen.minio \in {None, api.minio}
          /\ api.minio # None => api'.minio = api.minio
      BY <1>2, KeyLemma DEF Keys, Writes, Secrets
    <2> QED
      BY <2>1, <2>2
  <1>3. ASSUME "encryption" \notin lost' PROVE pods'.lakekeeper \in {None, api'.encryption}
    <2>1. /\ pods.lakekeeper \in {None, api.encryption}
          /\ api.encryption # None => api'.encryption = api.encryption
      BY <1>3, KeyLemma DEF Keys, Writes, Secrets
    <2> QED
      BY <2>1 DEF Writes, WritesPods
  <1>4. ASSUME NEW n \in DOMAIN warehouses'
        PROVE  warehouses'[n].key # None /\ warehouses'[n].cipher # None
    <2>1. CASE UNCHANGED warehouses
      BY <1>4, <2>1 DEF Keys
    <2>2. CASE pc = "create" /\ pods.lakekeeper # None /\ warehouses' = Created
      <3>1. pass.key # None
        BY <2>2 DEF PassFacts
      <3> QED
        BY <1>4, <2>2, <3>1, CreatedLemma DEF Keys
    <2> QED
      BY <2>1, <2>2 DEF Writes, WritesWarehouses
  <1> QED
    BY <1>1, <1>2, <1>3, <1>4 DEF Keys

(* A pass is about a spec that was written, and the store it hands on is      *)
(* there.                                                                     *)
LEMMA PassFactsStep == TypeOK /\ Jobs /\ PassFacts /\ Writes => PassFacts'
  <1> SUFFICES ASSUME TypeOK, Jobs, PassFacts, Writes PROVE PassFacts'
    OBVIOUS
  <1>1. Grows /\ spec' \in written'
    BY DEF Writes, WritesSpec, Grows, PassFacts
  <1>2. \A b \in buckets : WrittenBucket(b) => b \in buckets' /\ WrittenBucket(b)'
    BY <1>1 DEF Grows, WrittenBucket
  <1>3. CASE UNCHANGED <<pc, pass>>
    BY <1>1, <1>2, <1>3 DEF Grows, PassFacts
  <1>4. CASE pc' = "idle" /\ pass' = NoPass
    BY <1>1, <1>4 DEF PassFacts, NoPass
  <1>5. CASE pc' = "minio" /\ pass' = [NoPass EXCEPT !.spec = spec]
    BY <1>1, <1>5 DEF PassFacts, NoPass, Grows
  <1>6. CASE GoesOn
    BY <1>1, <1>2, <1>6 DEF Grows, GoesOn, PassFacts
  <1>7. CASE TakesStore
    <2>1. pass'.storeReady => \E b \in buckets : WrittenBucket(b)
      BY <1>7 DEF TakesStore, Jobs, JobIsHonest
    <2> QED
      BY <1>1, <1>2, <1>7, <2>1 DEF Grows, TakesStore, PassFacts
  <1> QED
    BY <1>3, <1>4, <1>5, <1>6, <1>7 DEF Writes, WritesPass

LEMMA JobsStep == TypeOK /\ PassFacts /\ Jobs /\ Writes => Jobs'
  <1> SUFFICES ASSUME TypeOK, PassFacts, Jobs, Writes PROVE Jobs'
    OBVIOUS
  <1> DEFINE HonestNext(j) ==
        /\ j.state # "absent" => \E s \in written' : s.bucket = j.bucket
        /\ j.state = "succeeded" => j.bucket \in buckets'
  <1>g. written \subseteq written' /\ buckets \subseteq buckets'
    BY DEF Writes, Grows
  <1>1. HonestNext(api.job) /\ HonestNext(seen.job)
    BY <1>g DEF Jobs, JobIsHonest, WrittenBucket
  <1>2. HonestNext(seen'.job)
    <2>1. seen'.job \in {seen.job, api.job}
      BY DEF Writes, WritesSeen
    <2> QED
      BY <1>1, <2>1
  <1>3. HonestNext(api'.job)
    <2>1. CASE api'.job = api.job
      BY <1>1, <2>1
    <2>2. CASE api'.job = NoJob
      BY <2>2 DEF NoJob
    <2>3. CASE pc = "bucket" /\ api'.job = NewJob(pass.spec.bucket)
      BY <1>g, <2>3 DEF NewJob, PassFacts
    <2>4. ASSUME api.job.state # "absent", NEW st, JobTo(st),
                 st = "succeeded" => api.job.bucket \in buckets'
          PROVE  HonestNext(api'.job)
      <3>1. api'.job.bucket = api.job.bucket /\ api'.job.state = st
        BY <2>4 DEF JobTo, TypeOK, Objects, Job
      <3> QED
        BY <1>1, <2>4, <3>1
    <2> QED
      BY <2>1, <2>2, <2>3, <2>4 DEF Writes, WritesJob
  <1> QED
    BY <1>2, <1>3 DEF Jobs, JobIsHonest, WrittenBucket

(* A warehouse is right when it is made, and what it rests on stays.          *)
LEMMA ReachableStep == Inv /\ Writes => StorageReachable'
  <1> SUFFICES ASSUME Inv, Writes, NEW n \in DOMAIN warehouses'
               PROVE  /\ "minio" \notin lost' => warehouses'[n].key = api'.minio
                      /\ "encryption" \notin lost' => warehouses'[n].cipher = api'.encryption
                      /\ OneBucket' => warehouses'[n].bucket \in buckets'
    BY DEF StorageReachable
  <1> USE DEF Inv
  <1>1. /\ "minio" \notin lost' => "minio" \notin lost
        /\ "minio" \notin lost' /\ api.minio # None => api'.minio = api.minio
    BY KeyLemma DEF Writes, Secrets
  <1>2. /\ "encryption" \notin lost' => "encryption" \notin lost
        /\ "encryption" \notin lost' /\ api.encryption # None => api'.encryption = api.encryption
    BY KeyLemma DEF Writes, Secrets
  <1>3. buckets \subseteq buckets' /\ (OneBucket' => OneBucket)
    BY DEF Writes, Grows, OneBucket
  <1>4. CASE n \in DOMAIN warehouses /\ warehouses'[n] = warehouses[n]
    BY <1>1, <1>2, <1>3, <1>4 DEF StorageReachable, Keys
  <1>5. CASE /\ pc = "create" /\ pods.lakekeeper # None
             /\ warehouses'[n] = [ bucket |-> pass.spec.bucket, key |-> pass.key,
                                   cipher |-> pods.lakekeeper ]
    <2>1. /\ pass.key # None /\ pass.spec \in written
          /\ \E b \in buckets : WrittenBucket(b)
      BY <1>5 DEF PassFacts
    <2>2. OneBucket => pass.spec.bucket \in buckets
      BY <2>1 DEF OneBucket, WrittenBucket
    <2> QED
      BY <1>1, <1>2, <1>3, <1>5, <2>1, <2>2 DEF Keys
  <1> QED
    BY <1>4, <1>5, CreatedLemma DEF Writes, WritesWarehouses

LEMMA OneSpecStep == Inv /\ Writes => OneSpec'
  <1> SUFFICES ASSUME Inv, Writes, NEW n \in DOMAIN warehouses'
               PROVE  [bucket |-> warehouses'[n].bucket, warehouse |-> n] \in written'
    BY DEF OneSpec
  <1> USE DEF Inv
  <1>1. written \subseteq written'
    BY DEF Writes, Grows
  <1>2. CASE n \in DOMAIN warehouses /\ warehouses'[n] = warehouses[n]
    BY <1>1, <1>2 DEF OneSpec
  <1>3. CASE /\ pc = "create" /\ n = pass.spec.warehouse
             /\ warehouses'[n].bucket = pass.spec.bucket
    <2>1. pass.spec \in Specs /\ pass.spec \in written
      BY <1>3 DEF PassFacts, TypeOK
    <2>2. pass.spec = [bucket |-> pass.spec.bucket, warehouse |-> pass.spec.warehouse]
      BY <2>1, LakehouseAssumption
    <2> QED
      BY <1>1, <1>3, <2>1, <2>2
  <1> QED
    BY <1>2, <1>3, CreatedLemma DEF Writes, WritesWarehouses
-----------------------------------------------------------------------------
(* The invariant *)

LEMMA InvInit == Init => Inv
  <1> SUFFICES ASSUME Init PROVE Inv
    OBVIOUS
  <1>1. TypeOK
    BY TypeInit
  <1>2. Generations
    BY DEF Init, Generations, Secrets, None
  <1>3. Keys
    BY DEF Init, Keys, NoPass, None
  <1>4. Jobs
    <2>1. \/ api.job = NoJob
          \/ api.job.state = "running" /\ api.job.bucket = spec.bucket
      BY DEF Init, NewJob
    <2> QED
      BY <2>1 DEF Init, Jobs, JobIsHonest, WrittenBucket, NoJob
  <1>5. PassFacts
    BY DEF Init, PassFacts, NoPass
  <1>6. StorageReachable /\ OneSpec
    BY DEF Init, StorageReachable, OneSpec
  <1> QED
    BY <1>1, <1>2, <1>3, <1>4, <1>5, <1>6 DEF Inv

LEMMA InvStep == Inv /\ [Next]_vars => Inv'
  <1> SUFFICES ASSUME Inv, [Next]_vars PROVE Inv'
    OBVIOUS
  <1>1. Writes
    BY WritesLemma
  <1>2. TypeOK'
    BY TypeStep DEF Inv
  <1>3. Generations' /\ Keys'
    BY <1>1, GenerationsStep, KeysStep DEF Inv, Writes
  <1>4. Jobs' /\ PassFacts'
    BY <1>1, JobsStep, PassFactsStep DEF Inv
  <1>5. StorageReachable' /\ OneSpec'
    BY <1>1, ReachableStep, OneSpecStep
  <1> QED
    BY <1>2, <1>3, <1>4, <1>5 DEF Inv

(* The invariant holds in every state of every behaviour.                     *)
THEOREM Invariance == Spec => []Inv
  BY InvInit, InvStep, PTL DEF Spec

(* Secrets, Job, pods, catalog and pass keep their types; in particular a     *)
(* Secret is never generated more often than it is deleted, and once.         *)
THEOREM TypeCorrect == Spec => []TypeOK
  <1>1. Inv => TypeOK
    BY DEF Inv
  <1> QED
    BY <1>1, Invariance, PTL

(* What reconcileWarehouse has LakeKeeper store of a warehouse are MinIO's    *)
(* key, and a bucket that was made, under an encryption key that stays.       *)
THEOREM StorageIsReachable == Spec => []StorageReachable
  <1>1. Inv => StorageReachable
    BY DEF Inv
  <1> QED
    BY <1>1, Invariance, PTL

(* Whatever is edited during a pass, a warehouse is made from one spec.       *)
THEOREM WarehouseOfOneSpec == Spec => []OneSpec
  <1>1. Inv => OneSpec
    BY DEF Inv
  <1> QED
    BY <1>1, Invariance, PTL
=============================================================================
