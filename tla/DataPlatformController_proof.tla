-------------------- MODULE DataPlatformController_proof --------------------
(***************************************************************************)
(* Proofs about the reconcile loop, for every set of specs and every value *)
(* of the bounds.                                                          *)
(***************************************************************************)
EXTENDS DataPlatformController, TLAPS

-----------------------------------------------------------------------------
(* The operators the actions are built from *)

(* setCondition changes one condition and records the generation of the       *)
(* platform it is given.                                                      *)
LEMMA SetConditionLemma ==
    ASSUME NEW p \in Platform, NEW c \in Conditions, NEW st \in {"True", "False"}
    PROVE  /\ SetCondition(p, c, st) \in Platform
           /\ SetCondition(p, c, st).spec = p.spec
           /\ SetCondition(p, c, st).gen = p.gen
           /\ SetCondition(p, c, st).conditions[c] =
                 [status |-> st, gen |-> p.gen]
           /\ \A d \in Conditions \ {c} :
                 SetCondition(p, c, st).conditions[d] = p.conditions[d]
  BY DEF SetCondition, Platform, Condition

(* A pod template carries nothing but settings.                               *)
LEMMA TemplateLemma == \A w \in Workloads : Template(w) \in SUBSET Settings
  <1>1. LakekeeperTemplate \in SUBSET Settings
    BY DEF LakekeeperTemplate, Settings
  <1>2. OPATemplate \in SUBSET Settings
    BY DEF OPATemplate, Settings
  <1>3. TrinoTemplate \in SUBSET Settings
    BY DEF TrinoTemplate, Settings
  <1>4. {} \in SUBSET Settings
    OBVIOUS
  <1> QED
    BY <1>1, <1>2, <1>3, <1>4 DEF Template

(* apply only adds workloads, and leaves the other templates alone.           *)
LEMMA ApplyLemma ==
    ASSUME TypeOK, NEW ws \in SUBSET Workloads, Apply(ws)
    PROVE  /\ deployed' \in SUBSET Workloads
           /\ deployed' = deployed \cup ws
           /\ template' \in [Workloads -> SUBSET Settings]
           /\ \A w \in Workloads :
                 template'[w] = IF w \in ws THEN Template(w) ELSE template[w]
  BY TemplateLemma DEF Apply, TypeOK

(* An error ends the pass with Ready False for the generation it worked on.   *)
LEMMA FailLemma ==
    ASSUME TypeOK, NEW c \in Conditions, Fail(c)
    PROVE  /\ pc' = "patchStatus"
           /\ work' \in Platform
           /\ work'.spec = work.spec
           /\ work'.gen = work.gen
           /\ work'.conditions["Ready"] = [status |-> "False", gen |-> work.gen]
           /\ pass' \in Pass
           /\ pass'.fga = pass.fga /\ pass'.fgaReady = pass.fgaReady
  <1> DEFINE q == SetCondition(work, c, "False")
  <1>1. q \in Platform /\ q.spec = work.spec /\ q.gen = work.gen
    BY SetConditionLemma DEF TypeOK
  <1>2. "Ready" \in Conditions
    BY DEF Conditions
  <1> HIDE DEF q
  <1>3. /\ SetCondition(q, "Ready", "False") \in Platform
        /\ SetCondition(q, "Ready", "False").spec = q.spec
        /\ SetCondition(q, "Ready", "False").gen = q.gen
        /\ SetCondition(q, "Ready", "False").conditions["Ready"] =
              [status |-> "False", gen |-> q.gen]
    BY <1>1, <1>2, SetConditionLemma
  <1>4. work' = SetCondition(q, "Ready", "False")
    BY DEF Fail, Continue, q
  <1>5. pc' = "patchStatus" /\ pass' = [pass EXCEPT !.failed = TRUE]
    BY DEF Fail, Continue
  <1> QED
    BY <1>1, <1>3, <1>4, <1>5 DEF TypeOK, Pass

(* The results the component reconcilers hand on are results.                 *)
LEMMA PassLemma ==
    ASSUME NEW p \in Pass
    PROVE  /\ \A b \in BOOLEAN : /\ [p EXCEPT !.storeReady = b] \in Pass
                                 /\ [p EXCEPT !.oidc = TRUE, !.authReady = b] \in Pass
                                 /\ [p EXCEPT !.progressing = b] \in Pass
           /\ [p EXCEPT !.authReady = TRUE] \in Pass
           /\ [p EXCEPT !.fgaReady = TRUE] \in Pass
           /\ [p EXCEPT !.fga = {"enabled"}] \in Pass
           /\ [p EXCEPT !.fga = {"enabled", "opaURL"}] \in Pass
           /\ [p EXCEPT !.fga = {"enabled", "opaURL"}, !.fgaReady = TRUE] \in Pass
           /\ [p EXCEPT !.fga = {"enabled", "opaURL", "storeID"}, !.fgaReady = TRUE] \in Pass
  BY DEF Pass

(* What was spent stays within its bounds.                                    *)
LEMMA BudgetLemma ==
    ASSUME TypeOK
    PROVE  /\ SpendFault => budget' \in Budget
           /\ SpendLoss => budget' \in Budget
           /\ budget.crashes < MaxCrashes => [budget EXCEPT !.crashes = @ + 1] \in Budget
  BY BoundsAssumption DEF TypeOK, Budget, SpendFault, SpendLoss

(* Between passes the worker holds an empty copy.                             *)
LEMMA IdleLemma ==
    /\ IdleWork \in Platform
    /\ NoPass \in Pass
    /\ EndPass => pc' = "idle" /\ work' \in Platform /\ pass' \in Pass /\ pass' = NoPass
  <1>1. IdleWork \in Platform
    BY SpecsAssumption, BoundsAssumption
    DEF IdleWork, Platform, NoConditions, Condition
  <1>2. NoPass \in Pass
    BY DEF NoPass, Pass
  <1> QED
    BY <1>1, <1>2 DEF EndPass, Continue
-----------------------------------------------------------------------------
(* Type correctness *)

LEMMA TypeInit == Init => TypeOK
  <1> SUFFICES ASSUME Init PROVE TypeOK
    OBVIOUS
  <1>1. dp \in Platform
    BY BoundsAssumption DEF Init, Platform, NoConditions, Condition
  <1>2. work \in Platform /\ pass \in Pass
    BY IdleLemma DEF Init
  <1>3. budget \in Budget
    BY BoundsAssumption DEF Init, Budget
  <1> QED
    BY <1>1, <1>2, <1>3 DEF Init, TypeOK, JobStates, Catalog

LEMMA TypeStep == TypeOK /\ [Next]_vars => TypeOK'
  <1> SUFFICES ASSUME TypeOK, [Next]_vars PROVE TypeOK'
    OBVIOUS
  <1> USE DEF platformVars, queueVars, workloadVars, podVars, jobVars, serviceVars
  <1>s. \A c \in Conditions, st \in {"True", "False"} : SetCondition(work, c, st) \in Platform
    BY SetConditionLemma DEF TypeOK
  <1>w. {"postgres"} \in SUBSET Workloads /\ {"minio"} \in SUBSET Workloads
        /\ {"keycloak"} \in SUBSET Workloads /\ {"openfga-postgres"} \in SUBSET Workloads
        /\ {"openfga-postgres", "openfga"} \in SUBSET Workloads
        /\ {"trino"} \in SUBSET Workloads
        /\ {x \in {"opa"} : OPAWanted} \in SUBSET Workloads
        /\ \A b \in BOOLEAN : {x \in {"lakekeeper"} : b} \in SUBSET Workloads
    BY DEF Workloads
  <1>1. CASE Dequeue
    BY <1>1, IdleLemma DEF Dequeue, Continue, TypeOK, Steps
  <1>2. CASE SkipLakekeeperStack
    <2>1. work' \in Platform
      BY <1>2 DEF SkipLakekeeperStack, Continue, TypeOK, Platform, Condition
    <2> QED
      BY <1>2, <2>1 DEF SkipLakekeeperStack, Continue, TypeOK, Steps
  <1>3. CASE ReconcilePostgres
    <2>1. work' \in Platform /\ pass' \in Pass /\ pc' \in Steps \cup {"idle", "patchStatus"}
      BY <1>3, <1>s, FailLemma
      DEF ReconcilePostgres, ReconcileEmbeddedPostgres, ExternalPostgres, Continue, StatusOf,
          TypeOK, Conditions, Steps
    <2>2. deployed' \in SUBSET Workloads /\ template' \in [Workloads -> SUBSET Settings]
      BY <1>3, <1>w, ApplyLemma
      DEF ReconcilePostgres, ReconcileEmbeddedPostgres, ExternalPostgres, TypeOK
    <2> QED
      BY <1>3, <2>1, <2>2
      DEF ReconcilePostgres, ReconcileEmbeddedPostgres, ExternalPostgres, TypeOK
  <1>4. CASE ReconcileObjectStore
    <2>1. work' \in Platform /\ pass' \in Pass /\ pc' \in Steps \cup {"idle", "patchStatus"}
      BY <1>4, <1>s, FailLemma
      DEF ReconcileObjectStore, ReconcileMinio, ExternalObjectStore, Continue, StatusOf,
          TypeOK, Conditions, Steps, Pass
    <2>2. deployed' \in SUBSET Workloads /\ template' \in [Workloads -> SUBSET Settings]
      BY <1>4, <1>w, ApplyLemma
      DEF ReconcileObjectStore, ReconcileMinio, ExternalObjectStore, TypeOK
    <2>3. job' \in JobStates
      BY <1>4
      DEF ReconcileObjectStore, ReconcileMinio, ExternalObjectStore, EnsureMinioBucket,
          TypeOK, JobStates
    <2> QED
      BY <1>4, <2>1, <2>2, <2>3
      DEF ReconcileObjectStore, ReconcileMinio, ExternalObjectStore, TypeOK
  <1>5. CASE ReconcileAuth
    <2>1. work' \in Platform /\ pc' \in Steps \cup {"idle", "patchStatus"}
      BY <1>5, <1>s, FailLemma
      DEF ReconcileAuth, ReconcileKeycloak, ExternalOIDC, Continue, StatusOf, TypeOK,
          Conditions, Steps
    <2>p. pass' \in Pass
      <3>1. pass \in Pass
        BY DEF TypeOK
      <3>2. CASE Fail("AuthReady")
        BY <3>2, FailLemma DEF Conditions
      <3>3. CASE pass' = [pass EXCEPT !.authReady = TRUE]
        BY <3>1, <3>3, PassLemma
      <3>4. CASE pass' = [pass EXCEPT !.oidc = TRUE, !.authReady = TRUE]
        BY <3>1, <3>4, PassLemma
      <3>5. CASE pass' = [pass EXCEPT !.oidc = TRUE, !.authReady = "keycloak" \in seen]
        <4>1. ("keycloak" \in seen) \in BOOLEAN
          OBVIOUS
        <4> QED
          BY <3>1, <3>5, <4>1, PassLemma, Zenon
      <3> QED
        BY <1>5, <3>2, <3>3, <3>4, <3>5, Zenon
        DEF ReconcileAuth, ReconcileKeycloak, ExternalOIDC, Continue
    <2>2. deployed' \in SUBSET Workloads /\ template' \in [Workloads -> SUBSET Settings]
      BY <1>5, <1>w, ApplyLemma DEF ReconcileAuth, ReconcileKeycloak, ExternalOIDC, TypeOK
    <2> QED
      BY <1>5, <2>1, <2>p, <2>2 DEF ReconcileAuth, ReconcileKeycloak, ExternalOIDC, TypeOK
  <1>6. CASE SkipAuthz
    <2>1. work' \in Platform /\ pass' \in Pass /\ pc' \in Steps \cup {"idle", "patchStatus"}
      BY <1>6, <1>s, FailLemma
      DEF SkipAuthz, Continue, StatusOf, TypeOK, Conditions, Steps, Pass
    <2> QED
      BY <1>6, <2>1 DEF SkipAuthz, TypeOK
  <1>7. CASE ReconcileOpenFGA
    <2>1. work' \in Platform /\ pc' \in Steps \cup {"idle", "patchStatus"}
      BY <1>7, <1>s, FailLemma
      DEF ReconcileOpenFGA, Continue, StatusOf, TypeOK, Conditions, Steps
    <2>p. pass' \in Pass
      <3>1. pass \in Pass
        BY DEF TypeOK
      <3>2. CASE Fail("OpenFGAReady")
        BY <3>2, FailLemma DEF Conditions
      <3> QED
        BY <1>7, <3>1, <3>2, PassLemma, Zenon DEF ReconcileOpenFGA, Continue
    <2>2. deployed' \in SUBSET Workloads /\ template' \in [Workloads -> SUBSET Settings]
      BY <1>7, <1>w, ApplyLemma DEF ReconcileOpenFGA, TypeOK
    <2>3. accessStore' \in BOOLEAN
      BY <1>7 DEF ReconcileOpenFGA, TypeOK
    <2> QED
      BY <1>7, <2>1, <2>p, <2>2, <2>3 DEF ReconcileOpenFGA, TypeOK
  <1>8. CASE ReconcileLakekeeper
    <2> DEFINE w == SetCondition(work, "LakekeeperReady",
                                 StatusOf(DeployLakekeeper /\ "lakekeeper" \in seen))
               b == \/ ~ConditionTrue(w, "PostgresReady")
                    \/ ~ConditionTrue(w, "LakekeeperReady")
                    \/ ~pass.authReady \/ ~pass.fgaReady \/ ~pass.storeReady
    <2>1. w \in Platform
      BY <1>s DEF StatusOf, Conditions
    <2>2. /\ work' = w
          /\ pc' = IF b THEN "trinoStack" ELSE "warehouse"
          /\ pass' = [pass EXCEPT !.progressing = b]
          /\ Apply({x \in {"lakekeeper"} : DeployLakekeeper})
      BY <1>8, Zenon DEF ReconcileLakekeeper, Continue
    <2>3. pass' \in Pass
      BY <2>2, PassLemma, Zenon DEF TypeOK
    <2>4. deployed' \in SUBSET Workloads /\ template' \in [Workloads -> SUBSET Settings]
      BY <2>2, <1>w, ApplyLemma, Zenon DEF DeployLakekeeper
    <2>5. pc' \in Steps \cup {"idle", "patchStatus"}
      BY <2>2 DEF Steps
    <2> HIDE DEF w, b
    <2> QED
      BY <1>8, <2>1, <2>2, <2>3, <2>4, <2>5 DEF ReconcileLakekeeper, TypeOK
  <1>9. CASE ReconcileWarehouse
    <2>1. work' \in Platform /\ pass' \in Pass /\ pc' \in Steps \cup {"idle", "patchStatus"}
      BY <1>9, <1>s, FailLemma DEF ReconcileWarehouse, Continue, TypeOK, Conditions, Steps
    <2>2. catalog' \in Catalog
      <3>1. work.spec.warehouse \in WarehouseNames
        BY SpecsAssumption DEF TypeOK, Platform, SpecType
      <3>2. CatalogPrincipals(work.spec) \subseteq Principals
        BY DEF CatalogPrincipals, Principals
      <3>3. CatalogAfter(CatalogPrincipals(work.spec), {work.spec.warehouse}) \in Catalog
        BY <3>1, <3>2 DEF CatalogAfter, TypeOK, Catalog
      <3> QED
        BY <1>9, <3>3, Zenon DEF ReconcileWarehouse, TypeOK
    <2> QED
      BY <1>9, <2>1, <2>2 DEF ReconcileWarehouse, TypeOK
  <1>10. ASSUME NEW q \in Platform, Conclude(q)
         PROVE  pc' = "patchStatus" /\ work' \in Platform /\ pass' \in Pass
    <2> DEFINE b == pass.progressing \/ ~ConditionTrue(q, "TrinoReady")
    <2>1. /\ pc' = "patchStatus"
          /\ work' = SetCondition(q, "Ready", StatusOf(~b))
          /\ pass' = [pass EXCEPT !.progressing = b]
      BY <1>10, Zenon DEF Conclude, Continue
    <2>2. StatusOf(~b) \in {"True", "False"}
      BY DEF StatusOf
    <2>3. pass' \in Pass
      BY <2>1, PassLemma, Zenon DEF TypeOK
    <2> HIDE DEF b
    <2> QED
      BY <2>1, <2>2, <2>3, SetConditionLemma DEF Conditions
  <1>11. CASE SkipTrinoStack
    <2>1. SetCondition(work, "TrinoReady", "True") \in Platform
      BY <1>s DEF Conditions
    <2> QED
      BY <1>10, <1>11, <2>1 DEF SkipTrinoStack, TypeOK
  <1>12. CASE ReconcileOPA
    <2>1. deployed' \in SUBSET Workloads /\ template' \in [Workloads -> SUBSET Settings]
      BY <1>12, <1>w, ApplyLemma, Zenon DEF ReconcileOPA
    <2> QED
      BY <1>12, <2>1 DEF ReconcileOPA, Continue, TypeOK, Steps
  <1>13. CASE ReconcileTrino
    <2>1. SetCondition(work, "TrinoReady", StatusOf("trino" \in seen)) \in Platform
      BY <1>s DEF Conditions, StatusOf
    <2>2. deployed' \in SUBSET Workloads /\ template' \in [Workloads -> SUBSET Settings]
      BY <1>13, <1>w, ApplyLemma, Zenon DEF ReconcileTrino
    <2> QED
      BY <1>10, <1>13, <2>1, <2>2 DEF ReconcileTrino, TypeOK
  <1>14. CASE PatchStatus
    <2>1. dp' \in Platform
      BY <1>14 DEF PatchStatus, TypeOK, Platform
    <2> QED
      BY <1>14, <2>1, IdleLemma DEF PatchStatus, TypeOK, Pass
  <1>15. CASE StepError
    <2>1. PICK ws \in SUBSET StepWorkloads : Apply(ws)
      BY <1>15 DEF StepError
    <2>2. deployed' \in SUBSET Workloads /\ template' \in [Workloads -> SUBSET Settings]
      BY <2>1, ApplyLemma DEF StepWorkloads
    <2>3. PICK c \in Conditions : Fail(c)
      BY <1>15 DEF StepError, StepConditions
    <2> QED
      BY <1>15, <2>2, <2>3, FailLemma, BudgetLemma DEF StepError, TypeOK
  <1>16. CASE BucketError
    <2>1. deployed' \in SUBSET Workloads /\ template' \in [Workloads -> SUBSET Settings]
      BY <1>16, <1>w, ApplyLemma, Zenon DEF BucketError
    <2>2. job' \in JobStates
      BY <1>16 DEF BucketError, EnsureMinioBucket, JobStates, TypeOK
    <2>3. Fail("MinioReady") /\ "MinioReady" \in Conditions
      BY <1>16 DEF BucketError, Conditions
    <2> QED
      BY <1>16, <2>1, <2>2, <2>3, FailLemma, BudgetLemma DEF BucketError, TypeOK
  <1>17. CASE AccessStoreError
    <2>1. deployed' \in SUBSET Workloads /\ template' \in [Workloads -> SUBSET Settings]
      BY <1>17, ApplyLemma DEF AccessStoreError, StepWorkloads
    <2>2. Fail("OpenFGAReady") /\ "OpenFGAReady" \in Conditions
      BY <1>17 DEF AccessStoreError, Conditions
    <2> QED
      BY <1>17, <2>1, <2>2, FailLemma, BudgetLemma DEF AccessStoreError, TypeOK
  <1>18. CASE WarehouseError
    <2>1. PICK g \in SUBSET CatalogPrincipals(work.spec), ns \in SUBSET {work.spec.warehouse} :
             catalog' = CatalogAfter(g, ns)
      BY <1>18, Zenon DEF WarehouseError
    <2>2. g \in SUBSET Principals /\ ns \in SUBSET WarehouseNames
      BY SpecsAssumption DEF TypeOK, Platform, SpecType, CatalogPrincipals, Principals
    <2>3. catalog' \in Catalog
      BY <2>1, <2>2 DEF CatalogAfter, TypeOK, Catalog
    <2>4. Fail("WarehouseReady") /\ "WarehouseReady" \in Conditions
      BY <1>18 DEF WarehouseError, Conditions
    <2> QED
      BY <1>18, <2>3, <2>4, FailLemma, BudgetLemma DEF WarehouseError, TypeOK
  <1>19. CASE PatchStatusError
    <2>1. dp' \in Platform
      BY <1>19 DEF PatchStatusError, TypeOK, Platform
    <2> QED
      BY <1>19, <2>1, IdleLemma, BudgetLemma DEF PatchStatusError, TypeOK
  <1>20. CASE Crash
    BY <1>20, IdleLemma, BudgetLemma DEF Crash, TypeOK
  <1>21. CASE EditSpec
    <2>1. dp' \in Platform
      <3>1. PICK s \in Specs : dp' = [dp EXCEPT !.spec = s, !.gen = @ + 1]
        BY <1>21 DEF EditSpec
      <3>2. dp.gen + 1 \in 0..MaxGeneration
        BY <1>21, BoundsAssumption DEF EditSpec, TypeOK, Platform
      <3> QED
        BY <3>1, <3>2 DEF TypeOK, Platform
    <2> QED
      BY <1>21, <2>1 DEF EditSpec, workerVars, TypeOK
  <1>22. CASE Watches
    BY <1>22 DEF Watches, DeliverPlatform, DeliverJob, DeliverReadiness, workerVars, TypeOK
  <1>23. CASE OwnedObjectEvent \/ TimerFires
    BY <1>23 DEF OwnedObjectEvent, TimerFires, workerVars, TypeOK
  <1>24. CASE Pods
    BY <1>24, BudgetLemma DEF Pods, PodStarts, PodLost, workerVars, TypeOK
  <1>25. CASE JobSucceeds \/ JobFails \/ JobRemoved
    BY <1>25, BudgetLemma DEF JobSucceeds, JobFails, JobRemoved, JobStates, workerVars, TypeOK
  <1>26. CASE UNCHANGED vars
    BY <1>26 DEF vars, workerVars, TypeOK
  <1> QED
    BY <1>1, <1>2, <1>3, <1>4, <1>5, <1>6, <1>7, <1>8, <1>9, <1>11, <1>12, <1>13,
       <1>14, <1>15, <1>16, <1>17, <1>18, <1>19, <1>20, <1>21, <1>22, <1>23, <1>24,
       <1>25, <1>26, Zenon DEF Next, PassStep, PassError

(* Every variable keeps its type, whatever the specs and the bounds.          *)
THEOREM TypeCorrect == Spec => []TypeOK
  BY TypeInit, TypeStep, PTL DEF Spec
-----------------------------------------------------------------------------
(* Kinds of steps *)

\* A step of a component reconciler, successful or not.
ReconcileStep ==
    \/ SkipLakekeeperStack \/ ReconcilePostgres \/ ReconcileObjectStore
    \/ ReconcileAuth \/ SkipAuthz \/ ReconcileOpenFGA \/ ReconcileLakekeeper
    \/ ReconcileWarehouse \/ SkipTrinoStack \/ ReconcileOPA \/ ReconcileTrino
    \/ StepError \/ BucketError \/ AccessStoreError \/ WarehouseError

\* A step that leaves the worker alone.
Environment ==
    \/ EditSpec \/ Watches \/ OwnedObjectEvent \/ TimerFires \/ Pods
    \/ JobSucceeds \/ JobFails \/ JobRemoved \/ UNCHANGED vars

LEMMA StepKinds ==
    [Next]_vars => \/ Dequeue \/ ReconcileStep \/ PatchStatus \/ PatchStatusError
                   \/ Crash \/ Environment
  BY Zenon DEF Next, PassStep, PassError, ReconcileStep, Environment

(* Component reconcilers work on one copy of the platform: they change its    *)
(* conditions, never its spec or generation, and not the platform itself.     *)
LEMMA ReconcileStepLemma ==
    ASSUME TypeOK, ReconcileStep
    PROVE  /\ pc \in Steps /\ pc' # "idle"
           /\ work'.spec = work.spec /\ work'.gen = work.gen
           /\ UNCHANGED <<dp, cached>>
  <1> USE DEF platformVars
  <1>0. \A c \in Conditions, st \in {"True", "False"} :
           /\ SetCondition(work, c, st) \in Platform
           /\ SetCondition(work, c, st).spec = work.spec
           /\ SetCondition(work, c, st).gen = work.gen
    BY SetConditionLemma DEF TypeOK
  <1>f. ASSUME NEW c \in Conditions, Fail(c)
        PROVE  pc' # "idle" /\ work'.spec = work.spec /\ work'.gen = work.gen
    BY <1>f, FailLemma
  <1>c. ASSUME NEW q \in Platform, Conclude(q)
        PROVE  pc' # "idle" /\ work'.spec = q.spec /\ work'.gen = q.gen
    <2>1. pc' = "patchStatus"
      BY <1>c DEF Conclude, Continue
    <2>2. PICK st \in {"True", "False"} : work' = SetCondition(q, "Ready", st)
      BY <1>c DEF Conclude, Continue, StatusOf
    <2>3. "Ready" \in Conditions
      BY DEF Conditions
    <2> QED
      BY <1>c, <2>1, <2>2, <2>3, SetConditionLemma
  <1>1. CASE SkipLakekeeperStack
    BY <1>1 DEF SkipLakekeeperStack, Continue, Steps, TypeOK, Platform
  <1>2. CASE ReconcilePostgres
    BY <1>2, <1>0, <1>f
    DEF ReconcilePostgres, ReconcileEmbeddedPostgres, ExternalPostgres, Continue, StatusOf,
        Conditions, Steps
  <1>3. CASE ReconcileObjectStore
    BY <1>3, <1>0, <1>f
    DEF ReconcileObjectStore, ReconcileMinio, ExternalObjectStore, Continue, StatusOf,
        Conditions, Steps
  <1>4. CASE ReconcileAuth
    BY <1>4, <1>0, <1>f
    DEF ReconcileAuth, ReconcileKeycloak, ExternalOIDC, Continue, StatusOf, Conditions, Steps
  <1>5. CASE SkipAuthz
    BY <1>5, <1>0, <1>f DEF SkipAuthz, Continue, StatusOf, Conditions, Steps
  <1>6. CASE ReconcileOpenFGA
    BY <1>6, <1>0, <1>f DEF ReconcileOpenFGA, Continue, StatusOf, Conditions, Steps
  <1>7. CASE ReconcileLakekeeper
    BY <1>7, <1>0, <1>f DEF ReconcileLakekeeper, Continue, StatusOf, Conditions, Steps
  <1>8. CASE ReconcileWarehouse
    BY <1>8, <1>0, <1>f DEF ReconcileWarehouse, Continue, StatusOf, Conditions, Steps
  <1>9. CASE SkipTrinoStack
    BY <1>9, <1>0, <1>c DEF SkipTrinoStack, Conditions, Steps
  <1>10. CASE ReconcileOPA
    BY <1>10 DEF ReconcileOPA, Continue, Steps
  <1>11. CASE ReconcileTrino
    BY <1>11, <1>0, <1>c DEF ReconcileTrino, StatusOf, Conditions, Steps
  <1>12. CASE StepError
    BY <1>12, <1>f DEF StepError, StepConditions
  <1>13. CASE BucketError
    BY <1>13, <1>f DEF BucketError, Conditions, Steps
  <1>14. CASE AccessStoreError
    BY <1>14, <1>f DEF AccessStoreError, Conditions, Steps
  <1>15. CASE WarehouseError
    BY <1>15, <1>f DEF WarehouseError, Conditions, Steps
  <1> QED
    BY <1>1, <1>2, <1>3, <1>4, <1>5, <1>6, <1>7, <1>8, <1>9, <1>10, <1>11, <1>12,
       <1>13, <1>14, <1>15, Zenon DEF ReconcileStep

(* The generations, given that a pass ends with Ready observed for its copy.  *)
LEMMA GenerationsStep ==
    ASSUME TypeOK, TypeOK', Generations, PassFacts, [Next]_vars
    PROVE  Generations'
  <1> USE DEF platformVars, workerVars
  <1>t. /\ dp.gen \in Nat /\ cached.gen \in Nat /\ work.gen \in Nat
        /\ dp.conditions["Ready"].gen \in Nat
    BY BoundsAssumption DEF TypeOK, Platform, Condition, Conditions
  <1>1. CASE Dequeue
    BY <1>1, <1>t DEF Dequeue, Continue, Generations
  <1>2. CASE ReconcileStep
    BY <1>2, <1>t, ReconcileStepLemma DEF Generations, Steps
  <1>3. CASE PatchStatus \/ PatchStatusError
    <2>1. /\ pc = "patchStatus" /\ pc' = "idle" /\ cached' = cached
          /\ dp' = dp \/ dp' = [dp EXCEPT !.conditions = work.conditions]
      BY <1>3 DEF PatchStatus, PatchStatusError, EndPass, Continue
    <2>2. dp'.gen = dp.gen /\ dp'.spec = dp.spec
      BY <2>1 DEF TypeOK, Platform
    <2>3. dp'.conditions["Ready"].gen <= cached.gen
      BY <2>1, <1>t DEF Generations, PassFacts, TypeOK, Platform
    <2> QED
      BY <2>1, <2>2, <2>3 DEF Generations
  <1>4. CASE Crash
    BY <1>4, <1>t DEF Crash, EndPass, Continue, Generations
  <1>5. CASE EditSpec
    <2>1. dp'.gen = dp.gen + 1 /\ dp'.conditions = dp.conditions
      BY <1>5 DEF EditSpec, TypeOK, Platform
    <2> QED
      BY <1>5, <2>1, <1>t DEF EditSpec, Generations
  <1>6. CASE DeliverPlatform
    BY <1>6, <1>t DEF DeliverPlatform, Generations
  <1>7. CASE Environment /\ ~EditSpec /\ ~DeliverPlatform
    <2>1. UNCHANGED <<dp, cached, pc, work>>
      BY <1>7 DEF Environment, Watches, DeliverReadiness, DeliverJob, OwnedObjectEvent,
         TimerFires, Pods, PodStarts, PodLost, JobSucceeds, JobFails, JobRemoved, vars
    <2> QED
      BY <2>1 DEF Generations
  <1> QED
    BY <1>1, <1>2, <1>3, <1>4, <1>5, <1>6, <1>7, StepKinds, Zenon

(* What was created, started or told to LakeKeeper stays; a bucket Job that    *)
(* succeeded is never deleted.                                                *)
LEMMA StableLemma ==
    ASSUME TypeOK, [Next]_vars
    PROVE  /\ job = "succeeded" => job' = "succeeded"
           /\ catalog.bootstrapped => catalog'.bootstrapped
           /\ catalog.granted \subseteq catalog'.granted
           /\ catalog.warehouses \subseteq catalog'.warehouses
           /\ deployed \subseteq deployed'
           /\ started \subseteq started'
           /\ accessStore => accessStore'
  <1> USE DEF platformVars, workerVars, queueVars, workloadVars, podVars, jobVars, serviceVars
  <1>a. ASSUME NEW ws, Apply(ws) PROVE deployed \subseteq deployed'
    BY <1>a DEF Apply
  <1>1. CASE Dequeue \/ PatchStatus \/ PatchStatusError \/ Crash
    BY <1>1 DEF Dequeue, PatchStatus, PatchStatusError, Crash
  <1>2. CASE SkipLakekeeperStack \/ SkipAuthz \/ SkipTrinoStack
    BY <1>2 DEF SkipLakekeeperStack, SkipAuthz, SkipTrinoStack
  <1>3. CASE ReconcilePostgres \/ ReconcileAuth \/ ReconcileLakekeeper \/ ReconcileOPA
                \/ ReconcileTrino \/ StepError
    BY <1>3, <1>a
    DEF ReconcilePostgres, ReconcileEmbeddedPostgres, ExternalPostgres, ReconcileAuth,
        ReconcileKeycloak, ExternalOIDC, ReconcileLakekeeper, ReconcileOPA,
       ReconcileTrino, StepError
  <1>4. CASE ReconcileObjectStore \/ BucketError
    BY <1>4, <1>a
    DEF ReconcileObjectStore, ReconcileMinio, ExternalObjectStore, BucketError,
        EnsureMinioBucket
  <1>5. CASE ReconcileOpenFGA \/ AccessStoreError
    BY <1>5, <1>a DEF ReconcileOpenFGA, AccessStoreError
  <1>6. CASE ReconcileWarehouse \/ WarehouseError
    BY <1>6 DEF ReconcileWarehouse, WarehouseError, CatalogAfter
  <1>7. CASE Environment
    <2>1. CASE EditSpec \/ Watches \/ OwnedObjectEvent \/ TimerFires \/ UNCHANGED vars
      <3>1. UNCHANGED <<deployed, started, job, accessStore, catalog>>
        BY <2>1 DEF EditSpec, Watches, DeliverPlatform, DeliverReadiness, DeliverJob,
           OwnedObjectEvent, TimerFires, vars
      <3> QED
        BY <3>1
    <2>2. CASE Pods
      BY <2>2 DEF Pods, PodStarts, PodLost
    <2>3. CASE JobSucceeds \/ JobFails \/ JobRemoved
      BY <2>3 DEF JobSucceeds, JobFails, JobRemoved
    <2> QED
      BY <1>7, <2>1, <2>2, <2>3, Zenon DEF Environment
  <1> QED
    BY <1>1, <1>2, <1>3, <1>4, <1>5, <1>6, <1>7, StepKinds, Zenon DEF ReconcileStep

(* A pass that ends in an error leaves nothing to rely on but Ready False.    *)
LEMMA FailFacts ==
    ASSUME TypeOK, NEW c \in Conditions, Fail(c)
    PROVE  PassFacts'
  BY FailLemma DEF PassFacts, ConditionTrue

(* The facts hold between passes, and while the worker is left alone.         *)
LEMMA PassFactsOutside ==
    ASSUME TypeOK, PassFacts, [Next]_vars,
           pc' = "idle" \/ Dequeue \/ UNCHANGED <<pc, work, pass>>
    PROVE  PassFacts'
  <1>1. CASE pc' = "idle"
    BY <1>1 DEF PassFacts
  <1>2. CASE Dequeue
    BY <1>2 DEF Dequeue, Continue, NoPass, PassFacts
  <1>3. CASE UNCHANGED <<pc, work, pass>>
    BY <1>3, StableLemma DEF PassFacts, Done, AllDone, ConditionTrue, Provisioned
  <1> QED
    BY <1>1, <1>2, <1>3

(* Each component reconciler establishes what the next steps rely on.         *)
LEMMA PassFactsStep ==
    ASSUME TypeOK, PassFacts, History, ReconcileStep, [Next]_vars
    PROVE  PassFacts'
  <1> USE DEF Done, AllDone
  <1>f. ASSUME NEW c \in Conditions, Fail(c) PROVE PassFacts'
    BY <1>f, FailFacts
  <1>0. \A c \in Conditions, st \in {"True", "False"} :
           /\ SetCondition(work, c, st).spec = work.spec
           /\ SetCondition(work, c, st).gen = work.gen
           /\ SetCondition(work, c, st).conditions[c] = [status |-> st, gen |-> work.gen]
           /\ \A d \in Conditions \ {c} :
                 SetCondition(work, c, st).conditions[d] = work.conditions[d]
    <2> TAKE c \in Conditions, st \in {"True", "False"}
    <2> QED
      BY DEF SetCondition, TypeOK, Platform
  <1>1. CASE SkipLakekeeperStack
    <2>1. /\ pc' = "trinoStack" /\ ~work.spec.lakekeeper
          /\ work'.spec = work.spec /\ work'.gen = work.gen
          /\ \A c \in LakekeeperStackConditions :
                work'.conditions[c] = [status |-> "True", gen |-> work.gen]
      BY <1>1 DEF SkipLakekeeperStack, Continue, TypeOK, Platform, Conditions,
         LakekeeperStackConditions
    <2> QED
      BY <2>1 DEF PassFacts, Conditions, LakekeeperStackConditions
  <1>2. CASE ReconcilePostgres
    <2>1. CASE Fail("PostgresReady")
      BY <1>f, <2>1 DEF Conditions
    <2>2. ASSUME NEW st \in {"True", "False"},
                 Continue("storage", SetCondition(work, "PostgresReady", st), pass)
          PROVE  PassFacts'
      <3>1. /\ pc' = "storage" /\ pass' = pass
            /\ work'.spec = work.spec /\ work'.gen = work.gen
            /\ work'.conditions["PostgresReady"] = [status |-> st, gen |-> work.gen]
            /\ \A d \in Conditions \ {"PostgresReady"} :
                  work'.conditions[d] = work.conditions[d]
        BY <1>0, <2>2 DEF Continue, Conditions
      <3> QED
        BY <3>1, <1>2, StableLemma
        DEF ReconcilePostgres, ReconcileEmbeddedPostgres, ExternalPostgres, PassFacts,
            Conditions
    <2> QED
      BY <1>2, <2>1, <2>2
      DEF ReconcilePostgres, ReconcileEmbeddedPostgres, ExternalPostgres, StatusOf
  <1>3. CASE ReconcileObjectStore
    <2>1. CASE Fail("MinioReady")
      BY <1>f, <2>1 DEF Conditions
    <2>2. ASSUME NEW st \in {"True", "False"}, NEW b \in BOOLEAN,
                 Continue("auth", SetCondition(work, "MinioReady", st),
                          [pass EXCEPT !.storeReady = b]),
                 b => st = "True" /\ (work.spec.storage = "embedded" => job = "succeeded")
          PROVE  PassFacts'
      <3>1. /\ pc' = "auth"
            /\ pass'.storeReady = b /\ pass'.authReady = pass.authReady
            /\ pass'.fgaReady = pass.fgaReady /\ pass'.fga = pass.fga
            /\ work'.spec = work.spec /\ work'.gen = work.gen
            /\ work'.conditions["MinioReady"] = [status |-> st, gen |-> work.gen]
            /\ \A d \in Conditions \ {"MinioReady"} :
                  work'.conditions[d] = work.conditions[d]
        BY <1>0, <2>2 DEF Continue, Conditions, TypeOK, Pass
      <3> QED
        BY <3>1, <1>3, <2>2, StableLemma
        DEF ReconcileObjectStore, ReconcileMinio, ExternalObjectStore, PassFacts, Conditions
    <2>3. CASE work.spec.storage = "external"
      BY <1>3, <2>1, <2>2, <2>3 DEF ReconcileObjectStore, ReconcileMinio, ExternalObjectStore
    <2>4. CASE work.spec.storage = "embedded" /\ ~Fail("MinioReady")
      <3> DEFINE b == "minio" \in seen /\ seenJob = "succeeded"
      <3>1. Continue("auth", SetCondition(work, "MinioReady", StatusOf(b)),
                     [pass EXCEPT !.storeReady = b])
        BY <1>3, <2>4, Zenon DEF ReconcileObjectStore, ReconcileMinio, ExternalObjectStore
      <3>2. b \in BOOLEAN
        OBVIOUS
      <3>3. StatusOf(b) \in {"True", "False"} /\ (b => StatusOf(b) = "True")
        BY DEF StatusOf
      <3>4. b => job = "succeeded"
        BY DEF History
      <3> QED
        BY <2>2, <3>1, <3>2, <3>3, <3>4, Zenon
    <2> QED
      BY <1>3, <2>1, <2>3, <2>4 DEF ReconcileObjectStore, ReconcileMinio, ExternalObjectStore
  <1>4. CASE ReconcileAuth
    <2>1. CASE Fail("AuthReady")
      BY <1>f, <2>1 DEF Conditions
    <2>2. ASSUME NEW st \in {"True", "False"}, pc' = "authz",
                 work' = SetCondition(work, "AuthReady", st),
                 pass'.authReady => st = "True",
                 pass'.storeReady = pass.storeReady,
                 pass'.fgaReady = pass.fgaReady, pass'.fga = pass.fga
          PROVE  PassFacts'
      <3>1. /\ work'.spec = work.spec /\ work'.gen = work.gen
            /\ work'.conditions["AuthReady"] = [status |-> st, gen |-> work.gen]
            /\ \A d \in Conditions \ {"AuthReady"} :
                  work'.conditions[d] = work.conditions[d]
        BY <1>0, <2>2 DEF Conditions
      <3> QED
        BY <3>1, <1>4, <2>2, StableLemma
        DEF ReconcileAuth, ReconcileKeycloak, ExternalOIDC, PassFacts, Conditions
    <2>3. ~Fail("AuthReady") =>
             /\ pc' = "authz"
             /\ \E st \in {"True", "False"} :
                   /\ work' = SetCondition(work, "AuthReady", st)
                   /\ pass'.authReady => st = "True"
             /\ pass'.storeReady = pass.storeReady
             /\ pass'.fgaReady = pass.fgaReady /\ pass'.fga = pass.fga
      BY <1>4
      DEF ReconcileAuth, ReconcileKeycloak, ExternalOIDC, Continue, StatusOf, TypeOK, Pass
    <2> QED
      BY <2>1, <2>2, <2>3
  <1>5. CASE SkipAuthz \/ ReconcileOpenFGA
    <2>1. CASE Fail("OpenFGAReady")
      BY <1>f, <2>1 DEF Conditions
    <2>2. ASSUME NEW st \in {"True", "False"}, pc' = "lakekeeper",
                 work' = SetCondition(work, "OpenFGAReady", st),
                 pass'.fgaReady => st = "True",
                 pass'.storeReady = pass.storeReady,
                 pass'.authReady = pass.authReady
          PROVE  PassFacts'
      <3>1. /\ work'.spec = work.spec /\ work'.gen = work.gen
            /\ work'.conditions["OpenFGAReady"] = [status |-> st, gen |-> work.gen]
            /\ \A d \in Conditions \ {"OpenFGAReady"} :
                  work'.conditions[d] = work.conditions[d]
        BY <1>0, <2>2 DEF Conditions
      <3> QED
        BY <3>1, <1>5, <2>2, StableLemma DEF SkipAuthz, ReconcileOpenFGA, PassFacts, Conditions
    <2>3. ~Fail("OpenFGAReady") =>
             /\ pc' = "lakekeeper"
             /\ \E st \in {"True", "False"} :
                   /\ work' = SetCondition(work, "OpenFGAReady", st)
                   /\ pass'.fgaReady => st = "True"
             /\ pass'.storeReady = pass.storeReady
             /\ pass'.authReady = pass.authReady
      BY <1>5 DEF SkipAuthz, ReconcileOpenFGA, Continue, PassFacts, TypeOK, Pass
    <2> QED
      BY <2>1, <2>2, <2>3
  <1>6. CASE ReconcileLakekeeper
    <2> DEFINE st == StatusOf(DeployLakekeeper /\ "lakekeeper" \in seen)
               w == SetCondition(work, "LakekeeperReady", st)
               b == \/ ~ConditionTrue(w, "PostgresReady")
                    \/ ~ConditionTrue(w, "LakekeeperReady")
                    \/ ~pass.authReady \/ ~pass.fgaReady \/ ~pass.storeReady
    <2>1. /\ work' = w
          /\ pc' = IF b THEN "trinoStack" ELSE "warehouse"
          /\ pass' = [pass EXCEPT !.progressing = b]
      BY <1>6 DEF ReconcileLakekeeper, Continue, StatusOf
    <2>2. st \in {"True", "False"}
      BY DEF StatusOf
    <2> HIDE DEF st
    <2>3. /\ w.spec = work.spec /\ w.gen = work.gen
          /\ w.conditions["LakekeeperReady"] = [status |-> st, gen |-> work.gen]
          /\ \A d \in Conditions \ {"LakekeeperReady"} :
                w.conditions[d] = work.conditions[d]
      BY <1>0, <2>2 DEF Conditions
    <2> HIDE DEF w
    <2>4. /\ pass'.progressing <=> b
          /\ pass'.storeReady = pass.storeReady /\ pass'.authReady = pass.authReady
          /\ pass'.fgaReady = pass.fgaReady
      BY <2>1 DEF TypeOK, Pass
    <2>5. CASE b
      BY <2>1, <2>4, <2>5 DEF PassFacts
    <2>6. CASE ~b
      <3>1. w.conditions["PostgresReady"] = [status |-> "True", gen |-> work.gen]
        BY <1>6, <2>3, <2>6
        DEF ReconcileLakekeeper, PassFacts, ConditionTrue, Conditions, TypeOK, Platform,
            Condition
      <3>2. w.conditions["LakekeeperReady"] = [status |-> "True", gen |-> work.gen]
        BY <2>3, <2>6 DEF ConditionTrue
      <3> QED
        BY <1>6, <2>1, <2>3, <2>4, <2>6, <3>1, <3>2, StableLemma
        DEF ReconcileLakekeeper, PassFacts, Conditions
    <2> QED
      BY <2>5, <2>6
  <1>7. CASE ReconcileWarehouse
    <2>1. CASE Fail("WarehouseReady")
      BY <1>f, <2>1 DEF Conditions
    <2>2. CASE ~Fail("WarehouseReady")
      <3>1. /\ pc = "warehouse" /\ pc' = "trinoStack" /\ pass' = pass
            /\ work' = SetCondition(work, "WarehouseReady", "True")
            /\ catalog' = CatalogAfter(CatalogPrincipals(work.spec), {work.spec.warehouse})
        BY <1>7, <2>2 DEF ReconcileWarehouse, Continue
      <3>2. /\ work'.spec = work.spec /\ work'.gen = work.gen
            /\ work'.conditions["WarehouseReady"] = [status |-> "True", gen |-> work.gen]
            /\ \A d \in Conditions \ {"WarehouseReady"} :
                  work'.conditions[d] = work.conditions[d]
        BY <1>0, <3>1 DEF Conditions
      <3>3. Provisioned(work.spec)'
        BY <3>1, <3>2, StableLemma DEF PassFacts, Provisioned, CatalogPrincipals, CatalogAfter
      <3>4. AllDone'
        BY <3>1, <3>2 DEF PassFacts, Conditions
      <3> QED
        BY <3>1, <3>3, <3>4 DEF PassFacts
    <2> QED
      BY <2>1, <2>2
  <1>8. ASSUME pc \in {"trinoStack", "trino"}, NEW st \in {"True", "False"},
               Conclude(SetCondition(work, "TrinoReady", st))
        PROVE  PassFacts'
    <2> DEFINE q == SetCondition(work, "TrinoReady", st)
               b == pass.progressing \/ ~ConditionTrue(q, "TrinoReady")
    <2>0. q \in Platform
      BY SetConditionLemma DEF TypeOK, Conditions
    <2>1. /\ q \in Platform /\ q.spec = work.spec /\ q.gen = work.gen
          /\ q.conditions["TrinoReady"] = [status |-> st, gen |-> work.gen]
          /\ \A d \in Conditions \ {"TrinoReady"} : q.conditions[d] = work.conditions[d]
      BY <1>0, <2>0 DEF Conditions
    <2>2. pc' = "patchStatus" /\ work' = SetCondition(q, "Ready", StatusOf(~b))
      BY <1>8 DEF Conclude, Continue
    <2> HIDE DEF q
    <2>3. /\ work'.spec = work.spec /\ work'.gen = work.gen
          /\ work'.conditions["Ready"] = [status |-> StatusOf(~b), gen |-> work.gen]
          /\ \A d \in Conditions \ {"Ready"} : work'.conditions[d] = q.conditions[d]
      BY <2>1, <2>2 DEF SetCondition, Platform, Conditions
    <2>4. CASE b
      BY <2>2, <2>3, <2>4 DEF PassFacts, ConditionTrue, StatusOf
    <2>5. CASE ~b
      <3>1. st = "True" /\ ~pass.progressing
        BY <2>1, <2>5 DEF ConditionTrue
      <3>2. AllDone /\ (work.spec.lakekeeper => Provisioned(work.spec))
        BY <1>8, <3>1 DEF PassFacts
      <3>3. \A d \in Conditions \ {"TrinoReady", "Ready"} :
               work'.conditions[d] = work.conditions[d]
        BY <2>1, <2>3
      <3>4. AllDone' /\ Done("TrinoReady")'
        BY <2>1, <2>3, <3>1, <3>2, <3>3 DEF Conditions
      <3>5. (work.spec.lakekeeper => Provisioned(work.spec))'
        BY <2>3, <3>2, StableLemma DEF Provisioned
      <3> QED
        BY <2>2, <2>3, <3>4, <3>5 DEF PassFacts
    <2> QED
      BY <2>4, <2>5
  <1>9. CASE SkipTrinoStack
    BY <1>8, <1>9 DEF SkipTrinoStack
  <1>10. CASE ReconcileOPA
    <2>1. pc = "trinoStack" /\ pc' = "trino" /\ UNCHANGED <<work, pass>>
      BY <1>10 DEF ReconcileOPA, Continue
    <2> QED
      BY <2>1, StableLemma DEF PassFacts, Provisioned
  <1>11. CASE ReconcileTrino
    BY <1>8, <1>11 DEF ReconcileTrino, StatusOf
  <1>12. CASE StepError
    BY <1>12, <1>f DEF StepError, StepConditions
  <1>13. CASE BucketError \/ AccessStoreError \/ WarehouseError
    BY <1>13, <1>f DEF BucketError, AccessStoreError, WarehouseError, Conditions
  <1> QED
    BY <1>1, <1>2, <1>3, <1>4, <1>5, <1>6, <1>7, <1>9, <1>10, <1>11, <1>12, <1>13,
       Zenon DEF ReconcileStep

(* A reconcile step changes neither pods nor what the cache shows of them and *)
(* of the bucket Job.                                                         *)
LEMMA ReconcileStepPods ==
    ReconcileStep \/ Dequeue \/ PatchStatus \/ PatchStatusError =>
        UNCHANGED <<ready, started, seen, seenJob>>
  <1> USE DEF podVars, jobVars
  <1>1. CASE SkipLakekeeperStack \/ ReconcilePostgres \/ ReconcileObjectStore \/ ReconcileAuth
    BY <1>1
    DEF SkipLakekeeperStack, ReconcilePostgres, ReconcileEmbeddedPostgres, ExternalPostgres,
        ReconcileObjectStore, ReconcileMinio, ExternalObjectStore, ReconcileAuth,
        ReconcileKeycloak, ExternalOIDC
  <1>2. CASE SkipAuthz \/ ReconcileOpenFGA \/ ReconcileLakekeeper \/ ReconcileWarehouse
    BY <1>2 DEF SkipAuthz, ReconcileOpenFGA, ReconcileLakekeeper, ReconcileWarehouse
  <1>3. CASE SkipTrinoStack \/ ReconcileOPA \/ ReconcileTrino \/ StepError
    BY <1>3 DEF SkipTrinoStack, ReconcileOPA, ReconcileTrino, StepError
  <1>4. CASE BucketError \/ AccessStoreError \/ WarehouseError
    BY <1>4 DEF BucketError, AccessStoreError, WarehouseError
  <1>5. CASE Dequeue \/ PatchStatus \/ PatchStatusError
    BY <1>5 DEF Dequeue, PatchStatus, PatchStatusError
  <1> QED
    BY <1>1, <1>2, <1>3, <1>4, <1>5, Zenon DEF ReconcileStep

(* What the cache and the pass say was true once.                             *)
LEMMA HistoryStep ==
    ASSUME TypeOK, TypeOK', PassFacts, History, [Next]_vars
    PROVE  History'
  <1> USE DEF platformVars, workerVars, queueVars, workloadVars, podVars, jobVars, serviceVars
  <1>1. ReconcileStep => (pass'.fga = pass.fga /\ pass'.fgaReady = pass.fgaReady)
                         \/ SkipAuthz \/ ReconcileOpenFGA
    <2>1. CASE SkipLakekeeperStack \/ ReconcilePostgres \/ ReconcileObjectStore
      BY <2>1, FailLemma
      DEF SkipLakekeeperStack, ReconcilePostgres, ReconcileEmbeddedPostgres, ExternalPostgres,
          ReconcileObjectStore, ReconcileMinio, ExternalObjectStore, Continue, Conditions,
          TypeOK, Pass
    <2>2. CASE ReconcileAuth \/ ReconcileWarehouse \/ ReconcileOPA
      BY <2>2, FailLemma
      DEF ReconcileAuth, ReconcileKeycloak, ExternalOIDC, ReconcileWarehouse, ReconcileOPA,
          Continue, Conditions, TypeOK, Pass
    <2>3. CASE ReconcileLakekeeper \/ SkipTrinoStack \/ ReconcileTrino
      BY <2>3 DEF ReconcileLakekeeper, SkipTrinoStack, ReconcileTrino, Conclude, Continue,
         TypeOK, Pass
    <2>4. CASE StepError \/ BucketError \/ AccessStoreError \/ WarehouseError
      BY <2>4, FailLemma
      DEF StepError, StepConditions, BucketError, AccessStoreError, WarehouseError, Conditions
    <2> QED
      BY <2>1, <2>2, <2>3, <2>4, Zenon DEF ReconcileStep
  <1>2. CASE ReconcileStep
    <2>1. /\ (ready \subseteq started)' /\ (seen \subseteq started)'
          /\ (seenJob = "succeeded" => job = "succeeded")'
      BY <1>2, ReconcileStepPods, StableLemma DEF History
    <2>2. /\ ("enabled" \in pass.fga /\ pass.fgaReady => "openfga" \in started)'
          /\ ("storeID" \in pass.fga => accessStore)'
      <3>1. CASE pass'.fga = pass.fga /\ pass'.fgaReady = pass.fgaReady
        BY <3>1, StableLemma DEF History
      <3>2. CASE SkipAuthz
        BY <3>2, FailLemma, StableLemma
        DEF SkipAuthz, Continue, PassFacts, Conditions, TypeOK, Pass
      <3>3. CASE ReconcileOpenFGA /\ Fail("OpenFGAReady")
        BY <3>3, FailLemma, StableLemma DEF PassFacts, ReconcileOpenFGA, Conditions
      <3>4. CASE ReconcileOpenFGA /\ ~Fail("OpenFGAReady")
        <4>1. /\ pass.fga = {} /\ ~pass.fgaReady
              /\ "openfga" \in seen => "openfga" \in started
          BY <3>4 DEF ReconcileOpenFGA, PassFacts, History
        <4>2. pass'.fgaReady => "openfga" \in seen
          BY <3>4, <4>1 DEF ReconcileOpenFGA, Continue, TypeOK, Pass
        <4>3. \/ accessStore' = TRUE
              \/ pass'.fga = {"enabled"}
              \/ pass'.fga = {"enabled", "opaURL"}
          BY <3>4 DEF ReconcileOpenFGA, Continue, TypeOK, Pass
        <4> QED
          BY <4>1, <4>2, <4>3, StableLemma
      <3> QED
        BY <1>1, <1>2, <3>1, <3>2, <3>3, <3>4
    <2>3. (pc = "trino" /\ TrinoUsesOPA => "opa" \in deployed)'
      <3>1. CASE ReconcileOPA
        <4>1. Apply({x \in {"opa"} : OPAWanted}) /\ UNCHANGED <<work, pass>> /\ work.spec.trino
          BY <3>1 DEF ReconcileOPA, Continue
        <4> QED
          BY <4>1 DEF Apply, OPAWanted, TrinoUsesOPA
      <3>2. CASE SkipLakekeeperStack \/ ReconcilePostgres \/ ReconcileObjectStore \/ ReconcileAuth
        BY <3>2
        DEF SkipLakekeeperStack, ReconcilePostgres, ReconcileEmbeddedPostgres,
            ExternalPostgres, ReconcileObjectStore, ReconcileMinio, ExternalObjectStore,
            ReconcileAuth, ReconcileKeycloak, ExternalOIDC,
           Continue, Fail
      <3>3. CASE SkipAuthz \/ ReconcileOpenFGA \/ ReconcileLakekeeper \/ ReconcileWarehouse
        BY <3>3 DEF SkipAuthz, ReconcileOpenFGA, ReconcileLakekeeper, ReconcileWarehouse,
           Continue, Fail
      <3>4. CASE SkipTrinoStack \/ ReconcileTrino
        BY <3>4 DEF SkipTrinoStack, ReconcileTrino, Conclude, Continue
      <3>5. CASE StepError \/ BucketError \/ AccessStoreError \/ WarehouseError
        BY <3>5 DEF StepError, BucketError, AccessStoreError, WarehouseError, Continue, Fail
      <3> QED
        BY <1>2, <3>1, <3>2, <3>3, <3>4, <3>5, Zenon DEF ReconcileStep
    <2> QED
      BY <2>1, <2>2, <2>3 DEF History
  <1>3. CASE Dequeue \/ PatchStatus \/ PatchStatusError
    <2>1. pass' = NoPass /\ pc' # "trino"
      BY <1>3 DEF Dequeue, PatchStatus, PatchStatusError, EndPass, Continue
    <2> QED
      BY <1>3, <2>1, ReconcileStepPods, StableLemma DEF History, NoPass
  <1>4. CASE Crash
    BY <1>4 DEF Crash, EndPass, Continue, History, NoPass
  <1>5. CASE Environment
    <2>1. /\ (pc' = pc /\ pass' = pass)
          /\ (ready \subseteq started)' /\ (seen \subseteq started)'
          /\ (seenJob = "succeeded" => job = "succeeded")'
      <3>1. CASE EditSpec \/ OwnedObjectEvent \/ TimerFires \/ UNCHANGED vars
        BY <3>1 DEF EditSpec, OwnedObjectEvent, TimerFires, vars, History
      <3>2. CASE Watches
        BY <3>2 DEF Watches, DeliverPlatform, DeliverReadiness, DeliverJob, History
      <3>3. CASE Pods
        BY <3>3 DEF Pods, PodStarts, PodLost, History
      <3>4. CASE JobSucceeds \/ JobFails \/ JobRemoved
        BY <3>4 DEF JobSucceeds, JobFails, JobRemoved, History
      <3> QED
        BY <1>5, <3>1, <3>2, <3>3, <3>4, Zenon DEF Environment
    <2> QED
      BY <2>1, StableLemma DEF History, TrinoUsesOPA
  <1> QED
    BY <1>2, <1>3, <1>4, <1>5, StepKinds, Zenon

-----------------------------------------------------------------------------
(* The safety properties *)

(* When each workload is applied.                                             *)
LEMMA AppliedLemma ==
    ASSUME TypeOK, [Next]_vars
    PROVE  \/ UNCHANGED <<template, deployed>>
           \/ \E ws \in SUBSET Workloads :
                 /\ Apply(ws)
                 /\ "openfga" \in ws => "openfga-postgres" \in seen
                 /\ "lakekeeper" \in ws => DeployLakekeeper
                 /\ "trino" \in ws => pc = "trino"
  <1> DEFINE Applied(ws) ==
                 /\ Apply(ws)
                 /\ "openfga" \in ws => "openfga-postgres" \in seen
                 /\ "lakekeeper" \in ws => DeployLakekeeper
                 /\ "trino" \in ws => pc = "trino"
  <1> USE DEF workloadVars
  <1>1. CASE ReconcilePostgres
    <2>1. UNCHANGED <<template, deployed>> \/ Apply({"postgres"})
      BY <1>1 DEF ReconcilePostgres, ReconcileEmbeddedPostgres, ExternalPostgres
    <2> QED
      BY <2>1 DEF Workloads
  <1>2. CASE ReconcileObjectStore \/ BucketError
    <2>1. UNCHANGED <<template, deployed>> \/ Apply({"minio"})
      BY <1>2 DEF ReconcileObjectStore, ReconcileMinio, ExternalObjectStore, BucketError
    <2> QED
      BY <2>1 DEF Workloads
  <1>3. CASE ReconcileAuth
    <2>1. UNCHANGED <<template, deployed>> \/ Apply({"keycloak"})
      BY <1>3 DEF ReconcileAuth, ReconcileKeycloak, ExternalOIDC
    <2> QED
      BY <2>1 DEF Workloads
  <1>4. CASE ReconcileOpenFGA
    <2>1. \/ Apply({"openfga-postgres"})
          \/ Apply({"openfga-postgres", "openfga"}) /\ "openfga-postgres" \in seen
      BY <1>4 DEF ReconcileOpenFGA
    <2> QED
      BY <2>1 DEF Workloads
  <1>5. CASE ReconcileLakekeeper
    <2>1. Apply({x \in {"lakekeeper"} : DeployLakekeeper})
      BY <1>5 DEF ReconcileLakekeeper
    <2> QED
      BY <2>1 DEF Workloads
  <1>6. CASE ReconcileOPA
    <2>1. Apply({x \in {"opa"} : OPAWanted})
      BY <1>6 DEF ReconcileOPA
    <2> QED
      BY <2>1 DEF Workloads
  <1>7. CASE ReconcileTrino
    <2>1. Apply({"trino"}) /\ pc = "trino"
      BY <1>7 DEF ReconcileTrino
    <2> QED
      BY <2>1 DEF Workloads
  <1>8. CASE StepError
    <2>1. PICK ws \in SUBSET StepWorkloads : Apply(ws)
      BY <1>8 DEF StepError
    <2>2. ws \in SUBSET Workloads
      BY DEF StepWorkloads
    <2> QED
      BY <1>8, <2>1, <2>2 DEF StepError, StepMakesCalls, StepWorkloads
  <1>9. CASE AccessStoreError
    <2>1. Apply(StepWorkloads) /\ "openfga-postgres" \in seen /\ pc = "authz"
      BY <1>9 DEF AccessStoreError
    <2> QED
      BY <2>1 DEF StepWorkloads
  <1>10. CASE \/ SkipLakekeeperStack \/ SkipAuthz \/ ReconcileWarehouse \/ SkipTrinoStack
              \/ WarehouseError \/ Dequeue \/ PatchStatus \/ PatchStatusError \/ Crash
    BY <1>10 DEF SkipLakekeeperStack, SkipAuthz, ReconcileWarehouse, SkipTrinoStack,
       WarehouseError, Dequeue, PatchStatus, PatchStatusError, Crash
  <1>11. CASE Environment
    BY <1>11 DEF Environment, EditSpec, Watches, DeliverPlatform, DeliverReadiness, DeliverJob,
       OwnedObjectEvent, TimerFires, Pods, PodStarts, PodLost, JobSucceeds, JobFails,
       JobRemoved, vars
  <1> QED
    BY <1>1, <1>2, <1>3, <1>4, <1>5, <1>6, <1>7, <1>8, <1>9, <1>10, <1>11, StepKinds, Zenon
    DEF ReconcileStep

(* The bucket Job is only created for a MinIO that was seen ready.            *)
LEMMA StartupJob ==
    ASSUME TypeOK, History, StartupOrder, [Next]_vars
    PROVE  job' # "absent" => "minio" \in started'
  <1> USE DEF jobVars
  <1>1. CASE ReconcileObjectStore \/ BucketError
    BY <1>1, StableLemma
    DEF ReconcileObjectStore, ReconcileMinio, ExternalObjectStore, BucketError,
        EnsureMinioBucket, StartupOrder, History
  <1>2. CASE JobSucceeds \/ JobFails \/ JobRemoved
    BY <1>2, StableLemma DEF JobSucceeds, JobFails, JobRemoved, StartupOrder
  <1>3. CASE \/ SkipLakekeeperStack \/ ReconcilePostgres \/ ReconcileAuth \/ SkipAuthz
             \/ ReconcileOpenFGA \/ ReconcileLakekeeper \/ ReconcileWarehouse
             \/ SkipTrinoStack \/ ReconcileOPA \/ ReconcileTrino \/ StepError
             \/ AccessStoreError \/ WarehouseError \/ Dequeue \/ PatchStatus
             \/ PatchStatusError \/ Crash
    BY <1>3, StableLemma
    DEF SkipLakekeeperStack, ReconcilePostgres, ReconcileEmbeddedPostgres, ExternalPostgres,
        ReconcileAuth, ReconcileKeycloak, ExternalOIDC, SkipAuthz, ReconcileOpenFGA,
        ReconcileLakekeeper, ReconcileWarehouse, SkipTrinoStack, ReconcileOPA, ReconcileTrino,
        StepError, AccessStoreError, WarehouseError, Dequeue, PatchStatus, PatchStatusError,
        Crash, StartupOrder
  <1>4. CASE Environment /\ ~(JobSucceeds \/ JobFails \/ JobRemoved)
    BY <1>4, StableLemma
    DEF Environment, EditSpec, Watches, DeliverPlatform, DeliverReadiness, DeliverJob,
        OwnedObjectEvent, TimerFires, Pods, PodStarts, PodLost, vars, StartupOrder
  <1> QED
    BY <1>1, <1>2, <1>3, <1>4, StepKinds, Zenon DEF ReconcileStep

(* Workloads follow what they need at start-up.                               *)
LEMMA StartupStep ==
    ASSUME TypeOK, History, StartupOrder, [Next]_vars
    PROVE  StartupOrder'
  <1>1. CASE UNCHANGED <<template, deployed>>
    BY <1>1, StableLemma, StartupJob DEF StartupOrder
  <1>2. ASSUME NEW ws \in SUBSET Workloads, Apply(ws),
               "openfga" \in ws => "openfga-postgres" \in seen,
               "lakekeeper" \in ws => DeployLakekeeper
        PROVE  StartupOrder'
    <2>1. ("openfga" \in deployed => "openfga-postgres" \in started)'
      BY <1>2, ApplyLemma, StableLemma DEF StartupOrder, History
    <2>2. ("authz" \in template["lakekeeper"] => "openfga" \in started)'
      <3>1. CASE "lakekeeper" \in ws
        <4>1. template'["lakekeeper"] = Template("lakekeeper")
          BY <1>2, <3>1, ApplyLemma
        <4>2. "authz" \in Template("lakekeeper") => "enabled" \in pass.fga
          BY DEF Template, LakekeeperTemplate, OPATemplate, TrinoTemplate
        <4> QED
          BY <1>2, <3>1, <4>1, <4>2, StableLemma DEF History, DeployLakekeeper
      <3>2. CASE "lakekeeper" \notin ws
        BY <1>2, <3>2, ApplyLemma, StableLemma DEF StartupOrder, Workloads
      <3> QED
        BY <3>1, <3>2
    <2> QED
      BY <2>1, <2>2, StartupJob DEF StartupOrder
  <1> QED
    BY <1>1, <1>2, AppliedLemma

(* Enforcement points are told of OPA and of the access store once they exist.*)
LEMMA EnforcementStep ==
    ASSUME TypeOK, History, EnforcementOrder, [Next]_vars
    PROVE  EnforcementOrder'
  <1>1. CASE UNCHANGED <<template, deployed>>
    BY <1>1, StableLemma DEF EnforcementOrder
  <1>2. ASSUME NEW ws \in SUBSET Workloads, Apply(ws), "trino" \in ws => pc = "trino"
        PROVE  EnforcementOrder'
    <2>1. ("opa" \in template["trino"] => "opa" \in deployed)'
      <3>1. CASE "trino" \in ws
        <4>1. template'["trino"] = Template("trino")
          BY <1>2, <3>1, ApplyLemma
        <4>2. "opa" \in Template("trino") => TrinoUsesOPA
          BY DEF Template, LakekeeperTemplate, OPATemplate, TrinoTemplate
        <4> QED
          BY <1>2, <3>1, <4>1, <4>2, StableLemma DEF History
      <3>2. CASE "trino" \notin ws
        BY <1>2, <3>2, ApplyLemma, StableLemma DEF EnforcementOrder, Workloads
      <3> QED
        BY <3>1, <3>2
    <2>2. ("storeID" \in template["opa"] => accessStore)'
      <3>1. CASE "opa" \in ws
        <4>1. template'["opa"] = Template("opa")
          BY <1>2, <3>1, ApplyLemma
        <4>2. "storeID" \in Template("opa") => "storeID" \in pass.fga
          BY DEF Template, LakekeeperTemplate, OPATemplate, TrinoTemplate
        <4> QED
          BY <4>1, <4>2, StableLemma DEF History
      <3>2. CASE "opa" \notin ws
        BY <1>2, <3>2, ApplyLemma, StableLemma DEF EnforcementOrder, Workloads
      <3> QED
        BY <3>1, <3>2
    <2> QED
      BY <2>1, <2>2 DEF EnforcementOrder
  <1> QED
    BY <1>1, <1>2, AppliedLemma

(* Only the user and patchStatus write the platform.                          *)
LEMMA PlatformWrites ==
    ASSUME TypeOK, [Next]_vars
    PROVE  dp' = dp \/ EditSpec \/ PatchStatus \/ PatchStatusError
  BY StepKinds, ReconcileStepLemma
  DEF Dequeue, Crash, Environment, Watches, DeliverPlatform, DeliverReadiness, DeliverJob,
      OwnedObjectEvent, TimerFires, Pods, PodStarts, PodLost, JobSucceeds, JobFails,
      JobRemoved, platformVars, vars

(* Ready=True is complete and backed by the catalog.                          *)
LEMMA ReadyStep ==
    ASSUME TypeOK, TypeOK', Generations, PassFacts, ReadyIsComplete, ReadyIsProvisioned,
           [Next]_vars
    PROVE  ReadyIsComplete' /\ ReadyIsProvisioned'
  <1>t. /\ dp.gen \in Nat /\ cached.gen \in Nat
        /\ dp.conditions["Ready"].gen \in Nat
    BY BoundsAssumption DEF TypeOK, Platform, Condition, Conditions
  <1>1. CASE dp' = dp
    BY <1>1, StableLemma DEF ReadyIsComplete, ReadyIsProvisioned, ReadyAt, Provisioned
  <1>2. CASE EditSpec
    <2>1. dp'.gen = dp.gen + 1 /\ dp'.conditions = dp.conditions
      BY <1>2 DEF EditSpec, TypeOK, Platform
    <2>2. dp'.conditions["Ready"].gen < dp'.gen
      BY <2>1, <1>t DEF Generations
    <2>3. dp'.conditions["Ready"].gen # dp'.gen
      BY <2>1, <2>2, <1>t
    <2>4. ~ReadyAt(dp)'
      BY <2>3 DEF ReadyAt
    <2> QED
      BY <2>1, <2>3, <2>4 DEF ReadyIsComplete, ReadyIsProvisioned
  <1>3. CASE (PatchStatus \/ PatchStatusError) /\ dp' # dp
    <2>1. pc = "patchStatus" /\ cached = dp /\ dp' = [dp EXCEPT !.conditions = work.conditions]
      BY <1>3 DEF PatchStatus, PatchStatusError
    <2>2. dp'.spec = dp.spec /\ dp'.gen = dp.gen /\ dp'.conditions = work.conditions
      BY <2>1 DEF TypeOK, Platform
    <2>3. work.conditions["Ready"].gen = work.gen
      BY <2>1 DEF PassFacts
    <2>4. work.gen = dp.gen => work.spec = dp.spec
      BY <2>1 DEF Generations
    <2>5. CASE ~ConditionTrue(work, "Ready")
      BY <2>2, <2>5 DEF ReadyIsComplete, ReadyIsProvisioned, ReadyAt, ConditionTrue
    <2>6. CASE ConditionTrue(work, "Ready")
      <3>1. /\ AllDone /\ Done("TrinoReady")
            /\ work.spec.lakekeeper => Provisioned(work.spec)
        BY <2>1, <2>6 DEF PassFacts
      <3>2. work.conditions["Ready"] = [status |-> "True", gen |-> work.gen]
        BY <2>3, <2>6 DEF ConditionTrue, TypeOK, Platform, Condition, Conditions
      <3>3. ReadyIsComplete'
        BY <2>2, <2>4, <3>1, <3>2 DEF ReadyIsComplete, AllDone, Done, Conditions
      <3>4. ReadyIsProvisioned'
        BY <2>2, <2>4, <3>1, <3>2, StableLemma DEF ReadyIsProvisioned, ReadyAt, Provisioned
      <3> QED
        BY <3>3, <3>4
    <2> QED
      BY <2>5, <2>6
  <1> QED
    BY <1>1, <1>2, <1>3, PlatformWrites

LEMMA InvInit == Init => Inv
  <1> SUFFICES ASSUME Init PROVE Inv
    OBVIOUS
  <1>1. TypeOK
    BY TypeInit
  <1>2. /\ dp.conditions["Ready"] = [status |-> "Absent", gen |-> 0]
        /\ dp.gen = 1 /\ cached = dp
    BY DEF Init, NoConditions, Conditions
  <1>3. Generations
    BY <1>2 DEF Init, Generations
  <1>4. PassFacts /\ History
    BY DEF Init, PassFacts, History, NoPass
  <1>5. ReadyIsComplete /\ ReadyIsProvisioned
    BY <1>2 DEF ReadyIsComplete, ReadyIsProvisioned, ReadyAt
  <1>6. StartupOrder /\ EnforcementOrder
    BY DEF Init, StartupOrder, EnforcementOrder, Workloads
  <1> QED
    BY <1>1, <1>3, <1>4, <1>5, <1>6 DEF Inv

LEMMA InvStep == Inv /\ [Next]_vars => Inv'
  <1> SUFFICES ASSUME Inv, [Next]_vars PROVE Inv'
    OBVIOUS
  <1> USE DEF Inv
  <1>1. TypeOK'
    BY TypeStep
  <1>2. Generations'
    BY <1>1, GenerationsStep
  <1>3. PassFacts'
    <2>1. CASE ReconcileStep
      BY <2>1, PassFactsStep
    <2>2. CASE PatchStatus \/ PatchStatusError \/ Crash
      <3>1. pc' = "idle"
        BY <2>2 DEF PatchStatus, PatchStatusError, Crash, EndPass, Continue
      <3> QED
        BY <3>1, PassFactsOutside
    <2>3. CASE Dequeue
      BY <2>3, PassFactsOutside
    <2>4. CASE Environment
      <3>1. UNCHANGED <<pc, work, pass>>
        BY <2>4 DEF Environment, EditSpec, Watches, DeliverPlatform, DeliverReadiness,
           DeliverJob, OwnedObjectEvent, TimerFires, Pods, PodStarts, PodLost, JobSucceeds,
           JobFails, JobRemoved, workerVars, vars
      <3> QED
        BY <3>1, PassFactsOutside
    <2> QED
      BY <2>1, <2>2, <2>3, <2>4, StepKinds
  <1>4. History'
    BY <1>1, HistoryStep
  <1>5. ReadyIsComplete' /\ ReadyIsProvisioned'
    BY <1>1, ReadyStep
  <1>6. StartupOrder' /\ EnforcementOrder'
    BY StartupStep, EnforcementStep
  <1> QED
    BY <1>1, <1>2, <1>3, <1>4, <1>5, <1>6

(* The invariant holds in every state of every behaviour of the controller.   *)
THEOREM Invariance == Spec => []Inv
  BY InvInit, InvStep, PTL DEF Spec

(* A Ready=True is the verdict of one complete pass: reconcile sets or        *)
(* re-sets every condition it answers for before it sets Ready.               *)
THEOREM ReadyComplete == Spec => []ReadyIsComplete
  <1>1. Inv => ReadyIsComplete
    BY DEF Inv
  <1> QED
    BY <1>1, Invariance, PTL

(* A Ready=True for the current generation is backed by the bucket, the       *)
(* bootstrap, the grants and the warehouse of that generation's spec.         *)
THEOREM ReadyProvisioned == Spec => []ReadyIsProvisioned
  <1>1. Inv => ReadyIsProvisioned
    BY DEF Inv
  <1> QED
    BY <1>1, Invariance, PTL

(* Workloads are deployed only after what they need at start-up has been up:  *)
(* the early returns of reconcileOpenFGA and reconcileLakekeeperStack.        *)
THEOREM StartsInOrder == Spec => []StartupOrder
  <1>1. Inv => StartupOrder
    BY DEF Inv
  <1> QED
    BY <1>1, Invariance, PTL

(* Trino and OPA are pointed only at what exists.                             *)
THEOREM EnforcesInOrder == Spec => []EnforcementOrder
  <1>1. Inv => EnforcementOrder
    BY DEF Inv
  <1> QED
    BY <1>1, Invariance, PTL

(* The verdict never goes back to an older generation, and never runs ahead.  *)
THEOREM GenerationAdvances == Spec => ReadyGenerationAdvances
  <1> DEFINE Advances == /\ dp'.conditions["Ready"].gen >= dp.conditions["Ready"].gen
                         /\ dp'.conditions["Ready"].gen <= dp'.gen
  <1>1. ASSUME Inv, Inv', [Next]_vars PROVE Advances
    <2> USE DEF Inv
    <2>t. /\ dp.gen \in Nat /\ dp.conditions["Ready"].gen \in Nat
          /\ dp'.gen \in Nat /\ dp'.conditions["Ready"].gen \in Nat
          /\ cached'.gen \in Nat
      BY <1>1, BoundsAssumption DEF TypeOK, Platform, Condition, Conditions
    <2>1. dp'.conditions["Ready"].gen <= dp'.gen
      BY <1>1, <2>t DEF Generations
    <2>2. dp'.conditions["Ready"].gen >= dp.conditions["Ready"].gen
      <3>1. CASE dp'.conditions = dp.conditions
        BY <2>t, <3>1
      <3>2. CASE PatchStatus \/ PatchStatusError
        BY <1>1, <2>t, <3>2
        DEF PatchStatus, PatchStatusError, PassFacts, Generations, TypeOK, Platform
      <3>3. dp'.conditions = dp.conditions \/ PatchStatus \/ PatchStatusError
        <4>1. CASE EditSpec
          BY <1>1, <4>1 DEF EditSpec, TypeOK, Platform
        <4>2. dp' = dp \/ EditSpec \/ PatchStatus \/ PatchStatusError
          BY <1>1, PlatformWrites
        <4> QED
          BY <4>1, <4>2
      <3> QED
        BY <3>1, <3>2, <3>3
    <2> QED
      BY <2>1, <2>2
  <1>2. Inv /\ Inv' /\ [Next]_vars => [Advances]_vars
    BY <1>1
  <1> QED
    BY <1>2, Invariance, PTL DEF Spec, ReadyGenerationAdvances
=============================================================================
