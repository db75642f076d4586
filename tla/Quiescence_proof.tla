-------------------------- MODULE Quiescence_proof --------------------------
(***************************************************************************)
(* No wake-up is lost: proof that a platform for which nothing is queued,  *)
(* scheduled or undelivered is settled, for every set of specs and every   *)
(* value of the bounds.                                                    *)
(*                                                                         *)
(* The argument is about the last pass.  Nothing has reached the cache     *)
(* since it began, or the platform would be queued; so what it read is     *)
(* what there is.  It did not fail and was not progressing, or the timer   *)
(* would be set; so it found everything ready and configured everything.   *)
(* And its write of the status changed nothing, or the cache would be      *)
(* behind.                                                                 *)
(***************************************************************************)
EXTENDS DataPlatformController_proof

\* The configuration of the authorization that a complete LakeKeeper stack
\* hands on to OPA and Trino.
FGAConfig(s) ==
    IF s.lakekeeper /\ s.authz = "embedded"
    THEN {"enabled", "opaURL"} \cup {x \in {"storeID"} : WantsAccessStore(s)}
    ELSE {}

StackSteps == {"lakekeeperStack", "storage", "auth", "authz", "lakekeeper", "warehouse"}

OPAWired(s) == EnforcedBySpec(s) => (("storeID" \in template["opa"]) <=> s.policies)

\* A pass that misses nothing hands on what its spec asks for, and has
\* configured OPA and Trino accordingly when it ends.
HandedOn ==
    /\ pc \in {"lakekeeperStack", "storage", "auth"} => ~pass.oidc
    /\ pc \in {"authz", "lakekeeper", "warehouse"} => (pass.oidc <=> AuthEnabled(work.spec))
    /\ pc \in {"lakekeeper", "warehouse"} /\ pass.fgaReady => pass.fga = FGAConfig(work.spec)
    /\ pc \in {"trinoStack", "trino"} /\ ~pass.progressing =>
          /\ pass.oidc <=> (work.spec.lakekeeper /\ AuthEnabled(work.spec))
          /\ pass.fga = FGAConfig(work.spec)
    /\ pc = "trino" => work.spec.trino
    /\ pc = "trino" /\ ~pass.progressing => OPAWired(work.spec)
    /\ pc = "patchStatus" /\ ~pass.failed /\ ~pass.progressing =>
          /\ work.conditions["Ready"] = [status |-> "True", gen |-> work.gen]
          /\ Wired(work.spec)

\* The workloads the pass has found ready are seen ready still.
FoundReady ==
    /\ pc \in StackSteps =>
          /\ pass.storeReady /\ work.spec.storage = "embedded" => "minio" \in seen
          /\ pass.authReady /\ work.spec.auth = "embedded" => "keycloak" \in seen
          /\ pass.fgaReady /\ work.spec.authz = "embedded" =>
                {"openfga-postgres", "openfga"} \subseteq seen
    /\ pc \in StackSteps \ {"lakekeeperStack"} =>
          (ConditionTrue(work, "PostgresReady") /\ work.spec.postgres = "embedded"
           => "postgres" \in seen)
    /\ pc = "warehouse" => "lakekeeper" \in seen
    /\ pc \in {"trinoStack", "trino"} /\ ~pass.progressing =>
          Required(work.spec) \ {"trino"} \subseteq seen
    /\ pc = "patchStatus" /\ ~pass.failed /\ ~pass.progressing =>
          Required(work.spec) \subseteq seen

\* Unless the platform is queued again, the pass works on the cache's platform,
\* and what it has found ready is.
NothingNew ==
    ~pending =>
        /\ pc # "idle" => work.spec = cached.spec /\ work.gen = cached.gen
        /\ FoundReady

\* A pass that comes this far has met nothing it cannot resolve.
Feasible ==
    /\ pc \in StackSteps \ {"lakekeeperStack"} => work.spec.postgres # "incomplete"
    /\ pc \in {"auth", "authz", "lakekeeper", "warehouse"} => work.spec.storage # "incomplete"
    /\ pc \in {"authz", "lakekeeper", "warehouse"} => work.spec.auth # "incomplete"
    /\ pc \in {"lakekeeper", "warehouse"} => work.spec.authz # "external"
    /\ pc \in {"trinoStack", "trino"} => Resolvable(work.spec)
    /\ pc = "patchStatus" /\ ~pass.failed => Resolvable(work.spec)

\* Between passes, unless one will come.
AtRest ==
    pc = "idle" /\ ~pending /\ ~timer /\ cached = dp =>
        /\ Resolvable(dp.spec)
        /\ ReadyAt(dp)
        /\ Required(dp.spec) \subseteq seen
        /\ Wired(dp.spec)

QuiescenceInv == Inv /\ HandedOn /\ NothingNew /\ Feasible /\ AtRest
-----------------------------------------------------------------------------
(* What a pass hands on *)

(* What the configuration says, entry by entry.                               *)
LEMMA FGAConfigLemma ==
    \A s :
        /\ "enabled" \in FGAConfig(s) <=> s.lakekeeper /\ s.authz = "embedded"
        /\ "opaURL" \in FGAConfig(s) <=> s.lakekeeper /\ s.authz = "embedded"
        /\ "storeID" \in FGAConfig(s) <=>
              s.lakekeeper /\ s.authz = "embedded" /\ WantsAccessStore(s)
  BY DEF FGAConfig

(* What OPA's template says once a complete pass has applied it.              *)
LEMMA OPAWiredLemma ==
    ASSUME TypeOK, pc = "trinoStack", work.spec.trino,
           pass.oidc <=> (work.spec.lakekeeper /\ AuthEnabled(work.spec)),
           pass.fga = FGAConfig(work.spec),
           Apply({x \in {"opa"} : OPAWanted})
    PROVE  EnforcedBySpec(work.spec) =>
              (("storeID" \in template'["opa"]) <=> work.spec.policies)
  <1> SUFFICES ASSUME EnforcedBySpec(work.spec)
               PROVE  ("storeID" \in template'["opa"]) <=> work.spec.policies
    OBVIOUS
  <1>1. /\ work.spec.lakekeeper /\ work.spec.trino /\ AuthEnabled(work.spec)
        /\ work.spec.authz = "embedded"
    BY DEF EnforcedBySpec
  <1>2. "enabled" \in pass.fga
        /\ ("storeID" \in pass.fga <=> WantsAccessStore(work.spec))
    BY <1>1, FGAConfigLemma
  <1>3. OPAWanted
    BY <1>1, <1>2 DEF OPAWanted
  <1>4. template'["opa"] = Template("opa")
    <2>1. {x \in {"opa"} : OPAWanted} \in SUBSET Workloads /\ "opa" \in Workloads
      BY DEF Workloads
    <2> QED
      BY <1>3, <2>1, ApplyLemma
  <1>5. Template("opa") = OPATemplate
    BY DEF Template
  <1>6. HasAccessPolicies(work.spec) <=> work.spec.policies
    BY <1>1 DEF HasAccessPolicies, AuthzEnabled
  <1>7. WantsAccessStore(work.spec) <=> work.spec.policies
    BY <1>1, <1>6 DEF WantsAccessStore
  <1>8. "storeID" \in OPATemplate <=> HasAccessPolicies(work.spec) /\ "storeID" \in pass.fga
    BY DEF OPATemplate
  <1> QED
    BY <1>2, <1>4, <1>5, <1>6, <1>7, <1>8

(* ... and what Trino's does.                                                 *)
LEMMA TrinoTemplateLemma ==
    /\ "oidc" \in TrinoTemplate <=> pass.oidc
    /\ "opa" \in TrinoTemplate <=> TrinoUsesOPA
    /\ "policies" \in TrinoTemplate <=> TrinoUsesOPA /\ HasAccessPolicies(work.spec)
  BY DEF TrinoTemplate

(* A complete pass over a platform with Trino leaves it wired.                *)
LEMMA WiredLemma ==
    ASSUME TypeOK, work.spec.trino, OPAWired(work.spec),
           pass.oidc <=> (work.spec.lakekeeper /\ AuthEnabled(work.spec)),
           pass.fga = FGAConfig(work.spec),
           Apply({"trino"}),
           NEW s, s = work.spec
    PROVE  Wired(s)'
  <1>1. "trino" \in Workloads /\ "opa" \in Workloads /\ {"trino"} \in SUBSET Workloads
    BY DEF Workloads
  <1>2. template'["trino"] = Template("trino") /\ template'["opa"] = template["opa"]
    BY <1>1, ApplyLemma
  <1>3. Template("trino") = TrinoTemplate
    BY DEF Template
  <1>4. TrinoUsesOPA <=> EnforcedBySpec(work.spec)
    <2>1. /\ "enabled" \in pass.fga <=> work.spec.lakekeeper /\ work.spec.authz = "embedded"
          /\ "opaURL" \in pass.fga <=> work.spec.lakekeeper /\ work.spec.authz = "embedded"
      BY FGAConfigLemma
    <2> QED
      BY <2>1 DEF TrinoUsesOPA, EnforcedBySpec
  <1>5. EnforcedBySpec(work.spec) => (HasAccessPolicies(work.spec) <=> work.spec.policies)
    BY DEF EnforcedBySpec, HasAccessPolicies, AuthzEnabled
  <1>6. /\ ("opa" \in template'["trino"]) <=> EnforcedBySpec(work.spec)
        /\ ("policies" \in template'["trino"]) <=> (EnforcedBySpec(work.spec) /\ work.spec.policies)
        /\ ("oidc" \in template'["trino"]) <=> (work.spec.lakekeeper /\ AuthEnabled(work.spec))
    BY <1>2, <1>3, <1>4, <1>5, TrinoTemplateLemma
  <1> QED
    BY <1>2, <1>6 DEF Wired, OPAWired

(* The verdict of a pass that is not progressing.                             *)
LEMMA ConcludeLemma ==
    ASSUME TypeOK, NEW st \in {"True", "False"},
           Conclude(SetCondition(work, "TrinoReady", st))
    PROVE  /\ pc' = "patchStatus" /\ pass' \in Pass
           /\ work'.spec = work.spec /\ work'.gen = work.gen
           /\ ~pass'.progressing =>
                 /\ ~pass.progressing /\ st = "True"
                 /\ work'.conditions["Ready"] = [status |-> "True", gen |-> work'.gen]
  <1> DEFINE w == SetCondition(work, "TrinoReady", st)
             progressing == pass.progressing \/ ~ConditionTrue(w, "TrinoReady")
  <1>1. "TrinoReady" \in Conditions /\ "Ready" \in Conditions
    BY DEF Conditions
  <1>2. /\ w \in Platform /\ w.spec = work.spec /\ w.gen = work.gen
        /\ w.conditions["TrinoReady"] = [status |-> st, gen |-> work.gen]
    <2>1. work \in Platform /\ work.gen \in 0..MaxGeneration
      BY DEF TypeOK, Platform
    <2>2. w \in Platform
      BY <1>1, <2>1 DEF SetCondition, Platform, Condition
    <2> QED
      BY <1>1, <2>1, <2>2 DEF SetCondition, Platform
  <1>3. ConditionTrue(w, "TrinoReady") <=> st = "True"
    BY <1>2 DEF ConditionTrue
  <1>4. /\ pc' = "patchStatus"
        /\ work' = SetCondition(w, "Ready", StatusOf(~progressing))
        /\ pass' = [pass EXCEPT !.progressing = progressing]
    BY DEF Conclude, Continue
  <1>5. progressing \in BOOLEAN /\ (~progressing => ~pass.progressing /\ st = "True")
    BY <1>3
  <1> HIDE DEF w, progressing
  <1>6. /\ StatusOf(~progressing) \in {"True", "False"}
        /\ ~progressing => StatusOf(~progressing) = "True"
    BY DEF StatusOf
  <1>7. /\ work'.spec = work.spec /\ work'.gen = work.gen
        /\ work'.conditions["Ready"] = [status |-> StatusOf(~progressing), gen |-> work.gen]
    <2>1. \A v \in {"True", "False"} :
             /\ SetCondition(w, "Ready", v).spec = w.spec
             /\ SetCondition(w, "Ready", v).gen = w.gen
             /\ SetCondition(w, "Ready", v).conditions["Ready"] = [status |-> v, gen |-> w.gen]
      BY <1>1, <1>2, SetConditionLemma
    <2> QED
      BY <1>2, <1>4, <1>6, <2>1
  <1>8. pass' \in Pass /\ pass'.progressing = progressing
    BY <1>4, <1>5 DEF TypeOK, Pass
  <1> QED
    BY <1>4, <1>5, <1>6, <1>7, <1>8
-----------------------------------------------------------------------------
(* What each component reconciler hands on, unless it fails *)

\* The pass is over: a step of it returned an error.
Failed == pc = "patchStatus" /\ pass.failed

(* An error of any step is such an end.                                       *)
LEMMA FailedLemma ==
    ASSUME TypeOK, NEW c, Fail(c) PROVE Failed'
  BY DEF Fail, Continue, Failed, TypeOK, Pass

(* Later steps set conditions of their own.                                   *)
LEMMA PostgresConditionLemma ==
    ASSUME TypeOK, NEW c \in Conditions \ {"PostgresReady"}, NEW st \in {"True", "False"}
    PROVE  ConditionTrue(SetCondition(work, c, st), "PostgresReady")
              <=> ConditionTrue(work, "PostgresReady")
  <1>1. "PostgresReady" \in Conditions \ {c}
    BY DEF Conditions
  <1> QED
    BY <1>1 DEF SetCondition, ConditionTrue, TypeOK, Platform

(* PostgresReady is True only over a Postgres seen ready.                     *)
LEMMA PostgresStep ==
    ASSUME TypeOK, ReconcilePostgres, ~Failed'
    PROVE  /\ pc = "lakekeeperStack" /\ pc' = "storage" /\ pass' = pass
           /\ UNCHANGED seen /\ work.spec.postgres # "incomplete"
           /\ ConditionTrue(work', "PostgresReady") /\ work.spec.postgres = "embedded"
              => "postgres" \in seen
  <1> USE DEF podVars
  <1>0. "PostgresReady" \in Conditions
    BY DEF Conditions
  <1>1. ~Fail("PostgresReady")
    BY FailedLemma
  <1>2. CASE ReconcileEmbeddedPostgres
    <2>1. \A v \in {"True", "False"} :
             SetCondition(work, "PostgresReady", v).conditions["PostgresReady"].status = v
      BY <1>0 DEF SetCondition, TypeOK, Platform
    <2>2. work' = SetCondition(work, "PostgresReady", StatusOf("postgres" \in seen))
      BY <1>2 DEF ReconcileEmbeddedPostgres, Continue
    <2>3. StatusOf("postgres" \in seen) \in {"True", "False"}
          /\ (StatusOf("postgres" \in seen) = "True" => "postgres" \in seen)
      BY DEF StatusOf
    <2>4. ConditionTrue(work', "PostgresReady") => "postgres" \in seen
      BY <2>1, <2>2, <2>3 DEF ConditionTrue
    <2> QED
      BY <1>2, <2>4 DEF ReconcilePostgres, ReconcileEmbeddedPostgres, Continue
  <1>3. CASE ExternalPostgres
    BY <1>1, <1>3 DEF ReconcilePostgres, ExternalPostgres, Continue
  <1> QED
    BY <1>2, <1>3 DEF ReconcilePostgres

(* So is the result of the object store.                                      *)
LEMMA ObjectStoreStep ==
    ASSUME TypeOK, ReconcileObjectStore, ~Failed'
    PROVE  /\ pc = "storage" /\ pc' = "auth"
           /\ UNCHANGED seen /\ work.spec.storage # "incomplete"
           /\ pass'.oidc = pass.oidc /\ pass'.authReady = pass.authReady
           /\ pass'.fgaReady = pass.fgaReady /\ pass'.fga = pass.fga
           /\ pass'.storeReady /\ work.spec.storage = "embedded" => "minio" \in seen
           /\ ConditionTrue(work', "PostgresReady") <=> ConditionTrue(work, "PostgresReady")
  <1> USE DEF podVars
  <1>0. "MinioReady" \in Conditions \ {"PostgresReady"}
    BY DEF Conditions
  <1>1. ~Fail("MinioReady")
    BY FailedLemma
  <1>2. CASE ReconcileMinio
    <2> DEFINE ok == "minio" \in seen /\ seenJob = "succeeded"
    <2>1. Continue("auth", SetCondition(work, "MinioReady", StatusOf(ok)),
                   [pass EXCEPT !.storeReady = ok])
      BY <1>1, <1>2 DEF ReconcileMinio
    <2>2. StatusOf(ok) \in {"True", "False"}
      BY DEF StatusOf
    <2>3. ok \in BOOLEAN /\ (ok => "minio" \in seen)
      OBVIOUS
    <2> HIDE DEF ok
    <2>4. ConditionTrue(work', "PostgresReady") <=> ConditionTrue(work, "PostgresReady")
      BY <1>0, <2>1, <2>2, PostgresConditionLemma DEF Continue
    <2>5. /\ pass'.oidc = pass.oidc /\ pass'.authReady = pass.authReady
          /\ pass'.fgaReady = pass.fgaReady /\ pass'.fga = pass.fga
          /\ pass'.storeReady = ok
      BY <2>1 DEF Continue, TypeOK, Pass
    <2> QED
      BY <1>2, <2>1, <2>3, <2>4, <2>5 DEF ReconcileObjectStore, ReconcileMinio, Continue
  <1>3. CASE ExternalObjectStore
    <2>1. /\ work.spec.storage = "external"
          /\ Continue("auth", SetCondition(work, "MinioReady", "True"),
                      [pass EXCEPT !.storeReady = TRUE])
      BY <1>1, <1>3 DEF ExternalObjectStore
    <2>2. ConditionTrue(work', "PostgresReady") <=> ConditionTrue(work, "PostgresReady")
      BY <1>0, <2>1, PostgresConditionLemma DEF Continue
    <2>3. /\ pass'.oidc = pass.oidc /\ pass'.authReady = pass.authReady
          /\ pass'.fgaReady = pass.fgaReady /\ pass'.fga = pass.fga
      BY <2>1 DEF Continue, TypeOK, Pass
    <2> QED
      BY <2>1, <2>2, <2>3 DEF ReconcileObjectStore, Continue
  <1> QED
    BY <1>2, <1>3 DEF ReconcileObjectStore

(* The OIDC configuration is handed on whether or not Keycloak is ready.      *)
LEMMA AuthStep ==
    ASSUME TypeOK, ReconcileAuth, ~Failed'
    PROVE  /\ pc = "auth" /\ pc' = "authz"
           /\ UNCHANGED seen /\ work.spec.auth # "incomplete"
           /\ pass'.oidc <=> (pass.oidc \/ AuthEnabled(work.spec))
           /\ pass'.storeReady = pass.storeReady
           /\ pass'.fgaReady = pass.fgaReady /\ pass'.fga = pass.fga
           /\ pass'.authReady /\ work.spec.auth = "embedded" => "keycloak" \in seen
           /\ ConditionTrue(work', "PostgresReady") <=> ConditionTrue(work, "PostgresReady")
  <1> USE DEF podVars
  <1>0. "AuthReady" \in Conditions \ {"PostgresReady"}
    BY DEF Conditions
  <1>1. ~Fail("AuthReady")
    BY FailedLemma
  <1>2. CASE work.spec.auth = "disabled"
    <2>1. Continue("authz", SetCondition(work, "AuthReady", "True"),
                   [pass EXCEPT !.authReady = TRUE])
      BY <1>2 DEF ReconcileAuth, ReconcileKeycloak, ExternalOIDC
    <2>2. ConditionTrue(work', "PostgresReady") <=> ConditionTrue(work, "PostgresReady")
      BY <1>0, <2>1, PostgresConditionLemma DEF Continue
    <2>3. /\ pass'.oidc = pass.oidc /\ pass'.storeReady = pass.storeReady
          /\ pass'.fgaReady = pass.fgaReady /\ pass'.fga = pass.fga
      BY <2>1 DEF Continue, TypeOK, Pass
    <2> QED
      BY <1>2, <2>1, <2>2, <2>3 DEF ReconcileAuth, Continue, AuthEnabled
  <1>3. CASE ReconcileKeycloak
    <2> DEFINE ok == "keycloak" \in seen
    <2>1. /\ work.spec.auth = "embedded"
          /\ Continue("authz", SetCondition(work, "AuthReady", StatusOf(ok)),
                      [pass EXCEPT !.oidc = TRUE, !.authReady = ok])
      BY <1>3 DEF ReconcileKeycloak
    <2>2. StatusOf(ok) \in {"True", "False"}
      BY DEF StatusOf
    <2>3. ConditionTrue(work', "PostgresReady") <=> ConditionTrue(work, "PostgresReady")
      BY <1>0, <2>1, <2>2, PostgresConditionLemma DEF Continue
    <2> HIDE DEF ok
    <2>4. /\ pass'.oidc /\ pass'.storeReady = pass.storeReady
          /\ pass'.fgaReady = pass.fgaReady /\ pass'.fga = pass.fga
          /\ pass'.authReady = ok
      BY <2>1 DEF Continue, TypeOK, Pass
    <2> QED
      BY <2>1, <2>3, <2>4 DEF ReconcileAuth, Continue, AuthEnabled, ok
  <1>4. CASE ExternalOIDC
    <2>1. /\ work.spec.auth = "external"
          /\ Continue("authz", SetCondition(work, "AuthReady", "True"),
                      [pass EXCEPT !.oidc = TRUE, !.authReady = TRUE])
      BY <1>1, <1>4 DEF ExternalOIDC
    <2>2. ConditionTrue(work', "PostgresReady") <=> ConditionTrue(work, "PostgresReady")
      BY <1>0, <2>1, PostgresConditionLemma DEF Continue
    <2>3. /\ pass'.oidc /\ pass'.storeReady = pass.storeReady
          /\ pass'.fgaReady = pass.fgaReady /\ pass'.fga = pass.fga
      BY <2>1 DEF Continue, TypeOK, Pass
    <2> QED
      BY <2>1, <2>2, <2>3 DEF ReconcileAuth, Continue, AuthEnabled
  <1> QED
    BY <1>2, <1>3, <1>4 DEF ReconcileAuth

(* Without authorization there is nothing to hand on.                         *)
LEMMA SkipAuthzStep ==
    ASSUME TypeOK, PassFacts, SkipAuthz, ~Failed'
    PROVE  /\ pc = "authz" /\ pc' = "lakekeeper"
           /\ UNCHANGED seen
           /\ pass'.oidc = pass.oidc
           /\ pass'.storeReady = pass.storeReady /\ pass'.authReady = pass.authReady
           /\ pass'.fga = FGAConfig(work.spec)
           /\ work.spec.authz = "disabled"
           /\ ConditionTrue(work', "PostgresReady") <=> ConditionTrue(work, "PostgresReady")
  <1> USE DEF podVars
  <1>0. "OpenFGAReady" \in Conditions \ {"PostgresReady"}
    BY DEF Conditions
  <1>1. ~Fail("OpenFGAReady")
    BY FailedLemma
  <1>2. /\ pc = "authz" /\ work.spec.authz = "disabled"
        /\ Continue("lakekeeper", SetCondition(work, "OpenFGAReady", "True"),
                    [pass EXCEPT !.fgaReady = TRUE])
    BY <1>1 DEF SkipAuthz
  <1>3. ConditionTrue(work', "PostgresReady") <=> ConditionTrue(work, "PostgresReady")
    BY <1>0, <1>2, PostgresConditionLemma DEF Continue
  <1>4. /\ pass'.oidc = pass.oidc /\ pass'.storeReady = pass.storeReady
        /\ pass'.authReady = pass.authReady /\ pass'.fga = {}
    BY <1>2 DEF Continue, TypeOK, Pass, PassFacts
  <1>5. FGAConfig(work.spec) = {}
    BY <1>2 DEF FGAConfig
  <1> QED
    BY <1>2, <1>3, <1>4, <1>5 DEF SkipAuthz, Continue

(* OpenFGA is reported ready only with its whole configuration.               *)
LEMMA OpenFGAStep ==
    ASSUME TypeOK, PassFacts, ReconcileOpenFGA, ~Failed'
    PROVE  /\ pc = "authz" /\ pc' = "lakekeeper"
           /\ UNCHANGED seen /\ work.spec.authz = "embedded"
           /\ pass'.oidc = pass.oidc
           /\ pass'.storeReady = pass.storeReady /\ pass'.authReady = pass.authReady
           /\ pass'.fgaReady => /\ pass'.fga = FGAConfig(work.spec)
                                /\ {"openfga-postgres", "openfga"} \subseteq seen
           /\ ConditionTrue(work', "PostgresReady") <=> ConditionTrue(work, "PostgresReady")
  <1> USE DEF podVars
  <1>0. "OpenFGAReady" \in Conditions \ {"PostgresReady"}
    BY DEF Conditions
  <1>1. ~Fail("OpenFGAReady")
    BY FailedLemma
  <1>2. PICK st \in {"True", "False"} : work' = SetCondition(work, "OpenFGAReady", st)
    BY <1>1 DEF ReconcileOpenFGA, Continue
  <1>3. ConditionTrue(work', "PostgresReady") <=> ConditionTrue(work, "PostgresReady")
    BY <1>0, <1>2, PostgresConditionLemma
  <1>4. /\ pc = "authz" /\ pc' = "lakekeeper" /\ UNCHANGED seen
        /\ work.spec.authz = "embedded" /\ work.spec.lakekeeper /\ ~pass.fgaReady
    BY <1>1 DEF ReconcileOpenFGA, Continue, PassFacts
  <1>5. /\ pass'.oidc = pass.oidc
        /\ pass'.storeReady = pass.storeReady /\ pass'.authReady = pass.authReady
    BY <1>1 DEF ReconcileOpenFGA, Continue, TypeOK, Pass
  <1>6. pass'.fgaReady =>
           /\ {"openfga-postgres", "openfga"} \subseteq seen
           /\ \/ pass'.fga = {"enabled", "opaURL"} /\ ~WantsAccessStore(work.spec)
              \/ pass'.fga = {"enabled", "opaURL", "storeID"} /\ WantsAccessStore(work.spec)
    BY <1>1, <1>4 DEF ReconcileOpenFGA, Continue, TypeOK, Pass
  <1>7. /\ ~WantsAccessStore(work.spec) => FGAConfig(work.spec) = {"enabled", "opaURL"}
        /\ WantsAccessStore(work.spec) =>
              FGAConfig(work.spec) = {"enabled", "opaURL", "storeID"}
    BY <1>4 DEF FGAConfig
  <1> QED
    BY <1>3, <1>4, <1>5, <1>6, <1>7

(* The warehouse is ensured only over a LakeKeeper seen ready.                *)
LEMMA LakekeeperStep ==
    ASSUME TypeOK, ReconcileLakekeeper
    PROVE  /\ pc = "lakekeeper" /\ pc' \in {"warehouse", "trinoStack"}
           /\ UNCHANGED seen
           /\ pass'.oidc = pass.oidc /\ pass'.fga = pass.fga
           /\ pass'.storeReady = pass.storeReady /\ pass'.authReady = pass.authReady
           /\ pass'.fgaReady = pass.fgaReady
           /\ pc' = "trinoStack" => pass'.progressing
           /\ pc' = "warehouse" => "lakekeeper" \in seen
           /\ ConditionTrue(work', "PostgresReady") <=> ConditionTrue(work, "PostgresReady")
  <1> USE DEF podVars
  <1> DEFINE ok == DeployLakekeeper /\ "lakekeeper" \in seen
             w == SetCondition(work, "LakekeeperReady", StatusOf(ok))
             b == \/ ~ConditionTrue(w, "PostgresReady")
                  \/ ~ConditionTrue(w, "LakekeeperReady")
                  \/ ~pass.authReady \/ ~pass.fgaReady \/ ~pass.storeReady
  <1>0. /\ "LakekeeperReady" \in Conditions \ {"PostgresReady"}
        /\ StatusOf(ok) \in {"True", "False"}
        /\ StatusOf(ok) = "True" => "lakekeeper" \in seen
    BY DEF Conditions, StatusOf
  <1>1. /\ pc = "lakekeeper"
        /\ Continue(IF b THEN "trinoStack" ELSE "warehouse", w,
                    [pass EXCEPT !.progressing = b])
        /\ UNCHANGED seen
    BY DEF ReconcileLakekeeper
  <1>2. ConditionTrue(w, "LakekeeperReady") => StatusOf(ok) = "True"
    BY <1>0 DEF SetCondition, ConditionTrue, TypeOK, Platform
  <1>3. ConditionTrue(w, "PostgresReady") <=> ConditionTrue(work, "PostgresReady")
    BY <1>0, PostgresConditionLemma
  <1>4. ~b => "lakekeeper" \in seen
    BY <1>0, <1>2
  <1>5. b \in BOOLEAN
    OBVIOUS
  <1> HIDE DEF b, w, ok
  <1>6. /\ pass'.oidc = pass.oidc /\ pass'.fga = pass.fga
        /\ pass'.storeReady = pass.storeReady /\ pass'.authReady = pass.authReady
        /\ pass'.fgaReady = pass.fgaReady /\ pass'.progressing = b
    BY <1>1 DEF Continue, TypeOK, Pass
  <1> QED
    BY <1>1, <1>3, <1>4, <1>5, <1>6 DEF Continue

(* The warehouse step hands on what it was given.                             *)
LEMMA WarehouseStep ==
    ASSUME TypeOK, ReconcileWarehouse, ~Failed'
    PROVE  pc = "warehouse" /\ pc' = "trinoStack" /\ pass' = pass /\ UNCHANGED seen
  BY FailedLemma DEF ReconcileWarehouse, Continue, podVars

-----------------------------------------------------------------------------
(* The invariant is preserved, part by part *)

(* Trino's stack ends the pass and, if it is not progressing, has wired it.   *)
LEMMA TrinoStep ==
    ASSUME TypeOK, HandedOn, SkipTrinoStack \/ ReconcileTrino
    PROVE  /\ pc \in {"trinoStack", "trino"} /\ pc' = "patchStatus"
           /\ UNCHANGED seen
           /\ work'.spec = work.spec /\ work'.gen = work.gen
           /\ ~pass'.progressing =>
                 /\ ~pass.progressing
                 /\ "trino" \in Required(work.spec) => "trino" \in seen
                 /\ work'.conditions["Ready"] = [status |-> "True", gen |-> work'.gen]
                 /\ \A s : s = work.spec => Wired(s)'
  <1> USE DEF podVars
  <1>1. CASE SkipTrinoStack
    <2>1. /\ pc = "trinoStack" /\ ~work.spec.trino /\ UNCHANGED seen
          /\ Conclude(SetCondition(work, "TrinoReady", "True"))
      BY <1>1 DEF SkipTrinoStack
    <2>2. "trino" \notin Required(work.spec)
      BY <2>1 DEF Required
    <2>3. ASSUME NEW s, s = work.spec PROVE Wired(s)'
      BY <2>1, <2>3 DEF Wired
    <2> QED
      BY <2>1, <2>2, <2>3, ConcludeLemma
  <1>2. CASE ReconcileTrino
    <2> DEFINE st == StatusOf("trino" \in seen)
    <2>1. /\ pc = "trino" /\ UNCHANGED seen /\ Apply({"trino"})
          /\ Conclude(SetCondition(work, "TrinoReady", st))
      BY <1>2 DEF ReconcileTrino
    <2>2. st \in {"True", "False"} /\ (st = "True" => "trino" \in seen)
      BY DEF StatusOf
    <2> HIDE DEF st
    <2>3. /\ pc' = "patchStatus"
          /\ work'.spec = work.spec /\ work'.gen = work.gen
          /\ ~pass'.progressing =>
                /\ ~pass.progressing /\ st = "True"
                /\ work'.conditions["Ready"] = [status |-> "True", gen |-> work'.gen]
      BY <2>1, <2>2, ConcludeLemma
    <2>4. ~pass.progressing =>
             /\ work.spec.trino /\ OPAWired(work.spec) /\ pass.fga = FGAConfig(work.spec)
             /\ pass.oidc <=> (work.spec.lakekeeper /\ AuthEnabled(work.spec))
      BY <2>1 DEF HandedOn
    <2>5. ASSUME ~pass.progressing, NEW s, s = work.spec PROVE Wired(s)'
      BY <2>1, <2>4, <2>5, WiredLemma
    <2> QED
      BY <2>1, <2>2, <2>3, <2>5
  <1> QED
    BY <1>1, <1>2

(* Each reconciler completes what was handed on.                              *)
LEMMA HandedOnReconcile ==
    ASSUME TypeOK, PassFacts, HandedOn, ReconcileStep, ~Failed'
    PROVE  HandedOn'
  <1>0. work'.spec = work.spec
    BY ReconcileStepLemma
  <1>1. CASE SkipLakekeeperStack
    <2>1. /\ pc = "lakekeeperStack" /\ pc' = "trinoStack" /\ pass' = pass
          /\ ~work.spec.lakekeeper
      BY <1>1 DEF SkipLakekeeperStack, Continue
    <2>2. pass.fga = FGAConfig(work.spec)
      BY <2>1 DEF PassFacts, FGAConfig
    <2> QED
      BY <1>0, <2>1, <2>2 DEF HandedOn
  <1>2. CASE ReconcilePostgres
    BY <1>2, PostgresStep DEF HandedOn
  <1>3. CASE ReconcileObjectStore
    BY <1>3, ObjectStoreStep DEF HandedOn
  <1>4. CASE ReconcileAuth
    BY <1>0, <1>4, AuthStep DEF HandedOn
  <1>5. CASE SkipAuthz
    BY <1>0, <1>5, SkipAuthzStep DEF HandedOn
  <1>6. CASE ReconcileOpenFGA
    BY <1>0, <1>6, OpenFGAStep DEF HandedOn
  <1>7. CASE ReconcileLakekeeper
    BY <1>0, <1>7, LakekeeperStep DEF HandedOn
  <1>8. CASE ReconcileWarehouse
    BY <1>0, <1>8, WarehouseStep DEF HandedOn, PassFacts
  <1>9. CASE SkipTrinoStack \/ ReconcileTrino
    <2>1. /\ pc' = "patchStatus"
          /\ ~pass'.progressing =>
                /\ work'.conditions["Ready"] = [status |-> "True", gen |-> work'.gen]
                /\ \A s : s = work.spec => Wired(s)'
      BY <1>9, TrinoStep
    <2>2. ~pass'.progressing => Wired(work.spec)'
      <3>1. ASSUME NEW s, s = work.spec, Wired(s)' PROVE Wired(work.spec)'
        BY <1>0, <3>1 DEF Wired
      <3> QED
        BY <2>1, <3>1
    <2> QED
      BY <2>1, <2>2 DEF HandedOn
  <1>10. CASE ReconcileOPA
    <2>1. /\ pc = "trinoStack" /\ pc' = "trino" /\ work.spec.trino
          /\ work' = work /\ pass' = pass /\ Apply({x \in {"opa"} : OPAWanted})
      BY <1>10 DEF ReconcileOPA, Continue
    <2>2. ~pass.progressing => OPAWired(work.spec)'
      BY <2>1, OPAWiredLemma DEF HandedOn, OPAWired, EnforcedBySpec
    <2> QED
      BY <2>1, <2>2 DEF HandedOn
  <1>11. CASE StepError \/ BucketError \/ AccessStoreError \/ WarehouseError
    <2>1. PICK c : Fail(c)
      BY <1>11 DEF StepError, BucketError, AccessStoreError, WarehouseError
    <2> QED
      BY <2>1, FailedLemma
  <1> QED
    BY <1>1, <1>2, <1>3, <1>4, <1>5, <1>6, <1>7, <1>8, <1>9, <1>10, <1>11, Zenon
    DEF ReconcileStep

(* Steps that leave the worker alone.                                         *)
LEMMA EnvironmentLemma ==
    Environment => UNCHANGED <<pc, work, pass, template>>
  BY DEF Environment, EditSpec, Watches, DeliverPlatform, DeliverReadiness, DeliverJob,
     OwnedObjectEvent, TimerFires, Pods, PodStarts, PodLost, JobSucceeds, JobFails,
     JobRemoved, vars, workerVars, workloadVars

(* HandedOn is inductive, given what each step relies on.                     *)
LEMMA HandedOnStep ==
    ASSUME TypeOK, PassFacts, HandedOn, [Next]_vars
    PROVE  HandedOn'
  <1>1. CASE Dequeue
    BY <1>1 DEF Dequeue, Continue, NoPass, HandedOn
  <1>2. CASE ReconcileStep /\ Failed'
    BY <1>2 DEF HandedOn, Failed
  <1>3. CASE ReconcileStep /\ ~Failed'
    BY <1>3, HandedOnReconcile
  <1>4. CASE PatchStatus \/ PatchStatusError \/ Crash
    BY <1>4 DEF PatchStatus, PatchStatusError, Crash, EndPass, Continue, HandedOn
  <1>5. CASE Environment
    BY <1>5, EnvironmentLemma DEF HandedOn, OPAWired, Wired
  <1> QED
    BY <1>1, <1>2, <1>3, <1>4, <1>5, StepKinds, Zenon

(* What is seen ready after the LakeKeeper stack.                             *)
LEMMA RequiredLemma ==
    ASSUME NEW s,
           s.lakekeeper =>
              /\ "lakekeeper" \in seen
              /\ s.postgres = "embedded" => "postgres" \in seen
              /\ s.storage = "embedded" => "minio" \in seen
              /\ s.auth = "embedded" => "keycloak" \in seen
              /\ s.authz = "embedded" => {"openfga-postgres", "openfga"} \subseteq seen
    PROVE  Required(s) \ {"trino"} \subseteq seen
  BY DEF Required

(* Each reconciler reports ready what it sees ready.                          *)
LEMMA FoundReadyReconcile ==
    ASSUME TypeOK, PassFacts, HandedOn, FoundReady, ReconcileStep, ~Failed'
    PROVE  FoundReady'
  <1>0. work'.spec = work.spec
    BY ReconcileStepLemma
  <1>1. CASE SkipLakekeeperStack
    <2>1. /\ pc' = "trinoStack" /\ ~work.spec.lakekeeper /\ UNCHANGED seen
      BY <1>1 DEF SkipLakekeeperStack, Continue, podVars
    <2>2. Required(work.spec) \ {"trino"} \subseteq seen
      BY <2>1, RequiredLemma
    <2> QED
      BY <1>0, <2>1, <2>2 DEF FoundReady, StackSteps
  <1>2. CASE ReconcilePostgres
    BY <1>0, <1>2, PostgresStep DEF FoundReady, StackSteps
  <1>3. CASE ReconcileObjectStore
    BY <1>0, <1>3, ObjectStoreStep DEF FoundReady, StackSteps
  <1>4. CASE ReconcileAuth
    BY <1>0, <1>4, AuthStep DEF FoundReady, StackSteps
  <1>5. CASE SkipAuthz
    BY <1>0, <1>5, SkipAuthzStep DEF FoundReady, StackSteps
  <1>6. CASE ReconcileOpenFGA
    BY <1>0, <1>6, OpenFGAStep DEF FoundReady, StackSteps
  <1>7. CASE ReconcileLakekeeper
    BY <1>0, <1>7, LakekeeperStep DEF FoundReady, StackSteps
  <1>8. CASE ReconcileWarehouse
    <2>1. pc = "warehouse" /\ pc' = "trinoStack" /\ UNCHANGED seen
      BY <1>8, WarehouseStep
    <2>2. Required(work.spec) \ {"trino"} \subseteq seen
      BY <2>1, RequiredLemma DEF FoundReady, PassFacts, StackSteps, Done, ConditionTrue
    <2> QED
      BY <1>0, <2>1, <2>2 DEF FoundReady, StackSteps
  <1>9. CASE SkipTrinoStack \/ ReconcileTrino
    <2>1. /\ pc \in {"trinoStack", "trino"} /\ pc' = "patchStatus" /\ UNCHANGED seen
          /\ ~pass'.progressing =>
                ~pass.progressing /\ ("trino" \in Required(work.spec) => "trino" \in seen)
      BY <1>9, TrinoStep
    <2>2. ~pass'.progressing => Required(work.spec) \subseteq seen
      BY <2>1 DEF FoundReady
    <2> QED
      BY <1>0, <2>1, <2>2 DEF FoundReady, StackSteps
  <1>10. CASE ReconcileOPA
    <2>1. /\ pc = "trinoStack" /\ pc' = "trino"
          /\ work' = work /\ pass' = pass /\ UNCHANGED seen
      BY <1>10 DEF ReconcileOPA, Continue, podVars
    <2> QED
      BY <2>1 DEF FoundReady, StackSteps
  <1>11. CASE StepError \/ BucketError \/ AccessStoreError \/ WarehouseError
    <2>1. PICK c : Fail(c)
      BY <1>11 DEF StepError, BucketError, AccessStoreError, WarehouseError
    <2> QED
      BY <2>1, FailedLemma
  <1> QED
    BY <1>1, <1>2, <1>3, <1>4, <1>5, <1>6, <1>7, <1>8, <1>9, <1>10, <1>11, Zenon
    DEF ReconcileStep

(* Every delivery to the cache queues the platform.                           *)
LEMMA NothingNewStep ==
    ASSUME TypeOK, PassFacts, HandedOn, NothingNew, [Next]_vars
    PROVE  NothingNew'
  <1>1. CASE Dequeue
    BY <1>1 DEF Dequeue, Continue, NoPass, NothingNew, FoundReady, StackSteps, platformVars
  <1>2. CASE ReconcileStep
    <2>1. UNCHANGED <<pending, cached, seen>>
      BY <1>2, ReconcileStepLemma DEF ReconcileStep, SkipLakekeeperStack, ReconcilePostgres,
         ReconcileObjectStore, ReconcileAuth, SkipAuthz, ReconcileOpenFGA, ReconcileLakekeeper,
         ReconcileWarehouse, SkipTrinoStack, ReconcileOPA, ReconcileTrino, StepError,
         BucketError, AccessStoreError, WarehouseError, queueVars, podVars
    <2>2. work'.spec = work.spec /\ work'.gen = work.gen /\ pc # "idle"
      BY <1>2, ReconcileStepLemma DEF Steps
    <2>3. FoundReady => FoundReady'
      <3>1. CASE Failed'
        BY <3>1 DEF FoundReady, Failed, StackSteps
      <3>2. CASE ~Failed'
        BY <1>2, <3>2, FoundReadyReconcile
      <3> QED
        BY <3>1, <3>2
    <2> QED
      BY <2>1, <2>2, <2>3 DEF NothingNew
  <1>3. CASE PatchStatus \/ PatchStatusError \/ Crash
    BY <1>3 DEF PatchStatus, PatchStatusError, Crash, EndPass, Continue, NothingNew,
       FoundReady, StackSteps
  <1>4. CASE Environment
    <2>1. ~pending' => ~pending /\ UNCHANGED <<cached, seen>>
      BY <1>4 DEF Environment, EditSpec, Watches, DeliverPlatform, DeliverReadiness,
         DeliverJob, OwnedObjectEvent, TimerFires, Pods, PodStarts, PodLost, JobSucceeds,
         JobFails, JobRemoved, vars, platformVars, queueVars, podVars
    <2> QED
      BY <1>4, <2>1, EnvironmentLemma DEF NothingNew, FoundReady
  <1> QED
    BY <1>1, <1>2, <1>3, <1>4, StepKinds, Zenon

(* A dependency that is left out, or not supported, fails the pass.           *)
LEMMA FeasibleReconcile ==
    ASSUME TypeOK, PassFacts, HandedOn, Feasible, ReconcileStep, ~Failed'
    PROVE  Feasible'
  <1>0. work'.spec = work.spec
    BY ReconcileStepLemma
  <1> USE DEF Feasible, StackSteps
  <1>1. CASE SkipLakekeeperStack
    BY <1>0, <1>1 DEF SkipLakekeeperStack, Continue, Resolvable
  <1>2. CASE ReconcilePostgres
    BY <1>0, <1>2, PostgresStep
  <1>3. CASE ReconcileObjectStore
    BY <1>0, <1>3, ObjectStoreStep
  <1>4. CASE ReconcileAuth
    BY <1>0, <1>4, AuthStep
  <1>5. CASE SkipAuthz
    BY <1>0, <1>5, SkipAuthzStep
  <1>6. CASE ReconcileOpenFGA
    BY <1>0, <1>6, OpenFGAStep
  <1>7. CASE ReconcileLakekeeper
    BY <1>0, <1>7, LakekeeperStep DEF Resolvable
  <1>8. CASE ReconcileWarehouse
    BY <1>0, <1>8, WarehouseStep DEF Resolvable
  <1>9. CASE SkipTrinoStack \/ ReconcileTrino
    BY <1>0, <1>9, TrinoStep
  <1>10. CASE ReconcileOPA
    BY <1>0, <1>10 DEF ReconcileOPA, Continue
  <1>11. CASE StepError \/ BucketError \/ AccessStoreError \/ WarehouseError
    <2>1. PICK c : Fail(c)
      BY <1>11 DEF StepError, BucketError, AccessStoreError, WarehouseError
    <2> QED
      BY <2>1, FailedLemma
  <1> QED
    BY <1>1, <1>2, <1>3, <1>4, <1>5, <1>6, <1>7, <1>8, <1>9, <1>10, <1>11, Zenon
    DEF ReconcileStep

(* Feasible is inductive, given what each step relies on.                     *)
LEMMA FeasibleStep ==
    ASSUME TypeOK, PassFacts, HandedOn, Feasible, [Next]_vars
    PROVE  Feasible'
  <1>1. CASE Dequeue \/ PatchStatus \/ PatchStatusError \/ Crash
    BY <1>1 DEF Dequeue, PatchStatus, PatchStatusError, Crash, EndPass, Continue, Feasible,
       StackSteps
  <1>2. CASE ReconcileStep /\ Failed'
    BY <1>2 DEF Feasible, Failed, StackSteps
  <1>3. CASE ReconcileStep /\ ~Failed'
    BY <1>3, FeasibleReconcile
  <1>4. CASE Environment
    BY <1>4, EnvironmentLemma DEF Feasible
  <1> QED
    BY <1>1, <1>2, <1>3, <1>4, StepKinds, Zenon

(* Falling silent takes a pass that found everything and wrote it; an edit    *)
(* leaves the cache behind, every other event queues the platform.            *)
LEMMA AtRestStep ==
    ASSUME Inv, HandedOn, NothingNew, Feasible, AtRest, [Next]_vars
    PROVE  AtRest'
  <1> USE DEF platformVars, queueVars, workloadVars, podVars
  <1>t. /\ TypeOK
        /\ dp \in Platform /\ cached \in Platform /\ work \in Platform
        /\ dp.gen \in Nat /\ cached.gen \in Nat
    BY BoundsAssumption DEF Inv, TypeOK, Platform
  <1>1. CASE Dequeue \/ ReconcileStep
    <2>1. pc' # "idle"
      <3>1. CASE Dequeue
        BY <3>1 DEF Dequeue, Continue
      <3>2. CASE ReconcileStep
        BY <1>t, <3>2, ReconcileStepLemma
      <3> QED
        BY <1>1, <3>1, <3>2
    <2> QED
      BY <2>1 DEF AtRest
  <1>2. CASE PatchStatus
    <2> SUFFICES ASSUME ~pending', ~timer', cached' = dp'
                 PROVE  /\ Resolvable(dp.spec)'
                        /\ ReadyAt(dp)'
                        /\ (Required(dp.spec) \subseteq seen)'
                        /\ Wired(dp.spec)'
      BY DEF AtRest
    <2>1. /\ pc = "patchStatus" /\ ~pending /\ ~pass.failed /\ ~pass.progressing
          /\ cached = dp /\ dp' = [dp EXCEPT !.conditions = work.conditions]
          /\ UNCHANGED <<seen, template>>
      BY <1>2 DEF PatchStatus
    <2>2. /\ dp'.spec = dp.spec /\ dp'.gen = dp.gen /\ dp'.conditions = work.conditions
      BY <1>t, <2>1 DEF Platform
    <2>3. work.spec = dp.spec /\ work.gen = dp.gen
      BY <2>1 DEF NothingNew
    <2>4. Required(work.spec) \subseteq seen
      BY <2>1 DEF NothingNew, FoundReady
    <2>5. /\ work.conditions["Ready"] = [status |-> "True", gen |-> work.gen]
          /\ Wired(work.spec)
      BY <2>1 DEF HandedOn
    <2>6. Resolvable(work.spec)
      BY <2>1 DEF Feasible
    <2>7. Wired(dp.spec)'
      BY <2>1, <2>2, <2>3, <2>5 DEF Wired
    <2> QED
      BY <2>1, <2>2, <2>3, <2>4, <2>5, <2>6, <2>7 DEF ReadyAt
  <1>3. CASE PatchStatusError \/ Crash
    BY <1>3 DEF PatchStatusError, Crash, AtRest
  <1>4. CASE EditSpec
    <2>1. PICK s \in Specs : dp' = [dp EXCEPT !.spec = s, !.gen = @ + 1]
      BY <1>4 DEF EditSpec
    <2>2. dp'.gen = dp.gen + 1 /\ cached' = cached
      BY <1>4, <1>t, <2>1 DEF EditSpec, Platform
    <2>3. cached' # dp'
      BY <1>t, <2>2 DEF Inv, Generations
    <2> QED
      BY <2>3 DEF AtRest
  <1>5. CASE Environment /\ ~EditSpec
    <2>1. ~pending' /\ ~timer' =>
             ~pending /\ ~timer /\ UNCHANGED <<dp, cached, seen>>
      BY <1>5 DEF Environment, Watches, DeliverPlatform, DeliverReadiness,
         DeliverJob, OwnedObjectEvent, TimerFires, Pods, PodStarts, PodLost, JobSucceeds,
         JobFails, JobRemoved, vars
    <2>2. UNCHANGED <<pc, template>>
      BY <1>5, EnvironmentLemma
    <2> QED
      BY <2>1, <2>2 DEF AtRest, ReadyAt, Wired
  <1> QED
    BY <1>1, <1>2, <1>3, <1>4, <1>5, StepKinds
-----------------------------------------------------------------------------
(* The theorem *)

(* Initially the platform is queued.                                          *)
LEMMA QuiescenceInit == Init => HandedOn /\ NothingNew /\ Feasible /\ AtRest
  BY DEF Init, HandedOn, NothingNew, FoundReady, Feasible, StackSteps, AtRest

(* The invariant of a pass that is the last one for now.                      *)
THEOREM QuiescenceInvariance == Spec => []QuiescenceInv
  <1>1. Init => QuiescenceInv
    BY InvInit, QuiescenceInit DEF QuiescenceInv
  <1>2. QuiescenceInv /\ [Next]_vars => QuiescenceInv'
    <2> SUFFICES ASSUME QuiescenceInv, [Next]_vars PROVE QuiescenceInv'
      OBVIOUS
    <2>1. /\ Inv /\ HandedOn /\ NothingNew /\ Feasible /\ AtRest
          /\ TypeOK /\ PassFacts
      BY DEF QuiescenceInv, Inv
    <2>2. Inv'
      BY <2>1, InvStep
    <2> QED
      BY <2>1, <2>2, HandedOnStep, NothingNewStep, FeasibleStep, AtRestStep
      DEF QuiescenceInv
  <1> QED
    BY <1>1, <1>2, PTL DEF Spec

(* Whatever is edited, lost, delayed, failed or restarted, when the operator  *)
(* next falls silent there is nothing left for it to do: the status says      *)
(* Ready for the platform's latest spec, the workloads are ready, LakeKeeper  *)
(* is provisioned and Trino wired (Reconcile, patchStatus, SetupWithManager). *)
THEOREM NoWakeUpIsLost == Spec => []QuiescentIsSettled
  <1>1. QuiescenceInv => QuiescentIsSettled
    BY DEF QuiescenceInv, Inv, AtRest, ReadyIsProvisioned, QuiescentIsSettled, Quiescent,
       Settled
  <1> QED
    BY <1>1, QuiescenceInvariance, PTL

(* A spec with a dependency left out, or with an authorization the operator   *)
(* does not support, is never given up: as long as it stands, the operator    *)
(* has a pass to run, a retry scheduled or an event to come (the errors of    *)
(* reconcilePostgres, reconcileObjectStore, reconcileAuth, reconcileAuthz).   *)
THEOREM UnresolvableIsRetried == Spec => [](Quiescent => Resolvable(dp.spec))
  <1>1. QuiescenceInv => (Quiescent => Resolvable(dp.spec))
    BY DEF QuiescenceInv, AtRest, Quiescent
  <1> QED
    BY <1>1, QuiescenceInvariance, PTL
=============================================================================
