----------------------------- MODULE Credentials -----------------------------
(***************************************************************************)
(* The credentials the operator generates, and how they reach the programs *)
(* that use them: the signing key and the client secrets of Keycloak's     *)
(* realm, the API key of OpenFGA and the password of its Postgres.         *)
(*                                                                         *)
(* A credential is generated once, in a Secret.  The operator reads it     *)
(* back through its cache and puts it into a pod's template, by value or   *)
(* with a hash, which replaces the pod; or it names the Secret in the      *)
(* template, and a pod has what the Secret said when it started.  A user   *)
(* deletes Secrets, pods are lost, the operator stops at any point.        *)
(*                                                                         *)
(* Everything is enabled and embedded, access policies included, with each *)
(* component in a namespace of its own.  A credential is the number of its *)
(* generation.  The Postgres of LakeKeeper works as OpenFGA's does and is  *)
(* left out.                                                               *)
(***************************************************************************)
EXTENDS Naturals, FiniteSets, Functions

CONSTANTS
    MaxLosses,   \* bound: Secrets deleted by a user
    MaxRestarts  \* bound: pods lost, and stops of the operator

ASSUME CredentialsBoundsAssumption == MaxLosses \in Nat /\ MaxRestarts \in Nat

VARIABLES
    secrets,   \* the Secrets in the API server
    seen,      \* ... and in the operator's cache
    lost,      \* the Secrets a user has deleted
    losses,    \* how often a user has deleted one
    generated, \* for each Secret, the last credential generated for it
    realm,     \* the ConfigMap with the realm
    db,        \* the password OpenFGA's database was made with
    template,  \* for each Deployment, the credentials in its template
    pods,      \* for each Deployment, its serving pod: what it was started with
    issued,    \* the signing keys Keycloak has signed tokens with
    restarts,  \* how many pods were lost
    queued,    \* the platform is on the work queue
    pc,        \* the next step of the pass
    pass       \* what the pass has read, and what it found not ready

secretVars == <<secrets, seen, generated>>
lossVars == <<lost, losses, restarts>>
clusterVars == <<realm, db, template>>
podVars == <<pods, issued>>
operatorVars == <<queued, pc, pass>>
vars == <<secretVars, lossVars, clusterVars, podVars, operatorVars>>
-----------------------------------------------------------------------------
(* Secrets, templates, pods *)

Clients == {"trino", "operator", "opa"}
RealmKeys == Clients \cup {"signing"}
GeneratedSecrets == {"realmKey", "oidc", "openfga", "postgres"}
\* ... and the second Secret named oidc, which applyOPASecret writes.
Secrets == GeneratedSecrets \cup {"opaOIDC"}
Deployments == {"keycloak", "openfga", "lakekeeper", "opa", "trino"}
Workloads == Deployments \cup {"postgres"}
Steps == {"realmKey", "oidc", "realm", "keycloak", "fgaKey", "fgaPassword",
          "postgres", "openfga", "lakekeeper", "opa", "trino"}

KeysOf(s) ==
    CASE s = "realmKey" -> {"signing"}
      [] s = "openfga"  -> {"apiKey"}
      [] s = "postgres" -> {"password"}
      [] OTHER          -> Clients

\* A Secret is a function from its keys to credentials: none if it is absent.
All(keys, value) == [k \in keys |-> value]
Absent == All({}, 0)
None == 0
\* A template that only names its Secrets.
ByName == All({"name"}, 1)

\* Mutant of OPASecret: OPA is deployed to Keycloak's namespace.
OPASecretInKeycloak == "oidc"

\* The Secret applyOPASecret writes is also named oidc, in OpenFGA's namespace.
OPASecret == "opaOIDC"

\* What the pass reads through the cache, and whether getSecretData finds it.
Reads(s, keys) == keys \subseteq DOMAIN seen[s]

Down == [template |-> Absent, reads |-> Absent]
Up(d) == pods[d] # Down
NoPass == [hash |-> Absent, oidc |-> All(Clients, None), apiKey |-> None, waits |-> {}]

Bound == MaxLosses + 2
Credential == 0..Bound
Holds(f, keys) == DOMAIN f \subseteq keys /\ Range(f) \subseteq Credential

TypeOK ==
    /\ \A s \in Secrets : Holds(secrets[s], KeysOf(s)) /\ Holds(seen[s], KeysOf(s))
    /\ lost \subseteq Secrets /\ losses \in 0..MaxLosses /\ restarts \in 0..MaxRestarts
    /\ generated \in [GeneratedSecrets -> Credential]
    /\ Holds(realm, RealmKeys)
    /\ db \in Credential
    /\ DOMAIN template = Workloads /\ DOMAIN pods = Deployments
    /\ \A d \in Deployments : DOMAIN pods[d].template \subseteq DOMAIN template[d]
    /\ issued \subseteq Credential
    /\ queued \in BOOLEAN
    /\ pc \in {"idle"} \cup Steps
    /\ Holds(pass.hash, RealmKeys)
    /\ pass.oidc \in [Clients -> Credential] /\ pass.apiKey \in Credential
    /\ pass.waits \subseteq Deployments

\* A fresh installation, ...
Fresh ==
    /\ secrets = [s \in Secrets |-> Absent]
    /\ generated = [s \in GeneratedSecrets |-> None]
    /\ realm = Absent /\ issued = {}
    /\ template = [d \in Workloads |-> Absent] /\ pods = [d \in Deployments |-> Down]

\* ... or Keycloak as an operator left it that knew of no client for OPA.
Upgraded ==
    LET before == All({"signing", "trino", "operator"}, 1)
    IN /\ secrets = [s \in Secrets |->
                        CASE s = "realmKey" -> All({"signing"}, 1)
                          [] s = "oidc" -> All({"trino", "operator"}, 1)
                          [] OTHER -> Absent]
       /\ generated = [s \in GeneratedSecrets |-> IF secrets[s] = Absent THEN None ELSE 1]
       /\ realm = before /\ issued = {1}
       /\ template = [d \in Workloads |-> IF d = "keycloak" THEN before ELSE Absent]
       /\ pods = [d \in Deployments |->
                     IF d = "keycloak" THEN [template |-> before, reads |-> before] ELSE Down]

Init ==
    /\ Fresh \/ Upgraded
    /\ seen = secrets
    /\ lost = {} /\ losses = 0 /\ restarts = 0
    /\ db = None
    /\ queued = TRUE /\ pc = "idle" /\ pass = NoPass
-----------------------------------------------------------------------------
(* The pass *)

Begin ==
    /\ pc = "idle" /\ queued
    /\ queued' = FALSE
    /\ pc' = "realmKey"
    /\ UNCHANGED <<pass, secretVars, lossVars, clusterVars, podVars>>

At(step) == pc = step /\ UNCHANGED <<lossVars, podVars, db>>

Goto(step) == pc' = step /\ UNCHANGED queued

\* An error, returned from Reconcile, queues the platform again.
Fail == pc' = "idle" /\ queued' = TRUE /\ pass' = NoPass

Write(s, data) == secrets' = [secrets EXCEPT ![s] = data] /\ UNCHANGED seen

Generate(s, keys, data) ==
    /\ generated' = [generated EXCEPT ![s] = @ + 1]
    /\ Write(s, [k \in keys \cup DOMAIN data |->
                    IF k \in DOMAIN data THEN data[k] ELSE generated[s] + 1])

\* Mutant of CreateSecret: a Secret the cache does not have is written.
CreateSecretOrUpdate(s) == Generate(s, KeysOf(s), Absent)

\* Create: refused when the Secret exists, whatever the cache says.
CreateSecret(s) == secrets[s] = Absent /\ Generate(s, KeysOf(s), Absent)

\* ensureGeneratedSecret: a Secret that is there stays as it is.
EnsureGeneratedSecret(step, s, next) ==
    /\ At(step)
    /\ UNCHANGED clusterVars
    /\ \/ seen[s] # Absent /\ Goto(next) /\ UNCHANGED <<secretVars, pass>>
       \/ seen[s] = Absent /\ CreateSecret(s) /\ Goto(next) /\ UNCHANGED pass
       \/ seen[s] = Absent /\ secrets[s] # Absent /\ Fail /\ UNCHANGED secretVars

EnsureRealmKey == EnsureGeneratedSecret("realmKey", "realmKey", "oidc")

\* ensureOIDCSecretKeys adds OPA's key to a Secret of an earlier version; the
\* update is refused when the cached copy is not the latest.
AddOIDCKeys ==
    /\ At("oidc")
    /\ seen["oidc"] # Absent /\ ~Reads("oidc", {"opa"})
    /\ UNCHANGED clusterVars
    /\ IF seen["oidc"] = secrets["oidc"]
       THEN Generate("oidc", {"opa"}, seen["oidc"]) /\ Goto("realm") /\ UNCHANGED pass
       ELSE Fail /\ UNCHANGED secretVars

EnsureOIDC ==
    \/ AddOIDCKeys
    \/ /\ seen["oidc"] = Absent \/ Reads("oidc", {"opa"})
       /\ EnsureGeneratedSecret("oidc", "oidc", "realm")

\* keycloakRealmJSON: what the realm is made of.
RealmJSON == [k \in RealmKeys |-> seen[IF k = "signing" THEN "realmKey" ELSE "oidc"][k]]

ApplyRealm ==
    /\ At("realm")
    /\ UNCHANGED <<secretVars, template>>
    /\ IF Reads("realmKey", {"signing"}) /\ Reads("oidc", Clients)
       THEN /\ realm' = RealmJSON
            /\ pass' = [pass EXCEPT !.hash = RealmJSON]
            /\ Goto("keycloak")
       ELSE Fail /\ UNCHANGED realm

\* Mutant of Hash: the template does not change with the realm.
NoHash(json) == All(RealmKeys, 0)

\* annotationConfigHash
Hash(json) == json

SetTemplate(d, holds) == template' = [template EXCEPT ![d] = holds]

NotReady(d) == IF Up(d) THEN {} ELSE {d}

\* The Deployment, then embeddedOIDCConfig, which reads the Secret once more.
ApplyKeycloak ==
    /\ At("keycloak")
    /\ UNCHANGED <<secretVars, realm>>
    /\ SetTemplate("keycloak", Hash(pass.hash))
    /\ IF Reads("oidc", Clients)
       THEN /\ pass' = [pass EXCEPT !.oidc = seen["oidc"], !.waits = NotReady("keycloak")]
            /\ Goto("fgaKey")
       ELSE Fail

EnsureOpenFGAKey == EnsureGeneratedSecret("fgaKey", "openfga", "fgaPassword")
EnsureOpenFGAPassword == EnsureGeneratedSecret("fgaPassword", "postgres", "postgres")

ApplyPostgres ==
    /\ At("postgres")
    /\ SetTemplate("postgres", ByName)
    /\ Goto("openfga")
    /\ UNCHANGED <<secretVars, realm, pass>>

\* OpenFGA refuses a request with a key it was not started with.
KeyAccepted(apiKey) == pods["openfga"].reads["apiKey"] = apiKey

\* The API key cannot be read back, or the access store not be asked for.
Refused ==
    \/ ~Reads("openfga", {"apiKey"})
    \/ Up("openfga") /\ ~KeyAccepted(seen["openfga"]["apiKey"])

\* Before the database runs OpenFGA is not deployed.  Its template has the
\* password by value and names the Secret of the API key.  Once it is up the
\* access store is looked for, with the API key; a refusal ends the pass.
ApplyOpenFGA ==
    /\ At("openfga")
    /\ UNCHANGED <<secretVars, realm>>
    /\ \/ /\ db = None
          /\ pass' = [pass EXCEPT !.waits = @ \cup {"openfga"}]
          /\ Goto("opa") /\ UNCHANGED template
       \/ /\ db # None /\ ~Reads("postgres", {"password"})
          /\ Fail /\ UNCHANGED template
       \/ /\ db # None /\ Reads("postgres", {"password"})
          /\ SetTemplate("openfga", seen["postgres"])
          /\ IF Refused THEN Fail
             ELSE LET waits == pass.waits \cup NotReady("openfga") IN
                  /\ pass' = [pass EXCEPT !.apiKey = seen["openfga"]["apiKey"], !.waits = waits]
                  /\ Goto(IF waits = {} THEN "lakekeeper" ELSE "opa")

TokenGranted == Up("keycloak") /\ pods["keycloak"].reads["operator"] = pass.oidc["operator"]

\* LakeKeeper has the API key by value.  Once everything is up the operator
\* asks Keycloak for a token; a refusal ends the pass.
ApplyLakekeeper ==
    /\ At("lakekeeper")
    /\ UNCHANGED <<secretVars, realm>>
    /\ SetTemplate("lakekeeper", All({"apiKey"}, pass.apiKey))
    /\ IF Up("lakekeeper") /\ ~TokenGranted
       THEN Fail
       ELSE pass' = [pass EXCEPT !.waits = NotReady("lakekeeper")] /\ Goto("opa")

\* applyOPASecret replaces the data of its Secret (refused when the cached copy
\* is not the latest); the Deployment names it, and the Secret of the API key.
ApplyOPA ==
    /\ At("opa")
    /\ UNCHANGED <<realm, generated>>
    /\ IF seen[OPASecret] = secrets[OPASecret]
       THEN /\ Write(OPASecret, [k \in {"opa"} |-> pass.oidc["opa"]])
            /\ SetTemplate("opa", ByName)
            /\ Goto("trino") /\ UNCHANGED pass
       ELSE Fail /\ UNCHANGED <<secrets, seen, template>>

\* Trino has its client's secret in its configuration, with a hash.  While
\* something is not ready the pass is repeated.
ApplyTrino ==
    /\ At("trino")
    /\ UNCHANGED <<secretVars, realm>>
    /\ SetTemplate("trino", All({"trino"}, pass.oidc["trino"]))
    /\ pc' = "idle" /\ pass' = NoPass
    /\ queued' = (queued \/ pass.waits \cup NotReady("trino") # {})

Pass ==
    \/ Begin \/ EnsureRealmKey \/ EnsureOIDC \/ ApplyRealm \/ ApplyKeycloak
    \/ EnsureOpenFGAKey \/ EnsureOpenFGAPassword
    \/ ApplyPostgres \/ ApplyOpenFGA \/ ApplyLakekeeper
    \/ ApplyOPA \/ ApplyTrino

\* The operator stops, and its successor starts with a pass and a synced cache.
Crash ==
    /\ restarts < MaxRestarts
    /\ restarts' = restarts + 1
    /\ seen' = secrets
    /\ queued' = TRUE /\ pc' = "idle" /\ pass' = NoPass
    /\ UNCHANGED <<secrets, generated, lost, losses, clusterVars, podVars>>
-----------------------------------------------------------------------------
(* The cluster *)

\* The cache catches up; all Secrets are owned, which queues the platform.
Deliver ==
    /\ seen # secrets
    /\ seen' = secrets
    /\ queued' = TRUE
    /\ UNCHANGED <<secrets, generated, lossVars, clusterVars, podVars, pc, pass>>

DeleteSecret(s) ==
    /\ losses < MaxLosses
    /\ secrets[s] # Absent
    /\ secrets' = [secrets EXCEPT ![s] = Absent]
    /\ lost' = lost \cup {s} /\ losses' = losses + 1
    /\ UNCHANGED <<seen, generated, restarts, clusterVars, podVars, operatorVars>>

\* Postgres makes its database at its first start, with the password of the
\* Secret; later it ignores it.
InitDB ==
    /\ db = None /\ template["postgres"] # Absent
    /\ secrets["postgres"] # Absent
    /\ db' = secrets["postgres"]["password"]
    /\ queued' = TRUE
    /\ UNCHANGED <<secretVars, lossVars, realm, template, podVars, pc, pass>>

\* Mutant of Imported: the realm has no key of its own, Keycloak makes one.
ImportedWithoutKey == [realm EXCEPT !["signing"] = @ + restarts]

\* --import-realm: Keycloak has the realm of its ConfigMap, and nothing else.
Imported == realm

\* What a new pod of d gets besides its template.
ReadAtStart(d) ==
    CASE d = "keycloak" -> Imported
      [] d = "openfga" -> secrets["openfga"]
      [] d = "opa" -> [k \in {"opa", "apiKey"} |->
                          secrets[IF k = "opa" THEN OPASecret ELSE "openfga"][k]]
      [] OTHER -> Absent

\* A pod waits for the Secrets it names.  OpenFGA has to open its database, and
\* LakeKeeper has to be let in by OpenFGA.
CanStart(d) ==
    /\ template[d] # Absent
    /\ d \in {"openfga", "opa"} => secrets["openfga"] # Absent
    /\ d = "opa" => "opa" \in DOMAIN secrets[OPASecret]
    /\ d = "openfga" => template[d]["password"] = db
    /\ d = "lakekeeper" => Up("openfga") /\ KeyAccepted(template[d]["apiKey"])

\* A rollout, or the replacement of a lost pod: the pod there was, if any, serves
\* until the new one is ready, and both are events of an owned object.
StartPod(d) ==
    /\ ~Up(d) \/ pods[d].template # template[d]
    /\ CanStart(d)
    /\ pods' = [pods EXCEPT ![d] = [template |-> template[d], reads |-> ReadAtStart(d)]]
    /\ issued' = IF d = "keycloak" THEN issued \cup {pods'[d].reads["signing"]} ELSE issued
    /\ queued' = TRUE
    /\ UNCHANGED <<secretVars, lossVars, clusterVars, pc, pass>>

LosePod(d) ==
    /\ restarts < MaxRestarts
    /\ Up(d)
    /\ restarts' = restarts + 1
    /\ pods' = [pods EXCEPT ![d] = Down]
    /\ queued' = TRUE
    /\ UNCHANGED <<secretVars, lost, losses, clusterVars, issued, pc, pass>>

Next ==
    \/ Pass \/ Crash
    \/ Deliver \/ InitDB
    \/ \E s \in Secrets : DeleteSecret(s)
    \/ \E d \in Deployments : StartPod(d) \/ LosePod(d)

\* The operator works, watches deliver, and a pod that can start does.
Fairness ==
    /\ WF_vars(Pass)
    /\ WF_vars(Deliver) /\ WF_vars(InitDB)
    /\ \A d \in Deployments : WF_vars(StartPod(d))

Spec == Init /\ [][Next]_vars /\ Fairness
-----------------------------------------------------------------------------
(* Properties *)

(* A credential is generated once (ensureGeneratedSecret, ensureOIDCSecretKeys): *)
(* with a cache that lags, after crashes and between the writes of OPA's Secret, *)
(* no key of a generated Secret is replaced or dropped; it goes only with the    *)
(* whole Secret, when a user deletes that.                                       *)
SecretsKept ==
    [][ \A s \in GeneratedSecrets :
          secrets'[s] # Absent =>
              \A k \in DOMAIN secrets[s] :
                  k \in DOMAIN secrets'[s] /\ secrets'[s][k] = secrets[s][k] ]_vars

(* keycloak.go on ensureKeycloakRealmKey: without a stable key "every pod      *)
(* recreate would resign with a fresh key and reject tokens issued before it". *)
(* Every token ever issued is accepted until a user deletes the realm's key.   *)
TokensSurvive == "realmKey" \notin lost => Cardinality(issued) <= 1

\* The serving pod is of the present template.
Current(d) == Up(d) /\ pods[d].template = template[d]

RealmAgrees(client, secret) == pods["keycloak"].reads[client] = secret

\* Keycloak lets in Trino and the operator.
TrinoAndOperatorLoggedIn ==
    /\ Current("keycloak") /\ Current("trino")
    /\ RealmAgrees("trino", pods["trino"].template["trino"])
    /\ secrets["oidc"] # Absent /\ RealmAgrees("operator", secrets["oidc"]["operator"])

\* Keycloak and OpenFGA let in OPA, OpenFGA lets in LakeKeeper.
OthersLoggedIn ==
    /\ Current("opa") /\ RealmAgrees("opa", pods["opa"].reads["opa"])
    /\ Current("openfga") /\ KeyAccepted(pods["opa"].reads["apiKey"])
    /\ Current("lakekeeper") /\ KeyAccepted(pods["lakekeeper"].template["apiKey"])

(* From an installation or an upgrade, through rollouts, lost pods and crashes, *)
(* the programs end up with credentials that agree and pods of their present    *)
(* templates.  For Trino and the operator that is so even after the loss of     *)
(* Keycloak's Secrets; for the others only as long as no Secret they use has    *)
(* been deleted: OPA's pod does not notice new client secrets, OpenFGA's no new *)
(* API key, and the database keeps its first password.                          *)
CredentialsAgree ==
    <>[](/\ "openfga" \notin lost => TrinoAndOperatorLoggedIn
         /\ lost \subseteq {"realmKey", "opaOIDC"} => OthersLoggedIn)
=============================================================================
