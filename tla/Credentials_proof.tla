-------------------------- MODULE Credentials_proof --------------------------
(***************************************************************************)
(* Proofs about Credentials: a generated credential is never replaced, and *)
(* no restart of Keycloak invalidates a token, for all bounds.             *)
(***************************************************************************)
EXTENDS Credentials, FiniteSetTheorems, TLAPS

\* What is a function, on what.
Shape ==
    /\ secrets = [s \in Secrets |-> secrets[s]]
    /\ seen = [s \in Secrets |-> seen[s]]
    /\ template = [d \in Workloads |-> template[d]]
    /\ pods = [d \in Deployments |-> pods[d]]

\* Keycloak is deployed after its realm is written.
RealmFirst ==
    /\ pc = "keycloak" => realm # Absent
    /\ template["keycloak"] # Absent => realm # Absent

SigningKey == secrets["realmKey"]["signing"]

\* As long as the Secret with the signing key is not deleted, there is one key:
\* in the cache, in the realm and in every token.
OneKey ==
    "realmKey" \notin lost =>
        /\ seen["realmKey"] \in {Absent, secrets["realmKey"]}
        /\ realm # Absent => secrets["realmKey"] # Absent /\ realm["signing"] = SigningKey
        /\ issued # {} => secrets["realmKey"] # Absent /\ issued = {SigningKey}

Inv == Shape /\ RealmFirst /\ OneKey
-----------------------------------------------------------------------------
(* Secrets *)

(* Nothing is in a Secret that is absent.                                     *)
LEMMA AbsentLemma ==
    /\ DOMAIN Absent = {}
    /\ \A keys, v : keys # {} => All(keys, v) # Absent
  <1>1. \A keys, v : DOMAIN All(keys, v) = keys
    BY DEF All
  <1> QED
    BY <1>1 DEF Absent

LEMMA WriteLemma ==
    ASSUME Shape, NEW s \in Secrets, NEW data, Write(s, data)
    PROVE  /\ secrets' = [t \in Secrets |-> secrets'[t]]
           /\ secrets'[s] = data
           /\ \A t \in Secrets \ {s} : secrets'[t] = secrets[t]
           /\ seen' = seen
  BY DEF Shape, Write

\* No key of the Secret is replaced or dropped.
Kept(s) ==
    \A k \in DOMAIN secrets[s] : k \in DOMAIN secrets'[s] /\ secrets'[s][k] = secrets[s][k]

(* Generating keys next to those that are there keeps them.                   *)
LEMMA GenerateLemma ==
    ASSUME Shape, NEW s \in Secrets, NEW keys, Generate(s, keys, secrets[s])
    PROVE  /\ secrets' = [t \in Secrets |-> secrets'[t]] /\ seen' = seen
           /\ Kept(s)
           /\ \A t \in Secrets \ {s} : secrets'[t] = secrets[t]
  <1> DEFINE data == [k \in keys \cup DOMAIN secrets[s] |->
                        IF k \in DOMAIN secrets[s] THEN secrets[s][k] ELSE generated[s] + 1]
  <1>1. Write(s, data)
    BY DEF Generate
  <1>2. \A k \in DOMAIN secrets[s] : k \in DOMAIN data /\ data[k] = secrets[s][k]
    OBVIOUS
  <1> HIDE DEF data
  <1> QED
    BY <1>1, <1>2, WriteLemma DEF Kept
-----------------------------------------------------------------------------
(* Who writes what *)

\* A step leaves a Secret alone, makes one that was absent, adds keys to oidc,
\* deletes one, or is about OPA's own.
WritesSecrets ==
    \A s \in Secrets :
        \/ secrets'[s] = secrets[s]
        \/ secrets[s] = Absent
        \/ s = "oidc" /\ Kept(s)
        \/ secrets'[s] = Absent /\ s \in lost'
        \/ s = "opaOIDC"

WritesRealm ==
    \/ realm' = realm
    \/ /\ "signing" \in DOMAIN seen["realmKey"]
       /\ realm' = RealmJSON

WritesTemplate ==
    \/ template'["keycloak"] = template["keycloak"]
    \/ pc = "keycloak"

WritesIssued ==
    \/ issued' = issued
    \/ template["keycloak"] # Absent /\ issued' = issued \cup {realm["signing"]}

WritesSeen == seen' = seen \/ seen' = secrets

Writes ==
    /\ Shape' /\ lost \subseteq lost'
    /\ WritesSecrets /\ WritesSeen /\ WritesRealm /\ WritesTemplate /\ WritesIssued
    /\ pc' = "keycloak" => realm' # Absent \/ (pc = "keycloak" /\ realm' = realm)

(* A step that writes no Secret, or none of the operator's.                   *)
LEMMA SameSecretsLemma == UNCHANGED secrets => WritesSecrets
  BY DEF WritesSecrets

LEMMA EnsureLemma ==
    ASSUME Shape, NEW step, NEW s \in Secrets, NEW next, next # "keycloak", step # "idle",
           EnsureGeneratedSecret(step, s, next)
    PROVE  Writes
  <1>1. UNCHANGED <<lossVars, podVars, db, clusterVars>>
    BY DEF EnsureGeneratedSecret, At
  <1>2. pc' # "keycloak"
    BY DEF EnsureGeneratedSecret, Goto, Fail
  <1>3. /\ WritesSecrets /\ seen' = seen
        /\ secrets' = [t \in Secrets |-> secrets'[t]]
    <2>1. CASE CreateSecret(s)
      <3>1. secrets[s] = Absent /\ Generate(s, KeysOf(s), secrets[s])
        BY <2>1 DEF CreateSecret
      <3>2. /\ secrets' = [t \in Secrets |-> secrets'[t]] /\ seen' = seen
            /\ \A t \in Secrets \ {s} : secrets'[t] = secrets[t]
        BY <3>1, GenerateLemma
      <3> QED
        BY <3>1, <3>2 DEF WritesSecrets
    <2>2. CASE UNCHANGED secretVars
      BY <2>2, SameSecretsLemma DEF secretVars, Shape
    <2> QED
      BY <2>1, <2>2 DEF EnsureGeneratedSecret
  <1> QED
    BY <1>1, <1>2, <1>3 DEF Writes, Shape, WritesSeen, WritesRealm, WritesTemplate, WritesIssued,
       lossVars, podVars, clusterVars

(* A step that only sets the template of another workload than Keycloak.      *)
LEMMA ApplyLemma ==
    ASSUME Shape, NEW d \in Workloads, NEW holds, SetTemplate(d, holds)
    PROVE  /\ template' = [w \in Workloads |-> template'[w]]
           /\ template'[d] = holds
           /\ \A w \in Workloads \ {d} : template'[w] = template[w]
  BY DEF Shape, SetTemplate

LEMMA ApplyOtherLemma ==
    ASSUME Shape, NEW step, At(step), pc' # "keycloak",
           UNCHANGED <<secrets, seen, realm>>,
           \/ UNCHANGED template
           \/ \E d \in Workloads \ {"keycloak"} : \E holds : SetTemplate(d, holds)
    PROVE  Writes
  <1>1. /\ template' = [w \in Workloads |-> template'[w]]
        /\ template'["keycloak"] = template["keycloak"]
    BY ApplyLemma DEF Shape, Workloads, Deployments
  <1> QED
    BY <1>1, SameSecretsLemma DEF At, lossVars, podVars, Shape, Writes, WritesSeen, WritesRealm,
       WritesTemplate, WritesIssued

LEMMA WritesLemma == Shape /\ [Next]_vars => Writes
  <1> SUFFICES ASSUME Shape, [Next]_vars PROVE Writes
    OBVIOUS
  <1>w. \A d \in {"postgres", "openfga", "lakekeeper", "opa", "trino"} :
            d \in Workloads \ {"keycloak"}
    BY DEF Workloads, Deployments
  <1>1. ASSUME UNCHANGED <<secrets, seen, lossVars, clusterVars, podVars>>, pc' # "keycloak"
        PROVE  Writes
    BY <1>1, SameSecretsLemma DEF Shape, lossVars, podVars, clusterVars, Writes, WritesSeen,
       WritesRealm, WritesTemplate, WritesIssued
  <1>2. CASE Begin
    BY <1>1, <1>2 DEF Begin, secretVars
  <1>3. CASE EnsureRealmKey
    BY <1>3, EnsureLemma DEF EnsureRealmKey, Secrets, GeneratedSecrets
  <1>4. CASE EnsureOIDC
    <2>1. CASE AddOIDCKeys
      <3>1. UNCHANGED <<lossVars, podVars, db, clusterVars>> /\ pc' # "keycloak"
        BY <2>1 DEF AddOIDCKeys, At, Goto, Fail
      <3>2. CASE Generate("oidc", {"opa"}, secrets["oidc"])
        <4>1. "oidc" \in Secrets
          BY DEF Secrets, GeneratedSecrets
        <4>2. /\ secrets' = [t \in Secrets |-> secrets'[t]] /\ seen' = seen /\ Kept("oidc")
              /\ \A t \in Secrets \ {"oidc"} : secrets'[t] = secrets[t]
          BY <3>2, <4>1, GenerateLemma
        <4>3. WritesSecrets
          BY <4>2 DEF WritesSecrets
        <4> QED
          BY <3>1, <4>2, <4>3 DEF Shape, lossVars, podVars, clusterVars, Writes, WritesSeen,
             WritesRealm, WritesTemplate, WritesIssued
      <3>3. CASE UNCHANGED secretVars
        BY <1>1, <3>1, <3>3 DEF secretVars
      <3> QED
        BY <2>1, <3>2, <3>3 DEF AddOIDCKeys
    <2>2. CASE EnsureGeneratedSecret("oidc", "oidc", "realm")
      BY <2>2, EnsureLemma DEF Secrets, GeneratedSecrets
    <2> QED
      BY <1>4, <2>1, <2>2 DEF EnsureOIDC
  <1>5. CASE ApplyRealm
    <2>1. CASE Fail
      BY <1>1, <1>5, <2>1 DEF ApplyRealm, At, Goto, Fail, secretVars, clusterVars, Reads
    <2>2. CASE Reads("realmKey", {"signing"}) /\ realm' = RealmJSON
      <3>1. realm' # Absent
        <4>1. DOMAIN RealmJSON # {}
          BY DEF RealmJSON, RealmKeys
        <4> QED
          BY <2>2, <4>1, AbsentLemma
      <3>2. WritesRealm
        BY <2>2 DEF WritesRealm, Reads
      <3> QED
        BY <1>5, <3>1, <3>2, SameSecretsLemma DEF ApplyRealm, At, secretVars, Shape, lossVars,
           podVars, Writes, WritesSeen, WritesTemplate, WritesIssued
    <2> QED
      BY <1>5, <2>1, <2>2 DEF ApplyRealm
  <1>6. CASE ApplyKeycloak
    <2>1. "keycloak" \in Workloads
      BY DEF Workloads, Deployments
    <2>2. template' = [w \in Workloads |-> template'[w]] /\ pc = "keycloak" /\ pc' # "keycloak"
      BY <1>6, <2>1, ApplyLemma DEF ApplyKeycloak, At, Goto, Fail
    <2> QED
      BY <1>6, <2>2, SameSecretsLemma DEF ApplyKeycloak, At, secretVars, Shape, lossVars,
         podVars, Writes, WritesSeen, WritesRealm, WritesTemplate, WritesIssued
  <1>7. CASE EnsureOpenFGAKey
    BY <1>7, EnsureLemma DEF EnsureOpenFGAKey, Secrets, GeneratedSecrets
  <1>8. CASE EnsureOpenFGAPassword
    BY <1>8, EnsureLemma DEF EnsureOpenFGAPassword, Secrets, GeneratedSecrets
  <1>9. CASE ApplyPostgres
    BY <1>9, <1>w, ApplyOtherLemma DEF ApplyPostgres, Goto, secretVars
  <1>10. CASE ApplyOpenFGA
    <2>1. pc' # "keycloak"
      BY <1>10 DEF ApplyOpenFGA, Goto, Fail
    <2>2. UNCHANGED template \/ SetTemplate("openfga", seen["postgres"])
      BY <1>10 DEF ApplyOpenFGA
    <2>3. At("openfga") /\ UNCHANGED <<secrets, seen, realm>>
      BY <1>10 DEF ApplyOpenFGA, secretVars
    <2> QED
      BY <1>w, <2>1, <2>2, <2>3, ApplyOtherLemma
  <1>11. CASE ApplyLakekeeper
    BY <1>11, <1>w, ApplyOtherLemma DEF ApplyLakekeeper, Goto, Fail, secretVars
  <1>12. CASE ApplyOPA
    <2>1. CASE Fail
      <3>1. CASE UNCHANGED <<secrets, seen, template>>
        BY <1>12, <2>1, <3>1, ApplyOtherLemma DEF ApplyOPA, Fail
      <3> QED
        BY <1>12, <2>1, <3>1 DEF ApplyOPA, Goto, Fail
    <2>2. ASSUME NEW data, Write(OPASecret, data), SetTemplate("opa", ByName), Goto("trino")
          PROVE  Writes
      <3>1. "opaOIDC" \in Secrets
        BY DEF Secrets
      <3>2. /\ secrets' = [t \in Secrets |-> secrets'[t]] /\ seen' = seen
            /\ \A t \in Secrets \ {"opaOIDC"} : secrets'[t] = secrets[t]
        BY <2>2, <3>1, WriteLemma DEF OPASecret
      <3>3. WritesSecrets
        BY <3>2 DEF WritesSecrets
      <3>4. /\ template' = [w \in Workloads |-> template'[w]]
            /\ template'["keycloak"] = template["keycloak"]
        BY <1>w, <2>2, ApplyLemma DEF Workloads, Deployments
      <3> QED
        BY <1>12, <2>2, <3>2, <3>3, <3>4 DEF ApplyOPA, At, Goto, Shape, lossVars, podVars,
           Writes, WritesSeen, WritesRealm, WritesTemplate, WritesIssued
    <2> QED
      BY <1>12, <2>1, <2>2 DEF ApplyOPA
  <1>13. CASE ApplyTrino
    BY <1>13, <1>w, ApplyOtherLemma DEF ApplyTrino, secretVars
  <1>14. CASE Crash
    BY <1>14, SameSecretsLemma DEF Crash, Shape, clusterVars, podVars, Writes, WritesSeen,
       WritesRealm, WritesTemplate, WritesIssued
  <1>15. CASE Deliver
    <2>1. pc' = "keycloak" => pc = "keycloak" /\ realm' = realm
      BY <1>15 DEF Deliver, clusterVars
    <2> QED
      BY <1>15, <2>1, SameSecretsLemma DEF Deliver, Shape, lossVars, clusterVars, podVars, Writes,
         WritesSeen, WritesRealm, WritesTemplate, WritesIssued
  <1>16. CASE InitDB
    BY <1>16, SameSecretsLemma DEF InitDB, secretVars, Shape, lossVars, podVars, Writes,
       WritesSeen, WritesRealm, WritesTemplate, WritesIssued
  <1>17. ASSUME NEW s \in Secrets, DeleteSecret(s) PROVE Writes
    <2>1. secrets' = [t \in Secrets |-> IF t = s THEN Absent ELSE secrets[t]]
      BY <1>17 DEF DeleteSecret, Shape
    <2>2. WritesSecrets
      BY <1>17, <2>1 DEF DeleteSecret, WritesSecrets
    <2> QED
      BY <1>17, <2>1, <2>2 DEF DeleteSecret, Shape, clusterVars, podVars, operatorVars, Writes,
         WritesSeen, WritesRealm, WritesTemplate, WritesIssued
  <1>18. ASSUME NEW d \in Deployments, StartPod(d) PROVE Writes
    <2>1. /\ pods' = [e \in Deployments |-> pods'[e]]
          /\ pods'[d].reads = ReadAtStart(d)
      BY <1>18 DEF StartPod, Shape
    <2>2. WritesIssued
      BY <1>18, <2>1 DEF StartPod, CanStart, ReadAtStart, Imported, WritesIssued
    <2> QED
      BY <1>18, <2>1, <2>2, SameSecretsLemma DEF StartPod, secretVars, Shape, lossVars, clusterVars,
         Writes, WritesSeen, WritesRealm, WritesTemplate
  <1>19. ASSUME NEW d \in Deployments, LosePod(d) PROVE Writes
    <2>1. pods' = [e \in Deployments |-> pods'[e]]
      BY <1>19 DEF LosePod, Shape
    <2> QED
      BY <1>19, <2>1, SameSecretsLemma DEF LosePod, secretVars, Shape, clusterVars,
         Writes, WritesSeen, WritesRealm, WritesTemplate, WritesIssued
  <1>20. CASE UNCHANGED vars
    BY <1>20, SameSecretsLemma DEF vars, secretVars, lossVars, clusterVars, podVars, operatorVars,
       Shape, Writes, WritesSeen, WritesRealm, WritesTemplate, WritesIssued
  <1> QED
    BY <1>2, <1>3, <1>4, <1>5, <1>6, <1>7, <1>8, <1>9, <1>10, <1>11, <1>12, <1>13, <1>14, <1>15,
       <1>16, <1>17, <1>18, <1>19, <1>20 DEF Next, Pass
-----------------------------------------------------------------------------
(* The invariant *)

LEMMA InvInit == Init => Inv
  <1> SUFFICES ASSUME Init PROVE Inv
    OBVIOUS
  <1>1. Shape
    BY DEF Init, Fresh, Upgraded, Shape
  <1>2. RealmFirst
    <2>1. CASE Fresh
      BY <2>1 DEF Init, Fresh, RealmFirst, Workloads, Deployments
    <2>2. CASE Upgraded
      BY <2>2, AbsentLemma DEF Init, Upgraded, RealmFirst
    <2> QED
      BY <2>1, <2>2 DEF Init
  <1>3. OneKey
    <2>1. CASE Fresh
      BY <2>1 DEF Init, Fresh, OneKey
    <2>2. CASE Upgraded
      <3>1. secrets["realmKey"] = All({"signing"}, 1)
        BY <2>2 DEF Upgraded, Secrets, GeneratedSecrets
      <3>2. SigningKey = 1 /\ secrets["realmKey"] # Absent
        BY <3>1, AbsentLemma DEF SigningKey, All
      <3>3. realm["signing"] = 1 /\ issued = {1}
        BY <2>2 DEF Upgraded, All
      <3> QED
        BY <3>2, <3>3 DEF Init, OneKey
    <2> QED
      BY <2>1, <2>2 DEF Init
  <1> QED
    BY <1>1, <1>2, <1>3 DEF Inv

LEMMA OneKeyStep == Inv /\ Writes => OneKey'
  <1> SUFFICES ASSUME Inv, Writes, "realmKey" \notin lost' PROVE OneKey'
    BY DEF OneKey
  <1>1. "realmKey" \notin lost
    BY DEF Writes
  <1>2. secrets'["realmKey"] = secrets["realmKey"] \/ secrets["realmKey"] = Absent
    BY DEF Writes, WritesSecrets, Secrets, GeneratedSecrets
  <1>3. CASE secrets'["realmKey"] = secrets["realmKey"]
    <2>1. SigningKey' = SigningKey
      BY <1>3 DEF SigningKey
    <2>2. seen'["realmKey"] \in {Absent, secrets["realmKey"]}
      BY <1>1 DEF Inv, OneKey, Writes, WritesSeen
    <2>3. realm' # Absent => secrets["realmKey"] # Absent /\ realm'["signing"] = SigningKey
      <3>1. CASE realm' = RealmJSON /\ "signing" \in DOMAIN seen["realmKey"]
        <4>1. seen["realmKey"] # Absent
          BY <3>1, AbsentLemma
        <4>2. seen["realmKey"] = secrets["realmKey"] /\ secrets["realmKey"] # Absent
          BY <1>1, <4>1 DEF Inv, OneKey
        <4>3. realm'["signing"] = seen["realmKey"]["signing"]
          BY <3>1 DEF RealmJSON, RealmKeys
        <4> QED
          BY <4>2, <4>3 DEF SigningKey
      <3> QED
        BY <1>1, <3>1 DEF Inv, OneKey, Writes, WritesRealm
    <2>4. issued' # {} => secrets["realmKey"] # Absent /\ issued' = {SigningKey}
      BY <1>1 DEF Inv, OneKey, RealmFirst, Writes, WritesIssued
    <2> QED
      BY <1>3, <2>1, <2>2, <2>3, <2>4 DEF OneKey
  <1>4. CASE secrets["realmKey"] = Absent
    <2>1. seen["realmKey"] = Absent /\ realm = Absent /\ issued = {}
      BY <1>1, <1>4 DEF Inv, OneKey
    <2>2. seen'["realmKey"] = Absent
      BY <1>4, <2>1 DEF Writes, WritesSeen
    <2>3. realm' = Absent
      BY <2>1, AbsentLemma DEF Writes, WritesRealm
    <2>4. issued' = {}
      BY <2>1 DEF Inv, RealmFirst, Writes, WritesIssued
    <2> QED
      BY <2>2, <2>3, <2>4 DEF OneKey
  <1> QED
    BY <1>2, <1>3, <1>4

LEMMA InvStep == Inv /\ [Next]_vars => Inv'
  <1> SUFFICES ASSUME Inv, [Next]_vars PROVE Inv'
    OBVIOUS
  <1>1. Writes
    BY WritesLemma DEF Inv
  <1>2. RealmFirst'
    <2>1. realm # Absent => realm' # Absent
      <3>1. RealmJSON # Absent
        <4>1. DOMAIN RealmJSON # {}
          BY DEF RealmJSON, RealmKeys
        <4> QED
          BY <4>1, AbsentLemma
      <3> QED
        BY <1>1, <3>1 DEF Writes, WritesRealm
    <2> QED
      BY <1>1, <2>1 DEF Inv, RealmFirst, Writes, WritesTemplate
  <1>3. OneKey'
    BY <1>1, OneKeyStep
  <1> QED
    BY <1>1, <1>2, <1>3 DEF Inv, Writes

(* The invariant holds in every state of every behaviour.                     *)
THEOREM Invariance == Spec => []Inv
  BY InvInit, InvStep, PTL DEF Spec

(* keycloak.go, ensureKeycloakRealmKey: restarts of Keycloak, crashes of the  *)
(* operator and a cache that lags invalidate no token.                        *)
THEOREM TokensStayValid == Spec => []TokensSurvive
  <1>1. Inv => TokensSurvive
    <2> SUFFICES ASSUME Inv, "realmKey" \notin lost PROVE Cardinality(issued) <= 1
      BY DEF TokensSurvive
    <2>1. issued \in SUBSET {SigningKey}
      BY DEF Inv, OneKey
    <2>2. IsFiniteSet({SigningKey}) /\ Cardinality({SigningKey}) = 1
      BY FS_Singleton
    <2> QED
      BY <2>1, <2>2, FS_Subset, FS_CardinalityType
  <1> QED
    BY <1>1, Invariance, PTL

(* ensureGeneratedSecret and ensureOIDCSecretKeys: no credential is replaced  *)
(* or dropped but with its Secret.                                            *)
THEOREM CredentialsAreKept == Spec => SecretsKept
  <1> DEFINE Keeps == \A s \in GeneratedSecrets : secrets'[s] # Absent => Kept(s)
  <1>1. ASSUME Inv, [Next]_vars PROVE Keeps
    <2>1. WritesSecrets
      BY <1>1, WritesLemma DEF Inv, Writes
    <2>2. \A s \in GeneratedSecrets : s \in Secrets /\ s # "opaOIDC"
      BY DEF Secrets, GeneratedSecrets
    <2>3. \A s : secrets[s] = Absent \/ secrets'[s] = secrets[s] => Kept(s)
      BY AbsentLemma DEF Kept
    <2> QED
      BY <2>1, <2>2, <2>3 DEF WritesSecrets
  <1>2. Inv /\ [Next]_vars => [Keeps]_vars
    BY <1>1
  <1> QED
    BY <1>2, Invariance, PTL DEF Spec, SecretsKept, Kept
-----------------------------------------------------------------------------
(* Types *)

\* What a Secret holds before it is complete: an earlier version of oidc knew
\* two clients, and OPA's own Secret has one key.
PartOf(s) ==
    CASE s = "oidc" -> {"trino", "operator"}
      [] s = "opaOIDC" -> {"opa"}
      [] OTHER -> KeysOf(s)

Contents(s) == {Absent} \cup [KeysOf(s) -> Credential] \cup [PartOf(s) -> Credential]

SecretTypes == \A s \in Secrets : secrets[s] \in Contents(s) /\ seen[s] \in Contents(s)

\* The Secret will be generated, or a key of it.
Unfinished(s) == secrets[s] = Absent \/ (s = "oidc" /\ "opa" \notin DOMAIN secrets[s])

\* Only a deletion makes room for one more credential.
Counted ==
    /\ generated \in [GeneratedSecrets -> Nat]
    /\ \A s \in GeneratedSecrets :
          /\ generated[s] <= losses + 2
          /\ Unfinished(s) => generated[s] <= losses + 1

LossTypes == lost \subseteq Secrets /\ losses \in 0..MaxLosses /\ restarts \in 0..MaxRestarts

Realms ==
    {Absent} \cup [RealmKeys -> Credential] \cup [{"signing", "trino", "operator"} -> Credential]
RealmTypes == realm \in Realms /\ db \in Credential /\ issued \subseteq Credential

\* The keys of a template only grow, from an earlier version's to these.
TemplateKeys(d) ==
    CASE d = "keycloak" -> RealmKeys
      [] d = "openfga" -> {"password"}
      [] d = "lakekeeper" -> {"apiKey"}
      [] d = "trino" -> {"trino"}
      [] OTHER -> {"name"}
TemplateTypes ==
    /\ \A d \in Workloads : DOMAIN template[d] \subseteq TemplateKeys(d)
    /\ \A d \in Deployments : DOMAIN pods[d].template \subseteq DOMAIN template[d]

\* Keycloak is applied with the hash of a whole realm.
Passes == [ hash : {Absent} \cup [RealmKeys -> Credential], oidc : [Clients -> Credential],
            apiKey : Credential, waits : SUBSET Deployments ]
PassTypes ==
    /\ queued \in BOOLEAN /\ pc \in {"idle"} \cup Steps
    /\ pass \in Passes
    /\ pc = "keycloak" => pass.hash \in [RealmKeys -> Credential]

Typed == SecretTypes /\ Counted /\ LossTypes /\ RealmTypes /\ TemplateTypes /\ PassTypes

(* Small numbers are credentials.                                             *)
LEMMA CredentialLemma ==
    /\ 0 \in Credential /\ 1 \in Credential
    /\ \A n \in Nat : n <= MaxLosses + 2 => n \in Credential
    /\ Credential \subseteq Nat
  BY CredentialsBoundsAssumption DEF Credential, Bound

(* What a Secret holds, if it has the keys that are asked for.                *)
LEMMA ContentsLemma ==
    /\ \A f \in Contents("realmKey") : {"signing"} \subseteq DOMAIN f => f["signing"] \in Credential
    /\ \A f \in Contents("openfga") : {"apiKey"} \subseteq DOMAIN f => f["apiKey"] \in Credential
    /\ \A f \in Contents("postgres") :
          f # Absent => DOMAIN f = {"password"} /\ f["password"] \in Credential
    /\ \A f \in Contents("oidc") :
          /\ Clients \subseteq DOMAIN f => f \in [Clients -> Credential]
          /\ f # Absent /\ "opa" \notin DOMAIN f => f \in [{"trino", "operator"} -> Credential]
  <1>1. DOMAIN Absent = {}
    BY AbsentLemma
  <1>2. \A f \in Contents("realmKey") :
           {"signing"} \subseteq DOMAIN f => f["signing"] \in Credential
    BY <1>1 DEF Contents, KeysOf, PartOf
  <1>3. \A f \in Contents("openfga") : {"apiKey"} \subseteq DOMAIN f => f["apiKey"] \in Credential
    BY <1>1 DEF Contents, KeysOf, PartOf
  <1>4. \A f \in Contents("postgres") :
            f # Absent => DOMAIN f = {"password"} /\ f["password"] \in Credential
    BY DEF Contents, KeysOf, PartOf
  <1>5. \A f \in Contents("oidc") :
            /\ Clients \subseteq DOMAIN f => f \in [Clients -> Credential]
            /\ f # Absent /\ "opa" \notin DOMAIN f => f \in [{"trino", "operator"} -> Credential]
    BY <1>1 DEF Contents, KeysOf, PartOf, Clients
  <1> QED
    BY <1>2, <1>3, <1>4, <1>5

(* An installation and an upgrade are typed.                                  *)
LEMMA TypedInit == Init => Typed
  <1> SUFFICES ASSUME Init PROVE Typed
    OBVIOUS
  <1>0. /\ seen = secrets /\ lost = {} /\ losses = 0 /\ restarts = 0 /\ db = None
        /\ queued = TRUE /\ pc = "idle" /\ pass = NoPass
    BY DEF Init
  <1>1. PassTypes
    <2>1. All(Clients, None) \in [Clients -> Credential] /\ None \in Credential
      BY CredentialLemma DEF All, None
    <2> QED
      BY <1>0, <2>1 DEF PassTypes, Passes, NoPass
  <1>2. LossTypes
    BY <1>0, CredentialsBoundsAssumption DEF LossTypes
  <1>3. CASE Fresh
    <2>1. SecretTypes
      BY <1>0, <1>3 DEF Fresh, SecretTypes, Contents
    <2>2. Counted
      BY <1>0, <1>3 DEF Fresh, Counted, None
    <2>3. RealmTypes
      BY <1>0, <1>3, CredentialLemma DEF Fresh, RealmTypes, Realms, None
    <2>4. TemplateTypes
      BY <1>3, AbsentLemma DEF Fresh, TemplateTypes, Down, Workloads
    <2> QED
      BY <1>1, <1>2, <2>1, <2>2, <2>3, <2>4 DEF Typed
  <1>4. CASE Upgraded
    <2> DEFINE before == All({"signing", "trino", "operator"}, 1)
    <2>1. /\ before \in [{"signing", "trino", "operator"} -> Credential]
          /\ DOMAIN before = {"signing", "trino", "operator"}
      BY CredentialLemma DEF All
    <2>2. /\ secrets = [s \in Secrets |->
                          CASE s = "realmKey" -> All({"signing"}, 1)
                            [] s = "oidc" -> All({"trino", "operator"}, 1)
                            [] OTHER -> Absent]
          /\ generated = [s \in GeneratedSecrets |-> IF secrets[s] = Absent THEN None ELSE 1]
          /\ realm = before /\ issued = {1}
          /\ template = [d \in Workloads |-> IF d = "keycloak" THEN before ELSE Absent]
          /\ pods = [d \in Deployments |->
                IF d = "keycloak" THEN [template |-> before, reads |-> before] ELSE Down]
      BY <1>4 DEF Upgraded
    <2> HIDE DEF before
    <2>3. SecretTypes
      <3>1. /\ All({"signing"}, 1) \in [{"signing"} -> Credential]
            /\ All({"trino", "operator"}, 1) \in [{"trino", "operator"} -> Credential]
        BY CredentialLemma DEF All
      <3>2. \A s \in Secrets : Absent \in Contents(s)
        BY DEF Contents
      <3>3. /\ All({"signing"}, 1) \in Contents("realmKey")
            /\ All({"trino", "operator"}, 1) \in Contents("oidc")
        BY <3>1 DEF Contents, KeysOf, PartOf
      <3>4. \A s \in Secrets :
                \/ s = "realmKey" /\ secrets[s] = All({"signing"}, 1)
                \/ s = "oidc" /\ secrets[s] = All({"trino", "operator"}, 1)
                \/ secrets[s] = Absent
        BY <2>2
      <3> QED
        BY <1>0, <3>2, <3>3, <3>4 DEF SecretTypes
    <2>4. Counted
      BY <1>0, <2>2 DEF Counted, None
    <2>5. RealmTypes
      BY <1>0, <2>1, <2>2, CredentialLemma DEF RealmTypes, Realms, None
    <2>6. TemplateTypes
      BY <2>1, <2>2, AbsentLemma DEF TemplateTypes, TemplateKeys, RealmKeys, Clients, Down,
         Workloads, Deployments
    <2> QED
      BY <1>1, <1>2, <2>3, <2>4, <2>5, <2>6 DEF Typed
  <1> QED
    BY <1>3, <1>4 DEF Init

\* What may happen to the Secrets.
AddsKey ==
    /\ secrets["oidc"] # Absent /\ "opa" \notin DOMAIN secrets["oidc"]
    /\ Generate("oidc", {"opa"}, secrets["oidc"])
WritesOPASecret == Write(OPASecret, [k \in {"opa"} |-> pass.oidc["opa"]]) /\ UNCHANGED generated

LEMMA SecretKinds ==
    ASSUME [Next]_vars
    PROVE  \/ /\ UNCHANGED losses
              /\ \/ UNCHANGED <<secrets, generated>> /\ WritesSeen
                 \/ \E s \in GeneratedSecrets : CreateSecret(s)
                 \/ AddsKey
                 \/ WritesOPASecret
           \/ \E s \in Secrets : DeleteSecret(s)
  <1>1. ASSUME NEW step, NEW s \in GeneratedSecrets, NEW next, EnsureGeneratedSecret(step, s, next)
        PROVE  UNCHANGED losses /\ (UNCHANGED secretVars \/ CreateSecret(s))
    BY <1>1 DEF EnsureGeneratedSecret, At, lossVars
  <1>2. ASSUME AddOIDCKeys PROVE UNCHANGED losses /\ (UNCHANGED secretVars \/ AddsKey)
    <2>1. UNCHANGED losses
      BY <1>2 DEF AddOIDCKeys, At, lossVars
    <2>2. CASE seen["oidc"] = secrets["oidc"]
      BY <1>2, <2>1, <2>2 DEF AddOIDCKeys, AddsKey, Reads
    <2>3. CASE seen["oidc"] # secrets["oidc"]
      BY <1>2, <2>1, <2>3 DEF AddOIDCKeys
    <2> QED
      BY <2>2, <2>3
  <1>3. CASE Pass
    <2>1. CASE EnsureRealmKey \/ EnsureOIDC \/ EnsureOpenFGAKey \/ EnsureOpenFGAPassword
      BY <1>1, <1>2, <2>1 DEF EnsureRealmKey, EnsureOIDC, EnsureOpenFGAKey, EnsureOpenFGAPassword,
         GeneratedSecrets, secretVars, WritesSeen
    <2>2. CASE Begin \/ ApplyRealm \/ ApplyKeycloak \/ ApplyPostgres
      BY <2>2 DEF Begin, ApplyRealm, ApplyKeycloak, ApplyPostgres, At, lossVars, secretVars,
         WritesSeen
    <2>3. CASE ApplyOpenFGA \/ ApplyLakekeeper \/ ApplyTrino
      BY <2>3 DEF ApplyOpenFGA, ApplyLakekeeper, ApplyTrino, At, lossVars, secretVars, WritesSeen
    <2>4. CASE ApplyOPA
      BY <2>4 DEF ApplyOPA, At, lossVars, WritesSeen, WritesOPASecret
    <2> QED
      BY <1>3, <2>1, <2>2, <2>3, <2>4 DEF Pass
  <1>4. CASE Crash \/ Deliver \/ InitDB \/ UNCHANGED vars
    BY <1>4 DEF Crash, Deliver, InitDB, vars, lossVars, secretVars, WritesSeen
  <1>5. ASSUME NEW d \in Deployments, StartPod(d) \/ LosePod(d)
        PROVE  UNCHANGED losses /\ UNCHANGED secretVars
    BY <1>5 DEF StartPod, LosePod, lossVars
  <1> QED
    BY <1>3, <1>4, <1>5 DEF Next, secretVars, WritesSeen

(* A step keeps what is known of the Secrets, and of their number.            *)
LEMMA SecretTypesStep ==
    ASSUME Shape, Typed, [Next]_vars
    PROVE  SecretTypes' /\ Counted'
  <1> USE DEF Typed
  <1>1. ASSUME NEW s \in GeneratedSecrets
        PROVE  s \in Secrets /\ generated[s] \in Nat /\ s # "opaOIDC"
    BY DEF Secrets, GeneratedSecrets, Counted
  <1>2. losses \in Nat /\ losses <= MaxLosses /\ MaxLosses \in Nat
    BY CredentialsBoundsAssumption DEF LossTypes
  <1>3. CASE UNCHANGED <<secrets, generated, losses>> /\ WritesSeen
    BY <1>3 DEF SecretTypes, Counted, Unfinished, WritesSeen
  <1>4. ASSUME NEW s \in GeneratedSecrets, Unfinished(s), NEW keys, NEW data,
               Generate(s, keys, data), UNCHANGED losses,
               keys \cup DOMAIN data = KeysOf(s),
               \A k \in DOMAIN data : data[k] \in Credential
        PROVE  SecretTypes' /\ Counted'
    <2>1. generated[s] + 1 \in Credential /\ generated[s] + 1 <= losses + 2
      <3>1. generated[s] <= losses + 1
        BY <1>4 DEF Counted
      <3> QED
        BY <1>1, <1>2, <3>1, CredentialLemma
    <2> DEFINE new == [k \in keys \cup DOMAIN data |->
                          IF k \in DOMAIN data THEN data[k] ELSE generated[s] + 1]
    <2>2. new \in [KeysOf(s) -> Credential]
      BY <1>4, <2>1
    <2>3. Write(s, new) /\ generated' = [generated EXCEPT ![s] = @ + 1]
      BY <1>4 DEF Generate
    <2> HIDE DEF new
    <2>4. /\ secrets'[s] = new /\ seen' = seen
          /\ \A t \in Secrets \ {s} : secrets'[t] = secrets[t]
      BY <1>1, <2>3, WriteLemma
    <2>5. SecretTypes'
      BY <2>2, <2>4 DEF SecretTypes, Contents
    <2>6. new # Absent /\ (s = "oidc" => "opa" \in DOMAIN new)
      <3>1. DOMAIN new = KeysOf(s) /\ KeysOf(s) # {} /\ (s = "oidc" => "opa" \in KeysOf(s))
        BY <2>2 DEF KeysOf, GeneratedSecrets, Clients
      <3> QED
        BY <3>1, AbsentLemma
    <2>7. Counted'
      <3>1. /\ generated' \in [GeneratedSecrets -> Nat]
            /\ generated'[s] = generated[s] + 1
            /\ \A t \in GeneratedSecrets \ {s} : generated'[t] = generated[t]
        BY <1>1, <2>3 DEF Counted
      <3>2. \A t \in GeneratedSecrets \ {s} : t \in Secrets /\ secrets'[t] = secrets[t]
        BY <1>1, <2>4
      <3> QED
        BY <1>4, <2>1, <2>4, <2>6, <3>1, <3>2 DEF Counted, Unfinished
    <2> QED
      BY <2>5, <2>7
  <1>5. ASSUME NEW s \in GeneratedSecrets, CreateSecret(s), UNCHANGED losses
        PROVE  SecretTypes' /\ Counted'
    <2>1. secrets[s] = Absent /\ Generate(s, KeysOf(s), Absent) /\ DOMAIN Absent = {}
      BY <1>5, AbsentLemma DEF CreateSecret
    <2> QED
      BY <1>4, <1>5, <2>1 DEF Unfinished
  <1>6. CASE AddsKey /\ UNCHANGED losses
    <2>1. "oidc" \in GeneratedSecrets /\ "oidc" \in Secrets /\ Unfinished("oidc")
      BY <1>6 DEF AddsKey, Unfinished, Secrets, GeneratedSecrets
    <2>2. secrets["oidc"] \in [{"trino", "operator"} -> Credential]
      BY <1>6, <2>1, ContentsLemma DEF AddsKey, SecretTypes
    <2>3. {"opa"} \cup DOMAIN secrets["oidc"] = KeysOf("oidc")
      BY <2>2 DEF KeysOf, Clients
    <2>4. \A k \in DOMAIN secrets["oidc"] : secrets["oidc"][k] \in Credential
      BY <2>2
    <2>5. Generate("oidc", {"opa"}, secrets["oidc"])
      BY <1>6 DEF AddsKey
    <2> HIDE DEF Typed
    <2> QED
      BY <1>4, <1>6, <2>1, <2>3, <2>4, <2>5
  <1>7. CASE WritesOPASecret /\ UNCHANGED losses
    <2> DEFINE new == [k \in {"opa"} |-> pass.oidc["opa"]]
    <2>1. new \in [{"opa"} -> Credential]
      BY DEF PassTypes, Passes, Clients
    <2>2. "opaOIDC" \in Secrets /\ Write("opaOIDC", new) /\ UNCHANGED generated
      BY <1>7 DEF WritesOPASecret, OPASecret, Secrets
    <2> HIDE DEF new
    <2>3. /\ secrets'["opaOIDC"] = new /\ seen' = seen
          /\ \A t \in Secrets \ {"opaOIDC"} : secrets'[t] = secrets[t]
      BY <2>2, WriteLemma
    <2>4. new \in Contents("opaOIDC")
      BY <2>1 DEF Contents, PartOf
    <2>5. SecretTypes'
      BY <2>3, <2>4 DEF SecretTypes
    <2>6. Counted'
      BY <1>1, <1>7, <2>2, <2>3 DEF Counted, Unfinished
    <2> QED
      BY <2>5, <2>6
  <1>8. ASSUME NEW s \in Secrets, DeleteSecret(s)
        PROVE  SecretTypes' /\ Counted'
    <2>1. /\ secrets' = [t \in Secrets |-> IF t = s THEN Absent ELSE secrets[t]]
          /\ UNCHANGED <<seen, generated>> /\ losses' = losses + 1
      BY <1>8 DEF DeleteSecret, Shape
    <2>2. SecretTypes'
      BY <2>1 DEF SecretTypes, Contents
    <2>3. ASSUME NEW t \in GeneratedSecrets
          PROVE  /\ generated'[t] <= losses' + 2
                 /\ Unfinished(t)' => generated'[t] <= losses' + 1
      <3>1. generated[t] \in Nat /\ generated[t] <= losses + 2
        BY <1>1 DEF Counted
      <3> QED
        BY <1>2, <2>1, <3>1
    <2>4. generated' \in [GeneratedSecrets -> Nat]
      BY <2>1 DEF Counted
    <2> QED
      BY <2>2, <2>3, <2>4 DEF Counted
  <1> QED
    BY <1>3, <1>5, <1>6, <1>7, <1>8, SecretKinds

LEMMA LossTypesStep == LossTypes /\ [Next]_vars => LossTypes'
  <1> SUFFICES ASSUME LossTypes, [Next]_vars PROVE LossTypes'
    OBVIOUS
  <1>1. CASE Pass \/ Deliver \/ InitDB \/ UNCHANGED vars
    <2>1. UNCHANGED lossVars
      BY <1>1 DEF Pass, Begin, EnsureRealmKey, EnsureOIDC, AddOIDCKeys, EnsureOpenFGAKey,
         EnsureOpenFGAPassword, EnsureGeneratedSecret, ApplyRealm, ApplyKeycloak, ApplyPostgres,
         ApplyOpenFGA, ApplyLakekeeper, ApplyOPA, ApplyTrino, At, Deliver, InitDB, vars
    <2> QED
      BY <2>1 DEF LossTypes, lossVars
  <1>2. CASE Crash
    BY <1>2, CredentialsBoundsAssumption DEF Crash, LossTypes
  <1>3. ASSUME NEW s \in Secrets, DeleteSecret(s) PROVE LossTypes'
    BY <1>3, CredentialsBoundsAssumption DEF DeleteSecret, LossTypes
  <1>4. ASSUME NEW d \in Deployments, StartPod(d) PROVE LossTypes'
    BY <1>4 DEF StartPod, LossTypes, lossVars
  <1>5. ASSUME NEW d \in Deployments, LosePod(d) PROVE LossTypes'
    BY <1>5, CredentialsBoundsAssumption DEF LosePod, LossTypes
  <1> QED
    BY <1>1, <1>2, <1>3, <1>4, <1>5 DEF Next

(* What keycloakRealmJSON makes of Secrets that have their keys.              *)
LEMMA RealmJSONLemma ==
    ASSUME Typed, Reads("realmKey", {"signing"}), Reads("oidc", Clients)
    PROVE  RealmJSON \in [RealmKeys -> Credential]
  <1>1. "realmKey" \in Secrets /\ "oidc" \in Secrets
    BY DEF Secrets, GeneratedSecrets
  <1>2. seen["realmKey"]["signing"] \in Credential /\ seen["oidc"] \in [Clients -> Credential]
    BY <1>1, ContentsLemma DEF Typed, SecretTypes, Reads
  <1>3. \A k \in RealmKeys :
            seen[IF k = "signing" THEN "realmKey" ELSE "oidc"][k] \in Credential
    BY <1>2 DEF RealmKeys
  <1> QED
    BY <1>3 DEF RealmJSON

LEMMA RealmTypesStep ==
    ASSUME Inv, Typed, [Next]_vars
    PROVE  RealmTypes'
  <1>1. realm' \in Realms
    <2>1. CASE ApplyRealm
      <3>1. CASE Reads("realmKey", {"signing"}) /\ Reads("oidc", Clients)
        <4>1. realm' = RealmJSON
          BY <2>1, <3>1 DEF ApplyRealm
        <4> QED
          BY <3>1, <4>1, RealmJSONLemma DEF Realms
      <3>2. CASE ~(Reads("realmKey", {"signing"}) /\ Reads("oidc", Clients))
        BY <2>1, <3>2 DEF ApplyRealm, Typed, RealmTypes
      <3> QED
        BY <3>1, <3>2
    <2>2. CASE ~ApplyRealm
      <3>1. UNCHANGED realm
        BY <2>2 DEF Next, Pass, Begin, EnsureRealmKey, EnsureOIDC, AddOIDCKeys, EnsureOpenFGAKey,
           EnsureOpenFGAPassword, EnsureGeneratedSecret, ApplyKeycloak, ApplyPostgres,
           ApplyOpenFGA, ApplyLakekeeper, ApplyOPA, ApplyTrino, Crash, Deliver, InitDB,
           DeleteSecret, StartPod, LosePod, clusterVars, vars
      <3> QED
        BY <3>1 DEF Typed, RealmTypes
    <2> QED
      BY <2>1, <2>2
  <1>2. db' \in Credential
    <2>1. CASE InitDB
      <3>1. "postgres" \in Secrets
        BY DEF Secrets, GeneratedSecrets
      <3> QED
        BY <2>1, <3>1, ContentsLemma DEF InitDB, Typed, SecretTypes
    <2>2. CASE ~InitDB
      <3>1. UNCHANGED db
        BY <2>2 DEF Next, Pass, Begin, EnsureRealmKey, EnsureOIDC, AddOIDCKeys, EnsureOpenFGAKey,
           EnsureOpenFGAPassword, EnsureGeneratedSecret, ApplyRealm, ApplyKeycloak, ApplyPostgres,
           ApplyOpenFGA, ApplyLakekeeper, ApplyOPA, ApplyTrino, At, Crash, Deliver,
           DeleteSecret, StartPod, LosePod, clusterVars, vars
      <3> QED
        BY <3>1 DEF Typed, RealmTypes
    <2> QED
      BY <2>1, <2>2
  <1>3. issued' \subseteq Credential
    <2>1. realm # Absent => realm["signing"] \in Credential
      BY DEF Typed, RealmTypes, Realms, RealmKeys
    <2>2. WritesIssued
      BY WritesLemma DEF Inv, Writes
    <2> QED
      BY <2>1, <2>2 DEF Inv, RealmFirst, WritesIssued, Typed, RealmTypes
  <1> QED
    BY <1>1, <1>2, <1>3 DEF RealmTypes

\* A template that is written has all its keys.
WritesKeys ==
    \/ UNCHANGED template
    \/ \E d \in Workloads : \E holds : SetTemplate(d, holds) /\ DOMAIN holds = TemplateKeys(d)

LEMMA WritesKeysLemma == Typed /\ [Next]_vars => WritesKeys
  <1> SUFFICES ASSUME Typed, [Next]_vars PROVE WritesKeys
    OBVIOUS
  <1>1. \A w : w \in {"keycloak", "openfga", "lakekeeper", "opa", "trino", "postgres"}
               => w \in Workloads
    BY DEF Workloads, Deployments
  <1>2. CASE ApplyKeycloak
    <2>1. SetTemplate("keycloak", pass.hash) /\ pc = "keycloak"
      BY <1>2 DEF ApplyKeycloak, Hash, At
    <2>2. DOMAIN pass.hash = TemplateKeys("keycloak")
      BY <2>1 DEF Typed, PassTypes, TemplateKeys
    <2> QED
      BY <1>1, <2>1, <2>2 DEF WritesKeys
  <1>3. DOMAIN ByName = {"name"} /\ \A keys, v : DOMAIN All(keys, v) = keys
    BY DEF ByName, All
  <1>4. CASE ApplyPostgres \/ ApplyOPA
    <2>1. SetTemplate("postgres", ByName) \/ SetTemplate("opa", ByName) \/ UNCHANGED template
      BY <1>4 DEF ApplyPostgres, ApplyOPA
    <2> QED
      BY <1>1, <1>3, <2>1 DEF WritesKeys, TemplateKeys
  <1>5. CASE ApplyOpenFGA
    <2>1. CASE SetTemplate("openfga", seen["postgres"]) /\ Reads("postgres", {"password"})
      <3>1. seen["postgres"] # Absent /\ seen["postgres"] \in Contents("postgres")
        BY <2>1, AbsentLemma DEF Reads, Typed, SecretTypes, Secrets, GeneratedSecrets
      <3>2. DOMAIN seen["postgres"] = TemplateKeys("openfga")
        BY <3>1, ContentsLemma DEF TemplateKeys
      <3> QED
        BY <1>1, <2>1, <3>2 DEF WritesKeys
    <2> QED
      BY <1>5, <2>1 DEF ApplyOpenFGA, WritesKeys
  <1>6. CASE ApplyLakekeeper \/ ApplyTrino
    <2>1. \/ SetTemplate("lakekeeper", All({"apiKey"}, pass.apiKey))
          \/ SetTemplate("trino", All({"trino"}, pass.oidc["trino"]))
      BY <1>6 DEF ApplyLakekeeper, ApplyTrino
    <2> QED
      BY <1>1, <1>3, <2>1 DEF WritesKeys, TemplateKeys
  <1>7. CASE ~(ApplyKeycloak \/ ApplyPostgres \/ ApplyOPA \/ ApplyOpenFGA \/ ApplyLakekeeper
               \/ ApplyTrino)
    BY <1>7 DEF Next, Pass, Begin, EnsureRealmKey, EnsureOIDC, AddOIDCKeys, EnsureOpenFGAKey,
       EnsureOpenFGAPassword, EnsureGeneratedSecret, ApplyRealm, Crash, Deliver, InitDB,
       DeleteSecret, StartPod, LosePod, clusterVars, vars, WritesKeys
  <1> QED
    BY <1>2, <1>4, <1>5, <1>6, <1>7

LEMMA TemplateTypesStep ==
    ASSUME Inv, Typed, [Next]_vars
    PROVE  TemplateTypes'
  <1>1. Shape /\ Shape'
    BY WritesLemma DEF Inv, Writes
  <1>2. ASSUME NEW w \in Workloads
        PROVE  /\ DOMAIN template'[w] \subseteq TemplateKeys(w)
               /\ DOMAIN template[w] \subseteq DOMAIN template'[w]
    <2>1. DOMAIN template[w] \subseteq TemplateKeys(w)
      BY DEF Typed, TemplateTypes
    <2>2. ASSUME NEW d \in Workloads, NEW holds, SetTemplate(d, holds),
                 DOMAIN holds = TemplateKeys(d)
          PROVE  template'[w] = template[w] \/ DOMAIN template'[w] = TemplateKeys(w)
      <3>1. template'[d] = holds /\ \A v \in Workloads \ {d} : template'[v] = template[v]
        BY <1>1, <2>2, ApplyLemma
      <3> QED
        BY <2>2, <3>1
    <2>3. template'[w] = template[w] \/ DOMAIN template'[w] = TemplateKeys(w)
      BY <2>2, WritesKeysLemma DEF WritesKeys
    <2> QED
      BY <2>1, <2>3
  <1>3. ASSUME NEW d \in Deployments
        PROVE  DOMAIN pods'[d].template \subseteq DOMAIN template'[d]
    <2>1. d \in Workloads /\ DOMAIN pods[d].template \subseteq DOMAIN template[d]
      BY DEF Workloads, Typed, TemplateTypes
    <2>2. ASSUME NEW e \in Deployments, StartPod(e) \/ LosePod(e)
          PROVE  \/ pods'[d] = pods[d]
                 \/ pods'[d].template = template[d]
                 \/ pods'[d].template = Absent
      BY <1>1, <2>2 DEF StartPod, LosePod, Shape, Down
    <2>3. \/ pods'[d] = pods[d]
          \/ pods'[d].template = template[d]
          \/ pods'[d].template = Absent
      <3>1. CASE Pass \/ Crash \/ Deliver \/ InitDB \/ UNCHANGED vars
        BY <3>1 DEF Pass, Begin, EnsureRealmKey, EnsureOIDC, AddOIDCKeys, EnsureOpenFGAKey,
           EnsureOpenFGAPassword, EnsureGeneratedSecret, ApplyRealm, ApplyKeycloak, ApplyPostgres,
           ApplyOpenFGA, ApplyLakekeeper, ApplyOPA, ApplyTrino, At, Crash, Deliver, InitDB,
           podVars, vars
      <3>2. ASSUME NEW s \in Secrets, DeleteSecret(s)
            PROVE  pods'[d] = pods[d]
        BY <3>2 DEF DeleteSecret, podVars
      <3> QED
        BY <2>2, <3>1, <3>2 DEF Next
    <2>4. DOMAIN Absent = {}
      BY AbsentLemma
    <2> QED
      BY <1>2, <2>1, <2>3, <2>4
  <1> QED
    BY <1>2, <1>3 DEF TemplateTypes

(* A pass that fails, or goes on as it was.                                   *)
LEMMA NoPassLemma == NoPass \in Passes
  <1>1. All(Clients, None) \in [Clients -> Credential] /\ None \in Credential
    BY CredentialLemma DEF All, None
  <1> QED
    BY <1>1 DEF NoPass, Passes

LEMMA FailLemma == PassTypes /\ Fail => PassTypes'
  BY NoPassLemma DEF Fail, PassTypes

LEMMA GotoLemma ==
    ASSUME PassTypes, NEW step \in Steps \ {"keycloak"}, Goto(step), pass' \in Passes
    PROVE  PassTypes'
  BY DEF PassTypes, Goto

LEMMA PassTypesStep ==
    ASSUME Typed, [Next]_vars
    PROVE  PassTypes'
  <1>1. PassTypes /\ pass \in Passes /\ SecretTypes
    BY DEF Typed, PassTypes
  <1>2. \A s \in GeneratedSecrets : s \in Secrets
    BY DEF Secrets
  <1>3. ASSUME NEW step, NEW s, NEW next \in Steps \ {"keycloak"},
               EnsureGeneratedSecret(step, s, next)
        PROVE  PassTypes'
    <2>1. Fail \/ (Goto(next) /\ UNCHANGED pass)
      BY <1>3 DEF EnsureGeneratedSecret
    <2> QED
      BY <1>1, <2>1, FailLemma, GotoLemma
  <1>4. CASE EnsureRealmKey \/ EnsureOpenFGAKey \/ EnsureOpenFGAPassword
    BY <1>3, <1>4 DEF EnsureRealmKey, EnsureOpenFGAKey, EnsureOpenFGAPassword, Steps
  <1>5. CASE EnsureOIDC
    <2>1. CASE AddOIDCKeys
      <3>1. Fail \/ (Goto("realm") /\ UNCHANGED pass)
        BY <2>1 DEF AddOIDCKeys
      <3> QED
        BY <1>1, <3>1, FailLemma, GotoLemma DEF Steps
    <2> QED
      BY <1>3, <1>5, <2>1 DEF EnsureOIDC, Steps
  <1>6. CASE ApplyRealm
    <2>1. CASE Fail
      BY <1>1, <2>1, FailLemma
    <2>2. CASE Reads("realmKey", {"signing"}) /\ Reads("oidc", Clients)
      <3>1. /\ pass' = [pass EXCEPT !.hash = RealmJSON]
            /\ pc' = "keycloak" /\ UNCHANGED queued
        BY <1>6, <2>2 DEF ApplyRealm, Goto
      <3>2. RealmJSON \in [RealmKeys -> Credential]
        BY <2>2, RealmJSONLemma
      <3>3. pass' \in Passes /\ pass'.hash \in [RealmKeys -> Credential]
        BY <1>1, <3>1, <3>2 DEF Passes
      <3> QED
        BY <1>1, <3>1, <3>3 DEF PassTypes, Steps
    <2> QED
      BY <1>6, <2>1, <2>2 DEF ApplyRealm
  <1>7. CASE ApplyKeycloak
    <2>1. CASE Fail
      BY <1>1, <2>1, FailLemma
    <2>2. CASE /\ Reads("oidc", Clients) /\ Goto("fgaKey")
               /\ pass' = [pass EXCEPT !.oidc = seen["oidc"], !.waits = NotReady("keycloak")]
      <3>1. seen["oidc"] \in [Clients -> Credential]
        BY <1>1, <1>2, <2>2, ContentsLemma DEF SecretTypes, Reads, GeneratedSecrets
      <3>2. NotReady("keycloak") \subseteq Deployments
        BY DEF NotReady, Deployments
      <3>3. pass' \in Passes
        BY <1>1, <2>2, <3>1, <3>2 DEF Passes
      <3> QED
        BY <1>1, <2>2, <3>3, GotoLemma DEF Steps
    <2> QED
      BY <1>7, <2>1, <2>2 DEF ApplyKeycloak
  <1>8. CASE ApplyPostgres
    BY <1>1, <1>8, GotoLemma DEF ApplyPostgres, Steps
  <1>9. CASE ApplyOpenFGA
    <2>1. CASE Fail
      BY <1>1, <2>1, FailLemma
    <2>2. CASE pass' = [pass EXCEPT !.waits = @ \cup {"openfga"}] /\ Goto("opa")
      <3>1. pass' \in Passes
        BY <1>1, <2>2 DEF Passes, Deployments
      <3> QED
        BY <1>1, <2>2, <3>1, GotoLemma DEF Steps
    <2>3. ASSUME ~Refused, NEW waits, waits = pass.waits \cup NotReady("openfga"),
                 pass' = [pass EXCEPT !.apiKey = seen["openfga"]["apiKey"], !.waits = waits],
                 Goto("lakekeeper") \/ Goto("opa")
          PROVE  PassTypes'
      <3>1. seen["openfga"]["apiKey"] \in Credential
        BY <1>1, <1>2, <2>3, ContentsLemma DEF SecretTypes, Refused, Reads, GeneratedSecrets
      <3>2. waits \subseteq Deployments
        BY <1>1, <2>3 DEF NotReady, Passes, Deployments
      <3>3. pass' \in Passes
        BY <1>1, <2>3, <3>1, <3>2 DEF Passes
      <3> QED
        BY <1>1, <2>3, <3>3, GotoLemma DEF Steps
    <2> QED
      BY <1>9, <2>1, <2>2, <2>3 DEF ApplyOpenFGA
  <1>10. CASE ApplyLakekeeper
    <2>1. CASE Fail
      BY <1>1, <2>1, FailLemma
    <2>2. CASE pass' = [pass EXCEPT !.waits = NotReady("lakekeeper")] /\ Goto("opa")
      <3>1. pass' \in Passes
        BY <1>1, <2>2 DEF Passes, NotReady, Deployments
      <3> QED
        BY <1>1, <2>2, <3>1, GotoLemma DEF Steps
    <2> QED
      BY <1>10, <2>1, <2>2 DEF ApplyLakekeeper
  <1>11. CASE ApplyOPA
    <2>1. Fail \/ (Goto("trino") /\ UNCHANGED pass)
      BY <1>11 DEF ApplyOPA
    <2> QED
      BY <1>1, <2>1, FailLemma, GotoLemma DEF Steps
  <1>12. CASE ApplyTrino \/ Crash
    <2>1. pc' = "idle" /\ pass' = NoPass /\ queued' \in BOOLEAN
      BY <1>1, <1>12 DEF ApplyTrino, Crash, PassTypes
    <2> QED
      BY <2>1, NoPassLemma DEF PassTypes
  <1>13. CASE Begin
    BY <1>1, <1>13 DEF Begin, PassTypes, Steps
  <1>14. CASE Deliver \/ InitDB \/ UNCHANGED vars
    BY <1>1, <1>14 DEF Deliver, InitDB, vars, operatorVars, PassTypes
  <1>15. ASSUME NEW s \in Secrets, DeleteSecret(s) PROVE PassTypes'
    BY <1>1, <1>15 DEF DeleteSecret, operatorVars, PassTypes
  <1>16. ASSUME NEW d \in Deployments, StartPod(d) \/ LosePod(d) PROVE PassTypes'
    BY <1>1, <1>16 DEF StartPod, LosePod, PassTypes
  <1> QED
    BY <1>4, <1>5, <1>6, <1>7, <1>8, <1>9, <1>10, <1>11, <1>12, <1>13, <1>14, <1>15, <1>16
       DEF Next, Pass

(* Every variable stays within its type: in particular as many credentials    *)
(* are generated as Secrets are deleted, and two more (a first one, and OPA's *)
(* after an upgrade; ensureGeneratedSecret, ensureOIDCSecretKeys), and no key *)
(* of a Secret is read that it does not have.                                 *)
THEOREM TypeCorrect == Spec => []TypeOK
  <1>1. Init => Inv /\ Typed
    BY InvInit, TypedInit
  <1>2. Inv /\ Typed /\ [Next]_vars => (Inv /\ Typed)'
    <2> SUFFICES ASSUME Inv, Typed, [Next]_vars PROVE Inv' /\ Typed'
      OBVIOUS
    <2>1. Shape
      BY DEF Inv
    <2>2. SecretTypes' /\ Counted'
      BY <2>1, SecretTypesStep
    <2>3. LossTypes' /\ RealmTypes' /\ TemplateTypes' /\ PassTypes'
      BY LossTypesStep, RealmTypesStep, TemplateTypesStep, PassTypesStep DEF Typed
    <2> QED
      BY <2>2, <2>3, InvStep DEF Typed
  <1>3. Inv /\ Typed => TypeOK
    <2> SUFFICES ASSUME Inv, Typed PROVE TypeOK
      OBVIOUS
    <2>1. \A s \in Secrets : \A f \in Contents(s) : Holds(f, KeysOf(s))
      <3>1. \A s \in Secrets : PartOf(s) \subseteq KeysOf(s)
        BY DEF PartOf, KeysOf, Secrets, GeneratedSecrets, Clients
      <3>2. \A s : \A f \in Contents(s) :
                f = Absent \/ f \in [KeysOf(s) -> Credential] \/ f \in [PartOf(s) -> Credential]
        BY DEF Contents
      <3>3. DOMAIN Absent = {}
        BY AbsentLemma
      <3>4. \A keys, more, f : keys \subseteq more /\ (f = Absent \/ f \in [keys -> Credential])
                              => Holds(f, more)
        BY <3>3 DEF Holds, Range
      <3> QED
        BY <3>1, <3>2, <3>4
    <2>2. Holds(realm, RealmKeys) /\ Holds(pass.hash, RealmKeys)
      <3>1. DOMAIN Absent = {} /\ {"signing", "trino", "operator"} \subseteq RealmKeys
        BY AbsentLemma DEF RealmKeys, Clients
      <3>2. \A f \in Realms : Holds(f, RealmKeys)
        BY <3>1 DEF Realms, Holds, Range
      <3> QED
        BY <3>2 DEF Typed, RealmTypes, PassTypes, Passes, Realms
    <2>3. generated \in [GeneratedSecrets -> Credential]
      <3>1. \A s \in GeneratedSecrets : generated[s] \in Credential
        <4> TAKE s \in GeneratedSecrets
        <4>1. generated[s] \in Nat /\ generated[s] <= losses + 2
          BY DEF Typed, Counted
        <4>2. losses + 2 <= MaxLosses + 2 /\ losses \in Nat /\ MaxLosses \in Nat
          BY CredentialsBoundsAssumption DEF Typed, LossTypes
        <4> QED
          BY <4>1, <4>2, CredentialLemma
      <3> QED
        BY <3>1 DEF Typed, Counted
    <2>4. DOMAIN template = Workloads /\ DOMAIN pods = Deployments
      BY DEF Inv, Shape
    <2> QED
      BY <2>1, <2>2, <2>3, <2>4 DEF TypeOK, Typed, SecretTypes, LossTypes, RealmTypes,
         TemplateTypes, PassTypes, Passes
  <1> QED
    BY <1>1, <1>2, <1>3, PTL DEF Spec
==============================================================================
