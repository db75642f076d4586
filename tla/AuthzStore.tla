----------------------------- MODULE AuthzStore -----------------------------
(***************************************************************************)
(* EnsureAuthzStore (internal/controller/authzstore.go) and its caller     *)
(* reconcileAccessStore: the operator finds the OpenFGA store of the       *)
(* access policies by name, creates it when it is missing, writes its      *)
(* authorization model when another one is wanted, and hands its id on to  *)
(* OPA and to the status, where the users who write tuples read it.        *)
(*                                                                         *)
(* Every step of the operator is one HTTP request.  A request may fail, it *)
(* may take effect and its answer be lost, and it may take effect only     *)
(* after the operator gave up on it: OpenFGA has no unique store names and *)
(* no conditional writes.                                                  *)
(***************************************************************************)
EXTENDS Naturals, Sequences, FiniteSets

CONSTANTS
    Names,      \* the names spec.authz.openfga.rowFilterStore may take
    Models,     \* the authorization models the policies may need
    PageSize,   \* how many stores OpenFGA lists in a page
    MaxEdits,   \* bound: how often the user edits the policies
    MaxFaults,  \* bound: requests that fail or whose answer is lost
    MaxLate,    \* bound: requests that take effect after they were given up
    MaxDeletes, \* bound: stores an administrator deletes
    MaxOthers   \* bound: stores other clients create, LakeKeeper's among them

ASSUME NamesAssumption == "lakekeeper" \notin Names /\ Names # {}
ASSUME ModelsAssumption == "none" \notin Models /\ Models # {}
ASSUME BoundsAssumption ==
    /\ PageSize \in Nat \ {0}
    /\ {MaxEdits, MaxFaults, MaxLate, MaxDeletes, MaxOthers} \subseteq Nat

VARIABLES
    wanted,    \* the access policies of the spec: on or off, store name, model
    queued,    \* the platform is on the work queue
    pc,        \* where the operator is in EnsureAuthzStore
    req,       \* the request it works on (AuthzStoreRequest)
    token,     \* the stores already listed (the continuation token)
    id,        \* the store found or created
    stores,    \* OpenFGA: the stores in the order they are listed, by id
    late,      \* requests given up that OpenFGA may still execute
    published, \* the id handed on to the status, and from there to OPA; 0: none
    granted,   \* the stores users have written tuples to
    budget

clientVars == <<pc, req, token, id>>
vars == <<wanted, queued, clientVars, stores, late, published, granted, budget>>
-----------------------------------------------------------------------------
Wanted == [on : BOOLEAN, name : Names, model : Models]
Store == [name : Names \cup {"lakekeeper"}, deleted : BOOLEAN, models : Seq(Models)]

\* A request that was given up; n tells equal requests apart.
Late == [op : {"create"}, name : Names, n : 1..MaxLate]
        \cup [op : {"write"}, id : DOMAIN stores, model : Models, n : 1..MaxLate]

Budget == [ edits : 0..MaxEdits, faults : 0..MaxFaults, late : 0..MaxLate,
            deletes : 0..MaxDeletes, others : 0..MaxOthers ]

TypeOK ==
    /\ wanted \in Wanted
    /\ queued \in BOOLEAN
    /\ pc \in {"idle", "find", "create", "latest", "write", "done"}
    /\ req \in Wanted
    /\ token \in 0..Len(stores)
    /\ id \in 0..Len(stores)
    /\ stores \in Seq(Store)
    /\ late \subseteq Late
    /\ published \in 0..Len(stores)
    /\ granted \subseteq DOMAIN stores
    /\ budget \in Budget

Init ==
    /\ wanted \in Wanted
    /\ queued = TRUE
    /\ pc = "idle" /\ req = wanted /\ token = 0 /\ id = 0
    /\ stores = <<>> /\ late = {} /\ published = 0 /\ granted = {}
    /\ budget = [edits |-> 0, faults |-> 0, late |-> 0, deletes |-> 0, others |-> 0]

Spend(what, bound) ==
    /\ budget[what] < bound
    /\ budget' = [budget EXCEPT ![what] = @ + 1]
-----------------------------------------------------------------------------
(* OpenFGA *)

\* Store i goes by name n: what the operator looks for in a listing.
IsStore(i, n) == stores[i].name = n /\ ~stores[i].deleted

Opened(n) == Append(stores, [name |-> n, deleted |-> FALSE, models |-> <<>>])

Written(i, m) == [stores EXCEPT ![i].models = Append(@, m)]

\* Mutant of LatestModel: reads the first model that was written.
FirstModel(i) == IF stores[i].models = <<>> THEN "none" ELSE stores[i].models[1]

LatestModel(i) ==
    IF stores[i].models = <<>> THEN "none" ELSE stores[i].models[Len(stores[i].models)]
-----------------------------------------------------------------------------
(* The operator *)

Idle == pc' = "idle" /\ token' = 0 /\ id' = 0 /\ UNCHANGED req

\* reconcileAccessStore: without access policies the id is withdrawn.
Begin ==
    /\ pc = "idle" /\ queued
    /\ queued' = FALSE
    /\ \/ /\ wanted.on
          /\ pc' = "find" /\ req' = wanted
          /\ UNCHANGED published
       \/ /\ ~wanted.on
          /\ published' = 0
          /\ UNCHANGED <<pc, req>>
    /\ UNCHANGED <<wanted, token, id, stores, late, granted, budget>>

\* The stores of the next page.
Page == {i \in DOMAIN stores : token < i /\ i <= token + PageSize}

\* Mutant of MorePages: the continuation token is ignored.
NoMorePages == FALSE

\* Mutant of MorePages: the last page has a continuation token too.
EverMorePages == TRUE

MorePages == token + PageSize < Len(stores)

\* findAuthzStore lists a page: it takes the first store of the name, goes on to
\* the next page, or finds that there is none.
FindPage ==
    /\ pc = "find"
    /\ \/ \E i \in Page :
             /\ IsStore(i, req.name)
             /\ \A j \in Page : IsStore(j, req.name) => i <= j
             /\ pc' = "latest" /\ id' = i /\ token' = 0
       \/ /\ \A i \in Page : ~IsStore(i, req.name)
          /\ IF MorePages THEN token' = token + PageSize /\ UNCHANGED pc
                          ELSE token' = 0 /\ pc' = "create"
          /\ UNCHANGED id
    /\ UNCHANGED <<wanted, queued, req, stores, late, published, granted, budget>>

Create ==
    /\ pc = "create"
    /\ stores' = Opened(req.name)
    /\ pc' = "latest" /\ id' = Len(stores')
    /\ UNCHANGED <<wanted, queued, req, token, late, published, granted, budget>>

\* Mutant of ModelMatches: any model will do.
ModelExists(m) == m # "none"

\* authzModelMatches: the model is the one that is wanted.
ModelMatches(m) == m = req.model

\* latestAuthzModel: a store that is gone has no model either.
ReadModel ==
    /\ pc = "latest"
    /\ pc' = IF ~stores[id].deleted /\ ModelMatches(LatestModel(id)) THEN "done" ELSE "write"
    /\ UNCHANGED <<wanted, queued, req, token, id, stores, late, published, granted, budget>>

WriteModel ==
    /\ pc = "write" /\ ~stores[id].deleted
    /\ stores' = Written(id, req.model)
    /\ pc' = "done"
    /\ UNCHANGED <<wanted, queued, req, token, id, late, published, granted, budget>>

\* The id reaches the status, and OPA's environment.
Publish ==
    /\ pc = "done"
    /\ published' = id
    /\ Idle
    /\ UNCHANGED <<wanted, queued, stores, late, granted, budget>>

\* The request fails without an effect, the id is not handed on, or the
\* operator stops: a later pass starts again.
GiveUp ==
    /\ pc # "idle"
    /\ Spend("faults", MaxFaults)
    /\ Idle /\ queued' = TRUE
    /\ UNCHANGED <<wanted, stores, late, published, granted>>

\* OpenFGA answers "not found" to a write.
WriteRefused ==
    /\ pc = "write" /\ stores[id].deleted
    /\ Idle /\ queued' = TRUE
    /\ UNCHANGED <<wanted, stores, late, published, granted, budget>>

\* The request takes effect and the answer is lost.
AnswerLost ==
    /\ Spend("faults", MaxFaults)
    /\ \/ pc = "create" /\ stores' = Opened(req.name)
       \/ pc = "write" /\ ~stores[id].deleted /\ stores' = Written(id, req.model)
    /\ Idle /\ queued' = TRUE
    /\ UNCHANGED <<wanted, late, published, granted>>

\* The operator gives up on a request (the client's time-out, or a crash) that
\* is still on its way.
GiveUpEarly ==
    /\ Spend("late", MaxLate)
    /\ \/ /\ pc = "create"
          /\ late' = late \cup {[op |-> "create", name |-> req.name, n |-> budget'.late]}
       \/ /\ pc = "write"
          /\ late' = late \cup
                {[op |-> "write", id |-> id, model |-> req.model, n |-> budget'.late]}
    /\ Idle /\ queued' = TRUE
    /\ UNCHANGED <<wanted, stores, published, granted>>

Operator ==
    Begin \/ FindPage \/ Create \/ ReadModel \/ WriteModel \/ Publish \/ WriteRefused
-----------------------------------------------------------------------------
(* Everyone else *)

TakesEffect ==
    /\ \E r \in late :
          /\ stores' = IF r.op = "create" THEN Opened(r.name)
                       ELSE IF stores[r.id].deleted THEN stores
                       ELSE Written(r.id, r.model)
          /\ late' = late \ {r}
    /\ UNCHANGED <<wanted, queued, clientVars, published, granted, budget>>

EditPolicies ==
    /\ Spend("edits", MaxEdits)
    /\ wanted' \in Wanted \ {wanted}
    /\ queued' = TRUE
    /\ UNCHANGED <<clientVars, stores, late, published, granted>>

\* Any other event: the platform is reconciled again.
Requeue ==
    /\ ~queued
    /\ queued' = TRUE
    /\ UNCHANGED <<wanted, clientVars, stores, late, published, granted, budget>>

\* A user writes tuples against the id in the status.
WriteTuples ==
    /\ published # 0 /\ ~stores[published].deleted
    /\ granted' = granted \cup {published}
    /\ UNCHANGED <<wanted, queued, clientVars, stores, late, published, budget>>

OtherStore ==
    /\ Spend("others", MaxOthers)
    /\ stores' = Opened("lakekeeper")
    /\ UNCHANGED <<wanted, queued, clientVars, late, published, granted>>

DeleteStore ==
    /\ Spend("deletes", MaxDeletes)
    /\ \E i \in DOMAIN stores :
          /\ ~stores[i].deleted
          /\ stores' = [stores EXCEPT ![i].deleted = TRUE]
    /\ UNCHANGED <<wanted, queued, clientVars, late, published, granted>>

Next ==
    \/ Operator \/ GiveUp \/ AnswerLost \/ GiveUpEarly
    \/ TakesEffect \/ EditPolicies \/ Requeue \/ WriteTuples \/ OtherStore \/ DeleteStore

Spec == Init /\ [][Next]_vars
-----------------------------------------------------------------------------
(* Passes that failed, or lost the answer of a create, leave no second store *)
(* behind: each store more than one under a live name is owed to a request    *)
(* that took effect after it was given up (findAuthzStore reads every page    *)
(* before createAuthzStore).                                                  *)
OneStore ==
    \A n \in Names :
        Cardinality({i \in DOMAIN stores : IsStore(i, n)}) <= 1 + budget.late

(* "An unchanged model is left alone": models are append-only, so a rewrite   *)
(* on every pass would pile them up.                                          *)
ModelsChange ==
    \A i \in DOMAIN stores : \A k \in 1..(Len(stores[i].models) - 1) :
        stores[i].models[k] # stores[i].models[k + 1]

(* Once the operator is done, the id it handed on is the store of the wanted  *)
(* name with the wanted model, unless it was deleted behind its back.         *)
UpToDate ==
    pc = "idle" /\ ~queued =>
        IF ~wanted.on THEN published = 0
        ELSE /\ published # 0 /\ stores[published].name = wanted.name
             /\ ~stores[published].deleted => LatestModel(published) = wanted.model

(* Grants stay in force: while the store users wrote tuples to exists, OPA is *)
(* not pointed at another store of the same name, whatever was edited back    *)
(* and forth in between (README.md: "Write those tuples against the store id  *)
(* in status.rowFilterStoreID").                                              *)
GrantsKept ==
    published # 0 =>
        \A i \in granted :
            stores[i].name = stores[published].name /\ ~stores[i].deleted => i = published
-----------------------------------------------------------------------------
(* The abstract store *)

\* What OpenFGA keeps under a name: the first live store.
Held(n) ==
    LET live == {i \in DOMAIN stores : IsStore(i, n)}
    IN IF live = {} THEN [id |-> 0, model |-> "none"]
       ELSE LET first == CHOOSE i \in live : \A j \in live : i <= j
            IN [id |-> first, model |-> LatestModel(first)]

Abstract ==
    INSTANCE AccessStore WITH
        held <- [n \in Names |-> Held(n)],
        used <- {i \in DOMAIN stores : stores[i].name \in Names}

(* The operator, its failures and its users, seen through the names of the    *)
(* stores, do only what the abstract store does.                              *)
ImplementsAccessStore == Abstract!Spec
=============================================================================
