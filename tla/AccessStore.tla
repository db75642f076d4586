---------------------------- MODULE AccessStore ----------------------------
(***************************************************************************)
(* What EnsureAuthzStore promises to whoever writes tuples: OpenFGA keeps  *)
(* at most one store under each name, its model only changes when another  *)
(* one is wanted, and the id handed on is the id of such a store.          *)
(***************************************************************************)
EXTENDS Naturals

CONSTANTS Names, Models

VARIABLES
    held,     \* for each name, the store kept under it and its model
    used,     \* the ids given out so far
    published \* the id handed on to OPA and to the status; 0 is none

Nothing == [id |-> 0, model |-> "none"]

Init ==
    /\ held = [n \in Names |-> Nothing]
    /\ used = {}
    /\ published = 0

\* A name without a store gets one, under an id never used before.
Open(n) ==
    /\ held[n] = Nothing
    /\ held' = [held EXCEPT ![n] = [id |-> held'[n].id, model |-> "none"]]
    /\ held'[n].id \notin used \cup {0}
    /\ used' = used \cup {held'[n].id}
    /\ UNCHANGED published

\* A store gets another model than it has.
Remodel(n) ==
    /\ held[n] # Nothing
    /\ held'[n].model \in Models \ {held[n].model}
    /\ held' = [held EXCEPT ![n].model = held'[n].model]
    /\ UNCHANGED <<used, published>>

\* An administrator deletes a store.
Lose(n) ==
    /\ held[n] # Nothing
    /\ held' = [held EXCEPT ![n] = Nothing]
    /\ UNCHANGED <<used, published>>

\* The id of a store with a model is handed on; the store may have been deleted
\* since it was found.
Publish ==
    /\ published' \in used
    /\ \A n \in Names : held[n].id = published' => held[n].model # "none"
    /\ UNCHANGED <<held, used>>

\* There are no access policies any more.
Withdraw ==
    /\ published' = 0
    /\ UNCHANGED <<held, used>>

Next ==
    \/ \E n \in Names : Open(n) \/ Remodel(n) \/ Lose(n)
    \/ Publish
    \/ Withdraw

Spec == Init /\ [][Next]_<<held, used, published>>
=============================================================================
