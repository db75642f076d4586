---------------------- MODULE MCDataPlatformController ----------------------
(***************************************************************************)
(* Instances of DataPlatformController for TLC: the specs a user writes.   *)
(***************************************************************************)
EXTENDS DataPlatformController

\* Everything embedded and enabled, with access policies: the defaults of the
\* API plus spec.authz.rowFilters.
Full ==
    [ lakekeeper |-> TRUE, trino |-> TRUE, storage |-> "embedded",
      postgres |-> "embedded", auth |-> "embedded", authz |-> "embedded",
      policies |-> TRUE, warehouse |-> "w1" ]

\* External object store, database and identity provider.
Light == [Full EXCEPT !.storage = "external", !.postgres = "external", !.auth = "external"]

Renamed == [Light EXCEPT !.warehouse = "w2", !.policies = FALSE]
WithKeycloak == [Light EXCEPT !.auth = "embedded", !.warehouse = "w2"]
NoAuthz == [Light EXCEPT !.authz = "disabled"]
NoAuth == [Light EXCEPT !.auth = "disabled"]
NoTrino == [Light EXCEPT !.trino = FALSE]
TrinoOnly == [Light EXCEPT !.lakekeeper = FALSE, !.auth = "embedded"]
TrinoOnlyNoAuth == [TrinoOnly EXCEPT !.auth = "disabled"]
Off == [TrinoOnlyNoAuth EXCEPT !.trino = FALSE]
Bare == [NoAuthz EXCEPT !.auth = "disabled"]
WithMinio == [Bare EXCEPT !.storage = "embedded"]
WithPostgres == [Bare EXCEPT !.postgres = "embedded"]
NoBucket == [Bare EXCEPT !.storage = "incomplete"]
NoHost == [Bare EXCEPT !.postgres = "incomplete"]
NoIssuer == [Bare EXCEPT !.auth = "incomplete"]
ForeignAuthz == [Bare EXCEPT !.authz = "external"]

MCNames == {"w1", "w2"}

\* The specs of each run.
LightSpecs == {Light}
ModeSpecs == { Light, Renamed, WithKeycloak, NoAuthz, NoAuth, NoTrino, TrinoOnly,
               TrinoOnlyNoAuth, Bare, WithMinio, WithPostgres, NoBucket, NoHost,
               NoIssuer, ForeignAuthz }
LiveSpecs == {Light, [WithMinio EXCEPT !.trino = FALSE], NoHost}
NoAuthSpecs == {NoAuth}
OutageSpecs == {NoTrino, Off}
=============================================================================
