--------------------------- MODULE MCAccessPolicy ---------------------------
(* Instances of AccessPolicy for TLC. *)
EXTENDS AccessPolicy

MCUsers == {"alice"}

Filter(column, type, numeric) ==
    [ kind |-> "rows", table |-> "orders", column |-> column, type |-> type,
      relation |-> "viewer", numeric |-> numeric ]

ByRegion == Filter("region", "region", FALSE)
ByTenant == Filter("tenant", "tenant", TRUE)

\* Whoever sees the rows of emea sees the column: one grant, and one answer, for
\* both policies.
Ssn == [ kind |-> "columns", table |-> "orders", column |-> "ssn", type |-> "region",
         relation |-> "viewer", object |-> "emea" ]

MCPolicySets == {{}, {ByRegion, Ssn}, {ByRegion, ByTenant}}

MCTuples ==
    { [user |-> "alice", type |-> "region", relation |-> "viewer", id |-> "emea"],
      [user |-> "alice", type |-> "tenant", relation |-> "viewer", id |-> "7"] }

MCRows == { [table |-> "orders", at |-> [region |-> "emea", tenant |-> "7", ssn |-> "1"]],
            [table |-> "orders", at |-> [region |-> "apac", tenant |-> "7", ssn |-> "2"]] }
MCNumerals == {"7"}
=============================================================================
