---------------------------- MODULE MCLakehouse ----------------------------
(* Instances of Lakehouse for TLC: the specs a user writes. *)
EXTENDS Lakehouse

\* Both names may be changed, alone or together.
MCSpecs == [bucket : {"b1", "b2"}, warehouse : {"w1", "w2"}]
MCInstalled == {[bucket |-> "b1", warehouse |-> "w1"]}
=============================================================================
