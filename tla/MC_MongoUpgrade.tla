-------------------------- MODULE MC_MongoUpgrade --------------------------
(* Model-checking instance of MongoUpgrade; the bounds are in the .cfg. *)
EXTENDS MongoUpgrade
=============================================================================
