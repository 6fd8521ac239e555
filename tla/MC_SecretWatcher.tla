------------------------- MODULE MC_SecretWatcher -------------------------
(* Model-checking instance of SecretWatcher. *)
EXTENDS SecretWatcher

MC_Users == {"u1", "u2"}
MC_Passwords == {"p1", "p2"}
====
