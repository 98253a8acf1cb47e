------------------------------ MODULE MCLoadTest -----------------------------
(* Instances of LoadTest for TLC; every constant is given in the cfg. *)
EXTENDS LoadTest
=============================================================================
