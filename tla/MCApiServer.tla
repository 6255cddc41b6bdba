----------------------------- MODULE MCApiServer ------------------------------
(* Small instances of ApiServer for TLC. *)
EXTENDS ApiServer

CONSTANTS t1, t2, f1, f2, s1, s2, c1, c2

VerifyByT1 == [f \in Fixes |-> {t1}]
(* Clients and fixes are interchangeable. *)
ClientsAlike == Permutations({c1, c2}) \cup Permutations({f1, f2})
=============================================================================
