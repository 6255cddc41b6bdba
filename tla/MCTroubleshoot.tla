--------------------------- MODULE MCTroubleshoot ----------------------------
(* Small instances of Troubleshoot for TLC. *)
EXTENDS Troubleshoot

CONSTANTS t1, t2, t3, t4, f1, f2, s1, s2

(* Each fix repeats one check of its own; t4 is in no thorough plan, so a   *)
(* verification may measure a check the session had no room for.            *)
VerifyTools_def == (f1 :> {t1}) @@ (f2 :> {t4})

VerifyByT1 == [f \in Fixes |-> {t1}]
=============================================================================
