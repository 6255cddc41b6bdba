------------------------------- MODULE MCPages -------------------------------
(***************************************************************************)
(* What WinFix may be started with in the run of Pages.                    *)
(***************************************************************************)
EXTENDS Pages

MCInstallations ==
    {start \in [stored : SavedSettings, keys : Keys, developer : Developer] :
        /\ start.stored.local_endpoint = NoAddress
        /\ start.stored.items = {"process_names"}
        /\ start.stored.endpoint # Here
        /\ start.keys.session_only = {}
        /\ start.keys.environment \in {{}, {"openai"}}
        /\ start.developer # "openai"}
===============================================================================
