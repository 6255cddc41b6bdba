------------------------------ MODULE FixApproval ------------------------------
(***************************************************************************)
(* What WinFix promises about changes to the PC, whatever the user, the    *)
(* worker thread or a crash does:                                          *)
(*                                                                         *)
(*   - the PC is changed only by a fix the user accepted in an open        *)
(*     approval dialog, and by the fix that dialog named;                  *)
(*   - an acceptance is used at most once, and is lost when the program    *)
(*     is restarted or the attempt is refused;                             *)
(*   - a session changes the PC at most MaxAttempts times.                 *)
(*                                                                         *)
(* Troubleshoot implements this specification.                             *)
(***************************************************************************)
EXTENDS Naturals, Sequences, SequencesExt

CONSTANTS Fixes, NoFix, SessionIds, MaxAttempts

VARIABLES
    offers,     \* the fixes named by the open approval dialogs
    consent,    \* the fix the user accepted and that was not applied yet
    changes     \* what was done to the PC on behalf of each session

vars == <<offers, consent, changes>>

Init ==
    /\ offers = <<>>
    /\ consent = NoFix
    /\ changes = [sid \in SessionIds |-> <<>>]

Offer(fix) ==
    /\ offers' = Append(offers, fix)
    /\ UNCHANGED <<consent, changes>>

Withdraw(i) ==
    /\ offers' = RemoveAt(offers, i)
    /\ UNCHANGED <<consent, changes>>

Accept(i) ==
    /\ consent = NoFix
    /\ consent' = offers[i]
    /\ offers' = RemoveAt(offers, i)
    /\ UNCHANGED changes

Apply(sid, success) ==
    /\ consent # NoFix
    /\ Len(changes[sid]) < MaxAttempts
    /\ changes' = [changes EXCEPT ![sid] =
                        Append(@, [tool |-> consent, success |-> success])]
    /\ consent' = NoFix
    /\ UNCHANGED offers

Lapse ==
    /\ consent' = NoFix
    /\ UNCHANGED <<offers, changes>>

Restart ==
    /\ offers' = <<>>
    /\ consent' = NoFix
    /\ UNCHANGED changes

Next ==
    \/ \E fix \in Fixes : Offer(fix)
    \/ \E i \in DOMAIN offers : Withdraw(i) \/ Accept(i)
    \/ \E sid \in SessionIds, success \in BOOLEAN : Apply(sid, success)
    \/ Lapse
    \/ Restart

Spec == Init /\ [][Next]_vars
=============================================================================
