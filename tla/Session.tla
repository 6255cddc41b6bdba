-------------------------------- MODULE Session --------------------------------
(***************************************************************************)
(* The session record of app/core/models.py and the changes the agent of   *)
(* app/core/agent.py makes to it, as operators from a record to a record.  *)
(* Who calls them, on which thread and in which order, is the business of  *)
(* the modules that own a session variable.                                *)
(*                                                                         *)
(* A tool is a read-only check, a fix a predefined remediation.  What a    *)
(* measurement says is abstracted to the decisions taken from it: whether  *)
(* the check failed, which fixes the diagnosis supports, whether the fix   *)
(* improved things.                                                        *)
(***************************************************************************)
EXTENDS Integers, Sequences, FiniteSets, SequencesExt

CONSTANTS
    Tools,            \* the registered read-only checks
    ThoroughTools,    \* the category's thorough_tools
    Fixes,            \* the registered remediation tools
    NoFix,            \* "no fix", for the places that may hold none
    VerifyTools,      \* the checks repeated after each fix (FixInfo.verify_tools)
    Items,            \* the kinds of data a session may send to a cloud AI
    SessionIds,       \* identities of sessions
    NoSessionId,      \* the identity of "no session"
    MaxSteps,         \* MAX_AGENT_STEPS
    MaxAttempts,      \* MAX_REMEDIATION_ATTEMPTS
    MaxFollowUps,     \* MAX_FOLLOW_UPS of llm/provider.py
    FollowUpBudget,   \* AI_FOLLOW_UP_BUDGET: steps kept free for the AI
    QuickLimit        \* QUICK_LIMIT: checks of a "quick" session

ASSUME SessionAssumption ==
    /\ IsFiniteSet(Tools) /\ IsFiniteSet(Fixes)
    /\ ThoroughTools \subseteq Tools
    /\ VerifyTools \in [Fixes -> SUBSET Tools]
    /\ NoFix \notin Fixes
    /\ NoSessionId \notin SessionIds
    /\ MaxSteps \in Nat \ {0} /\ MaxAttempts \in Nat
    /\ MaxFollowUps \in Nat /\ FollowUpBudget \in Nat /\ QuickLimit \in Nat \ {0}

-----------------------------------------------------------------------------
(* The record                                                              *)

Statuses == {"created", "diagnosing", "diagnosed", "awaiting_approval",
             "remediating", "verifying", "resolved", "unresolved", "cancelled"}

Results == {"in_progress", "resolved", "not_resolved", "no_issue", "stopped"}

CheckStatuses == {"absent", "queued", "running", "completed", "failed", "cancelled"}

(* The texts final_outcome can hold, by what they claim. *)
Outcomes == {"none", "no_issue", "no_further_fix", "stopped_early", "no_changes",
             "verification"}

Remediation == [tool : Fixes, success : BOOLEAN]

Verification == [improved : BOOLEAN, after : SUBSET Tools]

Session == [id : SessionIds \cup {NoSessionId},
            status : Statuses,
            result : Results,
            finished_at : BOOLEAN,          \* whether the time was set
            approval_status : {"none", "approved", "declined"},
            final_outcome : Outcomes,
            checks : [Tools -> CheckStatuses],
            diagnostics : SUBSET Tools,     \* the keys of session.diagnostics
            proposals : Seq(Fixes),
            remediations : Seq(Remediation),
            verifications : Seq(Verification),
            cloud : SUBSET Items]

NewSession(sid) ==
    [id |-> sid, status |-> "created", result |-> "in_progress",
     finished_at |-> FALSE, approval_status |-> "none", final_outcome |-> "none",
     checks |-> [t \in Tools |-> "absent"], diagnostics |-> {}, proposals |-> <<>>,
     remediations |-> <<>>, verifications |-> <<>>, cloud |-> {}]

NoSession == NewSession(NoSessionId)

ChecksIn(s, status) == {t \in Tools : s.checks[t] = status}

(* Faulty variant: a fix that was applied may be proposed again. *)
TriedFailed(s) ==
    {r.tool : r \in {q \in ToSet(s.remediations) : ~q.success}}

Tried(s) == {s.remediations[i].tool : i \in DOMAIN s.remediations}

-----------------------------------------------------------------------------
(* Planning                                                                *)

(* Faulty variant: checks that failed are not counted. *)
BudgetCompleted(s) == MaxSteps - Cardinality(ChecksIn(s, "completed"))

(* What the step bound leaves: session.diagnostics counts every tool that  *)
(* has a measurement, so it may exceed MaxSteps once a verification has    *)
(* brought in tools the session had not measured.                          *)
Budget(s) == MaxSteps - Cardinality(s.diagnostics)

AtMost(n, S) == {T \in SUBSET S : Cardinality(T) <= n}

SmallerOf(a, b) == IF a <= b THEN a ELSE b

LargerOf(a, b) == IF a >= b THEN a ELSE b

(* Planner.plan: at least one check.  A quick session keeps QUICK_LIMIT of  *)
(* them whoever planned; otherwise a plan of the AI leaves room for its     *)
(* follow-up rounds; the agent cuts any plan at MaxSteps.                   *)
InitialPlans(planned_by_ai, quick) ==
    LET limit == IF quick THEN QuickLimit
                 ELSE IF planned_by_ai THEN LargerOf(1, MaxSteps - FollowUpBudget)
                 ELSE MaxSteps
    IN AtMost(SmallerOf(limit, MaxSteps), Tools) \ {{}}

(* Agent._follow_up_tools after the safety layer has dropped what is not a  *)
(* registered read-only tool and what has been measured already.            *)
FollowUps(s) ==
    AtMost(SmallerOf(Budget(s), MaxFollowUps), Tools \ s.diagnostics)

(* The thorough checks continue_investigation adds: as many of the ones not *)
(* measured yet as the budget allows.                                       *)
ExtraChecks(s) ==
    LET missing == ThoroughTools \ s.diagnostics
        room == LargerOf(0, Budget(s))
    IN {T \in SUBSET missing :
            Cardinality(T) = SmallerOf(room, Cardinality(missing))}

Diagnosing(s) == [s EXCEPT !.status = "diagnosing"]

QueueChecks(s, tools) ==
    [s EXCEPT !.checks = [t \in Tools |-> IF t \in tools THEN "queued" ELSE @[t]]]

-----------------------------------------------------------------------------
(* Running checks                                                          *)

(* SafetyValidator.check_agent_step(len(session.diagnostics)) *)
StepAllowed(s) == Cardinality(s.diagnostics) < MaxSteps

CheckStarted(s, t) == [s EXCEPT !.checks[t] = "running"]

CheckFinished(s, t, ok) ==
    [s EXCEPT !.checks[t] = IF ok THEN "completed" ELSE "failed",
              !.diagnostics = @ \cup {t}]

(* Faulty variant: only the check under way is marked. *)
CancelledRunning(s) ==
    [s EXCEPT !.checks = [t \in Tools |-> IF @[t] = "running" THEN "cancelled" ELSE @[t]],
              !.status = "cancelled", !.result = "stopped", !.finished_at = TRUE,
              !.final_outcome = "stopped_early"]

(* Agent._cancel *)
Cancelled(s) ==
    [s EXCEPT !.checks = [t \in Tools |->
                            IF @[t] \in {"queued", "running"} THEN "cancelled" ELSE @[t]],
              !.status = "cancelled", !.result = "stopped", !.finished_at = TRUE,
              !.final_outcome = "stopped_early"]

-----------------------------------------------------------------------------
(* Diagnosis and recommendation                                            *)

(* Agent._analyze: what the provider has sent so far, when it sent anything. *)
Analyzed(s, sent) ==
    [s EXCEPT !.cloud = IF sent = {} THEN @ ELSE sent, !.status = "diagnosed"]

(* Faulty variant: a fix whose parameters are unresolved is proposed too. *)
ProposalListsUnresolved(healthy, exclude) ==
    {p \in BoundedSeq((Fixes \cup {NoFix}) \ exclude, 1) : TRUE}

(* RemediationEngine.propose: fixes without repeats, in the order of their  *)
(* causes, none of them excluded.  A diagnosis that found nothing wrong     *)
(* supports at most the category's one general fix.                         *)
ProposalLists(healthy, exclude) ==
    {p \in BoundedSeq(Fixes \ exclude, IF healthy THEN 1 ELSE Cardinality(Fixes)) :
        \A i, j \in DOMAIN p : p[i] = p[j] => i = j}

(* Agent._recommend, with the proposals the engine returned. *)
Recommended(s, proposals, healthy) ==
    IF proposals # <<>>
    THEN [s EXCEPT !.proposals = proposals, !.status = "awaiting_approval",
                   !.result = "in_progress"]
    ELSE LET no_issue == healthy /\ s.remediations = <<>>
         IN [s EXCEPT !.proposals = <<>>, !.finished_at = TRUE,
                      !.result = IF no_issue THEN "no_issue" ELSE "not_resolved",
                      !.final_outcome = IF no_issue THEN "no_issue" ELSE "no_further_fix",
                      !.status = IF s.remediations = <<>> THEN "diagnosed"
                                 ELSE "unresolved"]

-----------------------------------------------------------------------------
(* The user's choices                                                      *)

(* Agent.decline *)
Declined(s) ==
    [s EXCEPT !.approval_status = "declined", !.status = "cancelled",
              !.result = "stopped", !.finished_at = TRUE,
              !.final_outcome = "no_changes"]

LastImproved(s) == s.verifications # <<>> /\ Last(s.verifications).improved

(* Agent.stop: an open session is closed as stopped, unless its last        *)
(* verification found the problem gone.                                     *)
StoppedByUser(s) ==
    LET open == s.result = "in_progress" \/ s.status \in {"unresolved", "awaiting_approval"}
    IN [s EXCEPT !.result = CASE ~open -> @
                              [] open /\ LastImproved(s) -> "resolved"
                              [] open /\ ~LastImproved(s) -> "stopped",
                 !.finished_at = TRUE]

-----------------------------------------------------------------------------
(* Applying one fix and verifying it                                       *)

(* Faulty variant: off by one. *)
AttemptAllowedOneMore(s) == Len(s.remediations) <= MaxAttempts

(* SafetyValidator.check_remediation_attempt(len(session.remediations)) *)
AttemptAllowed(s) == Len(s.remediations) < MaxAttempts

Approved(s) == [s EXCEPT !.approval_status = "approved", !.status = "remediating"]

(* Faulty variant: no exception is taken for success. *)
FixRecordedSuccess(s, fix, success) ==
    [s EXCEPT !.remediations = Append(@, [tool |-> fix, success |-> TRUE]),
              !.status = "verifying"]

FixRecorded(s, fix, success) ==
    [s EXCEPT !.remediations = Append(@, [tool |-> fix, success |-> success]),
              !.status = "verifying"]

(* VerificationEngine.run: nothing is measured after a fix that was not     *)
(* applied; otherwise the fix's own checks and any of those measured before *)
(* it that bear on it, as the evidence decides.                             *)
Verifications(s) ==
    IF Last(s.remediations).success
    THEN {[improved |-> i, after |-> VerifyTools[Last(s.remediations).tool] \cup T] :
            i \in BOOLEAN, T \in SUBSET s.diagnostics}
    ELSE {[improved |-> FALSE, after |-> {}]}

(* Faulty variant: a fix that was applied counts as resolved. *)
VerifiedByAction(s, v) ==
    LET improved == Last(s.remediations).success
    IN [s EXCEPT !.verifications = Append(@, v), !.final_outcome = "verification",
                 !.status = IF improved THEN "resolved" ELSE "unresolved",
                 !.result = IF improved THEN "resolved" ELSE "not_resolved",
                 !.finished_at = @ \/ improved]

Verified(s, v) ==
    LET recorded == [s EXCEPT !.verifications = Append(@, v),
                              !.final_outcome = "verification"]
    IN IF v.improved
       THEN [recorded EXCEPT !.status = "resolved", !.result = "resolved",
                             !.finished_at = TRUE]
       ELSE [recorded EXCEPT !.status = "unresolved", !.result = "not_resolved"]

(* The first step of continue_investigation: the measurements of the last   *)
(* verification replace the ones from before the fix.                       *)
CarriedForward(s) ==
    [s EXCEPT !.diagnostics =
        @ \cup (IF s.verifications = <<>> THEN {} ELSE Last(s.verifications).after)]
=============================================================================
