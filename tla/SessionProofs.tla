----------------------------- MODULE SessionProofs -----------------------------
(***************************************************************************)
(* Each operator of Session yields a session again, keeps its identity,    *)
(* and leaves its list of fixes alone, but for the one that records a fix. *)
(* Modules that own a session variable cite these facts for their steps.   *)
(***************************************************************************)
EXTENDS Session, FiniteSetTheorems, TLAPS

(* What an operator that records no fix preserves. *)
SameSession(s, r) ==
    /\ r \in Session
    /\ r.id = s.id
    /\ r.remediations = s.remediations

(* A new session is a session, and has no fixes. *)
LEMMA NewSessionFacts ==
    ASSUME NEW sid \in SessionIds \cup {NoSessionId}
    PROVE  /\ NewSession(sid) \in Session
           /\ NewSession(sid).id = sid
           /\ NewSession(sid).remediations = <<>>
           /\ NewSession(sid).proposals = <<>>
BY DEF NewSession, Session, Statuses, Results, CheckStatuses, Outcomes

(* Another status, result and time of closing. *)
LEMMA ClosingFacts ==
    ASSUME NEW s \in Session, NEW status \in Statuses, NEW result \in Results,
           NEW finished \in BOOLEAN
    PROVE  SameSession(s, [s EXCEPT !.status = status, !.result = result,
                                    !.finished_at = finished])
BY DEF SameSession, Session

(* The steps of planning and of running checks. *)
LEMMA DiagnosingFacts ==
    ASSUME NEW s \in Session
    PROVE  SameSession(s, Diagnosing(s))
BY DEF Diagnosing, SameSession, Session, Statuses

(* Planning, and each round of follow-up checks, keeps a session a session. *)
LEMMA QueueChecksFacts ==
    ASSUME NEW s \in Session, NEW tools
    PROVE  SameSession(s, QueueChecks(s, tools))
BY DEF QueueChecks, SameSession, Session, CheckStatuses

(* A check that starts keeps a session a session. *)
LEMMA CheckStartedFacts ==
    ASSUME NEW s \in Session, NEW t \in Tools
    PROVE  SameSession(s, CheckStarted(s, t))
BY DEF CheckStarted, SameSession, Session, CheckStatuses

(* The result of a check keeps a session a session. *)
LEMMA CheckFinishedFacts ==
    ASSUME NEW s \in Session, NEW t \in Tools, NEW ok \in BOOLEAN
    PROVE  SameSession(s, CheckFinished(s, t, ok))
BY DEF CheckFinished, SameSession, Session, CheckStatuses

(* Cancelling keeps a session a session, with its fixes. *)
LEMMA CancelledFacts ==
    ASSUME NEW s \in Session
    PROVE  SameSession(s, Cancelled(s))
BY DEF Cancelled, SameSession, Session, CheckStatuses, Statuses, Results, Outcomes

-----------------------------------------------------------------------------
(* The diagnosis and its fixes *)

(* The diagnosis keeps a session a session, whatever was sent for it. *)
LEMMA AnalyzedFacts ==
    ASSUME NEW s \in Session, NEW sent \in SUBSET Items
    PROVE  SameSession(s, Analyzed(s, sent))
BY DEF Analyzed, SameSession, Session, Statuses

(* What the engine proposes are registered fixes, none of them excluded. *)
LEMMA ProposalListsFacts ==
    ASSUME NEW healthy \in BOOLEAN, NEW exclude,
           NEW p \in ProposalLists(healthy, exclude)
    PROVE  p \in Seq(Fixes \ exclude) /\ p \in Seq(Fixes)
<1>1. Cardinality(Fixes) \in Nat
  BY SessionAssumption, FS_CardinalityType
<1> DEFINE n == IF healthy THEN 1 ELSE Cardinality(Fixes)
<1>2. n \in Nat
  BY <1>1
<1>3. PICK m \in 0 .. n : p \in [1 .. m -> Fixes \ exclude]
  BY DEF ProposalLists, BoundedSeq, SeqOf
<1>4. m \in Nat
  BY <1>2, <1>3
<1> QED
  BY <1>3, <1>4

(* The recommendation keeps a session a session, with its fixes. *)
LEMMA RecommendedFacts ==
    ASSUME NEW s \in Session, NEW p \in Seq(Fixes), NEW healthy \in BOOLEAN
    PROVE  SameSession(s, Recommended(s, p, healthy))
BY DEF Recommended, SameSession, Session, Statuses, Results, Outcomes

-----------------------------------------------------------------------------
(* The user's choices *)

(* Declining changes neither the fixes nor the proposals. *)
LEMMA DeclinedFacts ==
    ASSUME NEW s \in Session
    PROVE  SameSession(s, Declined(s)) /\ Declined(s).proposals = s.proposals
BY DEF Declined, SameSession, Session, Statuses, Results, Outcomes

(* Stopping changes neither the fixes nor the proposals. *)
LEMMA StoppedFacts ==
    ASSUME NEW s \in Session
    PROVE  SameSession(s, StoppedByUser(s)) /\ StoppedByUser(s).proposals = s.proposals
<1> DEFINE open == \/ s.result = "in_progress"
                   \/ s.status \in {"unresolved", "awaiting_approval"}
           result == CASE ~open -> s.result
                       [] open /\ LastImproved(s) -> "resolved"
                       [] open /\ ~LastImproved(s) -> "stopped"
<1>1. result \in Results
  <2>1. CASE ~open
    BY <2>1 DEF Session
  <2>2. CASE open /\ LastImproved(s)
    BY <2>2 DEF Results
  <2>3. CASE open /\ ~LastImproved(s)
    BY <2>3 DEF Results
  <2> QED
    BY <2>1, <2>2, <2>3
<1>2. StoppedByUser(s) = [s EXCEPT !.result = result, !.finished_at = TRUE]
  BY DEF StoppedByUser
<1> HIDE DEF result
<1> QED
  BY <1>1, <1>2 DEF SameSession, Session

-----------------------------------------------------------------------------
(* Applying a fix and verifying it *)

(* The approval alone records no fix. *)
LEMMA ApprovedFacts ==
    ASSUME NEW s \in Session
    PROVE  SameSession(s, Approved(s))
BY DEF Approved, SameSession, Session, Statuses

(* A fix that ran is added after the ones before it, and nothing else is. *)
LEMMA FixRecordedFacts ==
    ASSUME NEW s \in Session, NEW fix \in Fixes, NEW success \in BOOLEAN
    PROVE  /\ FixRecorded(s, fix, success) \in Session
           /\ FixRecorded(s, fix, success).id = s.id
           /\ FixRecorded(s, fix, success).remediations =
                  Append(s.remediations, [tool |-> fix, success |-> success])
<1> DEFINE outcome == [tool |-> fix, success |-> success]
<1>1. outcome \in Remediation
  BY DEF Remediation
<1>2. Append(s.remediations, outcome) \in Seq(Remediation)
  BY <1>1 DEF Session
<1>3. FixRecorded(s, fix, success) =
        [s EXCEPT !.remediations = Append(@, outcome), !.status = "verifying"]
  BY DEF FixRecorded
<1> HIDE DEF outcome
<1>4. FixRecorded(s, fix, success) \in Session
  BY <1>2, <1>3 DEF Session, Statuses
<1>5. /\ FixRecorded(s, fix, success).id = s.id
      /\ FixRecorded(s, fix, success).remediations = Append(s.remediations, outcome)
  BY <1>3 DEF Session
<1> QED
  BY <1>4, <1>5 DEF outcome

(* What a verification yields is well formed, once a fix was recorded. *)
LEMMA VerificationsFacts ==
    ASSUME NEW s \in Session, s.remediations # <<>>, NEW v \in Verifications(s)
    PROVE  v \in Verification
<1>1. Last(s.remediations) \in Remediation
  BY DEF Last, Session
<1> DEFINE last == Last(s.remediations)
<1>2. CASE last.success
  <2>1. PICK i \in BOOLEAN, T \in SUBSET s.diagnostics :
            v = [improved |-> i,
                 after |-> VerifyTools[last.tool] \cup T]
    BY <1>2 DEF Verifications
  <2>2. VerifyTools[last.tool] \subseteq Tools
    <3>1. last.tool \in Fixes
      BY <1>1 DEF Remediation
    <3> HIDE DEF last
    <3> QED
      BY <3>1, SessionAssumption
  <2>3. T \subseteq Tools
    BY DEF Session
  <2> QED
    BY <2>1, <2>2, <2>3 DEF Verification
<1>3. CASE ~last.success
  <2>1. v = [improved |-> FALSE, after |-> {}]
    BY <1>3 DEF Verifications
  <2> QED
    BY <2>1 DEF Verification
<1> QED
  BY <1>2, <1>3

(* Recording a verification keeps a session a session, with its fixes. *)
LEMMA VerifiedFacts ==
    ASSUME NEW s \in Session, NEW v \in Verification
    PROVE  SameSession(s, Verified(s, v))
<1> DEFINE recorded == [s EXCEPT !.verifications = Append(@, v),
                                 !.final_outcome = "verification"]
<1>1. SameSession(s, recorded)
  <2>1. Append(s.verifications, v) \in Seq(Verification)
    BY DEF Session
  <2> QED
    BY <2>1 DEF SameSession, Session, Outcomes
<1>2. Verified(s, v) =
        IF v.improved
        THEN [recorded EXCEPT !.status = "resolved", !.result = "resolved",
                              !.finished_at = TRUE]
        ELSE [recorded EXCEPT !.status = "unresolved", !.result = "not_resolved",
                              !.finished_at = recorded.finished_at]
  BY DEF Verified
<1> HIDE DEF recorded
<1>3. recorded \in Session /\ recorded.finished_at \in BOOLEAN
  BY <1>1 DEF SameSession, Session
<1>4. /\ SameSession(recorded, [recorded EXCEPT !.status = "resolved",
                                   !.result = "resolved", !.finished_at = TRUE])
      /\ SameSession(recorded, [recorded EXCEPT !.status = "unresolved",
                !.result = "not_resolved", !.finished_at = recorded.finished_at])
  BY <1>3, ClosingFacts DEF Statuses, Results
<1>5. CASE v.improved
  BY <1>1, <1>2, <1>4, <1>5 DEF SameSession
<1>6. CASE ~v.improved
  BY <1>1, <1>2, <1>4, <1>6 DEF SameSession
<1> QED
  BY <1>5, <1>6

(* Measurements carried forward keep a session a session. *)
LEMMA CarriedForwardFacts ==
    ASSUME NEW s \in Session
    PROVE  SameSession(s, CarriedForward(s))
<1> DEFINE extra == IF s.verifications = <<>> THEN {} ELSE Last(s.verifications).after
<1>1. extra \subseteq Tools
  <2>1. CASE s.verifications = <<>>
    BY <2>1
  <2>2. CASE s.verifications # <<>>
    <3>1. Last(s.verifications) \in Verification
      BY <2>2 DEF Last, Session
    <3> QED
      BY <2>2, <3>1 DEF Verification
  <2> QED
    BY <2>1, <2>2
<1>2. CarriedForward(s) = [s EXCEPT !.diagnostics = @ \cup extra]
  BY DEF CarriedForward
<1> HIDE DEF extra
<1> QED
  BY <1>1, <1>2 DEF SameSession, Session
=============================================================================
