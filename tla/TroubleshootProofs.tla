--------------------------- MODULE TroubleshootProofs ---------------------------
(***************************************************************************)
(* Theorems about Troubleshoot, for every number of checks, fixes, steps,  *)
(* attempts, sessions and dialogs and for every environment: failed        *)
(* writes, exceptions, crashes, stale dialogs.  Its types; what is done to *)
(* the PC for a session, which is bounded, recorded and approved; and that *)
(* Troubleshoot implements FixApproval.                                    *)
(***************************************************************************)
EXTENDS Troubleshoot, SessionProofs

USE DEF vars, control, ai, ui, store

-----------------------------------------------------------------------------
(* Steps that the same argument covers                                     *)

(* What every step of the worker does: it belongs to a task, keeps the kind *)
(* of the task and the identity of the session, and leaves the UI alone.    *)
WorkerFrame ==
    /\ task.kind \in Kinds
    /\ task' \in Task /\ task'.kind = task.kind
    /\ session' \in Session /\ session'.id = session.id
    /\ UNCHANGED <<control, provider, ui>>
    /\ transmission' \in SUBSET Items /\ sent' \in SUBSET Items
    /\ history' \in [SessionIds -> Session]
    /\ log' \in [SessionIds -> Seq(Remediation)]

(* Such a step keeps the invariant: while a task runs the page shows no     *)
(* view that could be invalidated by the session changing under it.         *)
LEMMA WorkerFrameKeepsCoherent ==
    ASSUME Coherent, WorkerFrame,
           task'.at \in {"execute", "verify"} => task.kind = "remediate",
           task'.at = "verify" => session'.remediations # <<>>,
           task'.at = "follow_up" => task'.rounds > 0
    PROVE  Coherent'
<1>1. TypeOK'
  BY DEF Coherent, TypeOK, WorkerFrame
<1>2. TaskMatchesState'
  BY DEF Coherent, TaskMatchesState, WorkerFrame
<1>3. view \notin {"diagnosis", "fix", "result"}
  BY DEF Coherent, TaskMatchesState, ViewMatchesState, WorkerFrame, Kinds
<1>4. ViewMatchesState'
  BY <1>3 DEF ViewMatchesState, WorkerFrame
<1>5. SessionInUse'
  BY DEF Coherent, SessionInUse, HasSession, WorkerFrame
<1> QED
  BY <1>1, <1>2, <1>4, <1>5 DEF Coherent

(* A task that is at a step is a task. *)
LEMMA TaskAtStep ==
    ASSUME TypeOK, task.at \in Steps
    PROVE  task \in Task /\ task.kind \in Kinds
BY DEF TypeOK, NoTask, Task, Steps, Kinds

(* Going to a step keeps the kind of the task. *)
LEMMA GoesFacts ==
    ASSUME task \in Task, NEW step \in Steps, Goes(step)
    PROVE  task' \in Task /\ task'.kind = task.kind /\ task'.at = step
BY DEF Goes, Task

(* Saving a session, or failing to, keeps the history well formed. *)
LEMMA SaveFacts ==
    ASSUME history \in [SessionIds -> Session], NEW s \in Session, Save(s)
    PROVE  history' \in [SessionIds -> Session]
BY DEF Save

(* Sending data keeps what was recorded and what was sent well formed. *)
LEMMA SendsFacts ==
    ASSUME transmission \in SUBSET Items, sent \in SUBSET Items,
           NEW items \in SUBSET Items, Sends(items)
    PROVE  transmission' \in SUBSET Items /\ sent' \in SUBSET Items
BY DEF Sends, Merged

-----------------------------------------------------------------------------
(* The steps of the worker keep the invariant                              *)

(* The request that opens a diagnosis keeps the invariant. *)
LEMMA BeginDiagnosisCoherent ==
    ASSUME Coherent, BeginDiagnosis
    PROVE  Coherent'
<1>1. task \in Task /\ task.kind \in Kinds
  BY TaskAtStep DEF Coherent, BeginDiagnosis, Steps
<1>2. task' \in Task /\ task'.kind = task.kind /\ task'.at = "plan"
  BY <1>1, GoesFacts DEF BeginDiagnosis, Steps
<1>3. SameSession(session, session')
  BY DiagnosingFacts DEF Coherent, TypeOK, BeginDiagnosis
<1>4. transmission' \in SUBSET Items /\ sent' \in SUBSET Items
  BY SendsFacts, TroubleshootAssumption DEF Coherent, TypeOK, BeginDiagnosis
<1>5. WorkerFrame
  BY <1>1, <1>2, <1>3, <1>4
     DEF WorkerFrame, SameSession, BeginDiagnosis, Coherent, TypeOK
<1> QED
  BY <1>2, <1>5, WorkerFrameKeepsCoherent

(* Any plan, of the AI or of the local planner, keeps the invariant. *)
LEMMA PlanChecksCoherent ==
    ASSUME Coherent, NEW understood \in BOOLEAN, NEW quick \in BOOLEAN,
           PlanChecks(understood, quick)
    PROVE  Coherent'
<1>1. task \in Task /\ task.kind \in Kinds
  BY TaskAtStep DEF Coherent, PlanChecks, Steps
<1>2. task' \in Task /\ task'.kind = task.kind /\ task'.at = "checks"
  <2>1. PICK r \in 0 .. MaxRounds : task' = [task EXCEPT !.at = "checks", !.rounds = r]
    <3>1. 1 \in 0 .. MaxRounds /\ MaxRounds \in 0 .. MaxRounds
      BY TroubleshootAssumption
    <3> QED
      BY <3>1 DEF PlanChecks
  <2> QED
    BY <1>1, <2>1 DEF Task, Steps
<1>3. SameSession(session, session')
  BY QueueChecksFacts DEF Coherent, TypeOK, PlanChecks
<1>4. WorkerFrame
  BY <1>1, <1>2, <1>3 DEF WorkerFrame, SameSession, PlanChecks, Coherent, TypeOK
<1> QED
  BY <1>2, <1>4, WorkerFrameKeepsCoherent

(* A check that starts, or trips the step bound, keeps the invariant. *)
LEMMA StartCheckCoherent ==
    ASSUME Coherent, NEW t \in Tools, StartCheck(t)
    PROVE  Coherent'
<1>1. task \in Task /\ task.kind \in Kinds
  BY TaskAtStep DEF Coherent, StartCheck, Steps
<1>2. task' \in Task /\ task'.kind = task.kind /\ task'.at \in {"checking", "failed"}
  BY <1>1, GoesFacts DEF StartCheck, Steps
<1>3. SameSession(session, session')
  BY CheckStartedFacts DEF Coherent, TypeOK, StartCheck, SameSession
<1>4. WorkerFrame
  BY <1>1, <1>2, <1>3 DEF WorkerFrame, SameSession, StartCheck, Coherent, TypeOK
<1> QED
  BY <1>2, <1>4, WorkerFrameKeepsCoherent

(* A check that ends keeps the invariant. *)
LEMMA FinishCheckCoherent ==
    ASSUME Coherent, NEW t \in Tools, NEW ok \in BOOLEAN, FinishCheck(t, ok)
    PROVE  Coherent'
<1>1. task \in Task /\ task.kind \in Kinds
  BY TaskAtStep DEF Coherent, FinishCheck, Steps
<1>2. task' \in Task /\ task'.kind = task.kind /\ task'.at = "checks"
  BY <1>1, GoesFacts DEF FinishCheck, Steps
<1>3. SameSession(session, session')
  BY CheckFinishedFacts DEF Coherent, TypeOK, FinishCheck
<1>4. WorkerFrame
  BY <1>1, <1>2, <1>3 DEF WorkerFrame, SameSession, FinishCheck, Coherent, TypeOK
<1> QED
  BY <1>2, <1>4, WorkerFrameKeepsCoherent

(* A cancellation the worker sees keeps the invariant. *)
LEMMA CancelSeenCoherent ==
    ASSUME Coherent, CancelSeen
    PROVE  Coherent'
<1>1. task \in Task /\ task.kind \in Kinds
  BY TaskAtStep DEF Coherent, CancelSeen, Steps
<1>2. task' \in Task /\ task'.kind = task.kind /\ task'.at = "done"
  BY <1>1, GoesFacts DEF CancelSeen, Steps
<1>3. SameSession(session, session')
  BY CancelledFacts DEF Coherent, TypeOK, CancelSeen
<1>4. history' \in [SessionIds -> Session]
  BY <1>3, SaveFacts DEF Coherent, TypeOK, CancelSeen, SameSession
<1>5. WorkerFrame
  BY <1>1, <1>2, <1>3, <1>4 DEF WorkerFrame, SameSession, CancelSeen, Coherent, TypeOK
<1> QED
  BY <1>2, <1>5, WorkerFrameKeepsCoherent

(* The end of a round of checks keeps the invariant: no round is asked for  *)
(* when none is left.                                                       *)
LEMMA ChecksDoneCoherent ==
    ASSUME Coherent, ChecksDone
    PROVE  Coherent'
<1>1. task \in Task /\ task.kind \in Kinds
  BY TaskAtStep DEF Coherent, ChecksDone, Steps
<1>2. task' \in Task /\ task'.kind = task.kind /\ task'.at \in {"follow_up", "analyze"}
  BY <1>1, GoesFacts DEF ChecksDone, Steps
<1>3. WorkerFrame
  BY <1>1, <1>2 DEF WorkerFrame, ChecksDone, Coherent, TypeOK
<1>4. task'.at = "follow_up" => task'.rounds > 0
  BY <1>1, TroubleshootAssumption DEF ChecksDone, Goes, Task
<1> QED
  BY <1>2, <1>3, <1>4, WorkerFrameKeepsCoherent

(* The request for the analysis keeps the invariant. *)
LEMMA AnalyzeCoherent ==
    ASSUME Coherent, Analyze
    PROVE  Coherent'
<1>1. task \in Task /\ task.kind \in Kinds
  BY TaskAtStep DEF Coherent, Analyze, Steps
<1>2. task' \in Task /\ task'.kind = task.kind /\ task'.at = "conclude"
  BY <1>1, GoesFacts DEF Analyze, Steps
<1>3. transmission' \in SUBSET Items /\ sent' \in SUBSET Items
  BY SendsFacts, TroubleshootAssumption DEF Coherent, TypeOK, Analyze
<1>4. WorkerFrame
  BY <1>1, <1>2, <1>3 DEF WorkerFrame, Analyze, Coherent, TypeOK
<1> QED
  BY <1>2, <1>4, WorkerFrameKeepsCoherent

(* The diagnosis, its recommendation and the save keep the invariant. *)
LEMMA ConcludeCoherent ==
    ASSUME Coherent, NEW healthy \in BOOLEAN, Conclude(healthy)
    PROVE  Coherent'
<1>1. task \in Task /\ task.kind \in Kinds
  BY TaskAtStep DEF Coherent, Conclude, Steps
<1>2. task' \in Task /\ task'.kind = task.kind /\ task'.at = "done"
  BY <1>1, GoesFacts DEF Conclude, Steps
<1>3. SameSession(session, session')
  <2>1. SameSession(session, Analyzed(session, transmission))
    BY AnalyzedFacts DEF Coherent, TypeOK
  <2>2. PICK p \in ProposalLists(healthy, Tried(session)) :
            session' = Recommended(Analyzed(session, transmission), p, healthy)
    BY DEF Conclude
  <2>3. p \in Seq(Fixes)
    BY <2>2, ProposalListsFacts
  <2>4. SameSession(Analyzed(session, transmission), session')
    BY <2>1, <2>2, <2>3, RecommendedFacts DEF SameSession
  <2> QED
    BY <2>1, <2>4 DEF SameSession
<1>4. history' \in [SessionIds -> Session]
  BY <1>3, SaveFacts DEF Coherent, TypeOK, Conclude, SameSession
<1>5. WorkerFrame
  BY <1>1, <1>2, <1>3, <1>4 DEF WorkerFrame, SameSession, Conclude, Coherent, TypeOK
<1> QED
  BY <1>2, <1>5, WorkerFrameKeepsCoherent

(* An approval, or the refusal of one attempt more, keeps the invariant. *)
LEMMA BeginRemediationCoherent ==
    ASSUME Coherent, BeginRemediation
    PROVE  Coherent'
<1>1. task \in Task /\ task.kind \in Kinds
  BY TaskAtStep DEF Coherent, BeginRemediation, Steps
<1>2. task' \in Task /\ task'.kind = task.kind /\ task'.at \in {"execute", "failed"}
  BY <1>1, GoesFacts DEF BeginRemediation, Steps
<1>3. SameSession(session, session')
  BY ApprovedFacts DEF Coherent, TypeOK, BeginRemediation, SameSession
<1>4. WorkerFrame
  BY <1>1, <1>2, <1>3 DEF WorkerFrame, SameSession, BeginRemediation, Coherent, TypeOK
<1> QED
  BY <1>2, <1>4, WorkerFrameKeepsCoherent DEF BeginRemediation

(* A fix that runs, and succeeds or fails, keeps the invariant. *)
LEMMA ExecuteFixCoherent ==
    ASSUME Coherent, NEW success \in BOOLEAN, ExecuteFix(success)
    PROVE  Coherent'
<1>1. task \in Task /\ task.kind = "remediate" /\ task.kind \in Kinds
  BY TaskAtStep DEF Coherent, ExecuteFix, Steps, TaskMatchesState
<1>2. task' \in Task /\ task'.kind = task.kind /\ task'.at = "verify"
  BY <1>1, GoesFacts DEF ExecuteFix, Steps
<1>3. pending \in Fixes
  BY <1>1 DEF Coherent, TaskMatchesState, SessionInUse
<1> DEFINE outcome == [tool |-> pending, success |-> success]
<1>4. outcome \in Remediation
  BY <1>3 DEF Remediation
<1>5. /\ session' \in Session
      /\ session'.id = session.id
      /\ session'.remediations = Append(session.remediations, outcome)
  BY <1>3, FixRecordedFacts DEF Coherent, TypeOK, ExecuteFix
<1>6. session.remediations \in Seq(Remediation)
  BY DEF Coherent, TypeOK, Session
<1>7. log' = [log EXCEPT ![session.id] = Append(@, outcome)]
  BY DEF ExecuteFix
<1> HIDE DEF outcome
<1>8. session'.remediations # <<>>
  BY <1>4, <1>5, <1>6
<1>9. log' \in [SessionIds -> Seq(Remediation)]
  <2>1. log \in [SessionIds -> Seq(Remediation)]
    BY DEF Coherent, TypeOK
  <2>2. ASSUME session.id \in SessionIds
        PROVE  Append(log[session.id], outcome) \in Seq(Remediation)
    BY <1>4, <2>1, <2>2
  <2> QED
    BY <1>7, <2>1, <2>2
<1>10. WorkerFrame
  BY <1>1, <1>2, <1>5, <1>9 DEF WorkerFrame, ExecuteFix, Coherent, TypeOK
<1> QED
  BY <1>1, <1>2, <1>8, <1>10, WorkerFrameKeepsCoherent

(* A verification and its save keep the invariant. *)
LEMMA VerifyFixCoherent ==
    ASSUME Coherent, VerifyFix
    PROVE  Coherent'
<1>1. task \in Task /\ task.kind \in Kinds
  BY TaskAtStep DEF Coherent, VerifyFix, Steps
<1>2. task' \in Task /\ task'.kind = task.kind /\ task'.at = "done"
  BY <1>1, GoesFacts DEF VerifyFix, Steps
<1>3. SameSession(session, session')
  <2>1. PICK v \in Verifications(session) : session' = Verified(session, v)
    BY DEF VerifyFix
  <2>2. v \in Verification
    BY <2>1, VerificationsFacts DEF Coherent, TypeOK, SessionInUse, VerifyFix
  <2> QED
    BY <2>1, <2>2, VerifiedFacts DEF Coherent, TypeOK
<1>4. history' \in [SessionIds -> Session]
  BY <1>3, SaveFacts DEF Coherent, TypeOK, VerifyFix, SameSession
<1>5. WorkerFrame
  BY <1>1, <1>2, <1>3, <1>4 DEF WorkerFrame, SameSession, VerifyFix, Coherent, TypeOK
<1> QED
  BY <1>2, <1>5, WorkerFrameKeepsCoherent

(* An exception between two steps keeps the invariant. *)
LEMMA WorkerRaisesCoherent ==
    ASSUME Coherent, WorkerRaises
    PROVE  Coherent'
<1>1. task \in Task /\ task.kind \in Kinds
  BY DEF Coherent, TypeOK, WorkerRaises, Working, Task
<1>2. task' \in Task /\ task'.kind = task.kind /\ task'.at = "failed"
  BY <1>1, GoesFacts DEF WorkerRaises, Steps
<1>3. WorkerFrame
  BY <1>1, <1>2 DEF WorkerFrame, WorkerRaises, Coherent, TypeOK
<1> QED
  BY <1>2, <1>3, WorkerFrameKeepsCoherent

(* A round of follow-up checks keeps the invariant: it uses up a round. *)
LEMMA FollowUpCoherent ==
    ASSUME Coherent, FollowUp
    PROVE  Coherent'
<1>1. task \in Task /\ task.kind \in Kinds
  BY TaskAtStep DEF Coherent, FollowUp, Steps
<1>2. PICK tools : /\ session' = QueueChecks(session, tools)
                   /\ task' = IF tools = {} THEN [task EXCEPT !.at = "analyze"]
                              ELSE [task EXCEPT !.at = "checks", !.rounds = @ - 1]
  BY DEF FollowUp
<1>3. SameSession(session, session')
  BY <1>2, QueueChecksFacts DEF Coherent, TypeOK
<1>4. task' \in Task /\ task'.kind = task.kind /\ task'.at \in {"analyze", "checks"}
  <2>1. CASE tools = {}
    BY <1>1, <1>2, <2>1 DEF Task, Steps
  <2>2. CASE tools # {}
    <3>1. task.rounds - 1 \in 0 .. MaxRounds
      BY <1>1, TroubleshootAssumption DEF Coherent, TaskMatchesState, FollowUp, Task
    <3> QED
      BY <1>1, <1>2, <2>2, <3>1 DEF Task, Steps
  <2> QED
    BY <2>1, <2>2
<1>5. transmission' \in SUBSET Items /\ sent' \in SUBSET Items
  BY SendsFacts, TroubleshootAssumption DEF Coherent, TypeOK, FollowUp
<1>6. WorkerFrame
  BY <1>1, <1>3, <1>4, <1>5 DEF WorkerFrame, SameSession, FollowUp, Coherent, TypeOK
<1> QED
  BY <1>4, <1>6, WorkerFrameKeepsCoherent

(* Carrying the investigation on keeps the invariant. *)
LEMMA BeginContinueCoherent ==
    ASSUME Coherent, BeginContinue
    PROVE  Coherent'
<1>1. task \in Task /\ task.kind \in Kinds
  BY TaskAtStep DEF Coherent, BeginContinue, Steps
<1>2. CASE ~AttemptAllowed(session)
  <2>1. task' \in Task /\ task'.kind = task.kind /\ task'.at = "failed"
    BY <1>1, <1>2, GoesFacts DEF BeginContinue, Steps
  <2>2. WorkerFrame
    BY <1>1, <1>2, <2>1 DEF WorkerFrame, BeginContinue, Coherent, TypeOK
  <2> QED
    BY <2>1, <2>2, WorkerFrameKeepsCoherent
<1>3. CASE AttemptAllowed(session)
  <2>1. PICK tools : session' = QueueChecks(CarriedForward(session), tools)
    BY <1>3 DEF BeginContinue
  <2>2. SameSession(session, CarriedForward(session))
    BY CarriedForwardFacts DEF Coherent, TypeOK
  <2>3. SameSession(CarriedForward(session), session')
    BY <2>1, <2>2, QueueChecksFacts DEF SameSession
  <2>4. task' = [task EXCEPT !.at = "checks", !.rounds = 0]
    BY <1>3 DEF BeginContinue
  <2>5. task' \in Task /\ task'.kind = task.kind /\ task'.at = "checks"
    <3>1. 0 \in 0 .. MaxRounds
      BY TroubleshootAssumption
    <3> QED
      BY <1>1, <2>4, <3>1 DEF Task, Steps
  <2>6. WorkerFrame
    BY <1>1, <2>2, <2>3, <2>5
       DEF WorkerFrame, SameSession, BeginContinue, Coherent, TypeOK
  <2> QED
    BY <2>5, <2>6, WorkerFrameKeepsCoherent
<1> QED
  BY <1>2, <1>3

(* Every step of the worker keeps the invariant. *)
LEMMA WorkerStepCoherent ==
    ASSUME Coherent, WorkerStep
    PROVE  Coherent'
<1>1. CASE BeginDiagnosis
  BY <1>1, BeginDiagnosisCoherent
<1>2. CASE \E understood, quick \in BOOLEAN : PlanChecks(understood, quick)
  BY <1>2, PlanChecksCoherent
<1>3. CASE \E t \in Tools : StartCheck(t)
  BY <1>3, StartCheckCoherent
<1>4. CASE \E t \in Tools, ok \in BOOLEAN : FinishCheck(t, ok)
  BY <1>4, FinishCheckCoherent
<1>5. CASE CancelSeen
  BY <1>5, CancelSeenCoherent
<1>6. CASE ChecksDone
  BY <1>6, ChecksDoneCoherent
<1>7. CASE FollowUp
  BY <1>7, FollowUpCoherent
<1>8. CASE Analyze
  BY <1>8, AnalyzeCoherent
<1>9. CASE \E healthy \in BOOLEAN : Conclude(healthy)
  BY <1>9, ConcludeCoherent
<1>10. CASE BeginRemediation
  BY <1>10, BeginRemediationCoherent
<1>11. CASE \E success \in BOOLEAN : ExecuteFix(success)
  BY <1>11, ExecuteFixCoherent
<1>12. CASE VerifyFix
  BY <1>12, VerifyFixCoherent
<1>13. CASE BeginContinue
  BY <1>13, BeginContinueCoherent
<1> QED
  BY <1>1, <1>2, <1>3, <1>4, <1>5, <1>6, <1>7, <1>8, <1>9, <1>10, <1>11, <1>12, <1>13 DEF WorkerStep

-----------------------------------------------------------------------------
(* The handlers of the UI thread keep the invariant                        *)

(* The page shows the diagnosis or the result only in their states, and the *)
(* recommended fix never by itself.                                         *)
LEMMA ViewOfFacts ==
    ASSUME NEW st \in States
    PROVE  /\ ViewOf(st) \in Views \ {"fix", "other"}
           /\ ViewOf(st) = "diagnosis" => st = "diagnosed"
           /\ ViewOf(st) = "result" => st = "result"
BY DEF ViewOf, States, Views

(* A task in progress has its state of the controller, hence a session, and *)
(* none of the views from which the session can be changed.                 *)
LEMMA WorkingFacts ==
    ASSUME Coherent, task \in Task
    PROVE  /\ busy
           /\ HasSession
           /\ view \notin {"diagnosis", "fix", "result"}
           /\ task.kind = "remediate" => pending \in Fixes
BY DEF Coherent, TaskMatchesState, ViewMatchesState, SessionInUse, busy, Task, Kinds

(* "No task" is none of the tasks. *)
LEMMA NoTaskFacts == NoTask.kind = "none" /\ NoTask.at = "none" /\ NoTask \notin Task
BY DEF NoTask, Task, Kinds

(* The result of a task, handled on the UI thread, keeps the invariant. *)
LEMMA DeliverDoneCoherent ==
    ASSUME Coherent, DeliverDone
    PROVE  Coherent'
<1>1. task \in Task
  BY TaskAtStep DEF Coherent, DeliverDone, Steps
<1>2. /\ state' \in {"result", "cancelled", "diagnosed"}
      /\ state' = "result" => task.kind = "remediate"
  BY DEF DeliverDone, StateAfter
<1>3. TypeOK'
  <2>1. view' \in Views
    BY <1>2, ViewOfFacts DEF DeliverDone, Shows, States, Views
  <2> QED
    BY <1>2, <2>1 DEF DeliverDone, Coherent, TypeOK, States
<1>4. TaskMatchesState'
  BY NoTaskFacts DEF DeliverDone, TaskMatchesState
<1>5. ViewMatchesState'
  BY <1>2, ViewOfFacts DEF DeliverDone, Shows, ViewMatchesState, States
<1>6. SessionInUse'
  BY <1>1, <1>2, WorkingFacts, NoTaskFacts DEF DeliverDone, SessionInUse, HasSession
<1> QED
  BY <1>3, <1>4, <1>5, <1>6 DEF Coherent

(* The failure of a task, handled on the UI thread, keeps the invariant. *)
LEMMA DeliverFailedCoherent ==
    ASSUME Coherent, DeliverFailed
    PROVE  Coherent'
<1>1. TypeOK'
  <2>1. view' \in Views
    BY ViewOfFacts DEF DeliverFailed, Shows, States, Views
  <2> QED
    BY <2>1 DEF DeliverFailed, Coherent, TypeOK, States
<1>2. TaskMatchesState'
  BY NoTaskFacts DEF DeliverFailed, TaskMatchesState
<1>3. ViewMatchesState'
  BY ViewOfFacts DEF DeliverFailed, Shows, ViewMatchesState, States
<1>4. SessionInUse'
  BY NoTaskFacts DEF DeliverFailed, SessionInUse
<1> QED
  BY <1>1, <1>2, <1>3, <1>4 DEF Coherent

(* A new task: no other one runs, as the controller is not busy. *)
LEMMA RunsFacts ==
    ASSUME NEW kind \in Kinds, Runs(kind)
    PROVE  task' \in Task /\ task'.kind = kind /\ task'.at = "begin"
<1>1. 0 \in 0 .. MaxRounds
  BY TroubleshootAssumption
<1> QED
  BY <1>1 DEF Runs, Task, Steps

(* A new session keeps the invariant. *)
LEMMA StartSessionCoherent ==
    ASSUME Coherent, NEW sid \in SessionIds, NEW setting \in Providers,
           StartSession(sid, setting)
    PROVE  Coherent'
<1>1. task' \in Task /\ task'.kind = "diagnose" /\ task'.at = "begin"
  BY RunsFacts DEF StartSession, Kinds
<1>2. session' \in Session /\ session'.id = sid
  BY NewSessionFacts DEF StartSession
<1>3. TypeOK'
  BY <1>1, <1>2 DEF StartSession, Coherent, TypeOK, States, Views
<1>4. TaskMatchesState'
  BY <1>1 DEF StartSession, TaskMatchesState
<1>5. ViewMatchesState'
  BY DEF StartSession, ViewMatchesState
<1>6. SessionInUse'
  BY <1>1, <1>2, SessionAssumption DEF StartSession, SessionInUse, HasSession
<1> QED
  BY <1>3, <1>4, <1>5, <1>6 DEF Coherent

(* Pressing Cancel keeps the invariant. *)
LEMMA PressCancelCoherent ==
    ASSUME Coherent, PressCancel
    PROVE  Coherent'
<1>1. TypeOK'
  BY DEF PressCancel, Coherent, TypeOK
<1>2. TaskMatchesState' /\ ViewMatchesState' /\ SessionInUse'
  BY DEF PressCancel, Coherent, TaskMatchesState, ViewMatchesState, SessionInUse, HasSession
<1> QED
  BY <1>1, <1>2 DEF Coherent

(* The views that hold the buttons of a session that rests. *)
LEMMA RestingView ==
    ASSUME Coherent, view \in {"diagnosis", "fix", "result"}
    PROVE  /\ task = NoTask
           /\ HasSession
           /\ session.id \in SessionIds
<1>1. task = NoTask
  BY WorkingFacts DEF Coherent, TypeOK
<1>2. HasSession
  BY DEF Coherent, ViewMatchesState, SessionInUse
<1>3. session.id \in SessionIds
  BY <1>2 DEF Coherent, TypeOK, HasSession, Session
<1> QED
  BY <1>1, <1>2, <1>3

(* A handler that closes the session, saves it and returns to the home page *)
(* keeps the invariant.                                                     *)
LEMMA ClosingHandlerCoherent ==
    ASSUME Coherent, task = NoTask, SameSession(session, session'),
           Save(session'), state' = "idle", view' = "other",
           UNCHANGED <<pending, cancel, task, dialogs, focus, window, log, ai>>
    PROVE  Coherent'
<1>1. history' \in [SessionIds -> Session]
  BY SaveFacts DEF Coherent, TypeOK, SameSession
<1>2. TypeOK'
  BY <1>1 DEF Coherent, TypeOK, SameSession, States, Views
<1>3. TaskMatchesState' /\ ViewMatchesState' /\ SessionInUse'
  BY NoTaskFacts DEF TaskMatchesState, ViewMatchesState, SessionInUse, Kinds
<1> QED
  BY <1>2, <1>3 DEF Coherent

(* "Not now" keeps the invariant. *)
LEMMA NotNowCoherent ==
    ASSUME Coherent, NotNow
    PROVE  Coherent'
<1>1. task = NoTask
  BY RestingView DEF NotNow
<1>2. SameSession(session, session')
  BY DeclinedFacts DEF Coherent, TypeOK, NotNow
<1> QED
  BY <1>1, <1>2, ClosingHandlerCoherent DEF NotNow

(* "Done" and "Stop troubleshooting" keep the invariant. *)
LEMMA StopSessionCoherent ==
    ASSUME Coherent, StopSession
    PROVE  Coherent'
<1>1. task = NoTask
  BY RestingView DEF StopSession
<1>2. SameSession(session, session')
  BY StoppedFacts DEF Coherent, TypeOK, StopSession
<1> QED
  BY <1>1, <1>2, ClosingHandlerCoherent DEF StopSession

(* A handler that changes only what the page shows, by a view its state     *)
(* allows, keeps the invariant.                                             *)
LEMMA ShowingHandlerCoherent ==
    ASSUME Coherent, view' \in Views, focus' \in {"page", "dialog"},
           dialogs' \in Seq(Dialog), ViewMatchesState',
           UNCHANGED <<session, task, window, control, ai, store>>
    PROVE  Coherent'
<1>1. TypeOK'
  BY DEF Coherent, TypeOK
<1>2. TaskMatchesState' /\ SessionInUse'
  BY DEF Coherent, TaskMatchesState, SessionInUse, HasSession
<1> QED
  BY <1>1, <1>2 DEF Coherent

(* "Review fix" and "Back" keep the invariant. *)
LEMMA ReviewAndBackCoherent ==
    ASSUME Coherent, ReviewFix \/ BackToDiagnosis
    PROVE  Coherent'
<1>1. ViewMatchesState'
  BY DEF Coherent, ViewMatchesState, ReviewFix, BackToDiagnosis
<1> QED
  BY <1>1, ShowingHandlerCoherent
     DEF Coherent, TypeOK, ReviewFix, BackToDiagnosis, Views

(* An approval dialog for a registered fix keeps the invariant. *)
LEMMA ConfirmCoherent ==
    ASSUME Coherent, NEW fix \in Fixes, session.id \in SessionIds, Confirm(fix)
    PROVE  Coherent'
<1>1. dialogs' \in Seq(Dialog)
  BY DEF Confirm, Dialog, Coherent, TypeOK
<1>2. ViewMatchesState'
  BY DEF Coherent, ViewMatchesState, Confirm
<1> QED
  BY <1>1, <1>2, ShowingHandlerCoherent DEF Coherent, TypeOK, Confirm

(* The fix the page recommends is a registered one. *)
LEMMA HeadIsFix ==
    ASSUME Coherent, session.proposals # <<>>
    PROVE  Head(session.proposals) \in Fixes
BY DEF Coherent, TypeOK, Session

(* "Approve fix" and "Try again" keep the invariant. *)
LEMMA ApproveFixCoherent ==
    ASSUME Coherent, ApproveFix \/ TryAgain
    PROVE  Coherent'
<1>1. CASE ApproveFix
  <2>1. Head(session.proposals) \in Fixes
    BY <1>1, HeadIsFix DEF ApproveFix, Coherent, ViewMatchesState
  <2> QED
    BY <1>1, <2>1, RestingView, ConfirmCoherent DEF ApproveFix
<1>2. CASE TryAgain
  <2>1. pending \in Fixes /\ pending # NoFix
    BY <1>2, SessionAssumption DEF TryAgain, Coherent, ViewMatchesState, SessionInUse
  <2> QED
    BY <1>2, <2>1, RestingView, ConfirmCoherent DEF TryAgain
<1> QED
  BY <1>1, <1>2

(* A sequence without one of its elements. *)
LEMMA RemoveAtFacts ==
    ASSUME NEW S, NEW s \in Seq(S), NEW i \in DOMAIN s
    PROVE  RemoveAt(s, i) \in Seq(S)
<1>1. i \in Nat /\ i >= 1 /\ i <= Len(s) /\ Len(s) \in Nat
  OBVIOUS
<1>2. SubSeq(s, 1, i - 1) \in Seq(S) /\ SubSeq(s, i + 1, Len(s)) \in Seq(S)
  BY <1>1
<1> QED
  BY <1>2 DEF RemoveAt

(* A dialog that is cancelled keeps the invariant. *)
LEMMA CancelDialogCoherent ==
    ASSUME Coherent, NEW i \in DOMAIN dialogs, CancelDialog(i)
    PROVE  Coherent'
<1>1. dialogs' \in Seq(Dialog)
  BY RemoveAtFacts DEF CancelDialog, Coherent, TypeOK
<1>2. ViewMatchesState'
  BY DEF Coherent, ViewMatchesState, CancelDialog
<1> QED
  BY <1>1, <1>2, ShowingHandlerCoherent DEF Coherent, TypeOK, CancelDialog

(* A dialog that is accepted keeps the invariant, whatever session it meets. *)
LEMMA ApplyFixCoherent ==
    ASSUME Coherent, NEW i \in DOMAIN dialogs, ApplyFix(i)
    PROVE  Coherent'
<1>1. dialogs' \in Seq(Dialog)
  BY RemoveAtFacts DEF ApplyFix, Coherent, TypeOK
<1>2. CASE HasSession /\ ~busy
  <2>1. task' \in Task /\ task'.kind = "remediate" /\ task'.at = "begin"
    BY <1>2, RunsFacts DEF ApplyFix, Kinds
  <2>2. pending' \in Fixes
    <3>1. dialogs[i] \in Dialog
      BY DEF Coherent, TypeOK
    <3> QED
      BY <1>2, <3>1 DEF ApplyFix, Dialog
  <2>3. view' \in {"other", "applying"} /\ state' = "applying"
    BY <1>2 DEF ApplyFix, Shows, ViewOf
  <2>4. TypeOK'
    BY <1>1, <2>1, <2>2, <2>3 DEF ApplyFix, Coherent, TypeOK, States, Views
  <2>5. TaskMatchesState' /\ ViewMatchesState'
    BY <2>1, <2>3 DEF TaskMatchesState, ViewMatchesState
  <2>6. SessionInUse'
    BY <1>2, <2>1, <2>2 DEF ApplyFix, SessionInUse, HasSession
  <2> QED
    BY <2>4, <2>5, <2>6 DEF Coherent
<1>3. CASE ~(HasSession /\ ~busy)
  <2>1. ViewMatchesState'
    BY <1>3 DEF Coherent, ViewMatchesState, ApplyFix
  <2> QED
    BY <1>1, <1>3, <2>1, ShowingHandlerCoherent DEF Coherent, TypeOK, ApplyFix
<1> QED
  BY <1>2, <1>3

(* "Continue investigation" keeps the invariant. *)
LEMMA ContinueInvestigationCoherent ==
    ASSUME Coherent, ContinueInvestigation
    PROVE  Coherent'
<1>1. task' \in Task /\ task'.kind = "continue" /\ task'.at = "begin"
  BY RunsFacts DEF ContinueInvestigation, Kinds
<1>2. TypeOK'
  BY <1>1 DEF ContinueInvestigation, Coherent, TypeOK, States, Views
<1>3. TaskMatchesState' /\ ViewMatchesState'
  BY <1>1 DEF ContinueInvestigation, TaskMatchesState, ViewMatchesState
<1>4. SessionInUse'
  BY <1>1, RestingView DEF ContinueInvestigation, SessionInUse, HasSession
<1> QED
  BY <1>2, <1>3, <1>4 DEF Coherent

(* Moving between pages keeps the invariant. *)
LEMMA PagesCoherent ==
    ASSUME Coherent, LeavePage \/ ShowPage
    PROVE  Coherent'
<1>1. CASE LeavePage
  <2>1. ViewMatchesState'
    BY <1>1 DEF LeavePage, ViewMatchesState
  <2> QED
    BY <1>1, <2>1, ShowingHandlerCoherent DEF LeavePage, Coherent, TypeOK, Views
<1>2. CASE ShowPage
  <2>1. view' \in Views /\ ViewMatchesState'
    BY <1>2, ViewOfFacts DEF ShowPage, ViewMatchesState, Coherent, TypeOK
  <2> QED
    BY <1>2, <2>1, ShowingHandlerCoherent DEF ShowPage, Coherent, TypeOK
<1> QED
  BY <1>1, <1>2

(* Closing the window keeps the invariant. *)
LEMMA CloseWindowCoherent ==
    ASSUME Coherent, CloseWindow
    PROVE  Coherent'
<1>1. TypeOK'
  BY DEF CloseWindow, Coherent, TypeOK, HasSession
<1>2. TaskMatchesState' /\ ViewMatchesState' /\ SessionInUse'
  BY DEF CloseWindow, Coherent, TaskMatchesState, ViewMatchesState, SessionInUse,
         HasSession
<1> QED
  BY <1>1, <1>2 DEF Coherent

(* "No session" is a session record too, with the identity of none. *)
LEMMA NoSessionFacts ==
    /\ NoSession \in Session
    /\ NoSession.id = NoSessionId
    /\ NoSession.remediations = <<>>
BY NewSessionFacts DEF NoSession

(* What the first start and every restart have in common. *)
Started ==
    /\ state = "idle" /\ session = NoSession /\ pending = NoFix /\ cancel = FALSE
    /\ task = NoTask /\ provider = "local"
    /\ transmission = {} /\ sent = {}
    /\ view = "other" /\ dialogs = <<>> /\ focus = "page" /\ window = "open"

(* A program that has just been started satisfies the invariant. *)
LEMMA StartedCoherent ==
    /\ Started /\ history \in [SessionIds -> Session]
               /\ log \in [SessionIds -> Seq(Remediation)] => Coherent
    /\ Started' /\ history' \in [SessionIds -> Session]
                /\ log' \in [SessionIds -> Seq(Remediation)] => Coherent'
<1>1. /\ NoSession \in Session
      /\ <<>> \in Seq(Dialog)
      /\ NoTask.kind = "none" /\ NoTask.at = "none"
  BY NoSessionFacts, NoTaskFacts
<1>2. ASSUME Started, history \in [SessionIds -> Session],
             log \in [SessionIds -> Seq(Remediation)]
      PROVE  Coherent
  <2>1. TypeOK
    BY <1>1, <1>2 DEF Started, TypeOK, States, Views
  <2>2. TaskMatchesState /\ ViewMatchesState /\ SessionInUse
    BY <1>1, <1>2 DEF Started, TaskMatchesState, ViewMatchesState, SessionInUse
  <2> QED
    BY <2>1, <2>2 DEF Coherent
<1>3. ASSUME Started', history' \in [SessionIds -> Session],
             log' \in [SessionIds -> Seq(Remediation)]
      PROVE  Coherent'
  <2>1. TypeOK'
    BY <1>1, <1>3 DEF Started, TypeOK, States, Views
  <2>2. TaskMatchesState' /\ ViewMatchesState' /\ SessionInUse'
    BY <1>1, <1>3 DEF Started, TaskMatchesState, ViewMatchesState, SessionInUse
  <2> QED
    BY <2>1, <2>2 DEF Coherent
<1> QED
  BY <1>2, <1>3

(* A restart keeps the invariant. *)
LEMMA RelaunchCoherent ==
    ASSUME Coherent, Relaunch
    PROVE  Coherent'
<1>1. Started'
  BY DEF Relaunch, Started
<1>2. history' \in [SessionIds -> Session] /\ log' \in [SessionIds -> Seq(Remediation)]
  BY DEF Relaunch, Coherent, TypeOK
<1> QED
  BY <1>1, <1>2, StartedCoherent

-----------------------------------------------------------------------------
(* The theorems                                                            *)

(* The first state satisfies the invariant. *)
LEMMA InitCoherent == Init => Coherent
<1> SUFFICES ASSUME Init
             PROVE  Coherent
  OBVIOUS
<1>1. Started
  BY DEF Init, Started
<1>2. history \in [SessionIds -> Session]
  BY NoSessionFacts DEF Init, NoRow
<1>3. log \in [SessionIds -> Seq(Remediation)]
  BY DEF Init
<1> QED
  BY <1>1, <1>2, <1>3, StartedCoherent

(* Every step keeps the invariant. *)
LEMMA NextCoherent == Coherent /\ [Next]_vars => Coherent'
<1> SUFFICES ASSUME Coherent, [Next]_vars
             PROVE  Coherent'
  OBVIOUS
<1>1. CASE WorkerStep
  BY <1>1, WorkerStepCoherent
<1>2. CASE WorkerRaises
  BY <1>2, WorkerRaisesCoherent
<1>3. CASE DeliverDone \/ DeliverFailed
  BY <1>3, DeliverDoneCoherent, DeliverFailedCoherent
<1>4. CASE \E sid \in SessionIds, setting \in Providers : StartSession(sid, setting)
  BY <1>4, StartSessionCoherent
<1>5. CASE PressCancel
  BY <1>5, PressCancelCoherent
<1>6. CASE NotNow \/ StopSession
  BY <1>6, NotNowCoherent, StopSessionCoherent
<1>7. CASE ReviewFix \/ BackToDiagnosis
  BY <1>7, ReviewAndBackCoherent
<1>8. CASE ApproveFix \/ TryAgain
  BY <1>8, ApproveFixCoherent
<1>9. CASE \E i \in DOMAIN dialogs : CancelDialog(i) \/ ApplyFix(i)
  BY <1>9, CancelDialogCoherent, ApplyFixCoherent
<1>10. CASE ContinueInvestigation
  BY <1>10, ContinueInvestigationCoherent
<1>11. CASE LeavePage \/ ShowPage
  BY <1>11, PagesCoherent
<1>12. CASE CloseWindow
  BY <1>12, CloseWindowCoherent
<1>13. CASE Relaunch
  BY <1>13, RelaunchCoherent
<1>14. CASE UNCHANGED vars
  BY <1>14 DEF Coherent, TypeOK, TaskMatchesState, ViewMatchesState, SessionInUse,
               HasSession
<1> QED
  BY <1>1, <1>2, <1>3, <1>4, <1>5, <1>6, <1>7, <1>8, <1>9, <1>10, <1>11, <1>12,
     <1>13, <1>14 DEF Next

(* In every state the parts of the program agree: each variable has its     *)
(* type, a task belongs to a state of the controller, the views of the page *)
(* follow that state, and there is a session where one is needed.           *)
THEOREM AlwaysCoherent == Spec => []Coherent
<1> QED
  BY InitCoherent, NextCoherent, PTL DEF Spec

(* Every variable always has its type. *)
THEOREM TypeCorrect == Spec => []TypeOK
<1>1. Coherent => TypeOK
  BY DEF Coherent
<1> QED
  BY <1>1, AlwaysCoherent, PTL

(* Every step of the worker moves its task on. *)
LEMMA WorkerStepMoves ==
    ASSUME TypeOK, WorkerStep
    PROVE  task' # task
<1>1. task \in Task
  BY TaskAtStep
     DEF WorkerStep, BeginDiagnosis, PlanChecks, StartCheck, FinishCheck, CancelSeen,
         ChecksDone, FollowUp, Analyze, Conclude, BeginRemediation, ExecuteFix,
         VerifyFix, BeginContinue, Steps
<1>2. \A step \in Steps : Goes(step) => task'.at = step
  BY <1>1, GoesFacts
<1>3. CASE \E understood, quick \in BOOLEAN : PlanChecks(understood, quick)
  BY <1>1, <1>3 DEF PlanChecks, Task
<1>4. CASE FollowUp
  BY <1>1, <1>4 DEF FollowUp, Task
<1>5. CASE BeginContinue
  <2>1. CASE AttemptAllowed(session)
    BY <1>1, <1>5, <2>1 DEF BeginContinue, Task
  <2>2. CASE ~AttemptAllowed(session)
    BY <1>2, <1>5, <2>2 DEF BeginContinue, Steps
  <2> QED
    BY <2>1, <2>2
<1>6. CASE \/ BeginDiagnosis \/ CancelSeen \/ ChecksDone \/ Analyze
           \/ BeginRemediation \/ VerifyFix
  BY <1>2, <1>6 DEF BeginDiagnosis, CancelSeen, ChecksDone, Analyze, BeginRemediation,
     VerifyFix, Steps
<1>7. CASE \E t \in Tools : StartCheck(t) \/ \E ok \in BOOLEAN : FinishCheck(t, ok)
  BY <1>2, <1>7 DEF StartCheck, FinishCheck, Steps
<1>8. CASE \E b \in BOOLEAN : Conclude(b) \/ ExecuteFix(b)
  BY <1>2, <1>8 DEF Conclude, ExecuteFix, Steps
<1> QED
  BY <1>3, <1>4, <1>5, <1>6, <1>7, <1>8 DEF WorkerStep

(* No handler of the UI thread changes the session while a task works on    *)
(* it: each step that changes the session of a running task moves the task. *)
LEMMA OneWriterStep ==
    Coherent /\ [Next]_vars => [Working /\ session' # session => task' # task]_vars
<1> SUFFICES ASSUME Coherent, [Next]_vars, Working, session' # session
             PROVE  task' # task
  OBVIOUS
<1>1. task \in Task
  BY DEF Coherent, TypeOK, Working
<1>2. busy /\ view \notin {"diagnosis", "fix", "result"}
  BY <1>1, WorkingFacts
<1>3. WorkerStep \/ Relaunch
  BY <1>2 DEF Next, WorkerRaises, DeliverDone, DeliverFailed, StartSession, PressCancel,
     NotNow, StopSession, ReviewFix, BackToDiagnosis, ApproveFix, TryAgain, Confirm,
     CancelDialog, ApplyFix, ContinueInvestigation, LeavePage, ShowPage, CloseWindow
<1> QED
  BY <1>1, <1>3, WorkerStepMoves, NoTaskFacts DEF Relaunch, Coherent

(* The session object, shared by two threads without a lock, has one writer *)
(* at a time.                                                               *)
THEOREM SingleWriter == Spec => OneWriter
<1> QED
  BY AlwaysCoherent, OneWriterStep, PTL DEF Spec, OneWriter

-----------------------------------------------------------------------------
(* Prefixes                                                                *)

(* A sequence is a prefix of itself and of itself with an element appended, *)
(* and what it is a prefix of may grow.                                     *)
LEMMA PrefixFacts ==
    ASSUME NEW S, NEW s \in Seq(S), NEW t \in Seq(S), NEW e \in S
    PROVE  /\ IsPrefix(s, s)
           /\ IsPrefix(<<>>, s)
           /\ IsPrefix(s, t) => IsPrefix(s, Append(t, e))
<1>1. IsPrefix(s, s) /\ IsPrefix(<<>>, s)
  BY DEF IsPrefix
<1>2. ASSUME IsPrefix(s, t)
      PROVE  IsPrefix(s, Append(t, e))
  <2>1. Len(s) <= Len(t) /\ Len(s) <= Len(Append(t, e))
    BY <1>2 DEF IsPrefix
  <2>2. SubSeq(Append(t, e), 1, Len(s)) = SubSeq(t, 1, Len(s))
    BY <2>1
  <2> QED
    BY <1>2, <2>1, <2>2 DEF IsPrefix
<1> QED
  BY <1>1, <1>2

-----------------------------------------------------------------------------
(* The session and the history record what was done                        *)

(* A step that records no fix and saves, if anything, the session as it is. *)
RecordsNoFix ==
    /\ session'.id = session.id
    /\ session'.remediations = session.remediations
    /\ log' = log
    /\ \/ history' = history
       \/ HasSession /\ Save(session')

(* Such a step keeps the record of changes. *)
LEMMA RecordsNoFixKeepsChanges ==
    ASSUME Coherent, ChangesRecorded, RecordsNoFix,
           task'.at = "execute" => AttemptAllowed(session)
    PROVE  ChangesRecorded'
<1>1. HasSession' => session'.remediations = log'[session'.id]
  BY DEF RecordsNoFix, ChangesRecorded, HasSession
<1>2. task'.at = "execute" => AttemptAllowed(session')
  BY DEF RecordsNoFix, AttemptAllowed
<1>3. AttemptsBounded'
  BY DEF RecordsNoFix, ChangesRecorded, AttemptsBounded
<1>4. HistoryNeverAhead'
  <2> SUFFICES ASSUME NEW sid \in SessionIds
               PROVE  IsPrefix(history'[sid].remediations, log'[sid])
    BY DEF HistoryNeverAhead
  <2>1. log[sid] \in Seq(Remediation) /\ IsPrefix(log[sid], log[sid])
    <3>1. log[sid] \in Seq(Remediation)
      BY DEF Coherent, TypeOK
    <3> QED
      BY <3>1 DEF IsPrefix
  <2>2. CASE history'[sid] = history[sid]
    BY <2>2 DEF RecordsNoFix, ChangesRecorded, HistoryNeverAhead
  <2>3. CASE history'[sid] # history[sid]
    <3>1. sid = session.id /\ history'[sid] = session' /\ HasSession
      BY <2>3 DEF RecordsNoFix, Save, Coherent, TypeOK
    <3> QED
      BY <2>1, <3>1 DEF RecordsNoFix, ChangesRecorded
  <2> QED
    BY <2>2, <2>3
<1> QED
  BY <1>1, <1>2, <1>3, <1>4 DEF ChangesRecorded

(* The steps of the worker but one record no fix.  The one before that      *)
(* checks the bound.                                                        *)
LEMMA WorkerRecordsNoFix ==
    ASSUME Coherent, WorkerStep \/ WorkerRaises,
           ~ \E success \in BOOLEAN : ExecuteFix(success)
    PROVE  RecordsNoFix /\ (task'.at = "execute" => AttemptAllowed(session))
<1>1. session \in Session
  BY DEF Coherent, TypeOK
<1>2. task \in Task /\ HasSession
  <2>1. task \in Task
    BY TaskAtStep
       DEF WorkerStep, WorkerRaises, BeginDiagnosis, PlanChecks, StartCheck,
           FinishCheck, CancelSeen, ChecksDone, FollowUp, Analyze, Conclude,
           BeginRemediation, ExecuteFix, VerifyFix, BeginContinue, Steps, Coherent,
           TypeOK, Working
  <2> QED
    BY <2>1, WorkingFacts
<1>3. \A step \in Steps : Goes(step) => task'.at = step
  BY <1>2, GoesFacts
<1>4. CASE BeginDiagnosis
  BY <1>1, <1>3, <1>4, DiagnosingFacts
     DEF BeginDiagnosis, RecordsNoFix, SameSession, Steps
<1>5. CASE \E understood, quick \in BOOLEAN : PlanChecks(understood, quick)
  <2>1. task'.at # "execute"
    BY <1>2, <1>5 DEF PlanChecks, Task
  <2> QED
    BY <1>1, <1>5, <2>1, QueueChecksFacts DEF PlanChecks, RecordsNoFix, SameSession
<1>6. CASE \E t \in Tools : StartCheck(t)
  BY <1>1, <1>3, <1>6, CheckStartedFacts DEF StartCheck, RecordsNoFix, SameSession, Steps
<1>7. CASE \E t \in Tools, ok \in BOOLEAN : FinishCheck(t, ok)
  BY <1>1, <1>3, <1>7, CheckFinishedFacts
     DEF FinishCheck, RecordsNoFix, SameSession, Steps
<1>8. CASE CancelSeen
  BY <1>1, <1>2, <1>3, <1>8, CancelledFacts
     DEF CancelSeen, RecordsNoFix, SameSession, Steps
<1>9. CASE ChecksDone
  BY <1>3, <1>9 DEF ChecksDone, RecordsNoFix, Steps
<1>10. CASE FollowUp
  <2>1. task'.at # "execute"
    BY <1>2, <1>10 DEF FollowUp, Task
  <2> QED
    BY <1>1, <1>10, <2>1, QueueChecksFacts DEF FollowUp, RecordsNoFix, SameSession
<1>11. CASE Analyze
  BY <1>3, <1>11 DEF Analyze, RecordsNoFix, Steps
<1>12. CASE \E healthy \in BOOLEAN : Conclude(healthy)
  <2>1. PICK healthy \in BOOLEAN : Conclude(healthy)
    BY <1>12
  <2>2. PICK p \in ProposalLists(healthy, Tried(session)) :
            session' = Recommended(Analyzed(session, transmission), p, healthy)
    BY <2>1 DEF Conclude
  <2>3. SameSession(session, Analyzed(session, transmission))
    BY <1>1, AnalyzedFacts DEF Coherent, TypeOK
  <2>4. SameSession(Analyzed(session, transmission), session')
    BY <2>2, <2>3, ProposalListsFacts, RecommendedFacts DEF SameSession
  <2> QED
    BY <1>2, <1>3, <2>1, <2>3, <2>4 DEF Conclude, RecordsNoFix, SameSession, Steps
<1>13. CASE BeginRemediation
  BY <1>1, <1>3, <1>13, ApprovedFacts
     DEF BeginRemediation, RecordsNoFix, SameSession, Steps
<1>14. CASE VerifyFix
  <2>1. PICK v \in Verifications(session) : session' = Verified(session, v)
    BY <1>14 DEF VerifyFix
  <2>2. v \in Verification
    BY <1>1, <1>14, <2>1, VerificationsFacts DEF Coherent, SessionInUse, VerifyFix
  <2> QED
    BY <1>1, <1>2, <1>3, <1>14, <2>1, <2>2, VerifiedFacts
       DEF VerifyFix, RecordsNoFix, SameSession, Steps
<1>15. CASE BeginContinue
  <2>1. CASE ~AttemptAllowed(session)
    BY <1>3, <1>15, <2>1 DEF BeginContinue, RecordsNoFix, Steps
  <2>2. CASE AttemptAllowed(session)
    <3>1. PICK tools : session' = QueueChecks(CarriedForward(session), tools)
      BY <1>15, <2>2 DEF BeginContinue
    <3>2. SameSession(session, CarriedForward(session))
      BY <1>1, CarriedForwardFacts
    <3>3. SameSession(CarriedForward(session), session')
      BY <3>1, <3>2, QueueChecksFacts DEF SameSession
    <3> QED
      BY <1>15, <2>2, <3>2, <3>3 DEF BeginContinue, RecordsNoFix, SameSession
  <2> QED
    BY <2>1, <2>2
<1>16. CASE WorkerRaises
  BY <1>3, <1>16 DEF WorkerRaises, RecordsNoFix, Steps
<1> QED
  BY <1>4, <1>5, <1>6, <1>7, <1>8, <1>9, <1>10, <1>11, <1>12, <1>13, <1>14, <1>15,
     <1>16 DEF WorkerStep

(* The buttons of a session that rests record no fix. *)
LEMMA ClosingRecordsNoFix ==
    ASSUME Coherent, NotNow \/ StopSession
    PROVE  RecordsNoFix /\ task' = task
<1>1. session \in Session /\ HasSession
  BY RestingView DEF Coherent, TypeOK, NotNow, StopSession
<1>2. SameSession(session, session')
  BY <1>1, DeclinedFacts, StoppedFacts DEF NotNow, StopSession
<1> QED
  BY <1>1, <1>2 DEF RecordsNoFix, SameSession, NotNow, StopSession

(* The other handlers of the UI thread leave the session and the stores     *)
(* alone; a task they set up or take down is not about to run a fix.        *)
LEMMA OtherHandlersRecordNoFix ==
    ASSUME \/ DeliverDone \/ DeliverFailed \/ PressCancel \/ ReviewFix
           \/ BackToDiagnosis \/ ApproveFix \/ TryAgain
           \/ \E i \in DOMAIN dialogs : CancelDialog(i) \/ ApplyFix(i)
           \/ ContinueInvestigation \/ LeavePage \/ ShowPage \/ CloseWindow
           \/ UNCHANGED vars
    PROVE  RecordsNoFix /\ (task' = task \/ task'.at # "execute")
BY NoTaskFacts
   DEF RecordsNoFix, DeliverDone, DeliverFailed, PressCancel, ReviewFix,
       BackToDiagnosis, ApproveFix, TryAgain, Confirm, CancelDialog, ApplyFix, Runs,
       ContinueInvestigation, LeavePage, ShowPage, CloseWindow

(* A new session starts without fixes, as nothing was done for its id. *)
LEMMA StartSessionKeepsChanges ==
    ASSUME Coherent, ChangesRecorded, NEW sid \in SessionIds, NEW setting \in Providers,
           StartSession(sid, setting)
    PROVE  ChangesRecorded'
<1>1. session'.id = sid /\ session'.remediations = <<>> /\ log' = log /\ log[sid] = <<>>
  BY NewSessionFacts DEF StartSession, Fresh
<1>2. task'.at # "execute"
  BY DEF StartSession, Runs
<1>3. AttemptsBounded' /\ HistoryNeverAhead'
  BY DEF StartSession, ChangesRecorded, AttemptsBounded, HistoryNeverAhead
<1> QED
  BY <1>1, <1>2, <1>3 DEF ChangesRecorded

(* A restart forgets the session, not what was done. *)
LEMMA RelaunchKeepsChanges ==
    ASSUME ChangesRecorded, Relaunch
    PROVE  ChangesRecorded'
<1>1. ~HasSession' /\ task'.at # "execute"
  BY NoSessionFacts, NoTaskFacts DEF Relaunch, HasSession
<1>2. AttemptsBounded' /\ HistoryNeverAhead'
  BY DEF Relaunch, ChangesRecorded, AttemptsBounded, HistoryNeverAhead
<1> QED
  BY <1>1, <1>2 DEF ChangesRecorded

(* The fix that runs is the one pending, for a session that has attempts    *)
(* left.                                                                    *)
LEMMA ExecuteFixFacts ==
    ASSUME Coherent, ChangesRecorded, NEW success \in BOOLEAN, ExecuteFix(success)
    PROVE  /\ task \in Task /\ task.kind = "remediate" /\ task.at = "execute"
           /\ task' \in Task /\ task'.at = "verify"
           /\ pending \in Fixes
           /\ session.id \in SessionIds
           /\ Len(log[session.id]) < MaxAttempts
           /\ log' = [log EXCEPT ![session.id] =
                          Append(@, [tool |-> pending, success |-> success])]
<1>1. task \in Task /\ task.kind = "remediate" /\ task.at = "execute"
  BY TaskAtStep DEF ExecuteFix, Coherent, TaskMatchesState, Steps
<1>2. task' \in Task /\ task'.at = "verify"
  BY <1>1, GoesFacts DEF ExecuteFix, Steps
<1>3. pending \in Fixes /\ HasSession
  BY <1>1, WorkingFacts
<1>4. session.id \in SessionIds
  BY <1>3 DEF Coherent, TypeOK, HasSession, Session
<1>5. Len(log[session.id]) < MaxAttempts
  BY <1>1, <1>3 DEF ChangesRecorded, AttemptAllowed
<1> QED
  BY <1>1, <1>2, <1>3, <1>4, <1>5 DEF ExecuteFix

(* The step that runs a fix keeps the record of changes. *)
LEMMA ExecuteFixKeepsChanges ==
    ASSUME Coherent, ChangesRecorded, NEW success \in BOOLEAN, ExecuteFix(success)
    PROVE  ChangesRecorded'
<1> DEFINE outcome == [tool |-> pending, success |-> success]
<1>1. /\ task'.at = "verify"
      /\ pending \in Fixes
      /\ session.id \in SessionIds
      /\ Len(log[session.id]) < MaxAttempts
      /\ log' = [log EXCEPT ![session.id] = Append(@, outcome)]
  BY ExecuteFixFacts
<1>2. outcome \in Remediation
  BY <1>1 DEF Remediation
<1>3. /\ session'.id = session.id
      /\ session'.remediations = Append(session.remediations, outcome)
      /\ history' = history
  BY <1>1, FixRecordedFacts DEF Coherent, TypeOK, ExecuteFix
<1>4. /\ log \in [SessionIds -> Seq(Remediation)]
      /\ history \in [SessionIds -> Session]
  BY DEF Coherent, TypeOK
<1>5. session.remediations = log[session.id]
  BY <1>1, SessionAssumption DEF ChangesRecorded, HasSession
<1> HIDE DEF outcome
<1>6. log'[session.id] = Append(log[session.id], outcome)
  BY <1>1, <1>4
<1>7. \A sid \in SessionIds : sid # session.id => log'[sid] = log[sid]
  BY <1>1, <1>4
<1>8. AttemptsBounded'
  <2> SUFFICES ASSUME NEW sid \in SessionIds
               PROVE  Len(log'[sid]) <= MaxAttempts
    BY DEF AttemptsBounded
  <2>1. CASE sid = session.id
    <3>1. log[sid] \in Seq(Remediation)
      BY <1>4
    <3>2. Len(log'[sid]) = Len(log[sid]) + 1
      BY <1>2, <1>6, <2>1, <3>1
    <3> QED
      BY <1>1, <2>1, <3>1, <3>2, SessionAssumption
  <2>2. CASE sid # session.id
    BY <1>7, <2>2 DEF ChangesRecorded, AttemptsBounded
  <2> QED
    BY <2>1, <2>2
<1>9. HistoryNeverAhead'
  <2> SUFFICES ASSUME NEW sid \in SessionIds
               PROVE  IsPrefix(history[sid].remediations, log'[sid])
    BY <1>3 DEF HistoryNeverAhead
  <2>1. IsPrefix(history[sid].remediations, log[sid])
    BY DEF ChangesRecorded, HistoryNeverAhead
  <2>2. history[sid].remediations \in Seq(Remediation) /\ log[sid] \in Seq(Remediation)
    BY <1>4 DEF Session
  <2>3. CASE sid = session.id
    BY <1>2, <1>6, <2>1, <2>2, <2>3, PrefixFacts
  <2>4. CASE sid # session.id
    BY <1>7, <2>1, <2>4
  <2> QED
    BY <2>3, <2>4
<1> QED
  BY <1>1, <1>3, <1>5, <1>6, <1>8, <1>9 DEF ChangesRecorded

-----------------------------------------------------------------------------
(* The theorems                                                            *)

(* Nothing was done to the PC yet when the program is first started. *)
LEMMA InitChanges == Init => ChangesRecorded
<1> SUFFICES ASSUME Init
             PROVE  ChangesRecorded
  OBVIOUS
<1>1. ~HasSession /\ task.at # "execute"
  BY NoSessionFacts, NoTaskFacts DEF Init, HasSession
<1>2. AttemptsBounded
  BY SessionAssumption DEF Init, AttemptsBounded
<1>3. HistoryNeverAhead
  BY NoSessionFacts DEF Init, NoRow, HistoryNeverAhead, IsPrefix
<1> QED
  BY <1>1, <1>2, <1>3 DEF ChangesRecorded

(* Every step keeps the record of changes. *)
LEMMA NextChanges == Coherent /\ ChangesRecorded /\ [Next]_vars => ChangesRecorded'
<1> SUFFICES ASSUME Coherent, ChangesRecorded, [Next]_vars
             PROVE  ChangesRecorded'
  OBVIOUS
<1>1. task.at = "execute" => AttemptAllowed(session)
  BY DEF ChangesRecorded
<1>2. CASE \E success \in BOOLEAN : ExecuteFix(success)
  BY <1>2, ExecuteFixKeepsChanges
<1>3. CASE (WorkerStep \/ WorkerRaises) /\ ~ \E success \in BOOLEAN : ExecuteFix(success)
  BY <1>3, WorkerRecordsNoFix, RecordsNoFixKeepsChanges
<1>4. CASE NotNow \/ StopSession
  BY <1>1, <1>4, ClosingRecordsNoFix, RecordsNoFixKeepsChanges
<1>5. CASE \E sid \in SessionIds, setting \in Providers : StartSession(sid, setting)
  BY <1>5, StartSessionKeepsChanges
<1>6. CASE Relaunch
  BY <1>6, RelaunchKeepsChanges
<1>7. CASE \/ DeliverDone \/ DeliverFailed \/ PressCancel \/ ReviewFix
           \/ BackToDiagnosis \/ ApproveFix \/ TryAgain
           \/ \E i \in DOMAIN dialogs : CancelDialog(i) \/ ApplyFix(i)
           \/ ContinueInvestigation \/ LeavePage \/ ShowPage \/ CloseWindow
           \/ UNCHANGED vars
  BY <1>1, <1>7, OtherHandlersRecordNoFix, RecordsNoFixKeepsChanges
<1> QED
  BY <1>2, <1>3, <1>4, <1>5, <1>6, <1>7 DEF Next

(* The fixes a session holds are those done to the PC for it, and the       *)
(* history claims none that was not made.                                   *)
THEOREM AlwaysRecorded == Spec => [](Coherent /\ ChangesRecorded)
<1> QED
  BY AlwaysCoherent, InitChanges, NextChanges, PTL DEF Spec

(* Whatever dialogs are left open, writes fail or restarts happen, a        *)
(* session changes the PC at most MaxAttempts times.                        *)
THEOREM AttemptsAreBounded == Spec => []AttemptsBounded
<1>1. ChangesRecorded => AttemptsBounded
  BY DEF ChangesRecorded
<1> QED
  BY <1>1, AlwaysRecorded, PTL

(* What History says was done is always the beginning of what was done.     *)
THEOREM HistoryIsNeverAhead == Spec => []HistoryNeverAhead
<1>1. ChangesRecorded => HistoryNeverAhead
  BY DEF ChangesRecorded
<1> QED
  BY <1>1, AlwaysRecorded, PTL

-----------------------------------------------------------------------------
(* Dialogs and the fixes they name                                         *)

(* What is left of a sequence without one of its elements. *)
LEMMA RemoveAtElements ==
    ASSUME NEW S, NEW s \in Seq(S), NEW i \in DOMAIN s
    PROVE  /\ RemoveAt(s, i) \in Seq(S)
           /\ Len(RemoveAt(s, i)) = Len(s) - 1
           /\ \A j \in 1 .. Len(s) - 1 :
                RemoveAt(s, i)[j] = IF j < i THEN s[j] ELSE s[j + 1]
<1>1. i \in 1 .. Len(s) /\ Len(s) \in Nat
  OBVIOUS
<1> DEFINE front == SubSeq(s, 1, i - 1)
           back == SubSeq(s, i + 1, Len(s))
<1>2. front \in Seq(S) /\ back \in Seq(S)
  BY <1>1
<1>3. Len(front) = i - 1 /\ \A j \in 1 .. i - 1 : front[j] = s[j]
  BY <1>1
<1>4. Len(back) = Len(s) - i /\ \A j \in 1 .. Len(s) - i : back[j] = s[j + i]
  BY <1>1
<1>5. RemoveAt(s, i) = front \o back
  BY DEF RemoveAt
<1> HIDE DEF front, back
<1>6. /\ front \o back \in Seq(S)
      /\ Len(front \o back) = Len(front) + Len(back)
      /\ \A j \in 1 .. Len(front) + Len(back) :
            (front \o back)[j] = IF j <= Len(front) THEN front[j]
                                 ELSE back[j - Len(front)]
  BY <1>2
<1>7. ASSUME NEW j \in 1 .. Len(s) - 1
      PROVE  (front \o back)[j] = IF j < i THEN s[j] ELSE s[j + 1]
  <2>1. j \in 1 .. Len(front) + Len(back) /\ j \in Int /\ i \in Int
    BY <1>1, <1>3, <1>4
  <2>2. CASE j < i
    <3>1. j <= Len(front) /\ j \in 1 .. i - 1
      BY <1>1, <1>3, <2>2
    <3> QED
      BY <1>3, <1>6, <2>1, <2>2, <3>1
  <2>3. CASE j >= i
    <3>1. j - (i - 1) \in 1 .. Len(s) - i
      BY <1>1, <2>3
    <3>2. (front \o back)[j] = back[j - (i - 1)]
      BY <1>3, <1>6, <2>1, <2>3
    <3>3. back[j - (i - 1)] = s[(j - (i - 1)) + i]
      BY <1>4, <3>1
    <3>4. (j - (i - 1)) + i = j + 1 /\ ~(j < i)
      BY <2>1, <2>3
    <3> QED
      BY <3>2, <3>3, <3>4
  <2> QED
    BY <2>1, <2>2, <2>3
<1> QED
  BY <1>1, <1>3, <1>4, <1>5, <1>6, <1>7, SMTT(30)

(* The offers of a dialog more. *)
LEMMA OffersOfAppend ==
    ASSUME dialogs \in Seq(Dialog), NEW d \in Dialog, dialogs' = Append(dialogs, d)
    PROVE  Offers' = Append(Offers, d.fix)
BY DEF Offers

(* The offers of a dialog less. *)
LEMMA OffersOfRemoveAt ==
    ASSUME dialogs \in Seq(Dialog), NEW i \in DOMAIN dialogs,
           dialogs' = RemoveAt(dialogs, i)
    PROVE  /\ Offers' = RemoveAt(Offers, i)
           /\ Offers[i] = dialogs[i].fix
           /\ i \in DOMAIN Offers
<1> DEFINE Named == {d.fix : d \in Dialog}
<1>1. Offers \in Seq(Named) /\ DOMAIN Offers = DOMAIN dialogs /\ Len(Offers) = Len(dialogs)
  <2>1. DOMAIN dialogs = 1 .. Len(dialogs) /\ Len(dialogs) \in Nat
    OBVIOUS
  <2>2. \A j \in 1 .. Len(dialogs) : dialogs[j] \in Dialog
    BY <2>1
  <2>3. Offers = [j \in 1 .. Len(dialogs) |-> dialogs[j].fix]
    BY <2>1 DEF Offers
  <2>4. \A j \in 1 .. Len(dialogs) : dialogs[j].fix \in Named
    BY <2>2
  <2> HIDE DEF Named
  <2>5. Offers \in [1 .. Len(dialogs) -> Named]
    BY <2>3, <2>4
  <2> QED
    BY <2>1, <2>5
<1> HIDE DEF Named
<1>2. /\ RemoveAt(Offers, i) \in Seq(Named)
      /\ Len(RemoveAt(Offers, i)) = Len(dialogs) - 1
      /\ \A j \in 1 .. Len(dialogs) - 1 :
            RemoveAt(Offers, i)[j] = IF j < i THEN Offers[j] ELSE Offers[j + 1]
  BY <1>1, RemoveAtElements
<1>3. /\ dialogs' \in Seq(Dialog)
      /\ Len(dialogs') = Len(dialogs) - 1
      /\ \A j \in 1 .. Len(dialogs) - 1 :
            dialogs'[j] = IF j < i THEN dialogs[j] ELSE dialogs[j + 1]
  BY RemoveAtElements
<1>4. i \in 1 .. Len(dialogs) /\ Len(dialogs) \in Nat
  OBVIOUS
<1>5. ASSUME NEW j \in 1 .. Len(dialogs) - 1
      PROVE  dialogs'[j].fix = RemoveAt(Offers, i)[j]
  <2>1. j \in DOMAIN dialogs /\ j + 1 \in DOMAIN dialogs
    BY <1>4
  <2>2. Offers[j] = dialogs[j].fix /\ Offers[j + 1] = dialogs[j + 1].fix
    BY <2>1 DEF Offers
  <2> QED
    BY <1>2, <1>3, <2>2
<1>6. DOMAIN dialogs' = 1 .. Len(dialogs) - 1
      /\ DOMAIN RemoveAt(Offers, i) = 1 .. Len(dialogs) - 1
  BY <1>2, <1>3
<1>7. RemoveAt(Offers, i) = [j \in DOMAIN RemoveAt(Offers, i) |-> RemoveAt(Offers, i)[j]]
  BY <1>2
<1>8. Offers' = [j \in DOMAIN dialogs' |-> dialogs'[j].fix]
  BY DEF Offers
<1>9. Offers' = RemoveAt(Offers, i)
  BY <1>5, <1>6, <1>7, <1>8
<1> QED
  BY <1>1, <1>9 DEF Offers

-----------------------------------------------------------------------------
(* Every step is one of FixApproval's, or none                             *)

AbstractStep == [Approval!Next]_(Approval!vars)

(* A step that opens and closes no dialog and applies nothing: the consent  *)
(* stays, or lapses.                                                        *)
LEMMA LapseOrStutter ==
    ASSUME UNCHANGED <<dialogs, log>>, Consent' \in {Consent, NoFix}
    PROVE  AbstractStep
<1>1. Offers' = Offers
  BY DEF Offers
<1>2. CASE Consent' = Consent
  BY <1>1, <1>2 DEF AbstractStep, Approval!vars
<1>3. CASE Consent' = NoFix
  <2>1. Approval!Lapse
    BY <1>1, <1>3 DEF Approval!Lapse
  <2> QED
    BY <2>1 DEF AbstractStep, Approval!Next
<1> QED
  BY <1>2, <1>3

(* The step that runs the fix uses the consent up. *)
LEMMA ExecuteFixRefines ==
    ASSUME Coherent, ChangesRecorded, NEW success \in BOOLEAN, ExecuteFix(success)
    PROVE  AbstractStep
<1>1. /\ task.kind = "remediate" /\ task.at = "execute"
      /\ task'.at = "verify"
      /\ pending \in Fixes
      /\ session.id \in SessionIds
      /\ Len(log[session.id]) < MaxAttempts
      /\ log' = [log EXCEPT ![session.id] =
                     Append(@, [tool |-> pending, success |-> success])]
  BY ExecuteFixFacts
<1>2. Consent = pending /\ Consent # NoFix /\ Consent' = NoFix
  BY <1>1, SessionAssumption DEF Consent
<1>3. Offers' = Offers
  BY DEF ExecuteFix, Offers
<1>4. Approval!Apply(session.id, success)
  BY <1>1, <1>2, <1>3 DEF Approval!Apply
<1> QED
  BY <1>1, <1>4 DEF AbstractStep, Approval!Next

(* The other steps of the worker keep the consent or let it lapse. *)
LEMMA WorkerStepRefines ==
    ASSUME Coherent, WorkerStep \/ WorkerRaises,
           ~ \E success \in BOOLEAN : ExecuteFix(success)
    PROVE  AbstractStep
<1>1. task \in Task
  BY TaskAtStep
     DEF WorkerStep, WorkerRaises, BeginDiagnosis, PlanChecks, StartCheck,
         FinishCheck, CancelSeen, ChecksDone, FollowUp, Analyze, Conclude,
         BeginRemediation, ExecuteFix, VerifyFix, BeginContinue, Steps, Coherent,
         TypeOK, Working
<1>2. \A step \in Steps : Goes(step) => task'.at = step /\ task'.kind = task.kind
  BY <1>1, GoesFacts
<1>3. log' = log
  BY WorkerRecordsNoFix DEF RecordsNoFix
<1>4. UNCHANGED <<dialogs, pending>>
  BY DEF WorkerStep, WorkerRaises, BeginDiagnosis, PlanChecks, StartCheck,
     FinishCheck, CancelSeen, ChecksDone, FollowUp, Analyze, Conclude,
     BeginRemediation, ExecuteFix, VerifyFix, BeginContinue
<1>5. Consent' \in {Consent, NoFix}
  <2>1. CASE BeginRemediation
    <3>1. task.kind = "remediate" /\ task.at = "begin"
      BY <2>1 DEF BeginRemediation
    <3>2. Consent = pending
      BY <3>1 DEF Consent
    <3> QED
      BY <1>4, <3>2 DEF Consent
  <2>2. CASE ~BeginRemediation
    <3>1. task'.at \notin {"begin", "execute"}
      <4>1. CASE \E understood, quick \in BOOLEAN : PlanChecks(understood, quick)
        BY <1>1, <4>1 DEF PlanChecks, Task
      <4>2. CASE FollowUp
        BY <1>1, <4>2 DEF FollowUp, Task
      <4>3. CASE BeginContinue
        <5>1. CASE AttemptAllowed(session)
          BY <1>1, <4>3, <5>1 DEF BeginContinue, Task
        <5>2. CASE ~AttemptAllowed(session)
          BY <1>2, <4>3, <5>2 DEF BeginContinue, Steps
        <5> QED
          BY <5>1, <5>2
      <4>4. CASE \/ BeginDiagnosis \/ CancelSeen \/ ChecksDone \/ Analyze
                 \/ VerifyFix \/ WorkerRaises
        BY <1>2, <4>4 DEF BeginDiagnosis, CancelSeen, ChecksDone, Analyze,
           VerifyFix, WorkerRaises, Steps
      <4>5. CASE \E t \in Tools : StartCheck(t) \/ \E ok \in BOOLEAN : FinishCheck(t, ok)
        BY <1>2, <4>5 DEF StartCheck, FinishCheck, Steps
      <4>6. CASE \E b \in BOOLEAN : Conclude(b)
        BY <1>2, <4>6 DEF Conclude, Steps
      <4> QED
        BY <2>2, <4>1, <4>2, <4>3, <4>4, <4>5, <4>6 DEF WorkerStep
    <3> QED
      BY <3>1 DEF Consent
  <2> QED
    BY <2>1, <2>2
<1> QED
  BY <1>3, <1>4, <1>5, LapseOrStutter

(* A dialog that opens makes an offer. *)
LEMMA ConfirmRefines ==
    ASSUME Coherent, NEW fix \in Fixes, session.id \in SessionIds, Confirm(fix)
    PROVE  AbstractStep
<1> DEFINE d == [fix |-> fix, sid |-> session.id]
<1>1. d \in Dialog /\ d.fix = fix
  BY DEF Dialog
<1>2. dialogs' = Append(dialogs, d) /\ dialogs \in Seq(Dialog)
  BY DEF Confirm, Coherent, TypeOK
<1> HIDE DEF d
<1>3. Offers' = Append(Offers, fix)
  BY <1>1, <1>2, OffersOfAppend
<1>4. Consent' = Consent /\ log' = log
  BY DEF Confirm, Consent
<1>5. Approval!Offer(fix)
  BY <1>3, <1>4 DEF Approval!Offer
<1> QED
  BY <1>5 DEF AbstractStep, Approval!Next

(* "Approve fix" and "Try again" open such a dialog. *)
LEMMA ApproveFixRefines ==
    ASSUME Coherent, ApproveFix \/ TryAgain
    PROVE  AbstractStep
<1>1. CASE ApproveFix
  <2>1. Head(session.proposals) \in Fixes
    BY <1>1, HeadIsFix DEF ApproveFix, Coherent, ViewMatchesState
  <2> QED
    BY <1>1, <2>1, RestingView, ConfirmRefines DEF ApproveFix
<1>2. CASE TryAgain
  <2>1. pending \in Fixes /\ pending # NoFix
    BY <1>2, SessionAssumption DEF TryAgain, Coherent, ViewMatchesState, SessionInUse
  <2> QED
    BY <1>2, <2>1, RestingView, ConfirmRefines DEF TryAgain
<1> QED
  BY <1>1, <1>2

(* A dialog that is cancelled withdraws its offer. *)
LEMMA CancelDialogRefines ==
    ASSUME Coherent, NEW i \in DOMAIN dialogs, CancelDialog(i)
    PROVE  AbstractStep
<1>1. Offers' = RemoveAt(Offers, i) /\ i \in DOMAIN Offers
  BY OffersOfRemoveAt DEF CancelDialog, Coherent, TypeOK
<1>2. Consent' = Consent /\ log' = log
  BY DEF CancelDialog, Consent
<1>3. Approval!Withdraw(i)
  BY <1>1, <1>2 DEF Approval!Withdraw, Approval!RemoveAt, RemoveAt
<1> QED
  BY <1>1, <1>3 DEF AbstractStep, Approval!Next

(* "Apply fix" accepts the offer, or withdraws it when the program is busy. *)
LEMMA ApplyFixRefines ==
    ASSUME Coherent, NEW i \in DOMAIN dialogs, ApplyFix(i)
    PROVE  AbstractStep
<1>1. /\ Offers' = RemoveAt(Offers, i)
      /\ Offers[i] = dialogs[i].fix
      /\ i \in DOMAIN Offers
  BY OffersOfRemoveAt DEF ApplyFix, Coherent, TypeOK
<1>2. log' = log
  BY DEF ApplyFix
<1>3. CASE HasSession /\ ~busy
  <2>1. task = NoTask
    BY <1>3, WorkingFacts DEF Coherent, TypeOK
  <2>2. Consent = NoFix
    BY <2>1, NoTaskFacts DEF Consent
  <2>3. Consent' = Offers[i]
    BY <1>1, <1>3 DEF ApplyFix, Runs, Consent
  <2>4. Approval!Accept(i)
    BY <1>1, <1>2, <2>2, <2>3 DEF Approval!Accept, Approval!RemoveAt, RemoveAt
  <2> QED
    BY <1>1, <2>4 DEF AbstractStep, Approval!Next
<1>4. CASE ~(HasSession /\ ~busy)
  <2>1. Consent' = Consent
    BY <1>4 DEF ApplyFix, Consent
  <2>2. Approval!Withdraw(i)
    BY <1>1, <1>2, <2>1 DEF Approval!Withdraw, Approval!RemoveAt, RemoveAt
  <2> QED
    BY <1>1, <2>2 DEF AbstractStep, Approval!Next
<1> QED
  BY <1>3, <1>4

(* A restart closes the dialogs and forgets the consent. *)
LEMMA RelaunchRefines ==
    ASSUME Relaunch
    PROVE  AbstractStep
<1>1. Offers' = <<>>
  BY DEF Relaunch, Offers
<1>2. Consent' = NoFix /\ log' = log
  BY NoTaskFacts DEF Relaunch, Consent
<1>3. Approval!Restart
  BY <1>1, <1>2 DEF Approval!Restart
<1> QED
  BY <1>3 DEF AbstractStep, Approval!Next

(* The handlers that touch no dialog keep the consent, or set up or take    *)
(* down a task that holds none.                                             *)
LEMMA OtherHandlersRefine ==
    ASSUME \/ DeliverDone \/ DeliverFailed \/ PressCancel \/ NotNow \/ StopSession
           \/ \E sid \in SessionIds, setting \in Providers : StartSession(sid, setting)
           \/ ReviewFix \/ BackToDiagnosis \/ ContinueInvestigation
           \/ LeavePage \/ ShowPage \/ CloseWindow \/ UNCHANGED vars
    PROVE  AbstractStep
<1>1. UNCHANGED <<dialogs, log>>
  BY DEF DeliverDone, DeliverFailed, PressCancel, NotNow, StopSession, StartSession,
     ReviewFix, BackToDiagnosis, ContinueInvestigation, LeavePage, ShowPage, CloseWindow
<1>2. \/ UNCHANGED <<task, pending>>
      \/ task'.kind # "remediate"
  BY NoTaskFacts
     DEF DeliverDone, DeliverFailed, PressCancel, NotNow, StopSession, StartSession,
     ReviewFix, BackToDiagnosis, ContinueInvestigation, LeavePage, ShowPage, CloseWindow,
     Runs
<1>3. Consent' \in {Consent, NoFix}
  BY <1>2 DEF Consent
<1> QED
  BY <1>1, <1>3, LapseOrStutter

-----------------------------------------------------------------------------
(* The theorem                                                             *)

(* The program starts as FixApproval does. *)
LEMMA InitRefines == Init => Approval!Init
<1> SUFFICES ASSUME Init
             PROVE  Approval!Init
  OBVIOUS
<1>1. Offers = <<>>
  BY DEF Init, Offers
<1>2. Consent = NoFix
  BY NoTaskFacts DEF Init, Consent
<1> QED
  BY <1>1, <1>2 DEF Init, Approval!Init

(* Every step of the program is one of FixApproval's, or none. *)
LEMMA NextRefines == Coherent /\ ChangesRecorded /\ [Next]_vars => AbstractStep
<1> SUFFICES ASSUME Coherent, ChangesRecorded, [Next]_vars
             PROVE  AbstractStep
  OBVIOUS
<1>1. CASE \E success \in BOOLEAN : ExecuteFix(success)
  BY <1>1, ExecuteFixRefines
<1>2. CASE (WorkerStep \/ WorkerRaises) /\ ~ \E success \in BOOLEAN : ExecuteFix(success)
  BY <1>2, WorkerStepRefines
<1>3. CASE ApproveFix \/ TryAgain
  BY <1>3, ApproveFixRefines
<1>4. CASE \E i \in DOMAIN dialogs : CancelDialog(i)
  BY <1>4, CancelDialogRefines
<1>5. CASE \E i \in DOMAIN dialogs : ApplyFix(i)
  BY <1>5, ApplyFixRefines
<1>6. CASE Relaunch
  BY <1>6, RelaunchRefines
<1>7. CASE \/ DeliverDone \/ DeliverFailed \/ PressCancel \/ NotNow \/ StopSession
           \/ \E sid \in SessionIds, setting \in Providers : StartSession(sid, setting)
           \/ ReviewFix \/ BackToDiagnosis \/ ContinueInvestigation
           \/ LeavePage \/ ShowPage \/ CloseWindow \/ UNCHANGED vars
  BY <1>7, OtherHandlersRefine
<1> QED
  BY <1>1, <1>2, <1>3, <1>4, <1>5, <1>6, <1>7 DEF Next

(* The desktop application keeps the promise of FixApproval: no change to   *)
(* the PC without the user's acceptance of that fix in an open dialog, one  *)
(* change for each acceptance, and a bounded number for a session.          *)
THEOREM KeepsPromise == Spec => ImplementsApproval
<1>1. Coherent /\ ChangesRecorded /\ [Next]_vars => [Approval!Next]_(Approval!vars)
  BY NextRefines DEF AbstractStep
<1> QED
  BY <1>1, InitRefines, AlwaysRecorded, PTL DEF Spec, ImplementsApproval, Approval!Spec
=================================================================================
