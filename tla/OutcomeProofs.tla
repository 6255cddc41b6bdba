------------------------------ MODULE OutcomeProofs ------------------------------
(***************************************************************************)
(* What a session comes to: the fix that is on its way, the verdict, what  *)
(* rests on the screen, what is recorded and saved.  For programs whose    *)
(* page shortcuts are not used under an open dialog; the theorems name     *)
(* what else they assume of the environment.                               *)
(***************************************************************************)
EXTENDS TroubleshootProofs

USE DEF vars, control, ai, ui, store

-----------------------------------------------------------------------------
(* The invariants                                                          *)

(* What the user may decide on: a fix that was not applied in this session. *)
NotApplied(s, fix) ==
    \A i \in DOMAIN s.remediations :
        s.remediations[i].success => s.remediations[i].tool # fix

Undecided(s) == s.result \in {"in_progress", "not_resolved"}

(* Without page shortcuts an open dialog keeps everything else away, and    *)
(* what it offers is still an open question of the session on the page.     *)
OneDialog ==
    \/ dialogs = <<>>
    \/ /\ Len(dialogs) = 1 /\ focus = "dialog"
       /\ task = NoTask /\ state \in {"diagnosed", "result"}
       /\ NotApplied(session, dialogs[1].fix) /\ Undecided(session)

(* What the agent leaves: its diagnosis, and its verification of a fix.     *)
DiagnosisLeft(s) ==
    /\ \A k \in DOMAIN s.proposals : NotApplied(s, s.proposals[k])
    /\ s.proposals # <<>> => s.result = "in_progress"

Attempted(s, fix) ==
    /\ s.remediations # <<>> /\ Last(s.remediations).tool = fix
    /\ ~Last(s.remediations).success => NotApplied(s, fix)

VerificationLeft(s, fix) ==
    /\ Attempted(s, fix)
    /\ ~LastImproved(s) => s.result = "not_resolved"

Investigated ==
    task.kind \in {"diagnose", "continue"} /\ task.at = "done" /\ session.status # "cancelled"

Remediated == task.kind = "remediate" /\ task.at = "done"

(* What the session holds at each step on the way of a fix. *)
FixOnItsWay ==
    /\ task.kind = "remediate" =>
           task.at \in {"begin", "execute", "verify", "done", "failed"}
    /\ Investigated \/ state = "diagnosed" => DiagnosisLeft(session)
    /\ task.kind = "remediate" /\ task.at \in {"begin", "execute"} =>
           NotApplied(session, pending)
    /\ task.at = "verify" => Attempted(session, pending)
    /\ Remediated \/ state = "result" => VerificationLeft(session, pending)
    /\ Working /\ task.at # "done" => Undecided(session)
    /\ NoFixAppliedTwice

(* Each fix of the session was verified, and one that helped was applied.   *)
Balanced(s) ==
    /\ Len(s.verifications) = Len(s.remediations)
    /\ LastImproved(s) => Last(s.remediations).success

Verdict ==
    /\ task.at \notin {"verify", "failed"} /\ state # "error" => Balanced(session)
    /\ task.at = "verify" => Len(session.remediations) = Len(session.verifications) + 1
    /\ session.result = "resolved" =>
           LastImproved(session) /\ Last(session.remediations).success
    /\ session.result = "no_issue" => session.remediations = <<>>

(* The checks under way. *)
ChecksOpen(s) == ChecksIn(s, "queued") \cup ChecksIn(s, "running")

ChecksInOrder ==
    /\ task.at = "checks" => ChecksIn(session, "running") = {}
    /\ task.at = "checking" => \E t \in Tools : ChecksIn(session, "running") = {t}
    /\ task.at \notin {"checks", "checking", "failed"} /\ state # "error" =>
           ChecksOpen(session) = {}

(* A session the user can make sense of, but for its checks.                *)
Settled(s) ==
    /\ s.status \notin {"created", "diagnosing", "remediating", "verifying"}
    /\ s.result = "in_progress" => s.proposals # <<>>
    /\ s.result \in {"resolved", "no_issue", "stopped"} => s.finished_at

AtRest == HasSession /\ (task = NoTask \/ task.at = "done") /\ state # "error"

SettledAtRest == AtRest => Settled(session)

(* What a cloud AI was sent is recorded with the diagnosis. *)
Accounted ==
    /\ transmission = sent
    /\ session.cloud \subseteq sent
    /\ Investigated \/ task.kind = "remediate" \/ state \in {"diagnosed", "result"} =>
           session.cloud = sent

(* What is saved. *)
Saved ==
    /\ AtRest => history[session.id] = session
    /\ HasSession /\ task.at \notin {"verify", "failed"} /\ state # "error" =>
           history[session.id].remediations = session.remediations
    /\ HistoryMissesAtMostOne

(* A declined session is out of reach. *)
DeclinedIsOver ==
    session.approval_status = "declined" =>
        HasSession /\ state = "idle" /\ task = NoTask /\ dialogs = <<>>

(* The bounds are kept before they are checked.                             *)
RoomForChecks(s) ==
    /\ ChecksOpen(s) \cap s.diagnostics = {}
    /\ ChecksOpen(s) # {} => Cardinality(s.diagnostics \cup ChecksOpen(s)) <= MaxSteps

WithinBounds ==
    /\ task.at # "failed" /\ state # "error"
    /\ task.at = "plan" \/ (task.kind = "diagnose" /\ task.at = "begin") =>
           session.diagnostics = {}
    /\ task.at \in {"checks", "checking"} => RoomForChecks(session)
    /\ \/ task.kind \in {"diagnose", "continue"} \/ state = "diagnosed" \/ dialogs # <<>>
       \/ task.kind = "remediate" /\ task.at = "begin"
       => AttemptAllowed(session)

-----------------------------------------------------------------------------
(* What the operators of Session leave alone                               *)

(* The checks of a session are no part of its record of what was decided,   *)
(* done and sent.                                                           *)
SameRecord(s, r) ==
    /\ r.id = s.id /\ r.result = s.result /\ r.approval_status = s.approval_status
    /\ r.proposals = s.proposals /\ r.remediations = s.remediations
    /\ r.verifications = s.verifications /\ r.cloud = s.cloud

(* Planning and running checks changes checks only. *)
LEMMA ChecksKeepRecord ==
    ASSUME NEW s \in Session, NEW tools, NEW t, NEW ok
    PROVE  /\ SameRecord(s, Diagnosing(s))
           /\ SameRecord(s, QueueChecks(s, tools))
           /\ SameRecord(s, CheckStarted(s, t))
           /\ SameRecord(s, CheckFinished(s, t, ok))
           /\ SameRecord(s, QueueChecks(CarriedForward(s), tools))
BY DEF SameRecord, Diagnosing, QueueChecks, CheckStarted, CheckFinished, CarriedForward,
       Session

(* A sequence of one element, with that element removed. *)
LEMMA RemoveOnly ==
    ASSUME NEW S, NEW s \in Seq(S), Len(s) = 1, NEW i \in DOMAIN s
    PROVE  i = 1 /\ RemoveAt(s, i) = <<>>
<1>1. i = 1
  OBVIOUS
<1>2. SubSeq(s, 1, 0) = <<>> /\ SubSeq(s, 2, 1) = <<>>
  OBVIOUS
<1>3. RemoveAt(s, i) = <<>> \o <<>>
  BY <1>1, <1>2 DEF RemoveAt
<1> QED
  BY <1>1, <1>3

(* The last of a sequence with an element appended. *)
LEMMA LastOfAppend ==
    ASSUME NEW S, NEW s \in Seq(S), NEW e \in S
    PROVE  /\ Append(s, e) \in Seq(S)
           /\ Append(s, e) # <<>>
           /\ Last(Append(s, e)) = e
           /\ Len(Append(s, e)) = Len(s) + 1
           /\ \A i \in 1 .. Len(s) : Append(s, e)[i] = s[i]
           /\ Append(s, e)[Len(s) + 1] = e
           /\ DOMAIN Append(s, e) = 1 .. Len(s) + 1
BY DEF Last

-----------------------------------------------------------------------------
(* The fix on its way and the verdict: the steps of the worker             *)

(* What is proved to hold in every state. *)
Core == OneDialog /\ FixOnItsWay /\ Verdict

(* While a task runs no dialog is open, and its state is not one of rest. *)
LEMMA WorkingCore ==
    ASSUME Coherent, Core, task \in Task
    PROVE  /\ dialogs = <<>>
           /\ state \in {"investigating", "applying"}
           /\ HasSession
           /\ task # NoTask /\ Working
<1>1. task # NoTask /\ Working
  BY NoTaskFacts DEF Working
<1> QED
  BY <1>1, WorkingFacts DEF Core, OneDialog, busy

(* A step of a task that is not one of its decisions. *)
LEMMA ProgressKeepsCore ==
    ASSUME Coherent, Core, task \in Task, task' \in Task, task'.kind = task.kind,
           UNCHANGED <<control, dialogs, focus, log>>,
           session'.result = session.result,
           session'.remediations = session.remediations,
           session'.verifications = session.verifications,
           task.at \notin {"done", "failed"},
           task'.at \notin {"begin", "execute", "verify", "done"},
           task'.at = "failed" \/ task.kind # "remediate"
    PROVE  Core'
<1>1. /\ dialogs = <<>>
      /\ state \in {"investigating", "applying"}
      /\ task # NoTask /\ Working
  BY WorkingCore
<1>2. OneDialog'
  BY <1>1 DEF OneDialog
<1>3. Undecided(session)
  BY <1>1 DEF Core, FixOnItsWay
<1>4. FixOnItsWay'
  <2>1. ~Investigated' /\ ~Remediated'
    BY DEF Investigated, Remediated
  <2>2. NoFixAppliedTwice'
    BY DEF Core, FixOnItsWay, NoFixAppliedTwice
  <2> QED
    BY <1>1, <1>3, <2>1, <2>2 DEF FixOnItsWay, Undecided
<1>5. Verdict'
  <2>1. CASE task'.at = "failed"
    BY <1>3, <2>1 DEF Verdict, Undecided
  <2>2. CASE task'.at # "failed" /\ task.kind # "remediate"
    <3>1. task.at # "verify"
      BY <2>2 DEF Coherent, TaskMatchesState
    <3>2. task.at # "failed" => Balanced(session)
      BY <1>1, <3>1 DEF Core, Verdict
    <3> QED
      BY <1>1, <1>3, <2>2, <3>1, <3>2 DEF Verdict, Undecided, Balanced, LastImproved
  <2> QED
    BY <2>1, <2>2
<1> QED
  BY <1>2, <1>4, <1>5 DEF Core

(* Planning, checks and follow-ups, of a diagnosis or of one carried on. *)
LEMMA InvestigationStepCore ==
    ASSUME Coherent, Core,
           \/ BeginDiagnosis
           \/ \E understood, quick \in BOOLEAN : PlanChecks(understood, quick)
           \/ \E t \in Tools : StartCheck(t)
           \/ \E t \in Tools, ok \in BOOLEAN : FinishCheck(t, ok)
           \/ ChecksDone \/ FollowUp \/ Analyze \/ BeginContinue \/ WorkerRaises
    PROVE  Core'
<1>1. session \in Session
  BY DEF Coherent, TypeOK
<1>2. task \in Task /\ task.kind \in Kinds
  BY TaskAtStep
     DEF WorkerRaises, BeginDiagnosis, PlanChecks, StartCheck, FinishCheck, ChecksDone,
         FollowUp, Analyze, BeginContinue, Steps, Coherent, TypeOK, Working, Task
<1>3. task.at # "done" /\ task.at # "failed"
  BY DEF WorkerRaises, BeginDiagnosis, PlanChecks, StartCheck, FinishCheck, ChecksDone,
         FollowUp, Analyze, BeginContinue
<1>4. \A step \in Steps : Goes(step) =>
          task' \in Task /\ task'.kind = task.kind /\ task'.at = step
  BY <1>2, GoesFacts
<1>5. task'.at = "failed" \/ task.kind # "remediate"
  <2>1. CASE WorkerRaises
    BY <1>4, <2>1 DEF WorkerRaises, Steps
  <2>2. CASE ~WorkerRaises
    BY <2>2 DEF BeginDiagnosis, PlanChecks, StartCheck, FinishCheck, ChecksDone,
           FollowUp, Analyze, BeginContinue, Core, FixOnItsWay
  <2> QED
    BY <2>1, <2>2
<1>6. CASE BeginDiagnosis
  BY <1>1, <1>2, <1>3, <1>5, <1>4, <1>6, ChecksKeepRecord, ProgressKeepsCore
     DEF BeginDiagnosis, Steps, SameRecord
<1>7. CASE \E understood, quick \in BOOLEAN : PlanChecks(understood, quick)
  <2>1. PICK understood \in BOOLEAN, quick \in BOOLEAN : PlanChecks(understood, quick)
    BY <1>7
  <2>2. PICK r \in 0 .. MaxRounds : task' = [task EXCEPT !.at = "checks", !.rounds = r]
    <3>1. 1 \in 0 .. MaxRounds /\ MaxRounds \in 0 .. MaxRounds
      BY TroubleshootAssumption
    <3> QED
      BY <2>1, <3>1 DEF PlanChecks
  <2>3. task' \in Task /\ task'.kind = task.kind /\ task'.at = "checks"
    BY <1>2, <2>2 DEF Task, Steps
  <2>4. SameRecord(session, session')
    BY <1>1, <2>1, ChecksKeepRecord DEF PlanChecks
  <2> QED
    BY <1>2, <1>3, <1>5, <2>1, <2>3, <2>4, ProgressKeepsCore
       DEF PlanChecks, SameRecord
<1>8. CASE \E t \in Tools : StartCheck(t)
  <2>1. SameRecord(session, session')
    BY <1>1, <1>8, ChecksKeepRecord DEF StartCheck, SameRecord
  <2>2. task' \in Task /\ task'.kind = task.kind /\ task'.at \in {"checking", "failed"}
    BY <1>4, <1>8 DEF StartCheck, Steps
  <2> QED
    BY <1>2, <1>3, <1>5, <1>8, <2>1, <2>2, ProgressKeepsCore
       DEF StartCheck, SameRecord
<1>9. CASE \E t \in Tools, ok \in BOOLEAN : FinishCheck(t, ok)
  BY <1>1, <1>2, <1>3, <1>5, <1>4, <1>9, ChecksKeepRecord, ProgressKeepsCore
     DEF FinishCheck, Steps, SameRecord
<1>10. CASE ChecksDone \/ Analyze
  BY <1>2, <1>3, <1>5, <1>4, <1>10, ProgressKeepsCore DEF ChecksDone, Analyze, Steps
<1>11. CASE FollowUp
  <2>1. PICK tools : /\ session' = QueueChecks(session, tools)
                     /\ task' = IF tools = {} THEN [task EXCEPT !.at = "analyze"]
                                ELSE [task EXCEPT !.at = "checks", !.rounds = @ - 1]
    BY <1>11 DEF FollowUp
  <2>2. task' \in Task
    <3>1. task.rounds - 1 \in 0 .. MaxRounds
      BY <1>2, <1>11, TroubleshootAssumption DEF Coherent, TaskMatchesState, FollowUp, Task
    <3> QED
      BY <1>2, <2>1, <3>1 DEF Task, Steps
  <2>3. task'.kind = task.kind /\ task'.at \in {"analyze", "checks"}
    BY <1>2, <2>1 DEF Task
  <2>4. SameRecord(session, session')
    BY <1>1, <2>1, ChecksKeepRecord
  <2> QED
    BY <1>2, <1>3, <1>5, <1>11, <2>2, <2>3, <2>4, ProgressKeepsCore
       DEF FollowUp, SameRecord
<1>12. CASE BeginContinue
  <2>1. task' \in Task /\ task'.kind = task.kind /\ task'.at \in {"failed", "checks"}
    <3>1. CASE ~AttemptAllowed(session)
      BY <1>4, <1>12, <3>1 DEF BeginContinue, Steps
    <3>2. CASE AttemptAllowed(session)
      <4>1. 0 \in 0 .. MaxRounds
        BY TroubleshootAssumption
      <4>2. task' = [task EXCEPT !.at = "checks", !.rounds = 0]
        BY <1>12, <3>2 DEF BeginContinue
      <4> QED
        BY <1>2, <4>1, <4>2 DEF Task, Steps
    <3> QED
      BY <3>1, <3>2
  <2>2. SameRecord(session, session')
    BY <1>1, <1>12, ChecksKeepRecord DEF BeginContinue, SameRecord
  <2> QED
    BY <1>2, <1>3, <1>5, <1>12, <2>1, <2>2, ProgressKeepsCore
       DEF BeginContinue, SameRecord
<1>13. CASE WorkerRaises
  BY <1>2, <1>3, <1>4, <1>13, ProgressKeepsCore DEF WorkerRaises, Steps
<1> QED
  BY <1>6, <1>7, <1>8, <1>9, <1>10, <1>11, <1>12, <1>13

(* The decisions of a task: where its diagnosis, its attempt or its         *)
(* verification is recorded.  What else they have to keep is little.        *)
LEMMA DecisionKeepsCore ==
    ASSUME Coherent, Core, task \in Task, task' \in Task, task'.kind = task.kind,
           UNCHANGED <<control, dialogs, focus, log>>,
           session'.remediations = session.remediations,
           task'.at = "done",
           Investigated' => DiagnosisLeft(session'),
           Remediated' => VerificationLeft(session', pending),
           Balanced(session'),
           session'.result = "resolved" => LastImproved(session') /\ Last(session'.remediations).success,
           session'.result = "no_issue" => session'.remediations = <<>>
    PROVE  Core'
<1>1. /\ dialogs = <<>>
      /\ state \in {"investigating", "applying"}
  BY WorkingCore
<1>2. OneDialog'
  BY <1>1 DEF OneDialog
<1>3. NoFixAppliedTwice'
  BY DEF Core, FixOnItsWay, NoFixAppliedTwice
<1>4. FixOnItsWay'
  BY <1>1, <1>3 DEF FixOnItsWay
<1>5. Verdict'
  BY DEF Verdict
<1> QED
  BY <1>2, <1>4, <1>5 DEF Core

(* A cancelled investigation is stopped and was not changed by a fix. *)
LEMMA CancelSeenCore ==
    ASSUME Coherent, Core, CancelSeen
    PROVE  Core'
<1>1. task \in Task /\ task.kind \in Kinds
  BY TaskAtStep DEF Coherent, CancelSeen, Steps
<1>2. task' \in Task /\ task'.kind = task.kind /\ task'.at = "done"
  BY <1>1, GoesFacts DEF CancelSeen, Steps
<1>3. task.kind # "remediate"
  BY DEF CancelSeen, Core, FixOnItsWay
<1>4. /\ session'.remediations = session.remediations
      /\ session'.verifications = session.verifications
      /\ session'.result = "stopped" /\ session'.status = "cancelled"
  BY DEF CancelSeen, Cancelled, Coherent, TypeOK, Session
<1>5. Balanced(session')
  <2>1. Balanced(session)
    BY <1>1, WorkingCore DEF CancelSeen, Core, Verdict
  <2> QED
    BY <1>4, <2>1 DEF Balanced, LastImproved
<1> QED
  BY <1>1, <1>2, <1>3, <1>4, <1>5, DecisionKeepsCore DEF CancelSeen, Investigated, Remediated

(* What a diagnosis proposes was not applied before. *)
LEMMA ProposalsNotApplied ==
    ASSUME NEW s \in Session, NEW healthy \in BOOLEAN, NEW p \in ProposalLists(healthy, Tried(s)),
           NEW k \in DOMAIN p
    PROVE  NotApplied(s, p[k])
<1>1. p \in Seq(Fixes \ Tried(s))
  BY ProposalListsFacts
<1>2. p[k] \notin Tried(s)
  BY <1>1
<1> QED
  BY <1>2 DEF Tried, NotApplied

(* A diagnosis leaves fixes that were not applied, or a closed session. *)
LEMMA ConcludeCore ==
    ASSUME Coherent, Core, NEW healthy \in BOOLEAN, Conclude(healthy)
    PROVE  Core'
<1>1. task \in Task /\ task.kind \in Kinds
  BY TaskAtStep DEF Coherent, Conclude, Steps
<1>2. task' \in Task /\ task'.kind = task.kind /\ task'.at = "done"
  BY <1>1, GoesFacts DEF Conclude, Steps
<1>3. task.kind # "remediate"
  BY DEF Conclude, Core, FixOnItsWay
<1>4. PICK p \in ProposalLists(healthy, Tried(session)) :
          session' = Recommended(Analyzed(session, transmission), p, healthy)
  BY DEF Conclude
<1>5. session \in Session
  BY DEF Coherent, TypeOK
<1>6. /\ session'.remediations = session.remediations
      /\ session'.verifications = session.verifications
      /\ session'.proposals = p
      /\ p # <<>> => session'.result = "in_progress"
      /\ p = <<>> => \/ session'.result = "not_resolved"
                     \/ session'.result = "no_issue" /\ session.remediations = <<>>
  BY <1>4, <1>5 DEF Recommended, Analyzed, Session
<1>7. Balanced(session')
  <2>1. Balanced(session)
    BY <1>1, WorkingCore DEF Conclude, Core, Verdict
  <2> QED
    BY <1>6, <2>1 DEF Balanced, LastImproved
<1>8. DiagnosisLeft(session')
  BY <1>4, <1>5, <1>6, ProposalsNotApplied DEF DiagnosisLeft, NotApplied
<1> QED
  BY <1>1, <1>2, <1>3, <1>6, <1>7, <1>8, DecisionKeepsCore DEF Conclude, Remediated

(* An approval leaves the fix and what was tried as they are. *)
LEMMA BeginRemediationCore ==
    ASSUME Coherent, Core, BeginRemediation
    PROVE  Core'
<1>1. task \in Task /\ task.kind \in Kinds
  BY TaskAtStep DEF Coherent, BeginRemediation, Steps
<1>2. CASE ~AttemptAllowed(session)
  <2>1. task' \in Task /\ task'.kind = task.kind /\ task'.at = "failed"
    BY <1>1, <1>2, GoesFacts DEF BeginRemediation, Steps
  <2> QED
    BY <1>1, <1>2, <2>1, ProgressKeepsCore DEF BeginRemediation
<1>3. CASE AttemptAllowed(session)
  <2>1. task' \in Task /\ task'.kind = task.kind /\ task'.at = "execute"
    BY <1>1, <1>3, GoesFacts DEF BeginRemediation, Steps
  <2>2. /\ session'.remediations = session.remediations
        /\ session'.verifications = session.verifications
        /\ session'.result = session.result
    BY <1>3 DEF BeginRemediation, Approved, Coherent, TypeOK, Session
  <2>3. /\ dialogs = <<>>
        /\ state \in {"investigating", "applying"}
        /\ Working
    BY <1>1, WorkingCore
  <2>4. OneDialog'
    BY <2>3 DEF OneDialog, BeginRemediation
  <2>5. NoFixAppliedTwice'
    BY DEF Core, FixOnItsWay, NoFixAppliedTwice, BeginRemediation
  <2>6. FixOnItsWay'
    BY <2>1, <2>2, <2>3, <2>5
       DEF Core, FixOnItsWay, BeginRemediation, Investigated, Remediated, NotApplied, Undecided
  <2>7. Undecided(session) /\ Balanced(session)
    BY <2>3 DEF Core, FixOnItsWay, Verdict, BeginRemediation
  <2>8. Verdict'
    BY <2>1, <2>2, <2>7 DEF Verdict, Undecided, Balanced, LastImproved
  <2> QED
    BY <2>4, <2>6, <2>8 DEF Core
<1> QED
  BY <1>2, <1>3

(* The fix that runs was not applied before, and is recorded last. *)
LEMMA ExecuteFixCore ==
    ASSUME Coherent, ChangesRecorded, Core, NEW success \in BOOLEAN, ExecuteFix(success)
    PROVE  Core'
<1> DEFINE outcome == [tool |-> pending, success |-> success]
           old == session.remediations
<1>1. /\ task \in Task /\ task.kind = "remediate" /\ task.at = "execute"
      /\ task' \in Task /\ task'.at = "verify" /\ task'.kind = "remediate"
      /\ pending \in Fixes
      /\ session.id \in SessionIds
      /\ log' = [log EXCEPT ![session.id] = Append(@, outcome)]
  <2>1. task \in Task /\ task.kind = "remediate" /\ task.at = "execute"
    BY ExecuteFixFacts
  <2>2. task'.kind = task.kind
    BY <2>1, GoesFacts DEF ExecuteFix, Steps
  <2> QED
    BY <2>1, <2>2, ExecuteFixFacts
<1>2. outcome \in Remediation
  BY <1>1 DEF Remediation
<1>3. old \in Seq(Remediation) /\ old = log[session.id]
  BY <1>1, SessionAssumption DEF Coherent, TypeOK, Session, ChangesRecorded, HasSession
<1>4. /\ session'.remediations = Append(old, outcome)
      /\ session'.verifications = session.verifications
      /\ session'.result = session.result
  BY <1>1 DEF ExecuteFix, FixRecorded, Coherent, TypeOK, Session
<1>5. /\ dialogs = <<>> /\ dialogs' = <<>>
      /\ state \in {"investigating", "applying"} /\ state' = state
      /\ Working
  BY <1>1, WorkingCore DEF ExecuteFix
<1>6. /\ NotApplied(session, pending) /\ Undecided(session)
      /\ Balanced(session)
  BY <1>1, <1>5 DEF Core, FixOnItsWay, Verdict
<1>7. outcome.tool = pending /\ outcome.success = success
  OBVIOUS
<1>8. pending' = pending
  BY DEF ExecuteFix
<1> DEFINE new == session'.remediations
<1>9. /\ new \in Seq(Remediation)
      /\ new # <<>>
      /\ Last(new) = outcome
      /\ Len(new) = Len(old) + 1
      /\ \A i \in 1 .. Len(old) : new[i] = old[i]
      /\ new[Len(old) + 1] = outcome
      /\ DOMAIN new = 1 .. Len(old) + 1
  BY <1>2, <1>3, <1>4, LastOfAppend
<1>10. NoFixAppliedTwice'
  <2> SUFFICES ASSUME NEW sid \in SessionIds,
                      NEW i \in DOMAIN log'[sid], NEW j \in DOMAIN log'[sid],
                      log'[sid][i].success, log'[sid][i].tool = log'[sid][j].tool
               PROVE  j <= i
    BY DEF NoFixAppliedTwice
  <2>0. log \in [SessionIds -> Seq(Remediation)]
    BY DEF Coherent, TypeOK
  <2>1. CASE sid # session.id
    <3>1. log'[sid] = log[sid]
      BY <1>1, <2>0, <2>1
    <3> QED
      BY <3>1 DEF Core, FixOnItsWay, NoFixAppliedTwice
  <2>2. CASE sid = session.id
    <3>1. log'[sid] = new
      BY <1>1, <1>3, <1>4, <2>0, <2>2
    <3>2. i \in 1 .. Len(old) + 1 /\ j \in 1 .. Len(old) + 1 /\ Len(old) \in Nat
      BY <1>3, <1>9, <3>1
    <3>3. CASE i = Len(old) + 1
      BY <3>2, <3>3
    <3>4. CASE i \in 1 .. Len(old) /\ j = Len(old) + 1
      <4>1. i \in DOMAIN old
        BY <1>3, <3>4
      <4>2. old[i].success /\ old[i].tool = pending
        BY <1>7, <1>9, <3>1, <3>4
      <4> QED
        BY <1>6, <4>1, <4>2 DEF NotApplied
    <3>5. CASE i \in 1 .. Len(old) /\ j \in 1 .. Len(old)
      <4>1. i \in DOMAIN log[sid] /\ j \in DOMAIN log[sid]
        BY <1>3, <2>2, <3>5
      <4>2. log[sid][i].success /\ log[sid][i].tool = log[sid][j].tool
        BY <1>3, <1>9, <2>2, <3>1, <3>5
      <4> QED
        BY <4>1, <4>2 DEF Core, FixOnItsWay, NoFixAppliedTwice
    <3> QED
      BY <3>2, <3>3, <3>4, <3>5
  <2> QED
    BY <2>1, <2>2
<1>11. Attempted(session', pending)
  <2>1. ASSUME ~success
        PROVE  NotApplied(session', pending)
    <3> SUFFICES ASSUME NEW i \in DOMAIN new, new[i].success
                 PROVE  new[i].tool # pending
      BY DEF NotApplied
    <3>1. i \in 1 .. Len(old)
      BY <1>3, <1>7, <1>9, <2>1
    <3>2. new[i] = old[i] /\ i \in DOMAIN old
      BY <1>3, <1>9, <3>1
    <3> QED
      BY <1>6, <3>2 DEF NotApplied
  <2> QED
    BY <1>7, <1>9, <2>1 DEF Attempted
<1> HIDE DEF outcome, new
<1>12. OneDialog'
  BY <1>5 DEF OneDialog
<1>13. FixOnItsWay'
  BY <1>1, <1>4, <1>5, <1>6, <1>8, <1>10, <1>11
     DEF FixOnItsWay, Investigated, Remediated, Undecided
<1>14. Len(session'.remediations) = Len(session'.verifications) + 1
  BY <1>4, <1>6, <1>9 DEF new, Balanced
<1>15. Verdict'
  BY <1>1, <1>4, <1>6, <1>14 DEF Verdict, Undecided
<1> QED
  BY <1>12, <1>13, <1>15 DEF Core

(* What a verification can say: an improvement only after a fix that was    *)
(* applied.                                                                 *)
LEMMA ImprovedNeedsSuccess ==
    ASSUME NEW s \in Session, s.remediations # <<>>, NEW v \in Verifications(s), v.improved
    PROVE  Last(s.remediations).success
BY DEF Verifications

(* A verification settles the attempt: resolved when it found the problem   *)
(* gone, and otherwise a session whose last fix did not help.               *)
LEMMA VerifyFixCore ==
    ASSUME Coherent, Core, VerifyFix
    PROVE  Core'
<1>1. task \in Task /\ task.kind = "remediate"
  BY TaskAtStep DEF Coherent, VerifyFix, TaskMatchesState, Steps
<1>2. task' \in Task /\ task'.kind = task.kind /\ task'.at = "done"
  BY <1>1, GoesFacts DEF VerifyFix, Steps
<1>3. session \in Session /\ session.remediations # <<>>
  BY DEF Coherent, TypeOK, SessionInUse, VerifyFix
<1>4. PICK v \in Verifications(session) : session' = Verified(session, v)
  BY DEF VerifyFix
<1>5. v \in Verification
  BY <1>3, VerificationsFacts
<1>6. /\ session'.remediations = session.remediations
      /\ session'.verifications = Append(session.verifications, v)
      /\ v.improved => session'.result = "resolved"
      /\ ~v.improved => session'.result = "not_resolved"
  BY <1>3, <1>4, <1>5 DEF Verified, Session, Verification
<1>7. v.improved => Last(session.remediations).success
  BY <1>3, ImprovedNeedsSuccess
<1>8. /\ Len(session'.verifications) = Len(session.verifications) + 1
      /\ LastImproved(session') <=> v.improved
  <2>1. session.verifications \in Seq(Verification)
    BY <1>3 DEF Session
  <2> QED
    BY <1>5, <1>6, <2>1, LastOfAppend DEF LastImproved
<1>9. Attempted(session, pending) /\ Len(session.remediations) = Len(session.verifications) + 1
  BY DEF VerifyFix, Core, FixOnItsWay, Verdict
<1>10. Balanced(session')
  BY <1>6, <1>7, <1>8, <1>9 DEF Balanced
<1>11. VerificationLeft(session', pending)
  BY <1>6, <1>8, <1>9 DEF VerificationLeft, Attempted, NotApplied
<1>12. ~Investigated'
  BY <1>1, <1>2 DEF Investigated
<1>13. /\ session'.result = "resolved" =>
             LastImproved(session') /\ Last(session'.remediations).success
       /\ session'.result # "no_issue"
  BY <1>6, <1>7, <1>8
<1>14. UNCHANGED <<control, dialogs, focus, log>>
  BY DEF VerifyFix
<1> QED
  BY <1>1, <1>2, <1>6, <1>10, <1>11, <1>12, <1>13, <1>14, DecisionKeepsCore

-----------------------------------------------------------------------------
(* The fix on its way and the verdict: the steps of the user               *)

(* The result of a task: what the agent left is what the page shows. *)
LEMMA DeliverDoneCore ==
    ASSUME Coherent, Core, DeliverDone
    PROVE  Core'
<1>1. task \in Task /\ task.kind \in Kinds
  BY TaskAtStep DEF Coherent, DeliverDone, Steps
<1>2. /\ dialogs = <<>> /\ dialogs' = <<>>
      /\ state \in {"investigating", "applying"}
  BY <1>1, WorkingCore DEF DeliverDone
<1>3. /\ state' \in {"result", "cancelled", "diagnosed"}
      /\ state' = "result" => task.kind = "remediate"
      /\ state' = "diagnosed" => task.kind # "remediate" /\ session.status # "cancelled"
  BY DEF DeliverDone, StateAfter
<1>4. /\ ~Working' /\ task'.kind = "none" /\ task'.at = "none"
      /\ session' = session /\ pending' = pending /\ log' = log
  BY NoTaskFacts DEF DeliverDone, Working
<1>5. OneDialog'
  BY <1>2 DEF OneDialog
<1>6. state' = "diagnosed" => DiagnosisLeft(session)
  BY <1>1, <1>3 DEF Core, FixOnItsWay, Investigated, DeliverDone, Kinds
<1>7. state' = "result" => VerificationLeft(session, pending)
  BY <1>3 DEF Core, FixOnItsWay, Remediated, DeliverDone
<1>8. FixOnItsWay'
  BY <1>4, <1>6, <1>7
     DEF Core, FixOnItsWay, Investigated, Remediated, NoFixAppliedTwice
<1>9. Verdict'
  BY <1>2, <1>4 DEF Core, Verdict, DeliverDone
<1> QED
  BY <1>5, <1>8, <1>9 DEF Core

(* The failure of a task leaves nothing to decide on. *)
LEMMA DeliverFailedCore ==
    ASSUME Coherent, Core, DeliverFailed
    PROVE  Core'
<1>1. task \in Task /\ task.kind \in Kinds
  BY TaskAtStep DEF Coherent, DeliverFailed, Steps
<1>2. dialogs = <<>> /\ dialogs' = <<>>
  BY <1>1, WorkingCore DEF DeliverFailed
<1>3. /\ ~Working' /\ task'.kind = "none" /\ task'.at = "none" /\ state' = "error"
      /\ session' = session /\ pending' = pending /\ log' = log
  BY NoTaskFacts DEF DeliverFailed, Working
<1>4. OneDialog'
  BY <1>2 DEF OneDialog
<1>5. FixOnItsWay'
  BY <1>3 DEF Core, FixOnItsWay, Investigated, Remediated, NoFixAppliedTwice
<1>6. Verdict'
  BY <1>3 DEF Core, Verdict
<1> QED
  BY <1>4, <1>5, <1>6 DEF Core

(* The page responds only when no dialog is open. *)
LEMMA PageMeansNoDialog ==
    ASSUME Core, PageResponds
    PROVE  dialogs = <<>>
BY DEF Core, OneDialog, PageResponds

(* At rest and without an error each fix was verified. *)
LEMMA BalancedAtRest ==
    ASSUME Core, task = NoTask, state # "error"
    PROVE  Balanced(session)
BY NoTaskFacts DEF Core, Verdict

(* A handler that touches no more than the page, the window or the cancel   *)
(* event.                                                                   *)
LEMMA PageHandlerCore ==
    ASSUME Core, UNCHANGED <<state, pending, session, task, log, dialogs>>,
           dialogs = <<>> \/ focus' = focus
    PROVE  Core'
<1>1. OneDialog'
  BY DEF Core, OneDialog, NotApplied, Undecided
<1>2. FixOnItsWay'
  BY DEF Core, FixOnItsWay, Investigated, Remediated, Working, NoFixAppliedTwice, Undecided,
         DiagnosisLeft, NotApplied, VerificationLeft, Attempted, LastImproved
<1>3. Verdict'
  BY DEF Core, Verdict, Balanced, LastImproved
<1> QED
  BY <1>1, <1>2, <1>3 DEF Core

(* A handler that closes the session and returns to the home page. *)
LEMMA ClosingCore ==
    ASSUME Core, dialogs = <<>>, task = NoTask, state' = "idle",
           UNCHANGED <<task, dialogs, log>>,
           Balanced(session'),
           session'.result = "resolved" => LastImproved(session') /\ Last(session'.remediations).success,
           session'.result = "no_issue" => session'.remediations = <<>>
    PROVE  Core'
<1>1. OneDialog'
  BY DEF OneDialog
<1>2. FixOnItsWay'
  BY NoTaskFacts
     DEF Core, FixOnItsWay, Investigated, Remediated, Working, NoFixAppliedTwice
<1>3. Verdict'
  BY NoTaskFacts DEF Verdict
<1> QED
  BY <1>1, <1>2, <1>3 DEF Core

(* Declining and stopping keep the verdict honest. *)
LEMMA ClosingHandlersCore ==
    ASSUME Coherent, Core, NotNow \/ StopSession
    PROVE  Core'
<1>1. dialogs = <<>> /\ task = NoTask /\ state # "error"
  BY PageMeansNoDialog, RestingView DEF NotNow, StopSession, Coherent, ViewMatchesState
<1>2. session \in Session
  BY DEF Coherent, TypeOK
<1>3. Balanced(session)
  BY <1>1, BalancedAtRest
<1>4. /\ session'.remediations = session.remediations
      /\ session'.verifications = session.verifications
  BY <1>2 DEF NotNow, StopSession, Declined, StoppedByUser, Session
<1>5. \/ session'.result = "stopped"
      \/ session'.result = session.result
      \/ session'.result = "resolved" /\ LastImproved(session)
  <2>1. CASE NotNow
    BY <1>2, <2>1 DEF NotNow, Declined, Session
  <2>2. CASE StopSession
    BY <1>2, <2>2 DEF StopSession, StoppedByUser, Session
  <2> QED
    BY <2>1, <2>2
<1>6. /\ session.result = "resolved" =>
             LastImproved(session) /\ Last(session.remediations).success
      /\ session.result = "no_issue" => session.remediations = <<>>
  BY DEF Core, Verdict
<1>7. UNCHANGED <<task, dialogs, log>> /\ state' = "idle"
  BY DEF NotNow, StopSession
<1> QED
  BY <1>1, <1>3, <1>4, <1>5, <1>6, <1>7, ClosingCore DEF Balanced, LastImproved

(* A dialog opens for a fix that may still be decided on. *)
LEMMA ConfirmCore ==
    ASSUME Coherent, Core, NEW fix, Confirm(fix),
           dialogs = <<>>, task = NoTask, state \in {"diagnosed", "result"},
           NotApplied(session, fix), Undecided(session)
    PROVE  Core'
<1>1. /\ Len(dialogs') = 1 /\ dialogs'[1].fix = fix
      /\ focus' = "dialog"
  BY DEF Confirm
<1>2. UNCHANGED <<state, pending, session, task, log>>
  BY DEF Confirm
<1>3. OneDialog'
  BY <1>1, <1>2 DEF OneDialog, NotApplied, Undecided
<1>4. FixOnItsWay'
  BY <1>2 DEF Core, FixOnItsWay, Investigated, Remediated, Working, NoFixAppliedTwice,
         Undecided, DiagnosisLeft, NotApplied, VerificationLeft, Attempted, LastImproved
<1>5. Verdict'
  BY <1>2 DEF Core, Verdict, Balanced, LastImproved
<1> QED
  BY <1>3, <1>4, <1>5 DEF Core

(* "Approve fix" and "Try again" offer a fix that was not applied. *)
LEMMA ApproveFixCore ==
    ASSUME Coherent, Core, ApproveFix \/ TryAgain
    PROVE  Core'
<1>1. dialogs = <<>> /\ task = NoTask
  BY PageMeansNoDialog, RestingView DEF ApproveFix, TryAgain
<1>2. CASE ApproveFix
  <2>1. state = "diagnosed" /\ session.proposals # <<>>
    BY <1>2 DEF ApproveFix, Coherent, ViewMatchesState
  <2>2. DiagnosisLeft(session)
    BY <2>1 DEF Core, FixOnItsWay
  <2>3. 1 \in DOMAIN session.proposals /\ Head(session.proposals) = session.proposals[1]
    BY <2>1 DEF Coherent, TypeOK, Session
  <2>4. NotApplied(session, Head(session.proposals)) /\ Undecided(session)
    BY <2>1, <2>2, <2>3 DEF DiagnosisLeft, Undecided
  <2> QED
    BY <1>1, <1>2, <2>1, <2>4, ConfirmCore DEF ApproveFix
<1>3. CASE TryAgain
  <2>1. state = "result" /\ pending # NoFix
    BY <1>3, SessionAssumption DEF TryAgain, Coherent, ViewMatchesState, SessionInUse
  <2>2. VerificationLeft(session, pending) /\ Balanced(session)
    BY <1>1, <2>1, BalancedAtRest DEF Core, FixOnItsWay
  <2>3. NotApplied(session, pending) /\ Undecided(session)
    BY <1>3, <2>2 DEF TryAgain, VerificationLeft, Attempted, Balanced, Undecided
  <2> QED
    BY <1>1, <1>3, <2>1, <2>3, ConfirmCore DEF TryAgain
<1> QED
  BY <1>2, <1>3

(* A dialog that closes was the only one. *)
LEMMA ClosedDialog ==
    ASSUME Coherent, Core, NEW i \in DOMAIN dialogs
    PROVE  /\ i = 1 /\ RemoveAt(dialogs, i) = <<>>
           /\ task = NoTask /\ state \in {"diagnosed", "result"}
           /\ NotApplied(session, dialogs[i].fix) /\ Undecided(session)
           /\ HasSession /\ ~busy
<1>1. dialogs \in Seq(Dialog)
  BY DEF Coherent, TypeOK
<1>2. dialogs # <<>>
  OBVIOUS
<1>3. /\ Len(dialogs) = 1
      /\ task = NoTask /\ state \in {"diagnosed", "result"}
      /\ NotApplied(session, dialogs[1].fix) /\ Undecided(session)
  BY <1>2 DEF Core, OneDialog
<1>4. i = 1 /\ RemoveAt(dialogs, i) = <<>>
  BY <1>1, <1>3, RemoveOnly
<1> QED
  BY <1>3, <1>4 DEF Coherent, SessionInUse, busy

(* A dialog that is cancelled gives the page back. *)
LEMMA CancelDialogCore ==
    ASSUME Coherent, Core, NEW i \in DOMAIN dialogs, CancelDialog(i)
    PROVE  Core'
<1>1. dialogs' = <<>>
  BY ClosedDialog DEF CancelDialog
<1>2. UNCHANGED <<state, pending, session, task, log>>
  BY DEF CancelDialog
<1>3. OneDialog'
  BY <1>1 DEF OneDialog
<1>4. FixOnItsWay'
  BY <1>2 DEF Core, FixOnItsWay, Investigated, Remediated, Working, NoFixAppliedTwice,
         Undecided, DiagnosisLeft, NotApplied, VerificationLeft, Attempted, LastImproved
<1>5. Verdict'
  BY <1>2 DEF Core, Verdict, Balanced, LastImproved
<1> QED
  BY <1>3, <1>4, <1>5 DEF Core

(* What starts a task on a session whose question is open. *)
LEMMA StartedTaskCore ==
    ASSUME Core, NEW kind \in Kinds, Runs(kind),
           dialogs' = <<>>, log' = log,
           state' \in {"investigating", "applying"},
           kind = "remediate" => NotApplied(session', pending'),
           Undecided(session'), Balanced(session')
    PROVE  Core'
<1>1. /\ task'.kind = kind /\ task'.at = "begin"
  BY DEF Runs
<1>2. OneDialog'
  BY DEF OneDialog
<1>3. NoFixAppliedTwice'
  BY DEF Core, FixOnItsWay, NoFixAppliedTwice
<1>4. FixOnItsWay'
  BY <1>1, <1>3 DEF FixOnItsWay, Investigated, Remediated
<1>5. Verdict'
  BY <1>1 DEF Verdict, Undecided
<1> QED
  BY <1>2, <1>4, <1>5 DEF Core

(* "Apply fix": the fix of the one dialog, on the session it was opened in. *)
LEMMA ApplyFixCore ==
    ASSUME Coherent, Core, NEW i \in DOMAIN dialogs, ApplyFix(i)
    PROVE  Core'
<1>1. /\ RemoveAt(dialogs, i) = <<>>
      /\ task = NoTask /\ state \in {"diagnosed", "result"}
      /\ NotApplied(session, dialogs[i].fix) /\ Undecided(session)
      /\ HasSession /\ ~busy
  BY ClosedDialog
<1>2. /\ pending' = dialogs[i].fix /\ state' = "applying" /\ Runs("remediate")
      /\ dialogs' = <<>> /\ session' = session /\ log' = log
  BY <1>1 DEF ApplyFix
<1>3. Balanced(session)
  BY <1>1, BalancedAtRest
<1>4. "remediate" \in Kinds
  BY DEF Kinds
<1>5. NotApplied(session', pending') /\ Undecided(session') /\ Balanced(session')
  BY <1>1, <1>2, <1>3
<1> QED
  BY <1>2, <1>4, <1>5, StartedTaskCore

(* A new session, and one that is carried on. *)
LEMMA StartSessionCore ==
    ASSUME Coherent, Core, NEW sid \in SessionIds, NEW setting \in Providers,
           StartSession(sid, setting)
    PROVE  Core'
<1>1. dialogs' = <<>> /\ log' = log /\ state' = "investigating" /\ Runs("diagnose")
  BY PageMeansNoDialog DEF StartSession
<1>2. Undecided(session') /\ Balanced(session')
  BY DEF StartSession, NewSession, Undecided, Balanced, LastImproved
<1>3. "diagnose" \in Kinds
  BY DEF Kinds
<1> QED
  BY <1>1, <1>2, <1>3, StartedTaskCore

(* "Continue investigation" carries on a session whose fix did not help. *)
LEMMA ContinueInvestigationCore ==
    ASSUME Coherent, Core, ContinueInvestigation
    PROVE  Core'
<1>1. /\ dialogs' = <<>> /\ log' = log /\ state' = "investigating" /\ Runs("continue")
      /\ session' = session
  BY PageMeansNoDialog DEF ContinueInvestigation
<1>2. task = NoTask /\ state = "result"
  BY RestingView DEF ContinueInvestigation, Coherent, ViewMatchesState
<1>3. Undecided(session) /\ Balanced(session)
  BY <1>2, BalancedAtRest
     DEF Core, FixOnItsWay, VerificationLeft, Undecided, ContinueInvestigation
<1>4. "continue" \in Kinds
  BY DEF Kinds
<1> QED
  BY <1>1, <1>3, <1>4, StartedTaskCore DEF Undecided, Balanced, LastImproved

(* The program starts with nothing open; what was done stays done. *)
LEMMA StartedCore ==
    /\ Started /\ NoFixAppliedTwice => Core
    /\ Started' /\ NoFixAppliedTwice' => Core'
<1>1. /\ NoTask.kind = "none" /\ NoTask.at = "none"
      /\ NoSession.result = "in_progress" /\ Balanced(NoSession)
  BY NoTaskFacts DEF NoSession, NewSession, Balanced, LastImproved
<1>2. ASSUME Started, NoFixAppliedTwice
      PROVE  Core
  BY <1>1, <1>2 DEF Core, Started, OneDialog, FixOnItsWay, Verdict, Investigated,
                    Remediated, Working
<1>3. ASSUME Started', NoFixAppliedTwice'
      PROVE  Core'
  <2>1. OneDialog'
    BY <1>3 DEF Started, OneDialog
  <2>2. FixOnItsWay'
    BY <1>1, <1>3 DEF Started, FixOnItsWay, Investigated, Remediated, Working
  <2>3. Verdict'
    BY <1>1, <1>3 DEF Started, Verdict, Balanced, LastImproved
  <2> QED
    BY <2>1, <2>2, <2>3 DEF Core
<1> QED
  BY <1>2, <1>3

(* Every step of a program without page shortcuts under a dialog keeps what *)
(* is proved of the fix on its way and of the verdict.                      *)
LEMMA NextCore ==
    ASSUME "shortcut" \notin Environment, Coherent, ChangesRecorded, Core, [Next]_vars
    PROVE  Core'
<1>1. CASE WorkerStep \/ WorkerRaises
  BY <1>1, InvestigationStepCore, CancelSeenCore, ConcludeCore, BeginRemediationCore,
     ExecuteFixCore, VerifyFixCore DEF WorkerStep
<1>2. CASE DeliverDone \/ DeliverFailed
  BY <1>2, DeliverDoneCore, DeliverFailedCore
<1>3. CASE \E sid \in SessionIds, setting \in Providers : StartSession(sid, setting)
  BY <1>3, StartSessionCore
<1>4. CASE NotNow \/ StopSession
  BY <1>4, ClosingHandlersCore
<1>5. CASE ApproveFix \/ TryAgain
  BY <1>5, ApproveFixCore
<1>6. CASE \E i \in DOMAIN dialogs : CancelDialog(i) \/ ApplyFix(i)
  BY <1>6, CancelDialogCore, ApplyFixCore
<1>7. CASE ContinueInvestigation
  BY <1>7, ContinueInvestigationCore
<1>8. CASE LeavePage
  <2>1. dialogs = <<>>
    BY <1>8, PageMeansNoDialog DEF LeavePage
  <2> QED
    BY <1>8, <2>1, PageHandlerCore DEF LeavePage
<1>9. CASE ReviewFix \/ BackToDiagnosis \/ ShowPage \/ PressCancel \/ CloseWindow
           \/ UNCHANGED vars
  <2>1. UNCHANGED <<state, pending, session, task, log, dialogs, focus>>
    BY <1>9 DEF ReviewFix, BackToDiagnosis, ShowPage, PressCancel, CloseWindow
  <2> QED
    BY <2>1, PageHandlerCore
<1>10. CASE Relaunch
  <2>1. Started'
    BY <1>10 DEF Relaunch, Started
  <2>2. NoFixAppliedTwice'
    BY <1>10 DEF Relaunch, Core, FixOnItsWay, NoFixAppliedTwice
  <2> QED
    BY <2>1, <2>2, StartedCore
<1> QED
  BY <1>1, <1>2, <1>3, <1>4, <1>5, <1>6, <1>7, <1>8, <1>9, <1>10 DEF Next

(* It holds when the program is first started. *)
LEMMA InitCore == Init => Core
<1> SUFFICES ASSUME Init
             PROVE  Core
  OBVIOUS
<1>1. Started
  BY DEF Init, Started
<1>2. NoFixAppliedTwice
  BY DEF Init, NoFixAppliedTwice
<1> QED
  BY <1>1, <1>2, StartedCore

(* The dialogs, the fix on its way and the verdict agree in every state of  *)
(* a program whose page shortcuts are not used under an open dialog.        *)
THEOREM AlwaysCore ==
    ASSUME "shortcut" \notin Environment
    PROVE  Spec => [](Coherent /\ ChangesRecorded /\ Core)
<1>1. Coherent /\ ChangesRecorded /\ Core /\ [Next]_vars => Core'
  BY NextCore
<1> QED
  BY <1>1, AlwaysRecorded, InitCore, PTL DEF Spec

(* A fix that was applied in a session is not applied a second time in it.  *)
THEOREM FixesAreNotRepeated ==
    ASSUME "shortcut" \notin Environment
    PROVE  Spec => []NoFixAppliedTwice
<1>1. Core => NoFixAppliedTwice
  BY DEF Core, FixOnItsWay
<1> QED
  BY <1>1, AlwaysCore, PTL

(* The result of a session at rest is what was done and measured.           *)
THEOREM ResultsAreHonest ==
    ASSUME "shortcut" \notin Environment
    PROVE  Spec => []HonestResult
<1>1. ASSUME Coherent, ChangesRecorded, Core
      PROVE  HonestResult
  <2> SUFFICES ASSUME Resting
               PROVE  /\ Len(session.verifications) = Len(session.remediations)
                      /\ session.result = "resolved" =>
                             LastImproved(session) /\ Last(session.remediations).success
                      /\ session.result = "no_issue" => log[session.id] = <<>>
    BY DEF HonestResult
  <2>1. Balanced(session)
    BY <1>1, BalancedAtRest DEF Resting, Working
  <2>2. session.remediations = log[session.id]
    BY <1>1 DEF ChangesRecorded, Resting
  <2> QED
    BY <1>1, <2>1, <2>2 DEF Core, Verdict, Balanced
<1> QED
  BY <1>1, AlwaysCore, PTL

-----------------------------------------------------------------------------
(* What was sent is recorded with the diagnosis                            *)

(* What a request leaves behind: what is recorded is what was sent, and     *)
(* nothing is forgotten.                                                    *)
LEMMA SendsRecorded ==
    ASSUME transmission = sent, NEW items, Sends(items)
    PROVE  transmission' = sent' /\ sent \subseteq sent'
BY DEF Sends, Merged

(* The steps of a task, but for its diagnosis, keep what the session holds  *)
(* of the cloud; a fix that is applied sends nothing.                       *)
LEMMA WorkerSends ==
    ASSUME Coherent, Core, Accounted, WorkerStep \/ WorkerRaises,
           ~ \E healthy \in BOOLEAN : Conclude(healthy)
    PROVE  /\ session'.cloud = session.cloud
           /\ transmission' = sent' /\ sent \subseteq sent'
           /\ task.kind = "remediate" => sent' = sent
           /\ task'.at = "done" => task.kind = "remediate" \/ session'.status = "cancelled"
<1>1. session \in Session /\ transmission = sent
  BY DEF Coherent, TypeOK, Accounted
<1>2. task.kind \in Kinds /\ task \in Task
  BY TaskAtStep
     DEF WorkerStep, WorkerRaises, BeginDiagnosis, PlanChecks, StartCheck, FinishCheck,
         CancelSeen, ChecksDone, FollowUp, Analyze, BeginRemediation, ExecuteFix,
         VerifyFix, BeginContinue, Conclude, Steps, Coherent, TypeOK, Working, Task
<1>3. \A step \in Steps : Goes(step) => task'.at = step
  BY <1>2, GoesFacts
<1>4. CASE BeginDiagnosis
  BY <1>1, <1>3, <1>4, SendsRecorded, ChecksKeepRecord DEF BeginDiagnosis, SameRecord, Steps
<1>5. CASE \E understood, quick \in BOOLEAN : PlanChecks(understood, quick)
  <2>1. PICK understood \in BOOLEAN, quick \in BOOLEAN : PlanChecks(understood, quick)
    BY <1>5
  <2>2. SameRecord(session, session')
    BY <1>1, <2>1, ChecksKeepRecord DEF PlanChecks
  <2>3. task'.at = "checks"
    BY <1>2, <2>1 DEF PlanChecks, Task
  <2> QED
    BY <1>1, <2>1, <2>2, <2>3 DEF PlanChecks, SameRecord
<1>6. CASE (\E t \in Tools : StartCheck(t)) \/ (\E t \in Tools, ok \in BOOLEAN : FinishCheck(t, ok))
  <2>1. SameRecord(session, session')
    BY <1>1, <1>6, ChecksKeepRecord DEF StartCheck, FinishCheck, SameRecord
  <2>2. task'.at # "done"
    BY <1>3, <1>6 DEF StartCheck, FinishCheck, Steps
  <2> QED
    BY <1>1, <1>6, <2>1, <2>2 DEF StartCheck, FinishCheck, SameRecord
<1>7. CASE CancelSeen
  <2>1. session'.cloud = session.cloud /\ session'.status = "cancelled"
    BY <1>1, <1>7 DEF CancelSeen, Cancelled, Session
  <2> QED
    BY <1>1, <1>7, <2>1 DEF CancelSeen
<1>8. CASE ChecksDone
  BY <1>1, <1>3, <1>8 DEF ChecksDone, Steps
<1>9. CASE FollowUp
  <2>1. PICK tools : /\ session' = QueueChecks(session, tools)
                     /\ task' = IF tools = {} THEN [task EXCEPT !.at = "analyze"]
                                ELSE [task EXCEPT !.at = "checks", !.rounds = @ - 1]
    BY <1>9 DEF FollowUp
  <2>2. task'.at # "done"
    BY <1>2, <2>1 DEF Task
  <2>3. SameRecord(session, session')
    BY <1>1, <2>1, ChecksKeepRecord
  <2>4. transmission' = sent' /\ sent \subseteq sent'
    <3>1. CASE Budget(session) <= 0 \/ session.diagnostics = Tools
      BY <1>1, <1>9, <3>1 DEF FollowUp
    <3>2. CASE ~(Budget(session) <= 0 \/ session.diagnostics = Tools)
      BY <1>1, <1>9, <3>2, SendsRecorded DEF FollowUp
    <3> QED
      BY <3>1, <3>2
  <2>5. task.kind # "remediate"
    BY <1>9 DEF FollowUp, Core, FixOnItsWay
  <2> QED
    BY <2>2, <2>3, <2>4, <2>5 DEF SameRecord
<1>10. CASE Analyze
  <2>1. task.kind # "remediate"
    BY <1>10 DEF Analyze, Core, FixOnItsWay
  <2> QED
    BY <1>1, <1>3, <1>10, <2>1, SendsRecorded DEF Analyze, Steps
<1>11. CASE BeginRemediation
  <2>1. session'.cloud = session.cloud
    BY <1>1, <1>11 DEF BeginRemediation, Approved, Session
  <2> QED
    BY <1>1, <1>11, <2>1 DEF BeginRemediation
<1>12. CASE \E success \in BOOLEAN : ExecuteFix(success)
  <2>1. session'.cloud = session.cloud
    BY <1>1, <1>12 DEF ExecuteFix, FixRecorded, Session
  <2>2. task'.at = "verify"
    BY <1>3, <1>12 DEF ExecuteFix, Steps
  <2> QED
    BY <1>1, <1>12, <2>1, <2>2 DEF ExecuteFix
<1>13. CASE VerifyFix
  <2>1. session'.cloud = session.cloud
    BY <1>1, <1>13 DEF VerifyFix, Verified, Session
  <2>2. task.kind = "remediate"
    BY <1>13 DEF VerifyFix, Coherent, TaskMatchesState
  <2> QED
    BY <1>1, <1>13, <2>1, <2>2 DEF VerifyFix
<1>14. CASE BeginContinue
  <2>1. session'.cloud = session.cloud
    BY <1>1, <1>14, ChecksKeepRecord DEF BeginContinue, SameRecord
  <2>2. task'.at # "done"
    <3>1. CASE ~AttemptAllowed(session)
      BY <1>3, <1>14, <3>1 DEF BeginContinue, Steps
    <3>2. CASE AttemptAllowed(session)
      BY <1>2, <1>14, <3>2 DEF BeginContinue, Task
    <3> QED
      BY <3>1, <3>2
  <2> QED
    BY <1>1, <1>14, <2>1, <2>2 DEF BeginContinue
<1>15. CASE WorkerRaises
  BY <1>1, <1>3, <1>15 DEF WorkerRaises, Steps
<1> QED
  BY <1>4, <1>5, <1>6, <1>7, <1>8, <1>9, <1>10, <1>11, <1>12, <1>13, <1>14, <1>15
     DEF WorkerStep

(* A step of a task keeps its kind and leaves the controller and the page   *)
(* alone.                                                                   *)
LEMMA WorkerKeepsKind ==
    ASSUME TypeOK, WorkerStep \/ WorkerRaises
    PROVE  /\ task \in Task /\ task'.kind = task.kind
           /\ UNCHANGED <<control, ui>>
<1>1. task \in Task
  BY TaskAtStep
     DEF WorkerStep, WorkerRaises, BeginDiagnosis, PlanChecks, StartCheck, FinishCheck,
         CancelSeen, ChecksDone, FollowUp, Analyze, BeginRemediation, ExecuteFix,
         VerifyFix, BeginContinue, Conclude, Steps, TypeOK, Working
<1>2. UNCHANGED <<control, ui>>
  BY DEF WorkerStep, WorkerRaises, BeginDiagnosis, PlanChecks, StartCheck, FinishCheck,
         CancelSeen, ChecksDone, FollowUp, Analyze, BeginRemediation, ExecuteFix,
         VerifyFix, BeginContinue, Conclude
<1>3. task'.kind = task.kind
  <2>1. CASE \/ BeginDiagnosis \/ CancelSeen \/ ChecksDone \/ Analyze
             \/ BeginRemediation \/ VerifyFix \/ WorkerRaises
             \/ \E t \in Tools : StartCheck(t) \/ \E ok \in BOOLEAN : FinishCheck(t, ok)
             \/ \E b \in BOOLEAN : Conclude(b) \/ ExecuteFix(b)
    BY <1>1, <2>1
       DEF WorkerRaises, BeginDiagnosis, StartCheck, FinishCheck, CancelSeen, ChecksDone,
           Analyze, BeginRemediation, ExecuteFix, VerifyFix, Conclude, Goes, Task
  <2>2. CASE FollowUp \/ \E understood, quick \in BOOLEAN : PlanChecks(understood, quick)
    BY <1>1, <2>2 DEF FollowUp, PlanChecks, Task
  <2>3. CASE BeginContinue
    BY <1>1, <2>3 DEF BeginContinue, Goes, Task
  <2> QED
    BY <2>1, <2>2, <2>3 DEF WorkerStep
<1> QED
  BY <1>1, <1>2, <1>3

(* A step of a task keeps the account of what was sent. *)
LEMMA WorkerAccounted ==
    ASSUME Coherent, Core, Accounted, WorkerStep \/ WorkerRaises
    PROVE  Accounted'
<1>1. task \in Task /\ state' = state /\ task'.kind = task.kind
  BY WorkerKeepsKind DEF Coherent
<1>2. state \in {"investigating", "applying"}
  BY <1>1, WorkingCore
<1>5. CASE \E healthy \in BOOLEAN : Conclude(healthy)
  <2>1. PICK healthy \in BOOLEAN :
            \E p \in ProposalLists(healthy, Tried(session)) :
                session' = Recommended(Analyzed(session, transmission), p, healthy)
    BY <1>5 DEF Conclude
  <2>2. session \in Session
    BY DEF Coherent, TypeOK
  <2>3. session'.cloud = IF transmission = {} THEN session.cloud ELSE transmission
    BY <2>1, <2>2 DEF Recommended, Analyzed, Session
  <2>4. transmission' = transmission /\ sent' = sent
    BY <1>5 DEF Conclude
  <2> QED
    BY <2>3, <2>4 DEF Accounted
<1>6. CASE ~ \E healthy \in BOOLEAN : Conclude(healthy)
  <2>1. /\ session'.cloud = session.cloud
        /\ transmission' = sent' /\ sent \subseteq sent'
        /\ task.kind = "remediate" => sent' = sent
        /\ task'.at = "done" => task.kind = "remediate" \/ session'.status = "cancelled"
    BY <1>6, WorkerSends
  <2>2. ~Investigated'
    BY <1>1, <2>1 DEF Investigated
  <2> QED
    BY <1>1, <1>2, <2>1, <2>2 DEF Accounted
<1> QED
  BY <1>5, <1>6

(* Every step keeps the account of what was sent. *)
LEMMA NextAccounted ==
    ASSUME "shortcut" \notin Environment, Coherent, Core, Accounted, [Next]_vars
    PROVE  Accounted'
<1>1. CASE WorkerStep \/ WorkerRaises
  BY <1>1, WorkerAccounted
<1>2. CASE DeliverDone \/ DeliverFailed
  <2>1. /\ task'.kind = "none" /\ task'.at = "none"
        /\ UNCHANGED <<session, transmission, sent>>
    BY <1>2, NoTaskFacts DEF DeliverDone, DeliverFailed
  <2>2. state' = "diagnosed" => Investigated
    BY <1>2, TaskAtStep
       DEF DeliverDone, DeliverFailed, StateAfter, Investigated, Coherent, Steps, Kinds
  <2>3. state' = "result" => task.kind = "remediate"
    BY <1>2 DEF DeliverDone, DeliverFailed, StateAfter
  <2> QED
    BY <2>1, <2>2, <2>3 DEF Accounted, Investigated
<1>3. CASE \E sid \in SessionIds, setting \in Providers : StartSession(sid, setting)
  BY <1>3 DEF StartSession, Runs, NewSession, Accounted, Investigated
<1>4. CASE NotNow \/ StopSession
  <2>1. session'.cloud = session.cloud
    BY <1>4 DEF NotNow, StopSession, Declined, StoppedByUser, Coherent, TypeOK, Session
  <2>2. task = NoTask
    BY <1>4, RestingView DEF NotNow, StopSession
  <2>3. state' = "idle" /\ UNCHANGED <<task, transmission, sent>>
    BY <1>4 DEF NotNow, StopSession
  <2> QED
    BY <2>1, <2>2, <2>3, NoTaskFacts DEF Accounted, Investigated
<1>5. CASE \E i \in DOMAIN dialogs : ApplyFix(i)
  <2>1. PICK i \in DOMAIN dialogs : ApplyFix(i)
    BY <1>5
  <2>2. state \in {"diagnosed", "result"}
    BY ClosedDialog
  <2>3. session'= session /\ UNCHANGED <<transmission, sent>>
    BY <2>1 DEF ApplyFix
  <2> QED
    BY <2>2, <2>3 DEF Accounted
<1>6. CASE ContinueInvestigation
  <2>1. /\ state' = "investigating" /\ UNCHANGED <<session, transmission, sent>>
        /\ task'.kind = "continue" /\ task'.at = "begin"
    BY <1>6 DEF ContinueInvestigation, Runs
  <2> QED
    BY <2>1 DEF Accounted, Investigated
<1>7. CASE Relaunch
  BY <1>7, NoTaskFacts DEF Relaunch, Accounted, Investigated, NoSession, NewSession
<1>8. CASE \/ ApproveFix \/ TryAgain \/ (\E i \in DOMAIN dialogs : CancelDialog(i))
           \/ LeavePage \/ ReviewFix \/ BackToDiagnosis \/ ShowPage \/ PressCancel
           \/ CloseWindow \/ UNCHANGED vars
  <2>1. UNCHANGED <<state, session, task, transmission, sent>>
    BY <1>8 DEF ApproveFix, TryAgain, Confirm, CancelDialog, LeavePage, ReviewFix,
           BackToDiagnosis, ShowPage, PressCancel, CloseWindow
  <2> QED
    BY <2>1 DEF Accounted, Investigated
<1> QED
  BY <1>1, <1>2, <1>3, <1>4, <1>5, <1>6, <1>7, <1>8 DEF Next

(* A diagnosis or a result the user is shown accounts for everything the AI *)
(* provider was sent.                                                       *)
THEOREM DiagnosesAccountForCloud ==
    ASSUME "shortcut" \notin Environment
    PROVE  Spec => []DiagnosisAccountsForCloud
<1>1. Init => Accounted
  BY NoTaskFacts DEF Init, Accounted, Investigated, NoSession, NewSession
<1>2. Coherent /\ Core /\ Accounted /\ [Next]_vars => Accounted'
  BY NextAccounted
<1>3. Accounted => DiagnosisAccountsForCloud
  BY DEF Accounted, DiagnosisAccountsForCloud
<1> QED
  BY <1>1, <1>2, <1>3, AlwaysCore, PTL DEF Spec

-----------------------------------------------------------------------------
(* What is saved                                                           *)

(* The steps of a task that end it. *)
Ends == CancelSeen \/ VerifyFix \/ \E healthy \in BOOLEAN : Conclude(healthy)

(* The steps that end a task save the session. *)
LEMMA EndsSave ==
    ASSUME TypeOK, Ends
    PROVE  task'.at = "done" /\ Save(session')
<1>1. task \in Task
  BY TaskAtStep DEF Ends, CancelSeen, VerifyFix, Conclude, Steps
<1>2. \A step \in Steps : Goes(step) => task'.at = step
  BY <1>1, GoesFacts
<1> QED
  BY <1>2 DEF Ends, CancelSeen, VerifyFix, Conclude, Steps

(* The others save nothing; only the one that runs a fix comes to its       *)
(* verification.                                                            *)
LEMMA OthersDoNotEnd ==
    ASSUME TypeOK, WorkerStep \/ WorkerRaises, ~Ends
    PROVE  /\ history' = history
           /\ task'.at # "done" /\ task.at \notin {"done", "failed"}
           /\ task'.at = "failed" \/ task.at # "verify"
           /\ (~ \E success \in BOOLEAN : ExecuteFix(success)) => task'.at # "verify"
<1>1. task \in Task
  BY WorkerKeepsKind
<1>2. \A step \in Steps : Goes(step) => task'.at = step
  BY <1>1, GoesFacts
<1>3. CASE \E understood, quick \in BOOLEAN : PlanChecks(understood, quick)
  <2>1. task'.at = "checks"
    BY <1>1, <1>3 DEF PlanChecks, Task
  <2> QED
    BY <1>3, <2>1 DEF PlanChecks, Steps
<1>4. CASE FollowUp
  <2>1. task'.at \in {"checks", "analyze"}
    BY <1>1, <1>4 DEF FollowUp, Task
  <2> QED
    BY <1>4, <2>1 DEF FollowUp, Steps
<1>5. CASE BeginContinue
  <2>1. task'.at \in {"checks", "failed"}
    <3>1. CASE AttemptAllowed(session)
      BY <1>1, <1>5, <3>1 DEF BeginContinue, Task
    <3>2. CASE ~AttemptAllowed(session)
      BY <1>2, <1>5, <3>2 DEF BeginContinue, Steps
    <3> QED
      BY <3>1, <3>2
  <2> QED
    BY <1>5, <2>1 DEF BeginContinue, Steps
<1>6. CASE \/ BeginDiagnosis \/ ChecksDone \/ Analyze \/ BeginRemediation
           \/ \E t \in Tools : StartCheck(t) \/ \E ok \in BOOLEAN : FinishCheck(t, ok)
           \/ \E success \in BOOLEAN : ExecuteFix(success)
  BY <1>2, <1>6 DEF BeginDiagnosis, ChecksDone, Analyze, BeginRemediation, StartCheck,
     FinishCheck, ExecuteFix, Steps
<1>7. CASE WorkerRaises
  BY <1>2, <1>7 DEF WorkerRaises, Steps
<1> QED
  BY <1>3, <1>4, <1>5, <1>6, <1>7 DEF WorkerStep, Ends

(* A save that succeeds brings History up to date. *)
LEMMA SaveKeepsSaved ==
    ASSUME "save_fails" \notin Environment, Coherent, ChangesRecorded, Saved,
           RecordsNoFix, Save(session'), HasSession
    PROVE  Saved'
<1>1. session.id \in SessionIds
  BY DEF Coherent, TypeOK, HasSession, Session
<1>2. /\ history' = [history EXCEPT ![session.id] = session']
      /\ history \in [SessionIds -> Session]
  BY DEF Save, RecordsNoFix, Coherent, TypeOK
<1>3. /\ history'[session.id] = session'
      /\ \A sid \in SessionIds : sid # session.id => history'[sid] = history[sid]
  BY <1>1, <1>2
<1>4. session'.id = session.id /\ session'.remediations = session.remediations /\ log' = log
  BY DEF RecordsNoFix
<1>5. HistoryMissesAtMostOne'
  <2> SUFFICES ASSUME NEW sid \in SessionIds
               PROVE  Len(log[sid]) <= Len(history'[sid].remediations) + 1
    BY <1>4 DEF HistoryMissesAtMostOne
  <2>1. CASE sid = session.id
    <3>1. history'[sid].remediations = log[sid]
      BY <1>3, <1>4, <2>1 DEF ChangesRecorded
    <3>2. Len(log[sid]) \in Nat
      BY DEF Coherent, TypeOK
    <3> QED
      BY <3>1, <3>2
  <2>2. CASE sid # session.id
    BY <1>3, <2>2 DEF Saved, HistoryMissesAtMostOne
  <2> QED
    BY <2>1, <2>2
<1> QED
  BY <1>3, <1>4, <1>5 DEF Saved

(* So does a step that neither saves nor ends a task. *)
LEMMA QuietKeepsSaved ==
    ASSUME Saved, RecordsNoFix, history' = history,
           ~AtRest' \/ (AtRest /\ session' = session),
           task.at = "verify" => task'.at = "failed" \/ state' = "error",
           task.at = "failed" => state' = "error",
           state = "error" => state' = "error" /\ task'.at = task.at
    PROVE  Saved'
<1>1. session'.id = session.id /\ session'.remediations = session.remediations /\ log' = log
  BY DEF RecordsNoFix
<1>2. HasSession' => HasSession
  BY <1>1 DEF HasSession
<1> QED
  BY <1>1, <1>2 DEF Saved, HistoryMissesAtMostOne

(* While a fix runs, History holds all the others. *)
LEMMA ExecuteFixSaved ==
    ASSUME Coherent, ChangesRecorded, Core, Saved, NEW success \in BOOLEAN,
           ExecuteFix(success)
    PROVE  Saved'
<1> DEFINE outcome == [tool |-> pending, success |-> success]
<1>1. /\ task.at = "execute" /\ task'.at = "verify"
      /\ pending \in Fixes
      /\ session.id \in SessionIds
      /\ log' = [log EXCEPT ![session.id] = Append(@, outcome)]
      /\ HasSession /\ state # "error"
  BY ExecuteFixFacts, WorkingCore
<1>2. session'.id = session.id /\ history' = history
  BY <1>1, FixRecordedFacts DEF ExecuteFix, Coherent, TypeOK
<1>3. history[session.id].remediations = log[session.id]
  BY <1>1 DEF Saved, ChangesRecorded
<1>4. log \in [SessionIds -> Seq(Remediation)] /\ outcome \in Remediation
  BY <1>1 DEF Coherent, TypeOK, Remediation
<1> HIDE DEF outcome
<1>5. HistoryMissesAtMostOne'
  <2> SUFFICES ASSUME NEW sid \in SessionIds
               PROVE  Len(log'[sid]) <= Len(history[sid].remediations) + 1
    BY <1>2 DEF HistoryMissesAtMostOne
  <2>1. CASE sid = session.id
    <3>1. log[sid] \in Seq(Remediation) /\ log'[sid] = Append(log[sid], outcome)
      BY <1>1, <1>4, <2>1
    <3>2. Len(log'[sid]) = Len(log[sid]) + 1 /\ Len(log[sid]) \in Nat
      BY <1>4, <3>1
    <3> QED
      BY <1>3, <2>1, <3>2
  <2>2. CASE sid # session.id
    <3>1. log'[sid] = log[sid]
      BY <1>1, <1>4, <2>2
    <3> QED
      BY <3>1 DEF Saved, HistoryMissesAtMostOne
  <2> QED
    BY <2>1, <2>2
<1>6. ~AtRest'
  BY <1>1, NoTaskFacts DEF AtRest
<1> QED
  BY <1>1, <1>5, <1>6 DEF Saved

(* Every step keeps History up to date, where no write fails. *)
LEMMA NextSaved ==
    ASSUME "shortcut" \notin Environment, "save_fails" \notin Environment,
           Coherent, ChangesRecorded, Core, Saved, [Next]_vars
    PROVE  Saved'
<1>1. CASE (WorkerStep \/ WorkerRaises) /\ ~ \E success \in BOOLEAN : ExecuteFix(success)
  <2>1. task \in Task /\ task'.kind = task.kind /\ state' = state
    BY <1>1, WorkerKeepsKind DEF Coherent
  <2>2. RecordsNoFix /\ HasSession /\ state # "error"
    BY <1>1, <2>1, WorkerRecordsNoFix, WorkingCore
  <2>3. CASE Ends
    <3>1. Save(session')
      BY <2>3, EndsSave DEF Coherent
    <3> QED
      BY <2>2, <3>1, SaveKeepsSaved
  <2>4. CASE ~Ends
    <3>1. /\ history' = history
          /\ task'.at # "done" /\ task.at # "failed"
          /\ task.at = "verify" => task'.at = "failed"
      BY <1>1, <2>4, OthersDoNotEnd DEF Coherent
    <3>2. ~AtRest'
      BY <2>1, <3>1, NoTaskFacts DEF AtRest, Task, Kinds
    <3> QED
      BY <2>1, <2>2, <3>1, <3>2, QuietKeepsSaved
  <2> QED
    BY <2>3, <2>4
<1>2. CASE \E success \in BOOLEAN : ExecuteFix(success)
  BY <1>2, ExecuteFixSaved
<1>3. CASE NotNow \/ StopSession
  <2>1. RecordsNoFix /\ HasSession /\ Save(session')
    BY <1>3, ClosingRecordsNoFix, RestingView DEF NotNow, StopSession
  <2> QED
    BY <2>1, SaveKeepsSaved
<1>4. CASE DeliverDone \/ DeliverFailed
  <2>1. /\ RecordsNoFix /\ history' = history /\ session' = session
        /\ task.at \in {"done", "failed"}
        /\ task.at = "failed" => state' = "error"
    BY <1>4, OtherHandlersRecordNoFix DEF DeliverDone, DeliverFailed
  <2>2. task \in Task
    BY <2>1, TaskAtStep DEF Coherent, Steps
  <2>3. state # "error" /\ HasSession
    BY <2>2, WorkingCore
  <2>4. task.at = "done" => AtRest
    BY <2>3 DEF AtRest
  <2>5. task.at = "failed" => ~AtRest'
    BY <2>1 DEF AtRest
  <2> QED
    BY <2>1, <2>3, <2>4, <2>5, QuietKeepsSaved
<1>5. CASE \E sid \in SessionIds, setting \in Providers : StartSession(sid, setting)
  <2>1. PICK sid \in SessionIds, setting \in Providers : StartSession(sid, setting)
    BY <1>5
  <2>2. /\ session'.id = sid /\ session'.remediations = <<>>
        /\ history' = history /\ log' = log /\ history[sid] = NoRow
        /\ task'.at = "begin"
    BY <2>1, NewSessionFacts DEF StartSession, Fresh, Runs
  <2>3. history[sid].remediations = <<>>
    BY <2>2, NoSessionFacts DEF NoRow
  <2>4. ~AtRest'
    BY <2>2, NoTaskFacts DEF AtRest
  <2> QED
    BY <2>2, <2>3, <2>4 DEF Saved, HistoryMissesAtMostOne
<1>6. CASE ContinueInvestigation \/ \E i \in DOMAIN dialogs : ApplyFix(i)
  <2>1. task = NoTask /\ state \in {"diagnosed", "result"} /\ HasSession /\ ~busy
    <3>1. CASE ContinueInvestigation
      BY <3>1, RestingView DEF ContinueInvestigation, Coherent, ViewMatchesState
    <3>2. CASE \E i \in DOMAIN dialogs : ApplyFix(i)
      BY <3>2, ClosedDialog
    <3> QED
      BY <1>6, <3>1, <3>2
  <2>2. RecordsNoFix /\ history' = history /\ task'.at = "begin"
    <3>1. RecordsNoFix
      BY <1>6, OtherHandlersRecordNoFix
    <3>2. history' = history
      BY <1>6 DEF ContinueInvestigation, ApplyFix
    <3>3. CASE ContinueInvestigation
      BY <3>1, <3>2, <3>3 DEF ContinueInvestigation, Runs
    <3>4. CASE \E i \in DOMAIN dialogs : ApplyFix(i)
      <4>1. Runs("remediate")
        BY <2>1, <3>4 DEF ApplyFix
      <4> QED
        BY <3>1, <3>2, <4>1 DEF Runs
    <3> QED
      BY <1>6, <3>3, <3>4
  <2>3. ~AtRest'
    BY <2>2, NoTaskFacts DEF AtRest
  <2> QED
    BY <2>1, <2>2, <2>3, NoTaskFacts, QuietKeepsSaved
<1>7. CASE Relaunch
  <2>1. ~HasSession' /\ UNCHANGED <<history, log>>
    BY <1>7, NoSessionFacts DEF Relaunch, HasSession
  <2> QED
    BY <2>1 DEF Saved, AtRest, HistoryMissesAtMostOne
<1>8. CASE \/ ApproveFix \/ TryAgain \/ (\E i \in DOMAIN dialogs : CancelDialog(i))
           \/ LeavePage \/ ReviewFix \/ BackToDiagnosis \/ ShowPage \/ PressCancel
           \/ CloseWindow \/ UNCHANGED vars
  <2>1. UNCHANGED <<state, session, task, history, log>>
    BY <1>8 DEF ApproveFix, TryAgain, Confirm, CancelDialog, LeavePage, ReviewFix,
           BackToDiagnosis, ShowPage, PressCancel, CloseWindow
  <2> QED
    BY <2>1 DEF Saved, AtRest, HasSession, HistoryMissesAtMostOne
<1> QED
  BY <1>1, <1>2, <1>3, <1>4, <1>5, <1>6, <1>7, <1>8 DEF Next

(* Where no write fails, the session at rest is the one History holds, and  *)
(* a crash loses at most the fix that was being verified.                   *)
THEOREM AlwaysSaved ==
    ASSUME "shortcut" \notin Environment, "save_fails" \notin Environment
    PROVE  Spec => []Saved
<1>1. Init => Saved
  <2> SUFFICES ASSUME Init
               PROVE  Saved
    OBVIOUS
  <2>1. ~HasSession
    BY NoSessionFacts DEF Init, HasSession
  <2>2. HistoryMissesAtMostOne
    BY NoSessionFacts DEF Init, NoRow, HistoryMissesAtMostOne
  <2> QED
    BY <2>1, <2>2 DEF Saved, AtRest
<1>2. Coherent /\ ChangesRecorded /\ Core /\ Saved /\ [Next]_vars => Saved'
  BY NextSaved
<1> QED
  BY <1>1, <1>2, AlwaysCore, PTL DEF Spec

(* Whatever the user sees at rest is also what History holds. *)
THEOREM HistoryIsCurrent ==
    ASSUME "shortcut" \notin Environment, "save_fails" \notin Environment
    PROVE  Spec => []HistoryCurrentAtRest
<1>1. Saved => HistoryCurrentAtRest
  BY DEF Saved, HistoryCurrentAtRest, Resting, AtRest, Working
<1> QED
  BY <1>1, AlwaysSaved, PTL

(* A crash loses at most the fix that was being verified. *)
THEOREM CrashLosesAtMostOneFix ==
    ASSUME "shortcut" \notin Environment, "save_fails" \notin Environment
    PROVE  Spec => []HistoryMissesAtMostOne
<1>1. Saved => HistoryMissesAtMostOne
  BY DEF Saved
<1> QED
  BY <1>1, AlwaysSaved, PTL

-----------------------------------------------------------------------------
(* A declined session                                                      *)

(* The agent writes no decline into the session of its task. *)
LEMMA WorkerDoesNotDecline ==
    ASSUME Coherent, WorkerStep \/ WorkerRaises
    PROVE  session'.approval_status \in {session.approval_status, "approved"}
<1>1. session \in Session
  BY DEF Coherent, TypeOK
<1>2. CASE \/ BeginDiagnosis \/ FollowUp
           \/ \E t \in Tools : StartCheck(t) \/ \E ok \in BOOLEAN : FinishCheck(t, ok)
           \/ \E understood, quick \in BOOLEAN : PlanChecks(understood, quick)
  <2>1. CASE BeginDiagnosis
    BY <1>1, <2>1, ChecksKeepRecord DEF BeginDiagnosis, SameRecord
  <2>2. CASE FollowUp
    BY <1>1, <2>2, ChecksKeepRecord DEF FollowUp, SameRecord
  <2>3. CASE \E t \in Tools : StartCheck(t) \/ \E ok \in BOOLEAN : FinishCheck(t, ok)
    BY <1>1, <2>3, ChecksKeepRecord DEF StartCheck, FinishCheck, SameRecord
  <2>4. CASE \E understood, quick \in BOOLEAN : PlanChecks(understood, quick)
    BY <1>1, <2>4, ChecksKeepRecord DEF PlanChecks, SameRecord
  <2> QED
    BY <1>2, <2>1, <2>2, <2>3, <2>4
<1>3. CASE CancelSeen
  BY <1>1, <1>3 DEF CancelSeen, Cancelled, Session
<1>4. CASE ChecksDone \/ Analyze \/ WorkerRaises
  BY <1>4 DEF ChecksDone, Analyze, WorkerRaises
<1>5. CASE \E healthy \in BOOLEAN : Conclude(healthy)
  <2>1. PICK healthy \in BOOLEAN :
            \E p \in ProposalLists(healthy, Tried(session)) :
                session' = Recommended(Analyzed(session, transmission), p, healthy)
    BY <1>5 DEF Conclude
  <2> QED
    BY <1>1, <2>1 DEF Recommended, Analyzed, Session
<1>6. CASE BeginRemediation
  BY <1>1, <1>6 DEF BeginRemediation, Approved, Session
<1>7. CASE \E success \in BOOLEAN : ExecuteFix(success)
  BY <1>1, <1>7 DEF ExecuteFix, FixRecorded, Session
<1>8. CASE VerifyFix
  BY <1>1, <1>8 DEF VerifyFix, Verified, Session
<1>9. CASE BeginContinue
  BY <1>1, <1>9, ChecksKeepRecord DEF BeginContinue, SameRecord
<1> QED
  BY <1>2, <1>3, <1>4, <1>5, <1>6, <1>7, <1>8, <1>9 DEF WorkerStep

(* What can happen to a program whose session was declined. *)
LEMMA AfterDecline ==
    ASSUME "shortcut" \notin Environment, Coherent, Core, DeclinedIsOver, [Next]_vars,
           session.approval_status = "declined"
    PROVE  \/ \E sid \in SessionIds, setting \in Providers : StartSession(sid, setting)
           \/ Relaunch
           \/ UNCHANGED <<state, session, task, dialogs>>
<1>1. HasSession /\ state = "idle" /\ task = NoTask /\ dialogs = <<>>
  BY DEF DeclinedIsOver
<1>2. task \notin Task /\ task.at = "none"
  BY <1>1, NoTaskFacts
<1>3. view \notin {"diagnosis", "fix", "result"}
  BY <1>1 DEF Coherent, ViewMatchesState
<1>4. ~WorkerStep /\ ~WorkerRaises
  BY <1>2, WorkerKeepsKind DEF Coherent
<1>5. ~DeliverDone /\ ~DeliverFailed
  BY <1>2 DEF DeliverDone, DeliverFailed
<1>6. /\ ~NotNow /\ ~StopSession /\ ~ApproveFix /\ ~TryAgain /\ ~ContinueInvestigation
      /\ ~ReviewFix /\ ~BackToDiagnosis
  BY <1>3 DEF NotNow, StopSession, ApproveFix, TryAgain, ContinueInvestigation,
     ReviewFix, BackToDiagnosis
<1>7. DOMAIN dialogs = {}
  BY <1>1
<1>8. CASE PressCancel \/ LeavePage \/ ShowPage \/ CloseWindow \/ UNCHANGED vars
  BY <1>8 DEF PressCancel, LeavePage, ShowPage, CloseWindow
<1> QED
  BY <1>4, <1>5, <1>6, <1>7, <1>8 DEF Next

(* Every step keeps a declined session out of reach. *)
LEMMA NextDeclined ==
    ASSUME "shortcut" \notin Environment, Coherent, Core, DeclinedIsOver, [Next]_vars
    PROVE  DeclinedIsOver'
<1>1. CASE \/ \E sid \in SessionIds, setting \in Providers : StartSession(sid, setting)
           \/ Relaunch
  BY <1>1 DEF StartSession, Relaunch, NoSession, NewSession, DeclinedIsOver
<1>2. CASE UNCHANGED <<state, session, task, dialogs>>
  BY <1>2 DEF DeclinedIsOver, HasSession
<1>3. CASE session.approval_status # "declined"
  <2>1. CASE NotNow
    <3>1. dialogs' = <<>> /\ task' = NoTask /\ state' = "idle"
      BY <2>1, PageMeansNoDialog, RestingView DEF NotNow
    <3>2. session'.id = session.id /\ HasSession
      BY <2>1, RestingView, DeclinedFacts DEF NotNow, SameSession, Coherent, TypeOK
    <3> QED
      BY <3>1, <3>2 DEF DeclinedIsOver, HasSession
  <2>2. CASE ~NotNow
    <3>1. session'.approval_status # "declined"
      <4>1. CASE WorkerStep \/ WorkerRaises
        BY <1>3, <4>1, WorkerDoesNotDecline
      <4>2. CASE StopSession
        BY <1>3, <4>2 DEF StopSession, StoppedByUser, Coherent, TypeOK, Session
      <4>3. CASE \/ \E sid \in SessionIds, setting \in Providers : StartSession(sid, setting)
                 \/ Relaunch
        BY <4>3 DEF StartSession, Relaunch, NoSession, NewSession
      <4>4. CASE session' = session
        BY <1>3, <4>4
      <4>5. CASE \/ DeliverDone \/ DeliverFailed \/ PressCancel \/ ReviewFix
                 \/ BackToDiagnosis \/ ApproveFix \/ TryAgain
                 \/ \E i \in DOMAIN dialogs : CancelDialog(i) \/ ApplyFix(i)
                 \/ ContinueInvestigation \/ LeavePage \/ ShowPage \/ CloseWindow
                 \/ UNCHANGED vars
        <5>1. session' = session
          BY <4>5 DEF DeliverDone, DeliverFailed, PressCancel, ReviewFix, BackToDiagnosis,
             ApproveFix, TryAgain, Confirm, CancelDialog, ApplyFix, ContinueInvestigation,
             LeavePage, ShowPage, CloseWindow
        <5> QED
          BY <4>4, <5>1
      <4> QED
        BY <2>2, <4>1, <4>2, <4>3, <4>5 DEF Next
    <3> QED
      BY <3>1 DEF DeclinedIsOver
  <2> QED
    BY <2>1, <2>2
<1> QED
  BY <1>1, <1>2, <1>3, AfterDecline

(* A session the user declined a fix in is not changed any more.            *)
THEOREM DeclinesAreFinal ==
    ASSUME "shortcut" \notin Environment
    PROVE  Spec => DeclineIsFinal
<1>1. Init => DeclinedIsOver
  BY DEF Init, NoSession, NewSession, DeclinedIsOver
<1>2. Coherent /\ Core /\ DeclinedIsOver /\ [Next]_vars => DeclinedIsOver'
  BY NextDeclined
<1>3. Coherent /\ Core /\ DeclinedIsOver /\ [Next]_vars =>
          [session.approval_status = "declined" =>
             session' = session \/ session'.id # session.id]_vars
  <2> SUFFICES ASSUME Coherent, Core, DeclinedIsOver, [Next]_vars,
                      session.approval_status = "declined"
               PROVE  session' = session \/ session'.id # session.id
    OBVIOUS
  <2>1. HasSession
    BY DEF DeclinedIsOver
  <2>2. CASE \E sid \in SessionIds, setting \in Providers : StartSession(sid, setting)
    BY <2>2, NewSessionFacts DEF StartSession, Fresh
  <2>3. CASE Relaunch
    BY <2>1, <2>3, NoSessionFacts DEF Relaunch, HasSession
  <2> QED
    BY <2>2, <2>3, AfterDecline
<1> QED
  BY <1>1, <1>2, <1>3, AlwaysCore, PTL DEF Spec, DeclineIsFinal

-----------------------------------------------------------------------------
(* A session at rest                                                       *)

(* What queueing does to the checks under way. *)
LEMMA QueueOpens ==
    ASSUME NEW s \in Session, NEW tools
    PROVE  /\ ChecksIn(s, "running") = {} => ChecksIn(QueueChecks(s, tools), "running") = {}
           /\ tools = {} => ChecksOpen(QueueChecks(s, tools)) = ChecksOpen(s)
           /\ ChecksOpen(QueueChecks(s, tools)) \subseteq ChecksOpen(s) \cup tools
BY DEF ChecksIn, ChecksOpen, QueueChecks, Session

(* What starting a check does to the ones under way. *)
LEMMA StartOpens ==
    ASSUME NEW s \in Session, NEW t \in Tools
    PROVE  /\ ChecksIn(s, "running") = {} => ChecksIn(CheckStarted(s, t), "running") = {t}
           /\ ChecksOpen(CheckStarted(s, t)) = ChecksOpen(s) \cup {t}
           /\ CheckStarted(s, t).diagnostics = s.diagnostics
<1>1. /\ s.checks \in [Tools -> CheckStatuses]
      /\ CheckStarted(s, t).checks = [s.checks EXCEPT ![t] = "running"]
      /\ CheckStarted(s, t).diagnostics = s.diagnostics
  BY DEF Session, CheckStarted
<1> QED
  BY <1>1 DEF ChecksIn, ChecksOpen

(* What finishing a check does to the ones under way. *)
LEMMA FinishCloses ==
    ASSUME NEW s \in Session, NEW t \in Tools, NEW ok \in BOOLEAN
    PROVE  /\ ChecksIn(s, "running") = {t} => ChecksIn(CheckFinished(s, t, ok), "running") = {}
           /\ ChecksOpen(CheckFinished(s, t, ok)) = ChecksOpen(s) \ {t}
<1>1. /\ s.checks \in [Tools -> CheckStatuses]
      /\ CheckFinished(s, t, ok).checks =
             [s.checks EXCEPT ![t] = IF ok THEN "completed" ELSE "failed"]
  BY DEF Session, CheckFinished
<1> QED
  BY <1>1 DEF ChecksIn, ChecksOpen

(* The order of checks is a matter of the task's step and the checks alone. *)
LEMMA ChecksKept ==
    ASSUME ChecksInOrder, session'.checks = session.checks,
           task'.at \notin {"checks", "checking"},
           state = "error" => state' = "error" \/ ChecksOpen(session) = {},
           task.at \in {"checks", "checking", "failed"} =>
               task'.at = "failed" \/ state' = "error" \/ ChecksOpen(session) = {}
    PROVE  ChecksInOrder'
BY DEF ChecksInOrder, ChecksOpen, ChecksIn

(* The steps of a task keep its checks in order: one runs at a time, and    *)
(* none is left under way when the task ends.                               *)
LEMMA WorkerChecksInOrder ==
    ASSUME Coherent, Core, ChecksInOrder, WorkerStep \/ WorkerRaises
    PROVE  ChecksInOrder'
<1>1. /\ session \in Session /\ task \in Task
      /\ state' = state /\ state # "error"
  BY WorkerKeepsKind, WorkingCore DEF Coherent, TypeOK
<1>2. \A step \in Steps : Goes(step) => task'.at = step
  BY <1>1, GoesFacts
<1>3. task.at \notin {"checks", "checking", "failed"} => ChecksOpen(session) = {}
  BY <1>1 DEF ChecksInOrder
<1>4. ChecksOpen(session) = {} => ChecksIn(session, "running") = {}
  BY DEF ChecksOpen
<1>5. CASE BeginDiagnosis
  BY <1>1, <1>2, <1>3, <1>5, ChecksKept DEF BeginDiagnosis, Diagnosing, Session, Steps
<1>6. CASE \E understood, quick \in BOOLEAN : PlanChecks(understood, quick)
  <2>1. task'.at = "checks" /\ task.at = "plan"
    BY <1>1, <1>6 DEF PlanChecks, Task
  <2>2. ChecksIn(session', "running") = {}
    BY <1>1, <1>3, <1>4, <1>6, <2>1, QueueOpens DEF PlanChecks
  <2> QED
    BY <2>1, <2>2 DEF ChecksInOrder
<1>7. CASE \E t \in Tools : StartCheck(t)
  <2>1. PICK t \in Tools : StartCheck(t)
    BY <1>7
  <2>2. CASE StepAllowed(session)
    <3>1. task'.at = "checking" /\ session' = CheckStarted(session, t)
      BY <1>2, <2>1, <2>2 DEF StartCheck, Steps
    <3>2. ChecksIn(session', "running") = {t}
      BY <1>1, <2>1, <3>1, StartOpens DEF StartCheck, ChecksInOrder
    <3> QED
      BY <3>1, <3>2 DEF ChecksInOrder
  <2>3. CASE ~StepAllowed(session)
    <3>1. task'.at = "failed"
      BY <1>2, <2>1, <2>3 DEF StartCheck, Steps
    <3> QED
      BY <3>1 DEF ChecksInOrder
  <2> QED
    BY <2>2, <2>3
<1>8. CASE \E t \in Tools, ok \in BOOLEAN : FinishCheck(t, ok)
  <2>1. PICK t \in Tools, ok \in BOOLEAN : FinishCheck(t, ok)
    BY <1>8
  <2>2. task'.at = "checks" /\ session' = CheckFinished(session, t, ok)
    BY <1>2, <2>1 DEF FinishCheck, Steps
  <2>3. ChecksIn(session, "running") = {t}
    BY <2>1 DEF FinishCheck, ChecksInOrder
  <2>4. ChecksIn(session', "running") = {}
    BY <1>1, <2>2, <2>3, FinishCloses
  <2> QED
    BY <2>2, <2>4 DEF ChecksInOrder
<1>9. CASE CancelSeen
  <2>1. ChecksOpen(session') = {}
    BY <1>1, <1>9 DEF CancelSeen, Cancelled, ChecksOpen, ChecksIn, Session
  <2>2. task'.at = "done"
    BY <1>2, <1>9 DEF CancelSeen, Steps
  <2> QED
    BY <2>1, <2>2 DEF ChecksInOrder
<1>10. CASE ChecksDone
  <2>1. ChecksOpen(session) = {} /\ session' = session
    BY <1>10 DEF ChecksDone, ChecksInOrder, ChecksOpen
  <2>2. task'.at \in {"follow_up", "analyze"}
    BY <1>2, <1>10 DEF ChecksDone, Steps
  <2> QED
    BY <2>1, <2>2, ChecksKept
<1>11. CASE FollowUp
  <2>1. PICK tools : /\ session' = QueueChecks(session, tools)
                     /\ task' = IF tools = {} THEN [task EXCEPT !.at = "analyze"]
                                ELSE [task EXCEPT !.at = "checks", !.rounds = @ - 1]
    BY <1>11 DEF FollowUp
  <2>2. ChecksOpen(session) = {}
    BY <1>3, <1>11 DEF FollowUp
  <2>3. CASE tools = {}
    <3>1. task'.at = "analyze"
      BY <1>1, <2>1, <2>3 DEF Task
    <3>2. ChecksOpen(session') = {}
      BY <1>1, <2>1, <2>2, <2>3, QueueOpens
    <3> QED
      BY <3>1, <3>2 DEF ChecksInOrder
  <2>4. CASE tools # {}
    <3>1. task'.at = "checks"
      BY <1>1, <2>1, <2>4 DEF Task
    <3>2. ChecksIn(session', "running") = {}
      BY <1>1, <1>4, <2>1, <2>2, QueueOpens
    <3> QED
      BY <3>1, <3>2 DEF ChecksInOrder
  <2> QED
    BY <2>3, <2>4
<1>12. CASE Analyze
  BY <1>1, <1>2, <1>3, <1>12, ChecksKept DEF Analyze, Steps
<1>13. CASE \E healthy \in BOOLEAN : Conclude(healthy)
  <2>1. PICK healthy \in BOOLEAN :
            /\ \E p \in ProposalLists(healthy, Tried(session)) :
                   session' = Recommended(Analyzed(session, transmission), p, healthy)
            /\ task.at = "conclude" /\ Goes("done")
    BY <1>13 DEF Conclude
  <2>2. session'.checks = session.checks
    BY <1>1, <2>1 DEF Recommended, Analyzed, Session
  <2> QED
    BY <1>1, <1>2, <1>3, <2>1, <2>2, ChecksKept DEF Steps
<1>14. CASE BeginRemediation
  <2>1. session'.checks = session.checks
    BY <1>1, <1>14 DEF BeginRemediation, Approved, Session
  <2> QED
    BY <1>1, <1>2, <1>3, <1>14, <2>1, ChecksKept DEF BeginRemediation, Steps
<1>15. CASE \E success \in BOOLEAN : ExecuteFix(success)
  <2>1. session'.checks = session.checks
    BY <1>1, <1>15 DEF ExecuteFix, FixRecorded, Session
  <2> QED
    BY <1>1, <1>2, <1>3, <1>15, <2>1, ChecksKept DEF ExecuteFix, Steps
<1>16. CASE VerifyFix
  <2>1. session'.checks = session.checks
    BY <1>1, <1>16 DEF VerifyFix, Verified, Session
  <2> QED
    BY <1>1, <1>2, <1>3, <1>16, <2>1, ChecksKept DEF VerifyFix, Steps
<1>17. CASE BeginContinue
  <2>1. CASE ~AttemptAllowed(session)
    BY <1>1, <1>2, <1>3, <1>17, <2>1, ChecksKept DEF BeginContinue, Steps
  <2>2. CASE AttemptAllowed(session)
    <3>1. PICK tools : session' = QueueChecks(CarriedForward(session), tools)
      BY <1>17, <2>2 DEF BeginContinue
    <3>2. task'.at = "checks" /\ task.at = "begin"
      BY <1>1, <1>17, <2>2 DEF BeginContinue, Task
    <3>3. /\ CarriedForward(session) \in Session
          /\ CarriedForward(session).checks = session.checks
      BY <1>1, CarriedForwardFacts DEF SameSession, CarriedForward, Session
    <3>4. ChecksIn(CarriedForward(session), "running") = {}
      BY <1>3, <1>4, <3>2, <3>3 DEF ChecksIn
    <3>5. ChecksIn(session', "running") = {}
      BY <3>1, <3>3, <3>4, QueueOpens
    <3> QED
      BY <3>2, <3>5 DEF ChecksInOrder
  <2> QED
    BY <2>1, <2>2
<1>18. CASE WorkerRaises
  <2>1. task'.at = "failed"
    BY <1>2, <1>18 DEF WorkerRaises, Steps
  <2> QED
    BY <2>1 DEF ChecksInOrder
<1> QED
  BY <1>5, <1>6, <1>7, <1>8, <1>9, <1>10, <1>11, <1>12, <1>13, <1>14, <1>15, <1>16,
     <1>17, <1>18 DEF WorkerStep

(* The steps that end a task leave a session the user can make sense of. *)
LEMMA EndsSettled ==
    ASSUME Coherent, Core, Ends
    PROVE  Settled(session')
<1>1. session \in Session
  BY DEF Coherent, TypeOK
<1>2. CASE CancelSeen
  BY <1>1, <1>2 DEF CancelSeen, Cancelled, Settled, Session
<1>3. CASE VerifyFix
  <2>1. PICK v \in Verifications(session) : session' = Verified(session, v)
    BY <1>3 DEF VerifyFix
  <2>2. /\ session'.status \in {"resolved", "unresolved"}
        /\ \/ session'.result = "resolved" /\ session'.finished_at
           \/ session'.result = "not_resolved"
    BY <1>1, <2>1 DEF Verified, Session
  <2> QED
    BY <2>2 DEF Settled
<1>4. CASE \E healthy \in BOOLEAN : Conclude(healthy)
  <2>1. PICK healthy \in BOOLEAN :
            \E p \in ProposalLists(healthy, Tried(session)) :
                session' = Recommended(Analyzed(session, transmission), p, healthy)
    BY <1>4 DEF Conclude
  <2> QED
    BY <1>1, <2>1 DEF Recommended, Analyzed, Settled, Session
<1> QED
  BY <1>2, <1>3, <1>4 DEF Ends

(* Every step keeps what is true of a session at rest. *)
LEMMA NextSettled ==
    ASSUME "shortcut" \notin Environment, Coherent, Core, ChecksInOrder, SettledAtRest,
           [Next]_vars
    PROVE  ChecksInOrder' /\ SettledAtRest'
<1>1. CASE WorkerStep \/ WorkerRaises
  <2>1. task \in Task /\ task'.kind = task.kind
    BY <1>1, WorkerKeepsKind DEF Coherent
  <2>2. ~Ends => ~AtRest'
    BY <1>1, <2>1, OthersDoNotEnd, NoTaskFacts DEF AtRest, Coherent, Task, Kinds
  <2> QED
    BY <1>1, <2>2, EndsSettled, WorkerChecksInOrder DEF SettledAtRest
<1>2. CASE DeliverDone \/ DeliverFailed
  <2>1. /\ task.at \in {"done", "failed"} /\ session' = session
        /\ task'.at = "none"
        /\ task.at = "failed" => state' = "error"
    BY <1>2, NoTaskFacts DEF DeliverDone, DeliverFailed
  <2>2. state # "error" /\ HasSession
    BY <2>1, TaskAtStep, WorkingCore DEF Coherent, Steps
  <2>3. ChecksInOrder'
    BY <2>1, <2>2, ChecksKept
  <2>4. AtRest' => AtRest
    BY <2>1, <2>2 DEF AtRest
  <2> QED
    BY <2>1, <2>3, <2>4 DEF SettledAtRest
<1>3. CASE \/ \E sid \in SessionIds, setting \in Providers : StartSession(sid, setting)
           \/ Relaunch
  <2>1. /\ \E sid \in SessionIds \cup {NoSessionId} : session' = NewSession(sid)
        /\ task'.at = "begin" \/ (~HasSession' /\ task'.at = "none")
    <3>1. CASE \E sid \in SessionIds, setting \in Providers : StartSession(sid, setting)
      <4>1. PICK sid \in SessionIds, setting \in Providers : StartSession(sid, setting)
        BY <3>1
      <4>2. session' = NewSession(sid) /\ Runs("diagnose")
        BY <4>1 DEF StartSession
      <4>3. task'.at = "begin"
        BY <4>2 DEF Runs
      <4>4. \E x \in SessionIds \cup {NoSessionId} : session' = NewSession(x)
        BY <4>2
      <4> QED
        BY <4>3, <4>4
    <3>2. CASE Relaunch
      <4>1. session' = NewSession(NoSessionId) /\ task' = NoTask
        BY <3>2 DEF Relaunch, NoSession
      <4>2. ~HasSession'
        BY <3>2, NoSessionFacts DEF Relaunch, HasSession
      <4> QED
        BY <4>1, <4>2, NoTaskFacts
    <3> QED
      BY <1>3, <3>1, <3>2
  <2>2. ChecksOpen(session') = {}
    BY <2>1 DEF NewSession, ChecksOpen, ChecksIn
  <2>3. ~AtRest'
    BY <2>1, NoTaskFacts DEF AtRest
  <2> QED
    BY <2>1, <2>2, <2>3 DEF ChecksInOrder, SettledAtRest
<1>4. CASE NotNow \/ StopSession
  <2>1. session \in Session /\ HasSession /\ task = NoTask /\ state # "error"
    BY <1>4, RestingView DEF NotNow, StopSession, Coherent, TypeOK, ViewMatchesState
  <2>2. Settled(session)
    BY <2>1 DEF SettledAtRest, AtRest
  <2>3. session'.checks = session.checks /\ task' = task /\ state' = "idle"
    BY <1>4, <2>1 DEF NotNow, StopSession, Declined, StoppedByUser, Session
  <2>4. ChecksInOrder'
    BY <2>1, <2>3, NoTaskFacts, ChecksKept
  <2>5. Settled(session')
    <3>1. CASE NotNow
      BY <2>1, <3>1 DEF NotNow, Declined, Settled, Session
    <3>2. CASE StopSession
      BY <2>1, <2>2, <3>2 DEF StopSession, StoppedByUser, Settled, Session
    <3> QED
      BY <1>4, <3>1, <3>2
  <2> QED
    BY <2>4, <2>5 DEF SettledAtRest
<1>5. CASE ContinueInvestigation \/ \E i \in DOMAIN dialogs : ApplyFix(i)
  <2>1. task = NoTask /\ state \in {"diagnosed", "result"} /\ HasSession /\ ~busy
    <3>1. CASE ContinueInvestigation
      BY <3>1, RestingView DEF ContinueInvestigation, Coherent, ViewMatchesState
    <3>2. CASE \E i \in DOMAIN dialogs : ApplyFix(i)
      BY <3>2, ClosedDialog
    <3> QED
      BY <1>5, <3>1, <3>2
  <2>2. session' = session /\ task'.at = "begin"
    <3>1. CASE ContinueInvestigation
      BY <3>1 DEF ContinueInvestigation, Runs
    <3>2. CASE \E i \in DOMAIN dialogs : ApplyFix(i)
      <4>1. Runs("remediate") /\ session' = session
        BY <2>1, <3>2 DEF ApplyFix
      <4> QED
        BY <4>1 DEF Runs
    <3> QED
      BY <1>5, <3>1, <3>2
  <2>3. ~AtRest'
    BY <2>2, NoTaskFacts DEF AtRest
  <2> QED
    BY <2>1, <2>2, <2>3, NoTaskFacts, ChecksKept DEF SettledAtRest
<1>6. CASE \/ ApproveFix \/ TryAgain \/ (\E i \in DOMAIN dialogs : CancelDialog(i))
           \/ LeavePage \/ ReviewFix \/ BackToDiagnosis \/ ShowPage \/ PressCancel
           \/ CloseWindow \/ UNCHANGED vars
  <2>1. UNCHANGED <<state, session, task>>
    BY <1>6 DEF ApproveFix, TryAgain, Confirm, CancelDialog, LeavePage, ReviewFix,
           BackToDiagnosis, ShowPage, PressCancel, CloseWindow
  <2> QED
    BY <2>1 DEF ChecksInOrder, ChecksOpen, ChecksIn, SettledAtRest, AtRest, HasSession,
           Settled
<1> QED
  BY <1>1, <1>2, <1>3, <1>4, <1>5, <1>6 DEF Next

(* A session at rest is settled, and checks run one at a time.              *)
THEOREM AlwaysSettled ==
    ASSUME "shortcut" \notin Environment
    PROVE  Spec => [](ChecksInOrder /\ SettledAtRest)
<1>1. Init => ChecksInOrder /\ SettledAtRest
  <2> SUFFICES ASSUME Init
               PROVE  ChecksInOrder /\ SettledAtRest
    OBVIOUS
  <2>1. ~HasSession
    BY NoSessionFacts DEF Init, HasSession
  <2>2. ChecksOpen(session) = {} /\ task.at = "none"
    BY NoTaskFacts DEF Init, NoSession, NewSession, ChecksOpen, ChecksIn
  <2> QED
    BY <2>1, <2>2 DEF ChecksInOrder, SettledAtRest, AtRest
<1>2. Coherent /\ Core /\ ChecksInOrder /\ SettledAtRest /\ [Next]_vars =>
          ChecksInOrder' /\ SettledAtRest'
  BY NextSettled
<1> QED
  BY <1>1, <1>2, AlwaysCore, PTL DEF Spec

(* When no task runs, no check is left under way, no phase of the agent is  *)
(* left open, a session in progress has a fix to decide on and a closed one *)
(* its time.                                                                *)
THEOREM SessionsAreSettled ==
    ASSUME "shortcut" \notin Environment
    PROVE  Spec => []RestingSessionSettled
<1>1. ChecksInOrder /\ SettledAtRest => RestingSessionSettled
  <2> SUFFICES ASSUME ChecksInOrder, SettledAtRest, Resting
               PROVE  ChecksOpen(session) = {} /\ Settled(session)
    BY DEF RestingSessionSettled, ChecksOpen, Settled
  <2>1. task = NoTask /\ state # "error" /\ HasSession
    BY DEF Resting, Working
  <2> QED
    BY <2>1, NoTaskFacts DEF ChecksInOrder, SettledAtRest, AtRest
<1> QED
  BY <1>1, AlwaysSettled, PTL

-----------------------------------------------------------------------------
(* The bounds                                                              *)

(* The measured tools and the checks under way are tools, and finitely      *)
(* many.                                                                    *)
LEMMA FinitelyManyChecks ==
    ASSUME NEW s \in Session
    PROVE  /\ s.diagnostics \subseteq Tools /\ IsFiniteSet(s.diagnostics)
           /\ Cardinality(s.diagnostics) \in Nat
           /\ ChecksOpen(s) \subseteq Tools
           /\ \A T \in SUBSET Tools : IsFiniteSet(T) /\ Cardinality(T) \in Nat
<1>1. IsFiniteSet(Tools)
  BY SessionAssumption
<1>2. ASSUME NEW T \in SUBSET Tools
      PROVE  IsFiniteSet(T) /\ Cardinality(T) \in Nat
  BY <1>1, <1>2, FS_Subset, FS_CardinalityType
<1> QED
  BY <1>2 DEF Session, ChecksOpen, ChecksIn

(* New checks that are not measured yet and fit in the budget have room. *)
LEMMA RoomWhenQueued ==
    ASSUME NEW s \in Session, ChecksOpen(s) = {},
           NEW tools \in SUBSET (Tools \ s.diagnostics),
           tools = {} \/ Cardinality(tools) <= Budget(s)
    PROVE  RoomForChecks(QueueChecks(s, tools))
<1>1. /\ QueueChecks(s, tools).diagnostics = s.diagnostics
      /\ ChecksOpen(QueueChecks(s, tools)) \subseteq tools
  BY QueueOpens DEF QueueChecks, Session
<1> DEFINE open == ChecksOpen(QueueChecks(s, tools))
<1>2. open \cap s.diagnostics = {}
  BY <1>1
<1>3. ASSUME open # {}
      PROVE  Cardinality(s.diagnostics \cup open) <= MaxSteps
  <2>1. Cardinality(tools) <= MaxSteps - Cardinality(s.diagnostics)
    BY <1>1, <1>3 DEF Budget
  <2>2. /\ IsFiniteSet(tools) /\ IsFiniteSet(open) /\ IsFiniteSet(s.diagnostics)
        /\ Cardinality(tools) \in Nat /\ Cardinality(open) \in Nat
        /\ Cardinality(s.diagnostics) \in Nat
        /\ Cardinality(s.diagnostics \cap open) \in Nat
    BY <1>1, FinitelyManyChecks
  <2>3. Cardinality(open) <= Cardinality(tools)
    BY <1>1, <2>2, FS_Subset
  <2>4. Cardinality(s.diagnostics \cup open) =
            Cardinality(s.diagnostics) + Cardinality(open)
                - Cardinality(s.diagnostics \cap open)
    BY <2>2, FS_Union
  <2> HIDE DEF open
  <2> QED
    BY <2>1, <2>2, <2>3, <2>4, SessionAssumption
<1> QED
  BY <1>1, <1>2, <1>3 DEF RoomForChecks

(* A check with room for it is allowed; it stays in the room it had. *)
LEMMA RoomWhenStarted ==
    ASSUME NEW s \in Session, RoomForChecks(s), NEW t \in ChecksIn(s, "queued")
    PROVE  StepAllowed(s) /\ RoomForChecks(CheckStarted(s, t))
<1>1. t \in Tools /\ t \in ChecksOpen(s) /\ t \notin s.diagnostics
  BY DEF ChecksIn, ChecksOpen, RoomForChecks
<1>2. Cardinality(s.diagnostics \cup ChecksOpen(s)) <= MaxSteps
  BY <1>1 DEF RoomForChecks
<1>3. Cardinality(s.diagnostics \cup {t}) = Cardinality(s.diagnostics) + 1
  BY <1>1, FinitelyManyChecks, FS_AddElement
<1>4. Cardinality(s.diagnostics \cup {t}) <= Cardinality(s.diagnostics \cup ChecksOpen(s))
  <2>1. /\ IsFiniteSet(s.diagnostics \cup ChecksOpen(s))
        /\ s.diagnostics \cup {t} \subseteq s.diagnostics \cup ChecksOpen(s)
    BY <1>1, FinitelyManyChecks
  <2> QED
    BY <2>1, FS_Subset
<1>5. /\ Cardinality(s.diagnostics) \in Nat
      /\ Cardinality(s.diagnostics \cup ChecksOpen(s)) \in Nat
  BY FinitelyManyChecks
<1>6. StepAllowed(s)
  BY <1>2, <1>3, <1>4, <1>5, SessionAssumption DEF StepAllowed
<1>7. /\ ChecksOpen(CheckStarted(s, t)) = ChecksOpen(s)
      /\ CheckStarted(s, t).diagnostics = s.diagnostics
  <2>1. /\ ChecksOpen(CheckStarted(s, t)) = ChecksOpen(s) \cup {t}
        /\ CheckStarted(s, t).diagnostics = s.diagnostics
    BY <1>1, StartOpens
  <2>2. ChecksOpen(s) \cup {t} = ChecksOpen(s)
    BY <1>1
  <2> QED
    BY <2>1, <2>2
<1> QED
  BY <1>6, <1>7 DEF RoomForChecks

(* A check that has run stays in the room it had. *)
LEMMA RoomWhenFinished ==
    ASSUME NEW s \in Session, RoomForChecks(s), NEW t \in ChecksIn(s, "running"),
           NEW ok \in BOOLEAN
    PROVE  RoomForChecks(CheckFinished(s, t, ok))
<1>1. t \in Tools /\ t \in ChecksOpen(s)
  BY DEF ChecksIn, ChecksOpen
<1>2. /\ ChecksOpen(CheckFinished(s, t, ok)) = ChecksOpen(s) \ {t}
      /\ CheckFinished(s, t, ok).diagnostics = s.diagnostics \cup {t}
  BY <1>1, FinishCloses DEF CheckFinished, Session
<1>3. s.diagnostics \cup {t} \cup (ChecksOpen(s) \ {t}) = s.diagnostics \cup ChecksOpen(s)
  BY <1>1
<1> QED
  BY <1>1, <1>2, <1>3 DEF RoomForChecks

(* What a plan, a round of follow-up checks and a continued investigation   *)
(* queue fits in the budget.                                                *)
LEMMA QueuesFit ==
    ASSUME NEW s \in Session
    PROVE  /\ \A understood, quick \in BOOLEAN : \A tools \in InitialPlans(understood, quick) :
                  tools \in SUBSET Tools /\ Cardinality(tools) <= MaxSteps
           /\ \A tools \in FollowUps(s) :
                  tools \in SUBSET (Tools \ s.diagnostics) /\ Cardinality(tools) <= Budget(s)
           /\ \A tools \in ExtraChecks(s) :
                  /\ tools \in SUBSET (Tools \ s.diagnostics)
                  /\ tools = {} \/ Cardinality(tools) <= Budget(s)
<1>1. Cardinality(s.diagnostics) \in Nat /\ Budget(s) \in Int
  BY FinitelyManyChecks, SessionAssumption DEF Budget
<1>2. \A T \in SUBSET Tools : IsFiniteSet(T) /\ Cardinality(T) \in Nat
  BY FinitelyManyChecks
<1>3. ASSUME NEW understood \in BOOLEAN, NEW quick \in BOOLEAN,
             NEW tools \in InitialPlans(understood, quick)
      PROVE  tools \in SUBSET Tools /\ Cardinality(tools) <= MaxSteps
  <2> DEFINE limit == IF quick THEN QuickLimit
                      ELSE IF understood THEN LargerOf(1, MaxSteps - FollowUpBudget)
                      ELSE MaxSteps
  <2>1. limit \in Int
    BY SessionAssumption DEF LargerOf
  <2>2. tools \in AtMost(SmallerOf(limit, MaxSteps), Tools)
    BY <1>3 DEF InitialPlans
  <2> HIDE DEF limit
  <2>3. /\ tools \in SUBSET Tools
        /\ Cardinality(tools) <= SmallerOf(limit, MaxSteps)
    BY <2>2 DEF AtMost
  <2> QED
    BY <1>2, <2>1, <2>3, SessionAssumption DEF SmallerOf
<1>4. ASSUME NEW tools \in FollowUps(s)
      PROVE  tools \in SUBSET (Tools \ s.diagnostics) /\ Cardinality(tools) <= Budget(s)
  <2>1. /\ tools \in SUBSET (Tools \ s.diagnostics)
        /\ Cardinality(tools) <= SmallerOf(Budget(s), MaxFollowUps)
    BY <1>4 DEF FollowUps, AtMost
  <2> QED
    BY <1>1, <1>2, <2>1, SessionAssumption DEF SmallerOf
<1>5. ASSUME NEW tools \in ExtraChecks(s)
      PROVE  /\ tools \in SUBSET (Tools \ s.diagnostics)
             /\ tools = {} \/ Cardinality(tools) <= Budget(s)
  <2> DEFINE missing == ThoroughTools \ s.diagnostics
  <2>1. /\ tools \in SUBSET missing
        /\ Cardinality(tools) = SmallerOf(LargerOf(0, Budget(s)), Cardinality(missing))
    BY <1>5 DEF ExtraChecks
  <2>2. missing \in SUBSET Tools
    BY SessionAssumption
  <2>3. tools \in SUBSET (Tools \ s.diagnostics)
    BY <2>1, <2>2
  <2>4. Cardinality(missing) \in Nat /\ Cardinality(tools) \in Nat /\ IsFiniteSet(tools)
    BY <1>2, <2>1, <2>2
  <2> HIDE DEF missing
  <2>5. Cardinality(tools) <= Budget(s) \/ Cardinality(tools) = 0
    BY <1>1, <2>1, <2>4 DEF SmallerOf, LargerOf
  <2> QED
    BY <2>3, <2>4, <2>5, FS_EmptySet
<1> QED
  BY <1>3, <1>4, <1>5

(* The steps of a task stay within the bounds. *)
LEMMA WorkerWithinBounds ==
    ASSUME "worker_raises" \notin Environment, Coherent, ChangesRecorded, Core,
           ChecksInOrder, WithinBounds, WorkerStep
    PROVE  /\ task'.at \notin {"failed", "begin"}
           /\ task'.at = "plan" => session'.diagnostics = {}
           /\ task'.at \in {"checks", "checking"} => RoomForChecks(session')
<1>1. /\ session \in Session /\ task \in Task
      /\ state # "error"
  BY WorkerKeepsKind, WorkingCore DEF Coherent, TypeOK
<1>2. \A step \in Steps : Goes(step) => task'.at = step
  BY <1>1, GoesFacts
<1>3. task.at \notin {"checks", "checking", "failed"} => ChecksOpen(session) = {}
  BY <1>1 DEF ChecksInOrder
<1>4. CASE BeginDiagnosis
  <2>1. session'.diagnostics = {}
    BY <1>1, <1>4 DEF BeginDiagnosis, Diagnosing, Session, WithinBounds
  <2> QED
    BY <1>2, <1>4, <2>1 DEF BeginDiagnosis, Steps
<1>5. CASE \E understood, quick \in BOOLEAN : PlanChecks(understood, quick)
  <2>1. PICK understood \in BOOLEAN, quick \in BOOLEAN : PlanChecks(understood, quick)
    BY <1>5
  <2>2. PICK tools \in InitialPlans(understood, quick) : session' = QueueChecks(session, tools)
    BY <2>1 DEF PlanChecks
  <2>3. task'.at = "checks"
    BY <1>1, <2>1 DEF PlanChecks, Task
  <2>4. task.at = "plan" /\ session.diagnostics = {}
    BY <2>1 DEF PlanChecks, WithinBounds
  <2>5. Budget(session) = MaxSteps
    BY <2>4, FS_EmptySet, SessionAssumption DEF Budget
  <2>6. RoomForChecks(session')
    BY <1>1, <1>3, <2>2, <2>4, <2>5, QueuesFit, RoomWhenQueued
  <2> QED
    BY <2>3, <2>6
<1>6. CASE \E t \in Tools : StartCheck(t)
  <2>1. PICK t \in Tools : StartCheck(t)
    BY <1>6
  <2>2. RoomForChecks(session) /\ t \in ChecksIn(session, "queued")
    BY <2>1 DEF StartCheck, WithinBounds
  <2>3. StepAllowed(session) /\ RoomForChecks(CheckStarted(session, t))
    BY <1>1, <2>2, RoomWhenStarted
  <2>4. session' = CheckStarted(session, t) /\ Goes("checking")
    BY <2>1, <2>3 DEF StartCheck
  <2>5. task'.at = "checking"
    BY <1>2, <2>4 DEF Steps
  <2> QED
    BY <2>3, <2>4, <2>5
<1>7. CASE \E t \in Tools, ok \in BOOLEAN : FinishCheck(t, ok)
  <2>1. PICK t \in Tools, ok \in BOOLEAN : FinishCheck(t, ok)
    BY <1>7
  <2>2. RoomForChecks(session')
    BY <1>1, <2>1, RoomWhenFinished DEF FinishCheck, WithinBounds
  <2>3. task'.at = "checks"
    BY <1>2, <2>1 DEF FinishCheck, Steps
  <2> QED
    BY <2>2, <2>3
<1>8. CASE Ends
  BY <1>8, EndsSave DEF Coherent
<1>9. CASE ChecksDone \/ Analyze \/ \E success \in BOOLEAN : ExecuteFix(success)
  BY <1>2, <1>9 DEF ChecksDone, Analyze, ExecuteFix, Steps
<1>10. CASE FollowUp
  <2>1. PICK tools \in (IF Budget(session) <= 0 THEN {{}} ELSE FollowUps(session)) :
            /\ session' = QueueChecks(session, tools)
            /\ task' = IF tools = {} THEN [task EXCEPT !.at = "analyze"]
                       ELSE [task EXCEPT !.at = "checks", !.rounds = @ - 1]
    BY <1>10 DEF FollowUp
  <2>2. task'.at \in {"analyze", "checks"}
    BY <1>1, <2>1 DEF Task
  <2>3. /\ tools \in SUBSET (Tools \ session.diagnostics)
        /\ tools = {} \/ Cardinality(tools) <= Budget(session)
    <3>1. CASE Budget(session) <= 0
      BY <2>1, <3>1
    <3>2. CASE ~(Budget(session) <= 0)
      BY <1>1, <2>1, <3>2, QueuesFit
    <3> QED
      BY <3>1, <3>2
  <2>4. ChecksOpen(session) = {}
    BY <1>3, <1>10 DEF FollowUp
  <2>5. RoomForChecks(session')
    BY <1>1, <2>1, <2>3, <2>4, RoomWhenQueued
  <2> QED
    BY <2>2, <2>5
<1>11. CASE BeginRemediation
  <2>1. AttemptAllowed(session)
    BY <1>11 DEF BeginRemediation, WithinBounds
  <2> QED
    BY <1>2, <1>11, <2>1 DEF BeginRemediation, Steps
<1>12. CASE BeginContinue
  <2>1. AttemptAllowed(session)
    BY <1>12 DEF BeginContinue, WithinBounds
  <2> DEFINE carried == CarriedForward(session)
  <2>2. PICK tools \in ExtraChecks(carried) : session' = QueueChecks(carried, tools)
    BY <1>12, <2>1 DEF BeginContinue
  <2>3. task'.at = "checks"
    BY <1>1, <1>12, <2>1 DEF BeginContinue, Task
  <2>4. carried \in Session /\ carried.checks = session.checks
    BY <1>1, CarriedForwardFacts DEF SameSession, CarriedForward, Session
  <2>5. ChecksOpen(carried) = {}
    BY <1>3, <1>12, <2>4 DEF BeginContinue, ChecksOpen, ChecksIn
  <2> HIDE DEF carried
  <2>6. RoomForChecks(session')
    BY <2>2, <2>4, <2>5, QueuesFit, RoomWhenQueued
  <2> QED
    BY <2>3, <2>6
<1> QED
  BY <1>4, <1>5, <1>6, <1>7, <1>8, <1>9, <1>10, <1>11, <1>12 DEF WorkerStep, Ends

(* Every step stays within the bounds. *)
LEMMA NextWithinBounds ==
    ASSUME "shortcut" \notin Environment, "worker_raises" \notin Environment,
           MaxAttempts > 0,
           Coherent, ChangesRecorded, Core, ChecksInOrder, WithinBounds, [Next]_vars
    PROVE  WithinBounds'
<1>1. CASE WorkerStep
  <2>1. /\ task \in Task /\ task'.kind = task.kind
        /\ UNCHANGED <<state, dialogs>>
    BY <1>1, WorkerKeepsKind DEF Coherent
  <2>2. /\ dialogs = <<>>
        /\ state \in {"investigating", "applying"}
    BY <2>1, WorkingCore
  <2>3. /\ task'.at \notin {"failed", "begin"}
        /\ task'.at = "plan" => session'.diagnostics = {}
        /\ task'.at \in {"checks", "checking"} => RoomForChecks(session')
    BY <1>1, WorkerWithinBounds
  <2>4. ASSUME task.kind \in {"diagnose", "continue"}
        PROVE  AttemptAllowed(session')
    <3>1. ~ \E success \in BOOLEAN : ExecuteFix(success)
      BY <2>4 DEF ExecuteFix, Coherent, TaskMatchesState
    <3>2. session'.remediations = session.remediations
      BY <1>1, <3>1, WorkerRecordsNoFix DEF RecordsNoFix
    <3> QED
      BY <2>4, <3>2 DEF WithinBounds, AttemptAllowed
  <2> QED
    BY <2>1, <2>2, <2>3, <2>4 DEF WithinBounds
<1>2. CASE WorkerRaises
  BY <1>2 DEF WorkerRaises
<1>3. CASE DeliverDone \/ DeliverFailed
  <2>1. DeliverDone
    BY <1>3 DEF DeliverFailed, WithinBounds
  <2>2. task \in Task /\ dialogs = <<>> /\ dialogs' = <<>> /\ session' = session
    BY <2>1, TaskAtStep, WorkingCore DEF DeliverDone, Coherent, Steps
  <2>3. /\ task'.kind = "none" /\ task'.at = "none"
        /\ state' # "error"
        /\ state' = "diagnosed" => task.kind # "remediate"
    BY <2>1, NoTaskFacts DEF DeliverDone, StateAfter
  <2>4. state' = "diagnosed" => AttemptAllowed(session)
    BY <2>2, <2>3 DEF WithinBounds, Task, Kinds
  <2> QED
    BY <2>2, <2>3, <2>4 DEF WithinBounds, AttemptAllowed
<1>4. CASE \E sid \in SessionIds, setting \in Providers : StartSession(sid, setting)
  <2>1. /\ session'.diagnostics = {} /\ session'.remediations = <<>>
        /\ Runs("diagnose") /\ state' = "investigating"
    BY <1>4 DEF StartSession, NewSession
  <2>2. AttemptAllowed(session')
    BY <2>1, SessionAssumption DEF AttemptAllowed
  <2>3. task'.kind = "diagnose" /\ task'.at = "begin"
    BY <2>1 DEF Runs
  <2> QED
    BY <2>1, <2>2, <2>3 DEF WithinBounds
<1>5. CASE NotNow \/ StopSession
  <2>1. /\ state' = "idle" /\ task' = NoTask /\ dialogs' = <<>>
    BY <1>5, RestingView, PageMeansNoDialog DEF NotNow, StopSession
  <2> QED
    BY <2>1, NoTaskFacts DEF WithinBounds
<1>6. CASE Relaunch
  <2>1. /\ state' = "idle" /\ task' = NoTask /\ dialogs' = <<>>
    BY <1>6 DEF Relaunch
  <2> QED
    BY <2>1, NoTaskFacts DEF WithinBounds
<1>7. CASE \E i \in DOMAIN dialogs : ApplyFix(i)
  <2>1. PICK i \in DOMAIN dialogs : ApplyFix(i)
    BY <1>7
  <2>2. HasSession /\ ~busy
    BY ClosedDialog
  <2>3. Runs("remediate") /\ state' = "applying" /\ session' = session
    BY <2>1, <2>2 DEF ApplyFix
  <2>4. AttemptAllowed(session)
    BY <2>1 DEF WithinBounds
  <2>5. task'.kind = "remediate" /\ task'.at = "begin"
    BY <2>3 DEF Runs
  <2> QED
    BY <2>3, <2>4, <2>5 DEF WithinBounds, AttemptAllowed
<1>8. CASE ContinueInvestigation
  <2>1. /\ Runs("continue") /\ state' = "investigating" /\ session' = session
        /\ AttemptAllowed(session)
    BY <1>8 DEF ContinueInvestigation
  <2>2. task'.kind = "continue" /\ task'.at = "begin"
    BY <2>1 DEF Runs
  <2> QED
    BY <2>1, <2>2 DEF WithinBounds, AttemptAllowed
<1>9. CASE ApproveFix \/ TryAgain
  <2>1. UNCHANGED <<state, session, task>>
    BY <1>9 DEF ApproveFix, TryAgain, Confirm
  <2>2. AttemptAllowed(session)
    BY <1>9 DEF ApproveFix, TryAgain, Coherent, ViewMatchesState, WithinBounds
  <2> QED
    BY <2>1, <2>2 DEF WithinBounds, RoomForChecks, ChecksOpen, ChecksIn, AttemptAllowed
<1>10. CASE \E i \in DOMAIN dialogs : CancelDialog(i)
  <2>1. UNCHANGED <<state, session, task>> /\ dialogs # <<>>
    BY <1>10 DEF CancelDialog
  <2> QED
    BY <2>1 DEF WithinBounds, RoomForChecks, ChecksOpen, ChecksIn, AttemptAllowed
<1>11. CASE \/ LeavePage \/ ReviewFix \/ BackToDiagnosis \/ ShowPage \/ PressCancel
            \/ CloseWindow \/ UNCHANGED vars
  <2>1. UNCHANGED <<state, session, task, dialogs>>
    BY <1>11 DEF LeavePage, ReviewFix, BackToDiagnosis, ShowPage, PressCancel, CloseWindow
  <2> QED
    BY <2>1 DEF WithinBounds, RoomForChecks, ChecksOpen, ChecksIn, AttemptAllowed
<1> QED
  BY <1>1, <1>2, <1>3, <1>4, <1>5, <1>6, <1>7, <1>8, <1>9, <1>10, <1>11 DEF Next

(* With the budget the agent computes before it queues checks and the       *)
(* buttons the page disables, neither the step bound nor the attempt bound  *)
(* of the safety layer ends a task with an exception.                       *)
THEOREM BoundsDoNotTrip ==
    ASSUME "shortcut" \notin Environment, "worker_raises" \notin Environment,
           MaxAttempts > 0
    PROVE  Spec => []BoundsNeverTrip
<1>1. Init => WithinBounds
  BY NoTaskFacts DEF Init, WithinBounds
<1>2. Coherent /\ ChangesRecorded /\ Core /\ ChecksInOrder /\ WithinBounds /\ [Next]_vars =>
          WithinBounds'
  BY NextWithinBounds
<1>3. WithinBounds => BoundsNeverTrip
  BY DEF WithinBounds, BoundsNeverTrip
<1> QED
  BY <1>1, <1>2, <1>3, AlwaysCore, AlwaysSettled, PTL DEF Spec
=============================================================================
