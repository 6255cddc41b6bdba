----------------------------- MODULE Troubleshoot ------------------------------
(***************************************************************************)
(* The desktop application's troubleshooting flow: the controller of       *)
(* app/gui/controller.py, the page of app/gui/pages/troubleshoot.py with   *)
(* its approval dialogs, the one worker task that runs the agent           *)
(* (app/core/agent.py) on a pool thread, and the history the agent saves.  *)
(*                                                                         *)
(* Two threads touch the session: the UI thread, by the handlers of the    *)
(* page's buttons, and the worker, by the steps of the agent.  A worker    *)
(* step ends where other code can observe the session: at a network call,  *)
(* at a check or a fix, at the end of the task.  The result of a task is   *)
(* posted to the UI thread and handled there later.                        *)
(***************************************************************************)
EXTENDS Session

CONSTANTS
    Providers,     \* AI settings a session may start with
    MaxRounds,     \* MAX_AI_ROUNDS
    MaxDialogs,    \* bound of the model: approval dialogs open at once
    Environment    \* what goes wrong around the program

ASSUME TroubleshootAssumption ==
    /\ Providers \subseteq {"local", "on_this_pc", "cloud"}
    /\ MaxRounds \in Nat \ {0}
    /\ MaxDialogs \in Nat
    /\ Environment \subseteq {"save_fails",    \* SQLite refuses a write
                              "worker_raises", \* a task ends with an exception
                              "crash",         \* the process dies at any moment
                              "shortcut"}      \* page shortcuts used under a dialog
    /\ {"problem", "measurements"} \subseteq Items

VARIABLES
    state,       \* controller.state
    session,     \* controller.session, the object the worker works on as well
    pending,     \* controller.pending_proposal
    cancel,      \* the cancel event of the current task
    task,        \* the worker's task: which agent method, and where it is
    provider,    \* the AI provider of the session's agent
    transmission,\* the provider's last_transmission: what it says it sent
    sent,        \* external: what has left the PC for this session
    view,        \* the troubleshoot page's view; "other" while another page shows
    dialogs,     \* the open approval dialogs
    focus,       \* where the keyboard is while a dialog is open
    window,      \* whether the main window is open
    history,     \* the saved sessions
    log          \* external: what was really done to the PC for each session

control == <<state, pending, cancel>>
ai      == <<provider, transmission, sent>>
ui      == <<view, dialogs, focus, window>>
store   == <<history, log>>
vars == <<control, session, task, ai, ui, store>>

States == {"idle", "investigating", "diagnosed", "applying", "result",
           "cancelled", "error"}

Views == {"other", "start", "investigating", "diagnosis", "fix", "applying", "result"}

Kinds == {"diagnose", "remediate", "continue"}

Steps == {"begin", "plan", "checks", "checking", "follow_up", "analyze",
          "conclude", "execute", "verify", "done", "failed"}

Task == [kind : Kinds, at : Steps, rounds : 0 .. MaxRounds]

NoTask == [kind |-> "none", at |-> "none", rounds |-> 0]

Dialog == [fix : Fixes, sid : SessionIds]

NoRow == NoSession      \* no row in the sessions table

-----------------------------------------------------------------------------
(* Helpers                                                                 *)

HasSession == session.id # NoSessionId

Working == task # NoTask

(* Faulty variant: a fix that is being applied does not count. *)
busyInvestigating == state = "investigating"

busy == state \in {"investigating", "applying"}

UsesAI == provider # "local"

(* Faulty variant: the last request overwrites the earlier ones. *)
MergedNot(previous, items) == items

(* CloudProvider._record adds to what the session has sent already. *)
Merged(previous, items) == previous \cup items

(* A request to another machine is recorded and leaves the PC; one to a     *)
(* model that runs on this PC is not a transmission.                        *)
Sends(items) ==
    IF provider = "cloud"
    THEN /\ transmission' = Merged(transmission, items)
         /\ sent' = sent \cup items
    ELSE UNCHANGED <<transmission, sent>>

(* Faulty variant: only a finished session is saved. *)
SaveFinished(s) ==
    IF s.finished_at THEN history' = [history EXCEPT ![s.id] = s] ELSE UNCHANGED history

(* Agent._save swallows a failed write: the row stays as it was. *)
Save(s) ==
    \/ history' = [history EXCEPT ![s.id] = s]
    \/ "save_fails" \in Environment /\ UNCHANGED history

Goes(step) == task' = [task EXCEPT !.at = step]

(* Faulty variants: the diagnosis stays up while its fix is applied; it      *)
(* comes back on a session that is over.                                    *)
ViewOfApplying(st) ==
    CASE st = "investigating" -> "investigating"
      [] st \in {"diagnosed", "applying"} -> "diagnosis"
      [] st = "result"        -> "result"
      [] OTHER                -> "start"

ViewOfIdle(st) ==
    CASE st = "investigating" -> "investigating"
      [] st \in {"diagnosed", "idle"} -> "diagnosis"
      [] st = "applying"      -> "applying"
      [] st = "result"        -> "result"
      [] OTHER                -> "start"

(* What the page shows for a state of the controller when it comes up. *)
ViewOf(st) ==
    CASE st = "investigating" -> "investigating"
      [] st = "diagnosed"     -> "diagnosis"
      [] st = "applying"      -> "applying"
      [] st = "result"        -> "result"
      [] OTHER                -> "start"

(* TroubleshootPage._on_state: a page that is not visible stays as it is. *)
Shows(st) == view' = IF view = "other" THEN "other" ELSE ViewOf(st)

-----------------------------------------------------------------------------
(* The worker: Agent.diagnose, continue_investigation, remediate_and_verify *)

(* The problem goes to the AI, when there is one. *)
BeginDiagnosis ==
    /\ task.kind = "diagnose" /\ task.at = "begin"
    /\ session' = Diagnosing(session)
    /\ Sends({"problem"})
    /\ Goes("plan")
    /\ UNCHANGED <<provider, control, ui, store>>

(* The plan is the AI's when it understood the problem, and then there are  *)
(* MAX_AI_ROUNDS rounds of follow-up checks instead of one.                 *)
PlanChecks(understood, quick) ==
    /\ task.at = "plan"
    /\ understood => UsesAI
    /\ \E tools \in InitialPlans(understood, quick) :
            session' = QueueChecks(session, tools)
    /\ task' = [task EXCEPT !.at = "checks",
                            !.rounds = IF understood THEN MaxRounds ELSE 1]
    /\ UNCHANGED <<control, ai, ui, store>>

(* _run_checks polls the cancel event before each check, and only there. *)
StartCheck(t) ==
    /\ task.at = "checks"
    /\ t \in ChecksIn(session, "queued")
    /\ ~cancel
    /\ IF StepAllowed(session)
       THEN session' = CheckStarted(session, t) /\ Goes("checking")
       ELSE UNCHANGED session /\ Goes("failed")
    /\ UNCHANGED <<control, ai, ui, store>>

FinishCheck(t, ok) ==
    /\ task.at = "checking"
    /\ t \in ChecksIn(session, "running")
    /\ session' = CheckFinished(session, t, ok)
    /\ Goes("checks")
    /\ UNCHANGED <<control, ai, ui, store>>

CancelSeen ==
    /\ task.at = "checks"
    /\ ChecksIn(session, "queued") # {}
    /\ cancel
    /\ session' = Cancelled(session)
    /\ Save(session')
    /\ Goes("done")
    /\ UNCHANGED <<log, control, ai, ui>>

ChecksDone ==
    /\ task.at = "checks"
    /\ ChecksIn(session, "queued") = {}
    /\ Goes(IF task.rounds > 0 THEN "follow_up" ELSE "analyze")
    /\ UNCHANGED <<session, control, ai, ui, store>>

(* One round of follow-up checks.  The provider is asked, and the evidence  *)
(* sent to a cloud AI, only while the budget lasts and a check is left.     *)
FollowUp ==
    /\ task.at = "follow_up"
    /\ IF Budget(session) <= 0 \/ session.diagnostics = Tools
       THEN UNCHANGED <<transmission, sent>>
       ELSE Sends({"measurements"})
    /\ \E tools \in (IF Budget(session) <= 0 THEN {{}} ELSE FollowUps(session)) :
            /\ session' = QueueChecks(session, tools)
            /\ task' = IF tools = {} THEN [task EXCEPT !.at = "analyze"]
                       ELSE [task EXCEPT !.at = "checks", !.rounds = @ - 1]
    /\ UNCHANGED <<provider, control, ui, store>>

(* provider.analyze: findings and measurements go to a cloud AI. *)
Analyze ==
    /\ task.at = "analyze"
    /\ Sends({"measurements"})
    /\ Goes("conclude")
    /\ UNCHANGED <<session, provider, control, ui, store>>

(* The diagnosis, the recommendation and the save that end diagnose and     *)
(* continue_investigation.                                                  *)
Conclude(healthy) ==
    /\ task.at = "conclude"
    /\ \E proposals \in ProposalLists(healthy, Tried(session)) :
            session' = Recommended(Analyzed(session, transmission), proposals, healthy)
    /\ Save(session')
    /\ Goes("done")
    /\ UNCHANGED <<log, control, ai, ui>>

BeginRemediation ==
    /\ task.kind = "remediate" /\ task.at = "begin"
    /\ IF AttemptAllowed(session)
       THEN session' = Approved(session) /\ Goes("execute")
       ELSE UNCHANGED session /\ Goes("failed")
    /\ UNCHANGED <<control, ai, ui, store>>

(* The fix runs, in the process or in the elevated helper, and reports. *)
ExecuteFix(success) ==
    /\ task.at = "execute"
    /\ log' = [log EXCEPT ![session.id] =
                    Append(@, [tool |-> pending, success |-> success])]
    /\ session' = FixRecorded(session, pending, success)
    /\ Goes("verify")
    /\ UNCHANGED <<history, control, ai, ui>>

VerifyFix ==
    /\ task.at = "verify"
    /\ \E v \in Verifications(session) : session' = Verified(session, v)
    /\ Save(session')
    /\ Goes("done")
    /\ UNCHANGED <<log, control, ai, ui>>

(* continue_investigation up to its checks; it has no follow-up rounds. *)
BeginContinue ==
    /\ task.kind = "continue" /\ task.at = "begin"
    /\ IF ~AttemptAllowed(session)
       THEN UNCHANGED session /\ Goes("failed")
       ELSE LET carried == CarriedForward(session)
            IN /\ \E tools \in ExtraChecks(carried) :
                      session' = QueueChecks(carried, tools)
               /\ task' = [task EXCEPT !.at = "checks", !.rounds = 0]
    /\ UNCHANGED <<control, ai, ui, store>>

(* An exception no layer expects leaves the task between two of its steps. *)
WorkerRaises ==
    /\ "worker_raises" \in Environment
    /\ Working /\ task.at \notin {"done", "failed"}
    /\ Goes("failed")
    /\ UNCHANGED <<session, control, ai, ui, store>>

WorkerStep ==
    \/ BeginDiagnosis
    \/ \E understood, quick \in BOOLEAN : PlanChecks(understood, quick)
    \/ \E t \in Tools : StartCheck(t)
    \/ \E t \in Tools, ok \in BOOLEAN : FinishCheck(t, ok)
    \/ CancelSeen
    \/ ChecksDone
    \/ FollowUp
    \/ Analyze
    \/ \E healthy \in BOOLEAN : Conclude(healthy)
    \/ BeginRemediation
    \/ \E success \in BOOLEAN : ExecuteFix(success)
    \/ VerifyFix
    \/ BeginContinue

-----------------------------------------------------------------------------
(* The UI thread: results of the task                                      *)

(* Faulty variant: the state is left as it was after a cancelled task. *)
StateAfterNoCancel(kind, status) ==
    IF kind = "remediate" THEN "result"
    ELSE IF status = "cancelled" THEN state ELSE "diagnosed"

(* _on_diagnosed and _on_verified *)
StateAfter(kind, status) ==
    IF kind = "remediate" THEN "result"
    ELSE IF status = "cancelled" THEN "cancelled" ELSE "diagnosed"

DeliverDone ==
    /\ window = "open"
    /\ task.at = "done"
    /\ task' = NoTask
    /\ state' = StateAfter(task.kind, session.status)
    /\ Shows(state')
    /\ UNCHANGED <<pending, cancel, session, dialogs, focus, window, ai, store>>

(* Controller._on_error, and the page's _on_failed: back to the start view. *)
DeliverFailed ==
    /\ window = "open"
    /\ task.at = "failed"
    /\ task' = NoTask
    /\ state' = "error"
    /\ Shows("error")
    /\ UNCHANGED <<pending, cancel, session, dialogs, focus, window, ai, store>>

-----------------------------------------------------------------------------
(* The UI thread: buttons.  While a dialog is open and has the keyboard,   *)
(* nothing but the dialog can be operated.                                 *)

PageResponds == window = "open" /\ (dialogs = <<>> \/ focus = "page")

Runs(kind) == task' = [kind |-> kind, at |-> "begin", rounds |-> 0]

(* A session's id is a new UUID: none that anything still refers to. *)
Fresh(sid) ==
    /\ session.id # sid /\ history[sid] = NoRow /\ log[sid] = <<>>
    /\ \A i \in DOMAIN dialogs : dialogs[i].sid # sid

(* start and rerun: from the home page, from a session in History, from the *)
(* start view, or by "Run checks again" on the diagnosis.                   *)
StartSession(sid, setting) ==
    /\ PageResponds
    /\ view \in {"other", "start", "diagnosis"}
    /\ ~busy
    /\ Fresh(sid)
    /\ session' = NewSession(sid)
    /\ pending' = NoFix
    /\ cancel' = FALSE
    /\ provider' = setting /\ transmission' = {} /\ sent' = {}
    /\ state' = "investigating" /\ view' = "investigating"
    /\ Runs("diagnose")
    /\ UNCHANGED <<dialogs, focus, window, store>>

PressCancel ==
    /\ PageResponds
    /\ view = "investigating"
    /\ cancel' = TRUE
    /\ UNCHANGED <<state, pending, session, task, ai, ui, store>>

(* "Not now": decline writes and saves the session on the UI thread. *)
NotNow ==
    /\ PageResponds
    /\ view = "diagnosis" /\ session.proposals # <<>>
    /\ session' = Declined(session)
    /\ Save(session')
    /\ state' = "idle" /\ view' = "other"
    /\ UNCHANGED <<pending, cancel, task, dialogs, focus, window, log, ai>>

(* "Done" on a diagnosis without a fix and on a resolved session, "Stop     *)
(* troubleshooting" on an unresolved one: the same handler.                 *)
StopSession ==
    /\ PageResponds
    /\ \/ view = "diagnosis" /\ session.proposals = <<>>
       \/ view = "result"
    /\ session' = StoppedByUser(session)
    /\ Save(session')
    /\ state' = "idle" /\ view' = "other"
    /\ UNCHANGED <<pending, cancel, task, dialogs, focus, window, log, ai>>

ReviewFix ==
    /\ PageResponds
    /\ view = "diagnosis" /\ session.proposals # <<>>
    /\ view' = "fix"
    /\ UNCHANGED <<session, task, dialogs, focus, window, control, ai, store>>

BackToDiagnosis ==
    /\ PageResponds
    /\ view = "fix"
    /\ view' = "diagnosis"
    /\ UNCHANGED <<session, task, dialogs, focus, window, control, ai, store>>

Confirm(fix) ==
    /\ Len(dialogs) < MaxDialogs
    /\ dialogs' = Append(dialogs, [fix |-> fix, sid |-> session.id])
    /\ focus' = "dialog"
    /\ UNCHANGED <<session, task, view, window, control, ai, store>>

(* "Approve fix" on the recommended fix. *)
ApproveFix ==
    /\ PageResponds
    /\ view = "fix"
    /\ Confirm(Head(session.proposals))

(* "Try again" after a fix that was not applied, while attempts are left. *)
TryAgain ==
    /\ PageResponds
    /\ view = "result"
    /\ ~Last(session.remediations).success
    /\ AttemptAllowed(session)
    /\ Confirm(IF pending # NoFix THEN pending ELSE Head(session.proposals))

CancelDialog(i) ==
    /\ window = "open"
    /\ dialogs' = RemoveAt(dialogs, i)
    /\ focus' = "page"
    /\ UNCHANGED <<session, task, view, window, control, ai, store>>

(* "Apply fix" in a dialog: the fix it was opened for, on whatever session  *)
(* the controller has by now; ignored while the controller is busy.         *)
ApplyFix(i) ==
    /\ window = "open"
    /\ dialogs' = RemoveAt(dialogs, i)
    /\ focus' = "page"
    /\ IF HasSession /\ ~busy
       THEN /\ pending' = dialogs[i].fix
            /\ state' = "applying" /\ Shows("applying")
            /\ Runs("remediate")
       ELSE UNCHANGED <<pending, state, view, task>>
    /\ UNCHANGED <<cancel, session, window, ai, store>>

(* "Continue investigation" after a fix that did not help. *)
ContinueInvestigation ==
    /\ PageResponds
    /\ view = "result"
    /\ Last(session.remediations).success /\ ~LastImproved(session)
    /\ AttemptAllowed(session)
    /\ ~busy
    /\ cancel' = FALSE
    /\ state' = "investigating" /\ view' = "investigating"
    /\ Runs("continue")
    /\ UNCHANGED <<pending, session, dialogs, focus, window, ai, store>>

-----------------------------------------------------------------------------
(* The UI thread: pages, the window, the process                           *)

(* Another page: by the navigation pane, or by a page shortcut, which works *)
(* under an open dialog too and moves the keyboard to the page.             *)
LeavePage ==
    /\ window = "open" /\ view # "other"
    /\ PageResponds \/ "shortcut" \in Environment
    /\ view' = "other"
    /\ focus' = "page"
    /\ UNCHANGED <<session, task, dialogs, window, control, ai, store>>

(* TroubleshootPage.on_show *)
ShowPage ==
    /\ PageResponds
    /\ view' = ViewOf(state)
    /\ UNCHANGED <<session, task, dialogs, focus, window, control, ai, store>>

(* MainWindow.closeEvent; while a fix is applied the user has answered      *)
(* "Close anyway".  The event loop ends; a task may run on until the        *)
(* process is gone.                                                         *)
CloseWindow ==
    /\ window = "open"
    /\ window' = "closed"
    /\ cancel' = HasSession
    /\ UNCHANGED <<state, pending, session, task, view, dialogs, focus, ai, store>>

(* The program is started anew, after it was closed or had crashed. *)
Relaunch ==
    /\ window = "closed" \/ "crash" \in Environment
    /\ state' = "idle" /\ session' = NoSession /\ pending' = NoFix /\ cancel' = FALSE
    /\ task' = NoTask /\ provider' = "local"
    /\ transmission' = {} /\ sent' = {}
    /\ view' = "other" /\ dialogs' = <<>> /\ focus' = "page" /\ window' = "open"
    /\ UNCHANGED store

Init ==
    /\ state = "idle" /\ session = NoSession /\ pending = NoFix /\ cancel = FALSE
    /\ task = NoTask /\ provider = "local"
    /\ transmission = {} /\ sent = {}
    /\ view = "other" /\ dialogs = <<>> /\ focus = "page" /\ window = "open"
    /\ history = [sid \in SessionIds |-> NoRow]
    /\ log = [sid \in SessionIds |-> <<>>]

Next ==
    \/ WorkerStep
    \/ WorkerRaises
    \/ DeliverDone
    \/ DeliverFailed
    \/ \E sid \in SessionIds, setting \in Providers : StartSession(sid, setting)
    \/ PressCancel
    \/ NotNow
    \/ StopSession
    \/ ReviewFix
    \/ BackToDiagnosis
    \/ ApproveFix
    \/ TryAgain
    \/ \E i \in DOMAIN dialogs : CancelDialog(i)
    \/ \E i \in DOMAIN dialogs : ApplyFix(i)
    \/ ContinueInvestigation
    \/ LeavePage
    \/ ShowPage
    \/ CloseWindow
    \/ Relaunch

(* A task that runs is finished: every check and fix has a timeout and every *)
(* AI request too, and the pool has a thread for the one task there is.  The *)
(* event loop delivers what was posted to it.                                *)
Fairness ==
    /\ WF_vars(WorkerStep)
    /\ WF_vars(DeliverDone \/ DeliverFailed)

Spec == Init /\ [][Next]_vars

FairSpec == Spec /\ Fairness

-----------------------------------------------------------------------------
(* Properties                                                              *)

(* Every variable has its type. *)
TypeOK ==
    /\ state \in States
    /\ session \in Session
    /\ pending \in Fixes \cup {NoFix}
    /\ cancel \in BOOLEAN
    /\ task \in Task \cup {NoTask}
    /\ provider \in Providers \cup {"local"}
    /\ transmission \in SUBSET Items
    /\ sent \in SUBSET Items
    /\ view \in Views
    /\ dialogs \in Seq(Dialog)
    /\ focus \in {"page", "dialog"}
    /\ window \in {"open", "closed"}
    /\ history \in [SessionIds -> Session]
    /\ log \in [SessionIds -> Seq(Remediation)]

(* The session object is shared by the worker and the UI thread without a   *)
(* lock.  While a task holds it, only the task changes it: no page brings   *)
(* up a button whose handler writes the session (decline, stop, start)      *)
(* before the task's result was delivered.                                  *)
OneWriter == [][Working /\ session' # session => task' # task]_vars

Resting == HasSession /\ ~Working /\ state # "error"

(* When no task runs, the session is one the user can make sense of: no     *)
(* check is left queued or running, no phase of the agent is left open, a   *)
(* session in progress has a fix to decide on, and a closed one its time.   *)
RestingSessionSettled ==
    Resting =>
        /\ ChecksIn(session, "queued") \cup ChecksIn(session, "running") = {}
        /\ session.status \notin {"created", "diagnosing", "remediating", "verifying"}
        /\ session.result = "in_progress" => session.proposals # <<>>
        /\ session.result \in {"resolved", "no_issue", "stopped"} => session.finished_at

(* The result shown in History is what was done and measured: "resolved"    *)
(* needs a fix that was applied and a verification of that fix that found   *)
(* the problem gone, "no issue" a PC that was not changed.                  *)
HonestResult ==
    Resting =>
        /\ Len(session.verifications) = Len(session.remediations)
        /\ session.result = "resolved" =>
               LastImproved(session) /\ Last(session.remediations).success
        /\ session.result = "no_issue" => log[session.id] = <<>>

(* A fix that was applied in a session is not applied a second time in it:  *)
(* the agent excludes the fixes it has tried, and "Try again" repeats only  *)
(* a fix that was not applied.                                              *)
NoFixAppliedTwice ==
    \A sid \in SessionIds : \A i, j \in DOMAIN log[sid] :
        log[sid][i].success /\ log[sid][i].tool = log[sid][j].tool => j <= i

(* A session the user declined a fix in is closed: it keeps the user's      *)
(* answer, and no check and no fix is added to it until another session     *)
(* takes its place.                                                         *)
DeclineIsFinal ==
    [][session.approval_status = "declined" =>
         session' = session \/ session'.id # session.id]_vars

(* The bounds never trip: with the budget the agent computes before it      *)
(* queues checks and the buttons the page disables, neither the step bound  *)
(* nor the attempt bound of the safety layer ends a task with an exception. *)
BoundsNeverTrip == task.at # "failed"

(* Whatever the user sees at rest is also what History holds. *)
HistoryCurrentAtRest == Resting => history[session.id] = session

(* A crash loses at most the fix that was being verified: History knows of  *)
(* every earlier change to the PC.                                          *)
HistoryMissesAtMostOne ==
    \A sid \in SessionIds : Len(log[sid]) <= Len(history[sid].remediations) + 1

(* The diagnosis the user is shown accounts for everything the AI provider  *)
(* was sent, follow-up rounds included.                                     *)
DiagnosisAccountsForCloud ==
    state \in {"diagnosed", "result"} => session.cloud = sent

(* A task the user waits for comes to an end, unless the window is closed. *)
WaitEnds == (busy /\ window = "open") ~> (~busy \/ window = "closed")

(* Fixes done to the PC for one session are bounded, even by dialogs left   *)
(* open from an earlier attempt, failed writes and restarts.                *)
AttemptsBounded == \A sid \in SessionIds : Len(log[sid]) <= MaxAttempts

(* History never claims a change that was not made, nor another order of    *)
(* changes: the saved remediations are the first of those really done.      *)
HistoryNeverAhead ==
    \A sid \in SessionIds : IsPrefix(history[sid].remediations, log[sid])

(* Why these hold: a task belongs to a state of the controller, the page's  *)
(* views follow that state, and a session is there when they need one.      *)
TaskMatchesState ==
    /\ task.kind \in {"diagnose", "continue"} => state = "investigating"
    /\ task.kind = "remediate" => state = "applying"
    /\ task.at \in {"execute", "verify"} => task.kind = "remediate"
    /\ task.at = "follow_up" => task.rounds > 0

ViewMatchesState ==
    /\ view \in {"diagnosis", "fix"} => state = "diagnosed"
    /\ view = "result" => state = "result"
    /\ view = "fix" => session.proposals # <<>>

SessionInUse ==
    /\ state \in {"investigating", "diagnosed", "applying", "result"} => HasSession
    /\ state \in {"applying", "result"} => pending \in Fixes
    /\ task.at = "verify" => session.remediations # <<>>

Coherent == TypeOK /\ TaskMatchesState /\ ViewMatchesState /\ SessionInUse

(* The fixes a session holds are those done to the PC for it; the attempt   *)
(* that is about to be made is within the bound.                            *)
ChangesRecorded ==
    /\ HasSession => session.remediations = log[session.id]
    /\ task.at = "execute" => AttemptAllowed(session)
    /\ AttemptsBounded
    /\ HistoryNeverAhead

(* The fixes the open dialogs name. *)
Offers == [i \in DOMAIN dialogs |-> dialogs[i].fix]

(* The promise of FixApproval, with the consent held by the task from       *)
(* "Apply fix" to the moment the fix runs.                                  *)
Consent ==
    IF task.kind = "remediate" /\ task.at \in {"begin", "execute"} THEN pending ELSE NoFix

Approval == INSTANCE FixApproval WITH
    offers <- Offers,
    consent <- Consent,
    changes <- log

ImplementsApproval == Approval!Spec

(* What the decline message claims: nothing was changed in this session. *)
NoChangesIsTrue ==
    session.final_outcome = "no_changes" =>
        \A i \in DOMAIN session.remediations : ~session.remediations[i].success

(* What History shows of a saved session is everything that was sent to a   *)
(* cloud AI for it.                                                         *)
HistoryAccountsForCloud ==
    Resting => history[session.id].cloud = sent

(* A fix is executed for a session only if it is one of those the agent     *)
(* proposed for that session from its evidence.                             *)
FixWasProposed ==
    [][\A sid \in SessionIds : log'[sid] # log[sid] =>
         Last(log'[sid]).tool \in Range(session.proposals)]_vars
=============================================================================
