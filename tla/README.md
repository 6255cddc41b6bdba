# WinFix AI: a TLA+ model of its sessions, its knowledge and its pages

WinFix AI measures a Windows PC, explains what it found, and applies a fix only
after the user approved it; then it measures again to see whether the fix helped.
This directory holds TLA+ modules that model that loop as the code runs it, what it
measures, knows and repairs, and the settings that decide what may leave the PC; TLC
configurations that check them on small instances; and proofs that TLAPS checks for
every value of the constants.

The code is the reference. Paths below are relative to the repository's root;
`PROJECT.json` maps every definition to the lines it models.

    tlc -workers 2 -config Desktop.cfg MCTroubleshoot.tla      # a run
    tlapm TroubleshootProofs.tla                               # the proofs

## 1. Inventory

| component | state it keeps | operations | works with |
|---|---|---|---|
| Session record (`app/core/models.py`) | one `Session`: status, result, checks, diagnostics, diagnosis, proposals, remediations, verifications, cloud record, texts, times | none of its own | everything below reads or writes it |
| Agent (`app/core/agent.py`) | none between calls | `diagnose`, `continue_investigation`, `remediate_and_verify`, `decline`, `stop`, `_cancel`, `_save` | called by the controller on a worker thread, by the API on request threads, by the console front end |
| Safety layer (`app/core/safety.py`) | none | `check_agent_step`, `check_remediation_attempt`, `validate_remediation`, `validate_arguments` | called before every tool and every attempt |
| Planner (`app/core/planner.py`) | none | `plan` | chooses the checks of a diagnosis, with or without the AI |
| Remediation engine (`app/core/remediation_engine.py`) | none | `propose`, `execute` | turns a diagnosis into proposals; runs one through the registry or the elevation helper |
| Verification engine (`app/core/verification_engine.py`) | none | `tools_for`, `run` | repeats checks after a fix, compares with before |
| AI providers (`app/llm/provider.py`, `app/core/privacy.py`) | `last_transmission` of the session's provider | `understand`, `follow_up_tools`, `analyze` | called by the agent; a cloud provider sends data off the PC |
| Tool registry (`app/core/tool_registry.py`) | the tools, a pool of 4 threads | `execute_tool` | every check and every fix goes through it, with a timeout |
| Elevation helper (`app/core/elevation.py`) | a result file per request | `run_elevated`, `read_result`, `helper_main` | a second process that runs one fix as administrator |
| History store (`app/core/history.py`) | an SQLite database | `save_session`, `get_session`, `list_sessions`, `delete_session`, `delete_all`, migrations | saved by the agent, read by pages and API |
| Controller (`app/gui/controller.py`) | `state`, `session`, `pending_proposal`, `_cancel`, `_agent` | `start`, `rerun`, `cancel`, `decline`, `apply`, `continue_investigation`, `stop`, result handlers | runs the agent through `run_async`; the page follows its signals |
| Troubleshoot page and dialog (`app/gui/pages/troubleshoot.py`, `app/gui/widgets/dialog.py`) | the view shown, the open approval dialogs | button handlers, `on_show`, `_confirm` | calls the controller |
| Window (`app/gui/window.py`) | the current page | `navigate`, shortcuts, `closeEvent` | shows pages, cancels on closing |
| Workers (`app/gui/workers.py`) | the Qt thread pool | `run_async` | a result travels to the UI thread as a queued signal |
| HTTP API (`app/api/server.py`) | none; every request loads a session and saves it | `diagnose`, `execute`, `verify`, reads | a second front end to the same engines |
| Settings, credentials (`app/core/user_settings.py`, `credentials.py`, `config.py`) | the settings file, the key store and the keys of this run | `load`, `update`, `set_api_key`, `delete_api_key`, `get_provider` | read when a session or a connection test builds its provider |
| Settings pages (`app/gui/pages/settings.py`) | what the page says, an open "Remove the API key?" | the choice of an AI, addresses, keys, what is shared, the connection test | write settings and keys; AI provider and Privacy work out their texts from both |
| Diagnostics page (`app/gui/pages/diagnostics.py`, `app/diagnostics/live.py`) | the current tab, a timer, `_sampling` | showing and leaving a tab, a tick, the answers of a sample | samples the PC on workers while the live tab is shown |
| Diagnostic tools (`app/diagnostics/`) | none | some 40 read-only queries | run by the registry; what they report is the evidence |
| Knowledge base (`app/knowledge/`) | none | categories of problems, extractors, 13 rules, levels, evidence cards, the catalog of fixes | used by planner, agent and engines |
| Remediation actions (`app/remediation/`) | the PC | some 20 fixed functions | run by the registry, or by the elevation helper |
| History and Home pages, widgets, theme, demo mode, console | what they display | | |

**What is hard here.** The session object is shared by a worker thread and the UI
thread with no lock. A cancel event is polled between checks only. Results of a
task arrive on the UI thread later. Approval dialogs hold the proposal they
were opened for, while the controller's session may change under them. Saves may
fail and are swallowed. The process may be closed or die while a fix is applied.
The step bound, the follow-up budget and the attempt bound are computed from
different parts of the record. What a cloud AI was sent is copied to the record at
one point only. Timed-out tools go on running. The API loads, changes and saves
without a transaction. A diagnosis is made from some fifteen reports, any of which may be
missing, by rules with thresholds of their own, and a fix is judged by other checks than
the ones that led to it, while a fix may fail half-way or finish after it was given up.
Where a key is sent follows from settings, keys and environment together, each of which
changes by itself; what the pages say of it is worked out once. `PROJECT.json` lists these as hazards, each at its line.

**What makes each component correct.**

- *Controller and page*: one thread writes the session at a time; a wait ends; what
  rests on the screen is a finished phase; a declined session stays closed.
- *Agent and safety layer*: the bounds hold, and hold early enough that the
  exceptions that enforce them are never raised; `resolved` is a measured fact.
- *Remediation*: the PC changes only by a fix accepted in a dialog, once per
  acceptance, at most `MAX_REMEDIATION_ATTEMPTS` times a session.
- *History*: never ahead of what was done; behind by one attempt at most; current
  whenever nothing runs.
- *AI providers*: what the user is told was sent is what was sent.
- *Tool registry*: a tool is reported once, within its timeout; a pool of stuck tools
  must not take the program down.
- *API*: the same bounds and the same record under concurrent requests.
- *Knowledge base and diagnostic tools*: with all evidence at hand no fault in what the
  problem is about goes unnoticed; missing evidence is never taken for a fault; the cards
  and the verdict agree.
- *Remediation actions and elevation*: a fix is proposed for something it can bring in
  order; whatever it leaves half done, or a helper leaves unreported, it is said to have
  helped only when the problem is gone.
- *Settings and credentials*: a key goes only to its own provider; a local analysis stays
  on the PC.
- *Settings pages*: the AI and the address they name are those a session would use, as long
  as they show them. (Not all they say is true: findings 6 to 8.)
- *Diagnostics page*: measuring goes on while, and only while, somebody looks, and never
  piles up.

## 2. Modules

`Session` is a library: the record and the agent's changes to it, as operators from
a record to a record. Modules that own a session variable call these operators from
their actions, so the desktop application and the API share one translation of
`agent.py`.

`Troubleshoot` composes the controller, the page and its dialogs, the worker task
that runs the agent, the AI provider's transmission record, the window, the process and
the history. `FixApproval` is the abstract promise about changes to the PC, which
`Troubleshoot` implements. `ApiServer` is the HTTP API on the same operators.
`ToolRegistry` is the pool of threads every check and fix runs on.

`Pipeline` is the same session with its data: `Registration` (the tools that exist, and what
the safety layer lets pass), `Measurements` (what each check reports of a
PC, and how it is read back), `Knowledge` (categories, rules, levels, cards), `Repairs` (the
catalog of fixes, proposals, verification) and `Remediations` (what a fix does to the PC)
are libraries of operators, and `Pipeline` runs a session through them. What `Session` leaves
open (any proposals, any verdict) is computed there, and what `Pipeline` leaves out
(threads, pages, history) is in `Troubleshoot`.

`Settings` holds the settings, keys and `get_provider` as operators; `Pages` the pages
that change them, what uses the provider meanwhile, and the live tab.

The modules `MC...` hold the constants of the runs, the modules `...Proofs` the theorems.

### State of `Troubleshoot`

| variable | code |
|---|---|
| `state`, `pending`, `cancel` | `controller.state`, `.pending_proposal`, `._cancel` |
| `session` | `controller.session`: the object the worker holds as well |
| `task` | the one task of `run_async`: which agent method runs, where in it, and how many follow-up rounds are left |
| `provider`, `transmission` | the provider of the session's agent, and its `last_transmission` |
| `sent` | external: what has left the PC |
| `view`, `dialogs`, `focus`, `window` | the page's view, its open approval dialogs, the keyboard, the main window |
| `history` | the `sessions` table, a row per session |
| `log` | external: what was done to the PC for each session |

`log` and `sent` record the facts; properties compare what the program says with them.

### Actions

A worker step ends where other code may observe the session: at a network request, at a
check or a fix, at the end of the task. So `diagnose` is `BeginDiagnosis`,
`PlanChecks`, then `StartCheck`/`FinishCheck` until the queue is empty (`ChecksDone`)
or the cancel event is seen (`CancelSeen`), `FollowUp` rounds, `Analyze` and `Conclude`.
`remediate_and_verify` is `BeginRemediation`, `ExecuteFix`, `VerifyFix`;
`continue_investigation` enters the same checks by `BeginContinue`. `WorkerRaises` ends
a task by an unexpected exception between any two steps.

On the UI thread, `DeliverDone` and `DeliverFailed` handle the posted result; every
button, shortcut and window event that changes state is one action, guarded by the views
that show the button and by what has the keyboard. `Relaunch` is a new process: only
`history` and `log` survive.

What is abstracted: what a measurement says (it becomes the choice of proposals, of
failing checks and of verdicts), the choice and order of checks within the limits the code
imposes, texts (`final_outcome` is kept as the claim it makes), the timeline, the
contents of what is sent (a set of kinds of data), and `_targets`/`tools_for`
beyond what a verification may measure.

### `ApiServer`

| variable | code |
|---|---|
| `history` | the `sessions` table |
| `requests` | the request threads of the server: the handler's `session`, the fix, and how far it is |
| `log` | external: what was done to the PC for each session |

A request can be observed where it loads the session, where it changes the PC and where
it saves; between these it works on a copy of its own. So `diagnose` is `Diagnose` and
`Diagnosed` (its checks and follow-ups in one step: nobody else has the new session's
id), `execute` is `Execute` (load, look up the proposal, check the attempts of the
copy), `ExecuteFix` and `VerifyFix` (verify and save), `verify` is `VerifyAgain` and
`VerifiedAgain`. Left out, because they change no state: refused requests (404, 403, 400),
`approve`, and the reads. `Environment` says what else happens: requests on one session
overlap, writes fail (the agent swallows that, `verify` answers 500), the server is
restarted.

### `ToolRegistry`

| variable | code |
|---|---|
| `caller`, `answer` | the thread in `execute_tool`, and what it returned |
| `future`, `queue` | the executor's futures and work queue |
| `outcome` | what the function returned, through `run_tool` |
| `done` | external: the functions that did their work |

`Submit`, `GetResult`, `TimesOut` and `GiveUp` are the steps of `execute_tool`; between
the timeout and `future.cancel()` the function may still begin or end, so they
are two actions. `Start` and `FunctionEnds` are the pool's threads and the functions they
run. The executor is not part of the repository and is modelled by what the code relies on.
Each call is a call of some tool; which one, and its arguments, make no difference here.

### `Pipeline`

| variable | code |
|---|---|
| `pc` | external: the PC, a field for each thing a check can see |
| `category`, `depth` | the plan's category; the depth of an investigation in Settings |
| `provider`, `rounds` | whether an AI is asked; the rounds of follow-ups that may still come |
| `results`, `ran` | `session.diagnostics`: what the successful checks reported, and every check that ran |
| `diagnosis`, `proposals` | the fields of the session |
| `applied`, `success`, `repeated`, `improved` | the last fix, its outcome, and the verification of it |
| `tried`, `attempts` | `session.remediations`: which fixes, and how many |
| `late` | external: fixes still running after the wait for them ended |
| `phase`, `trouble` | where the session is; how much more may go wrong (a bound of the model) |

`Investigate` runs the plan: the category's checks, after the picks of an AI if it answers.
`FollowUp` is a round of checks that an AI or the local rules ask for, `Diagnose` the last one
with the rules and the proposals. What an AI asks for (`Answers`) is any list of names, valid or
not; `Accepted` is the filter of planner and agent, `FirstOf` what is kept of a list under a
limit, `Run` the filter of the diagnostic engine. `Apply` carries out a proposal, or the last fix once more ("Try again"), with any
of the outcomes its code has: a service stopped and not started again, an adapter switched
off and not on, a few folders cleared; the helper's prompt declined, its result unreadable.
`ApplyTimesOut` is a fix given up, which `LateFixEnds` completes at any later time. `Verify`
repeats the measurements and compares; `Continue` is "Continue investigation", offered
after a fix that was carried out and did not help. Any check may fail (`Failing`) and the PC
may change by itself (`Drift`).

Measurements are abstracted to values on both sides of every threshold of the rules and
the rows; what a PC may be like at all is `IsPC`, and the faults of a run are values of it.
A drive of 100 GB makes its free space a percentage too. A service has the states
the queries can tell apart; `closing` is a disabled one that has not stopped. What
a fix cures is any part of what it is about: Windows decides.

### `Settings` and `Pages`

| variable | code |
|---|---|
| `stored`, `keys` | the settings file; the keys saved, those of this run, those of the environment, and what the store is able to do |
| `developer` | external: a provider named by the environment |
| `page`, `shown`, `dialog` | the page of the window, what it says of the analysis, the open "Remove the API key?" |
| `sending` | the providers held by running sessions and connection tests |
| `tab`, `built`, `timer`, `sampling` | the fields of the Diagnostics page |
| `working`, `answers` | samples being taken by threads, and on their way back |

One action per handler, named as in the code (`_set_analysis`, `_format_changed`,
`_save_key`, `_remove_key`, `_test`, `navigate`, `_show_tab`, `_tick`, ...). A session keeps the
provider it was built with, so it may send after Settings was changed. The dialog that
removes a key does not keep the user from moving to another page, or from changing the
provider, before answering it. `Restart` is a new process: the store may work again or
no longer, keys of the run are lost, an unreadable file is replaced by the defaults.

An address is abstracted to what `KeysStayHome` tells apart: none, an AI server on this PC,
or a remote one, with the provider selected when it was entered. Of what is sent, the problem
description and the measurements are `Required`, the names of processes and the excerpts of the
event log `Optional`; `MaySend` is what a session gives its provider. What a page says is
kept as the claims it makes: the AI provider page's provider, key and `banner`, the Privacy page's
items and address. Editing a field and leaving
it (which saves it) is one step. The condition of the key store changes only from one
run of the program to the next. Constructing the live sampler is assumed not to fail. The texts of
keys, model names, theme, depth and autostart make no difference to these properties and are left out, and so
are the pages that only show what they load.

## 3. Runs

| run | cfg | what it asks |
|---|---|---|
| `desktop` | `Desktop.cfg` | One session with every step of the agent and any AI setting, cancelled, closed or crashed at any moment |
| `faults` | `Faults.cfg` | Failed writes, exceptions, crashes, shortcuts under a dialog, two dialogs at once: is the PC still changed only as promised? |
| `decline_message` | `DeclineMessage.cfg` | Is "No changes were made" true when it is said? It is not. |
| `cancelled_cloud` | `CancelledCloud.cfg` | Does History account for all that was sent? Not for a cancelled session. |
| `stale_dialog` | `StaleDialog.cfg` | Is a fix applied only to the session it was proposed for? Not by a dialog left open. |
| `api_overlap` | `ApiOverlap.cfg` | What holds when requests on one session overlap, writes fail and the server restarts? |
| `api_serial` | `ApiSerial.cfg` | What holds when each client waits for its answer? |
| `api_attempts` | `ApiAttempts.cfg` | Is the bound on attempts kept when requests overlap? It is not. |
| `registry` | `Registry.cfg` | Is every caller answered when hanging functions take all threads, and does nothing start late? |
| `late_fix` | `LateFix.cfg` | Is a fix that timed out really not applied? It may be. |
| `pipeline` | `Pipeline.cfg` | On a PC with faults, failing checks and half-done fixes: is a fault found, a fix justified, a verdict true? |
| `pages` | `Pages.cfg` | Whatever is changed while sessions run: do keys go where they belong, do the pages name the AI and the address that would be used, does the live tab measure when it should? |

`desktop` checks, of safety: `RestingSessionSettled` (nothing half-done is left where no
task runs), `HonestResult` (`resolved` is an applied fix that was measured to help, `no
issue` a PC not changed), `NoFixAppliedTwice`, `BoundsNeverTrip` (budget and buttons keep
clear of the exceptions of the safety layer), `HistoryCurrentAtRest`,
`HistoryMissesAtMostOne` (after a crash), `DiagnosisAccountsForCloud`; of steps:
`OneWriter` and `DeclineIsFinal`; and `WaitEnds`, a wait of the user's comes to an end.
`faults` checks `AttemptsBounded`, `HistoryNeverAhead` and the refinement
`ImplementsApproval`.

The properties of `desktop` are stated for its environment: with a failed write History
is not current, with an exception a session may rest half-done in state `error`, and with
a dialog left open a declined session can be changed after all (`stale_dialog`).
What has to hold even then is checked by `faults`.

`api_overlap` checks `OnlyOffered` (no save of a stale copy lets a fix through that was not
proposed) and `RecordRealized` (records may be lost to another request's save, but none is
made up or moved). `api_serial` checks `RecordComplete`, nothing is lost, and
`AttemptsBounded`. `registry` checks `NoLateStart` and the liveness property
`CallersAnswered`.

`pipeline` checks `NothingMissed` (with every check successful and more than a quick look, a
fault in what the category is about raises the level), `FixAddressesAFault` (with every
check successful, a fix on evidence is about something wrong), `MissingEvidenceNeverAlarms`
(taking a report away makes a first diagnosis milder, never graver),
`AlarmingCardExplained` (no red card under "no issue found"), and of steps `ImprovedMeansGone`
(a fix said to have helped leaves neither its cause nor the leading one, by a full
check-up of the PC and not by the measurements it was judged on) and `ContinuedIsCurrent` (an
investigation that goes on after a fix that did not help finds a problem with a fix only where
something is wrong with the PC as the fix left it). Of the AI and the safety
layer, it checks `OnlyChecksRun` (whatever names an AI, a category or a cause gives, only
registered read-only checks run, within the steps) and `OffersAreNotRefused` (no fix is offered that
the safety layer would refuse after the user agreed). What a category is about
(`Concerns`), when a field is wrong (`Wrong`) and what a fix is about (`About`) are stated
beside the rules, not computed from them.

The picks of an AI come first and the plan is cut behind them, so `NothingMissed`,
`FixAddressesAFault` and `AlarmingCardExplained` are stated for sessions in which the
category's own checks were run all the same (`Unabridged`). Without that they fail: where the AI's
picks leave no room for `ping_gateway`, a failing name lookup is blamed on DNS and
`flush_dns` offered on a PC whose adapter is off (`planner.py:44-65`,
`troubleshooting.py:263-303`). No text promises otherwise, so it is not a finding.

`ContinuedIsCurrent` is about measurements from before a fix and from its verification, which
are merged by hand (`agent.py:414-416`): what was repeated must win. It is stated for one attempt
that was carried out, so that nothing touches the PC between the verification and the next
diagnosis; for a merge in which nothing that was not repeated is out of date; and, like the
three properties above, for checks that succeeded. An older measurement that was not repeated
and no longer holds does mislead the next diagnosis. The code has no means to know, and no
text promises more.

`pages` checks `KeysStayHome`, `LocalStaysLocal`, `BannerNamesAI` (AI provider page),
`SentAsNamed` (Privacy page), `LiveWhileShown`, `NeverPilesUp`, and the liveness property
`LiveNeverStalls`. `BannerNamesAI`: under "Cloud AI is on" or "Local AI model is on" a session would
get that very AI, and be able to ask the cloud AI; under the other banners, which tell of
built-in analysis, it asks none but one on this PC or one that a developer named. `SentAsNamed`: the
Privacy page gives the address a session would send to, what it does not name of what is sent is the
problem description, and under "Nothing is sent" only a developer's provider is sent anything. Each of
the three exceptions is a disagreement of a page with the code (findings 6 to 8), and
TLC finds the property violated without it. `SentAsNamed` does not say that all that is named is
sent: with cloud analysis and no key the page names items that stay here.

### Bounds

- *Checks*: 4 tools with `MaxSteps` 3, so that the step bound cuts plans, follow-ups and
  thorough checks, and a verification may measure a tool the session had no room for; that
  makes `Budget` negative, the case `continue_investigation` guards with `max(0, ...)`.
- *AI*: `MaxRounds` 3 as in the code, `MaxFollowUps` and `FollowUpBudget` 2, and each
  of the three settings. Two kinds of data tell apart what is sent before a diagnosis
  and during it.
- *Fixes*: 2 fixes and 2 attempts: a second proposal, a repeated attempt, and the bound reached.
- *Sessions*: 1 in the passing runs. Sessions share no state but the history, where each
  has its own row; what a dialog carries from one to the next needs 2, which
  `stale_dialog` has and for which the refinement is proved.
- *Dialogs*: at most `MaxDialogs` open at once, a bound of the model. Two are enough for an
  acceptance to meet another, an attempt under way, or an attempt made since.
- *API*: two clients, one session when their requests overlap and two when they do not.
  `MaxChanges`, a bound of the model, allows one change more than `MaxAttempts`, so that the
  bound can be exceeded; `MaxRepeats` bounds the verifications of a session. One tool, since
  the diagnosis runs undisturbed. Clients and fixes are interchangeable (`SYMMETRY` in
  `api_overlap`, which has no liveness property).
- *Registry*: 4 calls on 2 threads, 2 of which may hang: both threads can be taken for
  ever with two more calls in the queue. The code has 4 threads.
- *Pipeline*: 59 faults, every field of the PC with a value beyond each threshold; any two of
  them at once, or one with a failing check, a fix given up or a change of the PC,
  or two of these (`MaxTrouble` 2; an AI counts as one), in all 17 categories and 3 depths. Two faults are enough
  for one to hide another from a rule, for the cause of a fix to differ from the leading
  one, and for a fix to remove one of two. `MaxSteps` is 10 and `MaxAttempts` 3, so that
  the bounds cut plans and follow-ups. An AI has 3 rounds as in the code and 3 lists
  to answer with: a fix and an unknown name among checks, a check named twice, and as many
  picks as fill the plan.
- *Pages*: 576 installations (settings, saved keys, a developer's provider, the store's
  condition); two changes of settings or keys in a run (`MaxEdits`), one session or test at a
  time (`MaxSending`). One change may come while a session runs and another under the
  dialog. An installation with an address of this PC as the cloud provider's is reached by an edit.

Deadlock is not checked where the system really may stop: in `api_serial` and
`api_attempts` when every bounded request has been made, in `registry` and `late_fix` when
every call was answered, in `pipeline` when the session is over.

### Fairness

`FairSpec` assumes two things. `WF(WorkerStep)`: a task makes progress, because each check
and fix runs under the registry's timeout (`tool_registry.py:184-228`), each AI request under
an HTTP timeout, and a thread of Qt's global pool becomes free for the task: what other
pages run on that pool ends by the same timeouts.
`WF(DeliverDone \/ DeliverFailed)`: the event loop delivers what a thread posted to
it. Nothing is assumed of the user, of dialogs, of closing or of relaunching; so
`WaitEnds` allows the window to be closed and stay so, when the event loop is gone.

`FairSpec` of `ToolRegistry` assumes that a timeout that is due fires, that a thread woken or
free goes on, and that a function outside `MayHang` comes to an end. `CallersAnswered` holds with
nothing assumed of the functions in `MayHang`.

`Pages` assumes weak fairness of `Tick` (the timer fires while it is active), of `SampleEnds`
(a thread comes back from its queries, or fails) and of `SampleAnswered` (the event loop
delivers it); nothing of the user. The worker pool has 4 threads and is not
modelled: a sample may start late, but what other pages run there ends too.

`ApiServer` and `Pipeline` have no liveness property: a client, or the user, may always
leave it at that.

### Findings

1. `Agent.decline` writes "No changes were made" also when an earlier fix of the session
   was applied (`agent.py:303`).
2. `README.md:144` says each session records exactly what was sent. `session.cloud` is
   written in `_analyze` only, so a session cancelled during its checks is saved with
   nothing recorded, after the problem was sent to a cloud AI (`agent.py:258`, `282-294`).
3. The page shortcuts work under an open approval dialog (`window.py:164-168`), which
   keeps its proposal (`troubleshoot.py:546-550`) while `controller.apply` uses the current
   session: a fix is applied to, recorded in and verified against a session that never
   proposed it.
4. `README.md:131` bounds a session to 3 attempts. Two overlapping `execute` requests check
   the bound on their own copies (`server.py:120`, `agent.py:330`), change the PC, and
   overwrite each other's record when they save: the bound is exceeded.
5. A fix that times out is reported as one that "couldn't be applied"
   (`verification_engine.py:429`), while its function goes on (`tool_registry.py:205`) and may
   apply it. Clearing temporary files has no limit of its own.

Three more concern what the Settings pages say. They have no run of their own: `BannerNamesAI`
and `SentAsNamed` name them as exceptions, and `pages` checks that there are no others.

6. With cloud analysis and no key, the AI provider page says "Until then WinFix uses built-in
   analysis on this PC." (`settings.py:419-421`). An address on this PC needs no key
   (`provider.py:167-169`): the AI there is asked.
7. The Privacy page's account of what is sent leaves out the problem description
   (`settings.py:599-605`), which each session with a cloud AI sends first (`provider.py:244-251`),
   and which the AI provider page (`settings.py:342-345`) and `README.md:140-141` name.
8. "Nothing is sent. Analysis runs on this PC." on the Privacy page (`settings.py:607`) is not true
   where `LLM_PROVIDER` names a provider (`provider.py:518-519`), nor is "Built-in analysis is on"
   (`settings.py:410-414`). `.env.example:6-9` documents the variable; the pages and
   `README.md:140` know Settings only.

## 4. Proofs

The theorems assume `SessionAssumption`, `TroubleshootAssumption`, `ApiAssumption`,
`RegistryAssumption`, `PagesAssumption` and `PipelineAssumption`: finite sets of tools, fixes and
calls, constants of the right kind. No bound of the runs is assumed; the number of sessions,
tools, fixes, attempts, dialogs, requests, installations, edits, faults, failing checks and
answers of an AI is any. `Environment`
is any, with failed writes, exceptions, crashes and shortcuts included, except where a
theorem says otherwise (`OutcomeProofs`, `RecordsAreComplete`, `AttemptsStayBounded`); four
theorems about `Pipeline` assume a least number of steps, and one that faults are beyond the
thresholds (below).

- `SessionProofs`: what each operator of `Session` returns and preserves (types, and
  that recording a fix appends to the remediations and nothing else does).
- `TroubleshootProofs`: `TypeOK` is not inductive (a fix is applied for `pending`, which
  must be a fix by then; `Head(session.proposals)` needs a proposal). The invariant is
  `Coherent`: the type, `TaskMatchesState` (which agent method runs decides the
  controller's state), `ViewMatchesState` (the page shows a diagnosis or a result only in the
  state for it) and `SessionInUse`. Each action is a lemma; `AlwaysCoherent`
  combines them. `TypeCorrect` follows, and `SingleWriter`: while a task runs
  the state is investigating or applying, no view of these has a button that writes the
  session, so only the task's own steps, each of which moves the task, change it.
  Of what is done to the PC, `Coherent /\ ChangesRecorded` is inductive: the remediations of the
  session are the log of its changes, and a task about to execute has an attempt left.
  The second part is why it needs `Coherent`: nothing else may touch the session between
  `BeginRemediation` and `ExecuteFix`. `AttemptsAreBounded` and `HistoryIsNeverAhead` follow.
  Of the refinement, `KeepsPromise`: each step of `Troubleshoot` is a step of `FixApproval`
  or a stutter. The consent is the task's `pending` from "Apply fix" until the fix
  runs; closing one dialog out of several maps to the removal of its offer, a failed
  attempt bound or an exception to `Lapse`, a crash to `Restart`.
- `ApiProofs`: `OnlyOffered` needs to know that the copy a request works on has the proposals of
  the row, which no overlapping save may have changed. `Consistent` says so: a request
  that diagnoses has its session for itself (`Owned`), every other keeps the row's proposals, and
  rows are saved under their own id (`Keyed`). `AlwaysConsistent` and
  `OnlyOfferedFixes` hold in every environment. `RecordsAreComplete` assumes an empty
  one: at most one request works on a session (`Alone`) and its copy knows all that was
  done (`CopyComplete`). `AttemptsStayBounded` follows, from the same invariant: the copy
  whose attempts are counted holds every attempt. Without `Environment = {}` it is false (`api_attempts`).
  `NothingInvented` needs no more than that a copy is loaded from a row and only what was
  done is added to it: what is saved is a part of the log, in its order.
- `RegistryProofs`: `NoLateStart` holds because a call that was answered has no pending
  future (`FuturesSettled`): the cancellation comes before the answer.
- `OutcomeProofs`: the properties of `desktop`, for any number of everything. All its theorems
  assume that no page shortcut works under a dialog (`"shortcut" \notin Environment`),
  without which they are false (`stale_dialog`); the two about History also that no write fails, and
  `BoundsDoNotTrip` that no step raises an unexpected exception. The properties are far from
  inductive, because what is true at rest was decided several steps earlier. `Core` follows a
  fix on its way: `OneDialog` (an open dialog keeps everything else away and offers a fix that
  is still open), `FixOnItsWay` (what the session holds at each step from the diagnosis to the
  verdict, above all that the fix under way was not applied before) and `Verdict` (each
  remediation has its verification, a session called resolved the one that says so).
  `FixesAreNotRepeated` and `ResultsAreHonest` follow from it. On top of `Core`, each
  theorem has an invariant of its own: `Accounted` (from the moment the analysis ran, the
  record of what was sent is all that was sent), `Saved` (where the saved row may lag behind the
  session, and by how much), `DeclinedIsOver` (nothing that could write a declined session is
  left), `ChecksInOrder` and `SettledAtRest` (which checks may be open at which step), and
  `WithinBounds` (what is queued fits into what is left of the step bound, and an attempt is
  left wherever a fix can be chosen).
- `PagesProofs`: `KeysAlwaysStayHome` and `LocalAlwaysLocal` hold of whatever `get_provider`
  returns (`Harmless`) because `TypeOK` says that a stored address belongs to the provider
  selected; a provider in use keeps it (`SendingHarmless`). `BannerAlwaysNamesAI` and
  `PrivacyNamesWhatIsSent` rest on `Current`: what the page shows is what its function would
  return now. What is left is to compare it with `get_provider`, which reads the same settings
  another way: `CloudAsked` (with cloud analysis and a key, the provider selected is asked),
  `AskedAnyway` (which other AI may be asked) and `WhatLeaves` (when an AI off this PC is).
  `NeverTwoSamples` rests on `OneSample`: the flag is set exactly while one sample
  is being taken or is on its way, which neither a tab, a failure nor leaving the page
  disturbs.
- `KnowledgeProofs`: what the rules make of any measurements, as lemmas; `Pipeline`'s theorems
  are short once they are there. `Sign(r, category, id)` says of the readings alone when each of
  the problems is shown; `ProblemShown` and `SignFound` say that the rules find a problem exactly
  then. `Readings`, `ServiceReadings` and `IndexerReadings` tie the readings to the PC, for results
  that are all of one PC (`Honest`) with any checks missing; `ReportedReadings` does as
  much as is true of results measured at different times (`Reported`). From these:
  `LessEvidence` (what is a problem without a check is one with it, at least as serious),
  `RedCardExplained` (a red card's evidence is a sign of some problem), `FirstFacts` (level,
  confidence and the order of the rules leave no tie, so that "the leading cause" is one), and
  `BlendSigns` (below).
- `PipelineProofs`: `TypeOK` is not inductive: that `Apply` leaves a PC needs to know which
  fixes may be offered, and that in turn whose diagnosis they come from. `PipelineInv` has four parts.
  `StateInv` and `MeasuredInv` are the types, that every result is a report of some
  PC, and that before the first fix no more checks ran than steps are allowed; `DiagnosisInv`
  says that before the first fix all results are of one PC, and that the diagnosis is
  `analyze(category, results)` unless a fix that was carried out has just been verified, when the
  results are newer than the diagnosis; `OffersInv` that each proposal is a
  fix of the catalog with the parameters the safety layer wants, and for a cause of the
  diagnosis or the category's general step, and that the attempts cover the fixes tried. Its preservation
  is one lemma per action. `PipelineTypes`, `OnlyChecksEverRun` and `OffersNeverRefused` follow from it;
  `MissingEvidenceStaysMild` with `LessEvidence`.
  - `FixesAddressFaults` and `RedCardsExplained` need in addition that the plan of the category
    was carried out (`PlannedInv`), far enough to hold `ping_gateway`: without the router's answer a
    missing route is taken for a failing name lookup, and an unreachable internet has a red card and no cause. In
    the lists of all three network categories it is among the first three, hence
    `MaxSteps >= 3`. The hypothesis is needed: with 2 steps TLC finds both properties violated, with 1
    the first. The default is 10 (`config.py:85`), and the quick look takes 4. `FixFault` then goes through the problems that have a fix and finds
    what is wrong in the PC that showed the sign.
  - `FaultsAreFound` has the hypotheses `MaxSteps >= 5` (the last of the checks that
    the fields of `Concerns` need is the fifth of its list) and `Telling`: a value that differs
    from a healthy PC's is beyond the threshold of its rule, for a memory use of 55 % is a
    difference and no fault. `FaultInv` says that before a fix each field of the PC is healthy or
    has the value of some fault, any number of them at once. Each problem a field shows is then a
    `Sign` (`SeenSigns`, `CountedSigns`, `NetworkSigns`, `ServiceSigned`), whatever else is wrong:
    two faults never hide each other, which the run can show for pairs only.
  - `ImprovedIsGone` needs no hypothesis. When the checks of a verification succeeded, the results
    are a `Blend`: each is the one of before or the one a full check-up of the PC would have now. A
    target of the fix is a problem that was found before, so there was a sign of it; had the
    check-up a sign of it as well, `BlendSigns` shows that the blend has one, whichever checks were
    repeated, and the verification would have found it. The search indexer is an exception: its
    state is read from its own check or, without it, from two others, and one of those may hide what the other gave away.
    There `IndexerFix` shows that the fix can only be the restart of the indexer
    (where the disk is low as well, the disk leads, `IndexerLeads`), and its verification
    repeats the indexer's own check.
  - `ContinuedStaysCurrent` needs `MaxSteps >= 3` for the sake of `FixFault`, on which it rests as
    `FixesAddressFaults` does. That the results are all of one PC again (`Honest`) is
    `VerifiedInv`: while the only attempt is one that was carried out, no fix outlives the wait
    for it, so that what the verification measured still is the case when the investigation
    goes on.

Only model-checked: the liveness properties `WaitEnds`, `CallersAnswered` and
`LiveNeverStalls`; liveness under fairness is beyond the prover. Every other property of a
passing run is proved. What `analyze` computes for a particular PC is evaluated by TLC in
the run and reasoned about symbolically in the proofs; that the constants of the run (59 faults)
satisfy `Telling` is a matter of comparing numbers in `MCPipeline`.

## 5. Not modelled

- *History*: deleting, searching and clearing sessions, the migrations of the schema, and the
  page that lists them. A hazard of it is listed in `PROJECT.json`; the code makes no
  promise there that a property could hold it to.
- *API*: `approve` and the reads change nothing. Status and result of a session after
  `/api/verify` may contradict each other; no text says which is right.
- *Agent*: the number of diagnostic calls. The bound is modelled on the distinct
  checks of a session, as `check_agent_step` counts them; repeated measurements are not counted.
- *AI providers*: prompts, the parsing of answers and the redaction of texts. What an AI
  answers is any list of names in `Pipeline`, and in `Session` what the agent lets through.
- *Safety layer*: the pattern of names, which registration implies, and the types of
  argument values, which the program itself fills in.
- *Troubleshoot page*: the live progress rows, the timeline, the error bar and the notices. (The
  notice "Troubleshooting was stopped. No changes were made.", `troubleshoot.py:141`, is shown
  after an applied fix as well; an error that came while the page was hidden appears on the
  start view later, `troubleshoot.py:162`.)
- *Elevation*: the result file, its name and its removal; its outcomes are in
  `Remediations`.
- *Settings and credentials*: the text of a key, so that an old key that could not be
  overwritten and its replacement are the same (a hazard in `PROJECT.json`). The settings are
  updated on the UI thread only, so that two updates do not meet.
- *Remediation actions* that no rule names: resetting Winsock, clearing the update cache, opening
  Settings, closing an app.
- *Measurements*: `get_top_memory_processes`, the second source of the list of apps
  (`evidence.py:65-67`), which no category lists and only an AI can ask for.
- *Knowledge base*: wording, and how a category is recognised in the words of the user; a
  session may have any category.
- Widgets, theme, the other tabs and pages (they show what they load), the calls of the Windows
  API, the build script, the demo mode (simulated evidence) and the console (the same agent, called in
  sequence).

`Troubleshoot` and `ApiServer` take what a fix reports for what it did; what a late or half-done
one does is the subject of `ToolRegistry` and `Pipeline`.

## 6. Plan

Done: everything under 2 to 4. What would come next:

1. `Pipeline` as a refinement of `Session`: each computed choice (checks, proposals, verdict)
   is one that `Session` allows, so that what is proved of `Troubleshoot` holds of sessions
   with real data.
2. `HistoryPage`, once the code says what clearing and searching promise while a
   session runs.
3. The text of a key in `Settings`, with a finding on replaced keys if the store is
   still read first.
