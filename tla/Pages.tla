-------------------------------- MODULE Pages --------------------------------
(***************************************************************************)
(* The pages that keep a state of their own beside a troubleshooting       *)
(* session: Settings > AI provider and Settings > Privacy                  *)
(* (app/gui/pages/settings.py), and the live values of Diagnostics         *)
(* (app/gui/pages/diagnostics.py, app/diagnostics/live.py), in the window  *)
(* that shows one page at a time (app/gui/window.py).                      *)
(*                                                                         *)
(* A session and a connection test take the provider that Settings gives   *)
(* at their start and keep it to their end, whatever is set meanwhile.     *)
(***************************************************************************)
EXTENDS Settings, Naturals, FiniteSets, Sequences

CONSTANTS
    Installations,   \* external: the files and keys WinFix may be started with
    MaxEdits,        \* bound of the model: changes of settings and keys
    MaxSending       \* bound of the model: providers in use at a time

Tabs      == {"performance", "storage"}
PageNames == {"home", "settings_ai", "settings_privacy", "diagnostics"}
Developer == Providers \cup {NoProvider}

ASSUME PagesAssumption ==
    /\ Installations \subseteq [stored : SavedSettings, keys : Keys, developer : Developer]
    /\ {MaxEdits, MaxSending} \subseteq Nat \ {0}

VARIABLES
    stored,      \* the settings file
    keys,        \* the API keys
    developer,   \* external: LLM_PROVIDER of the environment
    page,        \* the page shown
    shown,       \* what the page says of the analysis
    dialog,      \* "Remove the API key?" is open
    sending,     \* the providers of the running session and connection tests
    tab,         \* Diagnostics: current
    built,       \* Diagnostics: the tabs in pages
    timer,       \* Diagnostics: the timer is active
    sampling,    \* Diagnostics: _sampling
    working,     \* Diagnostics: samples being taken by worker threads
    answers,     \* Diagnostics: samples on their way to the UI thread
    edits        \* bound of the model

settingsVars == <<stored, keys, developer, dialog, sending, edits>>
liveVars     == <<tab, built, timer, sampling, working, answers>>
vars == <<stored, keys, developer, page, shown, dialog, sending, tab, built, timer,
          sampling, working, answers, edits>>

current_provider == get_provider(stored, keys, developer)

-----------------------------------------------------------------------------
(* What a page says                                                        *)

Says(analysis, type, has_key, banner, items, endpoint) ==
    [analysis |-> analysis, type |-> type, has_key |-> has_key, banner |-> banner,
     items |-> items, endpoint |-> endpoint]

Nothing == Says("local", NoProvider, FALSE, "none", {}, NoAddress)

(* "Built-in analysis is on", "Local AI model is on", "Add an API key ...   *)
(* Until then WinFix uses built-in analysis" and "Cloud AI is on".          *)
Banner(analysis, has_key) ==
    CASE analysis = "local"    -> "built_in"
      [] analysis = "local_ai" -> "local_ai"
      [] OTHER                 -> IF has_key THEN "cloud_on" ELSE "add_key"

(* AIProviderPage._refresh *)
Refreshed(s, k) ==
    LET has_key == get_api_key(k, s.provider_type)
    IN  Says(s.analysis, s.provider_type, has_key, Banner(s.analysis, has_key), {}, NoAddress)

(* PrivacyPage.on_show: "What is sent" names the measurements and what the  *)
(* user chose, or says that nothing is.                                     *)
PrivacyRow(s) ==
    IF s.analysis = "cloud"
    THEN Says("cloud", s.provider_type, FALSE, "none", {"measurements"} \cup s.items,
              effective_endpoint(s))
    ELSE Says(s.analysis, NoProvider, FALSE, "none", {}, NoAddress)

on_show(p) ==
    CASE p = "settings_ai"      -> Refreshed(stored, keys)
      [] p = "settings_privacy" -> PrivacyRow(stored)
      [] OTHER                  -> Nothing

Init ==
    /\ \E start \in Installations :
          /\ stored = start.stored
          /\ keys = start.keys
          /\ developer = start.developer
    /\ page = "home" /\ shown = Nothing /\ dialog = FALSE /\ sending = {}
    /\ tab = "performance" /\ built = {}
    /\ timer = FALSE /\ sampling = FALSE /\ working = 0 /\ answers = <<>>
    /\ edits = 0

-----------------------------------------------------------------------------
(* Diagnostics                                                             *)

(* Faulty variant: a sample is started although one is still running. *)
TickUnguarded == sampling' = TRUE /\ working' = working + 1

(* A slow sample that is still running is not overtaken by another. *)
_tick ==
    IF sampling THEN UNCHANGED <<sampling, working>>
    ELSE sampling' = TRUE /\ working' = working + 1

(* Building a tab for the first time may fail: a message takes its place. *)
_show_tab(t) ==
    /\ tab' = t
    /\ built' = built \cup {t}
    /\ UNCHANGED answers
    /\ \/ /\ t = "performance"
          /\ _tick
          /\ timer' = TRUE
       \/ /\ t # "performance" \/ t \notin built
          /\ timer' = FALSE
          /\ UNCHANGED <<sampling, working>>

SelectTab(t) ==
    /\ page = "diagnostics"
    /\ _show_tab(t)
    /\ UNCHANGED <<settingsVars, page, shown>>

(* The timer, or Refresh on the live tab. *)
Tick ==
    /\ \/ timer
       \/ page = "diagnostics" /\ tab = "performance"
    /\ _tick
    /\ UNCHANGED <<settingsVars, page, shown, tab, built, timer, answers>>

SampleEnds(outcome) ==
    /\ working > 0
    /\ working' = working - 1
    /\ answers' = Append(answers, outcome)
    /\ UNCHANGED <<settingsVars, page, shown, tab, built, timer, sampling>>

_show_sample == sampling' = FALSE

(* Faulty variant: an error message is all that is left of a failed sample. *)
FailureForgotten == UNCHANGED sampling

_sample_failed == sampling' = FALSE

SampleAnswered ==
    /\ answers # <<>>
    /\ answers' = Tail(answers)
    /\ IF Head(answers) = "done" THEN _show_sample ELSE _sample_failed
    /\ UNCHANGED <<settingsVars, page, shown, tab, built, timer, working>>

-----------------------------------------------------------------------------
(* The window                                                              *)

(* Faulty variant: the page is left as it is. *)
LeftRunning(p) == timer' = timer

on_hide(p) == timer' = (timer /\ (page # "diagnostics" \/ p = page))

(* A click in the navigation, a shortcut, or Back. *)
navigate(p) ==
    /\ page' = p
    /\ shown' = on_show(p)
    /\ IF p = "diagnostics" THEN _show_tab(tab)
       ELSE on_hide(p) /\ UNCHANGED <<tab, built, sampling, working, answers>>
    /\ UNCHANGED settingsVars

(* The window closes and WinFix is started again, in a new process.         *)
Restart ==
    /\ \E readable \in BOOLEAN : stored' = load(stored, readable)
    /\ \E condition \in Stores :
          keys' = [keys EXCEPT !.store = condition, !.session_only = {}]
    /\ page' = "home" /\ shown' = Nothing /\ dialog' = FALSE /\ sending' = {}
    /\ tab' = "performance" /\ built' = {}
    /\ timer' = FALSE /\ sampling' = FALSE /\ working' = 0 /\ answers' = <<>>
    /\ UNCHANGED <<developer, edits>>

-----------------------------------------------------------------------------
(* Settings > AI provider                                                  *)

CanEdit == page = "settings_ai" /\ edits < MaxEdits

(* The sections of the page that are visible. *)
CloudSection   == CanEdit /\ shown.analysis = "cloud"
LocalAISection == CanEdit /\ shown.analysis = "local_ai"

_refresh == shown' = Refreshed(stored', keys')

update(s) ==
    /\ stored' = s
    /\ edits' = edits + 1
    /\ UNCHANGED <<keys, developer, page, dialog, sending, liveVars>>

_set_analysis(a) ==
    /\ CanEdit
    /\ update([stored EXCEPT !.analysis = a])
    /\ _refresh

(* Faulty variant: the address stays, whichever provider it was meant for. *)
FormatOnly(type) == [stored EXCEPT !.provider_type = type]

WithFormat(type) == [stored EXCEPT !.provider_type = type, !.endpoint = NoAddress]

_format_changed(type) ==
    /\ CloudSection
    /\ type # stored.provider_type
    /\ update(WithFormat(type))
    /\ _refresh

_save_endpoint(url) ==
    /\ CloudSection
    /\ validate_endpoint(url)
    /\ update([stored EXCEPT !.endpoint = Address(url, stored.provider_type)])
    /\ UNCHANGED shown

_save_local_endpoint(url) ==
    /\ LocalAISection
    /\ validate_endpoint(url)
    /\ update([stored EXCEPT !.local_endpoint = Address(url, "local_ai")])
    /\ UNCHANGED shown

ToggleItem(item) ==
    /\ CloudSection
    /\ update([stored EXCEPT !.items = IF item \in @ THEN @ \ {item} ELSE @ \cup {item}])
    /\ UNCHANGED shown

_save_key ==
    /\ CloudSection
    /\ keys' = set_api_key(keys, stored.provider_type)
    /\ edits' = edits + 1
    /\ UNCHANGED <<stored, developer, page, dialog, sending, liveVars>>
    /\ _refresh

_remove_key ==
    /\ CloudSection
    /\ shown.has_key
    /\ dialog' = TRUE
    /\ edits' = edits + 1
    /\ UNCHANGED <<stored, keys, developer, page, shown, sending, liveVars>>

(* Faulty variant: the page still shows the key. *)
KeyGone == UNCHANGED shown

(* A page that is not shown is refreshed too, and once more on_show. *)
KeyRemoved == IF page = "settings_ai" THEN _refresh ELSE UNCHANGED shown

(* The key removed is that of the provider selected when the dialog closes. *)
RemoveAccepted ==
    /\ dialog
    /\ dialog' = FALSE
    /\ keys' = delete_api_key(keys, stored.provider_type)
    /\ UNCHANGED <<stored, developer, page, sending, edits, liveVars>>
    /\ KeyRemoved

RemoveCancelled ==
    /\ dialog
    /\ dialog' = FALSE
    /\ UNCHANGED <<stored, keys, developer, page, shown, sending, edits, liveVars>>

-----------------------------------------------------------------------------
(* What uses the provider                                                  *)

Sends ==
    /\ Cardinality(sending) < MaxSending
    /\ sending' = sending \cup {current_provider}
    /\ UNCHANGED <<stored, keys, developer, page, shown, dialog, edits, liveVars>>

_test ==
    /\ page = "settings_ai"
    /\ \/ shown.analysis = "cloud" /\ shown.has_key
       \/ shown.analysis = "local_ai"
    /\ Sends

StartSession ==
    /\ page = "home"
    /\ Sends

SendingEnds ==
    \E p \in sending :
        /\ sending' = sending \ {p}
        /\ UNCHANGED <<stored, keys, developer, page, shown, dialog, edits, liveVars>>

-----------------------------------------------------------------------------
Next ==
    \/ \E p \in PageNames : navigate(p)
    \/ \E t \in Tabs : SelectTab(t)
    \/ Tick
    \/ \E outcome \in {"done", "failed"} : SampleEnds(outcome)
    \/ SampleAnswered
    \/ Restart
    \/ \E a \in Analyses : _set_analysis(a)
    \/ \E type \in Providers : _format_changed(type)
    \/ \E url \in Typed : _save_endpoint(url)
    \/ \E url \in Typed : _save_local_endpoint(url)
    \/ \E item \in Optional : ToggleItem(item)
    \/ _save_key
    \/ _remove_key
    \/ RemoveAccepted
    \/ RemoveCancelled
    \/ _test
    \/ StartSession
    \/ SendingEnds

(* The timer fires while it is active, workers finish, and the event loop   *)
(* handles what they post.                                                  *)
Fairness ==
    /\ WF_vars(Tick)
    /\ WF_vars(\E outcome \in {"done", "failed"} : SampleEnds(outcome))
    /\ WF_vars(SampleAnswered)

Spec == Init /\ [][Next]_vars /\ Fairness

-----------------------------------------------------------------------------
(* Properties                                                              *)

Addresses == {NoAddress, Here} \cup {Remote(p) : p \in Providers}

Saying ==
    [analysis : Analyses, type : Developer, has_key : BOOLEAN,
     banner : {"none", "built_in", "local_ai", "add_key", "cloud_on"},
     items : SUBSET Items, endpoint : Addresses]

ProviderType ==
    [analysis : Analyses, type : Developer, endpoint : Addresses \cup {Remote("local_ai")},
     key : BOOLEAN, items : SUBSET Optional]

InUse == sending \cup {current_provider}

(* The settings file stays one that the program may have written (the       *)
(* address belongs to the selected provider), and the rest its type         *)
(* (user_settings.py:64-82, settings.py:428-514).                           *)
TypeOK ==
    /\ stored \in SavedSettings /\ keys \in Keys /\ developer \in Developer
    /\ page \in PageNames /\ shown \in Saying /\ dialog \in BOOLEAN
    /\ sending \in SUBSET ProviderType
    /\ tab \in Tabs /\ built \in SUBSET Tabs
    /\ timer \in BOOLEAN /\ sampling \in BOOLEAN
    /\ working \in Nat /\ answers \in Seq({"done", "failed"}) /\ edits \in 0..MaxEdits

(* The key of a provider leaves the PC only for the address of that         *)
(* provider, or for the one entered while it was selected, whatever the     *)
(* environment names and however settings are changed while sessions and    *)
(* connection tests run (provider.py:503-538, settings.py:436-445).         *)
KeysStayHome ==
    \A p \in InUse : p.key /\ LeavesPC(p) => p.endpoint = Remote(p.type)

(* "Nothing leaves your device" of the local AI model is true of any        *)
(* address that can be entered for it, a remote one too                     *)
(* (settings.py:235, user_settings.py:48-61, provider.py:162-169).          *)
LocalStaysLocal ==
    \A p \in InUse : p.analysis = "local_ai" => ~LeavesPC(p)

(* While "Cloud AI is on" is shown, a session would get the provider shown, *)
(* with its key, and one with which it asks the AI; with "Local AI model is *)
(* on", that model.  Under the other banners, which tell of built-in        *)
(* analysis, an AI is asked in two cases, where the banner is not true: one *)
(* on this PC, for which no key is needed though the page asks for it, and  *)
(* one that a developer named.  Keys change behind a dialog that may be     *)
(* answered on another page (settings.py:389-426, 488-499,                  *)
(* provider.py:167-169, 503-538).                                           *)
BannerNamesAI ==
    page = "settings_ai" =>
        /\ shown.banner = "cloud_on" =>
              /\ available(current_provider) /\ current_provider.key
              /\ current_provider.type = shown.type
        /\ shown.banner = "local_ai" => current_provider.analysis = "local_ai"
        /\ shown.banner = "add_key" /\ available(current_provider) =>
              current_provider.endpoint = Here
        /\ shown.banner = "built_in" /\ available(current_provider) =>
              current_provider.type = developer

(* With cloud analysis, the Privacy page gives the very address a session   *)
(* would send to, worked out in two places, and of what it would send names *)
(* all but the problem description, which is "Required" by the AI provider  *)
(* page.  With any other, "Nothing is sent" is true unless a developer      *)
(* named a provider (settings.py:339-345, 594-608, user_settings.py:84-86,  *)
(* provider.py:244-251, 516-538).                                           *)
SentAsNamed ==
    page = "settings_privacy" =>
        IF shown.analysis = "cloud"
        THEN /\ current_provider.endpoint = shown.endpoint
             /\ available(current_provider) =>
                   MaySend(current_provider) \ shown.items = {"problem"}
        ELSE LeavesPC(current_provider) => current_provider.type = developer

(* The PC is measured every two seconds only while the live tab of          *)
(* Diagnostics is shown, however the user leaves it                         *)
(* (diagnostics.py:242-281, window.py:186-204).                             *)
LiveWhileShown == timer => page = "diagnostics" /\ tab = "performance"

(* "Never pile up work": one sampler, whose state has no lock, takes one    *)
(* sample at a time, however tabs are selected while a slow one runs        *)
(* (diagnostics.py:326-333).                                                *)
NeverPilesUp == working + Len(answers) <= 1

(* Samples keep coming while the timer runs: a failed sample, or one asked  *)
(* for by leaving and coming back, never leaves the flag set for good       *)
(* (diagnostics.py:326-339).                                                *)
LiveNeverStalls == []<>(~timer \/ working > 0)

===============================================================================
