----------------------------- MODULE PagesProofs -----------------------------
(***************************************************************************)
(* Proofs about Settings and Pages: the safety properties of the pages,    *)
(* for any installation and any bounds.                                    *)
(***************************************************************************)
EXTENDS Pages, TLAPS

(* What holds of any provider that Settings may give. *)
KeyAtHome(p)    == p.key /\ LeavesPC(p) => p.endpoint = Remote(p.type)
LocalAtHome(p)  == p.analysis = "local_ai" => ~LeavesPC(p)
Harmless(p)     == p \in ProviderType /\ KeyAtHome(p) /\ LocalAtHome(p)

-----------------------------------------------------------------------------
(* Settings                                                                *)

LEMMA DefaultsSaved == UserSettings \in SavedSettings
BY DEF UserSettings, SavedSettings, Analyses, Providers, Optional

(* Whatever the settings, the keys and the environment: the provider that   *)
(* follows from them keeps keys and local analysis where they belong.       *)
LEMMA GivenProvider ==
    ASSUME NEW s \in SavedSettings, NEW k \in Keys, NEW d \in Developer
    PROVE  Harmless(get_provider(s, k, d))
<1>1. /\ s.provider_type \in Providers /\ s.items \in SUBSET Optional /\ s.analysis \in Analyses
      /\ s.endpoint \in {NoAddress, Here, Remote(s.provider_type)}
      /\ s.local_endpoint \in {NoAddress, Here, Remote("local_ai")}
  BY DEF SavedSettings
<1>2. ASSUME NEW type \in Providers
      PROVE  Harmless(Provider("cloud", type, EndpointFor(s, type), get_api_key(k, type),
                               s.items))
  <2>1. get_api_key(k, type) \in BOOLEAN
    BY DEF get_api_key
  <2>2. EndpointFor(s, type) \in {Here, Remote(type)}
    BY <1>1 DEF EndpointFor
  <2>3. EndpointFor(s, type) \in Addresses
    BY <2>2 DEF Addresses
  <2> QED
    BY <1>1, <2>1, <2>2, <2>3
    DEF Harmless, ProviderType, KeyAtHome, LocalAtHome, LeavesPC, available, Provider,
        Analyses, Developer
<1>3. Harmless(LocalAI(s))
  <2>1. LocalAI(s) \in ProviderType
    BY <1>1 DEF LocalAI, Provider, ProviderType, Analyses, Developer, Providers, Addresses
  <2>2. LocalAI(s).key = FALSE
    BY DEF LocalAI, Provider
  <2> QED
    BY <2>1, <2>2 DEF Harmless, KeyAtHome, LocalAtHome, LeavesPC, available
<1>4. Harmless(LocalProvider)
  BY DEF Harmless, LocalProvider, Provider, ProviderType, KeyAtHome, LocalAtHome, Analyses,
         Developer, Addresses
<1> QED
  BY <1>1, <1>2, <1>3, <1>4 DEF get_provider, Developer

-----------------------------------------------------------------------------
(* Types                                                                   *)

LEMMA KeysTyped ==
    ASSUME NEW k \in Keys, NEW provider \in Providers
    PROVE  /\ set_api_key(k, provider) \in Keys
           /\ delete_api_key(k, provider) \in Keys
BY DEF set_api_key, delete_api_key, Keys

LEMMA SettingsTyped ==
    ASSUME NEW s \in SavedSettings
    PROVE  /\ s.provider_type \in Providers /\ s.analysis \in Analyses
           /\ s.items \in SUBSET Optional /\ effective_endpoint(s) \in Addresses
BY DEF SavedSettings, effective_endpoint, Addresses

LEMMA SayingsTyped ==
    ASSUME NEW s \in SavedSettings, NEW k \in Keys
    PROVE  Nothing \in Saying /\ Refreshed(s, k) \in Saying /\ PrivacyRow(s) \in Saying
BY SettingsTyped
DEF Nothing, Refreshed, PrivacyRow, Says, Banner, Saying, Developer, Analyses, Addresses,
    Items, Required, get_api_key

(* The changes an edit may make to the settings keep them ones that may     *)
(* have been saved.                                                         *)
LEMMA EditsTyped ==
    ASSUME NEW s \in SavedSettings
    PROVE  /\ \A a \in Analyses : [s EXCEPT !.analysis = a] \in SavedSettings
           /\ \A t \in Providers :
                 [s EXCEPT !.provider_type = t, !.endpoint = NoAddress] \in SavedSettings
           /\ \A url \in Typed :
                 [s EXCEPT !.endpoint = Address(url, s.provider_type)] \in SavedSettings
           /\ \A url \in Typed :
                 [s EXCEPT !.local_endpoint = Address(url, "local_ai")] \in SavedSettings
           /\ \A i \in Optional :
                 [s EXCEPT !.items = IF i \in @ THEN @ \ {i} ELSE @ \cup {i}]
                     \in SavedSettings
<1>1. ASSUME NEW owner, NEW url \in Typed
      PROVE  Address(url, owner) \in {NoAddress, Here, Remote(owner)}
  BY DEF Address, Typed
<1>2. \A a \in Analyses : [s EXCEPT !.analysis = a] \in SavedSettings
  BY DEF SavedSettings
<1>3. \A t \in Providers :
        [s EXCEPT !.provider_type = t, !.endpoint = NoAddress] \in SavedSettings
  BY DEF SavedSettings
<1>4. \A url \in Typed :
        [s EXCEPT !.endpoint = Address(url, s.provider_type)] \in SavedSettings
  BY <1>1 DEF SavedSettings
<1>5. \A url \in Typed :
        [s EXCEPT !.local_endpoint = Address(url, "local_ai")] \in SavedSettings
  BY <1>1 DEF SavedSettings
<1>6. \A i \in Optional :
        [s EXCEPT !.items = IF i \in @ THEN @ \ {i} ELSE @ \cup {i}] \in SavedSettings
  BY DEF SavedSettings
<1> QED
  BY <1>2, <1>3, <1>4, <1>5, <1>6

(* What a tab that is shown does to the variables of Diagnostics. *)
LEMMA ShowTabTyped ==
    ASSUME TypeOK, NEW t \in Tabs, _show_tab(t)
    PROVE  /\ tab' \in Tabs /\ built' \in SUBSET Tabs /\ timer' \in BOOLEAN
           /\ sampling' \in BOOLEAN /\ working' \in Nat
           /\ answers' \in Seq({"done", "failed"})
<1>1. tab' \in Tabs /\ answers' \in Seq({"done", "failed"})
  BY DEF TypeOK, _show_tab
<1>2. built' \in SUBSET Tabs
  BY DEF TypeOK, _show_tab
<1>3. timer' \in BOOLEAN
  BY DEF _show_tab
<1>4. _tick \/ UNCHANGED <<sampling, working>>
  BY DEF _show_tab
<1>5. sampling' \in BOOLEAN
  BY <1>4 DEF TypeOK, _tick
<1>6. working' \in Nat
  BY <1>4 DEF TypeOK, _tick
<1> QED
  BY <1>1, <1>2, <1>3, <1>5, <1>6

LEMMA NoAnswers == <<>> \in Seq({"done", "failed"})
OBVIOUS

LEMMA TypeInit == Init => TypeOK
<1> SUFFICES ASSUME Init PROVE TypeOK
  OBVIOUS
<1>1. stored \in SavedSettings /\ keys \in Keys /\ developer \in Developer
  BY PagesAssumption DEF Init
<1>2. shown \in Saying
  BY <1>1, SayingsTyped DEF Init
<1>3. edits \in 0..MaxEdits
  BY PagesAssumption DEF Init
<1>4. page \in PageNames /\ tab \in Tabs /\ built \in SUBSET Tabs
  BY DEF Init, PageNames, Tabs
<1>5. sending \in SUBSET ProviderType /\ answers \in Seq({"done", "failed"})
  BY NoAnswers DEF Init
<1> QED
  BY <1>1, <1>2, <1>3, <1>4, <1>5 DEF Init, TypeOK

LEMMA TypeNext == TypeOK /\ [Next]_vars => TypeOK'
<1> SUFFICES ASSUME TypeOK, [Next]_vars PROVE TypeOK'
  OBVIOUS
<1> USE DEF settingsVars, liveVars
<1>0. /\ stored \in SavedSettings /\ keys \in Keys /\ developer \in Developer
      /\ stored.provider_type \in Providers
  BY SettingsTyped DEF TypeOK
<1>1. CASE UNCHANGED vars
  BY <1>1 DEF TypeOK, vars
<1>2. ASSUME NEW p \in PageNames, navigate(p) PROVE TypeOK'
  <2>1. shown' \in Saying
    BY <1>0, <1>2, SayingsTyped DEF navigate, on_show
  <2>2. CASE p = "diagnostics"
    <3>1. _show_tab(tab) /\ tab \in Tabs
      BY <1>2, <2>2 DEF navigate, TypeOK
    <3> QED
      BY <1>2, <2>1, <3>1, ShowTabTyped DEF navigate, TypeOK
  <2>3. CASE p # "diagnostics"
    BY <1>2, <2>1, <2>3 DEF navigate, on_hide, TypeOK
  <2> QED
    BY <2>2, <2>3
<1>3. ASSUME NEW t \in Tabs, SelectTab(t) PROVE TypeOK'
  <2>1. _show_tab(t)
    BY <1>3 DEF SelectTab
  <2> QED
    BY <1>3, <2>1, ShowTabTyped DEF SelectTab, TypeOK
<1>4. CASE Tick
  <2>1. sampling' \in BOOLEAN
    BY <1>4 DEF Tick, _tick, TypeOK
  <2>2. working' \in Nat
    BY <1>4 DEF Tick, _tick, TypeOK
  <2> QED
    BY <1>4, <2>1, <2>2 DEF Tick, TypeOK
<1>5. ASSUME NEW outcome \in {"done", "failed"}, SampleEnds(outcome) PROVE TypeOK'
  BY <1>5 DEF SampleEnds, TypeOK
<1>6. CASE SampleAnswered
  <2>1. answers' \in Seq({"done", "failed"})
    BY <1>6 DEF SampleAnswered, TypeOK
  <2>2. sampling' \in BOOLEAN
    BY <1>6 DEF SampleAnswered, _show_sample, _sample_failed
  <2> QED
    BY <1>6, <2>1, <2>2 DEF SampleAnswered, TypeOK
<1>7. CASE Restart
  <2>1. stored' \in SavedSettings
    BY <1>0, <1>7, DefaultsSaved DEF Restart, load
  <2>2. keys' \in Keys
    <3>1. PICK condition \in Stores :
              keys' = [keys EXCEPT !.store = condition, !.session_only = {}]
      BY <1>7 DEF Restart
    <3> QED
      BY <1>0, <3>1 DEF Keys
  <2>3. shown' \in Saying
    BY <1>0, <1>7, SayingsTyped DEF Restart
  <2> QED
    BY <1>7, <2>1, <2>2, <2>3, NoAnswers DEF Restart, TypeOK, PageNames, Tabs
<1>8. ASSUME NEW s \in SavedSettings, update(s), shown' \in Saying, CanEdit PROVE TypeOK'
  BY <1>8, PagesAssumption DEF update, CanEdit, TypeOK
<1>9. ASSUME NEW a \in Analyses, _set_analysis(a) PROVE TypeOK'
  <2>1. [stored EXCEPT !.analysis = a] \in SavedSettings
    BY <1>0, EditsTyped
  <2>2. shown' \in Saying
    BY <1>0, <1>9, <2>1, SayingsTyped DEF _set_analysis, update, _refresh
  <2> QED
    BY <1>8, <1>9, <2>1, <2>2 DEF _set_analysis
<1>10. ASSUME NEW type \in Providers, _format_changed(type) PROVE TypeOK'
  <2>1. WithFormat(type) \in SavedSettings
    BY <1>0, EditsTyped DEF WithFormat
  <2>2. shown' \in Saying
    BY <1>0, <1>10, <2>1, SayingsTyped DEF _format_changed, update, _refresh
  <2> QED
    BY <1>8, <1>10, <2>1, <2>2 DEF _format_changed, CloudSection
<1>11. ASSUME NEW url \in Typed, _save_endpoint(url) PROVE TypeOK'
  <2>1. [stored EXCEPT !.endpoint = Address(url, stored.provider_type)] \in SavedSettings
    BY <1>0, EditsTyped
  <2> QED
    BY <1>8, <1>11, <2>1 DEF _save_endpoint, CloudSection, TypeOK
<1>12. ASSUME NEW url \in Typed, _save_local_endpoint(url) PROVE TypeOK'
  <2>1. [stored EXCEPT !.local_endpoint = Address(url, "local_ai")] \in SavedSettings
    BY <1>0, EditsTyped
  <2> QED
    BY <1>8, <1>12, <2>1 DEF _save_local_endpoint, LocalAISection, TypeOK
<1>13. ASSUME NEW item \in Optional, ToggleItem(item) PROVE TypeOK'
  <2>1. [stored EXCEPT !.items = IF item \in @ THEN @ \ {item} ELSE @ \cup {item}]
            \in SavedSettings
    BY <1>0, EditsTyped
  <2> QED
    BY <1>8, <1>13, <2>1 DEF ToggleItem, CloudSection, TypeOK
<1>14. CASE _save_key
  <2>1. keys' \in Keys
    BY <1>0, <1>14, KeysTyped DEF _save_key
  <2>2. shown' \in Saying
    BY <1>0, <1>14, <2>1, SayingsTyped DEF _save_key, _refresh
  <2> QED
    BY <1>14, <2>1, <2>2, PagesAssumption DEF _save_key, CloudSection, CanEdit, TypeOK
<1>15. CASE _remove_key
  BY <1>15, PagesAssumption DEF _remove_key, CloudSection, CanEdit, TypeOK
<1>16. CASE RemoveAccepted
  <2>1. keys' \in Keys
    BY <1>0, <1>16, KeysTyped DEF RemoveAccepted
  <2>2. shown' \in Saying
    BY <1>0, <1>16, <2>1, SayingsTyped DEF RemoveAccepted, KeyRemoved, _refresh, TypeOK
  <2> QED
    BY <1>16, <2>1, <2>2 DEF RemoveAccepted, TypeOK
<1>17. CASE RemoveCancelled
  BY <1>17 DEF RemoveCancelled, TypeOK
<1>18. CASE Sends
  <2>1. current_provider \in ProviderType
    BY <1>0, GivenProvider DEF current_provider, Harmless
  <2> QED
    BY <1>18, <2>1 DEF Sends, TypeOK
<1>19. CASE SendingEnds
  BY <1>19 DEF SendingEnds, TypeOK
<1> QED
  BY <1>1, <1>2, <1>3, <1>4, <1>5, <1>6, <1>7, <1>9, <1>10, <1>11, <1>12, <1>13, <1>14,
     <1>15, <1>16, <1>17, <1>18, <1>19
  DEF Next, _test, StartSession

(* Every variable of the pages always has its type, and the settings file   *)
(* never holds an address of another provider than the selected one         *)
(* (user_settings.py:64-82, settings.py:428-514).                           *)
THEOREM TypesStay == Spec => []TypeOK
BY TypeInit, TypeNext, PTL DEF Spec

-----------------------------------------------------------------------------
(* Keys and local analysis                                                 *)

SendingHarmless == \A p \in sending : Harmless(p)

LEMMA HarmlessNext ==
    ASSUME TypeOK, SendingHarmless, [Next]_vars
    PROVE  SendingHarmless'
<1> USE DEF settingsVars
<1>1. Harmless(current_provider)
  BY GivenProvider DEF current_provider, TypeOK
<1>2. \A p \in sending' : p \in sending \/ p = current_provider
  BY DEF Next, vars, navigate, SelectTab, Tick, SampleEnds, SampleAnswered, Restart,
         _set_analysis, _format_changed, _save_endpoint, _save_local_endpoint, ToggleItem,
         update, _save_key, _remove_key, RemoveAccepted, RemoveCancelled, _test,
         StartSession, Sends, SendingEnds
<1> QED
  BY <1>1, <1>2 DEF SendingHarmless, Harmless, KeyAtHome, LocalAtHome, LeavesPC, available

LEMMA AlwaysHarmless == Spec => [](TypeOK /\ SendingHarmless)
<1>1. Init => SendingHarmless
  BY DEF Init, SendingHarmless
<1> QED
  BY <1>1, TypeInit, TypeNext, HarmlessNext, PTL DEF Spec

LEMMA InUseHarmless ==
    ASSUME TypeOK, SendingHarmless
    PROVE  \A p \in InUse : Harmless(p)
<1>1. Harmless(current_provider)
  BY GivenProvider DEF current_provider, TypeOK
<1> QED
  BY <1>1 DEF InUse, SendingHarmless

(* In every state, for any installation and environment: no provider in use *)
(* takes a key to the address of another (provider.py:503-538).             *)
THEOREM KeysAlwaysStayHome == Spec => []KeysStayHome
<1>1. TypeOK /\ SendingHarmless => KeysStayHome
  BY InUseHarmless DEF KeysStayHome, Harmless, KeyAtHome
<1> QED
  BY <1>1, AlwaysHarmless, PTL

(* In every state, the local AI model leaves nothing off the PC, whatever   *)
(* address was entered for it (settings.py:501-514, provider.py:162-169).   *)
THEOREM LocalAlwaysLocal == Spec => []LocalStaysLocal
<1>1. TypeOK /\ SendingHarmless => LocalStaysLocal
  BY InUseHarmless DEF LocalStaysLocal, Harmless, LocalAtHome
<1> QED
  BY <1>1, AlwaysHarmless, PTL

-----------------------------------------------------------------------------
(* What the pages say                                                      *)

(* What a page shows follows from the settings and the keys as they are. *)
Current ==
    /\ page = "settings_ai" => shown = Refreshed(stored, keys)
    /\ page = "settings_privacy" => shown = PrivacyRow(stored)

LEMMA CurrentNext ==
    ASSUME TypeOK, Current, [Next]_vars
    PROVE  Current'
<1> USE DEF settingsVars, liveVars
<1>1. CASE UNCHANGED vars
  BY <1>1 DEF Current, vars
<1>2. ASSUME NEW p \in PageNames, navigate(p) PROVE Current'
  BY <1>2 DEF navigate, on_show, Current
<1>3. CASE UNCHANGED <<stored, keys, page, shown>>
  BY <1>3 DEF Current
<1>4. CASE Restart
  BY <1>4 DEF Restart, Current
<1>5. CASE page = "settings_ai" /\ page' = page /\ shown' = Refreshed(stored', keys')
  BY <1>5 DEF Current
<1>6. ASSUME NEW a \in Analyses, _set_analysis(a) PROVE Current'
  BY <1>5, <1>6 DEF _set_analysis, update, _refresh, CanEdit
<1>7. ASSUME NEW type \in Providers, _format_changed(type) PROVE Current'
  BY <1>5, <1>7 DEF _format_changed, update, _refresh, CanEdit, CloudSection
<1>8. CASE _save_key
  BY <1>5, <1>8 DEF _save_key, _refresh, CanEdit, CloudSection
<1>9. CASE RemoveAccepted
  <2>1. page' = page /\ stored' = stored
    BY <1>9 DEF RemoveAccepted
  <2>2. CASE page = "settings_ai"
    BY <1>5, <1>9, <2>1, <2>2 DEF RemoveAccepted, KeyRemoved, _refresh
  <2>3. CASE page # "settings_ai"
    BY <1>9, <2>1, <2>3 DEF RemoveAccepted, KeyRemoved, Current
  <2> QED
    BY <2>2, <2>3
(* The addresses and the items are not part of what the AI page says. *)
<1>10. ASSUME NEW s, update(s), UNCHANGED shown, page = "settings_ai",
              s.analysis = stored.analysis, s.provider_type = stored.provider_type
       PROVE  Current'
  <2>1. Refreshed(stored', keys') = Refreshed(stored, keys)
    BY <1>10 DEF update, Refreshed
  <2> QED
    BY <1>10, <2>1 DEF update, Current
<1>11. ASSUME NEW url \in Typed, _save_endpoint(url) PROVE Current'
  <2>1. stored' = [stored EXCEPT !.endpoint = Address(url, stored.provider_type)]
    BY <1>11 DEF _save_endpoint, update
  <2>2. stored'.analysis = stored.analysis /\ stored'.provider_type = stored.provider_type
    BY <2>1 DEF TypeOK, SavedSettings
  <2> QED
    BY <1>10, <1>11, <2>1, <2>2 DEF _save_endpoint, CloudSection, CanEdit
<1>12. ASSUME NEW url \in Typed, _save_local_endpoint(url) PROVE Current'
  <2>1. stored' = [stored EXCEPT !.local_endpoint = Address(url, "local_ai")]
    BY <1>12 DEF _save_local_endpoint, update
  <2>2. stored'.analysis = stored.analysis /\ stored'.provider_type = stored.provider_type
    BY <2>1 DEF TypeOK, SavedSettings
  <2> QED
    BY <1>10, <1>12, <2>1, <2>2 DEF _save_local_endpoint, LocalAISection, CanEdit
<1>13. ASSUME NEW i \in Optional, ToggleItem(i) PROVE Current'
  <2>1. stored' = [stored EXCEPT !.items = IF i \in @ THEN @ \ {i} ELSE @ \cup {i}]
    BY <1>13 DEF ToggleItem, update
  <2>2. stored'.analysis = stored.analysis /\ stored'.provider_type = stored.provider_type
    BY <2>1 DEF TypeOK, SavedSettings
  <2> QED
    BY <1>10, <1>13, <2>1, <2>2 DEF ToggleItem, CloudSection, CanEdit
<1>14. ASSUME NEW t \in Tabs, SelectTab(t) PROVE Current'
  BY <1>3, <1>14 DEF SelectTab
<1>15. ASSUME NEW outcome \in {"done", "failed"}, SampleEnds(outcome) PROVE Current'
  BY <1>3, <1>15 DEF SampleEnds
<1>16. CASE Tick \/ SampleAnswered \/ _remove_key \/ RemoveCancelled \/ Sends \/ SendingEnds
  BY <1>3, <1>16 DEF Tick, SampleAnswered, _remove_key, RemoveCancelled, Sends, SendingEnds
<1> QED
  BY <1>1, <1>2, <1>4, <1>6, <1>7, <1>8, <1>9, <1>11, <1>12, <1>13, <1>14, <1>15, <1>16
  DEF Next, _test, StartSession

LEMMA AlwaysCurrent == Spec => [](TypeOK /\ Current)
<1>1. Init => Current
  BY DEF Init, Current
<1> QED
  BY <1>1, TypeInit, TypeNext, CurrentNext, PTL DEF Spec

(* An AI off the PC is asked only with a key for the cloud AI in Settings,  *)
(* or where a developer named one while Settings chose none.                *)
LEMMA WhatLeaves ==
    ASSUME TypeOK, LeavesPC(current_provider)
    PROVE  \/ stored.analysis = "cloud" /\ get_api_key(keys, stored.provider_type)
           \/ stored.analysis = "local" /\ current_provider.type = developer
<1>1. CASE stored.analysis = "cloud"
  <2>1. current_provider.key = get_api_key(keys, stored.provider_type)
    BY <1>1 DEF current_provider, get_provider, Provider
  <2> QED
    BY <1>1, <2>1 DEF LeavesPC, available
<1>2. CASE stored.analysis = "local_ai"
  <2>1. current_provider.key = FALSE
    BY <1>2 DEF current_provider, get_provider, LocalAI, Provider
  <2> QED
    BY <2>1 DEF LeavesPC, available
<1>3. CASE stored.analysis = "local"
  <2>1. CASE developer = NoProvider
    <3>1. current_provider.endpoint = NoAddress
      BY <1>3, <2>1 DEF current_provider, get_provider, LocalProvider, Provider
    <3> QED
      BY <3>1 DEF LeavesPC, available
  <2>2. CASE developer # NoProvider
    BY <1>3, <2>2 DEF current_provider, get_provider, Provider
  <2> QED
    BY <2>1, <2>2
<1> QED
  BY <1>1, <1>2, <1>3 DEF TypeOK, SavedSettings, Analyses

(* With the cloud AI of Settings and its key, that AI is asked. *)
LEMMA CloudAsked ==
    ASSUME TypeOK, stored.analysis = "cloud", get_api_key(keys, stored.provider_type)
    PROVE  /\ available(current_provider) /\ current_provider.key
           /\ current_provider.type = stored.provider_type
<1>1. /\ current_provider.key = get_api_key(keys, stored.provider_type)
      /\ current_provider.type = stored.provider_type
      /\ current_provider.endpoint = EndpointFor(stored, stored.provider_type)
  BY DEF current_provider, get_provider, Provider
<1>2. Remote(stored.provider_type) # NoAddress
  BY DEF Remote, NoAddress
<1>3. current_provider.endpoint # NoAddress
  BY <1>1, <1>2 DEF EndpointFor
<1> QED
  BY <1>1, <1>3 DEF available

(* Without a key, the cloud AI of Settings is asked only on this PC; with   *)
(* no AI in Settings, only one that a developer named is.                   *)
LEMMA AskedAnyway ==
    ASSUME available(current_provider)
    PROVE  /\ stored.analysis = "cloud" /\ ~get_api_key(keys, stored.provider_type) =>
                  current_provider.endpoint = Here
           /\ stored.analysis = "local" => current_provider.type = developer
<1>1. ASSUME stored.analysis = "cloud", ~get_api_key(keys, stored.provider_type)
      PROVE  current_provider.endpoint = Here
  <2>1. current_provider.key = get_api_key(keys, stored.provider_type)
    BY <1>1 DEF current_provider, get_provider, Provider
  <2> QED
    BY <1>1, <2>1 DEF available
<1>2. ASSUME stored.analysis = "local" PROVE current_provider.type = developer
  <2>1. CASE developer = NoProvider
    <3>1. current_provider.endpoint = NoAddress
      BY <1>2, <2>1 DEF current_provider, get_provider, LocalProvider, Provider
    <3> QED
      BY <3>1 DEF available
  <2>2. CASE developer # NoProvider
    BY <1>2, <2>2 DEF current_provider, get_provider, Provider
  <2> QED
    BY <2>1, <2>2
<1> QED
  BY <1>1, <1>2

(* In every state, whatever became of settings and keys: "Cloud AI is on"   *)
(* and "Local AI model is on" are said of the very AI that a session would  *)
(* get, and under any other banner only an AI on this PC or a developer's   *)
(* is asked (settings.py:389-426).                                          *)
THEOREM BannerAlwaysNamesAI == Spec => []BannerNamesAI
<1> DEFINE has_key == get_api_key(keys, stored.provider_type)
<1>1. ASSUME TypeOK, Current, page = "settings_ai"
      PROVE  /\ shown.banner = "cloud_on" =>
                   /\ available(current_provider) /\ current_provider.key
                   /\ current_provider.type = shown.type
             /\ shown.banner = "local_ai" => current_provider.analysis = "local_ai"
             /\ shown.banner = "add_key" /\ available(current_provider) =>
                   current_provider.endpoint = Here
             /\ shown.banner = "built_in" /\ available(current_provider) =>
                   current_provider.type = developer
  <2>1. /\ shown.type = stored.provider_type
        /\ shown.banner = Banner(stored.analysis, has_key)
    BY <1>1 DEF Current, Refreshed, Says
  <2>2. stored.analysis \in {"local", "local_ai", "cloud"}
    BY <1>1 DEF TypeOK, SavedSettings, Analyses
  <2>3. /\ shown.banner = "cloud_on" <=> stored.analysis = "cloud" /\ has_key
        /\ shown.banner = "add_key" <=> stored.analysis = "cloud" /\ ~has_key
        /\ shown.banner = "local_ai" <=> stored.analysis = "local_ai"
        /\ shown.banner = "built_in" <=> stored.analysis = "local"
    BY <2>1, <2>2 DEF Banner
  <2>4. stored.analysis = "local_ai" => current_provider.analysis = "local_ai"
    BY DEF current_provider, get_provider, LocalAI, Provider
  <2> QED
    BY <1>1, <2>1, <2>3, <2>4, AskedAnyway, CloudAsked
<1>2. TypeOK /\ Current => BannerNamesAI
  BY <1>1 DEF BannerNamesAI
<1> QED
  BY <1>2, AlwaysCurrent, PTL

LEMMA PrivacyFacts ==
    ASSUME TypeOK, Current, page = "settings_privacy"
    PROVE  /\ shown.analysis = stored.analysis
           /\ stored.analysis = "cloud" =>
                  /\ shown.items = {"measurements"} \cup current_provider.items
                  /\ "problem" \notin current_provider.items
                  /\ current_provider.endpoint = shown.endpoint
<1>1. shown = PrivacyRow(stored)
  BY DEF Current
<1>2. shown.analysis = stored.analysis
  BY <1>1 DEF PrivacyRow, Says
<1>3. ASSUME stored.analysis = "cloud"
      PROVE  /\ shown.items = {"measurements"} \cup current_provider.items
             /\ "problem" \notin current_provider.items
             /\ current_provider.endpoint = shown.endpoint
  <2>1. /\ shown.items = {"measurements"} \cup stored.items
        /\ shown.endpoint = effective_endpoint(stored)
    BY <1>1, <1>3 DEF PrivacyRow, Says
  <2>2. /\ current_provider.items = stored.items
        /\ current_provider.endpoint = EndpointFor(stored, stored.provider_type)
    BY <1>3 DEF current_provider, get_provider, Provider
  <2>3. "problem" \notin stored.items
    BY DEF TypeOK, SavedSettings, Optional
  <2> QED
    BY <2>1, <2>2, <2>3 DEF EndpointFor, effective_endpoint
<1> QED
  BY <1>2, <1>3

(* In every state the Privacy page gives the address that a session would   *)
(* send to and names all it would send but the problem description, which   *)
(* it never names; with no cloud AI in Settings, only a developer's         *)
(* provider is sent anything (settings.py:594-608).                         *)
THEOREM PrivacyNamesWhatIsSent == Spec => []SentAsNamed
<1>1. ASSUME TypeOK, Current, page = "settings_privacy"
      PROVE  IF shown.analysis = "cloud"
             THEN /\ current_provider.endpoint = shown.endpoint
                  /\ available(current_provider) =>
                        MaySend(current_provider) \ shown.items = {"problem"}
             ELSE LeavesPC(current_provider) => current_provider.type = developer
  <2>1. CASE shown.analysis = "cloud"
    <3>1. available(current_provider) =>
             MaySend(current_provider) = {"problem", "measurements"} \cup current_provider.items
      BY DEF MaySend, Required
    <3> QED
      BY <1>1, <2>1, <3>1, PrivacyFacts
  <2>2. CASE shown.analysis # "cloud"
    BY <1>1, <2>2, PrivacyFacts, WhatLeaves
  <2> QED
    BY <2>1, <2>2
<1>2. TypeOK /\ Current => SentAsNamed
  BY <1>1 DEF SentAsNamed
<1> QED
  BY <1>2, AlwaysCurrent, PTL

-----------------------------------------------------------------------------
(* Diagnostics                                                             *)

(* The flag is set exactly while one sample is under way. *)
OneSample ==
    \/ ~sampling /\ working = 0 /\ Len(answers) = 0
    \/ sampling /\ working = 1 /\ Len(answers) = 0
    \/ sampling /\ working = 0 /\ Len(answers) = 1

LEMMA TickOneSample ==
    ASSUME OneSample, _tick \/ UNCHANGED <<sampling, working>>, UNCHANGED answers
    PROVE  OneSample'
BY DEF OneSample, _tick

LEMMA OneSampleNext ==
    ASSUME TypeOK, OneSample, [Next]_vars
    PROVE  OneSample'
<1> USE DEF settingsVars, liveVars
<1>1. CASE UNCHANGED <<sampling, working, answers>>
  BY <1>1, TickOneSample
<1>2. ASSUME NEW t, _show_tab(t) PROVE OneSample'
  BY <1>2, TickOneSample DEF _show_tab
<1>3. ASSUME NEW p \in PageNames, navigate(p) PROVE OneSample'
  <2>1. CASE p = "diagnostics"
    BY <1>2, <1>3, <2>1 DEF navigate
  <2>2. CASE p # "diagnostics"
    BY <1>1, <1>3, <2>2 DEF navigate
  <2> QED
    BY <2>1, <2>2
<1>4. ASSUME NEW t \in Tabs, SelectTab(t) PROVE OneSample'
  BY <1>2, <1>4 DEF SelectTab
<1>5. CASE Tick
  BY <1>5, TickOneSample DEF Tick
<1>6. ASSUME NEW outcome \in {"done", "failed"}, SampleEnds(outcome) PROVE OneSample'
  <2>1. working = 1 /\ sampling /\ Len(answers) = 0
    BY <1>6 DEF OneSample, SampleEnds
  <2>2. Len(answers') = 1
    BY <1>6, <2>1 DEF SampleEnds, TypeOK
  <2> QED
    BY <1>6, <2>1, <2>2 DEF OneSample, SampleEnds
<1>7. CASE SampleAnswered
  <2>1. Len(answers) # 0
    BY <1>7 DEF SampleAnswered, TypeOK
  <2>2. working = 0 /\ Len(answers) = 1
    BY <2>1 DEF OneSample
  <2>3. Len(answers') = 0
    BY <1>7, <2>2 DEF SampleAnswered, TypeOK
  <2>4. ~sampling' /\ working' = 0
    BY <1>7, <2>2 DEF SampleAnswered, _show_sample, _sample_failed
  <2> QED
    BY <2>3, <2>4 DEF OneSample
<1>8. CASE Restart
  BY <1>8 DEF Restart, OneSample
<1>9. CASE UNCHANGED vars
  BY <1>1, <1>9 DEF vars
<1>10. CASE UNCHANGED liveVars
  BY <1>1, <1>10
<1>11. ASSUME Next PROVE \/ UNCHANGED liveVars
                         \/ \E p \in PageNames : navigate(p)
                         \/ \E t \in Tabs : SelectTab(t)
                         \/ Tick
                         \/ \E outcome \in {"done", "failed"} : SampleEnds(outcome)
                         \/ SampleAnswered
                         \/ Restart
  BY <1>11 DEF Next, _set_analysis, _format_changed, _save_endpoint, _save_local_endpoint,
     ToggleItem, update, _save_key, _remove_key, RemoveAccepted, RemoveCancelled, _test,
     StartSession, Sends, SendingEnds
<1> QED
  BY <1>3, <1>4, <1>5, <1>6, <1>7, <1>8, <1>9, <1>10, <1>11

(* For any number of ticks, tabs and visits, one sampler takes at most one  *)
(* sample at a time (diagnostics.py:326-333).                               *)
THEOREM NeverTwoSamples == Spec => []NeverPilesUp
<1>1. Init => OneSample
  BY DEF Init, OneSample
<1>2. OneSample => NeverPilesUp
  <2>1. OneSample => \/ working = 0 /\ Len(answers) = 0
                     \/ working = 1 /\ Len(answers) = 0
                     \/ working = 0 /\ Len(answers) = 1
    BY DEF OneSample
  <2>2. ASSUME NEW w, NEW n, w \in {0, 1}, n \in {0, 1}, w = 0 \/ n = 0 PROVE w + n <= 1
    BY <2>2
  <2> QED
    BY <2>1, <2>2 DEF NeverPilesUp
<1> QED
  BY <1>1, <1>2, TypeInit, TypeNext, OneSampleNext, PTL DEF Spec

LEMMA LiveNext ==
    ASSUME TypeOK, LiveWhileShown, [Next]_vars
    PROVE  LiveWhileShown'
<1> USE DEF settingsVars, liveVars
<1>1. CASE UNCHANGED <<timer, page, tab>>
  BY <1>1 DEF LiveWhileShown
<1>2. ASSUME NEW t, _show_tab(t), page' = "diagnostics" PROVE LiveWhileShown'
  BY <1>2 DEF _show_tab, LiveWhileShown
<1>3. ASSUME NEW p \in PageNames, navigate(p) PROVE LiveWhileShown'
  <2>1. CASE p = "diagnostics"
    BY <1>2, <1>3, <2>1 DEF navigate
  <2>2. CASE p # "diagnostics"
    BY <1>3, <2>2 DEF navigate, on_hide, LiveWhileShown
  <2> QED
    BY <2>1, <2>2
<1>4. ASSUME NEW t \in Tabs, SelectTab(t) PROVE LiveWhileShown'
  BY <1>2, <1>4 DEF SelectTab
<1>5. CASE Restart
  BY <1>5 DEF Restart, LiveWhileShown
<1>6. ASSUME Next PROVE \/ UNCHANGED <<timer, page, tab>>
                        \/ \E p \in PageNames : navigate(p)
                        \/ \E t \in Tabs : SelectTab(t)
                        \/ Restart
  BY <1>6 DEF Next, Tick, SampleEnds, SampleAnswered, _set_analysis, _format_changed,
     _save_endpoint, _save_local_endpoint, ToggleItem, update, _save_key, _remove_key,
     RemoveAccepted, RemoveCancelled, _test, StartSession, Sends, SendingEnds
<1> QED
  BY <1>1, <1>3, <1>4, <1>5, <1>6 DEF vars

(* The timer never runs on while another page or another tab is shown       *)
(* (diagnostics.py:242-281, window.py:186-204).                             *)
THEOREM NeverLiveUnseen == Spec => []LiveWhileShown
<1>1. Init => LiveWhileShown
  BY DEF Init, LiveWhileShown
<1> QED
  BY <1>1, TypeInit, TypeNext, LiveNext, PTL DEF Spec
===============================================================================
