------------------------------- MODULE Settings -------------------------------
(***************************************************************************)
(* The settings of WinFix, the API keys and the AI provider that follows   *)
(* from both (app/core/user_settings.py, app/core/credentials.py and       *)
(* get_provider of app/llm/provider.py), as operators.                     *)
(*                                                                         *)
(* An address is what matters of a URL: that there is none, that it is an  *)
(* AI server on this PC, or for which provider a remote one was entered.   *)
(* A key is that of a provider; its text is left out.                      *)
(***************************************************************************)
Providers == {"openai", "anthropic"}
Analyses  == {"local", "local_ai", "cloud"}

(* What a session sends to an AI: its problem and its measurements always,  *)
(* the rest by choice.                                                      *)
Required == {"problem", "measurements"}
Optional == {"process_names", "event_excerpts"}
Items    == Required \cup Optional

NoAddress     == <<"none">>
Here          == <<"this_pc">>
Remote(owner) == <<"remote", owner>>

(* What the user may type into an address field. *)
Typed == {"", "http://localhost", "https://remote", "http://remote", "remote"}

(* Only HTTPS, or an AI server on this PC; a full address. *)
validate_endpoint(url) == url \in {"", "http://localhost", "https://remote"}

Address(url, owner) ==
    CASE url = ""                 -> NoAddress
      [] url = "http://localhost" -> Here
      [] OTHER                    -> Remote(owner)

-----------------------------------------------------------------------------
(* SettingsStore                                                           *)

UserSettings ==
    [analysis |-> "local", provider_type |-> "openai", endpoint |-> NoAddress,
     local_endpoint |-> NoAddress, items |-> {"process_names"}]

(* The settings a file written by the program may hold. *)
SavedSettings ==
    {s \in [analysis : Analyses, provider_type : Providers,
            endpoint : {NoAddress, Here} \cup {Remote(p) : p \in Providers},
            local_endpoint : {NoAddress, Here, Remote("local_ai")},
            items : SUBSET Optional] :
        s.endpoint \in {NoAddress, Here, Remote(s.provider_type)}}

(* Faulty variant: the address of the provider, whatever Settings says. *)
defaultEndpoint(s) == Remote(s.provider_type)

effective_endpoint(s) ==
    IF s.endpoint = NoAddress THEN Remote(s.provider_type) ELSE s.endpoint

(* An unreadable file is put aside, and the defaults take its place.        *)
load(file, readable) == IF readable THEN file ELSE UserSettings

-----------------------------------------------------------------------------
(* Credentials: the keys in the credential store, those kept for this run   *)
(* only, and those of the environment.  The store works, refuses to write,  *)
(* or cannot be used at all.                                                *)

Stores == {"works", "read_only", "broken"}

Keys == [store : Stores, saved : SUBSET Providers, session_only : SUBSET Providers,
         environment : SUBSET Providers]

get_api_key(k, provider) ==
    \/ k.store # "broken" /\ provider \in k.saved
    \/ provider \in k.session_only
    \/ provider \in k.environment

set_api_key(k, provider) ==
    IF k.store = "works"
    THEN [k EXCEPT !.saved = @ \cup {provider}, !.session_only = @ \ {provider}]
    ELSE [k EXCEPT !.session_only = @ \cup {provider}]

delete_api_key(k, provider) ==
    [k EXCEPT !.session_only = @ \ {provider},
              !.saved = IF k.store = "works" THEN @ \ {provider} ELSE @]

-----------------------------------------------------------------------------
(* get_provider                                                            *)

NoProvider == "no_provider"

Provider(analysis, type, endpoint, key, items) ==
    [analysis |-> analysis, type |-> type, endpoint |-> endpoint, key |-> key,
     items |-> items]

LocalProvider == Provider("local", NoProvider, NoAddress, FALSE, {})

LocalAI(s) ==
    Provider("local_ai", "openai",
             IF s.local_endpoint = NoAddress THEN Here ELSE s.local_endpoint, FALSE, s.items)

(* Faulty variant: the address in Settings is used for any provider. *)
EndpointForAny(s, type) == IF s.endpoint # NoAddress THEN s.endpoint ELSE Remote(type)

(* The address in Settings is that of the provider in Settings; another one *)
(* is at its own address.                                                   *)
EndpointFor(s, type) ==
    IF s.provider_type = type /\ s.endpoint # NoAddress THEN s.endpoint ELSE Remote(type)

(* A developer may name a provider in the environment, which is used unless *)
(* Settings chooses an AI.                                                  *)
get_provider(s, k, developer) ==
    LET cloud(type) ==
            Provider("cloud", type, EndpointFor(s, type), get_api_key(k, type), s.items)
    IN  IF s.analysis = "local_ai" THEN LocalAI(s)
        ELSE IF s.analysis = "cloud" THEN cloud(s.provider_type)
        ELSE IF developer # NoProvider THEN cloud(developer)
        ELSE LocalProvider

(* Faulty variant: any address will do. *)
availableAnywhere(p) == p.endpoint # NoAddress

(* CloudProvider.available; an AI on this PC needs no key.  A LocalProvider *)
(* has no address: no AI is asked.                                          *)
available(p) == p.endpoint # NoAddress /\ (p.key \/ p.endpoint = Here)

(* What a session or a connection test sends leaves the PC. *)
LeavesPC(p) == available(p) /\ p.endpoint # Here

(* understand sends the problem, follow_up_tools and analyze the problem    *)
(* and the payload.  The event excerpts are left out when there are none.   *)
MaySend(p) == IF available(p) THEN Required \cup p.items ELSE {}
===============================================================================
