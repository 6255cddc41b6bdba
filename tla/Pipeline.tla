------------------------------- MODULE Pipeline -------------------------------
(***************************************************************************)
(* One session from measurement to verdict, with what is measured: the     *)
(* checks of a plan on a PC with faults, the diagnosis, the proposals, a    *)
(* fix, the measurements repeated after it and the investigation continued *)
(* (app/core/planner.py, agent.py, app/llm/provider.py and the engines of  *)
(* module Repairs).  Troubleshoot models the same session with its      *)
(* threads, its page and its history, and leaves open what is measured.    *)
(***************************************************************************)
EXTENDS Repairs, Remediations

CONSTANTS
    Depths,        \* how thorough an investigation may be
    Faults,        \* external: pairs <<field, value>> a PC may have wrong
    Answers,       \* external: sequences of the names that an AI asks for at a time
    MaxTrouble,    \* bound of the model: an AI, faults, failed checks, changes of the PC
    MaxSteps,      \* MAX_AGENT_STEPS
    MaxRounds,     \* MAX_AI_ROUNDS
    MaxAttempts    \* MAX_REMEDIATION_ATTEMPTS

ASSUME PipelineAssumption ==
    /\ Depths \subseteq {"quick", "standard", "thorough"}
    /\ \A fault \in Faults : fault[1] \in DOMAIN HealthyPC /\ fault[2] \in Values(fault[1])
    /\ \A answer \in Answers : answer \in Seq(STRING)
    /\ {MaxTrouble, MaxSteps, MaxRounds, MaxAttempts} \subseteq Nat \ {0}

VARIABLES
    phase,      \* where the session is
    category,   \* plan.category
    depth,      \* settings: depth
    provider,   \* settings: whether an AI is asked
    rounds,     \* rounds of follow-up checks that may still come
    pc,         \* external: the PC
    results,    \* session.diagnostics: what the successful checks reported
    ran,        \* session.diagnostics: every check that ran
    diagnosis,  \* session.diagnosis
    proposals,  \* session.proposals
    applied,    \* the fix the user approved last
    success,    \* outcome.success
    repeated,   \* the checks the last verification repeated
    improved,   \* verification.improved
    tried,      \* the fixes of session.remediations
    attempts,   \* how many there are
    late,       \* external: the fixes that outlived the wait for them
    trouble     \* how much more may go wrong

vars == <<phase, category, depth, provider, rounds, pc, results, ran, diagnosis, proposals, applied,
          success, repeated, improved, tried, attempts, late, trouble>>

settingsVars == <<category, depth, provider>>

NoProposal == Proposal(NoFix, {}, NoCause)

NoDiagnosis == [category |-> "unknown", causes |-> {}, top |-> NoCause, level |-> OK]

-----------------------------------------------------------------------------
(* What to check                                                           *)

(* Faulty variant: any registered tool is accepted. *)
AcceptedAny == {t \in DIAGNOSTICS \cup REMEDIATIONS : has(t)}

Accepted == {t \in DIAGNOSTICS \cup REMEDIATIONS : AcceptedCheck(t)}

(* The first n names of a list that are among the tools, each once. *)
FirstOf(list, tools, n) ==
    LET kept == {i \in DOMAIN list : /\ list[i] \in tools
                                     /\ \A j \in 1 .. i - 1 : list[j] # list[i]}
    IN  {list[i] : i \in {i \in kept : Cardinality({j \in kept : j < i}) < n}}

(* What an AI asked for, and what the category lists. *)
Listed(cat, dep, asked) ==
    LET spec == get_category_spec(cat)
    IN  asked \o spec.checks \o (IF dep = "thorough" THEN spec.thorough ELSE <<>>)

(* Planner.plan: the valid ones, cut to the quick limit or, in a plan of an *)
(* AI, to leave four steps for its follow-ups; and the step limit.          *)
Plan(cat, dep, asked, limit) ==
    LET listed == Listed(cat, dep, asked)
    IN  FirstOf(IF Range(listed) \cap Accepted = {} THEN GENERAL_TOOLS ELSE listed,
                Accepted, IF dep = "quick" THEN Min({4, MaxSteps}) ELSE limit)

LocalPlan(cat, dep) == Plan(cat, dep, <<>>, MaxSteps)

AIPlan(cat, dep, asked) == Plan(cat, dep, asked, Max({1, MaxSteps - 4}))

(* local_follow_ups: look closer where the numbers point. *)
Wanted(cat, r) ==
    LET if(condition, tools) == IF condition THEN tools ELSE <<>>
    IN  if(\E m \in Memory(r) : m >= 70,
           <<"get_search_indexer_status", "get_unresponsive_apps", "get_memory_details">>)
        \o if(\E c \in Cpu(r) : c >= 60,
              <<"get_top_cpu_processes", "get_search_indexer_status">>)
        \o if(\E d \in Disk(r) : d.low, <<"get_reclaimable_space">>)
        \o if(\E g \in Gateway(r) : ~g.reachable,
              <<"get_ip_configuration", "get_network_profile">>)
        \o if(FALSE \in DnsWorking(r), <<"get_network_services_status">>)
        \o if(cat = "windows_update", <<"test_internet">>)

(* What the provider asks for: an AI whatever it likes, or nothing more;    *)
(* one that cannot be reached is replaced by the local rules.               *)
Requests ==
    {Wanted(category, results)} \cup (IF provider = "ai" THEN Answers \cup {<<>>} ELSE {})

(* Agent._follow_up_tools *)
FollowUps(requested, done) ==
    FirstOf(requested, Accepted \ done, Min({3, MaxSteps - Cardinality(done)}))

(* continue_investigation: the deeper checks that have not run. *)
Deeper(cat, done) ==
    LET thorough == get_category_spec(cat).thorough
    IN  FirstOf(thorough, Range(thorough) \ done, MaxSteps - Cardinality(done))

(* Faulty variant: what was measured first stands. *)
OlderWins(old, tools, failed, now) ==
    [t \in (DOMAIN old \ tools) \cup (tools \ failed) |->
        IF t \in DOMAIN old THEN old[t] ELSE Report(t, now)]

(* Failed measurements too replace the ones before. *)
Updated(old, tools, failed, now) ==
    [t \in (DOMAIN old \ tools) \cup (tools \ failed) |->
        IF t \in tools THEN Report(t, now) ELSE old[t]]

(* DiagnosticEngine.run: what is not a check fails. *)
Run(tools, failed) ==
    /\ results' = Updated(results, tools,
                          failed \cup {t \in tools : ~AcceptedCheck(t)}, pc)
    /\ ran' = ran \cup tools

-----------------------------------------------------------------------------
Init ==
    /\ phase = "new"
    /\ category \in Categories /\ depth \in Depths
    /\ provider \in {"local", "ai"} /\ rounds = 0
    /\ \E faults \in {{}} \cup UNION {{{a, b} : a \in Faults} : b \in Faults} :
         /\ \A a, b \in faults : a[1] = b[1] => a = b
         /\ trouble = MaxTrouble - Cardinality(faults) - (IF provider = "ai" THEN 1 ELSE 0)
         /\ trouble >= 0
         /\ pc = [f \in DOMAIN HealthyPC |->
                    IF \E a \in faults : a[1] = f
                    THEN (CHOOSE a \in faults : a[1] = f)[2] ELSE HealthyPC[f]]
    /\ results = <<>> /\ ran = {}
    /\ diagnosis = NoDiagnosis /\ proposals = {}
    /\ applied = NoProposal /\ success = FALSE
    /\ repeated = {} /\ improved = FALSE
    /\ tried = {} /\ attempts = 0 /\ late = {}

(* Up to what is left of the bound may fail. *)
Failing(tools) == {failed \in SUBSET tools : Cardinality(failed) <= trouble}

Fails(failed) == trouble' = trouble - Cardinality(failed)

Started(plan, n) ==
    /\ phase = "new"
    /\ \E failed \in Failing(plan) : Run(plan, failed) /\ Fails(failed)
    /\ rounds' = n
    /\ phase' = "checked"
    /\ UNCHANGED <<settingsVars, pc, diagnosis, proposals, applied, success,
                   repeated, improved, tried, attempts, late>>

(* Agent.diagnose, up to the checks of the plan.  Where an AI fails to read *)
(* the problem, the plan is the local one.                                  *)
Investigate ==
    \/ Started(LocalPlan(category, depth), 1)
    \/ provider = "ai" /\ \E asked \in Answers : Started(AIPlan(category, depth, asked), MaxRounds)

(* A round of follow-up checks after which there is another. *)
FollowUp ==
    /\ phase = "checked" /\ rounds > 1
    /\ \E requested \in Requests :
         LET tools == FollowUps(requested, ran)
         IN  /\ tools # {}
             /\ \E failed \in Failing(tools) : Run(tools, failed) /\ Fails(failed)
    /\ rounds' = rounds - 1
    /\ UNCHANGED <<phase, settingsVars, pc, diagnosis, proposals, applied, success,
                   repeated, improved, tried, attempts, late>>

(* The last round, or one without checks, then Agent._analyze and          *)
(* _recommend; an AI rephrases the summary of the diagnosis and no more.    *)
Diagnose ==
    /\ phase = "checked"
    /\ \E requested \in Requests :
         LET tools == FollowUps(requested, ran)
         IN  /\ tools = {} \/ rounds = 1
             /\ \E failed \in Failing(tools) : Run(tools, failed) /\ Fails(failed)
    /\ diagnosis' = analyze(category, results')
    /\ proposals' = propose(diagnosis', results', {})
    /\ rounds' = 0
    /\ phase' = "diagnosed"
    /\ UNCHANGED <<settingsVars, pc, applied, success, repeated, improved, tried,
                   attempts, late>>

(* Faulty variant: one fix too many. *)
check_remediation_attempt_Late(attempt) == attempt <= MaxAttempts

check_remediation_attempt(attempt) == attempt < MaxAttempts

(* Agent.remediate_and_verify, up to the execution of the fix: one that the *)
(* user chose from the diagnosis, or "Try again" for one that failed.       *)
Approved(p) ==
    /\ \/ phase = "diagnosed" /\ p \in proposals
       \/ phase = "verified" /\ ~success /\ p = applied
    /\ check_remediation_attempt(attempts)
    /\ validate_remediation(p.fix, p.parameters, TRUE)
    /\ applied' = p
    /\ tried' = tried \cup {p.fix}
    /\ attempts' = attempts + 1
    /\ phase' = "applied"
    /\ UNCHANGED <<settingsVars, rounds, results, ran, diagnosis, proposals, repeated, improved>>

(* The fix is carried out or fails. *)
Apply(p) ==
    /\ Approved(p)
    /\ \E outcome \in execute(p.fix, pc) :
         success' = outcome.success /\ pc' = outcome.pc
    /\ UNCHANGED <<late, trouble>>

(* The fix outlives the wait for its thread or for its helper process, and  *)
(* counts as failed.                                                        *)
ApplyTimesOut(p) ==
    /\ trouble > 0
    /\ success' = FALSE
    /\ Approved(p)
    /\ late' = late \cup {p.fix}
    /\ trouble' = trouble - 1
    /\ UNCHANGED pc

(* At some time after that, it is done. *)
LateFixEnds(fix) ==
    /\ fix \in late
    /\ \E outcome \in Executed(fix, pc) : pc' = outcome.pc
    /\ late' = late \ {fix}
    /\ UNCHANGED <<phase, settingsVars, rounds, results, ran, diagnosis, proposals, applied,
                   success, repeated, improved, tried, attempts, trouble>>

(* A fix that was not carried out is not measured.  From here on, results   *)
(* stands for the measurements as the next analysis will see them.          *)
Verify ==
    /\ phase = "applied"
    /\ LET tools == IF success THEN tools_for(diagnosis, applied, results) ELSE {}
       IN  \E failed \in Failing(tools) :
             LET after == Updated(results, tools, failed, pc)
             IN  /\ improved' = (success /\ Improved(diagnosis, applied, results, after))
                 /\ repeated' = tools
                 /\ Fails(failed)
                 /\ results' = after
    /\ ran' = ran \cup repeated'
    /\ phase' = "verified"
    /\ UNCHANGED <<settingsVars, rounds, pc, diagnosis, proposals, applied, success, tried,
                   attempts, late>>

(* "Continue investigation", which the page offers after a fix that was    *)
(* carried out and did not help.                                            *)
Continue ==
    /\ phase = "verified" /\ success /\ ~improved
    /\ check_remediation_attempt(attempts)
    /\ LET tools == Deeper(category, ran)
       IN  \E failed \in Failing(tools) : Run(tools, failed) /\ Fails(failed)
    /\ diagnosis' = analyze(category, results')
    /\ proposals' = propose(diagnosis', results', tried)
    /\ phase' = "diagnosed"
    /\ UNCHANGED <<settingsVars, rounds, pc, applied, success, repeated, improved, tried,
                   attempts, late>>

(* The PC changes by itself while the user reads the diagnosis. *)
Drift ==
    /\ phase = "diagnosed" /\ trouble > 0
    /\ \E fault \in Faults : \E value \in {fault[2], HealthyPC[fault[1]]} \ {pc[fault[1]]} :
         pc' = [pc EXCEPT ![fault[1]] = value]
    /\ trouble' = trouble - 1
    /\ UNCHANGED <<phase, settingsVars, rounds, results, ran, diagnosis, proposals, applied,
                   success, repeated, improved, tried, attempts, late>>

Next ==
    \/ Investigate
    \/ FollowUp
    \/ Diagnose
    \/ \E p \in proposals \cup {applied} : Apply(p) \/ ApplyTimesOut(p)
    \/ \E fix \in late : LateFixEnds(fix)
    \/ Verify
    \/ Continue
    \/ Drift

Spec == Init /\ [][Next]_vars

-----------------------------------------------------------------------------
(* Properties                                                              *)

TypeOK ==
    /\ phase \in {"new", "checked", "diagnosed", "applied", "verified"}
    /\ category \in Categories /\ depth \in Depths
    /\ provider \in {"local", "ai"} /\ rounds \in 0 .. MaxRounds
    /\ IsPC(pc)
    /\ DOMAIN results \subseteq ran
    /\ diagnosis.level \in {CRITICAL, CAUTION, OK}
    /\ proposals \subseteq [fix : DOMAIN FIXES, parameters : SUBSET {"adapter_name"},
                            cause : {c.id : c \in diagnosis.causes} \cup {NoCause}]
    /\ applied.fix \in DOMAIN FIXES \cup {NoFix}
    /\ late \subseteq tried /\ tried \subseteq DOMAIN FIXES
    /\ attempts \in Cardinality(tried) .. MaxAttempts
    /\ repeated \subseteq ran
    /\ success \in BOOLEAN /\ improved \in BOOLEAN
    /\ trouble \in 0 .. MaxTrouble

(* "An unregistered, unsafe or state-changing tool can never enter a plan", *)
(* nor a follow-up, nor the checks repeated after a fix, which no engine    *)
(* looks at; and an AI stays within the steps of a session                  *)
(* (planner.py:3-6, agent.py:231-253, verification_engine.py:257-273).      *)
OnlyChecksRun ==
    /\ ran \subseteq DIAGNOSTICS
    /\ tried = {} => Cardinality(ran) <= MaxSteps

(* What is offered is not refused once the user has agreed to it: its       *)
(* parameters are those that the safety layer asks for                      *)
(* (remediation_engine.py:9-11, safety.py:77-101).                          *)
OffersAreNotRefused ==
    \A p \in proposals : validate_remediation(p.fix, p.parameters, TRUE)

(* What each category of problem is about. *)
Concerns ==
    [slow_computer      |-> {"memory", "cpu", "free", "hung"},
     high_cpu           |-> {"cpu", "hung"},
     high_memory        |-> {"memory", "hung"},
     low_disk_space     |-> {"free", "temp", "recycle"},
     internet_down      |-> {"adapters", "gateway", "dns", "internet", "WlanSvc", "Dnscache"},
     wifi_disconnecting |-> {"adapters", "gateway", "dns", "internet", "WlanSvc", "Dnscache"},
     dns_problems       |-> {"gateway", "dns", "internet", "Dnscache"},
     windows_update     |-> {"free", "reboot", "bits"},
     bluetooth          |-> {"bluetooth", "bthserv"},
     audio              |-> {"Audiosrv", "AudioEndpointBuilder", "devices"},
     printer            |-> {"Spooler", "devices"},
     app_crashes        |-> {"crashes", "hung", "memory", "free"},
     startup_problems   |-> {"startup", "free", "memory"},
     device_driver      |-> {"devices"},
     windows_search     |-> {"WSearch", "indexer"},
     graphics           |-> {"gpu", "gpu_load", "gpu_app", "resets"},
     unknown            |-> {"memory", "cpu", "free", "hung"}]

(* Two adapters are no fault; neither is a service that is off on purpose,  *)
(* nor one that is started on demand, and a stuck indexer that does not run *)
(* cannot be seen.                                                          *)
Wrong(p, field) ==
    CASE field = "adapters" -> p.adapters = 0
      [] field = "indexer"  -> p.WSearch = "running" /\ p.indexer # "normal"
      [] field \in Services -> \/ p[field] = "closing"
                               \/ p[field] \in {"stopped", "missing"} /\ field \notin OnDemand
      [] OTHER              -> p[field] # HealthyPC[field]

(* Nothing was changed by a fix yet, no check failed, and the PC has not    *)
(* changed since: the results say what is the case.                         *)
Current ==
    /\ phase = "diagnosed" /\ tried = {}
    /\ DOMAIN results = ran
    /\ \A t \in ran : results[t] = Report(t, pc)

(* The picks of an AI come first, and the plan is cut: they may crowd       *)
(* checks of the category out of it.                                        *)
Unabridged ==
    provider = "local" \/ LocalPlan(category, "standard") \subseteq ran

(* When every check succeeded, a fault in what the problem is about is      *)
(* found, whichever check, extractor and rule it takes to find it.          *)
NothingMissed ==
    Current /\ Unabridged /\ depth # "quick" /\ (\E f \in Concerns[category] : Wrong(pc, f))
        => diagnosis.level # OK

(* What a fix is about: what it can bring in order and, for a new address,  *)
(* the link without which there is no route either.                         *)
About(fix) ==
    CASE fix \in DOMAIN ServiceOf       -> {ServiceOf[fix]} \cup Benefits(fix)
      [] fix = "flush_dns"              -> {"dns"}
      [] fix = "clear_safe_temp_files"  -> {"temp", "free"}
      [] fix = "empty_recycle_bin"      -> {"recycle", "free"}
      [] OTHER                          -> {"adapters", "gateway", "dns", "internet"}

(* When every check succeeded, a fix is proposed on evidence only when      *)
(* something it is about is wrong, whatever else an AI asked for.           *)
FixAddressesAFault ==
    Current /\ Unabridged => \A p \in proposals :
                  EvidenceBacked(p) => \E f \in About(p.fix) : Wrong(pc, f)

(* Before a fix, a check that fails makes a diagnosis milder, never graver: *)
(* no rule takes what was not measured for a fault, and no rule is kept     *)
(* quiet only by a check that may fail.                                     *)
MissingEvidenceNeverAlarms ==
    phase = "diagnosed" /\ tried = {} =>
        \A t \in DOMAIN results :
            analyze(category, Restrict(results, DOMAIN results \ {t})).level
                >= diagnosis.level

(* A red card is never shown under a diagnosis that found nothing, when     *)
(* every check succeeded: cards and rules read the same evidence with       *)
(* thresholds of their own.                                                 *)
AlarmingCardExplained ==
    phase = "diagnosed" /\ Unabridged /\ DOMAIN results = ran
        /\ (\E card \in Cards(category, results) : card.level = CRITICAL)
    => diagnosis.level # OK

Verified == phase = "applied" /\ phase' = "verified"

CheckUp(p) == analyze(category, Updated(<<>>, DIAGNOSTICS, {}, p))

(* A fix that is reported to have solved the problem has: when the checks   *)
(* repeated after it succeeded, a full check-up of the PC finds neither the *)
(* cause of the fix nor the cause that led the diagnosis, whatever the fix  *)
(* left half done.                                                          *)
ImprovedMeansGone ==
    [][/\ Verified /\ improved' /\ EvidenceBacked(applied)
       /\ repeated' \subseteq DOMAIN results'
       => \A c \in CheckUp(pc).causes : IsProblem(c) => c.id \notin Targets(diagnosis, applied)
      ]_vars

Continued == phase = "verified" /\ phase' = "diagnosed"

(* A continued investigation starts from the PC as the fix left it: what    *)
(* was measured to verify the fix replaces what was measured before it, so  *)
(* no further fix rests on a fault that the first one took away             *)
(* (agent.py:414-435).  With one attempt, which was carried out, nothing    *)
(* touched the PC after the verification; of the checks that it did not     *)
(* repeat, none may be out of date.                                         *)
ContinuedIsCurrent ==
    [][/\ Continued /\ attempts = 1
       /\ Unabridged' /\ DOMAIN results' = ran'
       /\ \A t \in ran \ repeated : results[t] = Report(t, pc)
       => \A c \in diagnosis'.causes :
            IsProblem(c) /\ c.fix # NoFix => \E f \in About(c.fix) : Wrong(pc, f)
      ]_vars
===============================================================================
