------------------------------- MODULE Repairs --------------------------------
(***************************************************************************)
(* From a diagnosis to a fix and from a fix to a verdict: the catalog of   *)
(* fixes (app/knowledge/remediations.py), the proposals                    *)
(* (app/core/remediation_engine.py) and the comparison of the measurements *)
(* before and after (app/core/verification_engine.py).                     *)
(***************************************************************************)
EXTENDS Knowledge

(* What proves that a fix worked: the checks repeated, and the rows         *)
(* compared, the first of which says whether the change took effect.        *)
Fix(verify, rows) == [verify |-> verify, rows |-> rows]

FIXES ==
    [restart_windows_search |->
        Fix({"get_search_indexer_status"},
            <<"search_service", "indexer_memory", "memory_in_use">>),
     restart_windows_update_service |->
        Fix({"get_windows_update_status"}, <<"wuauserv">>),
     restart_bits_service      |-> Fix({"get_windows_update_status"}, <<"bits">>),
     restart_print_spooler     |-> Fix({"get_important_services"}, <<"Spooler">>),
     restart_audio_service     |-> Fix({"get_important_services"}, <<"Audiosrv">>),
     restart_bluetooth_service |-> Fix({"get_important_services"}, <<"bthserv">>),
     restart_wlan_service      |->
        Fix({"get_network_services_status"}, <<"WlanSvc", "gateway", "internet">>),
     flush_dns |-> Fix({"test_dns", "test_internet"}, <<"dns", "internet">>),
     renew_ip_configuration |->
        Fix({"ping_gateway", "test_internet"}, <<"gateway", "internet">>),
     restart_network_adapter |->
        Fix({"ping_gateway", "test_internet", "get_network_adapters"},
            <<"gateway", "internet">>),
     reset_winsock |-> Fix({"test_internet"}, <<"internet">>),
     clear_safe_temp_files |->
        Fix({"get_disk_free_space", "get_reclaimable_space"},
            <<"free_space", "temp_files">>),
     empty_recycle_bin |->
        Fix({"get_disk_free_space", "get_reclaimable_space"},
            <<"free_space", "recycle_bin">>),
     clear_windows_update_cache_if_safe |->
        Fix({"get_windows_update_status", "get_disk_free_space"},
            <<"wuauserv", "free_space">>)]

-----------------------------------------------------------------------------
(* Proposals                                                               *)

Proposal(fix, parameters, cause) ==
    [fix |-> fix, parameters |-> parameters, cause |-> cause]

(* The required parameters that the evidence gives: an adapter may be known, *)
(* and nothing else is ever guessed.                                         *)
_resolve_parameters(fix, category, r) ==
    {name \in required(fix) :
        name = "adapter_name" /\ pick_adapter(r, category = "wifi_disconnecting")}

(* Faulty variant: whether the parameters are known is not asked. *)
BuildableUnresolved(fix, category, r) == has(fix)

(* A fix whose parameters are not known is never offered. *)
Buildable(fix, category, r) ==
    has(fix) /\ validate_arguments(fix, _resolve_parameters(fix, category, r))

propose(d, r, exclude) ==
    LET spec    == get_category_spec(d.category)
        offered == {c \in d.causes :
                      /\ c.fix \in spec.fixes \ exclude
                      /\ IsProblem(c)
                      /\ Buildable(c.fix, d.category, r)}
        build(f, cause) == Proposal(f, _resolve_parameters(f, d.category, r), cause)
        backed  == {build(f, First({c \in offered : c.fix = f}).id) :
                      f \in {c.fix : c \in offered}}
        general == {f \in {spec.general} \ exclude : Buildable(f, d.category, r)}
    IN  IF backed = {} /\ d.level = OK THEN {build(f, NoCause) : f \in general} ELSE backed

EvidenceBacked(p) == p.cause # NoCause

-----------------------------------------------------------------------------
(* Verification                                                            *)

(* The checks a row reads. *)
RowTools(row) ==
    CASE row = "search_service" -> {"get_search_indexer_status", "get_important_services"}
      [] row = "indexer_memory" -> {"get_running_processes"}
      [] row = "memory_in_use"  -> {"get_memory_usage"}
      [] row \in Services       -> {"get_important_services", "get_windows_update_status",
                                    "get_network_services_status"}
      [] row = "free_space"     -> {"get_disk_free_space"}
      [] row \in {"temp_files", "recycle_bin"} -> {"get_reclaimable_space"}
      [] OTHER -> {}

(* The causes a fix is judged by: its own, and the one that led. *)
Targets(d, p) == {p.cause, d.top} \ {NoCause}

(* The measurements that were taken before the fix, and those of the fix;   *)
(* they are run by name, without the engine that refuses what is no check.  *)
tools_for(d, p, before) ==
    LET rows   == UNION {RowTools(row) : row \in Range(FIXES[p.fix].rows)}
        causes == UNION {c.sources : c \in {c \in d.causes : c.id \in Targets(d, p)}}
    IN  {t \in ((rows \cup causes) \cap DOMAIN before) \cup FIXES[p.fix].verify : has(t)}

Verdict(ok, improved) == IF improved THEN "improved" ELSE IF ok THEN "ok" ELSE "unchanged"

ServiceRow(name, before, after) ==
    {Verdict(a.running, FALSE) : a \in Service(after, name)}

SearchRow(before, after) == {Verdict(a.running /\ a.responding, FALSE) : a \in Indexer(after)}

IndexerMemoryRow(before, after) ==
    {Verdict(FALSE, 10 * x[2].memory <= 8 * x[1].memory) : x \in Indexer(before) \X Indexer(after)}

MemoryRow(before, after) ==
    {Verdict(x[2] < 70, x[1] - x[2] >= 2 /\ x[2] < 70) : x \in Memory(before) \X Memory(after)}

BoolRow(before, after) == {Verdict(a, a /\ TRUE \notin before) : a \in after}

(* A gain of 0.1 GB counts; the model's free space is in whole GB. *)
FreeSpaceRow(before, after) ==
    {Verdict(FALSE, x[2].free - x[1].free >= 1) : x \in Disk(before) \X Disk(after)}

SizeRow(before, after) == {Verdict(FALSE, 10 * x[2] <= 8 * x[1]) : x \in before \X after}

Row(row, before, after) ==
    CASE row = "search_service" -> SearchRow(before, after)
      [] row = "indexer_memory" -> IndexerMemoryRow(before, after)
      [] row = "memory_in_use"  -> MemoryRow(before, after)
      [] row \in Services       -> ServiceRow(row, before, after)
      [] row = "dns"      -> BoolRow(DnsWorking(before), DnsWorking(after))
      [] row = "internet" -> BoolRow(Internet(before), Internet(after))
      [] row = "gateway"  -> BoolRow({g.reachable : g \in Gateway(before)},
                                     {g.reachable : g \in Gateway(after)})
      [] row = "free_space"  -> FreeSpaceRow(before, after)
      [] row = "temp_files"  -> SizeRow({s.temp : s \in Reclaimable(before)},
                                        {s.temp : s \in Reclaimable(after)})
      [] row = "recycle_bin" -> SizeRow({s.recycle : s \in Reclaimable(before)},
                                        {s.recycle : s \in Reclaimable(after)})

(* The first row that can be built says whether the change took effect; it  *)
(* is the empty set when none can.                                          *)
Effective(fix, before, after) ==
    LET rows == SelectSeq(FIXES[fix].rows, LAMBDA row : Row(row, before, after) # {})
    IN  IF rows = <<>> THEN {}
        ELSE {status # "unchanged" : status \in Row(Head(rows), before, after)}

(* Faulty variant: only the cause of the fix itself counts. *)
RemainingOwn(d, p, now) == {c \in now.causes : IsProblem(c) /\ c.id = p.cause}

Remaining(d, p, now) == {c \in now.causes : IsProblem(c) /\ c.id \in Targets(d, p)}

(* A fix with a cause improved things unless its row says otherwise or a    *)
(* target is still there; a general step has to show that it took effect    *)
(* and that nothing is wrong now.                                           *)
Improved(d, p, before, after) ==
    LET now       == analyze(d.category, after)
        effective == Effective(p.fix, before, after)
    IN  IF EvidenceBacked(p)
        THEN FALSE \notin effective /\ Remaining(d, p, now) = {}
        ELSE TRUE \in effective /\ now.level = OK
===============================================================================
