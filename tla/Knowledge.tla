------------------------------ MODULE Knowledge -------------------------------
(***************************************************************************)
(* The knowledge base: the categories of problems with their checks and    *)
(* fixes (app/knowledge/categories.py) and the rules that turn what was    *)
(* measured into causes, a level and evidence cards                        *)
(* (app/knowledge/troubleshooting.py).                                     *)
(*                                                                         *)
(* Wording is left out: a cause is its id, its level, its confidence in    *)
(* percent, the fix it names and the checks it rests on.                   *)
(***************************************************************************)
EXTENDS Measurements, Registration

CRITICAL == 0
CAUTION  == 1
INFO     == 2
OK       == 3

NoFix   == "no_fix"
NoCause == "no_cause"

-----------------------------------------------------------------------------
(* Categories                                                              *)

PERF == <<"get_cpu_usage", "get_memory_usage", "get_disk_usage",
          "get_running_processes", "get_startup_apps", "get_important_services",
          "get_recent_system_errors">>

PERF_DEEP == <<"get_memory_details", "get_disk_activity", "get_boot_time",
               "get_search_indexer_status", "get_unresponsive_apps">>

NET == <<"get_network_adapters", "ping_gateway", "test_dns", "test_internet",
         "get_network_services_status">>

CategorySpec(checks, thorough, fixes, general) ==
    [checks |-> checks, thorough |-> thorough, fixes |-> fixes, general |-> general]

SlowComputer ==
    CategorySpec(PERF, PERF_DEEP, {"restart_windows_search", "clear_safe_temp_files"}, NoFix)

HighCpu ==
    CategorySpec(<<"get_cpu_usage", "get_running_processes", "get_top_cpu_processes",
                 "get_important_services", "get_recent_system_errors">>,
                 <<"get_search_indexer_status", "get_boot_time">>,
                 {"restart_windows_search"}, NoFix)

HighMemory ==
    CategorySpec(<<"get_memory_usage", "get_memory_details", "get_running_processes",
                 "get_important_services">>,
                 <<"get_search_indexer_status", "get_unresponsive_apps">>,
                 {"restart_windows_search"}, NoFix)

LowDiskSpace ==
    CategorySpec(<<"get_disk_free_space", "get_disk_partitions", "get_reclaimable_space">>,
                 <<"get_disk_activity">>,
                 {"clear_safe_temp_files", "empty_recycle_bin",
                 "clear_windows_update_cache_if_safe"}, NoFix)

InternetDown ==
    CategorySpec(NET, <<"get_ip_configuration", "get_network_profile">>,
                 {"restart_network_adapter", "flush_dns", "renew_ip_configuration",
                 "reset_winsock"}, NoFix)

WifiDisconnecting ==
    CategorySpec(NET, <<"get_network_profile", "get_recent_system_errors">>,
                 {"restart_wlan_service", "restart_network_adapter",
                 "renew_ip_configuration", "flush_dns"}, "renew_ip_configuration")

DnsProblems ==
    CategorySpec(<<"test_dns", "test_internet", "ping_gateway", "get_network_services_status">>,
                 <<"get_network_adapters">>,
                 {"flush_dns", "renew_ip_configuration"}, "flush_dns")

WindowsUpdate ==
    CategorySpec(<<"get_windows_update_status", "get_pending_reboot", "get_disk_free_space",
                 "get_recent_updates", "get_recent_system_errors">>,
                 <<"get_reclaimable_space", "test_internet">>,
                 {"restart_windows_update_service", "restart_bits_service",
                 "clear_safe_temp_files", "clear_windows_update_cache_if_safe"},
                 "restart_windows_update_service")

Bluetooth ==
    CategorySpec(<<"get_bluetooth_devices", "get_important_services", "get_problem_devices">>,
                 <<"get_driver_information">>,
                 {"restart_bluetooth_service"}, "restart_bluetooth_service")

Audio ==
    CategorySpec(<<"get_important_services", "get_problem_devices">>,
                 <<"get_driver_information">>,
                 {"restart_audio_service"}, "restart_audio_service")

Printer ==
    CategorySpec(<<"get_important_services", "get_problem_devices">>, <<>>,
                 {"restart_print_spooler"}, "restart_print_spooler")

AppCrashes ==
    CategorySpec(<<"get_recent_application_crashes", "get_recent_application_errors",
                 "get_memory_usage", "get_running_processes", "get_disk_free_space">>,
                 <<"get_unresponsive_apps">>, {"clear_safe_temp_files"}, NoFix)

StartupProblems ==
    CategorySpec(<<"get_startup_apps", "get_boot_time", "get_disk_usage", "get_memory_usage",
                 "get_recent_system_errors">>,
                 <<"get_disk_activity", "get_pending_reboot">>,
                 {"clear_safe_temp_files"}, NoFix)

DeviceDriver ==
    CategorySpec(<<"get_problem_devices", "get_driver_information",
                 "get_recent_system_errors">>, <<>>, {}, NoFix)

WindowsSearch ==
    CategorySpec(<<"get_search_indexer_status", "get_important_services",
                 "get_recent_application_errors">>, <<"get_memory_usage">>,
                 {"restart_windows_search"}, "restart_windows_search")

Graphics ==
    CategorySpec(<<"get_gpu_usage", "get_gpu_info", "get_display_driver_errors",
                 "get_cpu_usage", "get_memory_usage", "get_running_processes",
                 "get_problem_devices">>,
                 <<"get_recent_system_errors", "get_driver_information",
                 "get_disk_activity">>, {}, NoFix)

CATEGORIES ==
    [slow_computer |-> SlowComputer, high_cpu |-> HighCpu,
     high_memory |-> HighMemory, low_disk_space |-> LowDiskSpace,
     internet_down |-> InternetDown, wifi_disconnecting |-> WifiDisconnecting,
     dns_problems |-> DnsProblems, windows_update |-> WindowsUpdate,
     bluetooth |-> Bluetooth, audio |-> Audio,
     printer |-> Printer, app_crashes |-> AppCrashes,
     startup_problems |-> StartupProblems, device_driver |-> DeviceDriver,
     windows_search |-> WindowsSearch, graphics |-> Graphics]

(* A problem that fits no category gets a broad sweep, and no fix.          *)
GENERAL_TOOLS == <<"get_cpu_usage", "get_memory_usage", "get_disk_usage",
                   "get_running_processes", "get_important_services",
                   "get_recent_system_errors", "test_internet">>

Categories == DOMAIN CATEGORIES \cup {"unknown"}

get_category_spec(category) ==
    IF category = "unknown" THEN CategorySpec(<<>>, <<>>, {}, NoFix) ELSE CATEGORIES[category]

PerfCategories == {"slow_computer", "high_cpu", "high_memory", "app_crashes",
                   "startup_problems", "unknown"}

NetCategories == {"internet_down", "wifi_disconnecting", "dns_problems"}

SearchCategories == {"windows_search", "slow_computer", "high_memory", "high_cpu"}

-----------------------------------------------------------------------------
(* Rules                                                                   *)

Cause(id, level, confidence, fix, sources) ==
    [id |-> id, level |-> level, confidence |-> confidence, fix |-> fix,
     sources |-> sources]

When(condition, causes) == IF condition THEN causes ELSE {}

MemoryRule(r, category) ==
    UNION {LET moderate == category = "graphics" /\ m < 85
           IN  When(m >= 70,
                    {Cause("memory_pressure",
                           IF m >= 85 THEN CRITICAL ELSE IF moderate THEN INFO ELSE CAUTION,
                           IF m >= 85 THEN 85 ELSE IF moderate THEN 30 ELSE 75,
                           NoFix, {"get_memory_usage"})}) : m \in Memory(r)}

(* Faulty variant: only a stopped indexer is a fault. *)
StoppedIndexerRule(r, category) ==
    {Cause("search_indexer", CAUTION, 70, "restart_windows_search",
           {"get_search_indexer_status", "get_running_processes",
            "get_important_services"}) :
        i \in {i \in Indexer(r) : category \in SearchCategories /\ ~i.running /\ ~i.healthy}}

IndexerFault(i) ==
    \/ ~i.responding
    \/ ~i.running /\ ~i.healthy
    \/ i.memory >= 1024

IndexerRule(r, category) ==
    {Cause("search_indexer", CAUTION, 70, "restart_windows_search",
           {"get_search_indexer_status", "get_running_processes",
            "get_important_services"}) :
        i \in {i \in Indexer(r) : category \in SearchCategories /\ IndexerFault(i)}}

LargeAppsRule(r) ==
    When(/\ \E m \in Memory(r) : m >= 70
         /\ \E app \in TopApp(r) : app >= 1536,
         {Cause("large_apps", INFO, 55, NoFix, {"get_running_processes"})})

CpuRule(r) ==
    {Cause("high_cpu", CAUTION, IF c >= 85 THEN 70 ELSE 45, NoFix,
           {"get_cpu_usage", "get_running_processes"}) : c \in {c \in Cpu(r) : c >= 60}}

(* "or 99": a free space of zero counts as 99 GB. *)
FreeOr99(d) == IF d.free = 0 THEN 99 ELSE d.free

DiskRule(r, category) ==
    LET low         == {d \in Disk(r) : d.low}
        reclaimable == IF low # {} \/ category = "low_disk_space" THEN Reclaimable(r) ELSE {}
    IN  {Cause("low_disk", IF d.percent >= 95 \/ FreeOr99(d) < 5 THEN CRITICAL ELSE CAUTION,
               85, NoFix, {"get_disk_free_space", "get_disk_usage"}) : d \in low}
        \cup When(\E s \in reclaimable : s.temp >= 500,
                  {Cause("temp_files", CAUTION, 70, "clear_safe_temp_files",
                         {"get_reclaimable_space"})})
        \cup When(\E s \in reclaimable : s.recycle >= 500,
                  {Cause("recycle_bin", CAUTION, 60, "empty_recycle_bin",
                         {"get_reclaimable_space"})})

UpdateSpaceRule(r, category) ==
    When(category = "windows_update" /\ \E d \in Disk(r) : FreeOr99(d) < 10,
         {Cause("update_space", CAUTION, 70, "clear_safe_temp_files",
                {"get_disk_free_space"})})

(* Faulty variant: adapters that were not measured count as none. *)
NoLinkUnmeasured(r) == AdaptersUp(r) \subseteq {0}

NoLink(r) == AdaptersUp(r) = {0}

(* Faulty variant: a failing name lookup is blamed on DNS whatever the      *)
(* router says.                                                             *)
NetworkRuleEager(r, category) ==
    When(category \in NetCategories /\ FALSE \in DnsWorking(r),
         {Cause("dns_failure", CAUTION, 75, "flush_dns", {"test_dns"})})

NetworkRule(r, category) ==
    LET silent   == \E g \in Gateway(r) : ~g.reachable
        replies  == \E g \in Gateway(r) : g.reachable
        dnsFails == FALSE \in DnsWorking(r)
        adapter  == IF category = "wifi_disconnecting" THEN "restart_wlan_service"
                    ELSE "restart_network_adapter"
    IN  IF category \notin NetCategories THEN {}
        ELSE IF NoLink(r)
        THEN {Cause("no_adapter", CRITICAL, 85, adapter, {"get_network_adapters"})}
        ELSE {Cause("gateway_unreachable", CRITICAL, 75, "restart_network_adapter",
                    {"ping_gateway"}) : g \in {g \in Gateway(r) : ~g.reachable /\ g.gateway}}
             \cup
             {Cause("no_gateway", CRITICAL, 70, "renew_ip_configuration",
                    {"ping_gateway"}) : g \in {g \in Gateway(r) : ~g.reachable /\ ~g.gateway}}
             \cup When(dnsFails /\ ~silent,
                       {Cause("dns_failure", CAUTION, 75, "flush_dns", {"test_dns"})})
             \cup When(FALSE \in Internet(r) /\ replies /\ ~dnsFails,
                       {Cause("internet_unreachable", CAUTION, 55, NoFix,
                              {"test_internet", "ping_gateway"})})

(* Which services matter to which problems, and the fix of each; the order  *)
(* is the one of the causes.  WSearch has a rule of its own.                *)
SERVICE_RULES ==
    [wuauserv |-> [matters |-> {"windows_update"}, fix |-> "restart_windows_update_service"],
     bits     |-> [matters |-> {"windows_update"}, fix |-> "restart_bits_service"],
     Spooler  |-> [matters |-> {"printer"}, fix |-> "restart_print_spooler"],
     Audiosrv |-> [matters |-> {"audio"}, fix |-> "restart_audio_service"],
     AudioEndpointBuilder |-> [matters |-> {"audio"}, fix |-> NoFix],
     bthserv  |-> [matters |-> {"bluetooth"}, fix |-> "restart_bluetooth_service"],
     WlanSvc  |-> [matters |-> {"wifi_disconnecting", "internet_down"},
                   fix |-> "restart_wlan_service"],
     Dnscache |-> [matters |-> NetCategories, fix |-> NoFix],
     Dhcp     |-> [matters |-> NetCategories, fix |-> NoFix]]

(* The causes of a service: that it is disabled, or that it does not run.   *)
Disabled ==
    [wuauserv |-> "disabled:wuauserv", bits |-> "disabled:bits",
     Spooler |-> "disabled:Spooler", Audiosrv |-> "disabled:Audiosrv",
     AudioEndpointBuilder |-> "disabled:AudioEndpointBuilder",
     bthserv |-> "disabled:bthserv", WlanSvc |-> "disabled:WlanSvc",
     Dnscache |-> "disabled:Dnscache", Dhcp |-> "disabled:Dhcp"]

Stopped ==
    [wuauserv |-> "service:wuauserv", bits |-> "service:bits",
     Spooler |-> "service:Spooler", Audiosrv |-> "service:Audiosrv",
     AudioEndpointBuilder |-> "service:AudioEndpointBuilder",
     bthserv |-> "service:bthserv", WlanSvc |-> "service:WlanSvc",
     Dnscache |-> "service:Dnscache", Dhcp |-> "service:Dhcp"]

ServiceOrder == <<"wuauserv", "bits", "Spooler", "Audiosrv", "AudioEndpointBuilder",
                  "bthserv", "WlanSvc", "Dnscache", "Dhcp">>

ServiceRule(r, category, name) ==
    {IF s.disabled
     THEN Cause(Disabled[name], CAUTION, 75, NoFix,
                {"get_important_services", "get_windows_update_status"})
     ELSE Cause(Stopped[name], CAUTION, 80, SERVICE_RULES[name].fix,
                {"get_important_services", "get_windows_update_status",
                 "get_network_services_status"}) :
        s \in {s \in Service(r, name) :
                 category \in SERVICE_RULES[name].matters /\ ~s.healthy}}

UpdatesRule(r, category) ==
    When(RebootPending(r),
         {IF category = "windows_update"
          THEN Cause("reboot_pending", CAUTION, 80, NoFix, {"get_pending_reboot"})
          ELSE Cause("reboot_pending", INFO, 40, NoFix, {"get_pending_reboot"})})

BluetoothRule(r, category) ==
    {IF b.present THEN Cause("bt_problem", CAUTION, 65, NoFix, {"get_bluetooth_devices"})
     ELSE Cause("bt_missing", CRITICAL, 75, NoFix, {"get_bluetooth_devices"}) :
        b \in {b \in Data(r, <<"get_bluetooth_devices">>) :
                 category = "bluetooth" /\ (b.problem \/ ~b.present)}}

DevicesRule(r, category) ==
    When(/\ category \in {"device_driver", "audio", "printer"}
         /\ \E d \in Data(r, <<"get_problem_devices">>) : d.count > 0,
         {Cause("device_problem", CAUTION, 65, NoFix, {"get_problem_devices"})})

AppsRule(r, category) ==
    When(Unresponsive(r) /\ category \in PerfCategories,
         {Cause("unresponsive", CAUTION, 60, NoFix,
                {"get_unresponsive_apps", "get_running_processes"})})
    \cup When(\E c \in Data(r, <<"get_recent_application_crashes">>) : c.count >= 3,
              {Cause("app_crashes", CAUTION, 70, NoFix,
                     {"get_recent_application_crashes"})})

BackgroundRule(r, category) ==
    When(\E s \in Data(r, <<"get_startup_apps">>) : s.count >= 12,
         {IF category = "startup_problems"
          THEN Cause("many_startup", CAUTION, 65, NoFix, {"get_startup_apps"})
          ELSE Cause("many_startup", INFO, 40, NoFix, {"get_startup_apps"})})
    \cup When(\E b \in Data(r, <<"get_boot_time">>) : b.days >= 7,
              {Cause("long_uptime", INFO, 35, NoFix, {"get_boot_time"})})
    \cup When(\E e \in Data(r, <<"get_recent_system_errors">>) : e.count >= 5,
              {Cause("system_errors", INFO, 35, NoFix, {"get_recent_system_errors"})})

GraphicsAdapterRule(r) ==
    LET adapters == Data(r, <<"get_gpu_info">>)
    IN  When(\E a \in adapters : a.basic,
             {Cause("gpu_basic_driver", CRITICAL, 90, NoFix, {"get_gpu_info"})})
        \cup When(\E a \in adapters : ~a.basic /\ ~a.healthy,
                  {Cause("gpu_device_problem", CRITICAL, 85, NoFix, {"get_gpu_info"})})

GraphicsResetsRule(r) ==
    {Cause("display_driver_resets", IF e.resets >= 3 THEN CRITICAL ELSE CAUTION,
           Min({90, 60 + 10 * e.resets}), NoFix, {"get_display_driver_errors"}) :
        e \in {e \in Data(r, <<"get_display_driver_errors">>) : e.resets > 0}}

GraphicsUsageRule(r) ==
    LET usage == Data(r, <<"get_gpu_usage">>)
    IN  When(\E u \in usage : u.usage >= 85,
             {Cause("gpu_busy", CAUTION, 75, NoFix, {"get_gpu_usage"})})
        \cup When(\E u \in usage : u.background >= 25,
                  {Cause("gpu_background_app", CAUTION, 60, NoFix, {"get_gpu_usage"})})

GraphicsDriverRule(r, category) ==
    When(\E a \in Data(r, <<"get_gpu_info">>) : a.healthy /\ ~a.basic /\ a.old,
         {IF category = "graphics"
          THEN Cause("gpu_old_driver", CAUTION, 50, NoFix, {"get_gpu_info"})
          ELSE Cause("gpu_old_driver", INFO, 30, NoFix, {"get_gpu_info"})})

(* The rules, in the order that breaks ties between their causes.           *)
RULES(r, category) ==
    <<MemoryRule(r, category), IndexerRule(r, category), LargeAppsRule(r), CpuRule(r),
      DiskRule(r, category), UpdateSpaceRule(r, category), NetworkRule(r, category)>>
    \o [i \in DOMAIN ServiceOrder |-> ServiceRule(r, category, ServiceOrder[i])]
    \o <<UpdatesRule(r, category), BluetoothRule(r, category), DevicesRule(r, category),
         AppsRule(r, category), BackgroundRule(r, category),
         GraphicsAdapterRule(r), GraphicsResetsRule(r), GraphicsUsageRule(r),
         GraphicsDriverRule(r, category)>>

-----------------------------------------------------------------------------
(* analyze                                                                 *)

IsProblem(cause) == cause.level \in {CRITICAL, CAUTION}

(* The most severe cause comes first, then the most confident, then the one *)
(* of the earliest rule.                                                    *)
Before(c, d) ==
    \/ c.level < d.level
    \/ c.level = d.level /\ c.confidence > d.confidence
    \/ c.level = d.level /\ c.confidence = d.confidence /\ c.rank < d.rank

First(causes) == CHOOSE c \in causes : \A d \in causes \ {c} : Before(c, d)

Ranked(c, rank) ==
    [id |-> c.id, level |-> c.level, confidence |-> c.confidence, fix |-> c.fix,
     sources |-> c.sources, rank |-> rank]

analyze(category, r) ==
    LET rules    == RULES(r, category)
        causes   == UNION {{Ranked(c, i) : c \in rules[i]} : i \in DOMAIN rules}
        problems == {c \in causes : IsProblem(c)}
    IN  [category |-> category, causes |-> causes,
         top   |-> IF problems = {} THEN NoCause ELSE First(problems).id,
         level |-> IF problems = {} THEN OK
                   ELSE IF \E c \in problems : c.level = CRITICAL THEN CRITICAL
                   ELSE CAUTION]

-----------------------------------------------------------------------------
(* Evidence cards                                                          *)

Card(key, level) == [key |-> key, level |-> level]

(* Faulty variant: the two thresholds are swapped. *)
LevelForSwapped(value, caution, critical) ==
    IF value >= caution THEN CRITICAL ELSE IF value >= critical THEN CAUTION ELSE OK

LevelFor(value, caution, critical) ==
    IF value >= critical THEN CRITICAL ELSE IF value >= caution THEN CAUTION ELSE OK

OkOr(condition, level) == IF condition THEN OK ELSE level

MemoryCard(r) == {Card("memory", LevelFor(m, 70, 85)) : m \in Memory(r)}

CpuCard(r) == {Card("cpu", LevelFor(c, 60, 85)) : c \in Cpu(r)}

DiskCard(r) ==
    {Card("disk", IF d.percent >= 95 \/ d.free < 5 THEN CRITICAL ELSE OkOr(~d.low, CAUTION)) :
        d \in Disk(r)}

IndexerCard(r) == {Card("indexer", OkOr(~IndexerFault(i), CAUTION)) : i \in Indexer(r)}

ServiceCard(r, name) == {Card(name, OkOr(s.healthy, CAUTION)) : s \in Service(r, name)}

NetworkCards(r) ==
    {Card("adapter", OkOr(n > 0, CRITICAL)) : n \in AdaptersUp(r)}
    \cup {Card("router", OkOr(g.reachable, CRITICAL)) : g \in Gateway(r)}
    \cup {Card("dns", OkOr(ok, CRITICAL)) : ok \in DnsWorking(r)}
    \cup {Card("internet", OkOr(ok, CRITICAL)) : ok \in Internet(r)}

StorageCards(r) ==
    DiskCard(r)
    \cup {Card("temp", OkOr(s.temp < 500, CAUTION)) : s \in Reclaimable(r)}
    \cup {Card("recycle", OkOr(s.recycle < 500, CAUTION)) : s \in Reclaimable(r)}

GpuCards(r) ==
    {Card("gpu", LevelFor(u.usage, 85, 98)) : u \in Data(r, <<"get_gpu_usage">>)}
    \cup {Card("gpu_driver", IF a.basic \/ ~a.healthy THEN CRITICAL
                             ELSE OkOr(~a.old, CAUTION)) :
             a \in Data(r, <<"get_gpu_info">>)}
    \cup {Card("gpu_resets", LevelFor(e.resets, 1, 3)) :
             e \in Data(r, <<"get_display_driver_errors">>)}

UpdateCards(r) ==
    ServiceCard(r, "wuauserv") \cup ServiceCard(r, "bits") \cup DiskCard(r)
    \cup {Card("reboot", OkOr(~d.pending, CAUTION)) : d \in Data(r, <<"get_pending_reboot">>)}

BluetoothCards(r) ==
    ServiceCard(r, "bthserv")
    \cup {Card("bt", OkOr(b.present, CRITICAL)) : b \in Data(r, <<"get_bluetooth_devices">>)}

DeviceCards(r) ==
    {Card("devices", OkOr(d.count = 0, CAUTION)) : d \in Data(r, <<"get_problem_devices">>)}

StartupCards(r) ==
    {Card("startup", OkOr(s.count < 12, CAUTION)) : s \in Data(r, <<"get_startup_apps">>)}

Cards(category, r) ==
    CASE category \in NetCategories     -> NetworkCards(r)
      [] category = "low_disk_space"    -> StorageCards(r)
      [] category = "windows_update"    -> UpdateCards(r)
      [] category = "bluetooth"         -> BluetoothCards(r)
      [] category = "audio"             -> ServiceCard(r, "Audiosrv")
                                           \cup ServiceCard(r, "AudioEndpointBuilder")
      [] category = "printer"           -> ServiceCard(r, "Spooler")
      [] category = "windows_search"    -> IndexerCard(r) \cup MemoryCard(r)
      [] category = "device_driver"     -> DeviceCards(r)
      [] category = "graphics"          -> GpuCards(r) \cup CpuCard(r) \cup MemoryCard(r)
      [] OTHER -> MemoryCard(r) \cup CpuCard(r) \cup DiskCard(r) \cup IndexerCard(r)
                  \cup (IF category = "startup_problems" THEN StartupCards(r) ELSE {})
===============================================================================
