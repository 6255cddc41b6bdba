----------------------------- MODULE Measurements -----------------------------
(***************************************************************************)
(* What the read-only checks of app/diagnostics report about a PC, and how *)
(* app/knowledge/evidence.py reads it back from the results of a session.  *)
(*                                                                         *)
(* A PC is a record with a field for each thing a check can see.  Results  *)
(* are a function from the checks that succeeded to what they reported: a  *)
(* check that failed is no longer in its domain.  An extractor returns the *)
(* set of what it found, which is empty when nothing was collected.        *)
(***************************************************************************)
EXTENDS Integers, Sequences, SequencesExt

Services == {"WSearch", "wuauserv", "bits", "Spooler", "Audiosrv",
             "AudioEndpointBuilder", "bthserv", "WlanSvc", "Dnscache", "Dhcp"}

(* A stopped service starts automatically, an idle one on demand; closing   *)
(* is one that is disabled and has not stopped yet.                         *)
ServiceStates == {"running", "stopped", "idle", "disabled", "closing", "missing"}

Values(field) ==
    CASE field \in Services                               -> ServiceStates
      [] field \in {"hung", "reboot", "dns", "internet"} -> BOOLEAN
      [] field \in {"memory", "cpu", "free"}             -> 0 .. 100
      [] field = "indexer"                               -> {"normal", "large", "stuck"}
      [] field = "bluetooth"                             -> {"fine", "problem", "missing"}
      [] field = "gateway"                               -> {"replies", "silent", "none"}
      [] field = "gpu"                                   -> {"fine", "basic", "faulty", "old"}
      [] OTHER                                           -> Nat

HealthyParts ==
    [memory |-> 50, cpu |-> 20, free |-> 80, temp |-> 100, recycle |-> 0,
     indexer |-> "normal", app |-> 400, hung |-> FALSE, crashes |-> 0,
     startup |-> 5, uptime |-> 1, errors |-> 0, reboot |-> FALSE, devices |-> 0,
     bluetooth |-> "fine", adapters |-> 1, gateway |-> "replies", dns |-> TRUE,
     internet |-> TRUE, gpu |-> "fine", gpu_load |-> 30, gpu_app |-> 0, resets |-> 0]

HealthyPC ==
    [f \in DOMAIN HealthyParts \cup Services |->
        IF f \in Services THEN "running" ELSE HealthyParts[f]]

IsPC(pc) == /\ pc = [f \in DOMAIN HealthyPC |-> pc[f]]
            /\ \A f \in DOMAIN HealthyPC : pc[f] \in Values(f)

-----------------------------------------------------------------------------
(* The checks (app/diagnostics)                                            *)

get_cpu_usage(pc) == [usage |-> pc.cpu]

get_memory_usage(pc) == [usage |-> pc.memory]

get_memory_details(pc) == [usage |-> pc.memory]

get_boot_time(pc) == [days |-> pc.uptime]

get_startup_apps(pc) == [count |-> pc.startup]

get_recent_system_errors(pc) == [count |-> pc.errors]

get_recent_application_crashes(pc) == [count |-> pc.crashes]

get_pending_reboot(pc) == [pending |-> pc.reboot]

get_problem_devices(pc) == [count |-> pc.devices]

get_bluetooth_devices(pc) ==
    [present |-> pc.bluetooth # "missing", problem |-> pc.bluetooth = "problem"]

(* The PC's drive has 100 GB, so its free space is a percentage as well.    *)
Used(pc) == 100 - pc.free

get_disk_usage(pc) == [percent |-> Used(pc), free |-> pc.free]

get_disk_free_space(pc) ==
    [percent |-> Used(pc), free |-> pc.free, low |-> Used(pc) >= 90 \/ pc.free < 10]

get_reclaimable_space(pc) == [temp |-> pc.temp, recycle |-> pc.recycle]

(* No link, no default route. *)
Routed(pc) == pc.adapters > 0 /\ pc.gateway # "none"

get_network_adapters(pc) == [up |-> pc.adapters]

ping_gateway(pc) ==
    [gateway |-> Routed(pc), reachable |-> Routed(pc) /\ pc.gateway = "replies"]

test_dns(pc) == [working |-> pc.dns /\ Routed(pc)]

test_internet(pc) == [reachable |-> pc.internet /\ Routed(pc)]

OnDemand == {"wuauserv", "bits", "bthserv"}

(* A disabled service is healthy when it is stopped. *)
service_status(name, s) ==
    [running |-> s = "running", disabled |-> s \in {"disabled", "closing"},
     healthy |-> \/ s \in {"running", "idle", "disabled"}
                 \/ s \in {"stopped", "missing"} /\ name \in OnDemand]

Statuses(pc, names) == [name \in names |-> service_status(name, pc[name])]

get_important_services(pc) == [services |-> Statuses(pc, Services)]

get_windows_update_status(pc) == [services |-> Statuses(pc, {"wuauserv", "bits"})]

get_network_services_status(pc) ==
    [services |-> Statuses(pc, {"Dnscache", "Dhcp", "WlanSvc"})]

IndexerMemory(pc) ==
    IF pc.WSearch # "running" THEN 0 ELSE IF pc.indexer = "large" THEN 1024 ELSE 96

get_search_indexer_status(pc) ==
    [services |-> Statuses(pc, {"WSearch"}), memory |-> IndexerMemory(pc),
     responding |-> pc.WSearch # "running" \/ pc.indexer # "stuck"]

(* The indexer has no window, so a stuck one is not "not responding" here.  *)
get_running_processes(pc) ==
    [app |-> pc.app, hung |-> pc.hung,
     indexer |-> IF pc.WSearch = "running" THEN {IndexerMemory(pc)} ELSE {}]

get_unresponsive_apps(pc) == [hung |-> pc.hung]

get_gpu_info(pc) ==
    [basic |-> pc.gpu = "basic", healthy |-> pc.gpu # "faulty", old |-> pc.gpu = "old"]

get_gpu_usage(pc) == [usage |-> pc.gpu_load, background |-> pc.gpu_app]

get_display_driver_errors(pc) == [resets |-> pc.resets]

(* What a check reports; the checks not named only fill in details that no  *)
(* rule reads.                                                              *)
Report(tool, pc) ==
    CASE tool = "get_cpu_usage"                  -> get_cpu_usage(pc)
      [] tool = "get_memory_usage"               -> get_memory_usage(pc)
      [] tool = "get_memory_details"             -> get_memory_details(pc)
      [] tool = "get_boot_time"                  -> get_boot_time(pc)
      [] tool = "get_startup_apps"               -> get_startup_apps(pc)
      [] tool = "get_recent_system_errors"       -> get_recent_system_errors(pc)
      [] tool = "get_recent_application_crashes" -> get_recent_application_crashes(pc)
      [] tool = "get_pending_reboot"             -> get_pending_reboot(pc)
      [] tool = "get_problem_devices"            -> get_problem_devices(pc)
      [] tool = "get_bluetooth_devices"          -> get_bluetooth_devices(pc)
      [] tool = "get_disk_usage"                 -> get_disk_usage(pc)
      [] tool = "get_disk_free_space"            -> get_disk_free_space(pc)
      [] tool = "get_reclaimable_space"          -> get_reclaimable_space(pc)
      [] tool = "get_network_adapters"           -> get_network_adapters(pc)
      [] tool = "ping_gateway"                   -> ping_gateway(pc)
      [] tool = "test_dns"                       -> test_dns(pc)
      [] tool = "test_internet"                  -> test_internet(pc)
      [] tool = "get_important_services"         -> get_important_services(pc)
      [] tool = "get_windows_update_status"      -> get_windows_update_status(pc)
      [] tool = "get_network_services_status"    -> get_network_services_status(pc)
      [] tool = "get_search_indexer_status"      -> get_search_indexer_status(pc)
      [] tool = "get_running_processes"          -> get_running_processes(pc)
      [] tool = "get_unresponsive_apps"          -> get_unresponsive_apps(pc)
      [] tool = "get_gpu_info"                   -> get_gpu_info(pc)
      [] tool = "get_gpu_usage"                  -> get_gpu_usage(pc)
      [] tool = "get_display_driver_errors"      -> get_display_driver_errors(pc)
      [] OTHER                                   -> [seen |-> FALSE]

-----------------------------------------------------------------------------
(* Evidence (app/knowledge/evidence.py)                                    *)

(* data: what the first of these checks that succeeded reported. *)
Data(r, tools) ==
    LET measured == {i \in DOMAIN tools : tools[i] \in DOMAIN r}
    IN  IF measured = {} THEN {} ELSE {r[tools[Min(measured)]]}

Memory(r) == {d.usage : d \in Data(r, <<"get_memory_usage", "get_memory_details">>)}

Cpu(r) == {d.usage : d \in Data(r, <<"get_cpu_usage">>)}

(* The low-space flag is worked out here when the check has none. *)
Disk(r) ==
    {[percent |-> d.percent, free |-> d.free,
      low |-> IF "low" \in DOMAIN d THEN d.low ELSE d.percent >= 90 \/ d.free < 10] :
        d \in Data(r, <<"get_disk_free_space", "get_disk_usage">>)}

Processes(r) == Data(r, <<"get_running_processes">>)

TopApp(r) == {d.app : d \in Processes(r)}

Unresponsive(r) ==
    \E d \in Data(r, <<"get_unresponsive_apps", "get_running_processes">>) : d.hung

(* The first check that knows the service wins. *)
ServiceChecks == <<"get_search_indexer_status", "get_important_services",
                   "get_windows_update_status", "get_network_services_status">>

Service(r, name) ==
    LET knows == {i \in DOMAIN ServiceChecks :
                    /\ ServiceChecks[i] \in DOMAIN r
                    /\ name \in DOMAIN r[ServiceChecks[i]].services}
    IN  IF knows = {} THEN {} ELSE {r[ServiceChecks[Min(knows)]].services[name]}

(* Without its own check, the indexer is known by the process list, or by   *)
(* a service in trouble.                                                    *)
IndexerSeen(r) ==
    LET sizes  == UNION {d.indexer : d \in Processes(r)}
        status == Service(r, "WSearch")
        size   == IF sizes = {} THEN 0 ELSE CHOOSE s \in sizes : TRUE
    IN  IF sizes = {} /\ \A s \in status : s.healthy
        THEN {}
        ELSE {[memory |-> size, responding |-> TRUE,
               running |-> \E s \in status : s.running,
               healthy |-> \A s \in status : s.healthy]}

Indexer(r) ==
    IF "get_search_indexer_status" \in DOMAIN r
    THEN {[memory |-> d.memory, responding |-> d.responding,
           running |-> d.services["WSearch"].running,
           healthy |-> d.services["WSearch"].healthy] :
             d \in {r["get_search_indexer_status"]}}
    ELSE IndexerSeen(r)

Reclaimable(r) == Data(r, <<"get_reclaimable_space">>)

AdaptersUp(r) == {d.up : d \in Data(r, <<"get_network_adapters">>)}

Gateway(r) == Data(r, <<"ping_gateway">>)

DnsWorking(r) == {d.working : d \in Data(r, <<"test_dns">>)}

Internet(r) == {d.reachable : d \in Data(r, <<"test_internet">>)}

RebootPending(r) == \E d \in Data(r, <<"get_pending_reboot">>) : d.pending

(* Whether there is a network adapter a restart may name: the one of the    *)
(* default route, else a wireless one (the PC has one) when that is what    *)
(* does not work, else the only one with a link.                            *)
pick_adapter(r, wireless) ==
    /\ AdaptersUp(r) # {}
    /\ \/ \E g \in Gateway(r) : g.gateway
       \/ wireless
       \/ AdaptersUp(r) = {1}
===============================================================================
