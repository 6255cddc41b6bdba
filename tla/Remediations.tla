----------------------------- MODULE Remediations -----------------------------
(***************************************************************************)
(* What the fixes of app/remediation do to a PC, step by step, and how one *)
(* that needs administrator rights is carried out by a helper process      *)
(* (app/core/elevation.py).                                                *)
(*                                                                         *)
(* A fix is the set of its possible outcomes: whether it reports success,  *)
(* and the PC it leaves behind.  A fix that fails may have done a part of  *)
(* its work, and one that succeeds need not have cured anything.           *)
(***************************************************************************)
EXTENDS Measurements, Registration

Outcome(success, pc) == [success |-> success, pc |-> pc]

(* External: Windows, once told to, may bring any of these fields in order. *)
Cured(fields, pc) ==
    {[f \in DOMAIN pc |-> IF f \in cured THEN HealthyPC[f] ELSE pc[f]] :
        cured \in SUBSET {f \in fields : pc[f] # HealthyPC[f]}}

Done(pcs) == {Outcome(TRUE, pc) : pc \in pcs}

Failed(pcs) == {Outcome(FALSE, pc) : pc \in pcs}

-----------------------------------------------------------------------------
(* Restart-Service stops a service and starts it, and waits for neither to  *)
(* be true afterwards; it refuses one that is disabled or not installed.    *)
restart_service(name, benefits, pc) ==
    IF pc[name] \in {"disabled", "closing", "missing"} THEN Failed({pc})
    ELSE Done(Cured({name} \cup benefits, pc)) \cup Failed({pc, [pc EXCEPT ![name] = "stopped"]})

flush_dns(pc) == Done(Cured({"dns"}, pc)) \cup Failed({pc})

renew_ip_configuration(pc) ==
    Done(Cured({"gateway", "dns", "internet"}, pc)) \cup Failed({pc})

(* One command switches the adapter off, another one on: the first or the   *)
(* second may fail.                                                         *)
restart_network_adapter(pc) ==
    Done(Cured({"adapters", "gateway", "dns", "internet"}, pc))
    \cup Failed({pc, [pc EXCEPT !.adapters = Max({0, @ - 1})]})

(* Files in use are passed over; a folder that cannot be read ends the fix  *)
(* with the folders before it cleared.                                      *)
clear_safe_temp_files(pc) ==
    Done(Cured({"temp", "free"}, pc)) \cup Failed(Cured({"temp", "free"}, pc))

empty_recycle_bin(pc) == Done(Cured({"recycle", "free"}, pc)) \cup Failed({pc})

(* RESTARTABLE_SERVICES: the fix that restarts each. *)
ServiceOf ==
    [restart_windows_search         |-> "WSearch",
     restart_windows_update_service |-> "wuauserv",
     restart_bits_service           |-> "bits",
     restart_print_spooler          |-> "Spooler",
     restart_audio_service          |-> "Audiosrv",
     restart_bluetooth_service      |-> "bthserv",
     restart_wlan_service           |-> "WlanSvc"]

(* External: what else a restarted service may bring in order. *)
Benefits(fix) ==
    CASE fix = "restart_windows_search" -> {"indexer", "memory"}
      [] fix = "restart_wlan_service"   -> {"adapters", "gateway", "dns", "internet"}
      [] OTHER                          -> {}

(* ToolRegistry.execute_tool for a fix. *)
Executed(fix, pc) ==
    CASE fix \in DOMAIN ServiceOf        -> restart_service(ServiceOf[fix], Benefits(fix), pc)
      [] fix = "flush_dns"               -> flush_dns(pc)
      [] fix = "renew_ip_configuration"  -> renew_ip_configuration(pc)
      [] fix = "restart_network_adapter" -> restart_network_adapter(pc)
      [] fix = "clear_safe_temp_files"   -> clear_safe_temp_files(pc)
      [] fix = "empty_recycle_bin"       -> empty_recycle_bin(pc)

-----------------------------------------------------------------------------
(* Elevation                                                               *)

(* The user declines the prompt, or the helper carries out the fix; what it *)
(* reports may not be readable.                                             *)
run_elevated(fix, pc) ==
    Failed({pc}) \cup Executed(fix, pc) \cup Failed({o.pc : o \in Executed(fix, pc)})

(* RemediationEngine.execute with the runner of the agent. *)
execute(fix, pc) == IF fix \in RequiresAdmin THEN run_elevated(fix, pc) ELSE Executed(fix, pc)
===============================================================================
