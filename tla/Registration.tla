----------------------------- MODULE Registration -----------------------------
(***************************************************************************)
(* The tools that exist (app/core/registration.py) and the rules that      *)
(* decide whether one may run (app/core/safety.py, and the validation of   *)
(* app/core/tool_registry.py).  Every other module names tools by strings  *)
(* of its own, and so does an AI.                                          *)
(*                                                                         *)
(* Arguments are the set of their names; the ones the program gives have   *)
(* the declared types.                                                     *)
(***************************************************************************)

(* register_diagnostics *)
DIAGNOSTICS ==
    {"get_system_info", "get_windows_version", "get_boot_time",
     "get_cpu_usage", "get_memory_usage", "get_memory_details", "get_disk_activity",
     "get_running_processes", "get_top_cpu_processes", "get_top_memory_processes",
     "get_unresponsive_apps", "get_startup_apps",
     "get_network_adapters", "get_ip_configuration", "ping_gateway", "test_dns",
     "test_internet", "get_network_profile",
     "get_important_services", "get_windows_update_status",
     "get_network_services_status", "get_search_indexer_status",
     "get_recent_updates", "get_pending_reboot",
     "get_problem_devices", "get_bluetooth_devices", "get_driver_information",
     "get_gpu_info", "get_gpu_usage", "get_display_driver_errors",
     "get_recent_system_errors", "get_recent_application_errors",
     "get_recent_application_crashes",
     "get_disk_usage", "get_disk_partitions", "get_disk_free_space",
     "get_reclaimable_space"}

(* register_remediations: the fixes for which the user has to be asked for  *)
(* administrator rights, and the others.                                    *)
RequiresAdmin ==
    {"restart_network_adapter", "reset_winsock", "restart_wlan_service",
     "restart_windows_update_service", "restart_bits_service", "restart_print_spooler",
     "restart_windows_search", "restart_bluetooth_service", "restart_audio_service",
     "clear_windows_update_cache_if_safe"}

REMEDIATIONS ==
    RequiresAdmin \cup
    {"flush_dns", "renew_ip_configuration", "release_ip_configuration",
     "clear_safe_temp_files", "empty_recycle_bin", "restart_explorer",
     "terminate_unresponsive_application"}

required(tool) ==
    CASE tool = "restart_network_adapter"            -> {"adapter_name"}
      [] tool = "terminate_unresponsive_application" -> {"pid"}
      [] OTHER                                       -> {}

declared(tool) ==
    required(tool) \cup
    (IF tool \in {"get_top_cpu_processes", "get_top_memory_processes"} THEN {"limit"} ELSE {})

has(tool) == tool \in DIAGNOSTICS \cup REMEDIATIONS

is_read_only(tool) == tool \in DIAGNOSTICS

validate_arguments(tool, arguments) ==
    required(tool) \subseteq arguments /\ arguments \subseteq declared(tool)

(* A name with the look of a command is no registered one. *)
validate_tool_selection(tool, arguments) ==
    has(tool) /\ validate_arguments(tool, arguments)

validate_remediation(tool, arguments, approved) ==
    /\ validate_tool_selection(tool, arguments)
    /\ ~is_read_only(tool)
    /\ approved

(* What a plan, a follow-up and the diagnostic engine let pass: a check     *)
(* that needs no arguments.                                                 *)
AcceptedCheck(tool) == validate_tool_selection(tool, {}) /\ is_read_only(tool)
===============================================================================
