------------------------------ MODULE MCPipeline ------------------------------
(***************************************************************************)
(* The faults a PC may have in the run of Pipeline, and what an AI asks    *)
(* for: checks of other categories, a fix, an unknown name, a check twice. *)
(***************************************************************************)
EXTENDS Pipeline

MCFaults ==
    {<<"memory", 70>>, <<"memory", 85>>, <<"cpu", 60>>, <<"cpu", 85>>,
     <<"free", 10>>, <<"free", 4>>, <<"free", 0>>, <<"temp", 500>>, <<"recycle", 500>>,
     <<"indexer", "large">>, <<"indexer", "stuck">>, <<"app", 1536>>, <<"hung", TRUE>>,
     <<"crashes", 3>>, <<"startup", 12>>, <<"uptime", 7>>, <<"errors", 5>>,
     <<"reboot", TRUE>>, <<"devices", 1>>, <<"bluetooth", "problem">>,
     <<"bluetooth", "missing">>, <<"adapters", 0>>, <<"adapters", 2>>,
     <<"gateway", "silent">>, <<"gateway", "none">>, <<"dns", FALSE>>,
     <<"internet", FALSE>>, <<"gpu", "basic">>, <<"gpu", "faulty">>, <<"gpu", "old">>,
     <<"gpu_load", 85>>, <<"gpu_app", 25>>, <<"resets", 1>>, <<"resets", 3>>}
    \cup ({"WSearch", "wuauserv", "Spooler", "Audiosrv", "bthserv", "WlanSvc"}
            \X {"stopped", "disabled", "closing"})
    \cup ({"wuauserv", "bits", "Spooler", "WlanSvc"} \X {"idle"})
    \cup {<<"AudioEndpointBuilder", "stopped">>, <<"bits", "closing">>,
          <<"Dnscache", "stopped">>, <<"Spooler", "missing">>}

MCAnswers ==
    {<<"get_memory_usage", "flush_dns", "format_drive", "get_disk_usage">>,
     <<"get_network_adapters", "ping_gateway", "test_dns", "ping_gateway">>,
     <<"get_disk_free_space", "get_reclaimable_space", "get_gpu_info",
       "get_gpu_usage", "get_important_services", "get_search_indexer_status">>}
===============================================================================
