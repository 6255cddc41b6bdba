---------------------------- MODULE PipelineProofs ----------------------------
(***************************************************************************)
(* The properties of Pipeline, for every PC, every fault and every answer  *)
(* of an AI.                                                               *)
(***************************************************************************)
EXTENDS Pipeline, KnowledgeProofs, SequenceTheorems

-----------------------------------------------------------------------------
(* What is picked from a list                                              *)

(* A nonempty set of positions has a greatest one. *)
LEMMA Greatest ==
    ASSUME NEW len \in Nat, NEW S, S \subseteq 1 .. len, S # {}
    PROVE  \E m \in S : \A k \in S : k <= m
<1> DEFINE T == {len - k : k \in S}
<1>1. T \subseteq Nat /\ T # {}
  <2>1. \A k \in S : len - k \in Nat
    OBVIOUS
  <2> QED
    BY <2>1
<1>2. PICK t \in T : \A u \in T : t <= u
  BY <1>1, Smallest
<1>3. PICK m \in S : t = len - m
  OBVIOUS
<1>4. ASSUME NEW k \in S PROVE k <= m
  <2>1. len - m <= len - k
    BY <1>2, <1>3
  <2> QED
    BY <2>1
<1> QED
  BY <1>4

(* FirstOf picks no more names than it is told to, all from the list and    *)
(* among the tools.                                                         *)
LEMMA FirstOfFacts ==
    ASSUME NEW S, NEW list \in Seq(S), NEW tools, NEW n \in Int
    PROVE  /\ FirstOf(list, tools, n) \subseteq tools \cap Range(list)
           /\ IsFiniteSet(FirstOf(list, tools, n))
           /\ n >= 0 => Cardinality(FirstOf(list, tools, n)) <= n
           /\ n <= 0 => FirstOf(list, tools, n) = {}
<1> DEFINE kept == {i \in DOMAIN list : /\ list[i] \in tools
                                        /\ \A j \in 1 .. i - 1 : list[j] # list[i]}
           before(i) == {j \in kept : j < i}
           I == {i \in kept : Cardinality(before(i)) < n}
           f == [i \in I |-> list[i]]
           picked == FirstOf(list, tools, n)
<1>1. picked = {list[i] : i \in I}
  BY DEF FirstOf
<1>2. DOMAIN list = 1 .. Len(list) /\ Len(list) \in Nat
  OBVIOUS
<1>3. kept \subseteq 1 .. Len(list) /\ I \subseteq kept
  BY <1>2
<1>4. IsFiniteSet(1 .. Len(list))
  BY <1>2, FS_Interval
<1>5. IsFiniteSet(kept) /\ IsFiniteSet(I) /\ \A i : IsFiniteSet(before(i))
  <2>1. \A i : before(i) \subseteq 1 .. Len(list)
    BY <1>3
  <2>2. \A T : T \subseteq 1 .. Len(list) => IsFiniteSet(T)
    BY <1>4, FS_Subset
  <2> HIDE DEF before, I, kept
  <2> QED
    BY <1>3, <2>1, <2>2
<1>6. picked \subseteq tools \cap Range(list)
  BY <1>1 DEF Range
<1>7. IsFiniteSet(picked) /\ Cardinality(picked) <= Cardinality(I)
  <2>1. f \in Surjection(I, picked)
    BY <1>1 DEF Surjection
  <2> HIDE DEF f, I, picked
  <2> QED
    BY <1>5, <2>1, FS_Surjection
<1>8. \A i : Cardinality(before(i)) \in Nat
  BY <1>5, FS_CardinalityType
<1>9. n <= 0 => I = {}
  <2>1. \A i : n <= 0 => ~(Cardinality(before(i)) < n)
    <3> HIDE DEF before
    <3> QED
      BY <1>8
  <2> QED
    BY <2>1
<1>10. ASSUME n >= 0 PROVE Cardinality(I) <= n
  <2>1. CASE I = {}
    BY <2>1, <1>10, FS_EmptySet
  <2>2. CASE I # {}
    <3>1. I \subseteq 1 .. Len(list)
      BY <1>3
    <3> HIDE DEF I
    <3>2. PICK m \in I : \A k \in I : k <= m
      BY <1>2, <2>2, <3>1, Greatest
    <3>3. I \subseteq before(m) \cup {m}
      <4>1. \A k \in I : k \in Nat /\ k \in kept
        BY <1>3, <3>1
      <4>2. m \in Nat
        BY <4>1
      <4> QED
        BY <3>2, <4>1, <4>2
    <3>4. Cardinality(before(m)) < n
      BY <3>2 DEF I
    <3> HIDE DEF before
    <3>5. /\ IsFiniteSet(before(m) \cup {m})
          /\ Cardinality(before(m) \cup {m}) <= Cardinality(before(m)) + 1
      <4>1. IsFiniteSet(before(m)) /\ Cardinality(before(m)) \in Nat
        BY <1>5, <1>8
      <4> DEFINE b == before(m)
      <4>2. IsFiniteSet(b) /\ Cardinality(b) \in Nat
        BY <4>1
      <4> HIDE DEF b
      <4>3. IsFiniteSet(b \cup {m}) /\ Cardinality(b \cup {m}) <= Cardinality(b) + 1
        <5>1. /\ IsFiniteSet(b \cup {m})
              /\ Cardinality(b \cup {m}) = IF m \in b THEN Cardinality(b) ELSE Cardinality(b) + 1
          BY <4>2, FS_AddElement, Zenon
        <5> QED
          BY <4>2, <5>1
      <4> QED
        BY <4>3 DEF b
    <3>6. Cardinality(I) <= Cardinality(before(m) \cup {m})
      BY <3>3, <3>5, FS_Subset
    <3>7. Cardinality(I) \in Nat /\ Cardinality(before(m) \cup {m}) \in Nat
      BY <1>5, <3>5, FS_CardinalityType
    <3> QED
      BY <3>4, <3>5, <3>6, <3>7, <1>8
  <2> QED
    BY <2>1, <2>2
<1>11. n <= 0 => picked = {}
  BY <1>1, <1>9
<1>12. n >= 0 => Cardinality(picked) <= n
  <2>1. Cardinality(I) \in Nat /\ Cardinality(picked) \in Nat
    BY <1>5, <1>7, FS_CardinalityType
  <2> HIDE DEF I, picked
  <2> QED
    BY <1>7, <1>10, <2>1
<1> QED
  BY <1>6, <1>7, <1>11, <1>12

(* The first n names of a list are picked, when they are among the tools.   *)
LEMMA FirstOfHas ==
    ASSUME NEW S, NEW list \in Seq(S), NEW tools, NEW n \in Nat,
           NEW i \in DOMAIN list, i <= n, list[i] \in tools
    PROVE  list[i] \in FirstOf(list, tools, n)
<1> DEFINE kept == {k \in DOMAIN list : /\ list[k] \in tools
                                        /\ \A j \in 1 .. k - 1 : list[j] # list[k]}
           before(k) == {j \in kept : j < k}
           Same == {k \in DOMAIN list : list[k] = list[i]}
<1>1. DOMAIN list = 1 .. Len(list) /\ Len(list) \in Nat
  OBVIOUS
<1>2. Same \subseteq Nat /\ Same # {}
  BY <1>1
<1>3. PICK k \in Same : \A j \in Same : k <= j
  BY <1>2, Smallest
<1>4. k \in 1 .. n /\ k \in DOMAIN list /\ list[k] = list[i]
  BY <1>1, <1>3
<1>5. k \in kept
  <2>1. ASSUME NEW j \in 1 .. k - 1, list[j] = list[k] PROVE FALSE
    <3>1. j \in Same
      BY <1>1, <1>4, <2>1
    <3> QED
      BY <3>1, <1>3, <1>4
  <2> QED
    BY <1>4, <2>1
<1>6. Cardinality(before(k)) < n
  <2>1. before(k) \in SUBSET (1 .. k - 1)
    BY <1>1, <1>4
  <2>2. IsFiniteSet(1 .. k - 1) /\ Cardinality(1 .. k - 1) = k - 1
    <3>1. k - 1 \in Int /\ 1 \in Int /\ (IF 1 > k - 1 THEN 0 ELSE (k - 1) - 1 + 1) = k - 1
      BY <1>4
    <3> QED
      BY <3>1, FS_Interval
  <2> HIDE DEF before
  <2>3. Cardinality(before(k)) <= k - 1 /\ IsFiniteSet(before(k))
    BY <2>1, <2>2, FS_Subset
  <2>4. Cardinality(before(k)) \in Nat
    BY <2>3, FS_CardinalityType
  <2> QED
    BY <2>3, <2>4, <1>4
<1>7. list[k] \in FirstOf(list, tools, n)
  BY <1>5, <1>6 DEF FirstOf
<1> QED
  BY <1>4, <1>7

-----------------------------------------------------------------------------
(* The lists of checks                                                     *)

(* The names the categories use are names of checks. *)
LEMMA CheckNames ==
    /\ "get_boot_time" \in DIAGNOSTICS /\ "get_cpu_usage" \in DIAGNOSTICS
    /\ "get_memory_usage" \in DIAGNOSTICS /\ "get_memory_details" \in DIAGNOSTICS
    /\ "get_disk_activity" \in DIAGNOSTICS /\ "get_running_processes" \in DIAGNOSTICS
    /\ "get_top_cpu_processes" \in DIAGNOSTICS /\ "get_unresponsive_apps" \in DIAGNOSTICS
    /\ "get_startup_apps" \in DIAGNOSTICS /\ "get_network_adapters" \in DIAGNOSTICS
    /\ "get_ip_configuration" \in DIAGNOSTICS /\ "ping_gateway" \in DIAGNOSTICS
    /\ "test_dns" \in DIAGNOSTICS /\ "test_internet" \in DIAGNOSTICS
    /\ "get_network_profile" \in DIAGNOSTICS /\ "get_important_services" \in DIAGNOSTICS
    /\ "get_windows_update_status" \in DIAGNOSTICS
    /\ "get_network_services_status" \in DIAGNOSTICS
    /\ "get_search_indexer_status" \in DIAGNOSTICS /\ "get_recent_updates" \in DIAGNOSTICS
    /\ "get_pending_reboot" \in DIAGNOSTICS /\ "get_problem_devices" \in DIAGNOSTICS
    /\ "get_bluetooth_devices" \in DIAGNOSTICS /\ "get_driver_information" \in DIAGNOSTICS
    /\ "get_gpu_info" \in DIAGNOSTICS /\ "get_gpu_usage" \in DIAGNOSTICS
    /\ "get_display_driver_errors" \in DIAGNOSTICS
    /\ "get_recent_system_errors" \in DIAGNOSTICS
    /\ "get_recent_application_errors" \in DIAGNOSTICS
    /\ "get_recent_application_crashes" \in DIAGNOSTICS
    /\ "get_disk_usage" \in DIAGNOSTICS /\ "get_disk_partitions" \in DIAGNOSTICS
    /\ "get_disk_free_space" \in DIAGNOSTICS /\ "get_reclaimable_space" \in DIAGNOSTICS
BY DEF DIAGNOSTICS

(* The table of categories, entry by entry. *)
LEMMA CategoryTable ==
    /\ get_category_spec("unknown") = CategorySpec(<<>>, <<>>, {}, NoFix)
    /\ get_category_spec("slow_computer") = SlowComputer
    /\ get_category_spec("high_cpu") = HighCpu
    /\ get_category_spec("high_memory") = HighMemory
    /\ get_category_spec("low_disk_space") = LowDiskSpace
    /\ get_category_spec("internet_down") = InternetDown
    /\ get_category_spec("wifi_disconnecting") = WifiDisconnecting
    /\ get_category_spec("dns_problems") = DnsProblems
    /\ get_category_spec("windows_update") = WindowsUpdate
    /\ get_category_spec("bluetooth") = Bluetooth
    /\ get_category_spec("audio") = Audio
    /\ get_category_spec("printer") = Printer
    /\ get_category_spec("app_crashes") = AppCrashes
    /\ get_category_spec("startup_problems") = StartupProblems
    /\ get_category_spec("device_driver") = DeviceDriver
    /\ get_category_spec("windows_search") = WindowsSearch
    /\ get_category_spec("graphics") = Graphics
    /\ Categories = {"slow_computer", "high_cpu", "high_memory", "low_disk_space",
                      "internet_down", "wifi_disconnecting", "dns_problems", "windows_update",
                      "bluetooth", "audio", "printer", "app_crashes", "startup_problems",
                      "device_driver", "windows_search", "graphics", "unknown"}
BY DEF CATEGORIES, Categories, get_category_spec

(* Every list of a category is a list of checks. *)
LEMMA CategoryLists ==
    ASSUME NEW cat \in Categories
    PROVE  /\ get_category_spec(cat).checks \in Seq(DIAGNOSTICS)
           /\ get_category_spec(cat).thorough \in Seq(DIAGNOSTICS)
<1> DEFINE Good(spec) == /\ spec.checks \in Seq(DIAGNOSTICS)
                         /\ spec.thorough \in Seq(DIAGNOSTICS)
<1>1. Good(SlowComputer)
  BY CheckNames DEF SlowComputer, CategorySpec, PERF, PERF_DEEP
<1>2. Good(HighCpu)
  BY CheckNames DEF HighCpu, CategorySpec
<1>3. Good(HighMemory)
  BY CheckNames DEF HighMemory, CategorySpec
<1>4. Good(LowDiskSpace)
  BY CheckNames DEF LowDiskSpace, CategorySpec
<1>5. Good(InternetDown)
  BY CheckNames DEF InternetDown, CategorySpec, NET
<1>6. Good(WifiDisconnecting)
  BY CheckNames DEF WifiDisconnecting, CategorySpec, NET
<1>7. Good(DnsProblems)
  BY CheckNames DEF DnsProblems, CategorySpec
<1>8. Good(WindowsUpdate)
  BY CheckNames DEF WindowsUpdate, CategorySpec
<1>9. Good(Bluetooth)
  BY CheckNames DEF Bluetooth, CategorySpec
<1>10. Good(Audio)
  BY CheckNames DEF Audio, CategorySpec
<1>11. Good(Printer)
  BY CheckNames DEF Printer, CategorySpec
<1>12. Good(AppCrashes)
  BY CheckNames DEF AppCrashes, CategorySpec
<1>13. Good(StartupProblems)
  BY CheckNames DEF StartupProblems, CategorySpec
<1>14. Good(DeviceDriver)
  BY CheckNames DEF DeviceDriver, CategorySpec
<1>15. Good(WindowsSearch)
  BY CheckNames DEF WindowsSearch, CategorySpec
<1>16. Good(Graphics)
  BY CheckNames DEF Graphics, CategorySpec
<1>17. Good(CategorySpec(<<>>, <<>>, {}, NoFix))
  BY DEF CategorySpec
<1> HIDE DEF Good
<1>18. Good(get_category_spec(cat))
  BY <1>1, <1>2, <1>3, <1>4, <1>5, <1>6, <1>7, <1>8, <1>9, <1>10, <1>11, <1>12, <1>13, <1>14, <1>15, <1>16, <1>17, CategoryTable
<1> QED
  BY <1>18 DEF Good

(* A name that is accepted is the one of a check. *)
LEMMA AcceptedAreChecks == Accepted \subseteq DIAGNOSTICS
BY DEF Accepted, AcceptedCheck, is_read_only

(* The greater of two numbers. *)
LEMMA MaxOfTwo == \A i, j \in Int : Max({i, j}) = IF i >= j THEN i ELSE j
<1> SUFFICES ASSUME NEW i \in Int, NEW j \in Int
             PROVE  Max({i, j}) = IF i >= j THEN i ELSE j
  OBVIOUS
<1> DEFINE m == IF i >= j THEN i ELSE j
<1>1. m \in {i, j} /\ \A k \in {i, j} : m >= k
  OBVIOUS
<1>2. \A k \in {i, j} : (\A l \in {i, j} : k >= l) => k = m
  OBVIOUS
<1> HIDE DEF m
<1> QED
  BY <1>1, <1>2 DEF Max

(* What may be asked for: the names of checks, and others. *)
Names == STRING \cup DIAGNOSTICS

(* What may be listed for a category is a list of names. *)
LEMMA ListedNames ==
    ASSUME NEW cat \in Categories, NEW dep, NEW asked \in Seq(STRING)
    PROVE  Listed(cat, dep, asked) \in Seq(Names)
<1> DEFINE checks == get_category_spec(cat).checks
           more   == IF dep = "thorough" THEN get_category_spec(cat).thorough ELSE <<>>
<1>1. asked \in Seq(Names)
  BY SeqMonotonic DEF Names
<1>2. \A list \in Seq(DIAGNOSTICS) : list \in Seq(Names)
  BY SeqMonotonic DEF Names
<1>3. checks \in Seq(Names) /\ more \in Seq(Names)
  BY <1>2, CategoryLists
<1>4. Listed(cat, dep, asked) = asked \o checks \o more
  BY DEF Listed
<1> HIDE DEF checks, more
<1>5. asked \o checks \in Seq(Names)
  BY <1>1, <1>3, ConcatProperties
<1> QED
  BY <1>3, <1>4, <1>5, ConcatProperties

(* A plan holds accepted checks only, and no more than the limit. *)
LEMMA PlanFacts ==
    ASSUME NEW cat \in Categories, NEW dep, NEW asked \in Seq(STRING),
           NEW limit \in Nat, limit <= MaxSteps
    PROVE  /\ Plan(cat, dep, asked, limit) \subseteq Accepted
           /\ IsFiniteSet(Plan(cat, dep, asked, limit))
           /\ Cardinality(Plan(cat, dep, asked, limit)) <= MaxSteps
<1> DEFINE listed == Listed(cat, dep, asked)
           list == IF Range(listed) \cap Accepted = {} THEN GENERAL_TOOLS ELSE listed
           n    == IF dep = "quick" THEN Min({4, MaxSteps}) ELSE limit
<1>1. GENERAL_TOOLS \in Seq(Names)
  BY CheckNames DEF GENERAL_TOOLS, Names
<1>2. list \in Seq(Names)
  BY <1>1, ListedNames
<1>3. n \in Nat /\ n <= MaxSteps /\ MaxSteps \in Nat
  BY MinOfTwo, PipelineAssumption
<1>4. Plan(cat, dep, asked, limit) = FirstOf(list, Accepted, n)
  BY DEF Plan
<1> HIDE DEF list, n
<1>5. /\ FirstOf(list, Accepted, n) \subseteq Accepted
      /\ IsFiniteSet(FirstOf(list, Accepted, n))
      /\ Cardinality(FirstOf(list, Accepted, n)) <= n
  BY <1>2, <1>3, FirstOfFacts
<1>6. Cardinality(FirstOf(list, Accepted, n)) \in Nat
  BY <1>5, FS_CardinalityType
<1> QED
  BY <1>3, <1>4, <1>5, <1>6

(* The checks that the rules ask for are a list of names. *)
LEMMA WantedNames ==
    ASSUME NEW cat, NEW r
    PROVE  Wanted(cat, r) \in Seq(Names)
<1> DEFINE if(condition, tools) == IF condition THEN tools ELSE <<>>
           memory  == <<"get_search_indexer_status", "get_unresponsive_apps", "get_memory_details">>
           cpu     == <<"get_top_cpu_processes", "get_search_indexer_status">>
           disk    == <<"get_reclaimable_space">>
           gateway == <<"get_ip_configuration", "get_network_profile">>
           dns     == <<"get_network_services_status">>
           update  == <<"test_internet">>
<1>1. /\ memory \in Seq(Names) /\ cpu \in Seq(Names) /\ disk \in Seq(Names)
      /\ gateway \in Seq(Names) /\ dns \in Seq(Names) /\ update \in Seq(Names)
  BY CheckNames DEF Names
<1>3. \A s, t \in Seq(Names) : s \o t \in Seq(Names)
  BY ConcatProperties
<1> DEFINE a == if(\E m \in Memory(r) : m >= 70, memory)
           b == if(\E c \in Cpu(r) : c >= 60, cpu)
           c == if(\E d \in Disk(r) : d.low, disk)
           d == if(\E g \in Gateway(r) : ~g.reachable, gateway)
           e == if(FALSE \in DnsWorking(r), dns)
           f == if(cat = "windows_update", update)
<1>4. Wanted(cat, r) = a \o b \o c \o d \o e \o f
  BY DEF Wanted
<1>5. /\ a \in Seq(Names) /\ b \in Seq(Names) /\ c \in Seq(Names)
      /\ d \in Seq(Names) /\ e \in Seq(Names) /\ f \in Seq(Names)
  <2>1. <<>> \in Seq(Names)
    OBVIOUS
  <2> HIDE DEF memory, cpu, disk, gateway, dns, update
  <2>2. a \in Seq(Names)
    BY <1>1, <2>1, Zenon
  <2>3. b \in Seq(Names)
    BY <1>1, <2>1, Zenon
  <2>4. c \in Seq(Names)
    BY <1>1, <2>1, Zenon
  <2>5. d \in Seq(Names)
    BY <1>1, <2>1, Zenon
  <2>6. e \in Seq(Names) /\ f \in Seq(Names)
    BY <1>1, <2>1, Zenon
  <2> QED
    BY <2>2, <2>3, <2>4, <2>5, <2>6
<1> HIDE DEF a, b, c, d, e, f
<1>6. a \o b \in Seq(Names)
  BY <1>3, <1>5
<1>7. a \o b \o c \in Seq(Names)
  BY <1>3, <1>5, <1>6
<1>8. a \o b \o c \o d \in Seq(Names)
  BY <1>3, <1>5, <1>7
<1>9. a \o b \o c \o d \o e \in Seq(Names)
  BY <1>3, <1>5, <1>8
<1> QED
  BY <1>3, <1>4, <1>5, <1>9

(* A round of follow-ups keeps within the steps of a session. *)
LEMMA FollowUpFacts ==
    ASSUME NEW requested \in Seq(Names), NEW done, IsFiniteSet(done),
           Cardinality(done) <= MaxSteps
    PROVE  /\ FollowUps(requested, done) \subseteq Accepted
           /\ IsFiniteSet(FollowUps(requested, done))
           /\ Cardinality(done \cup FollowUps(requested, done)) <= MaxSteps
<1> DEFINE left  == MaxSteps - Cardinality(done)
           n     == Min({3, left})
           tools == FirstOf(requested, Accepted \ done, n)
<1>1. Cardinality(done) \in Nat /\ MaxSteps \in Nat /\ left \in Nat
  BY PipelineAssumption, FS_CardinalityType
<1>2. n \in Nat /\ n <= left
  BY <1>1, MinOfTwo
<1>3. FollowUps(requested, done) = tools
  BY DEF FollowUps
<1> HIDE DEF n
<1>4. /\ tools \subseteq Accepted \ done /\ IsFiniteSet(tools) /\ Cardinality(tools) <= n
  BY <1>2, FirstOfFacts
<1> HIDE DEF tools
<1>5. Cardinality(tools) \in Nat /\ Cardinality(done \cap tools) \in Nat
  BY <1>4, FS_CardinalityType, FS_Intersection
<1>6. Cardinality(done \cup tools) = Cardinality(done) + Cardinality(tools)
                                     - Cardinality(done \cap tools)
  BY <1>4, FS_Union
<1> QED
  BY <1>1, <1>2, <1>3, <1>4, <1>5, <1>6

-----------------------------------------------------------------------------
(* What a fix leaves behind                                                *)

(* The PC that the faults are put into is a PC. *)
LEMMA HealthyIsPC == IsPC(HealthyPC)
<1>1. DOMAIN HealthyPC = DOMAIN HealthyParts \cup Services
  BY DEF HealthyPC
<1>2. ASSUME NEW f \in Services PROVE HealthyPC[f] \in Values(f)
  <2>1. HealthyPC[f] = "running"
    BY <1>1 DEF HealthyPC
  <2>2. Values(f) = ServiceStates
    BY DEF Values, Services
  <2> QED
    BY <2>1, <2>2 DEF ServiceStates
<1>3. ASSUME NEW f \in DOMAIN HealthyParts, f \notin Services PROVE HealthyPC[f] \in Values(f)
  <2>1. HealthyPC[f] = HealthyParts[f]
    BY <1>1, <1>3 DEF HealthyPC
  <2>2. f \in {"memory", "cpu", "free", "temp", "recycle", "indexer", "app", "hung",
                "crashes", "startup", "uptime", "errors", "reboot", "devices", "bluetooth",
                "adapters", "gateway", "dns", "internet", "gpu", "gpu_load", "gpu_app",
                "resets"}
    BY <1>3 DEF HealthyParts
  <2>3. f \in {"memory", "cpu", "free"} => HealthyParts[f] \in Values(f)
    BY <1>3 DEF HealthyParts, Values
  <2>4. f \in {"indexer", "bluetooth", "gateway", "gpu"} => HealthyParts[f] \in Values(f)
    BY <1>3 DEF HealthyParts, Values
  <2>5. f \in {"hung", "reboot", "dns", "internet"} => HealthyParts[f] \in Values(f)
    <3>1. /\ HealthyParts.hung \in BOOLEAN /\ HealthyParts.reboot \in BOOLEAN
          /\ HealthyParts.dns \in BOOLEAN /\ HealthyParts.internet \in BOOLEAN
      BY DEF HealthyParts
    <3>2. f \in {"hung", "reboot", "dns", "internet"} => Values(f) = BOOLEAN
      BY <1>3 DEF Values
    <3> QED
      BY <3>1, <3>2
  <2>6. f \in {"temp", "recycle", "app", "crashes", "startup", "uptime", "errors", "devices",
               "adapters", "gpu_load", "gpu_app", "resets"} => HealthyParts[f] \in Values(f)
    BY <1>3 DEF HealthyParts, Values
  <2> QED
    BY <2>1, <2>2, <2>3, <2>4, <2>5, <2>6
<1>4. HealthyPC = [f \in DOMAIN HealthyPC |-> HealthyPC[f]]
  BY DEF HealthyPC
<1> QED
  BY <1>1, <1>2, <1>3, <1>4 DEF IsPC

(* A PC is still one when some of its fields take other values of theirs.   *)
LEMMA ChangedPC ==
    ASSUME NEW p, IsPC(p), NEW q, q = [f \in DOMAIN p |-> q[f]],
           \A f \in DOMAIN p : q[f] \in {p[f], HealthyPC[f]} \/ q[f] \in Values(f)
    PROVE  IsPC(q)
<1>1. DOMAIN p = DOMAIN HealthyPC
  BY DEF IsPC
<1>2. \A f \in DOMAIN HealthyPC : q[f] \in Values(f)
  BY <1>1, HealthyIsPC DEF IsPC
<1> QED
  BY <1>1, <1>2 DEF IsPC

(* A cure leaves a PC. *)
LEMMA CuredPC ==
    ASSUME NEW p, IsPC(p), NEW fields, NEW q \in Cured(fields, p)
    PROVE  IsPC(q)
<1>1. PICK cured : q = [f \in DOMAIN p |-> IF f \in cured THEN HealthyPC[f] ELSE p[f]]
  BY DEF Cured
<1>2. q = [f \in DOMAIN p |-> q[f]] /\ \A f \in DOMAIN p : q[f] \in {p[f], HealthyPC[f]}
  BY <1>1
<1> QED
  BY <1>2, ChangedPC

(* The fixes that some rule or category proposes. *)
Proposable ==
    DOMAIN ServiceOf \cup {"flush_dns", "renew_ip_configuration", "restart_network_adapter",
                           "clear_safe_temp_files", "empty_recycle_bin"}

(* What carrying out a fix leaves: a PC, and whether the tool said it       *)
(* succeeded.                                                               *)
IsOutcome(o) == IsPC(o.pc) /\ o.success \in BOOLEAN

(* Outcomes over PCs are outcomes. *)
LEMMA OutcomeFacts ==
    \A pcs : (\A q \in pcs : IsPC(q)) =>
       \A o \in Done(pcs) \cup Failed(pcs) : IsOutcome(o)
<1> SUFFICES ASSUME NEW pcs, \A q \in pcs : IsPC(q), NEW o \in Done(pcs) \cup Failed(pcs)
             PROVE  IsOutcome(o)
  OBVIOUS
<1>1. PICK q \in pcs : o = Outcome(TRUE, q) \/ o = Outcome(FALSE, q)
  BY DEF Done, Failed
<1>2. IsPC(q) /\ o.pc = q /\ (o.success = TRUE \/ o.success = FALSE)
  BY <1>1 DEF Outcome
<1> QED
  BY <1>2 DEF IsOutcome

(* Restarting a service leaves an outcome. *)
LEMMA RestartedPC ==
    ASSUME NEW p, IsPC(p), NEW name \in Services, NEW benefits,
           NEW o \in restart_service(name, benefits, p)
    PROVE  IsOutcome(o)
<1>1. name \in DOMAIN p /\ Values(name) = ServiceStates
  BY DEF IsPC, HealthyPC, Values, Services
<1> DEFINE q == [p EXCEPT ![name] = "stopped"]
<1>2. IsPC(q)
  <2>1. \A f \in DOMAIN p : q[f] = p[f] \/ (f = name /\ q[f] = "stopped")
    OBVIOUS
  <2>2. "stopped" \in Values(name)
    BY <1>1 DEF ServiceStates
  <2>3. q = [f \in DOMAIN p |-> q[f]]
    OBVIOUS
  <2> HIDE DEF q
  <2> QED
    BY <2>1, <2>2, <2>3, ChangedPC
<1> HIDE DEF q
<1>3. \/ o \in Failed({p})
      \/ o \in Done(Cured({name} \cup benefits, p))
      \/ o \in Failed({p, q})
  BY DEF restart_service, q
<1> QED
  BY <1>2, <1>3, OutcomeFacts, CuredPC

(* So does every tool that some rule proposes. *)
LEMMA ExecutedPC ==
    ASSUME NEW p, IsPC(p), NEW fix \in Proposable, NEW o \in Executed(fix, p)
    PROVE  IsOutcome(o)
<1>1. CASE fix \in DOMAIN ServiceOf
  <2>1. ServiceOf[fix] \in Services
    BY <1>1 DEF ServiceOf, Services
  <2>2. Executed(fix, p) = restart_service(ServiceOf[fix], Benefits(fix), p)
    BY <1>1 DEF Executed, ServiceOf
  <2> QED
    BY <2>1, <2>2, RestartedPC
<1>2. CASE fix = "flush_dns"
  <2>1. o \in Done(Cured({"dns"}, p)) \/ o \in Failed({p})
    BY <1>2 DEF Executed, ServiceOf, flush_dns
  <2> QED
    BY <2>1, OutcomeFacts, CuredPC
<1>3. CASE fix = "renew_ip_configuration"
  <2>1. o \in Done(Cured({"gateway", "dns", "internet"}, p)) \/ o \in Failed({p})
    BY <1>3 DEF Executed, ServiceOf, renew_ip_configuration
  <2> QED
    BY <2>1, OutcomeFacts, CuredPC
<1>4. CASE fix = "restart_network_adapter"
  <2> DEFINE n == Max({0, p.adapters - 1})
             q == [p EXCEPT !.adapters = n]
  <2>1. \/ o \in Done(Cured({"adapters", "gateway", "dns", "internet"}, p))
        \/ o \in Failed({p, q})
    BY <1>4 DEF Executed, ServiceOf, restart_network_adapter
  <2>2. n \in Nat /\ Values("adapters") = Nat
    <3>1. p.adapters \in Nat
      BY PCFacts
    <3>2. Values("adapters") = Nat
      BY DEF Values, Services
    <3> QED
      BY <3>1, <3>2, MaxOfTwo
  <2> HIDE DEF n
  <2>3. IsPC(q)
    <3>1. \A f \in DOMAIN p : q[f] = p[f] \/ (f = "adapters" /\ q[f] = n)
      OBVIOUS
    <3>2. q = [f \in DOMAIN p |-> q[f]]
      OBVIOUS
    <3> HIDE DEF q
    <3> QED
      BY <2>2, <3>1, <3>2, ChangedPC
  <2> HIDE DEF q
  <2> QED
    BY <2>1, <2>3, OutcomeFacts, CuredPC
<1>5. CASE fix = "clear_safe_temp_files"
  <2>1. \/ o \in Done(Cured({"temp", "free"}, p))
        \/ o \in Failed(Cured({"temp", "free"}, p))
    BY <1>5 DEF Executed, ServiceOf, clear_safe_temp_files
  <2> QED
    BY <2>1, OutcomeFacts, CuredPC
<1>6. CASE fix = "empty_recycle_bin"
  <2>1. o \in Done(Cured({"recycle", "free"}, p)) \/ o \in Failed({p})
    BY <1>6 DEF Executed, ServiceOf, empty_recycle_bin
  <2> QED
    BY <2>1, OutcomeFacts, CuredPC
<1> QED
  BY <1>1, <1>2, <1>3, <1>4, <1>5, <1>6 DEF Proposable

(* Whatever a fix does, and however it fails, it leaves a PC behind. *)
LEMMA FixedPC ==
    ASSUME NEW p, IsPC(p), NEW fix \in Proposable, NEW o \in execute(fix, p)
    PROVE  IsOutcome(o)
<1>1. \/ o \in Executed(fix, p)
      \/ o \in Failed({p})
      \/ o \in Failed({x.pc : x \in Executed(fix, p)})
  BY DEF execute, run_elevated
<1>2. \A q \in {x.pc : x \in Executed(fix, p)} : IsPC(q)
  BY ExecutedPC DEF IsOutcome
<1>3. \A q \in {p} : IsPC(q)
  OBVIOUS
<1> QED
  BY <1>1, <1>2, <1>3, ExecutedPC, OutcomeFacts
-----------------------------------------------------------------------------
(* What is offered                                                         *)

(* A proposal that the safety layer does not refuse once the user agreed,   *)
(* of a fix that the program carries out, and, when it names a cause, for a *)
(* problem of the diagnosis.                                                *)
Offer(p, d) ==
    /\ p = Proposal(p.fix, p.parameters, p.cause)
    /\ p.fix \in Proposable
    /\ p.parameters \subseteq {"adapter_name"}
    /\ validate_remediation(p.fix, p.parameters, TRUE)
    /\ EvidenceBacked(p) =>
          \E c \in d.causes : IsProblem(c) /\ c.id = p.cause /\ c.fix = p.fix

(* Every fix that can be proposed is one of the catalog, and a fix.         *)
LEMMA ProposableFixes ==
    /\ Proposable \subseteq DOMAIN FIXES
    /\ Proposable \cap DIAGNOSTICS = {}
    /\ NoFix \notin Proposable /\ ~has(NoFix)
<1>1. Proposable = {"restart_windows_search", "restart_windows_update_service",
                    "restart_bits_service", "restart_print_spooler", "restart_audio_service",
                    "restart_bluetooth_service", "restart_wlan_service", "flush_dns",
                    "renew_ip_configuration", "restart_network_adapter",
                    "clear_safe_temp_files", "empty_recycle_bin"}
  BY DEF Proposable, ServiceOf
<1>2. Proposable \subseteq DOMAIN FIXES
  BY <1>1 DEF FIXES
<1>3. Proposable \cap DIAGNOSTICS = {}
  BY <1>1 DEF DIAGNOSTICS
<1>4. NoFix \notin Proposable
  BY <1>1 DEF NoFix
<1>5. ~has(NoFix)
  BY DEF has, NoFix, DIAGNOSTICS, REMEDIATIONS, RequiresAdmin
<1> QED
  BY <1>2, <1>3, <1>4, <1>5

(* The rules name fixes that can be proposed, or none. *)
LEMMA ProblemFixes ==
    ASSUME NEW r, NEW cat, NEW c \in analyze(cat, r).causes, IsProblem(c)
    PROVE  c.fix \in Proposable \cup {NoFix}
<1>1. PICK b \in Found(r, cat) : SameCause(c, b)
  BY CauseFound
<1>2. IsProblem(b) /\ c.fix = b.fix
  BY <1>1 DEF SameCause, IsProblem
<1>3. Described(b)
  BY <1>2, ProblemShown
<1>4. ASSUME NEW name \in ServiceNames
      PROVE  SERVICE_RULES[name].fix \in Proposable \cup {NoFix}
  BY DEF ServiceNames, ServiceOrder, SERVICE_RULES, Proposable, ServiceOf
<1>5. b.fix \in Proposable \cup {NoFix}
  BY <1>3, <1>4 DEF Described, Says, Proposable, ServiceOf
<1> QED
  BY <1>2, <1>5

(* So does every category. *)
LEMMA GeneralFixes ==
    ASSUME NEW cat \in Categories
    PROVE  get_category_spec(cat).general \in Proposable \cup {NoFix}
<1> DEFINE Good(spec) == spec.general \in Proposable \cup {NoFix}
<1> USE DEF CategorySpec, Proposable, ServiceOf
<1>1. Good(SlowComputer) /\ Good(HighCpu) /\ Good(HighMemory) /\ Good(LowDiskSpace)
  BY DEF SlowComputer, HighCpu, HighMemory, LowDiskSpace
<1>2. Good(InternetDown) /\ Good(WifiDisconnecting) /\ Good(DnsProblems) /\ Good(WindowsUpdate)
  BY DEF InternetDown, WifiDisconnecting, DnsProblems, WindowsUpdate
<1>3. Good(Bluetooth) /\ Good(Audio) /\ Good(Printer) /\ Good(AppCrashes)
  BY DEF Bluetooth, Audio, Printer, AppCrashes
<1>4. Good(StartupProblems) /\ Good(DeviceDriver) /\ Good(WindowsSearch) /\ Good(Graphics)
  BY DEF StartupProblems, DeviceDriver, WindowsSearch, Graphics
<1>5. Good(CategorySpec(<<>>, <<>>, {}, NoFix))
  OBVIOUS
<1> HIDE DEF Good, CategorySpec, Proposable, ServiceOf
<1>6. Good(get_category_spec(cat))
  BY <1>1, <1>2, <1>3, <1>4, <1>5, CategoryTable
<1> QED
  BY <1>6 DEF Good

(* Whatever is proposed on a diagnosis is an offer. *)
LEMMA OfferFacts ==
    ASSUME NEW r, Reported(r), NEW cat \in Categories, NEW q, NEW exclude,
           NEW p \in propose(analyze(cat, r), q, exclude)
    PROVE  Offer(p, analyze(cat, r))
<1> DEFINE d == analyze(cat, r)
           spec == get_category_spec(cat)
           offered == {c \in d.causes : /\ c.fix \in spec.fixes \ exclude
                                        /\ IsProblem(c)
                                        /\ Buildable(c.fix, cat, q)}
           build(f, cause) == Proposal(f, _resolve_parameters(f, cat, q), cause)
           backed == {build(f, First({c \in offered : c.fix = f}).id) :
                        f \in {c.fix : c \in offered}}
           general == {f \in {spec.general} \ exclude : Buildable(f, cat, q)}
<1>1. d.category = cat
  BY AnalyzeFacts
<1>2. p \in backed \/ p \in {build(f, NoCause) : f \in general}
  <2>1. propose(d, q, exclude) = IF backed = {} /\ d.level = OK
                                 THEN {build(f, NoCause) : f \in general} ELSE backed
    BY <1>1 DEF propose
  <2> HIDE DEF backed, general, build, d
  <2> QED
    BY <2>1 DEF d
<1>3. ASSUME NEW f \in Proposable, NEW cause, Buildable(f, cat, q), p = build(f, cause),
             cause # NoCause => \E c \in d.causes : IsProblem(c) /\ c.id = cause /\ c.fix = f
      PROVE  Offer(p, d)
  <2>1. /\ p = Proposal(p.fix, p.parameters, p.cause)
        /\ p.fix = f /\ p.cause = cause /\ p.parameters = _resolve_parameters(f, cat, q)
    BY <1>3 DEF Proposal
  <2>2. p.parameters \subseteq {"adapter_name"}
    BY <2>1 DEF _resolve_parameters
  <2>3. validate_remediation(f, p.parameters, TRUE)
    BY <1>3, <2>1, ProposableFixes
       DEF Buildable, validate_remediation, validate_tool_selection, is_read_only
  <2> HIDE DEF d
  <2> QED
    BY <1>3, <2>1, <2>2, <2>3 DEF Offer, EvidenceBacked
<1>4. CASE p \in backed
  <2> DEFINE S(f) == {c \in offered : c.fix = f}
  <2>1. PICK f \in {c.fix : c \in offered} : p = build(f, First(S(f)).id)
    BY <1>4
  <2>2. S(f) # {} /\ S(f) \subseteq {c \in d.causes : IsProblem(c)}
    BY <2>1
  <2>3. First(S(f)) \in S(f)
    <3> HIDE DEF S
    <3> QED
      BY <2>2, FirstFacts
  <2>4. f \in Proposable /\ Buildable(f, cat, q)
    <3>1. Buildable(f, cat, q) /\ \E c \in d.causes : IsProblem(c) /\ c.fix = f
      BY <2>1
    <3>2. f \in Proposable \cup {NoFix}
      BY <3>1, ProblemFixes
    <3> QED
      BY <3>1, <3>2, ProposableFixes DEF Buildable
  <2>5. \E c \in d.causes : IsProblem(c) /\ c.id = First(S(f)).id /\ c.fix = f
    BY <2>3
  <2> HIDE DEF build, d, S
  <2>6. Offer(p, d)
    BY <2>1, <2>4, <2>5, <1>3
  <2> QED
    BY <2>6 DEF d
<1>5. CASE p \in {build(f, NoCause) : f \in general}
  <2>1. PICK f \in general : p = build(f, NoCause)
    BY <1>5
  <2>2. f \in Proposable /\ Buildable(f, cat, q)
    BY <2>1, GeneralFixes, ProposableFixes DEF Buildable
  <2> HIDE DEF build, d, general
  <2>3. Offer(p, d)
    BY <2>1, <2>2, <1>3
  <2> QED
    BY <2>3 DEF d
<1> QED
  BY <1>2, <1>4, <1>5

-----------------------------------------------------------------------------
(* What a step measures                                                    *)

(* Measurements stay reports of some PC, and those of one PC stay so when   *)
(* it is measured again.                                                    *)
LEMMA UpdatedFacts ==
    ASSUME NEW old, NEW tools, NEW failed, NEW now, IsPC(now)
    PROVE  /\ DOMAIN Updated(old, tools, failed, now) = (DOMAIN old \ tools) \cup (tools \ failed)
           /\ Updated(old, tools, failed, now) =
                 [t \in DOMAIN Updated(old, tools, failed, now) |->
                    Updated(old, tools, failed, now)[t]]
           /\ Reported(old) => Reported(Updated(old, tools, failed, now))
           /\ Honest(old, now) => Honest(Updated(old, tools, failed, now), now)
<1> DEFINE new == Updated(old, tools, failed, now)
<1>1. /\ DOMAIN new = (DOMAIN old \ tools) \cup (tools \ failed)
      /\ new = [t \in DOMAIN new |-> new[t]]
      /\ \A t \in DOMAIN new : new[t] = IF t \in tools THEN Report(t, now) ELSE old[t]
  BY DEF Updated
<1> HIDE DEF new
<1>2. Reported(old) => Reported(new)
  BY <1>1 DEF Reported
<1>3. Honest(old, now) => Honest(new, now)
  BY <1>1 DEF Honest
<1> QED
  BY <1>1, <1>2, <1>3 DEF new

(* The deeper checks are finitely many checks. *)
LEMMA DeeperFacts ==
    ASSUME NEW cat \in Categories, NEW done, Cardinality(done) \in Int
    PROVE  Deeper(cat, done) \subseteq DIAGNOSTICS /\ IsFiniteSet(Deeper(cat, done))
<1> DEFINE thorough == get_category_spec(cat).thorough
           left == MaxSteps - Cardinality(done)
<1>1. thorough \in Seq(DIAGNOSTICS)
  BY CategoryLists
<1>2. Range(thorough) \subseteq DIAGNOSTICS
  BY <1>1 DEF Range
<1>3. left \in Int
  BY PipelineAssumption
<1>4. Deeper(cat, done) = FirstOf(thorough, Range(thorough) \ done, left)
  BY DEF Deeper
<1> HIDE DEF thorough, left
<1>5. /\ FirstOf(thorough, Range(thorough) \ done, left) \subseteq Range(thorough)
      /\ IsFiniteSet(FirstOf(thorough, Range(thorough) \ done, left))
  BY <1>1, <1>3, FirstOfFacts
<1> QED
  BY <1>2, <1>4, <1>5

(* A finite set with one more element is finite. *)
LEMMA FiniteByOne ==
    IsFiniteSet({}) /\ \A S, x : IsFiniteSet(S) => IsFiniteSet(S \cup {x})
BY FS_EmptySet, FS_AddElement, Zenon

(* What is repeated after a fix was measured before it, or is a check. *)
LEMMA RepeatedFacts ==
    ASSUME NEW d, NEW p, p.fix \in DOMAIN FIXES, NEW before, NEW done,
           DOMAIN before \subseteq done, done \subseteq DIAGNOSTICS, IsFiniteSet(done)
    PROVE  /\ tools_for(d, p, before) \subseteq DIAGNOSTICS
           /\ IsFiniteSet(tools_for(d, p, before))
<1> DEFINE verify == FIXES[p.fix].verify
           checks == {"get_search_indexer_status", "get_windows_update_status",
                      "get_important_services", "get_network_services_status", "test_dns",
                      "test_internet", "ping_gateway", "get_network_adapters",
                      "get_disk_free_space", "get_reclaimable_space"}
<1>1. verify \subseteq checks
  BY DEF FIXES, Fix
<1>2. checks \subseteq DIAGNOSTICS
  BY CheckNames
<1>3. IsFiniteSet(checks)
  <2>2. IsFiniteSet({} \cup {"get_search_indexer_status"} \cup {"get_windows_update_status"}
                    \cup {"get_important_services"} \cup {"get_network_services_status"}
                    \cup {"test_dns"} \cup {"test_internet"} \cup {"ping_gateway"}
                    \cup {"get_network_adapters"} \cup {"get_disk_free_space"}
                    \cup {"get_reclaimable_space"})
    BY FiniteByOne, Zenon
  <2>3. checks = {} \cup {"get_search_indexer_status"} \cup {"get_windows_update_status"}
                    \cup {"get_important_services"} \cup {"get_network_services_status"}
                    \cup {"test_dns"} \cup {"test_internet"} \cup {"ping_gateway"}
                    \cup {"get_network_adapters"} \cup {"get_disk_free_space"}
                    \cup {"get_reclaimable_space"}
    OBVIOUS
  <2> QED
    BY <2>2, <2>3
<1>4. tools_for(d, p, before) \subseteq done \cup checks
  BY <1>1 DEF tools_for
<1> HIDE DEF checks
<1>5. IsFiniteSet(done \cup checks)
  BY <1>3, FS_Union
<1> QED
  BY <1>2, <1>4, <1>5, FS_Subset

(* Of finitely many checks, as many fail as the bound allows. *)
LEMMA FailingFacts ==
    ASSUME NEW tools, IsFiniteSet(tools), trouble \in 0 .. MaxTrouble,
           NEW failed \in Failing(tools)
    PROVE  failed \subseteq tools /\ trouble - Cardinality(failed) \in 0 .. MaxTrouble
<1>1. failed \subseteq tools /\ Cardinality(failed) <= trouble
  BY DEF Failing
<1>2. Cardinality(failed) \in Nat
  BY <1>1, FS_Subset, FS_CardinalityType
<1>3. MaxTrouble \in Nat
  BY PipelineAssumption
<1> QED
  BY <1>1, <1>2, <1>3

-----------------------------------------------------------------------------
(* The inductive invariant                                                 *)

(* Where the session is. *)
StateInv ==
    /\ phase \in {"new", "checked", "diagnosed", "applied", "verified"}
    /\ category \in Categories /\ depth \in Depths
    /\ provider \in {"local", "ai"} /\ rounds \in 0 .. MaxRounds
    /\ success \in BOOLEAN /\ improved \in BOOLEAN
    /\ trouble \in 0 .. MaxTrouble
    /\ IsPC(pc)

(* What was measured: checks, each of which reported what a PC was like. *)
MeasuredInv ==
    /\ ran \subseteq DIAGNOSTICS /\ IsFiniteSet(ran)
    /\ tried = {} => Cardinality(ran) <= MaxSteps
    /\ repeated \subseteq ran
    /\ DOMAIN results \subseteq ran
    /\ results = [t \in DOMAIN results |-> results[t]]
    /\ Reported(results)

(* Until a fix was tried, all the measurements are of one PC.  The diagnosis*)
(* is the one of the measurements, unless a fix that was carried out has    *)
(* just been verified: then they are newer.                                 *)
DiagnosisInv ==
    /\ phase = "new" => ran = {}
    /\ phase \in {"new", "checked"} =>
          tried = {} /\ diagnosis = NoDiagnosis /\ proposals = {} /\ Honest(results, pc)
    /\ phase = "diagnosed" /\ tried = {} => \E p : IsPC(p) /\ Honest(results, p)
    /\ phase \in {"diagnosed", "applied"} \/ (phase = "verified" /\ ~success) =>
          diagnosis = analyze(category, results)
    /\ diagnosis = NoDiagnosis
       \/ \E r : Reported(r) /\ diagnosis = analyze(category, r)

(* What is offered, what is carried out and how often. *)
OffersInv ==
    /\ \A p \in proposals : Offer(p, diagnosis)
    /\ phase \in {"applied", "verified"} => Offer(applied, diagnosis) /\ applied.fix \in tried
    /\ applied.fix \in Proposable \cup {NoFix}
    /\ tried \subseteq Proposable /\ IsFiniteSet(tried)
    /\ late \subseteq tried
    /\ attempts \in Cardinality(tried) .. MaxAttempts

(* The inductive invariant.  TypeOK is not inductive by itself: that Apply  *)
(* leaves a PC needs Offer, that an offer names a fix of the diagnosis      *)
(* needs DiagnosisInv, and that the diagnosis is one of a PC needs          *)
(* MeasuredInv.                                                             *)
PipelineInv == StateInv /\ MeasuredInv /\ DiagnosisInv /\ OffersInv

(* A PC before its diagnosis satisfies it. *)
LEMMA InitInv == Init => PipelineInv
<1> SUFFICES ASSUME Init PROVE PipelineInv
  OBVIOUS
<1>1. PICK faults \in {{}} \cup UNION {{{a, b} : a \in Faults} : b \in Faults} :
         /\ trouble = MaxTrouble - Cardinality(faults) - (IF provider = "ai" THEN 1 ELSE 0)
         /\ trouble >= 0
         /\ pc = [f \in DOMAIN HealthyPC |->
                    IF \E a \in faults : a[1] = f
                    THEN (CHOOSE a \in faults : a[1] = f)[2] ELSE HealthyPC[f]]
  BY DEF Init
<1>2. faults \subseteq Faults
  BY <1>1
<1>3. IsPC(pc)
  <2>1. ASSUME NEW f \in DOMAIN HealthyPC PROVE pc[f] \in Values(f)
    <3>1. CASE \E a \in faults : a[1] = f
      <4> DEFINE x == CHOOSE a \in faults : a[1] = f
      <4>1. x \in faults /\ x[1] = f
        BY <3>1
      <4>2. pc[f] = x[2]
        BY <1>1, <3>1
      <4> QED
        BY <1>2, <4>1, <4>2, PipelineAssumption
    <3>2. CASE ~\E a \in faults : a[1] = f
      BY <1>1, <3>2, HealthyIsPC DEF IsPC
    <3> QED
      BY <3>1, <3>2
  <2>2. pc = [f \in DOMAIN HealthyPC |-> pc[f]]
    BY <1>1
  <2> QED
    BY <2>1, <2>2 DEF IsPC
<1>4. trouble \in 0 .. MaxTrouble
  <2>1. \A a, b : {a, b} = ({} \cup {a}) \cup {b}
    OBVIOUS
  <2>2. \A a, b : IsFiniteSet(({} \cup {a}) \cup {b})
    BY FiniteByOne, Zenon
  <2>3. faults = {} \/ \E a, b : faults = ({} \cup {a}) \cup {b}
    BY <2>1
  <2>4. IsFiniteSet({})
    BY FiniteByOne
  <2>5. IsFiniteSet(faults)
    BY <2>2, <2>3, <2>4
  <2>6. Cardinality(faults) \in Nat /\ MaxTrouble \in Nat
    BY <2>5, FS_CardinalityType, PipelineAssumption
  <2> QED
    BY <1>1, <2>6
<1>5. StateInv
  <2>1. /\ phase = "new" /\ category \in Categories /\ depth \in Depths
        /\ provider \in {"local", "ai"} /\ rounds = 0 /\ success = FALSE /\ improved = FALSE
    BY DEF Init
  <2>2. 0 \in 0 .. MaxRounds
    BY PipelineAssumption
  <2> QED
    BY <1>3, <1>4, <2>1, <2>2 DEF StateInv
<1>6. results = <<>> /\ DOMAIN results = {} /\ results = [t \in DOMAIN results |-> results[t]]
  BY DEF Init
<1>7. IsFiniteSet({}) /\ Cardinality({}) = 0
  BY FS_EmptySet
<1>8. MeasuredInv
  BY <1>6, <1>7, PipelineAssumption DEF Init, MeasuredInv, Reported
<1>9. DiagnosisInv
  BY <1>6 DEF Init, DiagnosisInv, Honest
<1>10. OffersInv
  BY <1>7, PipelineAssumption DEF Init, OffersInv, NoProposal, Proposal
<1> QED
  BY <1>5, <1>8, <1>9, <1>10 DEF PipelineInv

(* The checks of a round: what they leave in the session. *)
LEMMA RunInv ==
    ASSUME StateInv, MeasuredInv, NEW tools, tools \subseteq DIAGNOSTICS, IsFiniteSet(tools),
           NEW failed \in Failing(tools), NEW bad,
           results' = Updated(results, tools, bad, pc), ran' = ran \cup tools,
           trouble' = trouble - Cardinality(failed)
    PROVE  /\ trouble' \in 0 .. MaxTrouble
           /\ ran' \subseteq DIAGNOSTICS /\ IsFiniteSet(ran')
           /\ DOMAIN results' \subseteq ran'
           /\ results' = [t \in DOMAIN results' |-> results'[t]]
           /\ Reported(results')
           /\ Honest(results, pc) => Honest(results', pc)
<1>2. trouble' \in 0 .. MaxTrouble
  BY FailingFacts DEF StateInv
<1>3. ran' \subseteq DIAGNOSTICS /\ IsFiniteSet(ran')
  BY FS_Union DEF MeasuredInv
<1>4. IsPC(pc) /\ Reported(results) /\ DOMAIN results \subseteq ran
  BY DEF StateInv, MeasuredInv
<1> DEFINE new == Updated(results, tools, bad, pc)
<1>5. /\ DOMAIN new = (DOMAIN results \ tools) \cup (tools \ bad)
      /\ new = [t \in DOMAIN new |-> new[t]]
  BY DEF Updated
<1>6. Reported(new) /\ (Honest(results, pc) => Honest(new, pc))
  BY <1>4, UpdatedFacts
<1>7. new = results'
  OBVIOUS
<1> HIDE DEF new
<1> QED
  BY <1>2, <1>3, <1>4, <1>5, <1>6, <1>7

(* A diagnosis that starts with a plan of checks keeps it. *)
LEMMA StartedInv ==
    ASSUME PipelineInv, NEW plan, NEW n \in 0 .. MaxRounds, Started(plan, n),
           plan \subseteq DIAGNOSTICS, IsFiniteSet(plan), Cardinality(plan) <= MaxSteps
    PROVE  PipelineInv'
<1> USE DEF PipelineInv, settingsVars
<1>2. /\ phase = "new" /\ phase' = "checked" /\ rounds' = n
      /\ ran = {} /\ Honest(results, pc) /\ tried = {}
      /\ diagnosis = NoDiagnosis /\ proposals = {}
      /\ UNCHANGED <<category, depth, provider, pc, diagnosis, proposals, applied, success,
                     repeated, improved, tried, attempts, late>>
  BY DEF Started, DiagnosisInv
<1>3. PICK failed \in Failing(plan) : Run(plan, failed) /\ Fails(failed)
  BY DEF Started
<1>4. /\ trouble' \in 0 .. MaxTrouble
      /\ ran' = plan /\ ran' \subseteq DIAGNOSTICS /\ IsFiniteSet(ran')
      /\ DOMAIN results' \subseteq ran'
      /\ results' = [t \in DOMAIN results' |-> results'[t]]
      /\ Reported(results') /\ Honest(results', pc)
  <2> DEFINE bad == failed \cup {t \in plan : ~AcceptedCheck(t)}
  <2>1. /\ results' = Updated(results, plan, bad, pc) /\ ran' = ran \cup plan
        /\ trouble' = trouble - Cardinality(failed)
    BY <1>3 DEF Run, Fails
  <2> HIDE DEF bad
  <2> QED
    BY <1>2, <2>1, RunInv
<1>5. StateInv'
  BY <1>2, <1>4 DEF StateInv
<1>6. MeasuredInv'
  BY <1>2, <1>4 DEF MeasuredInv
<1>7. DiagnosisInv'
  <2>1. Honest(results', pc')
    BY <1>2, <1>4
  <2> QED
    BY <1>2, <2>1 DEF DiagnosisInv
<1>8. OffersInv'
  BY <1>2 DEF OffersInv
<1> QED
  BY <1>5, <1>6, <1>7, <1>8

(* Planning and running the first checks keeps it. *)
LEMMA InvestigateInv ==
    ASSUME PipelineInv, Investigate
    PROVE  PipelineInv'
<1>1. category \in Categories
  BY DEF PipelineInv, StateInv
<1>2. CASE Started(LocalPlan(category, depth), 1)
  <2>1. <<>> \in Seq(STRING) /\ MaxSteps \in Nat /\ 1 \in 0 .. MaxRounds
        /\ MaxSteps <= MaxSteps
    BY PipelineAssumption
  <2> DEFINE plan == LocalPlan(category, depth)
  <2>2. plan \subseteq Accepted /\ IsFiniteSet(plan) /\ Cardinality(plan) <= MaxSteps
    BY <1>1, <2>1, PlanFacts DEF LocalPlan
  <2>3. plan \subseteq DIAGNOSTICS /\ Started(plan, 1)
    BY <1>2, <2>2, AcceptedAreChecks
  <2> HIDE DEF plan
  <2> QED
    BY <2>1, <2>2, <2>3, StartedInv
<1>3. ASSUME NEW asked \in Answers, Started(AIPlan(category, depth, asked), MaxRounds)
      PROVE  PipelineInv'
  <2> DEFINE limit == Max({1, MaxSteps - 4})
             plan == AIPlan(category, depth, asked)
  <2>1. MaxSteps \in Nat \ {0} /\ MaxRounds \in 0 .. MaxRounds /\ asked \in Seq(STRING)
    BY PipelineAssumption
  <2>2. limit \in Nat /\ limit <= MaxSteps
    BY <2>1, MaxOfTwo
  <2>3. plan = Plan(category, depth, asked, limit)
    BY DEF AIPlan
  <2> HIDE DEF limit
  <2>4. plan \subseteq Accepted /\ IsFiniteSet(plan) /\ Cardinality(plan) <= MaxSteps
    BY <1>1, <2>1, <2>2, <2>3, PlanFacts
  <2>5. plan \subseteq DIAGNOSTICS /\ Started(plan, MaxRounds)
    BY <1>3, <2>4, AcceptedAreChecks
  <2> HIDE DEF plan
  <2> QED
    BY <2>1, <2>4, <2>5, StartedInv
<1> QED
  BY <1>2, <1>3 DEF Investigate

(* The follow-up checks that are asked for, by rules or by an AI. *)
LEMMA RequestNames == \A requested \in Requests : requested \in Seq(Names)
<1>1. Wanted(category, results) \in Seq(Names)
  BY WantedNames
<1>2. \A answer \in Answers : answer \in Seq(Names)
  BY PipelineAssumption, SeqMonotonic DEF Names
<1>3. <<>> \in Seq(Names)
  OBVIOUS
<1> QED
  BY <1>1, <1>2, <1>3 DEF Requests

(* Both kinds of rounds: what their checks leave behind. *)
LEMMA RoundInv ==
    ASSUME PipelineInv, phase = "checked", NEW requested \in Requests,
           NEW failed \in Failing(FollowUps(requested, ran)),
           Run(FollowUps(requested, ran), failed), Fails(failed)
    PROVE  /\ trouble' \in 0 .. MaxTrouble
           /\ ran' \subseteq DIAGNOSTICS /\ IsFiniteSet(ran') /\ Cardinality(ran') <= MaxSteps
           /\ DOMAIN results' \subseteq ran' /\ ran \subseteq ran'
           /\ results' = [t \in DOMAIN results' |-> results'[t]]
           /\ Reported(results') /\ Honest(results', pc)
<1> DEFINE tools == FollowUps(requested, ran)
           bad   == failed \cup {t \in tools : ~AcceptedCheck(t)}
<1>1. /\ results' = Updated(results, tools, bad, pc) /\ ran' = ran \cup tools
      /\ trouble' = trouble - Cardinality(failed) /\ failed \in Failing(tools)
  BY DEF Run, Fails
<1>2. /\ StateInv /\ MeasuredInv /\ Honest(results, pc) /\ IsFiniteSet(ran)
      /\ Cardinality(ran) <= MaxSteps
  BY DEF PipelineInv, MeasuredInv, DiagnosisInv
<1>3. tools \subseteq Accepted /\ IsFiniteSet(tools) /\ Cardinality(ran \cup tools) <= MaxSteps
  BY <1>2, RequestNames, FollowUpFacts
<1>4. tools \subseteq DIAGNOSTICS
  BY <1>3, AcceptedAreChecks
<1> HIDE DEF tools, bad
<1> QED
  BY <1>1, <1>2, <1>3, <1>4, RunInv

(* A round of follow-up checks keeps it. *)
LEMMA FollowUpInv ==
    ASSUME PipelineInv, FollowUp
    PROVE  PipelineInv'
<1> USE DEF PipelineInv
<1>1. PICK requested \in Requests :
         \E failed \in Failing(FollowUps(requested, ran)) :
            Run(FollowUps(requested, ran), failed) /\ Fails(failed)
  BY DEF FollowUp
<1>2. /\ phase = "checked" /\ rounds > 1 /\ rounds' = rounds - 1
      /\ UNCHANGED <<phase, category, depth, provider, pc, diagnosis, proposals, applied,
                     success, repeated, improved, tried, attempts, late>>
  BY DEF FollowUp, settingsVars
<1>3. /\ trouble' \in 0 .. MaxTrouble
      /\ ran' \subseteq DIAGNOSTICS /\ IsFiniteSet(ran') /\ Cardinality(ran') <= MaxSteps
      /\ DOMAIN results' \subseteq ran' /\ ran \subseteq ran'
      /\ results' = [t \in DOMAIN results' |-> results'[t]]
      /\ Reported(results') /\ Honest(results', pc)
  BY <1>1, <1>2, RoundInv
<1>4. StateInv'
  <2>1. rounds' \in 0 .. MaxRounds
    BY <1>2, PipelineAssumption DEF StateInv
  <2> QED
    BY <1>2, <1>3, <2>1 DEF StateInv
<1>5. MeasuredInv'
  BY <1>2, <1>3 DEF MeasuredInv
<1>6. DiagnosisInv'
  <2>1. Honest(results', pc')
    BY <1>2, <1>3
  <2>2. phase' = "checked" /\ tried' = {} /\ diagnosis' = NoDiagnosis /\ proposals' = {}
    BY <1>2 DEF DiagnosisInv
  <2> QED
    BY <2>1, <2>2 DEF DiagnosisInv
<1>7. OffersInv'
  BY <1>2 DEF OffersInv
<1> QED
  BY <1>4, <1>5, <1>6, <1>7

(* A diagnosis of the measurements, and what is proposed on it. *)
LEMMA DiagnosedInv ==
    ASSUME category \in Categories, Reported(results'), NEW exclude,
           diagnosis' = analyze(category, results'),
           proposals' = propose(diagnosis', results', exclude)
    PROVE  \A p \in proposals' : Offer(p, diagnosis')
<1> SUFFICES ASSUME NEW p \in proposals' PROVE Offer(p, diagnosis')
  OBVIOUS
<1>1. p \in propose(analyze(category, results'), results', exclude)
  OBVIOUS
<1> QED
  BY <1>1, OfferFacts

(* Analysing and proposing keeps it. *)
LEMMA DiagnoseInv ==
    ASSUME PipelineInv, Diagnose
    PROVE  PipelineInv'
<1> USE DEF PipelineInv
<1>1. PICK requested \in Requests :
         \E failed \in Failing(FollowUps(requested, ran)) :
            Run(FollowUps(requested, ran), failed) /\ Fails(failed)
  BY DEF Diagnose
<1>2. /\ phase = "checked" /\ phase' = "diagnosed" /\ rounds' = 0
      /\ diagnosis' = analyze(category, results')
      /\ proposals' = propose(diagnosis', results', {})
      /\ UNCHANGED <<category, depth, provider, pc, applied, success, repeated, improved,
                     tried, attempts, late>>
  BY DEF Diagnose, settingsVars
<1>3. /\ trouble' \in 0 .. MaxTrouble
      /\ ran' \subseteq DIAGNOSTICS /\ IsFiniteSet(ran') /\ Cardinality(ran') <= MaxSteps
      /\ DOMAIN results' \subseteq ran' /\ ran \subseteq ran'
      /\ results' = [t \in DOMAIN results' |-> results'[t]]
      /\ Reported(results') /\ Honest(results', pc)
  BY <1>1, <1>2, RoundInv
<1>4. StateInv'
  <2>1. 0 \in 0 .. MaxRounds
    BY PipelineAssumption
  <2> QED
    BY <1>2, <1>3, <2>1 DEF StateInv
<1>5. MeasuredInv'
  BY <1>2, <1>3 DEF MeasuredInv
<1>6. DiagnosisInv'
  <2>1. Honest(results', pc') /\ IsPC(pc')
    BY <1>2, <1>3 DEF StateInv
  <2>2. diagnosis' = analyze(category', results')
    BY <1>2
  <2> QED
    BY <1>2, <1>3, <2>1, <2>2 DEF DiagnosisInv
<1>7. OffersInv'
  <2>1. \A p \in proposals' : Offer(p, diagnosis')
    BY <1>2, <1>3, DiagnosedInv DEF StateInv
  <2> QED
    BY <1>2, <2>1 DEF OffersInv
<1> QED
  BY <1>4, <1>5, <1>6, <1>7

(* The approval of a fix counts it, among the fixes and the attempts. *)
LEMMA ApprovedInv ==
    ASSUME PipelineInv, NEW p, Approved(p), success' \in BOOLEAN,
           IsPC(pc'), trouble' \in 0 .. MaxTrouble, late' \subseteq late \cup {p.fix}
    PROVE  PipelineInv'
<1> USE DEF PipelineInv
<1>1. /\ \/ phase = "diagnosed" /\ p \in proposals
         \/ phase = "verified" /\ ~success /\ p = applied
      /\ attempts < MaxAttempts /\ applied' = p /\ tried' = tried \cup {p.fix}
      /\ attempts' = attempts + 1 /\ phase' = "applied"
      /\ UNCHANGED <<category, depth, provider, rounds, results, ran, diagnosis, proposals,
                     repeated, improved>>
  BY DEF Approved, settingsVars, check_remediation_attempt
<1>2. Offer(p, diagnosis) /\ diagnosis = analyze(category, results)
  BY <1>1 DEF OffersInv, DiagnosisInv
<1>3. p.fix \in Proposable
  BY <1>2 DEF Offer
<1>4. StateInv'
  BY <1>1 DEF StateInv
<1>5. MeasuredInv'
  BY <1>1 DEF MeasuredInv
<1>6. DiagnosisInv'
  <2>1. Reported(results') /\ diagnosis' = analyze(category', results')
    BY <1>1, <1>2 DEF MeasuredInv
  <2> QED
    BY <1>1, <2>1 DEF DiagnosisInv
<1>7. OffersInv'
  <2>1. IsFiniteSet(tried) /\ tried \subseteq Proposable /\ late \subseteq tried
        /\ attempts \in Cardinality(tried) .. MaxAttempts
    BY DEF OffersInv
  <2>2. Cardinality(tried) \in Nat
    BY <2>1, FS_CardinalityType
  <2>3. /\ IsFiniteSet(tried \cup {p.fix})
        /\ Cardinality(tried \cup {p.fix}) = IF p.fix \in tried THEN Cardinality(tried)
                                             ELSE Cardinality(tried) + 1
    BY <2>1, FS_AddElement, Zenon
  <2>4. attempts' \in Cardinality(tried') .. MaxAttempts
    BY <1>1, <2>1, <2>2, <2>3, PipelineAssumption
  <2>5. tried' \subseteq Proposable /\ late' \subseteq tried' /\ IsFiniteSet(tried')
    BY <1>1, <1>3, <2>1, <2>3
  <2>6. \A x \in proposals' : Offer(x, diagnosis')
    BY <1>1 DEF OffersInv
  <2>7. Offer(applied', diagnosis') /\ applied'.fix \in tried' /\ applied'.fix \in Proposable
    BY <1>1, <1>2, <1>3
  <2> QED
    BY <2>4, <2>5, <2>6, <2>7 DEF OffersInv
<1> QED
  BY <1>4, <1>5, <1>6, <1>7

(* Carrying out an accepted fix, in time or not, keeps it. *)
LEMMA ApplyInv ==
    ASSUME PipelineInv, NEW p, Apply(p) \/ ApplyTimesOut(p)
    PROVE  PipelineInv'
<1>1. Approved(p) /\ IsPC(pc) /\ trouble \in 0 .. MaxTrouble /\ MaxTrouble \in Nat
  BY PipelineAssumption DEF Apply, ApplyTimesOut, PipelineInv, StateInv
<1>2. CASE Apply(p)
  <2>1. p.fix \in Proposable
    BY <1>1 DEF Approved, PipelineInv, OffersInv, Offer
  <2>2. PICK outcome \in execute(p.fix, pc) : success' = outcome.success /\ pc' = outcome.pc
    BY <1>2 DEF Apply
  <2>3. success' \in BOOLEAN /\ IsPC(pc')
    BY <1>1, <2>1, <2>2, FixedPC DEF IsOutcome
  <2>4. trouble' = trouble /\ late' = late
    BY <1>2 DEF Apply
  <2> QED
    BY <1>1, <2>3, <2>4, ApprovedInv
<1>3. CASE ApplyTimesOut(p)
  <2>1. /\ trouble > 0 /\ trouble' = trouble - 1 /\ success' = FALSE /\ pc' = pc
        /\ late' = late \cup {p.fix}
    BY <1>3 DEF ApplyTimesOut
  <2>2. success' \in BOOLEAN /\ IsPC(pc')
    BY <1>1, <2>1
  <2>3. trouble' \in 0 .. MaxTrouble
    BY <1>1, <2>1
  <2> QED
    BY <1>1, <2>1, <2>2, <2>3, ApprovedInv
<1> QED
  BY <1>2, <1>3

(* A fix that ends after its timeout keeps it. *)
LEMMA LateInv ==
    ASSUME PipelineInv, NEW fix \in late, LateFixEnds(fix)
    PROVE  PipelineInv'
<1> USE DEF PipelineInv
<1>1. /\ late' = late \ {fix}
      /\ UNCHANGED <<phase, category, depth, provider, rounds, results, ran, diagnosis,
                     proposals, applied, success, repeated, improved, tried, attempts, trouble>>
  BY DEF LateFixEnds, settingsVars
<1>2. fix \in Proposable /\ IsPC(pc) /\ tried # {}
  BY DEF StateInv, OffersInv
<1>3. IsPC(pc')
  BY <1>2, ExecutedPC DEF LateFixEnds, IsOutcome
<1>4. StateInv'
  BY <1>1, <1>3 DEF StateInv
<1>5. MeasuredInv'
  BY <1>1 DEF MeasuredInv
<1>6. DiagnosisInv'
  BY <1>1, <1>2 DEF DiagnosisInv
<1>7. OffersInv'
  BY <1>1 DEF OffersInv
<1> QED
  BY <1>4, <1>5, <1>6, <1>7

(* A verification keeps it: the repeated measurements are of the PC after   *)
(* the fix, the others of earlier ones.                                     *)
LEMMA VerifyInv ==
    ASSUME PipelineInv, Verify
    PROVE  PipelineInv'
<1> USE DEF PipelineInv
<1> DEFINE tools == IF success THEN tools_for(diagnosis, applied, results) ELSE {}
<1>1. PICK failed \in Failing(tools) :
         LET after == Updated(results, tools, failed, pc)
         IN  /\ improved' = (success /\ Improved(diagnosis, applied, results, after))
             /\ repeated' = tools
             /\ Fails(failed)
             /\ results' = after
  BY DEF Verify
<1>2. /\ phase = "applied" /\ phase' = "verified" /\ ran' = ran \cup repeated'
      /\ UNCHANGED <<category, depth, provider, rounds, pc, diagnosis, proposals, applied,
                     success, tried, attempts, late>>
  BY DEF Verify, settingsVars
<1>3. /\ Offer(applied, diagnosis) /\ applied.fix \in tried
      /\ diagnosis = analyze(category, results)
  BY <1>2 DEF OffersInv, DiagnosisInv
<1>4. tools \subseteq DIAGNOSTICS /\ IsFiniteSet(tools)
  <2>1. applied.fix \in DOMAIN FIXES
    BY <1>3, ProposableFixes DEF Offer
  <2>2. /\ tools_for(diagnosis, applied, results) \subseteq DIAGNOSTICS
        /\ IsFiniteSet(tools_for(diagnosis, applied, results))
    BY <2>1, RepeatedFacts DEF MeasuredInv
  <2> QED
    BY <2>2, FiniteByOne
<1>5. /\ results' = Updated(results, tools, failed, pc) /\ ran' = ran \cup tools
      /\ trouble' = trouble - Cardinality(failed) /\ repeated' = tools
      /\ improved' = (success /\ Improved(diagnosis, applied, results, results'))
  BY <1>1, <1>2 DEF Fails
<1>6. ~success => results' = results
  <2>1. ~success => tools = {}
    OBVIOUS
  <2>2. results = [t \in DOMAIN results |-> results[t]]
    BY DEF MeasuredInv
  <2> HIDE DEF tools
  <2>3. ~success => results' = [t \in DOMAIN results |-> results[t]]
    <3>1. ~success => failed = {}
      BY <2>1 DEF Failing
    <3> QED
      BY <1>5, <2>1, <3>1 DEF Updated
  <2> QED
    BY <2>2, <2>3
<1> HIDE DEF tools
<1>7. /\ trouble' \in 0 .. MaxTrouble
      /\ ran' \subseteq DIAGNOSTICS /\ IsFiniteSet(ran')
      /\ DOMAIN results' \subseteq ran'
      /\ results' = [t \in DOMAIN results' |-> results'[t]]
      /\ Reported(results')
  BY <1>4, <1>5, RunInv
<1>8. StateInv'
  <2>1. improved' \in BOOLEAN
    <3>1. Improved(diagnosis, applied, results, results') \in BOOLEAN
      BY DEF Improved
    <3> QED
      BY <1>5, <3>1 DEF StateInv
  <2> QED
    BY <1>2, <1>7, <2>1 DEF StateInv
<1>9. MeasuredInv'
  BY <1>2, <1>3, <1>5, <1>7 DEF MeasuredInv
<1>10. DiagnosisInv'
  <2>1. ~success => diagnosis' = analyze(category', results')
    BY <1>2, <1>3, <1>6
  <2>2. \E r : Reported(r) /\ diagnosis' = analyze(category', r)
    BY <1>2, <1>3 DEF MeasuredInv
  <2> QED
    BY <1>2, <2>1, <2>2 DEF DiagnosisInv
<1>11. OffersInv'
  BY <1>2, <1>3 DEF OffersInv
<1> QED
  BY <1>8, <1>9, <1>10, <1>11

(* Continuing the investigation keeps it. *)
LEMMA ContinueInv ==
    ASSUME PipelineInv, Continue
    PROVE  PipelineInv'
<1> USE DEF PipelineInv
<1> DEFINE tools == Deeper(category, ran)
<1>1. PICK failed \in Failing(tools) : Run(tools, failed) /\ Fails(failed)
  BY DEF Continue
<1>2. /\ phase = "verified" /\ phase' = "diagnosed"
      /\ diagnosis' = analyze(category, results')
      /\ proposals' = propose(diagnosis', results', tried)
      /\ UNCHANGED <<category, depth, provider, rounds, pc, applied, success, repeated,
                     improved, tried, attempts, late>>
  BY DEF Continue, settingsVars
<1>3. applied.fix \in tried
  BY <1>2 DEF OffersInv
<1>4. tools \subseteq DIAGNOSTICS /\ IsFiniteSet(tools)
  <2>1. Cardinality(ran) \in Int /\ category \in Categories
    BY FS_CardinalityType DEF MeasuredInv, StateInv
  <2> QED
    BY <2>1, DeeperFacts
<1> DEFINE bad == failed \cup {t \in tools : ~AcceptedCheck(t)}
<1>5. /\ results' = Updated(results, tools, bad, pc) /\ ran' = ran \cup tools
      /\ trouble' = trouble - Cardinality(failed)
  BY <1>1 DEF Run, Fails
<1> HIDE DEF tools, bad
<1>6. /\ trouble' \in 0 .. MaxTrouble
      /\ ran' \subseteq DIAGNOSTICS /\ IsFiniteSet(ran')
      /\ DOMAIN results' \subseteq ran'
      /\ results' = [t \in DOMAIN results' |-> results'[t]]
      /\ Reported(results')
  BY <1>4, <1>5, RunInv
<1>7. StateInv'
  BY <1>2, <1>6 DEF StateInv
<1>8. MeasuredInv'
  BY <1>2, <1>3, <1>5, <1>6 DEF MeasuredInv
<1>9. DiagnosisInv'
  <2>1. diagnosis' = analyze(category', results')
    BY <1>2
  <2> QED
    BY <1>2, <1>3, <1>6, <2>1 DEF DiagnosisInv
<1>10. OffersInv'
  <2>1. \A p \in proposals' : Offer(p, diagnosis')
    BY <1>2, <1>6, DiagnosedInv DEF StateInv
  <2> QED
    BY <1>2, <2>1 DEF OffersInv
<1> QED
  BY <1>7, <1>8, <1>9, <1>10

(* So does anything that changes the PC from outside. *)
LEMMA DriftInv ==
    ASSUME PipelineInv, Drift
    PROVE  PipelineInv'
<1> USE DEF PipelineInv
<1>0. PICK fault \in Faults : \E value \in {fault[2], HealthyPC[fault[1]]} :
         pc' = [pc EXCEPT ![fault[1]] = value]
  BY DEF Drift
<1>1. PICK value \in {fault[2], HealthyPC[fault[1]]} : pc' = [pc EXCEPT ![fault[1]] = value]
  BY <1>0
<1>2. /\ phase = "diagnosed" /\ trouble > 0 /\ trouble' = trouble - 1
      /\ UNCHANGED <<phase, category, depth, provider, rounds, results, ran, diagnosis,
                     proposals, applied, success, repeated, improved, tried, attempts, late>>
  BY DEF Drift, settingsVars
<1>3. IsPC(pc')
  <2>1. IsPC(pc) /\ fault[1] \in DOMAIN HealthyPC /\ fault[2] \in Values(fault[1])
    BY PipelineAssumption DEF StateInv
  <2>2. pc' = [f \in DOMAIN pc |-> pc'[f]]
    BY <1>1
  <2>3. \A f \in DOMAIN pc : pc'[f] \in {pc[f], HealthyPC[f]} \/ pc'[f] \in Values(f)
    BY <1>1, <2>1
  <2> QED
    BY <2>1, <2>2, <2>3, ChangedPC
<1>4. StateInv'
  <2>1. trouble \in 0 .. MaxTrouble /\ MaxTrouble \in Nat
    BY PipelineAssumption DEF StateInv
  <2>2. trouble' \in 0 .. MaxTrouble
    BY <1>2, <2>1
  <2> QED
    BY <1>2, <1>3, <2>2 DEF StateInv
<1>5. MeasuredInv'
  BY <1>2 DEF MeasuredInv
<1>6. DiagnosisInv'
  BY <1>2 DEF DiagnosisInv
<1>7. OffersInv'
  BY <1>2 DEF OffersInv
<1> QED
  BY <1>4, <1>5, <1>6, <1>7

(* Every step of the session keeps the invariant. *)
LEMMA NextInv == PipelineInv /\ [Next]_vars => PipelineInv'
<1> SUFFICES ASSUME PipelineInv, [Next]_vars PROVE PipelineInv'
  OBVIOUS
<1>1. CASE Investigate
  BY <1>1, InvestigateInv
<1>2. CASE FollowUp
  BY <1>2, FollowUpInv
<1>3. CASE Diagnose
  BY <1>3, DiagnoseInv
<1>4. CASE \E p \in proposals \cup {applied} : Apply(p) \/ ApplyTimesOut(p)
  BY <1>4, ApplyInv
<1>5. CASE \E fix \in late : LateFixEnds(fix)
  BY <1>5, LateInv
<1>6. CASE Verify
  BY <1>6, VerifyInv
<1>7. CASE Continue
  BY <1>7, ContinueInv
<1>8. CASE Drift
  BY <1>8, DriftInv
<1>9. CASE UNCHANGED vars
  BY <1>9 DEF vars, PipelineInv, StateInv, MeasuredInv, DiagnosisInv, OffersInv
<1> QED
  BY <1>1, <1>2, <1>3, <1>4, <1>5, <1>6, <1>7, <1>8, <1>9 DEF Next

(* PipelineInv holds throughout. *)
LEMMA AlwaysInv == Spec => []PipelineInv
BY InitInv, NextInv, PTL DEF Spec

-----------------------------------------------------------------------------
(* What follows from it                                                    *)

(* The state of a session has its types: what was measured was run, what is *)
(* proposed names fixes of the catalog and causes of the diagnosis, and no  *)
(* more is tried than is counted.                                           *)
THEOREM PipelineTypes == Spec => []TypeOK
<1>1. PipelineInv => TypeOK
  <2> SUFFICES ASSUME PipelineInv PROVE TypeOK
    OBVIOUS
  <2>1. /\ phase \in {"new", "checked", "diagnosed", "applied", "verified"}
        /\ category \in Categories /\ depth \in Depths
        /\ provider \in {"local", "ai"} /\ rounds \in 0 .. MaxRounds
        /\ IsPC(pc) /\ DOMAIN results \subseteq ran /\ repeated \subseteq ran
        /\ success \in BOOLEAN /\ improved \in BOOLEAN /\ trouble \in 0 .. MaxTrouble
    BY DEF PipelineInv, StateInv, MeasuredInv
  <2>2. diagnosis.level \in {CRITICAL, CAUTION, OK}
    <3>1. NoDiagnosis.level = OK
      BY DEF NoDiagnosis
    <3>2. \A r : analyze(category, r).level \in {CRITICAL, CAUTION, OK}
      BY LevelFacts
    <3> QED
      BY <3>1, <3>2 DEF PipelineInv, DiagnosisInv
  <2>3. ASSUME NEW p \in proposals
        PROVE  p \in [fix : DOMAIN FIXES, parameters : SUBSET {"adapter_name"},
                      cause : {c.id : c \in diagnosis.causes} \cup {NoCause}]
    <3>1. Offer(p, diagnosis)
      BY DEF PipelineInv, OffersInv
    <3>2. p.fix \in DOMAIN FIXES /\ p.parameters \in SUBSET {"adapter_name"}
      BY <3>1, ProposableFixes DEF Offer
    <3>3. p.cause \in {c.id : c \in diagnosis.causes} \cup {NoCause}
      BY <3>1 DEF Offer, EvidenceBacked
    <3>4. p = [fix |-> p.fix, parameters |-> p.parameters, cause |-> p.cause]
      BY <3>1 DEF Offer, Proposal
    <3> QED
      BY <3>2, <3>3, <3>4
  <2>4. applied.fix \in DOMAIN FIXES \cup {NoFix} /\ tried \subseteq DOMAIN FIXES
        /\ late \subseteq tried /\ attempts \in Cardinality(tried) .. MaxAttempts
    BY ProposableFixes DEF PipelineInv, OffersInv
  <2> QED
    BY <2>1, <2>2, <2>3, <2>4 DEF TypeOK
<1> QED
  BY <1>1, AlwaysInv, PTL

(* Whatever names a plan, an AI or a fix asks for, only read-only checks    *)
(* ever run, and no more of them before the first fix than a session may    *)
(* take.                                                                    *)
THEOREM OnlyChecksEverRun == Spec => []OnlyChecksRun
<1>1. PipelineInv => OnlyChecksRun
  BY DEF PipelineInv, MeasuredInv, OnlyChecksRun
<1> QED
  BY <1>1, AlwaysInv, PTL

(* Every proposal passes the safety layer once the user has agreed to it.   *)
THEOREM OffersNeverRefused == Spec => []OffersAreNotRefused
<1>1. PipelineInv => OffersAreNotRefused
  BY DEF PipelineInv, OffersInv, OffersAreNotRefused, Offer
<1> QED
  BY <1>1, AlwaysInv, PTL

(* A check that fails never makes a diagnosis graver, whatever the PC, the  *)
(* problem and the other checks.                                            *)
THEOREM MissingEvidenceStaysMild == Spec => []MissingEvidenceNeverAlarms
<1>1. PipelineInv => MissingEvidenceNeverAlarms
  <2> SUFFICES ASSUME PipelineInv, phase = "diagnosed", tried = {}, NEW t \in DOMAIN results
               PROVE  analyze(category, Restrict(results, DOMAIN results \ {t})).level
                         >= diagnosis.level
    BY DEF MissingEvidenceNeverAlarms
  <2> DEFINE less == Restrict(results, DOMAIN results \ {t})
  <2>1. diagnosis = analyze(category, results)
    BY DEF PipelineInv, DiagnosisInv
  <2>2. PICK p : IsPC(p) /\ Honest(results, p)
    BY DEF PipelineInv, DiagnosisInv
  <2>3. DOMAIN less \subseteq DOMAIN results /\ \A u \in DOMAIN less : less[u] = results[u]
    BY DEF Restrict
  <2> HIDE DEF less
  <2>4. Honest(less, p)
    BY <2>2, <2>3 DEF Honest
  <2>5. analyze(category, less).level >= analyze(category, results).level
    BY <2>2, <2>3, <2>4, MissingIsMilder
  <2> QED
    BY <2>1, <2>5 DEF less
<1> QED
  BY <1>1, AlwaysInv, PTL

-----------------------------------------------------------------------------
(* What is measured for sure                                               *)

(* Every check is accepted: none needs arguments. *)
LEMMA ChecksAreAccepted == DIAGNOSTICS \subseteq Accepted
<1> SUFFICES ASSUME NEW t \in DIAGNOSTICS PROVE t \in Accepted
  OBVIOUS
<1>1. t # "restart_network_adapter" /\ t # "terminate_unresponsive_application"
  BY DEF DIAGNOSTICS
<1>2. required(t) = {}
  BY <1>1 DEF required
<1>3. validate_arguments(t, {})
  BY <1>2 DEF validate_arguments
<1>4. AcceptedCheck(t)
  BY <1>3 DEF AcceptedCheck, validate_tool_selection, has, is_read_only
<1> QED
  BY <1>4 DEF Accepted

(* The checks of a category are in the plan of the local rules, as far as   *)
(* the limits reach.                                                        *)
LEMMA LocalHas ==
    ASSUME NEW cat \in Categories, NEW dep, NEW i \in DOMAIN get_category_spec(cat).checks,
           i <= MaxSteps, dep = "quick" => i <= 4
    PROVE  get_category_spec(cat).checks[i] \in LocalPlan(cat, dep)
<1> DEFINE checks == get_category_spec(cat).checks
           more == IF dep = "thorough" THEN get_category_spec(cat).thorough ELSE <<>>
           listed == Listed(cat, dep, <<>>)
           n == IF dep = "quick" THEN Min({4, MaxSteps}) ELSE MaxSteps
<1>1. checks \in Seq(DIAGNOSTICS) /\ more \in Seq(DIAGNOSTICS) /\ MaxSteps \in Nat
  BY CategoryLists, PipelineAssumption
<1>2. listed = <<>> \o checks \o more
  BY DEF Listed
<1>3. i \in DOMAIN checks
  OBVIOUS
<1>4. n \in Nat /\ i <= n /\ i \in Nat
  <2>1. Min({4, MaxSteps}) = IF 4 <= MaxSteps THEN 4 ELSE MaxSteps
    BY <1>1, MinOfTwo
  <2>2. i \in Nat
    BY <1>1, <1>3
  <2> QED
    BY <1>1, <2>1, <2>2
<1> HIDE DEF checks, more, n
<1>5. <<>> \o checks = checks
  BY <1>1, ConcatEmptySeq
<1>6. listed \in Seq(DIAGNOSTICS) /\ i \in DOMAIN listed /\ listed[i] = checks[i]
  <2>1. listed = checks \o more
    BY <1>2, <1>5
  <2> HIDE DEF listed
  <2>2. /\ listed \in Seq(DIAGNOSTICS) /\ Len(listed) = Len(checks) + Len(more)
        /\ \A k \in 1 .. Len(checks) : listed[k] = checks[k]
    BY <1>1, <2>1, ConcatProperties
  <2>3. Len(checks) \in Nat /\ Len(more) \in Nat /\ i \in 1 .. Len(checks)
    BY <1>1, <1>3
  <2> QED
    BY <2>2, <2>3
<1>7. checks[i] \in DIAGNOSTICS
  BY <1>1, <1>3
<1>8. checks[i] \in Range(listed) \cap Accepted
  BY <1>6, <1>7, ChecksAreAccepted DEF Range
<1>9. LocalPlan(cat, dep) = FirstOf(listed, Accepted, n)
  BY <1>8 DEF LocalPlan, Plan, n
<1> HIDE DEF listed
<1>10. listed[i] \in FirstOf(listed, Accepted, n)
  BY <1>4, <1>6, <1>7, ChecksAreAccepted, FirstOfHas
<1> QED
  BY <1>6, <1>9, <1>10 DEF checks

(* A problem that fits no category gets the checks of the broad sweep.      *)
LEMMA SweepHas ==
    ASSUME NEW dep, NEW i \in DOMAIN GENERAL_TOOLS, i <= MaxSteps, dep # "quick"
    PROVE  GENERAL_TOOLS[i] \in LocalPlan("unknown", dep)
<1> DEFINE listed == Listed("unknown", dep, <<>>)
<1>1. listed = <<>>
  <2>1. /\ get_category_spec("unknown").checks = <<>>
        /\ get_category_spec("unknown").thorough = <<>>
    BY CategoryTable DEF CategorySpec
  <2>2. listed = <<>> \o <<>> \o <<>>
    BY <2>1 DEF Listed
  <2> QED
    BY <2>2
<1>2. Range(listed) = {}
  BY <1>1 DEF Range
<1>3. GENERAL_TOOLS \in Seq(DIAGNOSTICS)
  BY CheckNames DEF GENERAL_TOOLS
<1>4. LocalPlan("unknown", dep) = FirstOf(GENERAL_TOOLS, Accepted, MaxSteps)
  BY <1>2 DEF LocalPlan, Plan
<1>5. GENERAL_TOOLS[i] \in Accepted
  BY <1>3, ChecksAreAccepted
<1> QED
  BY <1>3, <1>4, <1>5, PipelineAssumption, FirstOfHas

(* Without an AI, the plan of the local rules was carried out.              *)
PlannedInv == provider = "local" /\ phase # "new" => LocalPlan(category, depth) \subseteq ran

(* PlannedInv holds throughout: a plan is cut off at its end only, and the  *)
(* router is asked early in each plan that asks it.                         *)
LEMMA PlannedAlways == Spec => []PlannedInv
<1>1. Init => PlannedInv
  BY DEF Init, PlannedInv
<1>2. PlannedInv /\ [Next]_vars => PlannedInv'
  <2> SUFFICES ASSUME PlannedInv, [Next]_vars PROVE PlannedInv'
    OBVIOUS
  <2>1. \A plan, n : Started(plan, n) =>
           plan \subseteq ran' /\ UNCHANGED <<category, depth, provider>>
    BY DEF Started, Run, settingsVars
  <2>2. CASE Investigate
    <3>1. \/ Started(LocalPlan(category, depth), 1)
          \/ provider = "ai" /\ UNCHANGED <<category, depth, provider>>
      BY <2>1, <2>2 DEF Investigate
    <3>2. CASE Started(LocalPlan(category, depth), 1)
      <4> DEFINE plan == LocalPlan(category, depth)
      <4>1. plan \subseteq ran' /\ UNCHANGED <<category, depth, provider>>
        BY <3>2 DEF Started, Run, settingsVars
      <4> QED
        BY <4>1 DEF PlannedInv
    <3> QED
      BY <3>1, <3>2 DEF PlannedInv
  <2>3. CASE ~Investigate
    <3>1. /\ ran \subseteq ran' /\ UNCHANGED <<category, depth, provider>>
          /\ phase = "new" => phase' = "new"
      <4>1. CASE FollowUp
        BY <4>1 DEF FollowUp, Run, settingsVars
      <4>2. CASE Diagnose
        BY <4>2 DEF Diagnose, Run, settingsVars
      <4>3. CASE \E p \in proposals \cup {applied} : Apply(p) \/ ApplyTimesOut(p)
        BY <4>3 DEF Apply, ApplyTimesOut, Approved, settingsVars
      <4>4. CASE \E fix \in late : LateFixEnds(fix)
        BY <4>4 DEF LateFixEnds, settingsVars
      <4>5. CASE Verify
        BY <4>5 DEF Verify, settingsVars
      <4>6. CASE Continue
        BY <4>6 DEF Continue, Run, settingsVars
      <4>7. CASE Drift
        BY <4>7 DEF Drift, settingsVars
      <4>8. CASE UNCHANGED vars
        BY <4>8 DEF vars
      <4> QED
        BY <2>3, <4>1, <4>2, <4>3, <4>4, <4>5, <4>6, <4>7, <4>8 DEF Next
    <3>2. LocalPlan(category, depth)' = LocalPlan(category, depth)
      BY <3>1
    <3> QED
      BY <3>1, <3>2 DEF PlannedInv
  <2> QED
    BY <2>2, <2>3
<1> QED
  BY <1>1, <1>2, PTL DEF Spec

-----------------------------------------------------------------------------
(* What is wrong with a PC                                                 *)

(* What is wrong with a PC, part by part: it differs from the healthy one. *)
LEMMA WrongFacts ==
    ASSUME NEW p
    PROVE  /\ Wrong(p, "adapters") <=> p.adapters = 0
           /\ Wrong(p, "indexer") <=> p.WSearch = "running" /\ p.indexer # "normal"
           /\ \A s \in Services : Wrong(p, s) <=>
                 p[s] = "closing" \/ (p[s] \in {"stopped", "missing"} /\ s \notin OnDemand)
           /\ Wrong(p, "memory") <=> p.memory # 50
           /\ Wrong(p, "cpu") <=> p.cpu # 20
           /\ Wrong(p, "free") <=> p.free # 80
           /\ Wrong(p, "temp") <=> p.temp # 100
           /\ Wrong(p, "recycle") <=> p.recycle # 0
           /\ Wrong(p, "hung") <=> p.hung # FALSE
           /\ Wrong(p, "crashes") <=> p.crashes # 0
           /\ Wrong(p, "startup") <=> p.startup # 5
           /\ Wrong(p, "reboot") <=> p.reboot # FALSE
           /\ Wrong(p, "devices") <=> p.devices # 0
           /\ Wrong(p, "bluetooth") <=> p.bluetooth # "fine"
           /\ Wrong(p, "gateway") <=> p.gateway # "replies"
           /\ Wrong(p, "dns") <=> p.dns # TRUE
           /\ Wrong(p, "internet") <=> p.internet # TRUE
           /\ Wrong(p, "gpu") <=> p.gpu # "fine"
           /\ Wrong(p, "gpu_load") <=> p.gpu_load # 30
           /\ Wrong(p, "gpu_app") <=> p.gpu_app # 0
           /\ Wrong(p, "resets") <=> p.resets # 0
<1> DEFINE others == {"memory", "cpu", "free", "temp", "recycle", "hung", "crashes", "startup",
                      "reboot", "devices", "bluetooth", "gateway", "dns", "internet", "gpu",
                      "gpu_load", "gpu_app", "resets"}
<1>1. ASSUME NEW f \in others PROVE Wrong(p, f) <=> p[f] # HealthyParts[f]
  <2>1. f \notin Services /\ f # "adapters" /\ f # "indexer"
    BY DEF Services
  <2>2. f \in DOMAIN HealthyParts
    BY DEF HealthyParts
  <2> HIDE DEF others
  <2>3. HealthyPC[f] = HealthyParts[f]
    BY <2>1, <2>2 DEF HealthyPC
  <2> QED
    BY <2>1, <2>3 DEF Wrong
<1>2. /\ HealthyParts["memory"] = 50 /\ HealthyParts["cpu"] = 20 /\ HealthyParts["free"] = 80
      /\ HealthyParts["temp"] = 100 /\ HealthyParts["recycle"] = 0
      /\ HealthyParts["hung"] = FALSE /\ HealthyParts["crashes"] = 0
      /\ HealthyParts["startup"] = 5 /\ HealthyParts["reboot"] = FALSE
      /\ HealthyParts["devices"] = 0 /\ HealthyParts["bluetooth"] = "fine"
      /\ HealthyParts["gateway"] = "replies" /\ HealthyParts["dns"] = TRUE
      /\ HealthyParts["internet"] = TRUE /\ HealthyParts["gpu"] = "fine"
      /\ HealthyParts["gpu_load"] = 30 /\ HealthyParts["gpu_app"] = 0
      /\ HealthyParts["resets"] = 0
  BY DEF HealthyParts
<1>3. Wrong(p, "adapters") <=> p.adapters = 0
  <2>1. "adapters" \notin Services
    BY DEF Services
  <2> QED
    BY <2>1 DEF Wrong
<1>4. Wrong(p, "indexer") <=> p.WSearch = "running" /\ p.indexer # "normal"
  <2>1. "indexer" \notin Services
    BY DEF Services
  <2> QED
    BY <2>1 DEF Wrong
<1>5. \A s \in Services : Wrong(p, s) <=>
         p[s] = "closing" \/ (p[s] \in {"stopped", "missing"} /\ s \notin OnDemand)
  BY DEF Wrong, Services
<1>6. /\ Wrong(p, "memory") <=> p.memory # 50
      /\ Wrong(p, "cpu") <=> p.cpu # 20
      /\ Wrong(p, "free") <=> p.free # 80
      /\ Wrong(p, "temp") <=> p.temp # 100
      /\ Wrong(p, "recycle") <=> p.recycle # 0
      /\ Wrong(p, "hung") <=> p.hung # FALSE
  BY <1>1, <1>2, ZenonT(60)
<1>7. /\ Wrong(p, "crashes") <=> p.crashes # 0
      /\ Wrong(p, "startup") <=> p.startup # 5
      /\ Wrong(p, "reboot") <=> p.reboot # FALSE
      /\ Wrong(p, "devices") <=> p.devices # 0
      /\ Wrong(p, "bluetooth") <=> p.bluetooth # "fine"
      /\ Wrong(p, "gateway") <=> p.gateway # "replies"
  BY <1>1, <1>2, ZenonT(30)
<1>8. /\ Wrong(p, "dns") <=> p.dns # TRUE
      /\ Wrong(p, "internet") <=> p.internet # TRUE
      /\ Wrong(p, "gpu") <=> p.gpu # "fine"
      /\ Wrong(p, "gpu_load") <=> p.gpu_load # 30
      /\ Wrong(p, "gpu_app") <=> p.gpu_app # 0
      /\ Wrong(p, "resets") <=> p.resets # 0
  BY <1>1, <1>2, ZenonT(30)
<1> QED
  BY <1>3, <1>4, <1>5, <1>6, <1>7, <1>8

(* What a problem with a service says about it. *)
LEMMA ServiceSigns ==
    ASSUME NEW r, NEW p, Honest(r, p), IsPC(p), NEW cat, NEW name \in ServiceNames
    PROVE  /\ ServiceOff(r, cat, name) <=>
                 /\ cat \in SERVICE_RULES[name].matters
                 /\ ServiceTools(name) \cap DOMAIN r # {}
                 /\ p[name] = "closing"
           /\ ServiceDown(r, cat, name) <=>
                 /\ cat \in SERVICE_RULES[name].matters
                 /\ ServiceTools(name) \cap DOMAIN r # {}
                 /\ p[name] \in {"stopped", "missing"} /\ name \notin OnDemand
<1> DEFINE status == service_status(name, p[name])
<1>1. name \in Services
  BY DEF ServiceNames, ServiceOrder, Services
<1>2. Service(r, name) = Seen(r, ServiceTools(name), status)
  BY <1>1, ServiceReadings
<1>3. p[name] \in ServiceStates
  BY <1>1, PCFacts
<1>4. /\ status.disabled <=> p[name] \in {"disabled", "closing"}
      /\ status.healthy <=> \/ p[name] \in {"running", "idle", "disabled"}
                            \/ p[name] \in {"stopped", "missing"} /\ name \in OnDemand
  BY DEF service_status
<1>5. /\ ~status.healthy /\ status.disabled <=> p[name] = "closing"
      /\ ~status.healthy /\ ~status.disabled <=>
            p[name] \in {"stopped", "missing"} /\ name \notin OnDemand
  BY <1>3, <1>4 DEF ServiceStates
<1> HIDE DEF status
<1> QED
  BY <1>2, <1>5 DEF ServiceOff, ServiceDown, Seen

(* The evidence for a cause with a fix shows a fault that the fix is about; *)
(* only a name lookup that fails needs the answer of the router as well.    *)
LEMMA FixFault ==
    ASSUME NEW r, NEW p, Honest(r, p), IsPC(p), NEW cat,
           cat \in NetCategories => "ping_gateway" \in DOMAIN r,
           NEW c \in Found(r, cat), IsProblem(c), c.fix # NoFix
    PROVE  \E f \in About(c.fix) : Wrong(p, f)
<1> DEFINE Goal == \E f \in About(c.fix) : Wrong(p, f)
<1>1. Sign(r, cat, c.id) /\ Described(c)
  BY ProblemShown
<1>2. /\ About("restart_windows_search") = {"WSearch", "indexer", "memory"}
      /\ About("clear_safe_temp_files") = {"temp", "free"}
      /\ About("empty_recycle_bin") = {"recycle", "free"}
      /\ About("flush_dns") = {"dns"}
      /\ "adapters" \in About("restart_wlan_service")
      /\ {"adapters", "gateway"} \subseteq About("restart_network_adapter")
      /\ {"adapters", "gateway"} \subseteq About("renew_ip_configuration")
  BY DEF About, ServiceOf, Benefits
<1>3. ASSUME NEW fix \in DOMAIN ServiceOf PROVE ServiceOf[fix] \in About(fix)
  <2>1. About(fix) = {ServiceOf[fix]} \cup Benefits(fix)
    BY DEF About, ServiceOf
  <2> QED
    BY <2>1
<1>4. /\ Wrong(p, "adapters") <=> p.adapters = 0
      /\ Wrong(p, "free") <=> p.free # 80
      /\ Wrong(p, "temp") <=> p.temp # 100
      /\ Wrong(p, "recycle") <=> p.recycle # 0
      /\ Wrong(p, "gateway") <=> p.gateway # "replies"
      /\ Wrong(p, "dns") <=> p.dns # TRUE
  BY WrongFacts, ZenonT(30)
<1>5. /\ p.free \in 0 .. 100 /\ p.temp \in Nat /\ p.recycle \in Nat /\ p.adapters \in Nat
      /\ p.dns \in BOOLEAN
  BY PCFacts
<1>6. CASE c.id = "search_indexer" /\ c.fix = "restart_windows_search"
  <2>1. IndexerFaulty(r)
    BY <1>1, <1>6, SignMeans DEF IndexerBad
  <2>2. \/ p.WSearch = "running" /\ p.indexer \in {"stuck", "large"}
        \/ p.WSearch \in {"stopped", "closing", "missing"}
    BY <2>1, IndexerReadings
  <2>3. Wrong(p, "indexer") \/ Wrong(p, "WSearch")
    BY <2>2, WrongFacts DEF Services, OnDemand
  <2> QED
    BY <1>2, <1>6, <2>3
<1>7. CASE c.id = "temp_files" /\ c.fix = "clear_safe_temp_files"
  <2>1. TempFull(r, cat)
    BY <1>1, <1>7, SignMeans
  <2>2. p.temp >= 500
    BY <2>1, Readings DEF TempFull, Seen, get_reclaimable_space
  <2> QED
    BY <1>2, <1>4, <1>7, <2>2
<1>8. CASE c.id = "recycle_bin" /\ c.fix = "empty_recycle_bin"
  <2>1. RecycleFull(r, cat)
    BY <1>1, <1>8, SignMeans
  <2>2. p.recycle >= 500
    BY <2>1, Readings DEF RecycleFull, Seen, get_reclaimable_space
  <2> QED
    BY <1>2, <1>4, <1>8, <2>2
<1>9. CASE c.id = "update_space" /\ c.fix = "clear_safe_temp_files"
  <2>1. UpdateSpaceLow(r, cat)
    BY <1>1, <1>9, SignMeans
  <2>2. p.free < 10
    <3>1. \E d \in Disk(r) : FreeOr99(d) < 10
      BY <2>1 DEF UpdateSpaceLow
    <3>2. FreeOr99(DiskOf(p)) < 10
      BY <3>1, Readings DEF Seen
    <3> QED
      BY <3>2, <1>5 DEF FreeOr99, DiskOf
  <2> QED
    BY <1>2, <1>4, <1>9, <2>2
<1>10. CASE c.id = "no_adapter" /\ c.fix \in {"restart_wlan_service", "restart_network_adapter"}
  <2>1. LinkDown(r, cat)
    BY <1>1, <1>10, SignMeans
  <2>2. p.adapters = 0
    BY <2>1, Readings DEF LinkDown, NoLink, Seen
  <2> QED
    BY <1>2, <1>4, <1>10, <2>2
<1>11. CASE c.id = "gateway_unreachable" /\ c.fix = "restart_network_adapter"
  <2>1. RouterSilent(r, cat)
    BY <1>1, <1>11, SignMeans
  <2>2. ~ping_gateway(p).reachable /\ ping_gateway(p).gateway
    BY <2>1, Readings DEF RouterSilent, Seen
  <2>3. p.gateway # "replies"
    BY <2>2 DEF ping_gateway
  <2> QED
    BY <1>2, <1>4, <1>11, <2>3
<1>12. CASE c.id = "no_gateway" /\ c.fix = "renew_ip_configuration"
  <2>1. RouterMissing(r, cat)
    BY <1>1, <1>12, SignMeans
  <2>2. ~ping_gateway(p).gateway
    BY <2>1, Readings DEF RouterMissing, Seen
  <2>3. ~Routed(p)
    BY <2>2 DEF ping_gateway
  <2>4. p.adapters = 0 \/ p.gateway # "replies"
    BY <2>3, <1>5 DEF Routed
  <2> QED
    BY <1>2, <1>4, <1>12, <2>4
<1>13. CASE c.id = "dns_failure" /\ c.fix = "flush_dns"
  <2>1. DnsFails(r, cat)
    BY <1>1, <1>13, SignMeans
  <2>2. FALSE \in DnsWorking(r) /\ ~Silent(r) /\ "ping_gateway" \in DOMAIN r
    BY <2>1 DEF DnsFails
  <2> DEFINE dns == p.dns /\ Routed(p)
  <2>3. DnsWorking(r) = Seen(r, {"test_dns"}, dns) /\ Gateway(r) = {ping_gateway(p)}
    BY <2>2, Readings DEF Seen
  <2>4. ~dns
    <3> HIDE DEF dns
    <3> QED
      BY <2>2, <2>3 DEF Seen
  <2>5. Routed(p)
    <3>1. ping_gateway(p).reachable
      <4> HIDE DEF dns
      <4> QED
        BY <2>2, <2>3 DEF Silent
    <3>2. ping_gateway(p).reachable = (Routed(p) /\ p.gateway = "replies")
      BY DEF ping_gateway
    <3> QED
      BY <3>1, <3>2
  <2>6. p.dns # TRUE
    BY <2>4, <2>5
  <2> QED
    BY <1>2, <1>4, <1>13, <2>6
<1>14. ASSUME NEW name \in ServiceNames, c.id = Stopped[name], c.fix = SERVICE_RULES[name].fix
       PROVE  Goal
  <2>1. ServiceDown(r, cat, name)
    BY <1>1, <1>14, SignMeans
  <2>2. p[name] \in {"stopped", "missing"} /\ name \notin OnDemand
    BY <2>1, ServiceSigns
  <2>3. name \in Services
    BY DEF ServiceNames, ServiceOrder, Services
  <2>4. Wrong(p, name)
    BY <2>2, <2>3, WrongFacts
  <2>5. SERVICE_RULES[name].fix # NoFix =>
           /\ SERVICE_RULES[name].fix \in DOMAIN ServiceOf
           /\ ServiceOf[SERVICE_RULES[name].fix] = name
    BY DEF ServiceNames, ServiceOrder, SERVICE_RULES, ServiceOf, NoFix
  <2> QED
    BY <1>3, <1>14, <2>4, <2>5
<1> HIDE DEF Goal
<1>15. ASSUME NEW name \in ServiceNames,
              \/ Says(c, Disabled[name], NoFix,
                      {"get_important_services", "get_windows_update_status"})
              \/ Says(c, Stopped[name], SERVICE_RULES[name].fix,
                      {"get_important_services", "get_windows_update_status",
                       "get_network_services_status"})
       PROVE  Goal
  BY <1>14, <1>15 DEF Says
<1>16. Goal
  <2>1. CASE \E name \in ServiceNames :
               \/ Says(c, Disabled[name], NoFix,
                       {"get_important_services", "get_windows_update_status"})
               \/ Says(c, Stopped[name], SERVICE_RULES[name].fix,
                       {"get_important_services", "get_windows_update_status",
                        "get_network_services_status"})
    BY <1>15, <2>1
  <2>2. CASE \E fix \in {"restart_wlan_service", "restart_network_adapter"} :
               Says(c, "no_adapter", fix, {"get_network_adapters"})
    <3>1. PICK fix \in {"restart_wlan_service", "restart_network_adapter"} :
                 Says(c, "no_adapter", fix, {"get_network_adapters"})
      BY <2>2
    <3>2. c.id = "no_adapter" /\ c.fix = fix
      BY <3>1 DEF Says
    <3> QED
      BY <1>10, <3>2 DEF Goal
  <2>3. CASE ~(\E name \in ServiceNames :
               \/ Says(c, Disabled[name], NoFix,
                       {"get_important_services", "get_windows_update_status"})
               \/ Says(c, Stopped[name], SERVICE_RULES[name].fix,
                       {"get_important_services", "get_windows_update_status",
                        "get_network_services_status"}))
             /\ ~(\E fix \in {"restart_wlan_service", "restart_network_adapter"} :
               Says(c, "no_adapter", fix, {"get_network_adapters"}))
    <3>1. \/ c.id = "search_indexer" /\ c.fix = "restart_windows_search"
          \/ c.id = "temp_files" /\ c.fix = "clear_safe_temp_files"
          \/ c.id = "recycle_bin" /\ c.fix = "empty_recycle_bin"
          \/ c.id = "update_space" /\ c.fix = "clear_safe_temp_files"
          \/ c.id = "gateway_unreachable" /\ c.fix = "restart_network_adapter"
          \/ c.id = "no_gateway" /\ c.fix = "renew_ip_configuration"
          \/ c.id = "dns_failure" /\ c.fix = "flush_dns"
      BY <1>1, <2>3, ZenonT(60) DEF Described, Says
    <3> QED
      BY <3>1, <1>6, <1>7, <1>8, <1>9, <1>11, <1>12, <1>13 DEF Goal
  <2> QED
    BY <2>1, <2>2, <2>3
<1> QED
  BY <1>16 DEF Goal

-----------------------------------------------------------------------------
(* FixAddressesAFault                                                      *)

(* The checks of the category that the step limit leaves in the plan were   *)
(* run, unless those that an AI asked for crowded them out.                 *)
LEMMA CheckRan ==
    ASSUME PipelineInv, PlannedInv, Unabridged, phase # "new",
           NEW i \in DOMAIN get_category_spec(category).checks,
           i <= MaxSteps, depth = "quick" => i <= 4
    PROVE  get_category_spec(category).checks[i] \in ran
<1>1. category \in Categories /\ provider \in {"local", "ai"}
  BY DEF PipelineInv, StateInv
<1>2. CASE provider = "local"
  <2>1. LocalPlan(category, depth) \subseteq ran
    BY <1>2 DEF PlannedInv
  <2> QED
    BY <1>1, <2>1, LocalHas
<1>3. CASE provider # "local"
  <2>1. LocalPlan(category, "standard") \subseteq ran
    BY <1>3 DEF Unabridged
  <2>2. get_category_spec(category).checks[i] \in LocalPlan(category, "standard")
    BY <1>1, LocalHas
  <2> QED
    BY <2>1, <2>2
<1> QED
  BY <1>2, <1>3

(* The plan for a problem of the network asks whether the router answers.   *)
LEMMA RouterPlanned ==
    ASSUME MaxSteps >= 3, category \in NetCategories, category \in Categories, NEW dep
    PROVE  "ping_gateway" \in LocalPlan(category, dep)
<1> DEFINE checks == get_category_spec(category).checks
<1>1. CASE category \in {"internet_down", "wifi_disconnecting"}
  <2>1. checks = NET
    BY <1>1, CategoryTable DEF InternetDown, WifiDisconnecting, CategorySpec
  <2>2. 2 \in DOMAIN checks /\ checks[2] = "ping_gateway"
    BY <2>1 DEF NET
  <2>3. 2 <= MaxSteps
    BY PipelineAssumption
  <2> QED
    BY <2>2, <2>3, LocalHas
<1>2. CASE category = "dns_problems"
  <2>1. checks = <<"test_dns", "test_internet", "ping_gateway", "get_network_services_status">>
    BY <1>2, CategoryTable DEF DnsProblems, CategorySpec
  <2>2. 3 \in DOMAIN checks /\ checks[3] = "ping_gateway"
    BY <2>1
  <2> QED
    BY <2>2, LocalHas
<1> QED
  BY <1>1, <1>2 DEF NetCategories

(* An investigation of the network asks whether the router answers.         *)
LEMMA RouterAsked ==
    ASSUME MaxSteps >= 3, PipelineInv, PlannedInv, Unabridged, phase # "new",
           category \in NetCategories
    PROVE  "ping_gateway" \in ran
<1>1. /\ category \in Categories /\ provider \in {"local", "ai"}
      /\ provider = "local" => LocalPlan(category, depth) \subseteq ran
      /\ provider # "local" => LocalPlan(category, "standard") \subseteq ran
  BY DEF PipelineInv, StateInv, PlannedInv, Unabridged
<1>2. \A dep : "ping_gateway" \in LocalPlan(category, dep)
  BY <1>1, RouterPlanned
<1> QED
  BY <1>1, <1>2

(* A fix is proposed on evidence only when something it is about is wrong.  *)
(* Of a plan cut to one or two steps the answer of the router may be        *)
(* missing, without which a missing route is taken for a failing DNS.       *)
THEOREM FixesAddressFaults ==
    ASSUME MaxSteps >= 3
    PROVE  Spec => []FixAddressesAFault
<1>1. PipelineInv /\ PlannedInv => FixAddressesAFault
  <2> SUFFICES ASSUME PipelineInv, PlannedInv, Current, Unabridged,
                      NEW p \in proposals, EvidenceBacked(p)
               PROVE  \E f \in About(p.fix) : Wrong(pc, f)
    BY DEF FixAddressesAFault
  <2>1. /\ diagnosis = analyze(category, results) /\ IsPC(pc)
        /\ phase = "diagnosed" /\ DOMAIN results = ran
        /\ Honest(results, pc)
    BY DEF PipelineInv, DiagnosisInv, StateInv, Current, Honest
  <2>2. Offer(p, diagnosis)
    BY DEF PipelineInv, OffersInv
  <2>3. PICK c \in analyze(category, results).causes : IsProblem(c) /\ c.fix = p.fix
    BY <2>1, <2>2 DEF Offer
  <2>4. PICK b \in Found(results, category) : SameCause(c, b)
    BY CauseFound
  <2>5. IsProblem(b) /\ b.fix = p.fix
    BY <2>3, <2>4 DEF SameCause, IsProblem
  <2>6. p.fix # NoFix
    BY <2>2, ProposableFixes DEF Offer
  <2>7. category \in NetCategories => "ping_gateway" \in DOMAIN results
    BY <2>1, RouterAsked
  <2> QED
    BY <2>1, <2>5, <2>6, <2>7, FixFault
<1> QED
  BY <1>1, AlwaysInv, PlannedAlways, PTL

-----------------------------------------------------------------------------
(* AlarmingCardExplained                                                   *)

(* A red card is never shown under a diagnosis that found nothing, whatever *)
(* the readings behind the cards and the rules, and whenever they were      *)
(* taken.  Without the answer of the router an internet that cannot be      *)
(* reached has a red card and no cause: the plan must be long enough for it.*)
THEOREM RedCardsExplained ==
    ASSUME MaxSteps >= 3
    PROVE  Spec => []AlarmingCardExplained
<1>1. PipelineInv /\ PlannedInv => AlarmingCardExplained
  <2> SUFFICES ASSUME PipelineInv, PlannedInv, phase = "diagnosed", Unabridged,
                      DOMAIN results = ran,
                      NEW card \in Cards(category, results), card.level = CRITICAL
               PROVE  diagnosis.level # OK
    BY DEF AlarmingCardExplained
  <2>1. diagnosis = analyze(category, results) /\ Reported(results)
    BY DEF PipelineInv, DiagnosisInv, MeasuredInv
  <2>2. category \in NetCategories => Gateway(results) # {}
    <3>1. category \in NetCategories => "ping_gateway" \in DOMAIN results
      BY RouterAsked
    <3> QED
      BY <3>1, DataOne DEF Gateway
  <2> QED
    BY <2>1, <2>2, RedCardExplained
<1> QED
  BY <1>1, AlwaysInv, PlannedAlways, PTL

-----------------------------------------------------------------------------
(* NothingMissed                                                           *)

(* A value of a field that is out of the ordinary by enough to be a fault:  *)
(* beyond the threshold of the rule about it.                               *)
Telling(field, value) ==
    /\ field = "memory" => value >= 70
    /\ field = "cpu" => value >= 60
    /\ field = "free" => value <= 10
    /\ field \in {"temp", "recycle"} => value >= 500
    /\ field = "crashes" => value >= 3
    /\ field = "startup" => value >= 12
    /\ field = "gpu_load" => value >= 85
    /\ field = "gpu_app" => value >= 25

(* Before any fix, what is not as in a healthy PC is a fault.               *)
FaultInv == tried = {} => \A f \in DOMAIN HealthyPC :
               pc[f] = HealthyPC[f] \/ \E a \in Faults : a[1] = f /\ a[2] = pc[f]

(* FaultInv holds throughout: before a fix the PC is the healthy one with   *)
(* some of the faults.                                                      *)
LEMMA FaultAlways == Spec => []FaultInv
<1>1. Init => FaultInv
  <2> SUFFICES ASSUME Init, NEW f \in DOMAIN HealthyPC
               PROVE  pc[f] = HealthyPC[f] \/ \E a \in Faults : a[1] = f /\ a[2] = pc[f]
    BY DEF FaultInv
  <2>1. PICK faults \in {{}} \cup UNION {{{a, b} : a \in Faults} : b \in Faults} :
           pc = [g \in DOMAIN HealthyPC |->
                    IF \E a \in faults : a[1] = g
                    THEN (CHOOSE a \in faults : a[1] = g)[2] ELSE HealthyPC[g]]
    BY DEF Init
  <2>2. faults \subseteq Faults
    BY <2>1
  <2>3. CASE \E a \in faults : a[1] = f
    <3> DEFINE a == CHOOSE a \in faults : a[1] = f
    <3>1. a \in faults /\ a[1] = f
      BY <2>3
    <3>2. pc[f] = a[2]
      BY <2>1, <2>3
    <3> HIDE DEF a
    <3> QED
      BY <2>2, <3>1, <3>2
  <2>4. CASE ~\E a \in faults : a[1] = f
    BY <2>1, <2>4
  <2> QED
    BY <2>3, <2>4
<1>2. PipelineInv /\ FaultInv /\ [Next]_vars => FaultInv'
  <2> SUFFICES ASSUME PipelineInv, FaultInv, [Next]_vars, tried' = {},
                      NEW f \in DOMAIN HealthyPC
               PROVE  pc'[f] = HealthyPC[f] \/ \E a \in Faults : a[1] = f /\ a[2] = pc'[f]
    BY DEF FaultInv
  <2>1. late \subseteq tried /\ IsPC(pc)
    BY DEF PipelineInv, OffersInv, StateInv
  <2>2. CASE UNCHANGED <<pc, tried>>
    BY <2>2 DEF FaultInv
  <2>3. CASE Drift
    <3>1. tried = {}
      BY <2>3 DEF Drift
    <3>2. PICK a \in Faults : \E value \in {a[2], HealthyPC[a[1]]} \ {pc[a[1]]} :
                 pc' = [pc EXCEPT ![a[1]] = value]
      BY <2>3 DEF Drift
    <3>3. PICK value \in {a[2], HealthyPC[a[1]]} : pc' = [pc EXCEPT ![a[1]] = value]
      BY <3>2
    <3>4. f \in DOMAIN pc
      BY <2>1 DEF IsPC
    <3> QED
      BY <3>1, <3>3, <3>4 DEF FaultInv
  <2>4. \A p : ~Apply(p) /\ ~ApplyTimesOut(p)
    BY DEF Apply, ApplyTimesOut, Approved
  <2>5. \A fix \in late : ~LateFixEnds(fix)
    BY <2>1 DEF LateFixEnds
  <2>6. Investigate \/ FollowUp \/ Diagnose \/ Verify \/ Continue \/ UNCHANGED vars
           => UNCHANGED <<pc, tried>>
    BY DEF Investigate, Started, FollowUp, Diagnose, Verify, Continue, vars
  <2> QED
    BY <2>2, <2>3, <2>4, <2>5, <2>6 DEF Next
<1> QED
  BY <1>1, <1>2, AlwaysInv, PTL DEF Spec

(* So a fault of a field that a threshold is about is beyond it.            *)
LEMMA FaultsTell ==
    ASSUME \A a \in Faults : Telling(a[1], a[2]), FaultInv, tried = {},
           NEW f \in DOMAIN HealthyPC, pc[f] # HealthyPC[f]
    PROVE  Telling(f, pc[f])
BY DEF FaultInv

(* A fault that a check of the category sees is the sign of a problem.      *)
LEMMA SeenSigns ==
    ASSUME NEW r, NEW p, Honest(r, p), IsPC(p), NEW cat
    PROVE  /\ p.memory >= 70 /\ "get_memory_usage" \in DOMAIN r /\ cat # "graphics"
                 => Sign(r, cat, "memory_pressure")
           /\ p.cpu >= 60 /\ "get_cpu_usage" \in DOMAIN r => Sign(r, cat, "high_cpu")
           /\ p.free <= 10 /\ {"get_disk_free_space", "get_disk_usage"} \cap DOMAIN r # {}
                 => Sign(r, cat, "low_disk")
           /\ cat = "low_disk_space" /\ p.temp >= 500 /\ "get_reclaimable_space" \in DOMAIN r
                 => Sign(r, cat, "temp_files")
           /\ cat = "low_disk_space" /\ p.recycle >= 500 /\ "get_reclaimable_space" \in DOMAIN r
                 => Sign(r, cat, "recycle_bin")
           /\ cat \in PerfCategories /\ p.hung /\ "get_running_processes" \in DOMAIN r
                 => Sign(r, cat, "unresponsive")
           /\ cat = "windows_update" /\ p.reboot /\ "get_pending_reboot" \in DOMAIN r
                 => Sign(r, cat, "reboot_pending")
           /\ cat = "windows_search" /\ (Wrong(p, "WSearch") \/ Wrong(p, "indexer"))
              /\ "get_search_indexer_status" \in DOMAIN r => Sign(r, cat, "search_indexer")
<1>1. p.memory >= 70 /\ "get_memory_usage" \in DOMAIN r /\ cat # "graphics"
         => Sign(r, cat, "memory_pressure")
  <2> SUFFICES ASSUME p.memory >= 70, "get_memory_usage" \in DOMAIN r, cat # "graphics"
               PROVE  Sign(r, cat, "memory_pressure")
    OBVIOUS
  <2>1. Memory(r) = {p.memory}
    BY Readings DEF Seen
  <2>2. MemoryHigh(r, cat)
    BY <2>1 DEF MemoryHigh
  <2> QED
    BY <2>2 DEF Sign
<1>2. p.cpu >= 60 /\ "get_cpu_usage" \in DOMAIN r => Sign(r, cat, "high_cpu")
  <2> SUFFICES ASSUME p.cpu >= 60, "get_cpu_usage" \in DOMAIN r
               PROVE  Sign(r, cat, "high_cpu")
    OBVIOUS
  <2>1. Cpu(r) = {p.cpu}
    BY Readings DEF Seen
  <2>2. CpuHigh(r)
    BY <2>1 DEF CpuHigh
  <2> QED
    BY <2>2 DEF Sign
<1>3. p.free <= 10 /\ {"get_disk_free_space", "get_disk_usage"} \cap DOMAIN r # {}
         => Sign(r, cat, "low_disk")
  <2> SUFFICES ASSUME p.free <= 10,
                      {"get_disk_free_space", "get_disk_usage"} \cap DOMAIN r # {}
               PROVE  Sign(r, cat, "low_disk")
    OBVIOUS
  <2>1. Disk(r) = {DiskOf(p)}
    BY Readings DEF Seen
  <2>2. DiskOf(p).low = (Used(p) >= 90 \/ p.free < 10)
    BY DEF DiskOf
  <2>3. Used(p) >= 90
    BY PCFacts DEF Used
  <2>4. DiskLow(r)
    BY <2>1, <2>2, <2>3 DEF DiskLow
  <2> QED
    BY <2>4 DEF Sign
<1>4. cat = "low_disk_space" /\ "get_reclaimable_space" \in DOMAIN r =>
         /\ p.temp >= 500 => Sign(r, cat, "temp_files")
         /\ p.recycle >= 500 => Sign(r, cat, "recycle_bin")
  <2> SUFFICES ASSUME cat = "low_disk_space", "get_reclaimable_space" \in DOMAIN r
               PROVE  /\ p.temp >= 500 => Sign(r, cat, "temp_files")
                      /\ p.recycle >= 500 => Sign(r, cat, "recycle_bin")
    OBVIOUS
  <2>1. Reclaimable(r) = {get_reclaimable_space(p)}
    BY Readings DEF Seen
  <2>2. /\ get_reclaimable_space(p).temp = p.temp
        /\ get_reclaimable_space(p).recycle = p.recycle
    BY DEF get_reclaimable_space
  <2>3. /\ p.temp >= 500 => TempFull(r, cat)
        /\ p.recycle >= 500 => RecycleFull(r, cat)
    BY <2>1, <2>2 DEF TempFull, RecycleFull
  <2> QED
    BY <2>3 DEF Sign
<1>5. cat \in PerfCategories /\ p.hung /\ "get_running_processes" \in DOMAIN r
         => Sign(r, cat, "unresponsive")
  <2> SUFFICES ASSUME cat \in PerfCategories, p.hung, "get_running_processes" \in DOMAIN r
               PROVE  Sign(r, cat, "unresponsive")
    OBVIOUS
  <2>1. Unresponsive(r) <=>
           {"get_unresponsive_apps", "get_running_processes"} \cap DOMAIN r # {} /\ p.hung
    BY Readings
  <2>2. AppsHang(r, cat)
    BY <2>1 DEF AppsHang
  <2> QED
    BY <2>2 DEF Sign
<1>6. cat = "windows_update" /\ p.reboot /\ "get_pending_reboot" \in DOMAIN r
         => Sign(r, cat, "reboot_pending")
  <2> SUFFICES ASSUME cat = "windows_update", p.reboot, "get_pending_reboot" \in DOMAIN r
               PROVE  Sign(r, cat, "reboot_pending")
    OBVIOUS
  <2>1. RebootDue(r, cat)
    BY Readings DEF RebootDue
  <2> QED
    BY <2>1 DEF Sign
<1>7. cat = "windows_search" /\ (Wrong(p, "WSearch") \/ Wrong(p, "indexer"))
      /\ "get_search_indexer_status" \in DOMAIN r => Sign(r, cat, "search_indexer")
  <2> SUFFICES ASSUME cat = "windows_search", Wrong(p, "WSearch") \/ Wrong(p, "indexer"),
                      "get_search_indexer_status" \in DOMAIN r
               PROVE  Sign(r, cat, "search_indexer")
    OBVIOUS
  <2>1. \/ p.WSearch \in {"closing", "stopped", "missing"}
        \/ p.WSearch = "running" /\ p.indexer \in {"large", "stuck"}
    BY WrongFacts, PCFacts DEF Services
  <2>2. IndexerFaulty(r)
    BY <2>1, IndexerReadings
  <2>3. IndexerBad(r, cat)
    BY <2>2 DEF IndexerBad, SearchCategories
  <2> QED
    BY <2>3 DEF Sign
<1> QED
  BY <1>1, <1>2, <1>3, <1>4, <1>5, <1>6, <1>7

(* The counts and states that exceed a threshold show as a sign when their  *)
(* check succeeded.                                                         *)
LEMMA CountedSigns ==
    ASSUME NEW r, NEW p, Honest(r, p), IsPC(p), NEW cat
    PROVE  /\ p.crashes >= 3 /\ "get_recent_application_crashes" \in DOMAIN r
                 => Sign(r, cat, "app_crashes")
           /\ cat = "startup_problems" /\ p.startup >= 12 /\ "get_startup_apps" \in DOMAIN r
                 => Sign(r, cat, "many_startup")
           /\ cat \in {"device_driver", "audio", "printer"} /\ p.devices # 0
              /\ "get_problem_devices" \in DOMAIN r => Sign(r, cat, "device_problem")
           /\ cat = "bluetooth" /\ p.bluetooth # "fine" /\ "get_bluetooth_devices" \in DOMAIN r
                 => Sign(r, cat, "bt_problem") \/ Sign(r, cat, "bt_missing")
           /\ cat = "graphics" /\ p.gpu # "fine" /\ "get_gpu_info" \in DOMAIN r
                 => \E id : Sign(r, cat, id)
           /\ p.gpu_load >= 85 /\ "get_gpu_usage" \in DOMAIN r => Sign(r, cat, "gpu_busy")
           /\ p.gpu_app >= 25 /\ "get_gpu_usage" \in DOMAIN r
                 => Sign(r, cat, "gpu_background_app")
           /\ p.resets # 0 /\ "get_display_driver_errors" \in DOMAIN r
                 => Sign(r, cat, "display_driver_resets")
<1>1. \A t \in DOMAIN r : Data(r, <<t>>) = {Report(t, p)}
  BY DataReadings DEF Seen
<1>2. p.crashes >= 3 /\ "get_recent_application_crashes" \in DOMAIN r
         => Sign(r, cat, "app_crashes")
  <2>1. get_recent_application_crashes(p).count = p.crashes
    BY DEF get_recent_application_crashes
  <2>2. p.crashes >= 3 /\ "get_recent_application_crashes" \in DOMAIN r => AppsCrash(r)
    BY <1>1, <2>1, ReportIs DEF AppsCrash
  <2> QED
    BY <2>2 DEF Sign
<1>3. cat = "startup_problems" /\ p.startup >= 12 /\ "get_startup_apps" \in DOMAIN r
         => Sign(r, cat, "many_startup")
  <2>1. get_startup_apps(p).count = p.startup
    BY DEF get_startup_apps
  <2>2. cat = "startup_problems" /\ p.startup >= 12 /\ "get_startup_apps" \in DOMAIN r
           => ManyStart(r, cat)
    BY <1>1, <2>1, ReportIs DEF ManyStart
  <2> QED
    BY <2>2 DEF Sign
<1>4. cat \in {"device_driver", "audio", "printer"} /\ p.devices # 0
      /\ "get_problem_devices" \in DOMAIN r => Sign(r, cat, "device_problem")
  <2>1. get_problem_devices(p).count = p.devices /\ p.devices \in Nat
    BY PCFacts DEF get_problem_devices
  <2>2. cat \in {"device_driver", "audio", "printer"} /\ p.devices # 0
        /\ "get_problem_devices" \in DOMAIN r => DeviceProblem(r, cat)
    BY <1>1, <2>1, ReportIs DEF DeviceProblem
  <2> QED
    BY <2>2 DEF Sign
<1>5. cat = "bluetooth" /\ p.bluetooth # "fine" /\ "get_bluetooth_devices" \in DOMAIN r
         => Sign(r, cat, "bt_problem") \/ Sign(r, cat, "bt_missing")
  <2> SUFFICES ASSUME cat = "bluetooth", p.bluetooth # "fine",
                      "get_bluetooth_devices" \in DOMAIN r
               PROVE  Sign(r, cat, "bt_problem") \/ Sign(r, cat, "bt_missing")
    OBVIOUS
  <2> DEFINE b == get_bluetooth_devices(p)
  <2>1. /\ b.present <=> p.bluetooth # "missing"
        /\ b.problem <=> p.bluetooth = "problem"
    BY DEF get_bluetooth_devices
  <2>2. Data(r, <<"get_bluetooth_devices">>) = {b}
    BY <1>1, ReportIs
  <2> HIDE DEF b
  <2>3. BluetoothProblem(r, cat) \/ BluetoothMissing(r, cat)
    BY <2>1, <2>2, PCFacts DEF BluetoothProblem, BluetoothMissing
  <2> QED
    BY <2>3 DEF Sign
<1>6. cat = "graphics" /\ p.gpu # "fine" /\ "get_gpu_info" \in DOMAIN r
         => \E id : Sign(r, cat, id)
  <2> SUFFICES ASSUME cat = "graphics", p.gpu # "fine", "get_gpu_info" \in DOMAIN r
               PROVE  \E id : Sign(r, cat, id)
    OBVIOUS
  <2> DEFINE a == get_gpu_info(p)
  <2>1. /\ a.basic <=> p.gpu = "basic"
        /\ a.healthy <=> p.gpu # "faulty"
        /\ a.old <=> p.gpu = "old"
    BY DEF get_gpu_info
  <2>2. Data(r, <<"get_gpu_info">>) = {a}
    BY <1>1, ReportIs
  <2> HIDE DEF a
  <2>3. GpuBasic(r) \/ GpuFaulty(r) \/ GpuOld(r, cat)
    BY <2>1, <2>2, PCFacts DEF GpuBasic, GpuFaulty, GpuOld
  <2> QED
    BY <2>3 DEF Sign
<1>7. "get_gpu_usage" \in DOMAIN r => /\ p.gpu_load >= 85 => Sign(r, cat, "gpu_busy")
                                      /\ p.gpu_app >= 25 => Sign(r, cat, "gpu_background_app")
  <2>1. get_gpu_usage(p).usage = p.gpu_load /\ get_gpu_usage(p).background = p.gpu_app
    BY DEF get_gpu_usage
  <2>2. "get_gpu_usage" \in DOMAIN r => /\ p.gpu_load >= 85 => GpuBusy(r)
                                        /\ p.gpu_app >= 25 => GpuTaken(r)
    BY <1>1, <2>1, ReportIs DEF GpuBusy, GpuTaken
  <2> QED
    BY <2>2 DEF Sign
<1>8. p.resets # 0 /\ "get_display_driver_errors" \in DOMAIN r
         => Sign(r, cat, "display_driver_resets")
  <2>1. get_display_driver_errors(p).resets = p.resets /\ p.resets \in Nat
    BY PCFacts DEF get_display_driver_errors
  <2>2. p.resets # 0 /\ "get_display_driver_errors" \in DOMAIN r => DriverResets(r)
    BY <1>1, <2>1, ReportIs DEF DriverResets
  <2> QED
    BY <2>2 DEF Sign
<1> QED
  BY <1>2, <1>3, <1>4, <1>5, <1>6, <1>7, <1>8

(* So is one of the network, as soon as the router was asked.               *)
LEMMA NetworkSigns ==
    ASSUME NEW r, NEW p, Honest(r, p), IsPC(p), NEW cat \in NetCategories,
           "ping_gateway" \in DOMAIN r,
           \/ p.adapters = 0 /\ "get_network_adapters" \in DOMAIN r
           \/ p.gateway # "replies"
           \/ p.dns # TRUE /\ "test_dns" \in DOMAIN r
           \/ p.internet # TRUE /\ "test_internet" \in DOMAIN r
    PROVE  \E id : Sign(r, cat, id)
<1>1. CASE NoLink(r)
  <2>1. LinkDown(r, cat)
    BY <1>1 DEF LinkDown
  <2> QED
    BY <2>1 DEF Sign
<1>2. CASE ~NoLink(r) /\ Silent(r)
  <2>1. RouterSilent(r, cat) \/ RouterMissing(r, cat)
    BY <1>2 DEF Silent, RouterSilent, RouterMissing
  <2> QED
    BY <2>1 DEF Sign
<1>3. CASE ~NoLink(r) /\ ~Silent(r)
  <2>1. Gateway(r) = {ping_gateway(p)}
    BY Readings DEF Seen
  <2>2. ping_gateway(p).reachable
    BY <1>3, <2>1 DEF Silent
  <2>3. p.gateway = "replies"
    BY <2>2 DEF ping_gateway
  <2>4. ~(p.adapters = 0 /\ "get_network_adapters" \in DOMAIN r)
    <3>1. AdaptersUp(r) = Seen(r, {"get_network_adapters"}, p.adapters)
      BY Readings
    <3> QED
      BY <1>3, <3>1 DEF NoLink, Seen
  <2>5. "test_dns" \in DOMAIN r /\ p.dns # TRUE => FALSE \in DnsWorking(r)
    <3> DEFINE works == p.dns /\ Routed(p)
    <3>1. DnsWorking(r) = Seen(r, {"test_dns"}, works)
      BY Readings
    <3>2. p.dns # TRUE => works = FALSE
      BY PCFacts
    <3> HIDE DEF works
    <3> QED
      BY <3>1, <3>2 DEF Seen
  <2>6. "test_internet" \in DOMAIN r /\ p.internet # TRUE => FALSE \in Internet(r)
    <3> DEFINE works == p.internet /\ Routed(p)
    <3>1. Internet(r) = Seen(r, {"test_internet"}, works)
      BY Readings
    <3>2. p.internet # TRUE => works = FALSE
      BY PCFacts
    <3> HIDE DEF works
    <3> QED
      BY <3>1, <3>2 DEF Seen
  <2>7. CASE FALSE \in DnsWorking(r)
    <3>1. DnsFails(r, cat)
      BY <1>3, <2>7 DEF DnsFails
    <3> QED
      BY <3>1 DEF Sign
  <2>8. CASE FALSE \notin DnsWorking(r)
    <3>1. FALSE \in Internet(r)
      BY <2>3, <2>4, <2>5, <2>6, <2>8
    <3>2. \E g \in Gateway(r) : g.reachable
      BY <2>1, <2>2
    <3>3. InternetFails(r, cat)
      BY <1>3, <2>8, <3>1, <3>2 DEF InternetFails
    <3> QED
      BY <3>3 DEF Sign
  <2> QED
    BY <2>7, <2>8
<1> QED
  BY <1>1, <1>2, <1>3

(* And one of a service that matters to the problem.                        *)
LEMMA ServiceSigned ==
    ASSUME NEW r, NEW p, Honest(r, p), IsPC(p), NEW cat, NEW name \in ServiceNames,
           cat \in SERVICE_RULES[name].matters, ServiceTools(name) \cap DOMAIN r # {},
           Wrong(p, name)
    PROVE  \E id : Sign(r, cat, id)
<1>1. name \in Services
  BY DEF ServiceNames, ServiceOrder, Services
<1>2. ServiceOff(r, cat, name) \/ ServiceDown(r, cat, name)
  BY <1>1, WrongFacts, ServiceSigns
<1> QED
  BY <1>2 DEF Sign

(* The checks that a thorough enough plan has run for each problem.         *)
LEMMA NeededRan ==
    ASSUME MaxSteps >= 5, PipelineInv, PlannedInv, Unabridged, phase # "new", depth # "quick"
    PROVE  /\ category = "slow_computer" =>
                 {"get_cpu_usage", "get_memory_usage", "get_disk_usage", "get_running_processes"}
                    \subseteq ran
           /\ category = "high_cpu" =>
                 {"get_cpu_usage", "get_running_processes"}
                    \subseteq ran
           /\ category = "high_memory" =>
                 {"get_memory_usage", "get_running_processes"}
                    \subseteq ran
           /\ category = "low_disk_space" =>
                 {"get_disk_free_space", "get_reclaimable_space"}
                    \subseteq ran
           /\ category = "internet_down" =>
                 {"get_network_adapters", "ping_gateway", "test_dns", "test_internet",
                  "get_network_services_status"}
                    \subseteq ran
           /\ category = "wifi_disconnecting" =>
                 {"get_network_adapters", "ping_gateway", "test_dns", "test_internet",
                  "get_network_services_status"}
                    \subseteq ran
           /\ category = "dns_problems" =>
                 {"test_dns", "test_internet", "ping_gateway", "get_network_services_status"}
                    \subseteq ran
           /\ category = "windows_update" =>
                 {"get_windows_update_status", "get_pending_reboot", "get_disk_free_space"}
                    \subseteq ran
           /\ category = "bluetooth" =>
                 {"get_bluetooth_devices", "get_important_services"}
                    \subseteq ran
           /\ category = "audio" =>
                 {"get_important_services", "get_problem_devices"}
                    \subseteq ran
           /\ category = "printer" =>
                 {"get_important_services", "get_problem_devices"}
                    \subseteq ran
           /\ category = "app_crashes" =>
                 {"get_recent_application_crashes", "get_memory_usage",
                  "get_running_processes", "get_disk_free_space"}
                    \subseteq ran
           /\ category = "startup_problems" =>
                 {"get_startup_apps", "get_disk_usage", "get_memory_usage"}
                    \subseteq ran
           /\ category = "device_driver" =>
                 {"get_problem_devices"}
                    \subseteq ran
           /\ category = "windows_search" =>
                 {"get_search_indexer_status"}
                    \subseteq ran
           /\ category = "graphics" =>
                 {"get_gpu_usage", "get_gpu_info", "get_display_driver_errors"}
                    \subseteq ran
           /\ category = "unknown" =>
                 {"get_cpu_usage", "get_memory_usage", "get_disk_usage", "get_running_processes"}
                    \subseteq ran
<1> DEFINE checks == get_category_spec(category).checks
<1>0. \A i \in 1 .. 5 : i \in DOMAIN checks => checks[i] \in ran
  <2> SUFFICES ASSUME NEW i \in 1 .. 5, i \in DOMAIN checks PROVE checks[i] \in ran
    OBVIOUS
  <2>1. i <= MaxSteps
    BY PipelineAssumption
  <2> QED
    BY <2>1, CheckRan
<1>1. category = "slow_computer" =>
        {"get_cpu_usage", "get_memory_usage", "get_disk_usage", "get_running_processes"}
           \subseteq ran
  <2> SUFFICES ASSUME category = "slow_computer"
               PROVE  /\ "get_cpu_usage" \in ran
                      /\ "get_memory_usage" \in ran
                      /\ "get_disk_usage" \in ran
                      /\ "get_running_processes" \in ran
    OBVIOUS
  <2>1. checks = SlowComputer.checks
    BY CategoryTable DEF CategorySpec
  <2>2. /\ 1 \in DOMAIN checks /\ checks[1] = "get_cpu_usage"
        /\ 2 \in DOMAIN checks /\ checks[2] = "get_memory_usage"
        /\ 3 \in DOMAIN checks /\ checks[3] = "get_disk_usage"
        /\ 4 \in DOMAIN checks /\ checks[4] = "get_running_processes"
    BY <2>1 DEF SlowComputer, PERF, CategorySpec
  <2> HIDE DEF checks
  <2> QED
    BY <1>0, <2>2
<1>2. category = "high_cpu" =>
        {"get_cpu_usage", "get_running_processes"}
           \subseteq ran
  <2> SUFFICES ASSUME category = "high_cpu"
               PROVE  "get_cpu_usage" \in ran /\ "get_running_processes" \in ran
    OBVIOUS
  <2>1. checks = HighCpu.checks
    BY CategoryTable DEF CategorySpec
  <2>2. /\ 1 \in DOMAIN checks /\ checks[1] = "get_cpu_usage"
        /\ 2 \in DOMAIN checks /\ checks[2] = "get_running_processes"
    BY <2>1 DEF HighCpu, CategorySpec
  <2> HIDE DEF checks
  <2> QED
    BY <1>0, <2>2
<1>3. category = "high_memory" =>
        {"get_memory_usage", "get_running_processes"}
           \subseteq ran
  <2> SUFFICES ASSUME category = "high_memory"
               PROVE  "get_memory_usage" \in ran /\ "get_running_processes" \in ran
    OBVIOUS
  <2>1. checks = HighMemory.checks
    BY CategoryTable DEF CategorySpec
  <2>2. /\ 1 \in DOMAIN checks /\ checks[1] = "get_memory_usage"
        /\ 3 \in DOMAIN checks /\ checks[3] = "get_running_processes"
    BY <2>1 DEF HighMemory, CategorySpec
  <2> HIDE DEF checks
  <2> QED
    BY <1>0, <2>2
<1>4. category = "low_disk_space" =>
        {"get_disk_free_space", "get_reclaimable_space"}
           \subseteq ran
  <2> SUFFICES ASSUME category = "low_disk_space"
               PROVE  "get_disk_free_space" \in ran /\ "get_reclaimable_space" \in ran
    OBVIOUS
  <2>1. checks = LowDiskSpace.checks
    BY CategoryTable DEF CategorySpec
  <2>2. /\ 1 \in DOMAIN checks /\ checks[1] = "get_disk_free_space"
        /\ 3 \in DOMAIN checks /\ checks[3] = "get_reclaimable_space"
    BY <2>1 DEF LowDiskSpace, CategorySpec
  <2> HIDE DEF checks
  <2> QED
    BY <1>0, <2>2
<1>5. category = "internet_down" =>
        {"get_network_adapters", "ping_gateway", "test_dns", "test_internet",
         "get_network_services_status"}
           \subseteq ran
  <2> SUFFICES ASSUME category = "internet_down"
               PROVE  /\ "get_network_adapters" \in ran
                      /\ "ping_gateway" \in ran
                      /\ "test_dns" \in ran
                      /\ "test_internet" \in ran
                      /\ "get_network_services_status" \in ran
    OBVIOUS
  <2>1. checks = InternetDown.checks
    BY CategoryTable DEF CategorySpec
  <2>2. /\ 1 \in DOMAIN checks /\ checks[1] = "get_network_adapters"
        /\ 2 \in DOMAIN checks /\ checks[2] = "ping_gateway"
        /\ 3 \in DOMAIN checks /\ checks[3] = "test_dns"
        /\ 4 \in DOMAIN checks /\ checks[4] = "test_internet"
        /\ 5 \in DOMAIN checks /\ checks[5] = "get_network_services_status"
    BY <2>1 DEF InternetDown, NET, CategorySpec
  <2> HIDE DEF checks
  <2> QED
    BY <1>0, <2>2
<1>6. category = "wifi_disconnecting" =>
        {"get_network_adapters", "ping_gateway", "test_dns", "test_internet",
         "get_network_services_status"}
           \subseteq ran
  <2> SUFFICES ASSUME category = "wifi_disconnecting"
               PROVE  /\ "get_network_adapters" \in ran
                      /\ "ping_gateway" \in ran
                      /\ "test_dns" \in ran
                      /\ "test_internet" \in ran
                      /\ "get_network_services_status" \in ran
    OBVIOUS
  <2>1. checks = WifiDisconnecting.checks
    BY CategoryTable DEF CategorySpec
  <2>2. /\ 1 \in DOMAIN checks /\ checks[1] = "get_network_adapters"
        /\ 2 \in DOMAIN checks /\ checks[2] = "ping_gateway"
        /\ 3 \in DOMAIN checks /\ checks[3] = "test_dns"
        /\ 4 \in DOMAIN checks /\ checks[4] = "test_internet"
        /\ 5 \in DOMAIN checks /\ checks[5] = "get_network_services_status"
    BY <2>1 DEF WifiDisconnecting, NET, CategorySpec
  <2> HIDE DEF checks
  <2> QED
    BY <1>0, <2>2
<1>7. category = "dns_problems" =>
        {"test_dns", "test_internet", "ping_gateway", "get_network_services_status"}
           \subseteq ran
  <2> SUFFICES ASSUME category = "dns_problems"
               PROVE  /\ "test_dns" \in ran
                      /\ "test_internet" \in ran
                      /\ "ping_gateway" \in ran
                      /\ "get_network_services_status" \in ran
    OBVIOUS
  <2>1. checks = DnsProblems.checks
    BY CategoryTable DEF CategorySpec
  <2>2. /\ 1 \in DOMAIN checks /\ checks[1] = "test_dns"
        /\ 2 \in DOMAIN checks /\ checks[2] = "test_internet"
        /\ 3 \in DOMAIN checks /\ checks[3] = "ping_gateway"
        /\ 4 \in DOMAIN checks /\ checks[4] = "get_network_services_status"
    BY <2>1 DEF DnsProblems, CategorySpec
  <2> HIDE DEF checks
  <2> QED
    BY <1>0, <2>2
<1>8. category = "windows_update" =>
        {"get_windows_update_status", "get_pending_reboot", "get_disk_free_space"}
           \subseteq ran
  <2> SUFFICES ASSUME category = "windows_update"
               PROVE  /\ "get_windows_update_status" \in ran
                      /\ "get_pending_reboot" \in ran
                      /\ "get_disk_free_space" \in ran
    OBVIOUS
  <2>1. checks = WindowsUpdate.checks
    BY CategoryTable DEF CategorySpec
  <2>2. /\ 1 \in DOMAIN checks /\ checks[1] = "get_windows_update_status"
        /\ 2 \in DOMAIN checks /\ checks[2] = "get_pending_reboot"
        /\ 3 \in DOMAIN checks /\ checks[3] = "get_disk_free_space"
    BY <2>1 DEF WindowsUpdate, CategorySpec
  <2> HIDE DEF checks
  <2> QED
    BY <1>0, <2>2
<1>9. category = "bluetooth" =>
        {"get_bluetooth_devices", "get_important_services"}
           \subseteq ran
  <2> SUFFICES ASSUME category = "bluetooth"
               PROVE  "get_bluetooth_devices" \in ran /\ "get_important_services" \in ran
    OBVIOUS
  <2>1. checks = Bluetooth.checks
    BY CategoryTable DEF CategorySpec
  <2>2. /\ 1 \in DOMAIN checks /\ checks[1] = "get_bluetooth_devices"
        /\ 2 \in DOMAIN checks /\ checks[2] = "get_important_services"
    BY <2>1 DEF Bluetooth, CategorySpec
  <2> HIDE DEF checks
  <2> QED
    BY <1>0, <2>2
<1>10. category = "audio" =>
        {"get_important_services", "get_problem_devices"}
           \subseteq ran
  <2> SUFFICES ASSUME category = "audio"
               PROVE  "get_important_services" \in ran /\ "get_problem_devices" \in ran
    OBVIOUS
  <2>1. checks = Audio.checks
    BY CategoryTable DEF CategorySpec
  <2>2. /\ 1 \in DOMAIN checks /\ checks[1] = "get_important_services"
        /\ 2 \in DOMAIN checks /\ checks[2] = "get_problem_devices"
    BY <2>1 DEF Audio, CategorySpec
  <2> HIDE DEF checks
  <2> QED
    BY <1>0, <2>2
<1>11. category = "printer" =>
        {"get_important_services", "get_problem_devices"}
           \subseteq ran
  <2> SUFFICES ASSUME category = "printer"
               PROVE  "get_important_services" \in ran /\ "get_problem_devices" \in ran
    OBVIOUS
  <2>1. checks = Printer.checks
    BY CategoryTable DEF CategorySpec
  <2>2. /\ 1 \in DOMAIN checks /\ checks[1] = "get_important_services"
        /\ 2 \in DOMAIN checks /\ checks[2] = "get_problem_devices"
    BY <2>1 DEF Printer, CategorySpec
  <2> HIDE DEF checks
  <2> QED
    BY <1>0, <2>2
<1>12. category = "app_crashes" =>
        {"get_recent_application_crashes", "get_memory_usage", "get_running_processes",
         "get_disk_free_space"}
           \subseteq ran
  <2> SUFFICES ASSUME category = "app_crashes"
               PROVE  /\ "get_recent_application_crashes" \in ran
                      /\ "get_memory_usage" \in ran
                      /\ "get_running_processes" \in ran
                      /\ "get_disk_free_space" \in ran
    OBVIOUS
  <2>1. checks = AppCrashes.checks
    BY CategoryTable DEF CategorySpec
  <2>2. /\ 1 \in DOMAIN checks /\ checks[1] = "get_recent_application_crashes"
        /\ 3 \in DOMAIN checks /\ checks[3] = "get_memory_usage"
        /\ 4 \in DOMAIN checks /\ checks[4] = "get_running_processes"
        /\ 5 \in DOMAIN checks /\ checks[5] = "get_disk_free_space"
    BY <2>1 DEF AppCrashes, CategorySpec
  <2> HIDE DEF checks
  <2> QED
    BY <1>0, <2>2
<1>13. category = "startup_problems" =>
        {"get_startup_apps", "get_disk_usage", "get_memory_usage"}
           \subseteq ran
  <2> SUFFICES ASSUME category = "startup_problems"
               PROVE  /\ "get_startup_apps" \in ran
                      /\ "get_disk_usage" \in ran
                      /\ "get_memory_usage" \in ran
    OBVIOUS
  <2>1. checks = StartupProblems.checks
    BY CategoryTable DEF CategorySpec
  <2>2. /\ 1 \in DOMAIN checks /\ checks[1] = "get_startup_apps"
        /\ 3 \in DOMAIN checks /\ checks[3] = "get_disk_usage"
        /\ 4 \in DOMAIN checks /\ checks[4] = "get_memory_usage"
    BY <2>1 DEF StartupProblems, CategorySpec
  <2> HIDE DEF checks
  <2> QED
    BY <1>0, <2>2
<1>14. category = "device_driver" =>
        {"get_problem_devices"}
           \subseteq ran
  <2> SUFFICES ASSUME category = "device_driver"
               PROVE  "get_problem_devices" \in ran
    OBVIOUS
  <2>1. checks = DeviceDriver.checks
    BY CategoryTable DEF CategorySpec
  <2>2. /\ 1 \in DOMAIN checks /\ checks[1] = "get_problem_devices"
    BY <2>1 DEF DeviceDriver, CategorySpec
  <2> HIDE DEF checks
  <2> QED
    BY <1>0, <2>2
<1>15. category = "windows_search" =>
        {"get_search_indexer_status"}
           \subseteq ran
  <2> SUFFICES ASSUME category = "windows_search"
               PROVE  "get_search_indexer_status" \in ran
    OBVIOUS
  <2>1. checks = WindowsSearch.checks
    BY CategoryTable DEF CategorySpec
  <2>2. /\ 1 \in DOMAIN checks /\ checks[1] = "get_search_indexer_status"
    BY <2>1 DEF WindowsSearch, CategorySpec
  <2> HIDE DEF checks
  <2> QED
    BY <1>0, <2>2
<1>16. category = "graphics" =>
        {"get_gpu_usage", "get_gpu_info", "get_display_driver_errors"}
           \subseteq ran
  <2> SUFFICES ASSUME category = "graphics"
               PROVE  /\ "get_gpu_usage" \in ran
                      /\ "get_gpu_info" \in ran
                      /\ "get_display_driver_errors" \in ran
    OBVIOUS
  <2>1. checks = Graphics.checks
    BY CategoryTable DEF CategorySpec
  <2>2. /\ 1 \in DOMAIN checks /\ checks[1] = "get_gpu_usage"
        /\ 2 \in DOMAIN checks /\ checks[2] = "get_gpu_info"
        /\ 3 \in DOMAIN checks /\ checks[3] = "get_display_driver_errors"
    BY <2>1 DEF Graphics, CategorySpec
  <2> HIDE DEF checks
  <2> QED
    BY <1>0, <2>2
<1>17. category = "unknown" =>
        {"get_cpu_usage", "get_memory_usage", "get_disk_usage", "get_running_processes"}
           \subseteq ran
  <2> SUFFICES ASSUME category = "unknown", NEW i \in 1 .. 4 PROVE GENERAL_TOOLS[i] \in ran
    BY DEF GENERAL_TOOLS
  <2>1. i \in DOMAIN GENERAL_TOOLS /\ i <= MaxSteps
    BY PipelineAssumption DEF GENERAL_TOOLS
  <2>2. CASE provider = "local"
    <3>1. LocalPlan("unknown", depth) \subseteq ran
      BY <2>2 DEF PlannedInv
    <3> QED
      BY <2>1, <3>1, SweepHas
  <2>3. CASE provider # "local"
    <3>1. LocalPlan("unknown", "standard") \subseteq ran
      BY <2>3 DEF Unabridged
    <3>2. GENERAL_TOOLS[i] \in LocalPlan("unknown", "standard")
      BY <2>1, SweepHas
    <3> QED
      BY <3>1, <3>2
  <2> QED
    BY <2>2, <2>3
<1> QED
  BY <1>1, <1>2, <1>3, <1>4, <1>5, <1>6, <1>7, <1>8, <1>9, <1>10, <1>11, <1>12, <1>13, <1>14, <1>15, <1>16, <1>17

(* Before any fix, what is wrong is beyond the threshold of its rule.       *)
LEMMA WrongTells ==
    ASSUME \A a \in Faults : Telling(a[1], a[2]), FaultInv, tried = {}
    PROVE  /\ Wrong(pc, "memory") => pc.memory >= 70
           /\ Wrong(pc, "cpu") => pc.cpu >= 60
           /\ Wrong(pc, "free") => pc.free <= 10
           /\ Wrong(pc, "temp") => pc.temp >= 500
           /\ Wrong(pc, "recycle") => pc.recycle >= 500
           /\ Wrong(pc, "crashes") => pc.crashes >= 3
           /\ Wrong(pc, "startup") => pc.startup >= 12
           /\ Wrong(pc, "gpu_load") => pc.gpu_load >= 85
           /\ Wrong(pc, "gpu_app") => pc.gpu_app >= 25
<1> DEFINE counted == {"memory", "cpu", "free", "temp", "recycle", "crashes", "startup",
                       "gpu_load", "gpu_app"}
<1>1. ASSUME NEW f \in counted, Wrong(pc, f) PROVE Telling(f, pc[f])
  <2>1. f \notin Services /\ f # "adapters" /\ f # "indexer"
    BY DEF Services
  <2>2. f \in DOMAIN HealthyPC
    BY DEF HealthyPC, HealthyParts
  <2> HIDE DEF counted
  <2>3. pc[f] # HealthyPC[f]
    BY <1>1, <2>1 DEF Wrong
  <2> QED
    BY <2>2, <2>3, FaultsTell
<1> QED
  BY <1>1 DEF Telling

(* When every check succeeded, a fault in what the problem is about is      *)
(* found, given faults that are beyond the thresholds and a step limit that *)
(* leaves the checks of the category in the plan.                           *)
THEOREM FaultsAreFound ==
    ASSUME MaxSteps >= 5, \A a \in Faults : Telling(a[1], a[2])
    PROVE  Spec => []NothingMissed
<1>1. PipelineInv /\ PlannedInv /\ FaultInv => NothingMissed
  <2> SUFFICES ASSUME PipelineInv, PlannedInv, FaultInv, Current, Unabridged, depth # "quick",
                      NEW f \in Concerns[category], Wrong(pc, f)
               PROVE  diagnosis.level # OK
    BY DEF NothingMissed
  <2> DEFINE Signed == \E id : Sign(results, category, id)
  <2>1. /\ diagnosis = analyze(category, results) /\ IsPC(pc) /\ category \in Categories
        /\ phase = "diagnosed" /\ tried = {} /\ DOMAIN results = ran
        /\ Honest(results, pc)
    BY DEF PipelineInv, DiagnosisInv, StateInv, Current, Honest
  <2>2. SUFFICES Signed
    BY <2>1, SignLevel
  <2>4. CASE category \in {"slow_computer", "high_cpu", "high_memory", "unknown", "app_crashes",
                           "startup_problems"}
    <3>1. /\ f \in {"memory", "cpu", "free", "hung", "crashes", "startup"}
          /\ f = "memory" => "get_memory_usage" \in ran
          /\ f = "cpu" => "get_cpu_usage" \in ran
          /\ f = "free" => {"get_disk_free_space", "get_disk_usage"} \cap ran # {}
          /\ f = "hung" => "get_running_processes" \in ran
          /\ f = "crashes" => "get_recent_application_crashes" \in ran
          /\ f = "startup" => category = "startup_problems" /\ "get_startup_apps" \in ran
      BY <2>1, <2>4, NeededRan DEF Concerns
    <3>2. category \in PerfCategories /\ category # "graphics"
      BY <2>4 DEF PerfCategories
    <3>3. /\ f = "hung" => pc.hung
          /\ f = "memory" => pc.memory >= 70
          /\ f = "cpu" => pc.cpu >= 60
          /\ f = "free" => pc.free <= 10
          /\ f = "crashes" => pc.crashes >= 3
          /\ f = "startup" => pc.startup >= 12
      BY <2>1, WrongTells, WrongFacts, PCFacts, ZenonT(30)
    <3>4. CASE f = "memory"
      <4>1. Sign(results, category, "memory_pressure")
        BY <2>1, <3>1, <3>2, <3>3, <3>4, SeenSigns
      <4> QED
        BY <4>1
    <3>5. CASE f = "cpu"
      <4>1. Sign(results, category, "high_cpu")
        BY <2>1, <3>1, <3>2, <3>3, <3>5, SeenSigns
      <4> QED
        BY <4>1
    <3>6. CASE f = "free"
      <4>1. Sign(results, category, "low_disk")
        BY <2>1, <3>1, <3>2, <3>3, <3>6, SeenSigns
      <4> QED
        BY <4>1
    <3>7. CASE f = "hung"
      <4>1. Sign(results, category, "unresponsive")
        BY <2>1, <3>1, <3>2, <3>3, <3>7, SeenSigns
      <4> QED
        BY <4>1
    <3>8. CASE f = "crashes"
      <4>1. Sign(results, category, "app_crashes")
        BY <2>1, <3>1, <3>2, <3>3, <3>8, CountedSigns
      <4> QED
        BY <4>1
    <3>9. CASE f = "startup"
      <4>1. Sign(results, category, "many_startup")
        BY <2>1, <3>1, <3>2, <3>3, <3>9, CountedSigns
      <4> QED
        BY <4>1
    <3> QED
      BY <3>1, <3>4, <3>5, <3>6, <3>7, <3>8, <3>9
  <2>5. CASE category \in {"low_disk_space", "windows_update"}
    <3>1. /\ category = "low_disk_space" => f \in {"free", "temp", "recycle"}
          /\ category = "windows_update" => f \in {"free", "reboot", "bits"}
          /\ "get_disk_free_space" \in ran
          /\ category = "low_disk_space" => "get_reclaimable_space" \in ran
          /\ category = "windows_update" => {"get_pending_reboot", "get_windows_update_status"}
                                              \subseteq ran
      BY <2>1, <2>5, NeededRan DEF Concerns
    <3>2. /\ f = "reboot" => pc.reboot
          /\ f = "free" => pc.free <= 10
          /\ f = "temp" => pc.temp >= 500
          /\ f = "recycle" => pc.recycle >= 500
      BY <2>1, WrongTells, WrongFacts, PCFacts, ZenonT(30)
    <3>3. CASE f = "bits"
      <4>1. /\ "bits" \in ServiceNames /\ category \in SERVICE_RULES["bits"].matters
            /\ "get_windows_update_status" \in ServiceTools("bits")
        BY <2>5, <3>1, <3>3 DEF ServiceNames, ServiceOrder, SERVICE_RULES, ServiceTools
      <4>2. ServiceTools("bits") \cap DOMAIN results # {}
        BY <2>1, <2>5, <3>1, <3>3, <4>1
      <4> QED
        BY <2>1, <3>3, <4>1, <4>2, ServiceSigned
    <3>4. CASE f = "reboot"
      <4>1. Sign(results, category, "reboot_pending")
        BY <2>1, <2>5, <3>1, <3>2, <3>4, SeenSigns
      <4> QED
        BY <4>1
    <3>5. CASE f = "free"
      <4>1. Sign(results, category, "low_disk")
        BY <2>1, <2>5, <3>1, <3>2, <3>5, SeenSigns
      <4> QED
        BY <4>1
    <3>6. CASE f = "temp"
      <4>1. Sign(results, category, "temp_files")
        BY <2>1, <2>5, <3>1, <3>2, <3>6, SeenSigns
      <4> QED
        BY <4>1
    <3>7. CASE f = "recycle"
      <4>1. Sign(results, category, "recycle_bin")
        BY <2>1, <2>5, <3>1, <3>2, <3>7, SeenSigns
      <4> QED
        BY <4>1
    <3> QED
      BY <2>5, <3>1, <3>3, <3>4, <3>5, <3>6, <3>7
  <2>6. CASE category \in NetCategories
    <3>1. CASE f \in {"WlanSvc", "Dnscache"}
      <4>1. /\ f \in ServiceNames /\ category \in SERVICE_RULES[f].matters
            /\ "get_network_services_status" \in ServiceTools(f)
        BY <2>6, <3>1 DEF Concerns, ServiceNames, ServiceOrder, SERVICE_RULES, ServiceTools,
                          NetCategories
      <4>2. "get_network_services_status" \in ran
        BY <2>1, <2>6, NeededRan DEF NetCategories
      <4> QED
        BY <2>1, <4>1, <4>2, ServiceSigned
    <3>2. CASE f \notin {"WlanSvc", "Dnscache"}
      <4>1. /\ f \in {"adapters", "gateway", "dns", "internet"}
            /\ {"ping_gateway", "test_dns", "test_internet"} \subseteq ran
            /\ f = "adapters" => "get_network_adapters" \in ran
        BY <2>1, <2>6, <3>2, NeededRan DEF NetCategories, Concerns
      <4>2. /\ f = "adapters" => pc.adapters = 0
            /\ f = "gateway" => pc.gateway # "replies"
            /\ f = "dns" => pc.dns # TRUE
            /\ f = "internet" => pc.internet # TRUE
        BY WrongFacts
      <4> QED
        BY <2>1, <2>6, <4>1, <4>2, NetworkSigns
    <3> QED
      BY <3>1, <3>2
  <2>7. CASE category \in {"bluetooth", "audio", "printer", "device_driver"}
    <3>1. CASE f \in {"bthserv", "Audiosrv", "AudioEndpointBuilder", "Spooler"}
      <4>1. /\ f \in ServiceNames /\ category \in SERVICE_RULES[f].matters
            /\ "get_important_services" \in ServiceTools(f)
        BY <2>7, <3>1 DEF Concerns, ServiceNames, ServiceOrder, SERVICE_RULES, ServiceTools
      <4>2. "get_important_services" \in ran
        BY <2>1, <2>7, <3>1, NeededRan DEF Concerns
      <4> QED
        BY <2>1, <4>1, <4>2, ServiceSigned
    <3>2. CASE f \notin {"bthserv", "Audiosrv", "AudioEndpointBuilder", "Spooler"}
      <4>1. \/ category = "bluetooth" /\ f = "bluetooth" /\ "get_bluetooth_devices" \in ran
            \/ /\ category \in {"device_driver", "audio", "printer"} /\ f = "devices"
               /\ "get_problem_devices" \in ran
        BY <2>1, <2>7, <3>2, NeededRan DEF Concerns
      <4>2. /\ f = "bluetooth" => pc.bluetooth # "fine"
            /\ f = "devices" => pc.devices # 0
        BY WrongFacts
      <4> QED
        BY <2>1, <4>1, <4>2, CountedSigns
    <3> QED
      BY <3>1, <3>2
  <2>8. CASE category = "windows_search"
    <3>1. f \in {"WSearch", "indexer"} /\ "get_search_indexer_status" \in ran
      BY <2>1, <2>8, NeededRan DEF Concerns
    <3> QED
      BY <2>1, <2>8, <3>1, SeenSigns
  <2>9. CASE category = "graphics"
    <3>1. /\ f \in {"gpu", "gpu_load", "gpu_app", "resets"}
          /\ {"get_gpu_usage", "get_gpu_info", "get_display_driver_errors"} \subseteq ran
      BY <2>1, <2>9, NeededRan DEF Concerns
    <3>2. /\ f = "gpu" => pc.gpu # "fine"
          /\ f = "gpu_load" => pc.gpu_load >= 85
          /\ f = "gpu_app" => pc.gpu_app >= 25
          /\ f = "resets" => pc.resets # 0
      BY <2>1, WrongTells, WrongFacts
    <3>3. CASE f = "gpu"
      BY <2>1, <2>9, <3>1, <3>2, <3>3, CountedSigns
    <3>4. CASE f = "gpu_load"
      BY <2>1, <3>1, <3>2, <3>4, CountedSigns
    <3>5. CASE f = "gpu_app"
      BY <2>1, <3>1, <3>2, <3>5, CountedSigns
    <3>6. CASE f = "resets"
      BY <2>1, <3>1, <3>2, <3>6, CountedSigns
    <3> QED
      BY <3>1, <3>3, <3>4, <3>5, <3>6
  <2>10. Categories = {"slow_computer", "high_cpu", "high_memory", "low_disk_space",
                       "internet_down", "wifi_disconnecting", "dns_problems", "windows_update",
                       "bluetooth", "audio", "printer", "app_crashes", "startup_problems",
                       "device_driver", "windows_search", "graphics", "unknown"}
    BY CategoryTable
  <2> QED
    BY <2>1, <2>4, <2>5, <2>6, <2>7, <2>8, <2>9, <2>10 DEF NetCategories
<1> QED
  BY <1>1, AlwaysInv, PlannedAlways, FaultAlways, PTL

-----------------------------------------------------------------------------
(* ImprovedMeansGone                                                       *)

(* What a verification measures when all of its checks succeed: each result *)
(* is the one of before or what a full check-up of the PC finds now.        *)
LEMMA VerifiedBlend ==
    ASSUME NEW before, NEW tools, tools \subseteq DIAGNOSTICS, NEW failed, NEW p, IsPC(p),
           tools \subseteq DOMAIN Updated(before, tools, failed, p)
    PROVE  /\ Blend(before, Updated(<<>>, DIAGNOSTICS, {}, p), Updated(before, tools, failed, p))
           /\ Honest(Updated(<<>>, DIAGNOSTICS, {}, p), p)
           /\ \A t \in tools : Updated(before, tools, failed, p)[t] = Report(t, p)
<1> DEFINE full == Updated(<<>>, DIAGNOSTICS, {}, p)
           after == Updated(before, tools, failed, p)
<1>1. DOMAIN full = DIAGNOSTICS /\ \A t \in DIAGNOSTICS : full[t] = Report(t, p)
  BY DEF Updated
<1>2. /\ DOMAIN after = (DOMAIN before \ tools) \cup (tools \ failed)
      /\ \A t \in DOMAIN after : after[t] = IF t \in tools THEN Report(t, p) ELSE before[t]
  BY DEF Updated
<1> HIDE DEF full, after
<1>3. tools \subseteq DOMAIN after
  BY DEF after
<1>4. Blend(before, full, after)
  BY <1>1, <1>2, <1>3 DEF Blend
<1>5. Honest(full, p)
  BY <1>1 DEF Honest
<1>6. \A t \in tools : after[t] = Report(t, p)
  BY <1>2, <1>3
<1> QED
  BY <1>4, <1>5, <1>6 DEF full, after

(* A target of a verification is a problem that the diagnosis has found.    *)
LEMMA TargetFound ==
    ASSUME NEW r, Reported(r), NEW cat, NEW p, Offer(p, analyze(cat, r)), EvidenceBacked(p),
           NEW id \in Targets(analyze(cat, r), p)
    PROVE  \E c \in analyze(cat, r).causes : IsProblem(c) /\ c.id = id
<1> DEFINE problems == {c \in analyze(cat, r).causes : IsProblem(c)}
<1>1. CASE id = p.cause
  BY <1>1 DEF Offer
<1>2. CASE id = analyze(cat, r).top /\ id # NoCause
  <2>1. analyze(cat, r).top = IF problems = {} THEN NoCause ELSE First(problems).id
    BY DEF analyze
  <2>2. problems # {} /\ id = First(problems).id
    BY <1>2, <2>1
  <2>3. First(problems) \in problems
    BY <2>2, FirstFacts
  <2> QED
    BY <2>2, <2>3
<1> QED
  BY <1>1, <1>2 DEF Targets

(* A fix that is reported to have solved the problem has: a full check-up   *)
(* finds neither the cause of the fix nor the one that led the diagnosis.   *)
THEOREM ImprovedIsGone == Spec => ImprovedMeansGone
<1> DEFINE Gone == Verified /\ improved' /\ EvidenceBacked(applied)
                   /\ repeated' \subseteq DOMAIN results'
                   => \A c \in CheckUp(pc).causes :
                         IsProblem(c) => c.id \notin Targets(diagnosis, applied)
<1>1. PipelineInv /\ [Next]_vars => Gone
  <2> SUFFICES ASSUME PipelineInv, [Next]_vars, Verified, improved', EvidenceBacked(applied),
                      repeated' \subseteq DOMAIN results',
                      NEW c \in CheckUp(pc).causes, IsProblem(c),
                      c.id \in Targets(diagnosis, applied)
               PROVE  FALSE
    OBVIOUS
  <2>1. Verify
    <3>1. phase = "applied" /\ phase' = "verified"
      BY DEF Verified
    <3>2. \A plan, n : ~Started(plan, n)
      BY <3>1 DEF Started
    <3>3. ~Investigate /\ ~FollowUp /\ ~Diagnose /\ ~Continue /\ ~Drift /\ ~UNCHANGED vars
      BY <3>1, <3>2 DEF Investigate, FollowUp, Diagnose, Continue, Drift, vars
    <3>4. \A p : ~Apply(p) /\ ~ApplyTimesOut(p)
      BY <3>1 DEF Apply, ApplyTimesOut, Approved
    <3>5. \A fix : ~LateFixEnds(fix)
      BY <3>1 DEF LateFixEnds
    <3> QED
      BY <3>3, <3>4, <3>5 DEF Next
  <2>2. /\ diagnosis = analyze(category, results) /\ Reported(results)
        /\ Offer(applied, diagnosis) /\ IsPC(pc)
    BY DEF Verified, PipelineInv, DiagnosisInv, MeasuredInv, OffersInv, StateInv
  <2> DEFINE tools == IF success THEN tools_for(diagnosis, applied, results) ELSE {}
             full == Updated(<<>>, DIAGNOSTICS, {}, pc)
  <2>3. PICK failed \in Failing(tools) :
           LET after == Updated(results, tools, failed, pc)
           IN  /\ improved' = (success /\ Improved(diagnosis, applied, results, after))
               /\ repeated' = tools
               /\ results' = after
    BY <2>1 DEF Verify
  <2>4. /\ success /\ Improved(diagnosis, applied, results, results')
        /\ repeated' = tools_for(diagnosis, applied, results)
        /\ results' = Updated(results, repeated', failed, pc)
    BY <2>3
  <2>5. repeated' \subseteq DIAGNOSTICS
    <3>1. applied.fix \in DOMAIN FIXES
      BY <2>2, ProposableFixes DEF Offer
    <3> QED
      BY <2>4, <3>1, RepeatedFacts DEF PipelineInv, MeasuredInv
  <2> HIDE DEF tools
  <2>6. /\ Blend(results, full, results') /\ Honest(full, pc)
        /\ \A t \in repeated' : results'[t] = Report(t, pc)
    BY <2>2, <2>4, <2>5, VerifiedBlend
  <2>7. c \in analyze(category, full).causes
    <3>1. diagnosis.category = category
      BY <2>2, AnalyzeFacts
    <3> QED
      BY DEF CheckUp
  <2> HIDE DEF full
  <2>8. PICK b \in analyze(category, results).causes : IsProblem(b) /\ b.id = c.id
    BY <2>2, TargetFound
  <2>9. Sign(results, category, c.id) /\ Sign(full, category, c.id)
    <3>1. \A r : \A d \in analyze(category, r).causes : IsProblem(d) => Sign(r, category, d.id)
      <4> SUFFICES ASSUME NEW r, NEW d \in analyze(category, r).causes, IsProblem(d)
                   PROVE  Sign(r, category, d.id)
        OBVIOUS
      <4>1. PICK e \in Found(r, category) : SameCause(d, e)
        BY CauseFound
      <4>2. IsProblem(e) /\ e.id = d.id
        BY <4>1 DEF SameCause, IsProblem
      <4> QED
        BY <4>2, ProblemShown
    <3> QED
      BY <2>7, <2>8, <3>1
  <2>10. Sign(results', category, c.id)
    <3>1. CASE c.id # "search_indexer"
      BY <2>2, <2>6, <2>9, <3>1, BlendSigns
    <3>2. CASE c.id = "search_indexer"
      <4>1. IndexerBad(full, category)
        BY <2>9, <3>2, SignMeans
      <4>2. category \in SearchCategories /\ IndexerFaulty(full)
        BY <4>1 DEF IndexerBad
      <4>3. applied.fix = "restart_windows_search"
        <5>1. PICK d \in analyze(category, results).causes :
                 IsProblem(d) /\ d.id = applied.cause /\ d.fix = applied.fix
          BY <2>2 DEF Offer
        <5>2. PICK e \in Found(results, category) : SameCause(d, e)
          BY CauseFound
        <5>3. IsProblem(e) /\ e.id = applied.cause /\ e.fix = applied.fix
          BY <5>1, <5>2 DEF SameCause, IsProblem
        <5>4. applied.fix # NoFix
          BY <2>2, ProposableFixes DEF Offer
        <5>5. e.id = "search_indexer" \/ analyze(category, results).top = "search_indexer"
          BY <2>2, <3>2, <5>3 DEF Targets
        <5> QED
          BY <2>2, <4>2, <5>3, <5>4, <5>5, IndexerFix
      <4>4. "get_search_indexer_status" \in repeated'
        <5>1. "get_search_indexer_status" \in FIXES["restart_windows_search"].verify
          BY DEF FIXES, Fix
        <5>2. has("get_search_indexer_status")
          BY CheckNames DEF has
        <5> QED
          BY <2>4, <4>3, <5>1, <5>2 DEF tools_for
      <4>5. /\ "get_search_indexer_status" \in DOMAIN results'
            /\ results'["get_search_indexer_status"] = Report("get_search_indexer_status", pc)
        BY <2>6, <4>4
      <4>6. /\ "get_search_indexer_status" \in DOMAIN full
            /\ full["get_search_indexer_status"] = Report("get_search_indexer_status", pc)
        BY CheckNames DEF full, Updated
      <4>7. Indexer(results') = Indexer(full)
        BY <4>5, <4>6 DEF Indexer
      <4>8. IndexerBad(results', category)
        BY <4>2, <4>7 DEF IndexerBad, IndexerFaulty
      <4> QED
        BY <3>2, <4>8 DEF Sign
    <3> QED
      BY <3>1, <3>2
  <2>11. PICK d \in analyze(category, results').causes : IsProblem(d) /\ d.id = c.id
    <3>1. PICK e \in Found(results', category) : IsProblem(e) /\ e.id = c.id
      BY <2>10, SignFound
    <3>2. PICK d \in analyze(category, results').causes : SameCause(d, e)
      BY FoundCause
    <3> QED
      BY <3>1, <3>2 DEF SameCause, IsProblem
  <2>12. Remaining(diagnosis, applied, analyze(diagnosis.category, results')) = {}
    BY <2>4 DEF Improved
  <2>13. diagnosis.category = category
    BY <2>2, AnalyzeFacts
  <2> QED
    BY <2>11, <2>12, <2>13 DEF Remaining
<1> QED
  BY <1>1, AlwaysInv, PTL DEF Spec, ImprovedMeansGone

-----------------------------------------------------------------------------
(* ContinuedIsCurrent                                                      *)

(* While no fix has failed, none outlives the wait for it; so what the      *)
(* verification of the first one measured still is the case.                *)
VerifiedInv ==
    /\ attempts = 0 => late = {}
    /\ phase \in {"applied", "verified"} /\ success /\ attempts = 1 => late = {}
    /\ phase = "verified" /\ success /\ attempts = 1 =>
          \A t \in repeated \cap DOMAIN results : results[t] = Report(t, pc)

(* VerifiedInv holds throughout: a fix that is waited for to its end leaves *)
(* nothing behind that could change the PC after its verification.          *)
LEMMA VerifiedAlways == Spec => []VerifiedInv
<1>1. Init => VerifiedInv
  BY DEF Init, VerifiedInv
<1>2. PipelineInv /\ VerifiedInv /\ [Next]_vars => VerifiedInv'
  <2> SUFFICES ASSUME PipelineInv, VerifiedInv, [Next]_vars PROVE VerifiedInv'
    OBVIOUS
  <2>1. attempts \in Nat
    <3>1. Cardinality(tried) \in Nat /\ attempts \in Cardinality(tried) .. MaxAttempts
      BY FS_CardinalityType DEF PipelineInv, OffersInv
    <3>2. MaxAttempts \in Nat
      BY PipelineAssumption
    <3> QED
      BY <3>1, <3>2
  <2>2. CASE phase' \notin {"applied", "verified"} /\ UNCHANGED <<late, attempts>>
    BY <2>2 DEF VerifiedInv
  <2>3. CASE UNCHANGED <<phase, success, attempts, late, repeated, results, pc>>
    BY <2>3 DEF VerifiedInv
  <2>4. CASE \E p : Apply(p)
    <3>1. phase' = "applied" /\ attempts' = attempts + 1 /\ late' = late
      BY <2>4 DEF Apply, Approved
    <3> QED
      BY <2>1, <3>1 DEF VerifiedInv
  <2>5. CASE \E p : ApplyTimesOut(p)
    <3>1. phase' = "applied" /\ attempts' = attempts + 1 /\ ~success'
      BY <2>5 DEF ApplyTimesOut, Approved
    <3> QED
      BY <2>1, <3>1 DEF VerifiedInv
  <2>6. CASE \E fix \in late : LateFixEnds(fix)
    <3>1. late # {} /\ UNCHANGED <<phase, success, attempts>>
      BY <2>6 DEF LateFixEnds
    <3> QED
      BY <3>1 DEF VerifiedInv
  <2>7. CASE Verify
    <3>1. /\ phase = "applied" /\ UNCHANGED <<success, attempts, late, pc>>
          /\ \E tools, failed : repeated' = tools /\ results' = Updated(results, tools, failed, pc)
      BY <2>7 DEF Verify
    <3>2. \A t \in repeated' \cap DOMAIN results' : results'[t] = Report(t, pc)
      BY <3>1 DEF Updated
    <3> QED
      BY <3>1, <3>2 DEF VerifiedInv
  <2>8. CASE Drift
    BY <2>2, <2>8 DEF Drift
  <2>9. Investigate \/ FollowUp \/ Diagnose \/ Continue =>
           phase' \notin {"applied", "verified"} /\ UNCHANGED <<late, attempts>>
    BY DEF Investigate, Started, FollowUp, Diagnose, Continue
  <2>10. UNCHANGED vars => UNCHANGED <<phase, success, attempts, late, repeated, results, pc>>
    BY DEF vars
  <2> QED
    BY <2>2, <2>3, <2>4, <2>5, <2>6, <2>7, <2>8, <2>9, <2>10 DEF Next
<1> QED
  BY <1>1, <1>2, AlwaysInv, PTL DEF Spec

(* An investigation that goes on after a fix that was carried out and did   *)
(* not help finds only what is wrong with the PC as the fix left it.        *)
THEOREM ContinuedStaysCurrent ==
    ASSUME MaxSteps >= 3
    PROVE  Spec => ContinuedIsCurrent
<1> DEFINE Sound == /\ Continued /\ attempts = 1
                    /\ Unabridged' /\ DOMAIN results' = ran'
                    /\ \A t \in ran \ repeated : results[t] = Report(t, pc)
                    => \A c \in diagnosis'.causes :
                         IsProblem(c) /\ c.fix # NoFix => \E f \in About(c.fix) : Wrong(pc, f)
<1>1. PipelineInv /\ PlannedInv /\ VerifiedInv /\ [Next]_vars => Sound
  <2> SUFFICES ASSUME PipelineInv, PlannedInv, VerifiedInv, [Next]_vars, Continued, attempts = 1,
                      Unabridged', DOMAIN results' = ran',
                      \A t \in ran \ repeated : results[t] = Report(t, pc),
                      NEW c \in diagnosis'.causes, IsProblem(c), c.fix # NoFix
               PROVE  \E f \in About(c.fix) : Wrong(pc, f)
    OBVIOUS
  <2>1. Continue
    <3>1. phase = "verified" /\ phase' = "diagnosed"
      BY DEF Continued
    <3>2. \A plan, n : ~Started(plan, n)
      BY <3>1 DEF Started
    <3>3. ~Investigate /\ ~FollowUp /\ ~Diagnose /\ ~Verify /\ ~Drift /\ ~UNCHANGED vars
      BY <3>1, <3>2 DEF Investigate, FollowUp, Diagnose, Verify, Drift, vars
    <3>4. \A p : ~Apply(p) /\ ~ApplyTimesOut(p)
      BY <3>1 DEF Apply, ApplyTimesOut, Approved
    <3>5. \A fix : ~LateFixEnds(fix)
      BY <3>1 DEF LateFixEnds
    <3> QED
      BY <3>3, <3>4, <3>5 DEF Next
  <2> DEFINE tools == Deeper(category, ran)
  <2>2. PICK failed : results' = Updated(results, tools, failed, pc) /\ ran' = ran \cup tools
    BY <2>1 DEF Continue, Run
  <2> HIDE DEF tools
  <2>3. /\ phase = "verified" /\ success /\ diagnosis' = analyze(category, results')
        /\ UNCHANGED <<category, depth, provider>>
    BY <2>1 DEF Continue, settingsVars
  <2>4. /\ IsPC(pc) /\ DOMAIN results \subseteq ran /\ category \in Categories
        /\ provider \in {"local", "ai"}
    BY DEF PipelineInv, StateInv, MeasuredInv
  <2>5. Honest(results, pc)
    BY <2>3, <2>4 DEF VerifiedInv, Honest
  <2>6. Honest(results', pc)
    BY <2>2, <2>4, <2>5, UpdatedFacts
  <2>7. category \in NetCategories => "ping_gateway" \in DOMAIN results'
    <3> SUFFICES ASSUME category \in NetCategories PROVE "ping_gateway" \in ran'
      OBVIOUS
    <3>1. \A dep : "ping_gateway" \in LocalPlan(category, dep)
      BY <2>4, RouterPlanned
    <3>2. CASE provider = "local"
      <4>1. LocalPlan(category, depth) \subseteq ran
        BY <2>3, <3>2 DEF PlannedInv
      <4> QED
        BY <2>2, <3>1, <4>1
    <3>3. CASE provider # "local"
      <4>1. LocalPlan(category, "standard") \subseteq ran'
        BY <2>3, <3>3 DEF Unabridged
      <4> QED
        BY <3>1, <4>1
    <3> QED
      BY <3>2, <3>3
  <2>8. PICK b \in Found(results', category) : SameCause(c, b)
    BY <2>3, CauseFound
  <2>9. IsProblem(b) /\ b.fix = c.fix
    BY <2>8 DEF SameCause, IsProblem
  <2> QED
    BY <2>4, <2>6, <2>7, <2>9, FixFault
<1> QED
  BY <1>1, AlwaysInv, PlannedAlways, VerifiedAlways, PTL DEF Spec, ContinuedIsCurrent
===============================================================================
