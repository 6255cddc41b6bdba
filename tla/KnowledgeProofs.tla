--------------------------- MODULE KnowledgeProofs ---------------------------
(***************************************************************************)
(* The knowledge base and the remediation engine, for every PC and every   *)
(* set of checks that succeeded: what the rules read, when each finds its  *)
(* problem, which problem leads, and what a failed or an outdated          *)
(* measurement does to the diagnosis.                                      *)
(***************************************************************************)
EXTENDS Repairs, FiniteSetTheorems, TLAPS

-----------------------------------------------------------------------------
(* Rules, causes and diagnoses                                             *)

(* A nonempty set of natural numbers has a least element. *)
LEMMA Smallest ==
    ASSUME NEW S, S \subseteq Nat, S # {}
    PROVE  \E m \in S : \A k \in S : m <= k
<1> DEFINE Below(m) == {k \in S : k < m}
           T == {Below(m) : m \in S}
<1>1. \A m \in S : IsFiniteSet(Below(m))
  <2> SUFFICES ASSUME NEW m \in S PROVE IsFiniteSet(Below(m))
    OBVIOUS
  <2>1. 0 \in Int /\ m \in Int
    OBVIOUS
  <2>2. IsFiniteSet(0 .. m)
    BY <2>1, FS_Interval
  <2>3. ASSUME NEW k \in S, k < m PROVE k \in 0 .. m
    <3>1. k \in Nat /\ m \in Nat
      OBVIOUS
    <3> QED
      BY <3>1, <2>3
  <2>4. Below(m) \in SUBSET (0 .. m)
    BY <2>3
  <2> QED
    BY <2>2, <2>4, FS_Subset
<1>2. T \subseteq FiniteSubsetsOf(S) /\ T # {}
  BY <1>1 DEF FiniteSubsetsOf
<1>3. PICK X \in T : \A Y \in T : <<Y, X>> \notin StrictSubsetOrdering(S)
  BY <1>2, FS_StrictSubsetOrderingWellFounded, WFMin
<1>4. PICK m \in S : X = Below(m)
  OBVIOUS
<1>5. ASSUME NEW k \in S, k < m PROVE FALSE
  <2>1. Below(k) \in T /\ Below(k) \subseteq X
    <3>1. \A j \in S : j < k => j < m
      <4>1. \A j \in S : j \in Int
        OBVIOUS
      <4> QED
        BY <4>1, <1>5
    <3> QED
      BY <3>1, <1>4
  <2>2. k \in X /\ k \notin Below(k)
    BY <1>4, <1>5
  <2>3. <<Below(k), X>> \in StrictSubsetOrdering(S)
    BY <2>1, <2>2, <1>4 DEF StrictSubsetOrdering
  <2> QED
    BY <1>3, <2>1, <2>3
<1> QED
  BY <1>5

(* The list of rules, one by one, in the order in which analyze runs them. *)
LEMMA RuleList ==
    ASSUME NEW r, NEW category
    PROVE  /\ DOMAIN RULES(r, category) = 1 .. 25
           /\ RULES(r, category)[1] = MemoryRule(r, category)
           /\ RULES(r, category)[2] = IndexerRule(r, category)
           /\ RULES(r, category)[3] = LargeAppsRule(r)
           /\ RULES(r, category)[4] = CpuRule(r)
           /\ RULES(r, category)[5] = DiskRule(r, category)
           /\ RULES(r, category)[6] = UpdateSpaceRule(r, category)
           /\ RULES(r, category)[7] = NetworkRule(r, category)
           /\ \A i \in 1 .. 9 :
                 RULES(r, category)[i + 7] = ServiceRule(r, category, ServiceOrder[i])
           /\ RULES(r, category)[17] = UpdatesRule(r, category)
           /\ RULES(r, category)[18] = BluetoothRule(r, category)
           /\ RULES(r, category)[19] = DevicesRule(r, category)
           /\ RULES(r, category)[20] = AppsRule(r, category)
           /\ RULES(r, category)[21] = BackgroundRule(r, category)
           /\ RULES(r, category)[22] = GraphicsAdapterRule(r)
           /\ RULES(r, category)[23] = GraphicsResetsRule(r)
           /\ RULES(r, category)[24] = GraphicsUsageRule(r)
           /\ RULES(r, category)[25] = GraphicsDriverRule(r, category)
BY DEF RULES, ServiceOrder

(* The services that a rule is about. *)
ServiceNames == {ServiceOrder[i] : i \in 1 .. 9}

(* Every cause that some rule finds. *)
Found(r, category) ==
    MemoryRule(r, category) \cup IndexerRule(r, category) \cup LargeAppsRule(r)
    \cup CpuRule(r) \cup DiskRule(r, category) \cup UpdateSpaceRule(r, category)
    \cup NetworkRule(r, category)
    \cup (UNION {ServiceRule(r, category, name) : name \in ServiceNames})
    \cup UpdatesRule(r, category) \cup BluetoothRule(r, category)
    \cup DevicesRule(r, category) \cup AppsRule(r, category)
    \cup BackgroundRule(r, category) \cup GraphicsAdapterRule(r)
    \cup GraphicsResetsRule(r) \cup GraphicsUsageRule(r) \cup GraphicsDriverRule(r, category)

(* What the rules of the list find, and nothing else, is found. *)
LEMMA FoundByRules ==
    ASSUME NEW r, NEW category
    PROVE  Found(r, category) = UNION {RULES(r, category)[i] : i \in 1 .. 25}
<1> DEFINE R(i) == RULES(r, category)[i]
<1>1. \A i \in 1 .. 25 : \/ i \in 1 .. 7 \/ i - 7 \in 1 .. 9 \/ i \in 17 .. 25
  OBVIOUS
<1>2. ASSUME NEW c \in Found(r, category) PROVE \E i \in 1 .. 25 : c \in R(i)
  <2>1. CASE c \in UNION {ServiceRule(r, category, name) : name \in ServiceNames}
    <3>1. PICK i \in 1 .. 9 : c \in ServiceRule(r, category, ServiceOrder[i])
      BY <2>1 DEF ServiceNames
    <3>2. i + 7 \in 1 .. 25 /\ c \in R(i + 7)
      BY <3>1, RuleList
    <3> QED
      BY <3>2
  <2>2. CASE c \notin UNION {ServiceRule(r, category, name) : name \in ServiceNames}
    <3>1. c \in R(1) \cup R(2) \cup R(3) \cup R(4) \cup R(5) \cup R(6) \cup R(7) \cup R(17)
               \cup R(18) \cup R(19) \cup R(20) \cup R(21) \cup R(22) \cup R(23) \cup R(24)
               \cup R(25)
      BY <2>2, RuleList DEF Found
    <3> HIDE DEF R
    <3> QED
      BY <3>1
  <2> QED
    BY <2>1, <2>2
<1>3. ASSUME NEW i \in 1 .. 25, NEW c \in R(i) PROVE c \in Found(r, category)
  <2>1. CASE i - 7 \in 1 .. 9
    <3>1. (i - 7) + 7 = i
      OBVIOUS
    <3>2. c \in ServiceRule(r, category, ServiceOrder[i - 7])
      BY <2>1, <1>3, <3>1, RuleList
    <3>3. ServiceOrder[i - 7] \in ServiceNames
      BY <2>1 DEF ServiceNames
    <3> QED
      BY <3>2, <3>3 DEF Found
  <2>2. CASE i - 7 \notin 1 .. 9
    <3>1. \/ i = 1 \/ i = 2 \/ i = 3 \/ i = 4 \/ i = 5 \/ i = 6 \/ i = 7 \/ i = 17 \/ i = 18
          \/ i = 19 \/ i = 20 \/ i = 21 \/ i = 22 \/ i = 23 \/ i = 24 \/ i = 25
      BY <2>2
    <3> QED
      BY <3>1, <1>3, RuleList DEF Found
  <2> QED
    BY <2>1, <2>2
<1> QED
  BY <1>2, <1>3

(* A cause is its id, level, confidence, fix and sources; it has a level    *)
(* of the three there are.                                                  *)
IsCause(c) == /\ c = Cause(c.id, c.level, c.confidence, c.fix, c.sources)
              /\ c.level \in {CRITICAL, CAUTION, INFO}

(* Every rule finds causes. *)
LEMMA CausesOnly ==
    ASSUME NEW r, NEW category, NEW c \in Found(r, category)
    PROVE  IsCause(c)
<1> USE DEF IsCause, Cause, When, CRITICAL, CAUTION, INFO
<1>1. CASE c \in MemoryRule(r, category)
  BY <1>1 DEF MemoryRule
<1>2. CASE c \in IndexerRule(r, category)
  BY <1>2 DEF IndexerRule
<1>3. CASE c \in LargeAppsRule(r) \cup CpuRule(r)
  BY <1>3 DEF LargeAppsRule, CpuRule
<1>4. CASE c \in DiskRule(r, category)
  BY <1>4 DEF DiskRule
<1>5. CASE c \in UpdateSpaceRule(r, category)
  BY <1>5 DEF UpdateSpaceRule
<1>6. CASE c \in NetworkRule(r, category)
  <2>1. \/ \E f : c = Cause("no_adapter", CRITICAL, 85, f, {"get_network_adapters"})
        \/ c = Cause("gateway_unreachable", CRITICAL, 75, "restart_network_adapter",
                     {"ping_gateway"})
        \/ c = Cause("no_gateway", CRITICAL, 70, "renew_ip_configuration", {"ping_gateway"})
        \/ c = Cause("dns_failure", CAUTION, 75, "flush_dns", {"test_dns"})
        \/ c = Cause("internet_unreachable", CAUTION, 55, NoFix,
                     {"test_internet", "ping_gateway"})
    BY <1>6 DEF NetworkRule, When
  <2> QED
    BY <2>1
<1>7. CASE c \in UNION {ServiceRule(r, category, name) : name \in ServiceNames}
  BY <1>7 DEF ServiceRule
<1>8. CASE c \in UpdatesRule(r, category) \cup BluetoothRule(r, category)
  BY <1>8 DEF UpdatesRule, BluetoothRule
<1>9. CASE c \in DevicesRule(r, category) \cup AppsRule(r, category)
  BY <1>9 DEF DevicesRule, AppsRule
<1>10. CASE c \in BackgroundRule(r, category)
  BY <1>10 DEF BackgroundRule
<1>11. CASE c \in GraphicsAdapterRule(r) \cup GraphicsUsageRule(r)
  BY <1>11 DEF GraphicsAdapterRule, GraphicsUsageRule
<1>12. CASE c \in GraphicsResetsRule(r)
  <2>1. PICK e : c = Cause("display_driver_resets", IF e.resets >= 3 THEN CRITICAL ELSE CAUTION,
                           Min({90, 60 + 10 * e.resets}), NoFix, {"get_display_driver_errors"})
    BY <1>12 DEF GraphicsResetsRule
  <2> DEFINE confidence == Min({90, 60 + 10 * e.resets})
             level == IF e.resets >= 3 THEN CRITICAL ELSE CAUTION
  <2>2. c = Cause("display_driver_resets", level, confidence, NoFix, {"get_display_driver_errors"})
        /\ level \in {CRITICAL, CAUTION}
    BY <2>1
  <2> HIDE DEF confidence, level
  <2> QED
    BY <2>2
<1>13. CASE c \in GraphicsDriverRule(r, category)
  BY <1>13 DEF GraphicsDriverRule
<1> QED
  BY <1>1, <1>2, <1>3, <1>4, <1>5, <1>6, <1>7, <1>8, <1>9, <1>10, <1>11, <1>12, <1>13 DEF Found

(* Causes that agree in all but their rank, which the sort in analyze       *)
(* adds.                                                                    *)
SameCause(c, b) ==
    c.id = b.id /\ c.level = b.level /\ c.confidence = b.confidence
    /\ c.fix = b.fix /\ c.sources = b.sources

(* A diagnosis is of its category, and its causes are those of the rules,   *)
(* each with the rank of the rule that found it.                            *)
LEMMA AnalyzeFacts ==
    ASSUME NEW r, NEW category
    PROVE  /\ analyze(category, r).category = category
           /\ \A c \in analyze(category, r).causes :
                 \E i \in 1 .. 25 : \E b \in RULES(r, category)[i] : c = Ranked(b, i)
           /\ \A i \in 1 .. 25 : \A b \in RULES(r, category)[i] :
                 Ranked(b, i) \in analyze(category, r).causes
<1> DEFINE rules == RULES(r, category)
           causes == UNION {{Ranked(c, i) : c \in rules[i]} : i \in DOMAIN rules}
<1>1. DOMAIN rules = 1 .. 25
  BY RuleList
<1>2. /\ analyze(category, r).category = category
      /\ analyze(category, r).causes = causes
  BY DEF analyze
<1> QED
  BY <1>1, <1>2

(* What a diagnosis names was found by a rule. *)
LEMMA CauseFound ==
    ASSUME NEW r, NEW category, NEW c \in analyze(category, r).causes
    PROVE  \E b \in Found(r, category) : SameCause(c, b) /\ IsCause(b)
<1>1. PICK i \in 1 .. 25 : \E b \in RULES(r, category)[i] : c = Ranked(b, i)
  BY AnalyzeFacts
<1>2. PICK b \in RULES(r, category)[i] : c = Ranked(b, i)
  BY <1>1
<1>3. b \in Found(r, category) /\ SameCause(c, b)
  BY <1>2, FoundByRules DEF Ranked, SameCause
<1> QED
  BY <1>3, CausesOnly

(* What a rule finds the diagnosis names. *)
LEMMA FoundCause ==
    ASSUME NEW r, NEW category, NEW b \in Found(r, category)
    PROVE  \E c \in analyze(category, r).causes : SameCause(c, b)
<1>1. PICK i \in 1 .. 25 : b \in RULES(r, category)[i]
  BY FoundByRules
<1>2. Ranked(b, i) \in analyze(category, r).causes /\ SameCause(Ranked(b, i), b)
  BY <1>1, AnalyzeFacts DEF Ranked, SameCause
<1> QED
  BY <1>2

(* A diagnosis is as serious as the most serious cause that was found. *)
LEMMA LevelFacts ==
    ASSUME NEW r, NEW category
    PROVE  analyze(category, r).level =
              IF \E c \in Found(r, category) : c.level = CRITICAL THEN CRITICAL
              ELSE IF \E c \in Found(r, category) : c.level = CAUTION THEN CAUTION ELSE OK
<1> DEFINE causes == analyze(category, r).causes
           problems == {c \in causes : IsProblem(c)}
<1>1. analyze(category, r).level =
         IF problems = {} THEN OK
         ELSE IF \E c \in problems : c.level = CRITICAL THEN CRITICAL ELSE CAUTION
  BY DEF analyze
<1>2. \A l : (\E c \in causes : c.level = l) <=> (\E b \in Found(r, category) : b.level = l)
  BY CauseFound, FoundCause DEF SameCause
<1> HIDE DEF causes
<1> QED
  BY <1>1, <1>2 DEF IsProblem, CRITICAL, CAUTION, OK

-----------------------------------------------------------------------------
(* What the extractors read                                                *)

(* The least of one and of two numbers. *)
LEMMA MinOfTwo ==
    /\ \A i : Min({i}) = i
    /\ \A i, j \in Int : Min({i, j}) = IF i <= j THEN i ELSE j
<1>1. ASSUME NEW i PROVE Min({i}) = i
  BY DEF Min
<1>2. ASSUME NEW i \in Int, NEW j \in Int PROVE Min({i, j}) = IF i <= j THEN i ELSE j
  <2> DEFINE m == IF i <= j THEN i ELSE j
  <2>1. m \in {i, j} /\ \A k \in {i, j} : m <= k
    OBVIOUS
  <2>2. \A k \in {i, j} : (\A l \in {i, j} : k <= l) => k = m
    OBVIOUS
  <2> HIDE DEF m
  <2> QED
    BY <2>1, <2>2 DEF Min
<1> QED
  BY <1>1, <1>2

(* What is read when one check may have measured it. *)
LEMMA DataOne ==
    ASSUME NEW r, NEW a
    PROVE  Data(r, <<a>>) = IF a \in DOMAIN r THEN {r[a]} ELSE {}
<1> DEFINE s == <<a>>
           measured == {i \in DOMAIN s : s[i] \in DOMAIN r}
<1>1. DOMAIN s = {1} /\ s[1] = a
  OBVIOUS
<1>2. Data(r, s) = IF measured = {} THEN {} ELSE {r[s[Min(measured)]]}
  BY DEF Data
<1> HIDE DEF s
<1>3. measured = IF a \in DOMAIN r THEN {1} ELSE {}
  BY <1>1
<1>4. Min({1}) = 1
  BY MinOfTwo
<1> QED
  BY <1>1, <1>2, <1>3, <1>4 DEF s

(* What is read when two checks may have measured it: the first of them     *)
(* that succeeded decides.                                                  *)
LEMMA DataTwo ==
    ASSUME NEW r, NEW a, NEW b
    PROVE  Data(r, <<a, b>>) = IF a \in DOMAIN r THEN {r[a]}
                               ELSE IF b \in DOMAIN r THEN {r[b]} ELSE {}
<1> DEFINE s == <<a, b>>
           measured == {i \in DOMAIN s : s[i] \in DOMAIN r}
<1>1. DOMAIN s = {1, 2} /\ s[1] = a /\ s[2] = b
  OBVIOUS
<1>2. Data(r, s) = IF measured = {} THEN {} ELSE {r[s[Min(measured)]]}
  BY DEF Data
<1> HIDE DEF s
<1>3. CASE a \in DOMAIN r
  <2>1. measured = {1} \/ measured = {1, 2}
    BY <1>1, <1>3
  <2>2. Min(measured) = 1
    BY <2>1, MinOfTwo
  <2> QED
    BY <1>1, <1>2, <1>3, <2>1, <2>2 DEF s
<1>4. CASE a \notin DOMAIN r /\ b \in DOMAIN r
  <2>1. measured = {2}
    BY <1>1, <1>4
  <2>2. Min(measured) = 2
    BY <2>1, MinOfTwo
  <2> QED
    BY <1>1, <1>2, <1>4, <2>1, <2>2 DEF s
<1>5. CASE a \notin DOMAIN r /\ b \notin DOMAIN r
  BY <1>1, <1>2, <1>5 DEF s
<1> QED
  BY <1>3, <1>4, <1>5

(* Whether a check succeeded and knows a service. *)
Knows(r, tool, name) == tool \in DOMAIN r /\ name \in DOMAIN r[tool].services

(* What is read of a service is what the first of the four checks says      *)
(* that succeeded and knows the service.                                    *)
LEMMA ServiceFirst ==
    ASSUME NEW r, NEW name
    PROVE  Service(r, name) =
             IF Knows(r, "get_search_indexer_status", name)
             THEN {r["get_search_indexer_status"].services[name]}
             ELSE IF Knows(r, "get_important_services", name)
             THEN {r["get_important_services"].services[name]}
             ELSE IF Knows(r, "get_windows_update_status", name)
             THEN {r["get_windows_update_status"].services[name]}
             ELSE IF Knows(r, "get_network_services_status", name)
             THEN {r["get_network_services_status"].services[name]} ELSE {}
<1> DEFINE knows == {i \in DOMAIN ServiceChecks :
                       /\ ServiceChecks[i] \in DOMAIN r
                       /\ name \in DOMAIN r[ServiceChecks[i]].services}
           K(i) == Knows(r, ServiceChecks[i], name)
           V(i) == {r[ServiceChecks[i]].services[name]}
<1>1. /\ ServiceChecks[1] = "get_search_indexer_status"
      /\ ServiceChecks[2] = "get_important_services"
      /\ ServiceChecks[3] = "get_windows_update_status"
      /\ ServiceChecks[4] = "get_network_services_status"
      /\ DOMAIN ServiceChecks = 1 .. 4
  BY DEF ServiceChecks
<1>2. knows = {i \in 1 .. 4 : K(i)}
  BY <1>1 DEF Knows
<1>3. Service(r, name) = IF knows = {} THEN {} ELSE V(Min(knows))
  BY DEF Service
<1>4. ASSUME NEW i \in 1 .. 4, K(i), \A j \in 1 .. 4 : j < i => ~K(j)
      PROVE  Service(r, name) = V(i)
  <2>1. i \in knows /\ \A j \in knows : i <= j
    <3>1. \A j \in 1 .. 4 : ~(j < i) => i <= j
      OBVIOUS
    <3> QED
      BY <1>2, <1>4, <3>1
  <2>2. \A j \in knows : (\A k \in knows : j <= k) => j = i
    <3>1. \A j \in 1 .. 4 : i <= j /\ j <= i => j = i
      OBVIOUS
    <3> QED
      BY <1>2, <2>1, <3>1
  <2> HIDE DEF knows
  <2>3. Min(knows) = i
    BY <2>1, <2>2 DEF Min
  <2> QED
    BY <1>3, <2>1, <2>3
<1>5. (\A i \in 1 .. 4 : ~K(i)) => Service(r, name) = {}
  BY <1>2, <1>3
<1> HIDE DEF knows, K, V
<1>6. Service(r, name) = IF K(1) THEN V(1) ELSE IF K(2) THEN V(2) ELSE IF K(3) THEN V(3)
                         ELSE IF K(4) THEN V(4) ELSE {}
  <2>1. CASE K(1)
    BY <2>1, <1>4
  <2>2. CASE ~K(1) /\ K(2)
    <3>1. \A j \in 1 .. 4 : j < 2 => j = 1
      OBVIOUS
    <3> QED
      BY <2>2, <3>1, <1>4
  <2>3. CASE ~K(1) /\ ~K(2) /\ K(3)
    <3>1. \A j \in 1 .. 4 : j < 3 => j = 1 \/ j = 2
      OBVIOUS
    <3> QED
      BY <2>3, <3>1, <1>4
  <2>4. CASE ~K(1) /\ ~K(2) /\ ~K(3) /\ K(4)
    <3>1. \A j \in 1 .. 4 : j < 4 => j = 1 \/ j = 2 \/ j = 3
      OBVIOUS
    <3> QED
      BY <2>4, <3>1, <1>4
  <2>5. CASE ~K(1) /\ ~K(2) /\ ~K(3) /\ ~K(4)
    <3>1. \A j \in 1 .. 4 : j = 1 \/ j = 2 \/ j = 3 \/ j = 4
      OBVIOUS
    <3> QED
      BY <2>5, <3>1, <1>5
  <2> QED
    BY <2>1, <2>2, <2>3, <2>4, <2>5
<1> QED
  BY <1>1, <1>6 DEF K, V

-----------------------------------------------------------------------------
(* What is read from the reports of one PC                                 *)

(* The values that the parts of a PC take. *)
LEMMA PCFacts ==
    ASSUME NEW p, IsPC(p)
    PROVE  /\ p.memory \in 0 .. 100 /\ p.cpu \in 0 .. 100 /\ p.free \in 0 .. 100
           /\ p.temp \in Nat /\ p.recycle \in Nat /\ p.app \in Nat
           /\ p.crashes \in Nat /\ p.startup \in Nat /\ p.uptime \in Nat /\ p.errors \in Nat
           /\ p.devices \in Nat /\ p.adapters \in Nat /\ p.gpu_load \in Nat
           /\ p.gpu_app \in Nat /\ p.resets \in Nat
           /\ p.hung \in BOOLEAN /\ p.reboot \in BOOLEAN
           /\ p.dns \in BOOLEAN /\ p.internet \in BOOLEAN
           /\ p.indexer \in {"normal", "large", "stuck"}
           /\ p.bluetooth \in {"fine", "problem", "missing"}
           /\ p.gateway \in {"replies", "silent", "none"}
           /\ p.gpu \in {"fine", "basic", "faulty", "old"}
           /\ \A s \in Services : p[s] \in ServiceStates
<1>1. DOMAIN HealthyPC = DOMAIN HealthyParts \cup Services
  BY DEF HealthyPC
<1>2. \A f \in DOMAIN HealthyParts \cup Services : p[f] \in Values(f)
  BY <1>1 DEF IsPC
<1>3. DOMAIN HealthyParts =
        {"memory", "cpu", "free", "temp", "recycle", "indexer", "app", "hung", "crashes",
         "startup", "uptime", "errors", "reboot", "devices", "bluetooth", "adapters",
         "gateway", "dns", "internet", "gpu", "gpu_load", "gpu_app", "resets"}
  BY DEF HealthyParts
<1>4. \A f \in DOMAIN HealthyParts : f \notin Services
  BY <1>3 DEF Services
<1>5. \A f \in {"memory", "cpu", "free"} : p[f] \in 0 .. 100
  BY <1>2, <1>3, <1>4 DEF Values
<1>6. \A f \in {"temp", "recycle", "app", "crashes", "startup", "uptime", "errors", "devices",
                "adapters", "gpu_load", "gpu_app", "resets"} : p[f] \in Nat
  BY <1>2, <1>3, <1>4 DEF Values
<1>7. \A f \in {"hung", "reboot", "dns", "internet"} : p[f] \in BOOLEAN
  BY <1>2, <1>3, <1>4 DEF Values
<1>8. /\ p.indexer \in {"normal", "large", "stuck"}
      /\ p.bluetooth \in {"fine", "problem", "missing"}
      /\ p.gateway \in {"replies", "silent", "none"}
      /\ p.gpu \in {"fine", "basic", "faulty", "old"}
  BY <1>2, <1>3, <1>4 DEF Values
<1>9. ASSUME NEW s \in Services PROVE p[s] \in ServiceStates
  <2>1. Values(s) = ServiceStates
    BY DEF Values, Services
  <2> QED
    BY <2>1, <1>2
<1> QED
  BY <1>5, <1>6, <1>7, <1>8, <1>9

(* What each check that a rule reads reports. *)
LEMMA ReportIs ==
    ASSUME NEW p
    PROVE  /\ Report("get_cpu_usage", p) = get_cpu_usage(p)
           /\ Report("get_memory_usage", p) = get_memory_usage(p)
           /\ Report("get_memory_details", p) = get_memory_details(p)
           /\ Report("get_boot_time", p) = get_boot_time(p)
           /\ Report("get_startup_apps", p) = get_startup_apps(p)
           /\ Report("get_recent_system_errors", p) = get_recent_system_errors(p)
           /\ Report("get_recent_application_crashes", p) = get_recent_application_crashes(p)
           /\ Report("get_pending_reboot", p) = get_pending_reboot(p)
           /\ Report("get_problem_devices", p) = get_problem_devices(p)
           /\ Report("get_bluetooth_devices", p) = get_bluetooth_devices(p)
           /\ Report("get_disk_usage", p) = get_disk_usage(p)
           /\ Report("get_disk_free_space", p) = get_disk_free_space(p)
           /\ Report("get_reclaimable_space", p) = get_reclaimable_space(p)
           /\ Report("get_network_adapters", p) = get_network_adapters(p)
           /\ Report("ping_gateway", p) = ping_gateway(p)
           /\ Report("test_dns", p) = test_dns(p)
           /\ Report("test_internet", p) = test_internet(p)
           /\ Report("get_important_services", p) = get_important_services(p)
           /\ Report("get_windows_update_status", p) = get_windows_update_status(p)
           /\ Report("get_network_services_status", p) = get_network_services_status(p)
           /\ Report("get_search_indexer_status", p) = get_search_indexer_status(p)
           /\ Report("get_running_processes", p) = get_running_processes(p)
           /\ Report("get_unresponsive_apps", p) = get_unresponsive_apps(p)
           /\ Report("get_gpu_info", p) = get_gpu_info(p)
           /\ Report("get_gpu_usage", p) = get_gpu_usage(p)
           /\ Report("get_display_driver_errors", p) = get_display_driver_errors(p)
BY DEF Report

(* Results that are all measurements of one PC. *)
Honest(r, p) == \A t \in DOMAIN r : r[t] = Report(t, p)

(* The set of what is read of a PC when one of some checks succeeded. *)
Seen(r, tools, value) == IF tools \cap DOMAIN r = {} THEN {} ELSE {value}

(* What a check that reads the disk says of a PC. *)
DiskOf(p) == [percent |-> Used(p), free |-> p.free, low |-> Used(p) >= 90 \/ p.free < 10]

(* Of honest results a reading is what some check that succeeded reports    *)
(* of the PC.                                                               *)
LEMMA DataReadings ==
    ASSUME NEW r, NEW p, Honest(r, p)
    PROVE  /\ \A t : Data(r, <<t>>) = Seen(r, {t}, Report(t, p))
           /\ \A t, u : Data(r, <<t, u>>) =
                 IF t \in DOMAIN r THEN {Report(t, p)} ELSE Seen(r, {u}, Report(u, p))
<1>1. \A t : Data(r, <<t>>) = Seen(r, {t}, Report(t, p))
  BY DataOne DEF Honest, Seen
<1>2. \A t, u : Data(r, <<t, u>>) =
         IF t \in DOMAIN r THEN {Report(t, p)} ELSE Seen(r, {u}, Report(u, p))
  BY DataTwo DEF Honest, Seen
<1> QED
  BY <1>1, <1>2

(* The fields that the readings take from the reports. *)
LEMMA ReportFields ==
    ASSUME NEW p
    PROVE  /\ Report("get_cpu_usage", p).usage = p.cpu
           /\ Report("get_memory_usage", p).usage = p.memory
           /\ Report("get_memory_details", p).usage = p.memory
           /\ Report("get_running_processes", p).app = p.app
           /\ Report("get_running_processes", p).hung = p.hung
           /\ Report("get_unresponsive_apps", p).hung = p.hung
           /\ Report("get_network_adapters", p).up = p.adapters
           /\ Report("test_dns", p).working = (p.dns /\ Routed(p))
           /\ Report("test_internet", p).reachable = (p.internet /\ Routed(p))
           /\ Report("get_pending_reboot", p).pending = p.reboot
<1>1. /\ get_cpu_usage(p).usage = p.cpu
      /\ get_memory_usage(p).usage = p.memory
      /\ get_memory_details(p).usage = p.memory
      /\ get_running_processes(p).app = p.app
      /\ get_running_processes(p).hung = p.hung
      /\ get_unresponsive_apps(p).hung = p.hung
      /\ get_network_adapters(p).up = p.adapters
      /\ test_dns(p).working = (p.dns /\ Routed(p))
      /\ test_internet(p).reachable = (p.internet /\ Routed(p))
      /\ get_pending_reboot(p).pending = p.reboot
  BY DEF get_cpu_usage, get_memory_usage, get_memory_details, get_running_processes,
         get_unresponsive_apps, get_network_adapters, test_dns, test_internet,
         get_pending_reboot
<1> QED
  BY <1>1, ReportIs, Zenon

(* Honest results: each reading is the value of the PC when a check that    *)
(* measures it succeeded, and is absent when none did.                      *)
LEMMA Readings ==
    ASSUME NEW r, NEW p, Honest(r, p)
    PROVE  /\ Memory(r) = Seen(r, {"get_memory_usage", "get_memory_details"}, p.memory)
           /\ Cpu(r) = Seen(r, {"get_cpu_usage"}, p.cpu)
           /\ Disk(r) = Seen(r, {"get_disk_free_space", "get_disk_usage"}, DiskOf(p))
           /\ TopApp(r) = Seen(r, {"get_running_processes"}, p.app)
           /\ Unresponsive(r) <=>
                 {"get_unresponsive_apps", "get_running_processes"} \cap DOMAIN r # {} /\ p.hung
           /\ Reclaimable(r) = Seen(r, {"get_reclaimable_space"}, get_reclaimable_space(p))
           /\ AdaptersUp(r) = Seen(r, {"get_network_adapters"}, p.adapters)
           /\ Gateway(r) = Seen(r, {"ping_gateway"}, ping_gateway(p))
           /\ DnsWorking(r) = Seen(r, {"test_dns"}, p.dns /\ Routed(p))
           /\ Internet(r) = Seen(r, {"test_internet"}, p.internet /\ Routed(p))
           /\ RebootPending(r) <=> "get_pending_reboot" \in DOMAIN r /\ p.reboot
<1>1. Memory(r) = Seen(r, {"get_memory_usage", "get_memory_details"}, p.memory)
  <2>1. Data(r, <<"get_memory_usage", "get_memory_details">>) =
           IF "get_memory_usage" \in DOMAIN r THEN {Report("get_memory_usage", p)}
           ELSE Seen(r, {"get_memory_details"}, Report("get_memory_details", p))
    BY DataReadings
  <2> QED
    BY <2>1, ReportFields DEF Memory, Seen
<1>2. Cpu(r) = Seen(r, {"get_cpu_usage"}, p.cpu)
  <2>1. Data(r, <<"get_cpu_usage">>) = Seen(r, {"get_cpu_usage"}, Report("get_cpu_usage", p))
    BY DataReadings
  <2> QED
    BY <2>1, ReportFields DEF Cpu, Seen
<1>3. Disk(r) = Seen(r, {"get_disk_free_space", "get_disk_usage"}, DiskOf(p))
  <2>1. /\ get_disk_free_space(p) = DiskOf(p) /\ "low" \in DOMAIN DiskOf(p)
        /\ "low" \notin DOMAIN get_disk_usage(p)
        /\ get_disk_usage(p).percent = Used(p) /\ get_disk_usage(p).free = p.free
    BY DEF get_disk_free_space, get_disk_usage, DiskOf
  <2> DEFINE disk(d) == [percent |-> d.percent, free |-> d.free,
                         low |-> IF "low" \in DOMAIN d THEN d.low
                                 ELSE d.percent >= 90 \/ d.free < 10]
             data == Data(r, <<"get_disk_free_space", "get_disk_usage">>)
  <2>2. disk(get_disk_free_space(p)) = DiskOf(p) /\ disk(get_disk_usage(p)) = DiskOf(p)
    BY <2>1 DEF DiskOf
  <2>3. Disk(r) = {disk(d) : d \in data}
    BY DEF Disk
  <2>4. data = IF "get_disk_free_space" \in DOMAIN r THEN {get_disk_free_space(p)}
               ELSE Seen(r, {"get_disk_usage"}, get_disk_usage(p))
    <3>1. /\ Report("get_disk_free_space", p) = get_disk_free_space(p)
          /\ Report("get_disk_usage", p) = get_disk_usage(p)
      BY ReportIs
    <3> QED
      BY <3>1, DataReadings
  <2> HIDE DEF disk, data
  <2> QED
    BY <2>2, <2>3, <2>4 DEF Seen
<1>4. TopApp(r) = Seen(r, {"get_running_processes"}, p.app)
  <2>1. Processes(r) = Seen(r, {"get_running_processes"}, Report("get_running_processes", p))
    BY DataReadings DEF Processes
  <2> QED
    BY <2>1, ReportFields, ZenonT(30) DEF TopApp, Seen
<1>5. Unresponsive(r) <=>
         {"get_unresponsive_apps", "get_running_processes"} \cap DOMAIN r # {} /\ p.hung
  <2>1. Data(r, <<"get_unresponsive_apps", "get_running_processes">>) =
           IF "get_unresponsive_apps" \in DOMAIN r THEN {Report("get_unresponsive_apps", p)}
           ELSE Seen(r, {"get_running_processes"}, Report("get_running_processes", p))
    BY DataReadings
  <2> QED
    BY <2>1, ReportFields, ZenonT(60) DEF Unresponsive, Seen
<1>6. Reclaimable(r) = Seen(r, {"get_reclaimable_space"}, get_reclaimable_space(p))
  BY DataReadings, ReportIs DEF Reclaimable
<1>7. AdaptersUp(r) = Seen(r, {"get_network_adapters"}, p.adapters)
  <2>1. Data(r, <<"get_network_adapters">>) =
           Seen(r, {"get_network_adapters"}, Report("get_network_adapters", p))
    BY DataReadings
  <2> QED
    BY <2>1, ReportFields DEF AdaptersUp, Seen
<1>8. Gateway(r) = Seen(r, {"ping_gateway"}, ping_gateway(p))
  BY DataReadings, ReportIs DEF Gateway
<1>9. DnsWorking(r) = Seen(r, {"test_dns"}, p.dns /\ Routed(p))
  <2>1. Data(r, <<"test_dns">>) = Seen(r, {"test_dns"}, Report("test_dns", p))
    BY DataReadings
  <2> DEFINE works == p.dns /\ Routed(p)
  <2>2. Report("test_dns", p).working = works
    BY ReportFields
  <2> HIDE DEF works
  <2>3. DnsWorking(r) = Seen(r, {"test_dns"}, works)
    BY <2>1, <2>2 DEF DnsWorking, Seen
  <2> QED
    BY <2>3 DEF works
<1>10. Internet(r) = Seen(r, {"test_internet"}, p.internet /\ Routed(p))
  <2>1. Data(r, <<"test_internet">>) = Seen(r, {"test_internet"}, Report("test_internet", p))
    BY DataReadings
  <2> DEFINE works == p.internet /\ Routed(p)
  <2>2. Report("test_internet", p).reachable = works
    BY ReportFields
  <2> HIDE DEF works
  <2>3. Internet(r) = Seen(r, {"test_internet"}, works)
    BY <2>1, <2>2 DEF Internet, Seen
  <2> QED
    BY <2>3 DEF works
<1>11. RebootPending(r) <=> "get_pending_reboot" \in DOMAIN r /\ p.reboot
  <2>1. Data(r, <<"get_pending_reboot">>) =
           Seen(r, {"get_pending_reboot"}, Report("get_pending_reboot", p))
    BY DataReadings
  <2> QED
    BY <2>1, ReportFields DEF RebootPending, Seen
<1> QED
  BY <1>1, <1>2, <1>3, <1>4, <1>5, <1>6, <1>7, <1>8, <1>9, <1>10, <1>11

(* Which services each of the four checks knows. *)
ServiceTools(name) ==
    {"get_important_services"}
    \cup (IF name = "WSearch" THEN {"get_search_indexer_status"} ELSE {})
    \cup (IF name \in {"wuauserv", "bits"} THEN {"get_windows_update_status"} ELSE {})
    \cup (IF name \in {"Dnscache", "Dhcp", "WlanSvc"} THEN {"get_network_services_status"} ELSE {})

(* The same for the services: each has the checks that know it. *)
LEMMA ServiceReadings ==
    ASSUME NEW r, NEW p, Honest(r, p), NEW name \in Services
    PROVE  Service(r, name) = Seen(r, ServiceTools(name), service_status(name, p[name]))
<1> DEFINE status == service_status(name, p[name])
           known(tool, names) ==
              tool \in DOMAIN r =>
                 /\ Knows(r, tool, name) <=> name \in names
                 /\ name \in names => r[tool].services[name] = status
<1>1. known("get_search_indexer_status", {"WSearch"})
  <2>1. get_search_indexer_status(p).services = Statuses(p, {"WSearch"})
    BY DEF get_search_indexer_status
  <2> QED
    BY <2>1, ReportIs DEF Honest, Knows, Statuses
<1>2. known("get_important_services", Services)
  <2>1. get_important_services(p).services = Statuses(p, Services)
    BY DEF get_important_services
  <2> QED
    BY <2>1, ReportIs DEF Honest, Knows, Statuses
<1>3. known("get_windows_update_status", {"wuauserv", "bits"})
  <2>1. get_windows_update_status(p).services = Statuses(p, {"wuauserv", "bits"})
    BY DEF get_windows_update_status
  <2> QED
    BY <2>1, ReportIs DEF Honest, Knows, Statuses
<1>4. known("get_network_services_status", {"Dnscache", "Dhcp", "WlanSvc"})
  <2>1. get_network_services_status(p).services = Statuses(p, {"Dnscache", "Dhcp", "WlanSvc"})
    BY DEF get_network_services_status
  <2> QED
    BY <2>1, ReportIs DEF Honest, Knows, Statuses
<1>5. \A tool : Knows(r, tool, name) => tool \in DOMAIN r
  BY DEF Knows
<1> HIDE DEF status
<1> QED
  BY <1>1, <1>2, <1>3, <1>4, <1>5, ServiceFirst DEF Seen, ServiceTools, status

(* The measurements show a fault of the search indexer. *)
IndexerFaulty(r) == \E i \in Indexer(r) : IndexerFault(i)

(* Honest results show a fault of the indexer exactly when the PC has one   *)
(* that the checks that succeeded can see.                                  *)
LEMMA IndexerReadings ==
    ASSUME NEW r, NEW p, Honest(r, p), IsPC(p)
    PROVE  IndexerFaulty(r) <=>
             \/ /\ "get_search_indexer_status" \in DOMAIN r
                /\ p.WSearch = "running" /\ p.indexer = "stuck"
             \/ /\ {"get_search_indexer_status", "get_running_processes"} \cap DOMAIN r # {}
                /\ p.WSearch = "running" /\ p.indexer = "large"
             \/ /\ {"get_search_indexer_status", "get_important_services"} \cap DOMAIN r # {}
                /\ p.WSearch \in {"stopped", "closing", "missing"}
<1> DEFINE status == service_status("WSearch", p.WSearch)
           size   == IndexerMemory(p)
<1>1. /\ p.WSearch \in ServiceStates
      /\ p.indexer \in {"normal", "large", "stuck"}
      /\ "WSearch" \in Services
  BY PCFacts DEF Services
<1>2. /\ status.running <=> p.WSearch = "running"
      /\ status.healthy <=> p.WSearch \in {"running", "idle", "disabled"}
  BY <1>1 DEF service_status, ServiceStates, OnDemand
<1>3. size >= 1024 <=> p.WSearch = "running" /\ p.indexer = "large"
  BY DEF IndexerMemory
<1> DEFINE fault == \/ p.WSearch = "running" /\ p.indexer = "stuck"
                    \/ p.WSearch = "running" /\ p.indexer = "large"
                    \/ p.WSearch \in {"stopped", "closing", "missing"}
<1>4. CASE "get_search_indexer_status" \in DOMAIN r
  <2> DEFINE d == get_search_indexer_status(p)
  <2>1. r["get_search_indexer_status"] = d
    BY <1>4, ReportIs DEF Honest
  <2>2. /\ d.memory = size
        /\ d.responding <=> p.WSearch # "running" \/ p.indexer # "stuck"
        /\ d.services["WSearch"] = status
    BY DEF get_search_indexer_status, Statuses
  <2> HIDE DEF d, status, size
  <2>3. Indexer(r) = {[memory |-> d.memory, responding |-> d.responding,
                       running |-> d.services["WSearch"].running,
                       healthy |-> d.services["WSearch"].healthy]}
    BY <1>4, <2>1 DEF Indexer
  <2>4. IndexerFaulty(r) <=> \/ ~d.responding
                             \/ ~status.running /\ ~status.healthy
                             \/ size >= 1024
    BY <2>2, <2>3 DEF IndexerFaulty, IndexerFault
  <2>5. IndexerFaulty(r) <=> fault
    BY <1>1, <1>2, <1>3, <2>2, <2>4 DEF ServiceStates
  <2> QED
    BY <1>4, <2>5
<1>5. CASE "get_search_indexer_status" \notin DOMAIN r
  <2> DEFINE sizes == UNION {d.indexer : d \in Processes(r)}
             known == Service(r, "WSearch")
  <2>1. Processes(r) = Seen(r, {"get_running_processes"}, get_running_processes(p))
    BY DataReadings, ReportIs DEF Processes
  <2>2. get_running_processes(p).indexer = IF p.WSearch = "running" THEN {size} ELSE {}
    BY DEF get_running_processes
  <2>3. sizes = IF "get_running_processes" \in DOMAIN r /\ p.WSearch = "running"
                THEN {size} ELSE {}
    BY <2>1, <2>2 DEF Seen
  <2>4. known = IF "get_important_services" \in DOMAIN r THEN {status} ELSE {}
    <3>1. known = Seen(r, ServiceTools("WSearch"), status)
      BY <1>1, ServiceReadings
    <3>2. ServiceTools("WSearch") = {"get_important_services", "get_search_indexer_status"}
      BY DEF ServiceTools
    <3> QED
      BY <3>1, <3>2, <1>5 DEF Seen
  <2> DEFINE found == IF sizes = {} THEN 0 ELSE CHOOSE s \in sizes : TRUE
             seen  == [memory |-> found, responding |-> TRUE,
                       running |-> \E s \in known : s.running,
                       healthy |-> \A s \in known : s.healthy]
  <2>5. Indexer(r) = IF sizes = {} /\ \A s \in known : s.healthy THEN {} ELSE {seen}
    BY <1>5 DEF Indexer, IndexerSeen
  <2>6. found = IF sizes = {} THEN 0 ELSE size
    BY <2>3
  <2>7. IndexerFault(seen) <=> \/ ~(\E s \in known : s.running) /\ ~(\A s \in known : s.healthy)
                               \/ found >= 1024
    BY DEF IndexerFault
  <2>8. IndexerFaulty(r) <=> ~(sizes = {} /\ \A s \in known : s.healthy) /\ IndexerFault(seen)
    BY <2>5 DEF IndexerFaulty
  <2> HIDE DEF sizes, known, found, seen, status, size
  <2> QED
    BY <1>1, <1>2, <1>3, <1>5, <2>3, <2>4, <2>6, <2>7, <2>8 DEF ServiceStates
<1> QED
  BY <1>4, <1>5

-----------------------------------------------------------------------------
(* Missing evidence                                                        *)

(* Of two honest results of one PC the one with more checks reads what the  *)
(* other reads, and maybe more.                                             *)
LEMMA MoreSeen ==
    ASSUME NEW r, NEW q, NEW p, Honest(r, p), Honest(q, p), IsPC(p), DOMAIN q \subseteq DOMAIN r
    PROVE  /\ Memory(q) \subseteq Memory(r) /\ Cpu(q) \subseteq Cpu(r)
           /\ Disk(q) \subseteq Disk(r) /\ TopApp(q) \subseteq TopApp(r)
           /\ Unresponsive(q) => Unresponsive(r)
           /\ Reclaimable(q) \subseteq Reclaimable(r)
           /\ AdaptersUp(q) \subseteq AdaptersUp(r) /\ Gateway(q) \subseteq Gateway(r)
           /\ DnsWorking(q) \subseteq DnsWorking(r) /\ Internet(q) \subseteq Internet(r)
           /\ RebootPending(q) => RebootPending(r)
           /\ \A t : Data(q, <<t>>) \subseteq Data(r, <<t>>)
           /\ \A name \in Services : Service(q, name) \subseteq Service(r, name)
           /\ IndexerFaulty(q) => IndexerFaulty(r)
<1>1. \A tools, value : Seen(q, tools, value) \subseteq Seen(r, tools, value)
  BY DEF Seen
<1>2. /\ Memory(q) \subseteq Memory(r) /\ Cpu(q) \subseteq Cpu(r)
      /\ Disk(q) \subseteq Disk(r) /\ TopApp(q) \subseteq TopApp(r)
      /\ Reclaimable(q) \subseteq Reclaimable(r)
  BY <1>1, Readings
<1>3. /\ AdaptersUp(q) \subseteq AdaptersUp(r) /\ Gateway(q) \subseteq Gateway(r)
      /\ DnsWorking(q) \subseteq DnsWorking(r) /\ Internet(q) \subseteq Internet(r)
  <2> DEFINE dns == p.dns /\ Routed(p)
             net == p.internet /\ Routed(p)
  <2>1. /\ AdaptersUp(q) = Seen(q, {"get_network_adapters"}, p.adapters)
        /\ AdaptersUp(r) = Seen(r, {"get_network_adapters"}, p.adapters)
        /\ Gateway(q) = Seen(q, {"ping_gateway"}, ping_gateway(p))
        /\ Gateway(r) = Seen(r, {"ping_gateway"}, ping_gateway(p))
    BY Readings
  <2>2. /\ DnsWorking(q) = Seen(q, {"test_dns"}, dns)
        /\ DnsWorking(r) = Seen(r, {"test_dns"}, dns)
    BY Readings
  <2>3. /\ Internet(q) = Seen(q, {"test_internet"}, net)
        /\ Internet(r) = Seen(r, {"test_internet"}, net)
    BY Readings
  <2> HIDE DEF dns, net
  <2> QED
    BY <1>1, <2>1, <2>2, <2>3
<1>4. Unresponsive(q) => Unresponsive(r)
  <2>1. /\ Unresponsive(q) <=>
           {"get_unresponsive_apps", "get_running_processes"} \cap DOMAIN q # {} /\ p.hung
        /\ Unresponsive(r) <=>
           {"get_unresponsive_apps", "get_running_processes"} \cap DOMAIN r # {} /\ p.hung
    BY Readings
  <2> QED
    BY <2>1
<1>5. RebootPending(q) => RebootPending(r)
  BY Readings
<1>6. ASSUME NEW t PROVE Data(q, <<t>>) \subseteq Data(r, <<t>>)
  <2>1. /\ Data(q, <<t>>) = Seen(q, {t}, Report(t, p))
        /\ Data(r, <<t>>) = Seen(r, {t}, Report(t, p))
    BY DataReadings
  <2> QED
    BY <1>1, <2>1
<1>7. \A name \in Services : Service(q, name) \subseteq Service(r, name)
  BY <1>1, ServiceReadings
<1>8. IndexerFaulty(q) => IndexerFaulty(r)
  <2>1. \A tools : tools \cap DOMAIN q # {} => tools \cap DOMAIN r # {}
    OBVIOUS
  <2> QED
    BY <2>1, IndexerReadings
<1> QED
  BY <1>2, <1>3, <1>4, <1>5, <1>6, <1>7, <1>8

(* Every other rule takes more evidence for more causes. *)
LEMMA MoreCauses ==
    ASSUME NEW r, NEW q, NEW p, NEW category,
           Honest(r, p), Honest(q, p), IsPC(p), DOMAIN q \subseteq DOMAIN r,
           NEW c \in Found(q, category), c \notin NetworkRule(q, category)
    PROVE  c \in Found(r, category)
<1> USE DEF When
<1>1. CASE c \in MemoryRule(q, category)
  <2>1. c \in MemoryRule(r, category)
    BY <1>1, MoreSeen DEF MemoryRule
  <2> QED
    BY <2>1 DEF Found
<1>2. CASE c \in IndexerRule(q, category)
  <2>1. \A x : IndexerRule(x, category) =
                 IF category \in SearchCategories /\ IndexerFaulty(x)
                 THEN {Cause("search_indexer", CAUTION, 70, "restart_windows_search",
                             {"get_search_indexer_status", "get_running_processes",
                              "get_important_services"})} ELSE {}
    BY DEF IndexerRule, IndexerFaulty
  <2>2. c \in IndexerRule(r, category)
    BY <1>2, <2>1, MoreSeen
  <2> QED
    BY <2>2 DEF Found
<1>3. CASE c \in LargeAppsRule(q)
  <2>1. c \in LargeAppsRule(r)
    BY <1>3, MoreSeen DEF LargeAppsRule
  <2> QED
    BY <2>1 DEF Found
<1>4. CASE c \in CpuRule(q)
  <2>1. c \in CpuRule(r)
    BY <1>4, MoreSeen DEF CpuRule
  <2> QED
    BY <2>1 DEF Found
<1>5. CASE c \in DiskRule(q, category)
  <2>1. Disk(q) \subseteq Disk(r) /\ Reclaimable(q) \subseteq Reclaimable(r)
    BY MoreSeen
  <2>2. c \in DiskRule(r, category)
    BY <1>5, <2>1 DEF DiskRule
  <2> QED
    BY <2>2 DEF Found
<1>6. CASE c \in UpdateSpaceRule(q, category)
  <2>1. c \in UpdateSpaceRule(r, category)
    BY <1>6, MoreSeen DEF UpdateSpaceRule
  <2> QED
    BY <2>1 DEF Found
<1>7. CASE c \in UNION {ServiceRule(q, category, name) : name \in ServiceNames}
  <2>1. PICK name \in ServiceNames : c \in ServiceRule(q, category, name)
    BY <1>7
  <2>2. name \in Services
    BY DEF ServiceNames, ServiceOrder, Services
  <2>3. Service(q, name) \subseteq Service(r, name)
    BY <2>2, MoreSeen
  <2>4. c \in ServiceRule(r, category, name)
    BY <2>1, <2>3 DEF ServiceRule
  <2> QED
    BY <2>4 DEF Found
<1>8. CASE c \in UpdatesRule(q, category)
  <2>1. c \in UpdatesRule(r, category)
    BY <1>8, MoreSeen DEF UpdatesRule
  <2> QED
    BY <2>1 DEF Found
<1>9. CASE c \in BluetoothRule(q, category)
  <2>1. c \in BluetoothRule(r, category)
    BY <1>9, MoreSeen DEF BluetoothRule
  <2> QED
    BY <2>1 DEF Found
<1>10. CASE c \in DevicesRule(q, category)
  <2>1. c \in DevicesRule(r, category)
    BY <1>10, MoreSeen DEF DevicesRule
  <2> QED
    BY <2>1 DEF Found
<1>11. CASE c \in AppsRule(q, category)
  <2>1. c \in AppsRule(r, category)
    BY <1>11, MoreSeen DEF AppsRule
  <2> QED
    BY <2>1 DEF Found
<1>12. CASE c \in BackgroundRule(q, category)
  <2>1. c \in BackgroundRule(r, category)
    BY <1>12, MoreSeen DEF BackgroundRule
  <2> QED
    BY <2>1 DEF Found
<1>13. CASE c \in GraphicsAdapterRule(q)
  <2>1. c \in GraphicsAdapterRule(r)
    BY <1>13, MoreSeen DEF GraphicsAdapterRule
  <2> QED
    BY <2>1 DEF Found
<1>14. CASE c \in GraphicsResetsRule(q)
  <2>1. Data(q, <<"get_display_driver_errors">>) \subseteq Data(r, <<"get_display_driver_errors">>)
    BY MoreSeen
  <2>2. c \in GraphicsResetsRule(r)
    BY <1>14, <2>1 DEF GraphicsResetsRule
  <2> QED
    BY <2>2 DEF Found
<1>15. CASE c \in GraphicsUsageRule(q)
  <2>1. c \in GraphicsUsageRule(r)
    BY <1>15, MoreSeen DEF GraphicsUsageRule
  <2> QED
    BY <2>1 DEF Found
<1>16. CASE c \in GraphicsDriverRule(q, category)
  <2>1. c \in GraphicsDriverRule(r, category)
    BY <1>16, MoreSeen DEF GraphicsDriverRule
  <2> QED
    BY <2>1 DEF Found
<1> QED
  BY <1>1, <1>2, <1>3, <1>4, <1>5, <1>6, <1>7, <1>8, <1>9, <1>10, <1>11, <1>12, <1>13,
     <1>14, <1>15, <1>16 DEF Found

(* The rules of the network: what each of their causes says. *)
LEMMA NetworkCauses ==
    ASSUME NEW r, NEW category
    PROVE  /\ NetworkRule(r, category) # {} => category \in NetCategories
           /\ \A c \in NetworkRule(r, category) :
                \/ /\ NoLink(r) /\ c.id = "no_adapter" /\ c.level = CRITICAL
                   /\ c.fix \in {"restart_wlan_service", "restart_network_adapter"}
                \/ /\ ~NoLink(r) /\ \E g \in Gateway(r) : ~g.reachable /\ g.gateway
                   /\ c.id = "gateway_unreachable" /\ c.level = CRITICAL
                   /\ c.fix = "restart_network_adapter"
                \/ /\ ~NoLink(r) /\ \E g \in Gateway(r) : ~g.reachable /\ ~g.gateway
                   /\ c.id = "no_gateway" /\ c.level = CRITICAL
                   /\ c.fix = "renew_ip_configuration"
                \/ /\ ~NoLink(r) /\ FALSE \in DnsWorking(r)
                   /\ ~\E g \in Gateway(r) : ~g.reachable
                   /\ c.id = "dns_failure" /\ c.level = CAUTION /\ c.fix = "flush_dns"
                \/ /\ ~NoLink(r) /\ FALSE \in Internet(r) /\ FALSE \notin DnsWorking(r)
                   /\ \E g \in Gateway(r) : g.reachable
                   /\ c.id = "internet_unreachable" /\ c.level = CAUTION /\ c.fix = NoFix
           /\ category \in NetCategories =>
                /\ NoLink(r) => \E c \in NetworkRule(r, category) :
                      c.id = "no_adapter" /\ c.level = CRITICAL
                /\ ~NoLink(r) /\ (\E g \in Gateway(r) : ~g.reachable /\ g.gateway) =>
                      \E c \in NetworkRule(r, category) :
                         c.id = "gateway_unreachable" /\ c.level = CRITICAL
                /\ ~NoLink(r) /\ (\E g \in Gateway(r) : ~g.reachable /\ ~g.gateway) =>
                      \E c \in NetworkRule(r, category) :
                         c.id = "no_gateway" /\ c.level = CRITICAL
                /\ ~NoLink(r) /\ FALSE \in DnsWorking(r) /\ ~(\E g \in Gateway(r) : ~g.reachable) =>
                      \E c \in NetworkRule(r, category) :
                         c.id = "dns_failure" /\ c.level = CAUTION
                /\ /\ ~NoLink(r) /\ FALSE \in Internet(r) /\ FALSE \notin DnsWorking(r)
                   /\ \E g \in Gateway(r) : g.reachable
                   => \E c \in NetworkRule(r, category) :
                         c.id = "internet_unreachable" /\ c.level = CAUTION
<1> DEFINE adapter == IF category = "wifi_disconnecting" THEN "restart_wlan_service"
                      ELSE "restart_network_adapter"
           silent  == \E g \in Gateway(r) : ~g.reachable
           A == Cause("no_adapter", CRITICAL, 85, adapter, {"get_network_adapters"})
           U == Cause("gateway_unreachable", CRITICAL, 75, "restart_network_adapter",
                      {"ping_gateway"})
           G == Cause("no_gateway", CRITICAL, 70, "renew_ip_configuration", {"ping_gateway"})
           D == Cause("dns_failure", CAUTION, 75, "flush_dns", {"test_dns"})
           I == Cause("internet_unreachable", CAUTION, 55, NoFix,
                      {"test_internet", "ping_gateway"})
           Us == {U : g \in {g \in Gateway(r) : ~g.reachable /\ g.gateway}}
           Gs == {G : g \in {g \in Gateway(r) : ~g.reachable /\ ~g.gateway}}
           Ds == When(FALSE \in DnsWorking(r) /\ ~silent, {D})
           Is == When(/\ FALSE \in Internet(r) /\ (\E g \in Gateway(r) : g.reachable)
                      /\ FALSE \notin DnsWorking(r), {I})
<1>1. NetworkRule(r, category) = IF category \notin NetCategories THEN {}
                                 ELSE IF NoLink(r) THEN {A} ELSE Us \cup Gs \cup Ds \cup Is
  BY DEF NetworkRule
<1>2. /\ A.id = "no_adapter" /\ A.level = CRITICAL
      /\ A.fix \in {"restart_wlan_service", "restart_network_adapter"}
      /\ U.id = "gateway_unreachable" /\ U.level = CRITICAL /\ U.fix = "restart_network_adapter"
      /\ G.id = "no_gateway" /\ G.level = CRITICAL /\ G.fix = "renew_ip_configuration"
      /\ D.id = "dns_failure" /\ D.level = CAUTION /\ D.fix = "flush_dns"
      /\ I.id = "internet_unreachable" /\ I.level = CAUTION /\ I.fix = NoFix
  BY DEF Cause
<1> HIDE DEF A, U, G, D, I, adapter
<1>3. /\ \A c : c \in Us <=> c = U /\ \E g \in Gateway(r) : ~g.reachable /\ g.gateway
      /\ \A c : c \in Gs <=> c = G /\ \E g \in Gateway(r) : ~g.reachable /\ ~g.gateway
  OBVIOUS
<1>4. /\ \A c : c \in Ds <=> c = D /\ FALSE \in DnsWorking(r) /\ ~silent
      /\ \A c : c \in Is <=> /\ c = I /\ FALSE \in Internet(r) /\ FALSE \notin DnsWorking(r)
                             /\ \E g \in Gateway(r) : g.reachable
  BY DEF When
<1> HIDE DEF Us, Gs, Ds, Is
<1>5. ASSUME NEW c \in NetworkRule(r, category), ~NoLink(r)
      PROVE  c \in Us \/ c \in Gs \/ c \in Ds \/ c \in Is
  BY <1>1, <1>5
<1>6. ASSUME category \in NetCategories, ~NoLink(r)
      PROVE  \A c : c \in Us \/ c \in Gs \/ c \in Ds \/ c \in Is => c \in NetworkRule(r, category)
  BY <1>1, <1>6
<1>7. ASSUME NEW c \in NetworkRule(r, category), NoLink(r)
      PROVE  c = A
  BY <1>1, <1>7
<1>8. category \in NetCategories /\ NoLink(r) => A \in NetworkRule(r, category)
  BY <1>1
<1>9. NetworkRule(r, category) # {} => category \in NetCategories
  BY <1>1
<1> DEFINE lost    == \E g \in Gateway(r) : ~g.reachable /\ g.gateway
           none    == \E g \in Gateway(r) : ~g.reachable /\ ~g.gateway
           replies == \E g \in Gateway(r) : g.reachable
           noDns   == FALSE \in DnsWorking(r)
           noNet   == FALSE \in Internet(r)
           Named(c, id, level) == c.id = id /\ c.level = level
<1>10. ASSUME NEW c \in NetworkRule(r, category)
       PROVE  \/ NoLink(r) /\ c = A
              \/ ~NoLink(r) /\ lost /\ c = U
              \/ ~NoLink(r) /\ none /\ c = G
              \/ ~NoLink(r) /\ noDns /\ ~silent /\ c = D
              \/ ~NoLink(r) /\ noNet /\ ~noDns /\ replies /\ c = I
  <2>1. CASE NoLink(r)
    BY <2>1, <1>7
  <2>2. CASE ~NoLink(r)
    <3>1. c \in Us \/ c \in Gs \/ c \in Ds \/ c \in Is
      BY <2>2, <1>5
    <3>2. /\ c \in Us => c = U /\ lost
          /\ c \in Gs => c = G /\ none
      BY <1>3
    <3>3. /\ c \in Ds => c = D /\ noDns /\ ~silent
          /\ c \in Is => c = I /\ noNet /\ ~noDns /\ replies
      BY <1>4
    <3> HIDE DEF lost, none, replies, noDns, noNet, silent
    <3> QED
      BY <2>2, <3>1, <3>2, <3>3
  <2> QED
    BY <2>1, <2>2
<1>11. ASSUME category \in NetCategories, ~NoLink(r)
       PROVE  /\ lost => U \in NetworkRule(r, category)
              /\ none => G \in NetworkRule(r, category)
              /\ noDns /\ ~silent => D \in NetworkRule(r, category)
              /\ noNet /\ ~noDns /\ replies => I \in NetworkRule(r, category)
  BY <1>3, <1>4, <1>6, <1>11, Zenon
<1> HIDE DEF lost, none, replies, noDns, noNet, silent
<1>12. \A c \in NetworkRule(r, category) :
          \/ /\ NoLink(r) /\ c.id = "no_adapter" /\ c.level = CRITICAL
             /\ c.fix \in {"restart_wlan_service", "restart_network_adapter"}
          \/ /\ ~NoLink(r) /\ lost /\ c.id = "gateway_unreachable" /\ c.level = CRITICAL
             /\ c.fix = "restart_network_adapter"
          \/ /\ ~NoLink(r) /\ none /\ c.id = "no_gateway" /\ c.level = CRITICAL
             /\ c.fix = "renew_ip_configuration"
          \/ /\ ~NoLink(r) /\ noDns /\ ~silent
             /\ c.id = "dns_failure" /\ c.level = CAUTION /\ c.fix = "flush_dns"
          \/ /\ ~NoLink(r) /\ noNet /\ ~noDns /\ replies
             /\ c.id = "internet_unreachable" /\ c.level = CAUTION /\ c.fix = NoFix
  BY <1>2, <1>10
<1>13. category \in NetCategories =>
         /\ NoLink(r) => \E c \in NetworkRule(r, category) : Named(c, "no_adapter", CRITICAL)
         /\ ~NoLink(r) /\ lost =>
               \E c \in NetworkRule(r, category) : Named(c, "gateway_unreachable", CRITICAL)
         /\ ~NoLink(r) /\ none =>
               \E c \in NetworkRule(r, category) : Named(c, "no_gateway", CRITICAL)
         /\ ~NoLink(r) /\ noDns /\ ~silent =>
               \E c \in NetworkRule(r, category) : Named(c, "dns_failure", CAUTION)
         /\ ~NoLink(r) /\ noNet /\ ~noDns /\ replies =>
               \E c \in NetworkRule(r, category) : Named(c, "internet_unreachable", CAUTION)
  BY <1>2, <1>8, <1>11
<1> QED
  BY <1>9, <1>12, <1>13, ZenonT(30) DEF lost, none, replies, noDns, noNet, silent

(* A check that fails hides no problem behind a milder one: what is a       *)
(* problem without some of the measurements is one, at least as serious,    *)
(* with them.                                                               *)
LEMMA LessEvidence ==
    ASSUME NEW r, NEW q, NEW p, NEW category,
           Honest(r, p), Honest(q, p), IsPC(p), DOMAIN q \subseteq DOMAIN r,
           NEW c \in Found(q, category), IsProblem(c)
    PROVE  \E d \in Found(r, category) : IsProblem(d) /\ d.level <= c.level
<1> USE DEF IsProblem, CRITICAL, CAUTION
<1>1. CASE c \notin NetworkRule(q, category)
  <2>1. c \in Found(r, category)
    BY <1>1, MoreCauses
  <2> QED
    BY <2>1
<1>2. CASE c \in NetworkRule(q, category)
  <2>1. category \in NetCategories
    BY <1>2, NetworkCauses
  <2>2. \A d \in NetworkRule(r, category) : d \in Found(r, category)
    BY DEF Found
  <2>3. ASSUME NEW d \in NetworkRule(r, category), d.level = CRITICAL \/ d.level = c.level
        PROVE  \E e \in Found(r, category) : IsProblem(e) /\ e.level <= c.level
    BY <2>2, <2>3
  <2>4. CASE NoLink(r)
    BY <2>1, <2>3, <2>4, NetworkCauses
  <2>5. CASE \E g \in Gateway(r) : ~g.reachable
    BY <2>1, <2>3, <2>4, <2>5, NetworkCauses
  <2>6. CASE ~NoLink(r) /\ ~\E g \in Gateway(r) : ~g.reachable
    <3>1. ~NoLink(q)
      <4>1. SUFFICES ASSUME NoLink(q) PROVE FALSE
        OBVIOUS
      <4>2. AdaptersUp(r) = {0}
        <5>1. AdaptersUp(q) \subseteq AdaptersUp(r)
          BY MoreSeen
        <5>2. AdaptersUp(r) = Seen(r, {"get_network_adapters"}, p.adapters)
          BY Readings
        <5> QED
          BY <4>1, <5>1, <5>2 DEF NoLink, Seen
      <4> QED
        BY <4>2, <2>6 DEF NoLink
    <3>2. /\ Gateway(q) \subseteq Gateway(r) /\ DnsWorking(q) \subseteq DnsWorking(r)
          /\ Internet(q) \subseteq Internet(r)
      BY MoreSeen
    <3>3. CASE FALSE \in DnsWorking(r)
      <4>1. \E d \in NetworkRule(r, category) : d.level = CAUTION
        BY <2>1, <2>6, <3>3, NetworkCauses
      <4>2. c.level = CAUTION
        BY <1>2, <2>6, <3>1, <3>2, NetworkCauses, ZenonT(30)
      <4> QED
        BY <4>1, <4>2, <2>3
    <3>4. CASE FALSE \notin DnsWorking(r)
      <4>1. /\ FALSE \in Internet(q) /\ \E g \in Gateway(q) : g.reachable
            /\ c.level = CAUTION
        BY <1>2, <2>6, <3>1, <3>2, <3>4, NetworkCauses, ZenonT(30)
      <4>2. \E d \in NetworkRule(r, category) : d.level = CAUTION
        BY <2>1, <2>6, <3>2, <3>4, <4>1, NetworkCauses
      <4> QED
        BY <4>1, <4>2, <2>3
    <3> QED
      BY <3>3, <3>4
  <2> QED
    BY <2>4, <2>5, <2>6
<1> QED
  BY <1>1, <1>2

(* No diagnosis of a PC gets graver by measuring less of it. *)
LEMMA MissingIsMilder ==
    ASSUME NEW r, NEW q, NEW p, NEW category,
           Honest(r, p), Honest(q, p), IsPC(p), DOMAIN q \subseteq DOMAIN r
    PROVE  analyze(category, q).level >= analyze(category, r).level
<1> USE DEF IsProblem, CRITICAL, CAUTION, OK
<1>1. ASSUME NEW c \in Found(q, category), c.level = CRITICAL
      PROVE  \E d \in Found(r, category) : d.level = CRITICAL
  BY <1>1, LessEvidence
<1>2. ASSUME NEW c \in Found(q, category), c.level = CAUTION
      PROVE  \E d \in Found(r, category) : d.level \in {CRITICAL, CAUTION}
  BY <1>2, LessEvidence
<1> QED
  BY <1>1, <1>2, LevelFacts

-----------------------------------------------------------------------------
(* The cause that leads                                                    *)

(* Results whose entries may have been measured at different times. *)
Reported(r) == \A t \in DOMAIN r : \E p : IsPC(p) /\ r[t] = Report(t, p)

(* A reading of reported results is what a check reports of some PC. *)
LEMMA ReportedOne ==
    ASSUME NEW r, Reported(r), NEW t, NEW d \in Data(r, <<t>>)
    PROVE  t \in DOMAIN r /\ \E p : IsPC(p) /\ d = Report(t, p)
BY DataOne DEF Reported

(* A set that does not leave a choice. *)
AtMostOne(S) == \A x, y \in S : x = y

(* A reading is one value or none. *)
LEMMA DataIsOne ==
    ASSUME NEW r, NEW tools
    PROVE  AtMostOne(Data(r, tools))
BY DEF Data, AtMostOne

(* So are the readings that the rules compute from several checks. *)
LEMMA ReadingsAreOne ==
    ASSUME NEW r
    PROVE  /\ AtMostOne(Memory(r)) /\ AtMostOne(Cpu(r)) /\ AtMostOne(Disk(r))
           /\ \A name : AtMostOne(Service(r, name))
<1>1. AtMostOne(Memory(r)) /\ AtMostOne(Cpu(r)) /\ AtMostOne(Disk(r))
  BY DataIsOne DEF AtMostOne, Memory, Cpu, Disk
<1>2. \A name : AtMostOne(Service(r, name))
  BY DEF Service, AtMostOne
<1> QED
  BY <1>1, <1>2

(* A set of causes that their level and confidence tell apart. *)
Apart(S) == \A b, c \in S : IsProblem(b) /\ IsProblem(c) /\ b.level = c.level
                            /\ b.confidence = c.confidence => b = c

(* One problem is told apart from itself. *)
LEMMA OneIsApart ==
    ASSUME NEW S, AtMostOne(S)
    PROVE  Apart(S)
BY DEF AtMostOne, Apart

(* A rule never finds two problems of one level and confidence: which of    *)
(* the causes of a rule leads is not left open.                             *)
LEMMA Distinguished ==
    ASSUME NEW r, NEW category, NEW i \in 1 .. 25
    PROVE  Apart(RULES(r, category)[i])
<1> DEFINE R(k) == RULES(r, category)[k]
<1> USE DEF When, Cause
<1>1. Apart(MemoryRule(r, category))
  BY ReadingsAreOne, OneIsApart DEF MemoryRule, AtMostOne
<1>2. Apart(IndexerRule(r, category))
  BY OneIsApart DEF IndexerRule, AtMostOne
<1>3. Apart(LargeAppsRule(r))
  BY OneIsApart DEF LargeAppsRule, AtMostOne
<1>4. Apart(CpuRule(r))
  <2> SUFFICES ASSUME NEW b \in CpuRule(r), NEW c \in CpuRule(r) PROVE b = c
    BY OneIsApart DEF AtMostOne
  <2> DEFINE cause(x) == Cause("high_cpu", CAUTION, IF x >= 85 THEN 70 ELSE 45, NoFix,
                               {"get_cpu_usage", "get_running_processes"})
  <2>1. CpuRule(r) = {cause(x) : x \in {x \in Cpu(r) : x >= 60}}
    BY DEF CpuRule
  <2> HIDE DEF cause
  <2> QED
    BY <2>1, ReadingsAreOne DEF AtMostOne
<1>5. Apart(DiskRule(r, category))
  BY ReadingsAreOne DEF DiskRule, AtMostOne, Apart
<1>6. Apart(UpdateSpaceRule(r, category))
  BY OneIsApart DEF UpdateSpaceRule, AtMostOne
<1>7. Apart(NetworkRule(r, category))
  <2> SUFFICES ASSUME NEW b \in NetworkRule(r, category), NEW c \in NetworkRule(r, category),
                      b.level = c.level, b.confidence = c.confidence
               PROVE  b = c
    BY DEF Apart
  <2> DEFINE adapter == IF category = "wifi_disconnecting" THEN "restart_wlan_service"
                        ELSE "restart_network_adapter"
             A == Cause("no_adapter", CRITICAL, 85, adapter, {"get_network_adapters"})
             U == Cause("gateway_unreachable", CRITICAL, 75, "restart_network_adapter",
                        {"ping_gateway"})
             G == Cause("no_gateway", CRITICAL, 70, "renew_ip_configuration", {"ping_gateway"})
             D == Cause("dns_failure", CAUTION, 75, "flush_dns", {"test_dns"})
             I == Cause("internet_unreachable", CAUTION, 55, NoFix,
                        {"test_internet", "ping_gateway"})
  <2>1. b \in {A, U, G, D, I} /\ c \in {A, U, G, D, I}
    BY ZenonT(30) DEF NetworkRule, When
  <2>2. /\ A.level = 0 /\ A.confidence = 85 /\ U.level = 0 /\ U.confidence = 75
        /\ G.level = 0 /\ G.confidence = 70 /\ D.level = 1 /\ D.confidence = 75
        /\ I.level = 1 /\ I.confidence = 55
    BY DEF CRITICAL, CAUTION
  <2> HIDE DEF A, U, G, D, I
  <2> QED
    BY <2>1, <2>2
<1>8. \A name : Apart(ServiceRule(r, category, name))
  <2> SUFFICES ASSUME NEW name, NEW b \in ServiceRule(r, category, name),
                      NEW c \in ServiceRule(r, category, name)
               PROVE  b = c
    BY OneIsApart DEF AtMostOne
  <2> DEFINE cause(x) == IF x.disabled
                         THEN Cause(Disabled[name], CAUTION, 75, NoFix,
                                    {"get_important_services", "get_windows_update_status"})
                         ELSE Cause(Stopped[name], CAUTION, 80, SERVICE_RULES[name].fix,
                                    {"get_important_services", "get_windows_update_status",
                                     "get_network_services_status"})
             ill == {x \in Service(r, name) :
                       category \in SERVICE_RULES[name].matters /\ ~x.healthy}
  <2>1. ServiceRule(r, category, name) = {cause(x) : x \in ill}
    BY DEF ServiceRule
  <2>2. ill \subseteq Service(r, name)
    OBVIOUS
  <2> HIDE DEF cause, ill
  <2> QED
    BY <2>1, <2>2, ReadingsAreOne DEF AtMostOne
<1>9. Apart(UpdatesRule(r, category)) /\ Apart(DevicesRule(r, category))
  BY OneIsApart DEF UpdatesRule, DevicesRule, AtMostOne
<1>10. Apart(BluetoothRule(r, category))
  BY DataIsOne, OneIsApart DEF BluetoothRule, AtMostOne
<1>11. Apart(AppsRule(r, category))
  BY DEF AppsRule, Apart
<1>12. Apart(BackgroundRule(r, category))
  BY DEF BackgroundRule, Apart, IsProblem, CRITICAL, CAUTION, INFO
<1>13. Apart(GraphicsAdapterRule(r)) /\ Apart(GraphicsUsageRule(r))
  BY SMTT(30) DEF GraphicsAdapterRule, GraphicsUsageRule, Apart
<1>14. Apart(GraphicsResetsRule(r))
  <2> SUFFICES ASSUME NEW b \in GraphicsResetsRule(r), NEW c \in GraphicsResetsRule(r)
               PROVE  b = c
    BY OneIsApart DEF AtMostOne
  <2> DEFINE cause(e) == Cause("display_driver_resets", IF e.resets >= 3 THEN CRITICAL ELSE CAUTION,
                               Min({90, 60 + 10 * e.resets}), NoFix,
                               {"get_display_driver_errors"})
             data == Data(r, <<"get_display_driver_errors">>)
  <2>1. GraphicsResetsRule(r) = {cause(e) : e \in {e \in data : e.resets > 0}}
    BY DEF GraphicsResetsRule
  <2>2. AtMostOne(data)
    BY DataIsOne
  <2> HIDE DEF cause, data
  <2> QED
    BY <2>1, <2>2 DEF AtMostOne
<1>15. Apart(GraphicsDriverRule(r, category))
  BY OneIsApart DEF GraphicsDriverRule, AtMostOne
<1> HIDE DEF R
<1> QED
  BY <1>1, <1>2, <1>3, <1>4, <1>5, <1>6, <1>7, <1>8, <1>9, <1>10, <1>11, <1>12, <1>13,
     <1>14, <1>15, RuleList

(* A confidence is a percentage. *)
LEMMA ConfidenceRange ==
    ASSUME NEW r, Reported(r), NEW category, NEW c \in Found(r, category)
    PROVE  c.confidence \in 0 .. 100
<1> USE DEF Cause, When
<1>1. CASE c \in MemoryRule(r, category)
  BY <1>1 DEF MemoryRule
<1>2. CASE c \in IndexerRule(r, category) \cup LargeAppsRule(r) \cup CpuRule(r)
  BY <1>2 DEF IndexerRule, LargeAppsRule, CpuRule
<1>3. CASE c \in DiskRule(r, category) \cup UpdateSpaceRule(r, category)
  BY <1>3 DEF DiskRule, UpdateSpaceRule
<1>4. CASE c \in NetworkRule(r, category)
  <2>1. \/ \E f : c = Cause("no_adapter", CRITICAL, 85, f, {"get_network_adapters"})
        \/ c = Cause("gateway_unreachable", CRITICAL, 75, "restart_network_adapter",
                     {"ping_gateway"})
        \/ c = Cause("no_gateway", CRITICAL, 70, "renew_ip_configuration", {"ping_gateway"})
        \/ c = Cause("dns_failure", CAUTION, 75, "flush_dns", {"test_dns"})
        \/ c = Cause("internet_unreachable", CAUTION, 55, NoFix,
                     {"test_internet", "ping_gateway"})
    BY <1>4 DEF NetworkRule
  <2> QED
    BY <2>1
<1>5. CASE c \in UNION {ServiceRule(r, category, name) : name \in ServiceNames}
  BY <1>5 DEF ServiceRule
<1>6. CASE c \in UpdatesRule(r, category) \cup BluetoothRule(r, category)
                 \cup DevicesRule(r, category) \cup AppsRule(r, category)
  BY <1>6 DEF UpdatesRule, BluetoothRule, DevicesRule, AppsRule
<1>7. CASE c \in BackgroundRule(r, category) \cup GraphicsAdapterRule(r)
                 \cup GraphicsUsageRule(r) \cup GraphicsDriverRule(r, category)
  BY <1>7 DEF BackgroundRule, GraphicsAdapterRule, GraphicsUsageRule, GraphicsDriverRule
<1>8. CASE c \in GraphicsResetsRule(r)
  <2> DEFINE level(e) == IF e.resets >= 3 THEN CRITICAL ELSE CAUTION
             confidence(e) == Min({90, 60 + 10 * e.resets})
             data == Data(r, <<"get_display_driver_errors">>)
  <2>0. PICK e \in data :
           e.resets > 0 /\ c = Cause("display_driver_resets", level(e), confidence(e), NoFix,
                                     {"get_display_driver_errors"})
    BY <1>8 DEF GraphicsResetsRule
  <2>1. c.confidence = confidence(e) /\ e.resets > 0
    <3> HIDE DEF level, confidence, data
    <3> QED
      BY <2>0
  <2>2. PICK p : IsPC(p) /\ e = Report("get_display_driver_errors", p)
    BY ReportedOne
  <2>3. e = get_display_driver_errors(p)
    BY <2>2, ReportIs
  <2>4. e.resets \in Nat
    BY <2>2, <2>3, PCFacts DEF get_display_driver_errors
  <2> DEFINE n == 60 + 10 * e.resets
  <2>5. n \in Int /\ n >= 60
    BY <2>4, <2>1
  <2> HIDE DEF n
  <2>6. Min({90, n}) \in 0 .. 100
    <3>1. Min({90, n}) = IF 90 <= n THEN 90 ELSE n
      BY <2>5, MinOfTwo
    <3> QED
      BY <2>5, <3>1
  <2> QED
    BY <2>1, <2>6 DEF n
<1> QED
  BY <1>1, <1>2, <1>3, <1>4, <1>5, <1>6, <1>7, <1>8 DEF Found

(* A weight that orders causes as Before does. *)
Weight(level, confidence, rank) == level * 100000 + (100 - confidence) * 100 + rank

(* The weights of level, confidence and rank order the causes               *)
(* lexicographically.                                                       *)
LEMMA WeightFacts ==
    /\ \A l \in 0 .. 1, c \in 0 .. 100, k \in 1 .. 25 : Weight(l, c, k) \in Nat
    /\ \A l, m \in 0 .. 1, c, d \in 0 .. 100, k, n \in 1 .. 25 :
          Weight(l, c, k) <= Weight(m, d, n) =>
             \/ l < m
             \/ l = m /\ c > d
             \/ l = m /\ c = d /\ k < n
             \/ l = m /\ c = d /\ k = n
<1>1. ASSUME NEW l \in 0 .. 1, NEW c \in 0 .. 100, NEW k \in 1 .. 25
      PROVE  Weight(l, c, k) \in Nat
  BY DEF Weight
<1>2. ASSUME NEW l \in 0 .. 1, NEW m \in 0 .. 1, NEW c \in 0 .. 100, NEW d \in 0 .. 100,
             NEW k \in 1 .. 25, NEW n \in 1 .. 25, Weight(l, c, k) <= Weight(m, d, n)
      PROVE  \/ l < m
             \/ l = m /\ c > d
             \/ l = m /\ c = d /\ k < n
             \/ l = m /\ c = d /\ k = n
  BY <1>2 DEF Weight
<1> QED
  BY <1>1, <1>2, Zenon

(* Of any set of problems, one comes before all others. *)
LEMMA FirstFacts ==
    ASSUME NEW r, Reported(r), NEW category, NEW S, S # {},
           S \subseteq {c \in analyze(category, r).causes : IsProblem(c)}
    PROVE  First(S) \in S /\ \A d \in S \ {First(S)} : Before(First(S), d)
<1> DEFINE key(c) == Weight(c.level, c.confidence, c.rank)
           K == {key(c) : c \in S}
<1>1. ASSUME NEW c \in S
      PROVE  /\ c.level \in 0 .. 1 /\ c.confidence \in 0 .. 100 /\ c.rank \in 1 .. 25
             /\ \E b \in RULES(r, category)[c.rank] : c = Ranked(b, c.rank) /\ IsProblem(b)
  <2>1. PICK i \in 1 .. 25 : \E b \in RULES(r, category)[i] : c = Ranked(b, i)
    BY AnalyzeFacts
  <2>2. PICK b \in RULES(r, category)[i] : c = Ranked(b, i)
    BY <2>1
  <2>3. c.rank = i /\ c.level = b.level /\ c.confidence = b.confidence
    BY <2>2 DEF Ranked
  <2>4. b \in Found(r, category)
    BY FoundByRules
  <2>5. c.level \in {0, 1}
    BY DEF IsProblem, CRITICAL, CAUTION
  <2>6. b.confidence \in 0 .. 100
    BY <2>4, ConfidenceRange
  <2> QED
    BY <2>2, <2>3, <2>5, <2>6 DEF IsProblem
<1>2. ASSUME NEW c \in S, NEW d \in S, c.level = d.level, c.confidence = d.confidence,
             c.rank = d.rank
      PROVE  c = d
  <2>1. PICK b \in RULES(r, category)[c.rank] : c = Ranked(b, c.rank) /\ IsProblem(b)
    BY <1>1
  <2>2. PICK e \in RULES(r, category)[c.rank] : d = Ranked(e, c.rank) /\ IsProblem(e)
    BY <1>1, <1>2
  <2>3. b.level = e.level /\ b.confidence = e.confidence
    BY <2>1, <2>2, <1>2 DEF Ranked
  <2>4. b = e
    BY <2>3, <2>1, <2>2, <1>1, Distinguished DEF Apart
  <2> QED
    BY <2>1, <2>2, <2>4
<1>3. K \subseteq Nat /\ K # {}
  <2>1. ASSUME NEW c \in S PROVE key(c) \in Nat
    <3>1. c.level \in 0 .. 1 /\ c.confidence \in 0 .. 100 /\ c.rank \in 1 .. 25
      BY <1>1
    <3> QED
      BY <3>1, WeightFacts
  <2> QED
    BY <2>1
<1>4. PICK k \in K : \A l \in K : k <= l
  <2> HIDE DEF K
  <2> QED
    BY <1>3, Smallest
<1>5. PICK m \in S : k = key(m)
  OBVIOUS
<1>6. ASSUME NEW d \in S, d # m PROVE Before(m, d)
  <2>1. key(m) <= key(d)
    BY <1>4, <1>5
  <2>2. /\ m.level \in 0 .. 1 /\ m.confidence \in 0 .. 100 /\ m.rank \in 1 .. 25
        /\ d.level \in 0 .. 1 /\ d.confidence \in 0 .. 100 /\ d.rank \in 1 .. 25
    BY <1>1
  <2>3. ~(m.level = d.level /\ m.confidence = d.confidence /\ m.rank = d.rank)
    BY <1>2, <1>6
  <2>4. \/ m.level < d.level
        \/ m.level = d.level /\ m.confidence > d.confidence
        \/ m.level = d.level /\ m.confidence = d.confidence /\ m.rank < d.rank
        \/ m.level = d.level /\ m.confidence = d.confidence /\ m.rank = d.rank
    <3>1. Weight(m.level, m.confidence, m.rank) <= Weight(d.level, d.confidence, d.rank)
      BY <2>1
    <3> HIDE DEF key
    <3> QED
      BY <2>2, <3>1, WeightFacts, ZenonT(30)
  <2> QED
    BY <2>3, <2>4 DEF Before
<1> DEFINE P(c) == \A d \in S \ {c} : Before(c, d)
<1>7. m \in S /\ P(m)
  BY <1>6
<1>8. First(S) = CHOOSE c \in S : P(c)
  BY DEF First
<1> HIDE DEF P
<1>9. First(S) \in S /\ P(First(S))
  BY <1>7, <1>8
<1> QED
  BY <1>9 DEF P

-----------------------------------------------------------------------------
(* What each problem says about the measurements                           *)

(* When a rule finds each problem, said of the readings: one definition     *)
(* for each id.                                                             *)
MemoryHigh(r, category) ==
    \E m \in Memory(r) : m >= 70 /\ (m >= 85 \/ ~(category = "graphics" /\ m < 85))

IndexerBad(r, category) == category \in SearchCategories /\ IndexerFaulty(r)

CpuHigh(r) == \E c \in Cpu(r) : c >= 60

DiskLow(r) == \E d \in Disk(r) : d.low

TempFull(r, category) == /\ DiskLow(r) \/ category = "low_disk_space"
                         /\ \E s \in Reclaimable(r) : s.temp >= 500

RecycleFull(r, category) == /\ DiskLow(r) \/ category = "low_disk_space"
                            /\ \E s \in Reclaimable(r) : s.recycle >= 500

UpdateSpaceLow(r, category) == category = "windows_update" /\ \E d \in Disk(r) : FreeOr99(d) < 10

Silent(r) == \E g \in Gateway(r) : ~g.reachable

LinkDown(r, category) == category \in NetCategories /\ NoLink(r)

RouterSilent(r, category) == /\ category \in NetCategories /\ ~NoLink(r)
                             /\ \E g \in Gateway(r) : ~g.reachable /\ g.gateway

RouterMissing(r, category) == /\ category \in NetCategories /\ ~NoLink(r)
                              /\ \E g \in Gateway(r) : ~g.reachable /\ ~g.gateway

DnsFails(r, category) == /\ category \in NetCategories /\ ~NoLink(r)
                         /\ FALSE \in DnsWorking(r) /\ ~Silent(r)

InternetFails(r, category) == /\ category \in NetCategories /\ ~NoLink(r)
                              /\ FALSE \in Internet(r) /\ FALSE \notin DnsWorking(r)
                              /\ \E g \in Gateway(r) : g.reachable

ServiceOff(r, category, name) == /\ category \in SERVICE_RULES[name].matters
                                 /\ \E s \in Service(r, name) : ~s.healthy /\ s.disabled

ServiceDown(r, category, name) == /\ category \in SERVICE_RULES[name].matters
                                  /\ \E s \in Service(r, name) : ~s.healthy /\ ~s.disabled

RebootDue(r, category) == category = "windows_update" /\ RebootPending(r)

BluetoothProblem(r, category) ==
    /\ category = "bluetooth"
    /\ \E b \in Data(r, <<"get_bluetooth_devices">>) : b.present /\ b.problem

BluetoothMissing(r, category) ==
    category = "bluetooth" /\ \E b \in Data(r, <<"get_bluetooth_devices">>) : ~b.present

DeviceProblem(r, category) ==
    /\ category \in {"device_driver", "audio", "printer"}
    /\ \E d \in Data(r, <<"get_problem_devices">>) : d.count > 0

AppsHang(r, category) == category \in PerfCategories /\ Unresponsive(r)

AppsCrash(r) == \E c \in Data(r, <<"get_recent_application_crashes">>) : c.count >= 3

ManyStart(r, category) ==
    category = "startup_problems" /\ \E s \in Data(r, <<"get_startup_apps">>) : s.count >= 12

GpuBasic(r) == \E a \in Data(r, <<"get_gpu_info">>) : a.basic

GpuFaulty(r) == \E a \in Data(r, <<"get_gpu_info">>) : ~a.basic /\ ~a.healthy

GpuOld(r, category) ==
    /\ category = "graphics"
    /\ \E a \in Data(r, <<"get_gpu_info">>) : a.healthy /\ ~a.basic /\ a.old

DriverResets(r) == \E e \in Data(r, <<"get_display_driver_errors">>) : e.resets > 0

GpuBusy(r) == \E u \in Data(r, <<"get_gpu_usage">>) : u.usage >= 85

GpuTaken(r) == \E u \in Data(r, <<"get_gpu_usage">>) : u.background >= 25

(* The measurements show the problem. *)
Sign(r, category, id) ==
    \/ id = "memory_pressure" /\ MemoryHigh(r, category)
    \/ id = "search_indexer" /\ IndexerBad(r, category)
    \/ id = "high_cpu" /\ CpuHigh(r)
    \/ id = "low_disk" /\ DiskLow(r)
    \/ id = "temp_files" /\ TempFull(r, category)
    \/ id = "recycle_bin" /\ RecycleFull(r, category)
    \/ id = "update_space" /\ UpdateSpaceLow(r, category)
    \/ id = "no_adapter" /\ LinkDown(r, category)
    \/ id = "gateway_unreachable" /\ RouterSilent(r, category)
    \/ id = "no_gateway" /\ RouterMissing(r, category)
    \/ id = "dns_failure" /\ DnsFails(r, category)
    \/ id = "internet_unreachable" /\ InternetFails(r, category)
    \/ id = "reboot_pending" /\ RebootDue(r, category)
    \/ id = "bt_problem" /\ BluetoothProblem(r, category)
    \/ id = "bt_missing" /\ BluetoothMissing(r, category)
    \/ id = "device_problem" /\ DeviceProblem(r, category)
    \/ id = "unresponsive" /\ AppsHang(r, category)
    \/ id = "app_crashes" /\ AppsCrash(r)
    \/ id = "many_startup" /\ ManyStart(r, category)
    \/ id = "gpu_basic_driver" /\ GpuBasic(r)
    \/ id = "gpu_device_problem" /\ GpuFaulty(r)
    \/ id = "display_driver_resets" /\ DriverResets(r)
    \/ id = "gpu_busy" /\ GpuBusy(r)
    \/ id = "gpu_background_app" /\ GpuTaken(r)
    \/ id = "gpu_old_driver" /\ GpuOld(r, category)
    \/ \E name \in ServiceNames :
          \/ id = Disabled[name] /\ ServiceOff(r, category, name)
          \/ id = Stopped[name] /\ ServiceDown(r, category, name)

(* The fix of a problem and the checks that it rests on. *)
Says(c, id, fix, sources) == c.id = id /\ c.fix = fix /\ c.sources = sources

Described(c) ==
    \/ Says(c, "memory_pressure", NoFix, {"get_memory_usage"})
    \/ Says(c, "search_indexer", "restart_windows_search",
            {"get_search_indexer_status", "get_running_processes", "get_important_services"})
    \/ Says(c, "high_cpu", NoFix, {"get_cpu_usage", "get_running_processes"})
    \/ Says(c, "low_disk", NoFix, {"get_disk_free_space", "get_disk_usage"})
    \/ Says(c, "temp_files", "clear_safe_temp_files", {"get_reclaimable_space"})
    \/ Says(c, "recycle_bin", "empty_recycle_bin", {"get_reclaimable_space"})
    \/ Says(c, "update_space", "clear_safe_temp_files", {"get_disk_free_space"})
    \/ \E fix \in {"restart_wlan_service", "restart_network_adapter"} :
          Says(c, "no_adapter", fix, {"get_network_adapters"})
    \/ Says(c, "gateway_unreachable", "restart_network_adapter", {"ping_gateway"})
    \/ Says(c, "no_gateway", "renew_ip_configuration", {"ping_gateway"})
    \/ Says(c, "dns_failure", "flush_dns", {"test_dns"})
    \/ Says(c, "internet_unreachable", NoFix, {"test_internet", "ping_gateway"})
    \/ Says(c, "reboot_pending", NoFix, {"get_pending_reboot"})
    \/ Says(c, "bt_problem", NoFix, {"get_bluetooth_devices"})
    \/ Says(c, "bt_missing", NoFix, {"get_bluetooth_devices"})
    \/ Says(c, "device_problem", NoFix, {"get_problem_devices"})
    \/ Says(c, "unresponsive", NoFix, {"get_unresponsive_apps", "get_running_processes"})
    \/ Says(c, "app_crashes", NoFix, {"get_recent_application_crashes"})
    \/ Says(c, "many_startup", NoFix, {"get_startup_apps"})
    \/ Says(c, "gpu_basic_driver", NoFix, {"get_gpu_info"})
    \/ Says(c, "gpu_device_problem", NoFix, {"get_gpu_info"})
    \/ Says(c, "display_driver_resets", NoFix, {"get_display_driver_errors"})
    \/ Says(c, "gpu_busy", NoFix, {"get_gpu_usage"})
    \/ Says(c, "gpu_background_app", NoFix, {"get_gpu_usage"})
    \/ Says(c, "gpu_old_driver", NoFix, {"get_gpu_info"})
    \/ \E name \in ServiceNames :
          \/ Says(c, Disabled[name], NoFix,
                  {"get_important_services", "get_windows_update_status"})
          \/ Says(c, Stopped[name], SERVICE_RULES[name].fix,
                  {"get_important_services", "get_windows_update_status",
                   "get_network_services_status"})

(* Every problem is described above, and its sign is in the measurements. *)
LEMMA ProblemShown ==
    ASSUME NEW r, NEW category, NEW c \in Found(r, category), IsProblem(c)
    PROVE  Sign(r, category, c.id) /\ Described(c)
<1> USE DEF When, Says
<1> DEFINE Goal == Sign(r, category, c.id) /\ Described(c)
           Level(l) == l \in {CRITICAL, CAUTION}
<1>0. c.level \in {0, 1} /\ CRITICAL = 0 /\ CAUTION = 1 /\ INFO = 2
  BY DEF IsProblem, CRITICAL, CAUTION, INFO
<1>1. CASE c \in MemoryRule(r, category)
  <2> DEFINE moderate(m) == category = "graphics" /\ m < 85
             level(m) == IF m >= 85 THEN CRITICAL ELSE IF moderate(m) THEN INFO ELSE CAUTION
             sure(m) == IF m >= 85 THEN 85 ELSE IF moderate(m) THEN 30 ELSE 75
  <2>1. PICK m \in Memory(r) :
           m >= 70 /\ c = Cause("memory_pressure", level(m), sure(m), NoFix, {"get_memory_usage"})
    BY <1>1 DEF MemoryRule
  <2> HIDE DEF level, sure
  <2>2. Says(c, "memory_pressure", NoFix, {"get_memory_usage"}) /\ c.level = level(m)
    BY <2>1 DEF Cause
  <2>3. m >= 85 \/ ~moderate(m)
    BY <1>0, <2>2 DEF level
  <2> QED
    BY <2>1, <2>2, <2>3 DEF Sign, Described, MemoryHigh
<1>2. CASE c \in IndexerRule(r, category)
  <2>1. IndexerBad(r, category)
    BY <1>2 DEF IndexerRule, IndexerBad, IndexerFaulty
  <2>2. Says(c, "search_indexer", "restart_windows_search",
             {"get_search_indexer_status", "get_running_processes", "get_important_services"})
    BY <1>2 DEF IndexerRule, Cause
  <2> QED
    BY <2>1, <2>2 DEF Sign, Described
<1>3. CASE c \in LargeAppsRule(r)
  BY <1>0, <1>3 DEF LargeAppsRule, Cause
<1>4. CASE c \in CpuRule(r)
  <2>1. Says(c, "high_cpu", NoFix, {"get_cpu_usage", "get_running_processes"}) /\ CpuHigh(r)
    BY <1>4 DEF CpuRule, Cause, CpuHigh
  <2> QED
    BY <2>1 DEF Sign, Described
<1>5. CASE c \in DiskRule(r, category)
  <2>1. \/ DiskLow(r) /\ Says(c, "low_disk", NoFix, {"get_disk_free_space", "get_disk_usage"})
        \/ /\ TempFull(r, category)
           /\ Says(c, "temp_files", "clear_safe_temp_files", {"get_reclaimable_space"})
        \/ /\ RecycleFull(r, category)
           /\ Says(c, "recycle_bin", "empty_recycle_bin", {"get_reclaimable_space"})
    BY <1>5 DEF DiskRule, Cause, DiskLow, TempFull, RecycleFull
  <2> QED
    BY <2>1 DEF Sign, Described
<1>6. CASE c \in UpdateSpaceRule(r, category)
  <2>1. /\ UpdateSpaceLow(r, category)
        /\ Says(c, "update_space", "clear_safe_temp_files", {"get_disk_free_space"})
    BY <1>6 DEF UpdateSpaceRule, Cause, UpdateSpaceLow
  <2> QED
    BY <2>1 DEF Sign, Described
<1>7. CASE c \in NetworkRule(r, category)
  <2>1. \/ \E fix \in {"restart_wlan_service", "restart_network_adapter"} :
              Says(c, "no_adapter", fix, {"get_network_adapters"})
        \/ Says(c, "gateway_unreachable", "restart_network_adapter", {"ping_gateway"})
        \/ Says(c, "no_gateway", "renew_ip_configuration", {"ping_gateway"})
        \/ Says(c, "dns_failure", "flush_dns", {"test_dns"})
        \/ Says(c, "internet_unreachable", NoFix, {"test_internet", "ping_gateway"})
    <3>1. \/ \E fix \in {"restart_wlan_service", "restart_network_adapter"} :
                c = Cause("no_adapter", CRITICAL, 85, fix, {"get_network_adapters"})
          \/ c = Cause("gateway_unreachable", CRITICAL, 75, "restart_network_adapter",
                       {"ping_gateway"})
          \/ c = Cause("no_gateway", CRITICAL, 70, "renew_ip_configuration", {"ping_gateway"})
          \/ c = Cause("dns_failure", CAUTION, 75, "flush_dns", {"test_dns"})
          \/ c = Cause("internet_unreachable", CAUTION, 55, NoFix,
                       {"test_internet", "ping_gateway"})
      BY <1>7 DEF NetworkRule
    <3> QED
      BY <3>1 DEF Cause
  <2>2. \/ c.id = "no_adapter" /\ LinkDown(r, category)
        \/ c.id = "gateway_unreachable" /\ RouterSilent(r, category)
        \/ c.id = "no_gateway" /\ RouterMissing(r, category)
        \/ c.id = "dns_failure" /\ DnsFails(r, category)
        \/ c.id = "internet_unreachable" /\ InternetFails(r, category)
    BY <1>7, NetworkCauses, ZenonT(60) DEF LinkDown, RouterSilent, RouterMissing, DnsFails, InternetFails,
       Silent
  <2> QED
    BY <2>1, <2>2 DEF Sign, Described
<1>8. CASE c \in UNION {ServiceRule(r, category, name) : name \in ServiceNames}
  <2>1. PICK name \in ServiceNames : c \in ServiceRule(r, category, name)
    BY <1>8
  <2>2. \/ /\ ServiceOff(r, category, name)
           /\ Says(c, Disabled[name], NoFix,
                   {"get_important_services", "get_windows_update_status"})
        \/ /\ ServiceDown(r, category, name)
           /\ Says(c, Stopped[name], SERVICE_RULES[name].fix,
                   {"get_important_services", "get_windows_update_status",
                    "get_network_services_status"})
    BY <2>1 DEF ServiceRule, Cause, ServiceOff, ServiceDown
  <2> QED
    BY <2>2 DEF Sign, Described
<1>9. CASE c \in UpdatesRule(r, category)
  <2>1. RebootDue(r, category) /\ Says(c, "reboot_pending", NoFix, {"get_pending_reboot"})
    BY <1>0, <1>9 DEF UpdatesRule, Cause, RebootDue
  <2> QED
    BY <2>1 DEF Sign, Described
<1>10. CASE c \in BluetoothRule(r, category)
  <2>1. \/ /\ BluetoothProblem(r, category)
           /\ Says(c, "bt_problem", NoFix, {"get_bluetooth_devices"})
        \/ /\ BluetoothMissing(r, category)
           /\ Says(c, "bt_missing", NoFix, {"get_bluetooth_devices"})
    BY <1>10 DEF BluetoothRule, Cause, BluetoothProblem, BluetoothMissing
  <2> QED
    BY <2>1 DEF Sign, Described
<1>11. CASE c \in DevicesRule(r, category)
  <2>1. DeviceProblem(r, category) /\ Says(c, "device_problem", NoFix, {"get_problem_devices"})
    BY <1>11 DEF DevicesRule, Cause, DeviceProblem
  <2> QED
    BY <2>1 DEF Sign, Described
<1>12. CASE c \in AppsRule(r, category)
  <2>1. \/ /\ AppsHang(r, category)
           /\ Says(c, "unresponsive", NoFix, {"get_unresponsive_apps", "get_running_processes"})
        \/ /\ AppsCrash(r)
           /\ Says(c, "app_crashes", NoFix, {"get_recent_application_crashes"})
    BY <1>12 DEF AppsRule, Cause, AppsHang, AppsCrash
  <2> QED
    BY <2>1 DEF Sign, Described
<1>13. CASE c \in BackgroundRule(r, category)
  <2>1. ManyStart(r, category) /\ Says(c, "many_startup", NoFix, {"get_startup_apps"})
    BY <1>0, <1>13 DEF BackgroundRule, Cause, ManyStart
  <2> QED
    BY <2>1 DEF Sign, Described
<1>14. CASE c \in GraphicsAdapterRule(r)
  <2>1. \/ GpuBasic(r) /\ Says(c, "gpu_basic_driver", NoFix, {"get_gpu_info"})
        \/ GpuFaulty(r) /\ Says(c, "gpu_device_problem", NoFix, {"get_gpu_info"})
    BY <1>14 DEF GraphicsAdapterRule, Cause, GpuBasic, GpuFaulty
  <2> QED
    BY <2>1 DEF Sign, Described
<1>15. CASE c \in GraphicsResetsRule(r)
  <2> DEFINE level(e) == IF e.resets >= 3 THEN CRITICAL ELSE CAUTION
             sure(e)  == Min({90, 60 + 10 * e.resets})
  <2>1. \E e \in Data(r, <<"get_display_driver_errors">>) :
           e.resets > 0 /\ c = Cause("display_driver_resets", level(e), sure(e), NoFix,
                                     {"get_display_driver_errors"})
    BY <1>15 DEF GraphicsResetsRule
  <2> HIDE DEF level, sure
  <2>2. /\ DriverResets(r)
        /\ Says(c, "display_driver_resets", NoFix, {"get_display_driver_errors"})
    BY <2>1 DEF DriverResets, Cause
  <2> QED
    BY <2>2 DEF Sign, Described
<1>16. CASE c \in GraphicsUsageRule(r)
  <2>1. \/ GpuBusy(r) /\ Says(c, "gpu_busy", NoFix, {"get_gpu_usage"})
        \/ GpuTaken(r) /\ Says(c, "gpu_background_app", NoFix, {"get_gpu_usage"})
    BY <1>16 DEF GraphicsUsageRule, Cause, GpuBusy, GpuTaken
  <2> QED
    BY <2>1 DEF Sign, Described
<1>17. CASE c \in GraphicsDriverRule(r, category)
  <2>1. GpuOld(r, category) /\ Says(c, "gpu_old_driver", NoFix, {"get_gpu_info"})
    BY <1>0, <1>17 DEF GraphicsDriverRule, Cause, GpuOld
  <2> QED
    BY <2>1 DEF Sign, Described
<1> HIDE DEF Goal
<1> QED
  BY <1>1, <1>2, <1>3, <1>4, <1>5, <1>6, <1>7, <1>8, <1>9, <1>10, <1>11, <1>12, <1>13,
     <1>14, <1>15, <1>16, <1>17 DEF Found, Goal

(* The ids of the problems other than those of the services. *)
Literals ==
    {"memory_pressure", "search_indexer", "high_cpu", "low_disk", "temp_files", "recycle_bin",
     "update_space", "no_adapter", "gateway_unreachable", "no_gateway", "dns_failure",
     "internet_unreachable", "reboot_pending", "bt_problem", "bt_missing", "device_problem",
     "unresponsive", "app_crashes", "many_startup", "gpu_basic_driver", "gpu_device_problem",
     "display_driver_resets", "gpu_busy", "gpu_background_app", "gpu_old_driver"}

(* The identifiers of the causes of services are their own. *)
LEMMA ServiceIds ==
    /\ \A name \in ServiceNames : Disabled[name] \notin Literals /\ Stopped[name] \notin Literals
    /\ \A name, other \in ServiceNames :
          /\ Disabled[name] # Stopped[other]
          /\ Disabled[name] = Disabled[other] => name = other
          /\ Stopped[name] = Stopped[other] => name = other
<1>1. ServiceNames = {"wuauserv", "bits", "Spooler", "Audiosrv", "AudioEndpointBuilder",
                      "bthserv", "WlanSvc", "Dnscache", "Dhcp"}
  BY DEF ServiceNames, ServiceOrder
<1>2. /\ Disabled["wuauserv"] = "disabled:wuauserv" /\ Disabled["bits"] = "disabled:bits"
      /\ Disabled["Spooler"] = "disabled:Spooler" /\ Disabled["Audiosrv"] = "disabled:Audiosrv"
      /\ Disabled["AudioEndpointBuilder"] = "disabled:AudioEndpointBuilder"
      /\ Disabled["bthserv"] = "disabled:bthserv" /\ Disabled["WlanSvc"] = "disabled:WlanSvc"
      /\ Disabled["Dnscache"] = "disabled:Dnscache" /\ Disabled["Dhcp"] = "disabled:Dhcp"
  BY DEF Disabled
<1>3. /\ Stopped["wuauserv"] = "service:wuauserv" /\ Stopped["bits"] = "service:bits"
      /\ Stopped["Spooler"] = "service:Spooler" /\ Stopped["Audiosrv"] = "service:Audiosrv"
      /\ Stopped["AudioEndpointBuilder"] = "service:AudioEndpointBuilder"
      /\ Stopped["bthserv"] = "service:bthserv" /\ Stopped["WlanSvc"] = "service:WlanSvc"
      /\ Stopped["Dnscache"] = "service:Dnscache" /\ Stopped["Dhcp"] = "service:Dhcp"
  BY DEF Stopped
<1>4. \A name \in ServiceNames : Disabled[name] \notin Literals /\ Stopped[name] \notin Literals
  BY <1>1, <1>2, <1>3 DEF Literals
<1>5. \A name, other \in ServiceNames : Disabled[name] # Stopped[other]
  BY <1>1, <1>2, <1>3
<1>6. \A name, other \in ServiceNames : Disabled[name] = Disabled[other] => name = other
  BY <1>1, <1>2
<1>7. \A name, other \in ServiceNames : Stopped[name] = Stopped[other] => name = other
  BY <1>1, <1>3
<1> QED
  BY <1>4, <1>5, <1>6, <1>7

(* What the sign of each problem is. *)
LEMMA SignMeans ==
    ASSUME NEW r, NEW category
    PROVE  /\ Sign(r, category, "memory_pressure") => MemoryHigh(r, category)
           /\ Sign(r, category, "search_indexer") => IndexerBad(r, category)
           /\ Sign(r, category, "high_cpu") => CpuHigh(r)
           /\ Sign(r, category, "low_disk") => DiskLow(r)
           /\ Sign(r, category, "temp_files") => TempFull(r, category)
           /\ Sign(r, category, "recycle_bin") => RecycleFull(r, category)
           /\ Sign(r, category, "update_space") => UpdateSpaceLow(r, category)
           /\ Sign(r, category, "no_adapter") => LinkDown(r, category)
           /\ Sign(r, category, "gateway_unreachable") => RouterSilent(r, category)
           /\ Sign(r, category, "no_gateway") => RouterMissing(r, category)
           /\ Sign(r, category, "dns_failure") => DnsFails(r, category)
           /\ Sign(r, category, "internet_unreachable") => InternetFails(r, category)
           /\ Sign(r, category, "reboot_pending") => RebootDue(r, category)
           /\ Sign(r, category, "bt_problem") => BluetoothProblem(r, category)
           /\ Sign(r, category, "bt_missing") => BluetoothMissing(r, category)
           /\ Sign(r, category, "device_problem") => DeviceProblem(r, category)
           /\ Sign(r, category, "unresponsive") => AppsHang(r, category)
           /\ Sign(r, category, "app_crashes") => AppsCrash(r)
           /\ Sign(r, category, "many_startup") => ManyStart(r, category)
           /\ Sign(r, category, "gpu_basic_driver") => GpuBasic(r)
           /\ Sign(r, category, "gpu_device_problem") => GpuFaulty(r)
           /\ Sign(r, category, "display_driver_resets") => DriverResets(r)
           /\ Sign(r, category, "gpu_busy") => GpuBusy(r)
           /\ Sign(r, category, "gpu_background_app") => GpuTaken(r)
           /\ Sign(r, category, "gpu_old_driver") => GpuOld(r, category)
           /\ \A name \in ServiceNames :
                 /\ Sign(r, category, Disabled[name]) => ServiceOff(r, category, name)
                 /\ Sign(r, category, Stopped[name]) => ServiceDown(r, category, name)
<1>1. \A name \in ServiceNames :
         /\ Sign(r, category, Disabled[name]) => ServiceOff(r, category, name)
         /\ Sign(r, category, Stopped[name]) => ServiceDown(r, category, name)
  <2> SUFFICES ASSUME NEW name \in ServiceNames
               PROVE  /\ Sign(r, category, Disabled[name]) => ServiceOff(r, category, name)
                      /\ Sign(r, category, Stopped[name]) => ServiceDown(r, category, name)
    OBVIOUS
  <2>1. \A id \in Literals : Disabled[name] # id /\ Stopped[name] # id
    BY ServiceIds
  <2>2. ASSUME NEW id, id \notin Literals, Sign(r, category, id)
        PROVE  \E other \in ServiceNames :
                  \/ id = Disabled[other] /\ ServiceOff(r, category, other)
                  \/ id = Stopped[other] /\ ServiceDown(r, category, other)
    BY <2>2 DEF Sign, Literals
  <2> QED
    BY <2>1, <2>2, ServiceIds
<1> DEFINE OfService(id) ==
              \E name \in ServiceNames :
                 \/ id = Disabled[name] /\ ServiceOff(r, category, name)
                 \/ id = Stopped[name] /\ ServiceDown(r, category, name)
<1>2. \A id \in Literals : ~OfService(id)
  BY ServiceIds
<1> HIDE DEF OfService
<1>3. \A id \in Literals : Sign(r, category, id) =>
         \/ id = "memory_pressure" /\ MemoryHigh(r, category)
         \/ id = "search_indexer" /\ IndexerBad(r, category)
         \/ id = "high_cpu" /\ CpuHigh(r)
         \/ id = "low_disk" /\ DiskLow(r)
         \/ id = "temp_files" /\ TempFull(r, category)
         \/ id = "recycle_bin" /\ RecycleFull(r, category)
         \/ id = "update_space" /\ UpdateSpaceLow(r, category)
         \/ id = "no_adapter" /\ LinkDown(r, category)
         \/ id = "gateway_unreachable" /\ RouterSilent(r, category)
         \/ id = "no_gateway" /\ RouterMissing(r, category)
         \/ id = "dns_failure" /\ DnsFails(r, category)
         \/ id = "internet_unreachable" /\ InternetFails(r, category)
         \/ id = "reboot_pending" /\ RebootDue(r, category)
         \/ id = "bt_problem" /\ BluetoothProblem(r, category)
         \/ id = "bt_missing" /\ BluetoothMissing(r, category)
         \/ id = "device_problem" /\ DeviceProblem(r, category)
         \/ id = "unresponsive" /\ AppsHang(r, category)
         \/ id = "app_crashes" /\ AppsCrash(r)
         \/ id = "many_startup" /\ ManyStart(r, category)
         \/ id = "gpu_basic_driver" /\ GpuBasic(r)
         \/ id = "gpu_device_problem" /\ GpuFaulty(r)
         \/ id = "display_driver_resets" /\ DriverResets(r)
         \/ id = "gpu_busy" /\ GpuBusy(r)
         \/ id = "gpu_background_app" /\ GpuTaken(r)
         \/ id = "gpu_old_driver" /\ GpuOld(r, category)
  BY <1>2 DEF Sign, OfService
<1> QED
  BY <1>1, <1>3 DEF Literals

(* Of what the measurements show, nothing is passed over. *)
LEMMA SignFound ==
    ASSUME NEW r, NEW category, NEW id, Sign(r, category, id)
    PROVE  \E c \in Found(r, category) : IsProblem(c) /\ c.id = id
<1> USE DEF When
<1> DEFINE Shown(rule) == \E c \in rule : IsProblem(c) /\ c.id = id
<1>0. /\ CRITICAL = 0 /\ CAUTION = 1 /\ INFO = 2
      /\ \A c : c.level \in {0, 1} => IsProblem(c)
  BY DEF IsProblem, CRITICAL, CAUTION, INFO
<1>1. ASSUME id = "memory_pressure", MemoryHigh(r, category)
      PROVE  Shown(MemoryRule(r, category))
  <2> DEFINE moderate(m) == category = "graphics" /\ m < 85
             level(m) == IF m >= 85 THEN CRITICAL ELSE IF moderate(m) THEN INFO ELSE CAUTION
             sure(m) == IF m >= 85 THEN 85 ELSE IF moderate(m) THEN 30 ELSE 75
             cause(m) == Cause("memory_pressure", level(m), sure(m), NoFix, {"get_memory_usage"})
  <2>1. PICK m \in Memory(r) : m >= 70 /\ (m >= 85 \/ ~moderate(m))
    BY <1>1 DEF MemoryHigh
  <2>2. cause(m) \in MemoryRule(r, category)
    BY <2>1 DEF MemoryRule
  <2>3. level(m) \in {0, 1}
    BY <2>1, <1>0
  <2>4. cause(m).level = level(m) /\ cause(m).id = "memory_pressure"
    BY DEF Cause
  <2> HIDE DEF cause, level
  <2> QED
    BY <2>2, <2>3, <2>4, <1>0, <1>1
<1>2. ASSUME id = "search_indexer", IndexerBad(r, category)
      PROVE  Shown(IndexerRule(r, category))
  <2> DEFINE C == Cause("search_indexer", CAUTION, 70, "restart_windows_search",
                        {"get_search_indexer_status", "get_running_processes",
                         "get_important_services"})
  <2>1. C \in IndexerRule(r, category)
    BY <1>2 DEF IndexerBad, IndexerFaulty, IndexerRule
  <2>2. C.id = "search_indexer" /\ C.level = 1
    BY <1>0 DEF Cause
  <2> HIDE DEF C
  <2> QED
    BY <2>1, <2>2, <1>0, <1>2
<1>3. ASSUME id = "high_cpu", CpuHigh(r) PROVE Shown(CpuRule(r))
  <2>1. PICK c \in CpuRule(r) : TRUE
    BY <1>3 DEF CpuHigh, CpuRule
  <2>2. c.level = CAUTION /\ c.id = "high_cpu"
    BY DEF CpuRule, Cause
  <2> QED
    BY <2>2, <1>0, <1>3
<1>4. /\ id = "low_disk" /\ DiskLow(r) => Shown(DiskRule(r, category))
      /\ id = "temp_files" /\ TempFull(r, category) => Shown(DiskRule(r, category))
      /\ id = "recycle_bin" /\ RecycleFull(r, category) => Shown(DiskRule(r, category))
  <2> DEFINE level(d) == IF d.percent >= 95 \/ FreeOr99(d) < 5 THEN CRITICAL ELSE CAUTION
             cause(d) == Cause("low_disk", level(d), 85, NoFix,
                               {"get_disk_free_space", "get_disk_usage"})
             T == Cause("temp_files", CAUTION, 70, "clear_safe_temp_files",
                        {"get_reclaimable_space"})
             B == Cause("recycle_bin", CAUTION, 60, "empty_recycle_bin",
                        {"get_reclaimable_space"})
  <2>1. \A d \in Disk(r) : d.low => cause(d) \in DiskRule(r, category)
    BY DEF DiskRule
  <2>2. TempFull(r, category) => T \in DiskRule(r, category)
    BY DEF DiskRule, TempFull, DiskLow
  <2>3. RecycleFull(r, category) => B \in DiskRule(r, category)
    BY DEF DiskRule, RecycleFull, DiskLow
  <2>4. \A d : cause(d).id = "low_disk" /\ cause(d).level \in {0, 1}
    BY <1>0 DEF Cause
  <2>5. T.id = "temp_files" /\ T.level = 1 /\ B.id = "recycle_bin" /\ B.level = 1
    BY <1>0 DEF Cause
  <2> HIDE DEF cause, level, T, B
  <2> QED
    BY <2>1, <2>2, <2>3, <2>4, <2>5, <1>0 DEF DiskLow
<1>5. ASSUME id = "update_space", UpdateSpaceLow(r, category)
      PROVE  Shown(UpdateSpaceRule(r, category))
  <2> DEFINE C == Cause("update_space", CAUTION, 70, "clear_safe_temp_files",
                        {"get_disk_free_space"})
  <2>1. C \in UpdateSpaceRule(r, category)
    BY <1>5 DEF UpdateSpaceLow, UpdateSpaceRule
  <2>2. C.id = "update_space" /\ C.level = 1
    BY <1>0 DEF Cause
  <2> HIDE DEF C
  <2> QED
    BY <2>1, <2>2, <1>0, <1>5
<1>6. ASSUME \/ id = "no_adapter" /\ LinkDown(r, category)
             \/ id = "gateway_unreachable" /\ RouterSilent(r, category)
             \/ id = "no_gateway" /\ RouterMissing(r, category)
             \/ id = "dns_failure" /\ DnsFails(r, category)
             \/ id = "internet_unreachable" /\ InternetFails(r, category)
      PROVE  Shown(NetworkRule(r, category))
  <2>1. \E c \in NetworkRule(r, category) : c.id = id /\ (c.level = CRITICAL \/ c.level = CAUTION)
    <3>1. CASE id = "no_adapter" /\ LinkDown(r, category)
      BY <3>1, NetworkCauses DEF LinkDown
    <3>2. CASE id = "gateway_unreachable" /\ RouterSilent(r, category)
      BY <3>2, NetworkCauses DEF RouterSilent
    <3>3. CASE id = "no_gateway" /\ RouterMissing(r, category)
      BY <3>3, NetworkCauses DEF RouterMissing
    <3>4. CASE id = "dns_failure" /\ DnsFails(r, category)
      BY <3>4, NetworkCauses DEF DnsFails, Silent
    <3>5. CASE id = "internet_unreachable" /\ InternetFails(r, category)
      BY <3>5, NetworkCauses DEF InternetFails
    <3> QED
      BY <3>1, <3>2, <3>3, <3>4, <3>5, <1>6
  <2> QED
    BY <2>1, <1>0
<1>7. ASSUME NEW name \in ServiceNames,
             \/ id = Disabled[name] /\ ServiceOff(r, category, name)
             \/ id = Stopped[name] /\ ServiceDown(r, category, name)
      PROVE  Shown(ServiceRule(r, category, name))
  <2> DEFINE off == Cause(Disabled[name], CAUTION, 75, NoFix,
                          {"get_important_services", "get_windows_update_status"})
             down == Cause(Stopped[name], CAUTION, 80, SERVICE_RULES[name].fix,
                           {"get_important_services", "get_windows_update_status",
                            "get_network_services_status"})
  <2>1. /\ ServiceOff(r, category, name) => off \in ServiceRule(r, category, name)
        /\ ServiceDown(r, category, name) => down \in ServiceRule(r, category, name)
    BY DEF ServiceOff, ServiceDown, ServiceRule
  <2>2. off.id = Disabled[name] /\ off.level = 1 /\ down.id = Stopped[name] /\ down.level = 1
    BY <1>0 DEF Cause
  <2> HIDE DEF off, down
  <2> QED
    BY <2>1, <2>2, <1>0, <1>7
<1>8. ASSUME id = "reboot_pending", RebootDue(r, category)
      PROVE  Shown(UpdatesRule(r, category))
  <2> DEFINE C == Cause("reboot_pending", CAUTION, 80, NoFix, {"get_pending_reboot"})
  <2>1. C \in UpdatesRule(r, category)
    BY <1>8 DEF RebootDue, UpdatesRule
  <2>2. C.id = "reboot_pending" /\ C.level = 1
    BY <1>0 DEF Cause
  <2> HIDE DEF C
  <2> QED
    BY <2>1, <2>2, <1>0, <1>8
<1>9. ASSUME \/ id = "bt_problem" /\ BluetoothProblem(r, category)
             \/ id = "bt_missing" /\ BluetoothMissing(r, category)
      PROVE  Shown(BluetoothRule(r, category))
  <2> DEFINE A == Cause("bt_problem", CAUTION, 65, NoFix, {"get_bluetooth_devices"})
             B == Cause("bt_missing", CRITICAL, 75, NoFix, {"get_bluetooth_devices"})
  <2>1. /\ BluetoothProblem(r, category) => A \in BluetoothRule(r, category)
        /\ BluetoothMissing(r, category) => B \in BluetoothRule(r, category)
    BY DEF BluetoothProblem, BluetoothMissing, BluetoothRule
  <2>2. /\ A.id = "bt_problem" /\ A.level = 1
        /\ B.id = "bt_missing" /\ B.level = 0
    BY <1>0 DEF Cause
  <2> HIDE DEF A, B
  <2> QED
    BY <2>1, <2>2, <1>0, <1>9
<1>10. ASSUME id = "device_problem", DeviceProblem(r, category)
       PROVE  Shown(DevicesRule(r, category))
  <2> DEFINE C == Cause("device_problem", CAUTION, 65, NoFix, {"get_problem_devices"})
  <2>1. C \in DevicesRule(r, category)
    BY <1>10 DEF DeviceProblem, DevicesRule
  <2>2. C.id = "device_problem" /\ C.level = 1
    BY <1>0 DEF Cause
  <2> HIDE DEF C
  <2> QED
    BY <2>1, <2>2, <1>0, <1>10
<1>11. ASSUME \/ id = "unresponsive" /\ AppsHang(r, category)
              \/ id = "app_crashes" /\ AppsCrash(r)
       PROVE  Shown(AppsRule(r, category))
  <2> DEFINE A == Cause("unresponsive", CAUTION, 60, NoFix,
                        {"get_unresponsive_apps", "get_running_processes"})
             B == Cause("app_crashes", CAUTION, 70, NoFix,
                        {"get_recent_application_crashes"})
  <2>1. /\ AppsHang(r, category) => A \in AppsRule(r, category)
        /\ AppsCrash(r) => B \in AppsRule(r, category)
    BY DEF AppsHang, AppsCrash, AppsRule
  <2>2. /\ A.id = "unresponsive" /\ A.level = 1
        /\ B.id = "app_crashes" /\ B.level = 1
    BY <1>0 DEF Cause
  <2> HIDE DEF A, B
  <2> QED
    BY <2>1, <2>2, <1>0, <1>11
<1>12. ASSUME id = "many_startup", ManyStart(r, category)
       PROVE  Shown(BackgroundRule(r, category))
  <2> DEFINE C == Cause("many_startup", CAUTION, 65, NoFix, {"get_startup_apps"})
  <2>1. C \in BackgroundRule(r, category)
    BY <1>12 DEF ManyStart, BackgroundRule
  <2>2. C.id = "many_startup" /\ C.level = 1
    BY <1>0 DEF Cause
  <2> HIDE DEF C
  <2> QED
    BY <2>1, <2>2, <1>0, <1>12
<1>13. ASSUME \/ id = "gpu_basic_driver" /\ GpuBasic(r)
              \/ id = "gpu_device_problem" /\ GpuFaulty(r)
       PROVE  Shown(GraphicsAdapterRule(r))
  <2> DEFINE A == Cause("gpu_basic_driver", CRITICAL, 90, NoFix, {"get_gpu_info"})
             B == Cause("gpu_device_problem", CRITICAL, 85, NoFix, {"get_gpu_info"})
  <2>1. /\ GpuBasic(r) => A \in GraphicsAdapterRule(r)
        /\ GpuFaulty(r) => B \in GraphicsAdapterRule(r)
    BY DEF GpuBasic, GpuFaulty, GraphicsAdapterRule
  <2>2. /\ A.id = "gpu_basic_driver" /\ A.level = 0
        /\ B.id = "gpu_device_problem" /\ B.level = 0
    BY <1>0 DEF Cause
  <2> HIDE DEF A, B
  <2> QED
    BY <2>1, <2>2, <1>0, <1>13
<1>14. ASSUME id = "display_driver_resets", DriverResets(r)
       PROVE  Shown(GraphicsResetsRule(r))
  <2> DEFINE level(e) == IF e.resets >= 3 THEN CRITICAL ELSE CAUTION
             sure(e)  == Min({90, 60 + 10 * e.resets})
             cause(e) == Cause("display_driver_resets", level(e), sure(e), NoFix,
                               {"get_display_driver_errors"})
  <2>1. PICK e \in Data(r, <<"get_display_driver_errors">>) : e.resets > 0
    BY <1>14 DEF DriverResets
  <2>2. cause(e) \in GraphicsResetsRule(r)
    BY <2>1 DEF GraphicsResetsRule
  <2> HIDE DEF sure
  <2>3. cause(e).id = "display_driver_resets" /\ cause(e).level \in {0, 1}
    BY <1>0 DEF Cause
  <2> HIDE DEF cause
  <2> QED
    BY <2>2, <2>3, <1>0, <1>14
<1>15. ASSUME \/ id = "gpu_busy" /\ GpuBusy(r)
              \/ id = "gpu_background_app" /\ GpuTaken(r)
       PROVE  Shown(GraphicsUsageRule(r))
  <2> DEFINE A == Cause("gpu_busy", CAUTION, 75, NoFix, {"get_gpu_usage"})
             B == Cause("gpu_background_app", CAUTION, 60, NoFix, {"get_gpu_usage"})
  <2>1. /\ GpuBusy(r) => A \in GraphicsUsageRule(r)
        /\ GpuTaken(r) => B \in GraphicsUsageRule(r)
    BY DEF GpuBusy, GpuTaken, GraphicsUsageRule
  <2>2. /\ A.id = "gpu_busy" /\ A.level = 1
        /\ B.id = "gpu_background_app" /\ B.level = 1
    BY <1>0 DEF Cause
  <2> HIDE DEF A, B
  <2> QED
    BY <2>1, <2>2, <1>0, <1>15
<1>16. ASSUME id = "gpu_old_driver", GpuOld(r, category)
       PROVE  Shown(GraphicsDriverRule(r, category))
  <2> DEFINE C == Cause("gpu_old_driver", CAUTION, 50, NoFix, {"get_gpu_info"})
  <2>1. C \in GraphicsDriverRule(r, category)
    BY <1>16 DEF GpuOld, GraphicsDriverRule
  <2>2. C.id = "gpu_old_driver" /\ C.level = 1
    BY <1>0 DEF Cause
  <2> HIDE DEF C
  <2> QED
    BY <2>1, <2>2, <1>0, <1>16
<1>17. \A rule : rule \subseteq Found(r, category) /\ Shown(rule) => Shown(Found(r, category))
  OBVIOUS
<1>18. /\ MemoryRule(r, category) \subseteq Found(r, category)
       /\ IndexerRule(r, category) \subseteq Found(r, category)
       /\ CpuRule(r) \subseteq Found(r, category)
       /\ DiskRule(r, category) \subseteq Found(r, category)
       /\ UpdateSpaceRule(r, category) \subseteq Found(r, category)
       /\ NetworkRule(r, category) \subseteq Found(r, category)
       /\ \A name \in ServiceNames : ServiceRule(r, category, name) \subseteq Found(r, category)
       /\ UpdatesRule(r, category) \subseteq Found(r, category)
       /\ BluetoothRule(r, category) \subseteq Found(r, category)
       /\ DevicesRule(r, category) \subseteq Found(r, category)
       /\ AppsRule(r, category) \subseteq Found(r, category)
       /\ BackgroundRule(r, category) \subseteq Found(r, category)
       /\ GraphicsAdapterRule(r) \subseteq Found(r, category)
       /\ GraphicsResetsRule(r) \subseteq Found(r, category)
       /\ GraphicsUsageRule(r) \subseteq Found(r, category)
       /\ GraphicsDriverRule(r, category) \subseteq Found(r, category)
  BY DEF Found
<1> HIDE DEF Shown
<1>19. Shown(Found(r, category))
  BY <1>1, <1>2, <1>3, <1>4, <1>5, <1>6, <1>7, <1>8, <1>9, <1>10, <1>11, <1>12, <1>13,
     <1>14, <1>15, <1>16, <1>17, <1>18 DEF Sign
<1> QED
  BY <1>19 DEF Shown

-----------------------------------------------------------------------------
(* What is read of results that were not all measured at one time          *)

(* Each reading is one of the PC at the time of some check.                 *)
LEMMA ReportedReadings ==
    ASSUME NEW r, Reported(r)
    PROVE  /\ \A m \in Memory(r) : \E p : IsPC(p) /\ m = p.memory
           /\ \A c \in Cpu(r) : \E p : IsPC(p) /\ c = p.cpu
           /\ \A d \in Disk(r) : \E p : IsPC(p) /\ d = DiskOf(p)
           /\ \A s \in Reclaimable(r) : \E p : IsPC(p) /\ s = get_reclaimable_space(p)
           /\ \A n \in AdaptersUp(r) : \E p : IsPC(p) /\ n = p.adapters
           /\ \A g \in Gateway(r) : \E p : IsPC(p) /\ g = ping_gateway(p)
           /\ DnsWorking(r) \subseteq BOOLEAN /\ Internet(r) \subseteq BOOLEAN
<1>1. ASSUME NEW t, NEW d \in Data(r, <<t>>)
      PROVE  \E p : IsPC(p) /\ d = Report(t, p)
  BY <1>1, ReportedOne
<1>2. ASSUME NEW t, NEW u, NEW d \in Data(r, <<t, u>>)
      PROVE  \E p : IsPC(p) /\ (d = Report(t, p) \/ d = Report(u, p))
  <2>1. \/ t \in DOMAIN r /\ d = r[t]
        \/ u \in DOMAIN r /\ d = r[u]
    <3>1. Data(r, <<t, u>>) = IF t \in DOMAIN r THEN {r[t]}
                              ELSE IF u \in DOMAIN r THEN {r[u]} ELSE {}
      BY DataTwo
    <3> QED
      BY <3>1
  <2> QED
    BY <2>1 DEF Reported
<1>3. ASSUME NEW m \in Memory(r) PROVE \E p : IsPC(p) /\ m = p.memory
  <2>1. PICK d \in Data(r, <<"get_memory_usage", "get_memory_details">>) : m = d.usage
    BY DEF Memory
  <2>2. PICK p : /\ IsPC(p)
                 /\ d = Report("get_memory_usage", p) \/ d = Report("get_memory_details", p)
    BY <1>2
  <2> QED
    BY <2>1, <2>2, ReportFields, ZenonT(30)
<1>4. ASSUME NEW c \in Cpu(r) PROVE \E p : IsPC(p) /\ c = p.cpu
  <2>1. PICK d \in Data(r, <<"get_cpu_usage">>) : c = d.usage
    BY DEF Cpu
  <2>2. PICK p : IsPC(p) /\ d = Report("get_cpu_usage", p)
    BY <1>1
  <2> QED
    BY <2>1, <2>2, ReportFields
<1>5. ASSUME NEW x \in Disk(r) PROVE \E p : IsPC(p) /\ x = DiskOf(p)
  <2> DEFINE disk(d) == [percent |-> d.percent, free |-> d.free,
                         low |-> IF "low" \in DOMAIN d THEN d.low
                                 ELSE d.percent >= 90 \/ d.free < 10]
  <2>1. PICK d \in Data(r, <<"get_disk_free_space", "get_disk_usage">>) : x = disk(d)
    BY DEF Disk
  <2>2. PICK p : /\ IsPC(p)
                 /\ d = Report("get_disk_free_space", p) \/ d = Report("get_disk_usage", p)
    BY <1>2
  <2>3. d = get_disk_free_space(p) \/ d = get_disk_usage(p)
    BY <2>2, ReportIs
  <2>4. disk(get_disk_free_space(p)) = DiskOf(p) /\ disk(get_disk_usage(p)) = DiskOf(p)
    <3>1. /\ get_disk_free_space(p) = DiskOf(p) /\ "low" \in DOMAIN DiskOf(p)
          /\ "low" \notin DOMAIN get_disk_usage(p)
          /\ get_disk_usage(p).percent = Used(p) /\ get_disk_usage(p).free = p.free
      BY DEF get_disk_free_space, get_disk_usage, DiskOf
    <3> QED
      BY <3>1 DEF DiskOf
  <2> HIDE DEF disk
  <2>5. x = DiskOf(p)
    BY <2>1, <2>3, <2>4
  <2> QED
    BY <2>2, <2>5
<1>6. ASSUME NEW s \in Reclaimable(r) PROVE \E p : IsPC(p) /\ s = get_reclaimable_space(p)
  <2>1. PICK p : IsPC(p) /\ s = Report("get_reclaimable_space", p)
    BY <1>1 DEF Reclaimable
  <2> QED
    BY <2>1, ReportIs
<1>7. ASSUME NEW n \in AdaptersUp(r) PROVE \E p : IsPC(p) /\ n = p.adapters
  <2>1. PICK d \in Data(r, <<"get_network_adapters">>) : n = d.up
    BY DEF AdaptersUp
  <2>2. PICK p : IsPC(p) /\ d = Report("get_network_adapters", p)
    BY <1>1
  <2> QED
    BY <2>1, <2>2, ReportFields
<1>8. ASSUME NEW g \in Gateway(r) PROVE \E p : IsPC(p) /\ g = ping_gateway(p)
  <2>1. PICK p : IsPC(p) /\ g = Report("ping_gateway", p)
    BY <1>1 DEF Gateway
  <2> QED
    BY <2>1, ReportIs
<1>9. ASSUME NEW x \in DnsWorking(r) PROVE x \in BOOLEAN
  <2>1. PICK d \in Data(r, <<"test_dns">>) : x = d.working
    BY DEF DnsWorking
  <2>2. PICK p : IsPC(p) /\ d = Report("test_dns", p)
    BY <1>1
  <2>3. x = (p.dns /\ Routed(p))
    BY <2>1, <2>2, ReportFields
  <2> QED
    BY <2>3
<1>10. ASSUME NEW x \in Internet(r) PROVE x \in BOOLEAN
  <2>1. PICK d \in Data(r, <<"test_internet">>) : x = d.reachable
    BY DEF Internet
  <2>2. PICK p : IsPC(p) /\ d = Report("test_internet", p)
    BY <1>1
  <2>3. x = (p.internet /\ Routed(p))
    BY <2>1, <2>2, ReportFields
  <2> QED
    BY <2>3
<1>11. DnsWorking(r) \subseteq BOOLEAN /\ Internet(r) \subseteq BOOLEAN
  BY <1>9, <1>10
<1> QED
  BY <1>3, <1>4, <1>5, <1>6, <1>7, <1>8, <1>11

(* A sign of a problem shows in the level of the diagnosis.                 *)
LEMMA SignLevel ==
    ASSUME NEW r, NEW category, NEW id, Sign(r, category, id)
    PROVE  analyze(category, r).level # OK
<1>1. PICK c \in Found(r, category) : IsProblem(c)
  BY SignFound
<1>2. c.level = CRITICAL \/ c.level = CAUTION
  BY <1>1 DEF IsProblem
<1> QED
  BY <1>2, LevelFacts DEF CRITICAL, CAUTION, OK

(* The cards are red only for what a rule takes for a problem: whatever      *)
(* their thresholds, there is a sign of one in the same evidence.           *)
LEMMA RedCardExplained ==
    ASSUME NEW r, Reported(r), NEW category,
           category \in NetCategories => Gateway(r) # {},
           NEW card \in Cards(category, r), card.level = CRITICAL
    PROVE  analyze(category, r).level # OK
<1> DEFINE Red(S) == \E x \in S : x.level = CRITICAL
           Signed == \E id : Sign(r, category, id)
<1>0. CRITICAL = 0 /\ CAUTION = 1 /\ OK = 3
  BY DEF CRITICAL, CAUTION, OK
<1>1. ASSUME Red(MemoryCard(r)) PROVE Signed
  <2>1. PICK m \in Memory(r) : LevelFor(m, 70, 85) = CRITICAL
    BY <1>1 DEF MemoryCard, Card
  <2>2. m \in Int
    BY ReportedReadings, PCFacts
  <2>3. m >= 85 /\ m >= 70
    BY <2>1, <2>2, <1>0 DEF LevelFor
  <2>4. MemoryHigh(r, category)
    BY <2>3 DEF MemoryHigh
  <2> QED
    BY <2>4 DEF Sign
<1>2. ASSUME Red(CpuCard(r)) PROVE Signed
  <2>1. PICK c \in Cpu(r) : LevelFor(c, 60, 85) = CRITICAL
    BY <1>2 DEF CpuCard, Card
  <2>2. c \in Int
    BY ReportedReadings, PCFacts
  <2>3. c >= 60
    BY <2>1, <2>2, <1>0 DEF LevelFor
  <2>4. CpuHigh(r)
    BY <2>3 DEF CpuHigh
  <2> QED
    BY <2>4 DEF Sign
<1>3. ASSUME Red(DiskCard(r)) PROVE Signed
  <2>1. PICK d \in Disk(r) :
           (IF d.percent >= 95 \/ d.free < 5 THEN CRITICAL ELSE OkOr(~d.low, CAUTION)) = CRITICAL
    BY <1>3 DEF DiskCard, Card
  <2>2. d.percent >= 95 \/ d.free < 5
    BY <2>1, <1>0 DEF OkOr
  <2>3. PICK p : IsPC(p) /\ d = DiskOf(p)
    BY ReportedReadings
  <2>4. p.free \in 0 .. 100
    BY <2>3, PCFacts
  <2>5. d.low
    <3>1. /\ d.percent = Used(p) /\ d.free = p.free
          /\ d.low = (Used(p) >= 90 \/ p.free < 10)
      BY <2>3 DEF DiskOf
    <3>2. Used(p) >= 90 \/ p.free < 10
      BY <2>2, <2>4, <3>1 DEF Used
    <3> QED
      BY <3>1, <3>2
  <2>6. DiskLow(r)
    BY <2>5 DEF DiskLow
  <2> QED
    BY <2>6 DEF Sign
<1>4. \A name : ~Red(ServiceCard(r, name))
  BY <1>0 DEF ServiceCard, Card, OkOr
<1>5. ~Red(IndexerCard(r)) /\ ~Red(StartupCards(r)) /\ ~Red(DeviceCards(r))
  BY <1>0 DEF IndexerCard, StartupCards, DeviceCards, Card, OkOr
<1>6. ASSUME category \in NetCategories, Red(NetworkCards(r)) PROVE Signed
  <2>1. CASE NoLink(r)
    <3>1. LinkDown(r, category)
      BY <1>6, <2>1 DEF LinkDown
    <3> QED
      BY <3>1 DEF Sign
  <2>2. CASE ~NoLink(r) /\ Silent(r)
    <3>1. RouterSilent(r, category) \/ RouterMissing(r, category)
      BY <1>6, <2>2 DEF Silent, RouterSilent, RouterMissing
    <3> QED
      BY <3>1 DEF Sign
  <2>3. CASE ~NoLink(r) /\ ~Silent(r)
    <3>1. 0 \notin AdaptersUp(r)
      <4>1. AtMostOne(AdaptersUp(r))
        BY DataIsOne DEF AtMostOne, AdaptersUp
      <4> QED
        BY <2>3, <4>1 DEF AtMostOne, NoLink
    <3>2. \A n \in AdaptersUp(r) : n > 0
      BY <3>1, ReportedReadings, PCFacts
    <3>3. \A g \in Gateway(r) : g.reachable
      BY <2>3 DEF Silent
    <3>4. FALSE \in DnsWorking(r) \/ FALSE \in Internet(r)
      <4>1. PICK x \in NetworkCards(r) : x.level = CRITICAL
        BY <1>6
      <4>2. \/ \E n \in AdaptersUp(r) : x = Card("adapter", OkOr(n > 0, CRITICAL))
            \/ \E g \in Gateway(r) : x = Card("router", OkOr(g.reachable, CRITICAL))
            \/ \E ok \in DnsWorking(r) : x = Card("dns", OkOr(ok, CRITICAL))
            \/ \E ok \in Internet(r) : x = Card("internet", OkOr(ok, CRITICAL))
        BY DEF NetworkCards
      <4>3. CASE \E n \in AdaptersUp(r) : x = Card("adapter", OkOr(n > 0, CRITICAL))
        BY <1>0, <3>2, <4>1, <4>3 DEF Card, OkOr
      <4>4. CASE \E g \in Gateway(r) : x = Card("router", OkOr(g.reachable, CRITICAL))
        BY <1>0, <3>3, <4>1, <4>4 DEF Card, OkOr
      <4>5. CASE \E ok \in DnsWorking(r) : x = Card("dns", OkOr(ok, CRITICAL))
        <5>1. PICK ok \in DnsWorking(r) : x = Card("dns", OkOr(ok, CRITICAL))
          BY <4>5
        <5>2. ~ok /\ ok \in BOOLEAN
          BY <1>0, <4>1, <5>1, ReportedReadings DEF Card, OkOr
        <5>3. ok = FALSE
          BY <5>2
        <5> QED
          BY <5>1, <5>3
      <4>6. CASE \E ok \in Internet(r) : x = Card("internet", OkOr(ok, CRITICAL))
        <5>1. PICK ok \in Internet(r) : x = Card("internet", OkOr(ok, CRITICAL))
          BY <4>6
        <5>2. ~ok /\ ok \in BOOLEAN
          BY <1>0, <4>1, <5>1, ReportedReadings DEF Card, OkOr
        <5>3. ok = FALSE
          BY <5>2
        <5> QED
          BY <5>1, <5>3
      <4> QED
        BY <4>2, <4>3, <4>4, <4>5, <4>6
    <3>5. CASE FALSE \in DnsWorking(r)
      <4>1. DnsFails(r, category)
        BY <1>6, <2>3, <3>5 DEF DnsFails
      <4> QED
        BY <4>1 DEF Sign
    <3>6. CASE FALSE \notin DnsWorking(r)
      <4>1. InternetFails(r, category)
        BY <1>6, <2>3, <3>3, <3>4, <3>6 DEF InternetFails
      <4> QED
        BY <4>1 DEF Sign
    <3> QED
      BY <3>5, <3>6
  <2> QED
    BY <2>1, <2>2, <2>3
<1>7. ASSUME Red(StorageCards(r)) PROVE Signed
  <2>1. \A s \in Reclaimable(r) : /\ OkOr(s.temp < 500, CAUTION) # CRITICAL
                                  /\ OkOr(s.recycle < 500, CAUTION) # CRITICAL
    BY <1>0 DEF OkOr
  <2>2. Red(DiskCard(r))
    BY <1>7, <2>1 DEF StorageCards, Card
  <2> QED
    BY <1>3, <2>2
<1>8. ASSUME Red(UpdateCards(r)) PROVE Signed
  <2>1. \A d : OkOr(~d.pending, CAUTION) # CRITICAL
    BY <1>0 DEF OkOr
  <2> DEFINE reboot == {Card("reboot", OkOr(~d.pending, CAUTION)) :
                           d \in Data(r, <<"get_pending_reboot">>)}
  <2>2. ~Red(reboot)
    BY <2>1 DEF Card
  <2>3. UpdateCards(r) = ServiceCard(r, "wuauserv") \cup ServiceCard(r, "bits")
                         \cup DiskCard(r) \cup reboot
    BY DEF UpdateCards
  <2> HIDE DEF reboot
  <2>4. Red(DiskCard(r))
    BY <1>8, <1>4, <2>2, <2>3
  <2> QED
    BY <1>3, <2>4
<1>9. ASSUME category = "bluetooth", Red(BluetoothCards(r)) PROVE Signed
  <2>1. PICK b \in Data(r, <<"get_bluetooth_devices">>) : OkOr(b.present, CRITICAL) = CRITICAL
    BY <1>9, <1>4 DEF BluetoothCards, Card
  <2>2. ~b.present
    BY <2>1, <1>0 DEF OkOr
  <2>3. BluetoothMissing(r, category)
    BY <1>9, <2>2 DEF BluetoothMissing
  <2> QED
    BY <2>3 DEF Sign
<1>10. ASSUME Red(GpuCards(r)) PROVE Signed
  <2>1. PICK x \in GpuCards(r) : x.level = CRITICAL
    BY <1>10
  <2>2. \/ \E u \in Data(r, <<"get_gpu_usage">>) : x = Card("gpu", LevelFor(u.usage, 85, 98))
        \/ \E a \in Data(r, <<"get_gpu_info">>) :
              x = Card("gpu_driver", IF a.basic \/ ~a.healthy THEN CRITICAL
                                     ELSE OkOr(~a.old, CAUTION))
        \/ \E e \in Data(r, <<"get_display_driver_errors">>) :
              x = Card("gpu_resets", LevelFor(e.resets, 1, 3))
    BY DEF GpuCards
  <2>3. ASSUME NEW u \in Data(r, <<"get_gpu_usage">>), x = Card("gpu", LevelFor(u.usage, 85, 98))
        PROVE  Signed
    <3>1. LevelFor(u.usage, 85, 98) = CRITICAL
      BY <2>1, <2>3 DEF Card
    <3>2. PICK p : IsPC(p) /\ u = get_gpu_usage(p)
      BY ReportedOne, ReportIs
    <3>3. u.usage \in Int
      BY <3>2, PCFacts DEF get_gpu_usage
    <3>4. u.usage >= 85
      BY <1>0, <3>1, <3>3 DEF LevelFor
    <3>5. GpuBusy(r)
      BY <3>4 DEF GpuBusy
    <3> QED
      BY <3>5 DEF Sign
  <2>4. ASSUME NEW a \in Data(r, <<"get_gpu_info">>),
               x = Card("gpu_driver", IF a.basic \/ ~a.healthy THEN CRITICAL
                                      ELSE OkOr(~a.old, CAUTION))
        PROVE  Signed
    <3>1. a.basic \/ ~a.healthy
      BY <1>0, <2>1, <2>4 DEF Card, OkOr
    <3>2. GpuBasic(r) \/ GpuFaulty(r)
      BY <3>1 DEF GpuBasic, GpuFaulty
    <3> QED
      BY <3>2 DEF Sign
  <2>5. ASSUME NEW e \in Data(r, <<"get_display_driver_errors">>),
               x = Card("gpu_resets", LevelFor(e.resets, 1, 3))
        PROVE  Signed
    <3>1. LevelFor(e.resets, 1, 3) = CRITICAL
      BY <2>1, <2>5 DEF Card
    <3>2. PICK p : IsPC(p) /\ e = get_display_driver_errors(p)
      BY ReportedOne, ReportIs
    <3>3. e.resets \in Int
      BY <3>2, PCFacts DEF get_display_driver_errors
    <3>4. e.resets > 0
      BY <1>0, <3>1, <3>3 DEF LevelFor
    <3>5. DriverResets(r)
      BY <3>4 DEF DriverResets
    <3> QED
      BY <3>5 DEF Sign
  <2> QED
    BY <2>2, <2>3, <2>4, <2>5
<1>11. Red(Cards(category, r))
  OBVIOUS
<1> HIDE DEF Red, Signed
<1>12. \A S, T : Red(S \cup T) => Red(S) \/ Red(T)
  BY DEF Red
<1>13. ~Red({})
  BY DEF Red
<1>14. Signed
  <2>1. CASE category \in NetCategories
    BY <1>6, <1>11, <2>1 DEF Cards, NetCategories
  <2>2. CASE category \in {"low_disk_space", "windows_update", "bluetooth", "audio", "printer"}
    <3>1. Red(ServiceCard(r, "Audiosrv") \cup ServiceCard(r, "AudioEndpointBuilder")) => FALSE
      BY <1>4, <1>12
    <3> QED
      BY <1>4, <1>7, <1>8, <1>9, <1>11, <2>2, <3>1 DEF Cards, NetCategories
  <2>3. CASE category \in {"windows_search", "device_driver", "graphics"}
    <3>1. Red(IndexerCard(r) \cup MemoryCard(r)) => Signed
      BY <1>1, <1>5, <1>12
    <3>2. Red(GpuCards(r) \cup CpuCard(r) \cup MemoryCard(r)) => Signed
      BY <1>1, <1>2, <1>10, <1>12
    <3> QED
      BY <1>5, <1>11, <2>3, <3>1, <3>2 DEF Cards, NetCategories
  <2>4. CASE category \notin NetCategories \cup
               {"low_disk_space", "windows_update", "bluetooth", "audio", "printer",
                "windows_search", "device_driver", "graphics"}
    <3> DEFINE more == IF category = "startup_problems" THEN StartupCards(r) ELSE {}
    <3>1. ~Red(more)
      BY <1>5, <1>13
    <3>2. Cards(category, r) = MemoryCard(r) \cup CpuCard(r) \cup DiskCard(r)
                               \cup IndexerCard(r) \cup more
      BY <2>4 DEF Cards
    <3> HIDE DEF more
    <3>3. Red(MemoryCard(r) \cup CpuCard(r) \cup DiskCard(r) \cup IndexerCard(r) \cup more)
      BY <1>11, <3>2
    <3>4. Red(MemoryCard(r) \cup CpuCard(r) \cup DiskCard(r) \cup IndexerCard(r))
      BY <1>12, <3>1, <3>3
    <3>5. Red(MemoryCard(r) \cup CpuCard(r) \cup DiskCard(r))
      BY <1>5, <1>12, <3>4
    <3>6. Red(MemoryCard(r)) \/ Red(CpuCard(r)) \/ Red(DiskCard(r))
      BY <1>12, <3>5
    <3> QED
      BY <1>1, <1>2, <1>3, <3>6
  <2> QED
    BY <2>1, <2>2, <2>3, <2>4
<1> QED
  BY <1>14, SignLevel DEF Signed

-----------------------------------------------------------------------------
(* Measurements some of which were repeated                                *)

(* Every result of after is the one of before or the one of full, and what  *)
(* was measured before still is.                                            *)
Blend(before, full, after) ==
    /\ DOMAIN before \subseteq DOMAIN after
    /\ \A t \in DOMAIN after : \/ t \in DOMAIN before /\ after[t] = before[t]
                               \/ t \in DOMAIN full /\ after[t] = full[t]

(* Which service is in which report does not depend on the PC.              *)
LEMMA ReportedServices ==
    ASSUME NEW r, Reported(r), NEW name \in ServiceNames
    PROVE  /\ ~Knows(r, "get_search_indexer_status", name)
           /\ Knows(r, "get_important_services", name) <=> "get_important_services" \in DOMAIN r
           /\ Knows(r, "get_windows_update_status", name) <=>
                 "get_windows_update_status" \in DOMAIN r /\ name \in {"wuauserv", "bits"}
           /\ Knows(r, "get_network_services_status", name) <=>
                 /\ "get_network_services_status" \in DOMAIN r
                 /\ name \in {"Dnscache", "Dhcp", "WlanSvc"}
<1>1. name \in Services /\ name # "WSearch"
  BY DEF ServiceNames, ServiceOrder, Services
<1>2. ~Knows(r, "get_search_indexer_status", name)
  <2> SUFFICES ASSUME "get_search_indexer_status" \in DOMAIN r
               PROVE  name \notin DOMAIN r["get_search_indexer_status"].services
    BY DEF Knows
  <2>1. PICK p : r["get_search_indexer_status"] = Report("get_search_indexer_status", p)
    BY DEF Reported
  <2>2. r["get_search_indexer_status"].services = Statuses(p, {"WSearch"})
    BY <2>1, ReportIs DEF get_search_indexer_status
  <2> QED
    BY <1>1, <2>2 DEF Statuses
<1>3. Knows(r, "get_important_services", name) <=>
         /\ "get_important_services" \in DOMAIN r
         /\ name \in Services
  <2> SUFFICES ASSUME "get_important_services" \in DOMAIN r
               PROVE  DOMAIN r["get_important_services"].services = Services
    BY DEF Knows
  <2>1. PICK p : r["get_important_services"] = Report("get_important_services", p)
    BY DEF Reported
  <2>2. r["get_important_services"].services = Statuses(p, Services)
    BY <2>1, ReportIs DEF get_important_services
  <2> QED
    BY <2>2 DEF Statuses
<1>4. Knows(r, "get_windows_update_status", name) <=>
         /\ "get_windows_update_status" \in DOMAIN r
         /\ name \in {"wuauserv", "bits"}
  <2> SUFFICES ASSUME "get_windows_update_status" \in DOMAIN r
               PROVE  DOMAIN r["get_windows_update_status"].services = {"wuauserv", "bits"}
    BY DEF Knows
  <2>1. PICK p : r["get_windows_update_status"] = Report("get_windows_update_status", p)
    BY DEF Reported
  <2>2. r["get_windows_update_status"].services = Statuses(p, {"wuauserv", "bits"})
    BY <2>1, ReportIs DEF get_windows_update_status
  <2> QED
    BY <2>2 DEF Statuses
<1>5. Knows(r, "get_network_services_status", name) <=>
         /\ "get_network_services_status" \in DOMAIN r
         /\ name \in {"Dnscache", "Dhcp", "WlanSvc"}
  <2> SUFFICES ASSUME "get_network_services_status" \in DOMAIN r
               PROVE  DOMAIN r["get_network_services_status"].services = {"Dnscache", "Dhcp", "WlanSvc"}
    BY DEF Knows
  <2>1. PICK p : r["get_network_services_status"] = Report("get_network_services_status", p)
    BY DEF Reported
  <2>2. r["get_network_services_status"].services = Statuses(p, {"Dnscache", "Dhcp", "WlanSvc"})
    BY <2>1, ReportIs DEF get_network_services_status
  <2> QED
    BY <2>2 DEF Statuses
<1> QED
  BY <1>1, <1>2, <1>3, <1>4, <1>5

(* So a reading is the one of before or the one of full.                    *)
LEMMA BlendReadings ==
    ASSUME NEW before, NEW full, NEW after, NEW p, Blend(before, full, after),
           Reported(before), Honest(full, p), IsPC(p)
    PROVE  /\ \A t : Data(after, <<t>>) \in {Data(before, <<t>>), Data(full, <<t>>)}
           /\ Memory(after) \in {Memory(before), Memory(full)}
           /\ Cpu(after) \in {Cpu(before), Cpu(full)}
           /\ Disk(after) \in {Disk(before), Disk(full)}
           /\ Reclaimable(after) \in {Reclaimable(before), Reclaimable(full)}
           /\ AdaptersUp(after) \in {AdaptersUp(before), AdaptersUp(full)}
           /\ Gateway(after) \in {Gateway(before), Gateway(full)}
           /\ DnsWorking(after) \in {DnsWorking(before), DnsWorking(full)}
           /\ Internet(after) \in {Internet(before), Internet(full)}
           /\ Unresponsive(before) /\ Unresponsive(full) => Unresponsive(after)
           /\ \A name \in ServiceNames :
                 Service(after, name) \in {Service(before, name), Service(full, name)}
<1>1. ASSUME NEW t PROVE Data(after, <<t>>) \in {Data(before, <<t>>), Data(full, <<t>>)}
  <2>1. /\ Data(after, <<t>>) = IF t \in DOMAIN after THEN {after[t]} ELSE {}
        /\ Data(before, <<t>>) = IF t \in DOMAIN before THEN {before[t]} ELSE {}
        /\ Data(full, <<t>>) = IF t \in DOMAIN full THEN {full[t]} ELSE {}
    BY DataOne
  <2> QED
    BY <2>1 DEF Blend
<1>2. ASSUME NEW t, NEW u
      PROVE  \/ Data(after, <<t, u>>) = Data(before, <<t, u>>)
             \/ /\ {t, u} \cap DOMAIN full # {}
                /\ \/ Data(after, <<t, u>>) = {Report(t, p)}
                   \/ Data(after, <<t, u>>) = {Report(u, p)}
  <2>1. /\ Data(after, <<t, u>>) = IF t \in DOMAIN after THEN {after[t]}
                                   ELSE IF u \in DOMAIN after THEN {after[u]} ELSE {}
        /\ Data(before, <<t, u>>) = IF t \in DOMAIN before THEN {before[t]}
                                    ELSE IF u \in DOMAIN before THEN {before[u]} ELSE {}
    BY DataTwo
  <2> QED
    BY <2>1 DEF Blend, Honest
<1>3. Memory(after) \in {Memory(before), Memory(full)}
  <2> DEFINE data(r) == Data(r, <<"get_memory_usage", "get_memory_details">>)
  <2>1. CASE data(after) = data(before)
    BY <2>1 DEF Memory
  <2>2. CASE data(after) # data(before)
    <3>1. /\ {"get_memory_usage", "get_memory_details"} \cap DOMAIN full # {}
          /\ \/ data(after) = {Report("get_memory_usage", p)}
             \/ data(after) = {Report("get_memory_details", p)}
      BY <1>2, <2>2
    <3>2. Memory(full) = {p.memory}
      BY <3>1, Readings DEF Seen
    <3>3. Memory(after) = {p.memory}
      BY <3>1, ReportFields DEF Memory
    <3> QED
      BY <3>2, <3>3
  <2> QED
    BY <2>1, <2>2
<1>4. Disk(after) \in {Disk(before), Disk(full)}
  <2> DEFINE data(r) == Data(r, <<"get_disk_free_space", "get_disk_usage">>)
             disk(d) == [percent |-> d.percent, free |-> d.free,
                         low |-> IF "low" \in DOMAIN d THEN d.low
                                 ELSE d.percent >= 90 \/ d.free < 10]
  <2>1. CASE data(after) = data(before)
    BY <2>1 DEF Disk
  <2>2. CASE data(after) # data(before)
    <3>1. /\ {"get_disk_free_space", "get_disk_usage"} \cap DOMAIN full # {}
          /\ \/ data(after) = {Report("get_disk_free_space", p)}
             \/ data(after) = {Report("get_disk_usage", p)}
      BY <1>2, <2>2
    <3>2. Disk(full) = {DiskOf(p)}
      BY <3>1, Readings DEF Seen
    <3>3. data(after) = {get_disk_free_space(p)} \/ data(after) = {get_disk_usage(p)}
      BY <3>1, ReportIs
    <3>4. disk(get_disk_free_space(p)) = DiskOf(p) /\ disk(get_disk_usage(p)) = DiskOf(p)
      <4>1. /\ get_disk_free_space(p) = DiskOf(p) /\ "low" \in DOMAIN DiskOf(p)
            /\ "low" \notin DOMAIN get_disk_usage(p)
            /\ get_disk_usage(p).percent = Used(p) /\ get_disk_usage(p).free = p.free
        BY DEF get_disk_free_space, get_disk_usage, DiskOf
      <4> QED
        BY <4>1 DEF DiskOf
    <3>5. Disk(after) = {disk(d) : d \in data(after)}
      BY DEF Disk
    <3> HIDE DEF disk, data
    <3>6. Disk(after) = {DiskOf(p)}
      BY <3>3, <3>4, <3>5
    <3> QED
      BY <3>2, <3>6
  <2> QED
    BY <2>1, <2>2
<1>5. Unresponsive(before) /\ Unresponsive(full) => Unresponsive(after)
  <2> DEFINE data(r) == Data(r, <<"get_unresponsive_apps", "get_running_processes">>)
  <2>1. CASE data(after) = data(before)
    BY <2>1 DEF Unresponsive
  <2>2. CASE data(after) # data(before)
    <3>1. \/ data(after) = {Report("get_unresponsive_apps", p)}
          \/ data(after) = {Report("get_running_processes", p)}
      BY <1>2, <2>2
    <3>2. Unresponsive(full) => p.hung
      BY Readings
    <3> QED
      BY <3>1, <3>2, ReportFields DEF Unresponsive
  <2> QED
    BY <2>1, <2>2
<1>6. ASSUME NEW name \in ServiceNames
      PROVE  Service(after, name) \in {Service(before, name), Service(full, name)}
  <2> DEFINE other == IF name \in {"wuauserv", "bits"} THEN "get_windows_update_status"
                      ELSE "get_network_services_status"
             knows == name \in {"wuauserv", "bits", "Dnscache", "Dhcp", "WlanSvc"}
             read(r) == IF "get_important_services" \in DOMAIN r
                        THEN {r["get_important_services"].services[name]}
                        ELSE IF knows /\ other \in DOMAIN r
                        THEN {r[other].services[name]} ELSE {}
  <2>1. ASSUME NEW r, Reported(r) PROVE Service(r, name) = read(r)
    BY <2>1, ReportedServices, ServiceFirst
  <2>2. Reported(full)
    BY DEF Reported, Honest
  <2>3. Reported(after)
    BY <2>2 DEF Reported, Blend
  <2>4. Service(full, name) = Seen(full, ServiceTools(name), service_status(name, p[name]))
    BY ServiceReadings DEF ServiceNames, ServiceOrder, Services
  <2>5. ASSUME NEW t \in DOMAIN full, t = "get_important_services" \/ (knows /\ t = other)
        PROVE  {full[t].services[name]} = Service(full, name)
    <3>1. t \in ServiceTools(name)
      BY <2>5 DEF ServiceTools
    <3>2. Service(full, name) = {service_status(name, p[name])}
      BY <2>4, <3>1 DEF Seen
    <3>3. name \in Services
      BY DEF ServiceNames, ServiceOrder, Services
    <3>4. full[t].services[name] = service_status(name, p[name])
      <4>1. full[t] = Report(t, p)
        BY DEF Honest
      <4>2. CASE t = "get_important_services"
        <5>1. full[t].services = Statuses(p, Services)
          BY <4>1, <4>2, ReportIs DEF get_important_services
        <5> QED
          BY <3>3, <5>1 DEF Statuses
      <4>3. CASE name \in {"wuauserv", "bits"} /\ t = "get_windows_update_status"
        <5>1. full[t].services = Statuses(p, {"wuauserv", "bits"})
          BY <4>1, <4>3, ReportIs DEF get_windows_update_status
        <5> QED
          BY <4>3, <5>1 DEF Statuses
      <4>4. CASE /\ name \in {"Dnscache", "Dhcp", "WlanSvc"}
                 /\ t = "get_network_services_status"
        <5>1. full[t].services = Statuses(p, {"Dnscache", "Dhcp", "WlanSvc"})
          BY <4>1, <4>4, ReportIs DEF get_network_services_status
        <5> QED
          BY <4>4, <5>1 DEF Statuses
      <4> QED
        BY <2>5, <4>2, <4>3, <4>4
    <3> QED
      BY <3>2, <3>4
  <2>6. CASE "get_important_services" \in DOMAIN after
    BY <2>1, <2>3, <2>5, <2>6 DEF Blend
  <2>7. CASE "get_important_services" \notin DOMAIN after
    BY <2>1, <2>3, <2>5, <2>7 DEF Blend
  <2> QED
    BY <2>6, <2>7
<1>7. /\ Cpu(after) \in {Cpu(before), Cpu(full)}
      /\ Reclaimable(after) \in {Reclaimable(before), Reclaimable(full)}
      /\ AdaptersUp(after) \in {AdaptersUp(before), AdaptersUp(full)}
      /\ Gateway(after) \in {Gateway(before), Gateway(full)}
      /\ DnsWorking(after) \in {DnsWorking(before), DnsWorking(full)}
      /\ Internet(after) \in {Internet(before), Internet(full)}
  <2>1. Cpu(after) \in {Cpu(before), Cpu(full)}
    <3>1. Data(after, <<"get_cpu_usage">>) \in {Data(before, <<"get_cpu_usage">>), Data(full, <<"get_cpu_usage">>)}
      BY <1>1
    <3> QED
      BY <3>1 DEF Cpu
  <2>2. Reclaimable(after) \in {Reclaimable(before), Reclaimable(full)}
    <3>1. Data(after, <<"get_reclaimable_space">>) \in {Data(before, <<"get_reclaimable_space">>),
                                                       Data(full, <<"get_reclaimable_space">>)}
      BY <1>1
    <3> QED
      BY <3>1 DEF Reclaimable
  <2>3. AdaptersUp(after) \in {AdaptersUp(before), AdaptersUp(full)}
    <3>1. Data(after, <<"get_network_adapters">>) \in {Data(before, <<"get_network_adapters">>), Data(full, <<"get_network_adapters">>)}
      BY <1>1
    <3> QED
      BY <3>1 DEF AdaptersUp
  <2>4. Gateway(after) \in {Gateway(before), Gateway(full)}
    <3>1. Data(after, <<"ping_gateway">>) \in {Data(before, <<"ping_gateway">>), Data(full, <<"ping_gateway">>)}
      BY <1>1
    <3> QED
      BY <3>1 DEF Gateway
  <2>5. DnsWorking(after) \in {DnsWorking(before), DnsWorking(full)}
    <3>1. Data(after, <<"test_dns">>) \in {Data(before, <<"test_dns">>), Data(full, <<"test_dns">>)}
      BY <1>1
    <3> QED
      BY <3>1 DEF DnsWorking
  <2>6. Internet(after) \in {Internet(before), Internet(full)}
    <3>1. Data(after, <<"test_internet">>) \in {Data(before, <<"test_internet">>), Data(full, <<"test_internet">>)}
      BY <1>1
    <3> QED
      BY <3>1 DEF Internet
  <2> QED
    BY <2>1, <2>2, <2>3, <2>4, <2>5, <2>6
<1> QED
  BY <1>1, <1>3, <1>4, <1>5, <1>6, <1>7

(* A sign that is there before and that a full check-up shows as well shows *)
(* in what was measured in between, whichever checks were repeated.  The    *)
(* indexer is an exception: what its size gave away its size may hide.      *)
LEMMA BlendSigns ==
    ASSUME NEW before, NEW full, NEW after, NEW p, Blend(before, full, after),
           Reported(before), Honest(full, p), IsPC(p),
           NEW category, NEW id, id # "search_indexer",
           Sign(before, category, id), Sign(full, category, id)
    PROVE  Sign(after, category, id)
<1>1. CASE id = "memory_pressure"
  <2>1. MemoryHigh(before, category) /\ MemoryHigh(full, category)
    BY <1>1, SignMeans
  <2>2. MemoryHigh(after, category)
    BY <2>1, BlendReadings DEF MemoryHigh
  <2> QED
    BY <1>1, <2>2 DEF Sign
<1>2. CASE id = "high_cpu"
  <2>1. CpuHigh(before) /\ CpuHigh(full)
    BY <1>2, SignMeans
  <2>2. CpuHigh(after)
    BY <2>1, BlendReadings DEF CpuHigh
  <2> QED
    BY <1>2, <2>2 DEF Sign
<1>3. CASE id = "low_disk"
  <2>1. DiskLow(before) /\ DiskLow(full)
    BY <1>3, SignMeans
  <2>2. DiskLow(after)
    BY <2>1, BlendReadings DEF DiskLow
  <2> QED
    BY <1>3, <2>2 DEF Sign
<1>4. CASE id = "temp_files"
  <2>1. TempFull(before, category) /\ TempFull(full, category)
    BY <1>4, SignMeans
  <2>2. TempFull(after, category)
    BY <2>1, BlendReadings DEF TempFull, DiskLow
  <2> QED
    BY <1>4, <2>2 DEF Sign
<1>5. CASE id = "recycle_bin"
  <2>1. RecycleFull(before, category) /\ RecycleFull(full, category)
    BY <1>5, SignMeans
  <2>2. RecycleFull(after, category)
    BY <2>1, BlendReadings DEF RecycleFull, DiskLow
  <2> QED
    BY <1>5, <2>2 DEF Sign
<1>6. CASE id = "update_space"
  <2>1. UpdateSpaceLow(before, category) /\ UpdateSpaceLow(full, category)
    BY <1>6, SignMeans
  <2>2. UpdateSpaceLow(after, category)
    BY <2>1, BlendReadings DEF UpdateSpaceLow
  <2> QED
    BY <1>6, <2>2 DEF Sign
<1>7. CASE id = "no_adapter"
  <2>1. LinkDown(before, category) /\ LinkDown(full, category)
    BY <1>7, SignMeans
  <2>2. LinkDown(after, category)
    BY <2>1, BlendReadings DEF LinkDown, NoLink
  <2> QED
    BY <1>7, <2>2 DEF Sign
<1>8. CASE id = "gateway_unreachable"
  <2>1. RouterSilent(before, category) /\ RouterSilent(full, category)
    BY <1>8, SignMeans
  <2>2. RouterSilent(after, category)
    BY <2>1, BlendReadings DEF RouterSilent, NoLink
  <2> QED
    BY <1>8, <2>2 DEF Sign
<1>9. CASE id = "no_gateway"
  <2>1. RouterMissing(before, category) /\ RouterMissing(full, category)
    BY <1>9, SignMeans
  <2>2. RouterMissing(after, category)
    BY <2>1, BlendReadings DEF RouterMissing, NoLink
  <2> QED
    BY <1>9, <2>2 DEF Sign
<1>10. CASE id = "dns_failure"
  <2>1. DnsFails(before, category) /\ DnsFails(full, category)
    BY <1>10, SignMeans
  <2>2. DnsFails(after, category)
    BY <2>1, BlendReadings DEF DnsFails, NoLink, Silent
  <2> QED
    BY <1>10, <2>2 DEF Sign
<1>11. CASE id = "internet_unreachable"
  <2>1. InternetFails(before, category) /\ InternetFails(full, category)
    BY <1>11, SignMeans
  <2>2. InternetFails(after, category)
    BY <2>1, BlendReadings DEF InternetFails, NoLink
  <2> QED
    BY <1>11, <2>2 DEF Sign
<1>12. CASE id = "reboot_pending"
  <2>1. Data(after, <<"get_pending_reboot">>) \in
           {Data(before, <<"get_pending_reboot">>), Data(full, <<"get_pending_reboot">>)}
    BY BlendReadings
  <2>2. RebootDue(before, category) /\ RebootDue(full, category)
    BY <1>12, SignMeans
  <2>3. RebootDue(after, category)
    BY <2>1, <2>2 DEF RebootDue, RebootPending
  <2> QED
    BY <1>12, <2>3 DEF Sign
<1>13. CASE id = "bt_problem"
  <2>1. Data(after, <<"get_bluetooth_devices">>) \in
           {Data(before, <<"get_bluetooth_devices">>), Data(full, <<"get_bluetooth_devices">>)}
    BY BlendReadings
  <2>2. BluetoothProblem(before, category) /\ BluetoothProblem(full, category)
    BY <1>13, SignMeans
  <2>3. BluetoothProblem(after, category)
    BY <2>1, <2>2 DEF BluetoothProblem
  <2> QED
    BY <1>13, <2>3 DEF Sign
<1>14. CASE id = "bt_missing"
  <2>1. Data(after, <<"get_bluetooth_devices">>) \in
           {Data(before, <<"get_bluetooth_devices">>), Data(full, <<"get_bluetooth_devices">>)}
    BY BlendReadings
  <2>2. BluetoothMissing(before, category) /\ BluetoothMissing(full, category)
    BY <1>14, SignMeans
  <2>3. BluetoothMissing(after, category)
    BY <2>1, <2>2 DEF BluetoothMissing
  <2> QED
    BY <1>14, <2>3 DEF Sign
<1>15. CASE id = "device_problem"
  <2>1. Data(after, <<"get_problem_devices">>) \in
           {Data(before, <<"get_problem_devices">>), Data(full, <<"get_problem_devices">>)}
    BY BlendReadings
  <2>2. DeviceProblem(before, category) /\ DeviceProblem(full, category)
    BY <1>15, SignMeans
  <2>3. DeviceProblem(after, category)
    BY <2>1, <2>2 DEF DeviceProblem
  <2> QED
    BY <1>15, <2>3 DEF Sign
<1>16. CASE id = "unresponsive"
  <2>1. AppsHang(before, category) /\ AppsHang(full, category)
    BY <1>16, SignMeans
  <2>2. AppsHang(after, category)
    BY <2>1, BlendReadings DEF AppsHang
  <2> QED
    BY <1>16, <2>2 DEF Sign
<1>17. CASE id = "app_crashes"
  <2>1. Data(after, <<"get_recent_application_crashes">>) \in
           {Data(before, <<"get_recent_application_crashes">>), Data(full, <<"get_recent_application_crashes">>)}
    BY BlendReadings
  <2>2. AppsCrash(before) /\ AppsCrash(full)
    BY <1>17, SignMeans
  <2>3. AppsCrash(after)
    BY <2>1, <2>2 DEF AppsCrash
  <2> QED
    BY <1>17, <2>3 DEF Sign
<1>18. CASE id = "many_startup"
  <2>1. Data(after, <<"get_startup_apps">>) \in
           {Data(before, <<"get_startup_apps">>), Data(full, <<"get_startup_apps">>)}
    BY BlendReadings
  <2>2. ManyStart(before, category) /\ ManyStart(full, category)
    BY <1>18, SignMeans
  <2>3. ManyStart(after, category)
    BY <2>1, <2>2 DEF ManyStart
  <2> QED
    BY <1>18, <2>3 DEF Sign
<1>19. CASE id = "gpu_basic_driver"
  <2>1. Data(after, <<"get_gpu_info">>) \in
           {Data(before, <<"get_gpu_info">>), Data(full, <<"get_gpu_info">>)}
    BY BlendReadings
  <2>2. GpuBasic(before) /\ GpuBasic(full)
    BY <1>19, SignMeans
  <2>3. GpuBasic(after)
    BY <2>1, <2>2 DEF GpuBasic
  <2> QED
    BY <1>19, <2>3 DEF Sign
<1>20. CASE id = "gpu_device_problem"
  <2>1. Data(after, <<"get_gpu_info">>) \in
           {Data(before, <<"get_gpu_info">>), Data(full, <<"get_gpu_info">>)}
    BY BlendReadings
  <2>2. GpuFaulty(before) /\ GpuFaulty(full)
    BY <1>20, SignMeans
  <2>3. GpuFaulty(after)
    BY <2>1, <2>2 DEF GpuFaulty
  <2> QED
    BY <1>20, <2>3 DEF Sign
<1>21. CASE id = "display_driver_resets"
  <2>1. Data(after, <<"get_display_driver_errors">>) \in
           {Data(before, <<"get_display_driver_errors">>), Data(full, <<"get_display_driver_errors">>)}
    BY BlendReadings
  <2>2. DriverResets(before) /\ DriverResets(full)
    BY <1>21, SignMeans
  <2>3. DriverResets(after)
    BY <2>1, <2>2 DEF DriverResets
  <2> QED
    BY <1>21, <2>3 DEF Sign
<1>22. CASE id = "gpu_busy"
  <2>1. Data(after, <<"get_gpu_usage">>) \in
           {Data(before, <<"get_gpu_usage">>), Data(full, <<"get_gpu_usage">>)}
    BY BlendReadings
  <2>2. GpuBusy(before) /\ GpuBusy(full)
    BY <1>22, SignMeans
  <2>3. GpuBusy(after)
    BY <2>1, <2>2 DEF GpuBusy
  <2> QED
    BY <1>22, <2>3 DEF Sign
<1>23. CASE id = "gpu_background_app"
  <2>1. Data(after, <<"get_gpu_usage">>) \in
           {Data(before, <<"get_gpu_usage">>), Data(full, <<"get_gpu_usage">>)}
    BY BlendReadings
  <2>2. GpuTaken(before) /\ GpuTaken(full)
    BY <1>23, SignMeans
  <2>3. GpuTaken(after)
    BY <2>1, <2>2 DEF GpuTaken
  <2> QED
    BY <1>23, <2>3 DEF Sign
<1>24. CASE id = "gpu_old_driver"
  <2>1. Data(after, <<"get_gpu_info">>) \in
           {Data(before, <<"get_gpu_info">>), Data(full, <<"get_gpu_info">>)}
    BY BlendReadings
  <2>2. GpuOld(before, category) /\ GpuOld(full, category)
    BY <1>24, SignMeans
  <2>3. GpuOld(after, category)
    BY <2>1, <2>2 DEF GpuOld
  <2> QED
    BY <1>24, <2>3 DEF Sign
<1>25. ASSUME NEW name \in ServiceNames, id = Disabled[name] PROVE Sign(after, category, id)
  <2>1. ServiceOff(before, category, name) /\ ServiceOff(full, category, name)
    BY <1>25, SignMeans
  <2>2. ServiceOff(after, category, name)
    BY <2>1, BlendReadings DEF ServiceOff
  <2> QED
    BY <1>25, <2>2 DEF Sign
<1>26. ASSUME NEW name \in ServiceNames, id = Stopped[name] PROVE Sign(after, category, id)
  <2>1. ServiceDown(before, category, name) /\ ServiceDown(full, category, name)
    BY <1>26, SignMeans
  <2>2. ServiceDown(after, category, name)
    BY <2>1, BlendReadings DEF ServiceDown
  <2> QED
    BY <1>26, <2>2 DEF Sign
<1>27. \/ id \in Literals
       \/ \E name \in ServiceNames : id = Disabled[name] \/ id = Stopped[name]
  BY DEF Sign, Literals
<1> QED
  BY <1>1, <1>2, <1>3, <1>4, <1>5, <1>6, <1>7, <1>8, <1>9, <1>10, <1>11, <1>12, <1>13,
     <1>14, <1>15, <1>16, <1>17, <1>18, <1>19, <1>20, <1>21, <1>22, <1>23, <1>24, <1>25, <1>26,
     <1>27 DEF Literals

(* The rule about the indexer is the only one with its cause.               *)
LEMMA IndexerCause ==
    ASSUME NEW r, NEW category, NEW c \in Found(r, category), c.id = "search_indexer"
    PROVE  c.level = CAUTION /\ c.confidence = 70
<1> USE DEF Cause, When
<1>1. CASE c \in MemoryRule(r, category)
  BY <1>1 DEF MemoryRule
<1>2. CASE c \in IndexerRule(r, category)
  BY <1>2 DEF IndexerRule
<1>3. CASE c \in LargeAppsRule(r) \cup CpuRule(r)
  BY <1>3 DEF LargeAppsRule, CpuRule
<1>4. CASE c \in DiskRule(r, category) \cup UpdateSpaceRule(r, category)
  BY <1>4 DEF DiskRule, UpdateSpaceRule
<1>5. CASE c \in NetworkRule(r, category)
  BY <1>5, NetworkCauses
<1>6. ASSUME NEW name \in ServiceNames, c \in ServiceRule(r, category, name) PROVE FALSE
  <2>1. c.id = Disabled[name] \/ c.id = Stopped[name]
    BY <1>6 DEF ServiceRule
  <2> QED
    BY <2>1, ServiceIds DEF Literals
<1>7. CASE c \in UpdatesRule(r, category) \cup BluetoothRule(r, category)
                 \cup DevicesRule(r, category) \cup AppsRule(r, category)
  BY <1>7 DEF UpdatesRule, BluetoothRule, DevicesRule, AppsRule
<1>8. CASE c \in BackgroundRule(r, category) \cup GraphicsAdapterRule(r)
                 \cup GraphicsUsageRule(r) \cup GraphicsDriverRule(r, category)
  BY <1>8 DEF BackgroundRule, GraphicsAdapterRule, GraphicsUsageRule, GraphicsDriverRule
<1>9. CASE c \in GraphicsResetsRule(r)
  <2> DEFINE level(e) == IF e.resets >= 3 THEN CRITICAL ELSE CAUTION
             confidence(e) == Min({90, 60 + 10 * e.resets})
  <2>1. PICK e : c = Cause("display_driver_resets", level(e), confidence(e), NoFix,
                           {"get_display_driver_errors"})
    BY <1>9 DEF GraphicsResetsRule
  <2> HIDE DEF level, confidence
  <2> QED
    BY <2>1
<1> QED
  BY <1>1, <1>2, <1>3, <1>4, <1>5, <1>6, <1>7, <1>8, <1>9 DEF Found

(* Where a fix clears the disk although the problem is another one, the     *)
(* disk is what leads the diagnosis, or something graver; never the indexer.*)
LEMMA IndexerLeads ==
    ASSUME NEW r, Reported(r), NEW category,
           analyze(category, r).top = "search_indexer", DiskLow(r)
    PROVE  FALSE
<1> DEFINE causes == analyze(category, r).causes
           problems == {c \in causes : IsProblem(c)}
<1>0. CRITICAL = 0 /\ CAUTION = 1
  BY DEF CRITICAL, CAUTION
<1>1. PICK d \in Found(r, category) : IsProblem(d) /\ d.confidence = 85
  <2>1. PICK d \in Disk(r) : d.low
    BY DEF DiskLow
  <2> DEFINE level == IF d.percent >= 95 \/ FreeOr99(d) < 5 THEN CRITICAL ELSE CAUTION
             c == Cause("low_disk", level, 85, NoFix, {"get_disk_free_space", "get_disk_usage"})
  <2>2. c \in DiskRule(r, category)
    BY <2>1 DEF DiskRule
  <2>3. c.confidence = 85 /\ c.level \in {CRITICAL, CAUTION}
    BY DEF Cause
  <2> HIDE DEF c
  <2> QED
    BY <2>2, <2>3 DEF Found, IsProblem
<1>2. PICK low \in causes : IsProblem(low) /\ low.confidence = 85
  <2>1. PICK low \in causes : SameCause(low, d)
    BY FoundCause
  <2> QED
    BY <1>1, <2>1 DEF SameCause, IsProblem
<1>3. problems # {} /\ First(problems).id = "search_indexer"
  <2>1. analyze(category, r).top = IF problems = {} THEN NoCause ELSE First(problems).id
    BY DEF analyze
  <2> QED
    BY <1>2, <2>1
<1>4. First(problems) \in problems /\ \A e \in problems \ {First(problems)} : Before(First(problems), e)
  BY <1>3, FirstFacts
<1>5. PICK first : first = First(problems)
  OBVIOUS
<1>6. first.level = CAUTION /\ first.confidence = 70
  <2>1. first \in causes /\ first.id = "search_indexer"
    BY <1>3, <1>4, <1>5
  <2>2. PICK b \in Found(r, category) : SameCause(first, b)
    BY <2>1, CauseFound
  <2> QED
    BY <2>1, <2>2, IndexerCause DEF SameCause
<1>7. low # first /\ low \in problems
  BY <1>2, <1>6
<1>8. Before(first, low)
  BY <1>4, <1>5, <1>7
<1> QED
  BY <1>0, <1>2, <1>6, <1>8 DEF Before, IsProblem

(* In a problem about searching, evidence for the indexer that leads the    *)
(* diagnosis leaves no other fix than the restart of the indexer.           *)
LEMMA IndexerFix ==
    ASSUME NEW r, Reported(r), NEW category, category \in SearchCategories,
           NEW c \in Found(r, category), IsProblem(c), c.fix # NoFix,
           c.id = "search_indexer" \/ analyze(category, r).top = "search_indexer"
    PROVE  c.fix = "restart_windows_search"
<1>1. Sign(r, category, c.id) /\ Described(c)
  BY ProblemShown
<1>2. category \notin NetCategories \cup {"low_disk_space", "windows_update"}
  BY DEF SearchCategories, NetCategories
<1>3. CASE c.id \in {"temp_files", "recycle_bin"}
  <2>1. DiskLow(r)
    BY <1>1, <1>2, <1>3, SignMeans DEF TempFull, RecycleFull
  <2>2. analyze(category, r).top = "search_indexer"
    BY <1>3
  <2> QED
    BY <2>1, <2>2, IndexerLeads
<1>4. CASE c.id = "update_space"
  BY <1>1, <1>2, <1>4, SignMeans DEF UpdateSpaceLow
<1>5. CASE c.id \in {"no_adapter", "gateway_unreachable", "no_gateway", "dns_failure"}
  BY <1>1, <1>2, <1>5, SignMeans DEF LinkDown, RouterSilent, RouterMissing, DnsFails
<1>6. ASSUME NEW name \in ServiceNames, c.id = Stopped[name] PROVE FALSE
  <2>1. category \in SERVICE_RULES[name].matters
    BY <1>1, <1>6, SignMeans DEF ServiceDown
  <2>2. SERVICE_RULES[name].matters \cap SearchCategories = {}
    BY DEF ServiceNames, ServiceOrder, SERVICE_RULES, SearchCategories, NetCategories
  <2> QED
    BY <2>1, <2>2
<1>7. \/ c.fix \in {"restart_windows_search", NoFix}
      \/ c.id \in {"temp_files", "recycle_bin", "update_space", "no_adapter",
                   "gateway_unreachable", "no_gateway", "dns_failure"}
      \/ \E name \in ServiceNames : c.id = Stopped[name]
  BY <1>1, ZenonT(60) DEF Described, Says
<1> QED
  BY <1>3, <1>4, <1>5, <1>6, <1>7
===============================================================================
