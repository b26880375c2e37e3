------------------------------- MODULE Scrape -------------------------------
(* The Prometheus catalog (src/promconfig): what a build accepts of the        *)
(* _prometheus directories of jobs, the keys it stores of them, and the scrape *)
(* targets {{ scrapeConfigs }} makes of those keys when prometheus is deployed. *)
(*                                                                            *)
(* The rendered scrape.yaml.tpl is taken for what scrape.yaml says.  A target   *)
(* names a port of the manifest, for all workers or pinned to one, or is an     *)
(* address of its own.  scrape_configs and scrape_jobs_length repeat            *)
(* scrape_jobs.                                                                *)
EXTENDS KVStore, SequencesExt

CONSTANTS Jobs, Workers,
          Names     \* names of scrape jobs, of alerts and of runbooks

Nobody   == "-"         \* not pinned, or no host
MaandJob == "maand:job"
Blank    == ""

Implicit     == <<"_implicit">>
Address      == <<"address">>
MetricsPort  == <<"metrics_port">>
OwnMetricsPort(j) == <<j, "_metrics_port">>
PortNames    == {MetricsPort, <<"http_port">>} \cup {OwnMetricsPort(j) : j \in Jobs}

Target == [port : PortNames \cup {Implicit, Address}, pin : Workers \cup {Nobody}]
Item   == [name : Names \cup Jobs \cup {MaandJob, Blank}, discovery : BOOLEAN, blocks : Seq(SUBSET Target)]
Rule   == [alert : Names \cup {Blank}, record : BOOLEAN, expr : BOOLEAN, runbook : Names \cup {Blank}]

(* Of a job: its ports, the prometheus.yml files it ships, and _prometheus/ *)
Monitored ==
    [ports : SUBSET PortNames, server : SUBSET {"yml", "tpl"}, scrape : SUBSET {"yaml", "tpl"},
     items : Seq(Item), rules : Seq(Rule), runbooks : SUBSET Names]

Unmonitored ==
    [ports |-> {}, server |-> {}, scrape |-> {}, items |-> <<>>, rules |-> <<>>, runbooks |-> {}]

(* hasPrometheusServerJob *)
HasServer(m) == \E j \in DOMAIN m : m[j].server # {}

Scraped(m) == {j \in DOMAIN m : m[j].scrape # {}}

-----------------------------------------------------------------------------
(* What is checked when a job ships a server *)

(* validateAlertRule *)
ValidRule(mon, r) ==
    /\ r.alert # Blank <=> ~r.record
    /\ r.expr
    /\ r.alert # Blank /\ r.runbook # Blank => r.runbook \in mon.runbooks

(* Alert names are unique in the bucket. *)
AlertsOf(mon) == {n \in DOMAIN mon.rules : mon.rules[n].alert # Blank}
Alerts(m)     == UNION {{j} \X AlertsOf(m[j]) : j \in DOMAIN m}
UniqueAlerts(m) ==
    \A x, y \in Alerts(m) : m[x[1]].rules[x[2]].alert = m[y[1]].rules[y[2]].alert => x = y

(* ResolveMetricsPortKey; what is not one port is refused. *)
ImplicitPorts(j, ports) ==
    IF OwnMetricsPort(j) \in ports THEN {OwnMetricsPort(j)}
    ELSE IF MetricsPort \in ports THEN {MetricsPort}
    ELSE {p \in ports : Len(p) = 2}

PortsOf(j, t, ports) == IF t.port = Implicit THEN ImplicitPorts(j, ports) ELSE {t.port} \cap ports

TargetsOf(items) == UNION {UNION ToSet(i.blocks) : i \in ToSet(items)}
Placeholders(items) == {t \in TargetsOf(items) : t.port # Address}

(* ParseScrapeFile, ValidateScrapeConfigs, ValidateScrapePortReferences *)
ValidItems(j, mon) ==
    /\ mon.items # <<>>
    /\ \A i \in ToSet(mon.items) : ~i.discovery /\ i.name # Blank
    /\ \A t \in Placeholders(mon.items) : Cardinality(PortsOf(j, t, mon.ports)) = 1

(* ResolveScrapeJobName *)
Resolved(j, i) == IF i.name = MaandJob THEN j ELSE i.name

ItemsOf(m) == UNION {{j} \X DOMAIN m[j].items : j \in Scraped(m)}
UniqueNames(m) ==
    \A x, y \in ItemsOf(m) :
        Resolved(x[1], m[x[1]].items[x[2]]) = Resolved(y[1], m[y[1]].items[y[2]]) => x = y

ValidMonitoring(m) ==
    HasServer(m) =>
        /\ \A j \in DOMAIN m :
              /\ Cardinality(m[j].server) <= 1 /\ Cardinality(m[j].scrape) <= 1
              /\ \A r \in ToSet(m[j].rules) : ValidRule(m[j], r)
        /\ \A j \in Scraped(m) : ValidItems(j, m[j])
        /\ UniqueAlerts(m) /\ UniqueNames(m)

-----------------------------------------------------------------------------
(* BuildCatalog: maand/prometheus, and the job_name of scraped jobs *)

ScrapeKey(j) == <<"maand/prometheus", "scrape/", j>>
ScrapeJobs   == <<"maand/prometheus", "scrape_jobs">>
PrometheusNS == {ScrapeKey(j) : j \in Jobs} \cup {ScrapeJobs}
NameKey(j)   == <<"maand/job", j, "job_name">>

(* ScrapeConfigsRequireActiveAllocations: a job with placeholders and nowhere
   active is not listed. *)
Listed(m, active) == {j \in Scraped(m) : Placeholders(m[j].items) # {} => active[j] # {}}

CatalogVars(m, active) ==
    IF ~HasServer(m) THEN [p \in {ScrapeJobs} |-> {}]
    ELSE [p \in {ScrapeKey(j) : j \in Scraped(m)} \cup {ScrapeJobs} |->
             IF p = ScrapeJobs THEN Listed(m, active) ELSE m[p[3]].items]

ScrapeNames(m) ==
    [p \in {NameKey(j) : j \in {i \in Scraped(m) : HasServer(m)}} |-> Resolved(p[2], m[p[2]].items[1])]

WithPrometheus(m, active, s) ==
    Sync(Sync(s, ScrapeNames(m), {}), CatalogVars(m, active), PrometheusNS)

-----------------------------------------------------------------------------
(* RenderScrapeConfigsYAML, for the job rows m of the last build, its active
   allocations, and the workspace w as it is now *)

(* expandTarget, for a declared port that has a number *)
Expanded(j, t, ports, active) ==
    IF t.port = Address THEN {<<Nobody, Address>>}
    ELSE {<<h, p>> : h \in {i \in active : t.pin \in {Nobody, i}}, p \in PortsOf(j, t, ports)}

(* Each block, in order; static_configs may be missing, and targets. *)
Blocks(items) == FlattenSeq([n \in DOMAIN items |->
                                IF items[n].blocks = <<>> THEN <<{}>> ELSE items[n].blocks])

(* expandStaticConfigs *)
BlockFails(j, b, ports, numbered, active) ==
    \/ b = {}
    \/ \E t \in b : /\ t.port # Address
                    /\ \/ Cardinality(PortsOf(j, t, ports)) # 1
                       \/ ~(PortsOf(j, t, ports) \subseteq numbered)
                       \/ t.pin # Nobody /\ t.pin \notin active

BlockIsEmpty(j, b, ports, active) == UNION {Expanded(j, t, ports, active) : t \in b} = {}

(* ExpandScrapeConfigs: nothing of a job is rendered when a block of it comes out
   empty, unless one before it fails. *)
ExpandScrapeConfigs(j, items, ports, numbered, active) ==
    LET blocks  == Blocks(items)
        failing == {n \in DOMAIN blocks : BlockFails(j, blocks[n], ports, numbered, active)}
        empty   == {n \in DOMAIN blocks : BlockIsEmpty(j, blocks[n], ports, active)} \ failing
    IN  [fails   |-> \E n \in failing : \A k \in empty : n < k,
         targets |-> IF empty # {} THEN {}
                     ELSE UNION {UNION {{<<Resolved(j, i), x[1], x[2]>> : x \in Expanded(j, t, ports, active)}
                                        : t \in UNION ToSet(i.blocks)} : i \in ToSet(items)}]

Joined(results) ==
    [fails |-> \E r \in results : r.fails, targets |-> UNION {r.targets : r \in results}]

(* renderScrapeConfigsFromKV *)
RenderedFromKV(s, m, active) ==
    Joined({ExpandScrapeConfigs(j, s[ScrapeKey(j)].value.text, m[j].ports, m[j].ports, active[j])
            : j \in IF Live(s, ScrapeJobs) THEN s[ScrapeJobs].value.text ELSE {}})

(* renderScrapeConfigsFromWorkspace; ports come from the rows of the last build
   if the job has one. *)
RenderedFromWorkspace(m, active, w) ==
    LET ports(j)      == IF j \in DOMAIN m THEN m[j].ports ELSE w[j].ports
        numbered(j)   == IF j \in DOMAIN m THEN m[j].ports ELSE {}
        unreadable(j) == \/ Cardinality(w[j].scrape) # 1 \/ w[j].items = <<>>
                         \/ "tpl" \in w[j].scrape /\ j \notin DOMAIN m
    IN  Joined({IF unreadable(j) THEN [fails |-> TRUE, targets |-> {}]
                ELSE ExpandScrapeConfigs(j, w[j].items, ports(j), numbered(j), active[j]) : j \in Scraped(w)})

Rendered(s, m, active, w) ==
    LET built == RenderedFromKV(s, m, active)
    IN  IF built.fails \/ built.targets # {} THEN built ELSE RenderedFromWorkspace(m, active, w)
=============================================================================
