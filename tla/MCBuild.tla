------------------------------- MODULE MCBuild -------------------------------
(* Two jobs on two workers.  The workspaces are a base and what an operator    *)
(* may make of it in one edit or two.                                          *)
EXTENDS Build

Cmd(n, j, c, min) == [name |-> n, job |-> j, command |-> c, min |-> min, max |-> 0]
Alone   == {Cmd("command_x", None, None, 0)}
OnA     == Alone \cup {Cmd("command_y", "a", "command_x", 1)}
OnNewA  == Alone \cup {Cmd("command_y", "a", "command_x", 2)}
OnB     == Alone \cup {Cmd("command_y", "b", "command_x", 0)}
PerHost == {[name |-> "tls", one |-> FALSE, subject |-> 1]}
Shared  == {[name |-> "tls", one |-> TRUE, subject |-> 1]}

To(port, host) == [port |-> port, pin |-> host]
Called(name, targets) == [name |-> name, discovery |-> FALSE, blocks |-> <<targets>>]

(* a is the Prometheus server, and scraped under its name; b under another one *)
Server   == [Unmonitored EXCEPT !.ports = {MetricsPort}, !.server = {"tpl"}, !.scrape = {"yaml"},
                                !.items = <<Called(MaandJob, {To(Implicit, Nobody)})>>]
Exporter == [Unmonitored EXCEPT !.ports = {OwnMetricsPort("a")}, !.scrape = {"tpl"},
                !.items = <<Called("n", {To(Implicit, Nobody), To(Address, Nobody)})>>,
                !.rules = <<[alert |-> "n", record |-> FALSE, expr |-> TRUE, runbook |-> "n"]>>,
                !.runbooks = {"n"}]
Pinned == [Exporter EXCEPT !.ports = {OwnMetricsPort("b"), MetricsPort},
                !.items = <<Called("n", {To(MetricsPort, "w2")}),
                            Called(MaandJob, {To(OwnMetricsPort("b"), Nobody)})>>]
Monitor(w, j, mon) == [w EXCEPT !.jobs[j].prometheus = mon]

JobOf(commands, certs) ==
    [prometheus |-> IF commands = Alone THEN Server ELSE Exporter, selectors |-> {"x"}, version |-> 1,
     min |-> [r \in Resources |-> 1], max |-> [r \in Resources |-> 0],
     commands |-> commands, least |-> 0, certs |-> certs]

Base ==
    [hosts |-> <<"w1", "w2">>, labels |-> [h \in Workers |-> {"x"}],
     capacity |-> [h \in Workers |-> [r \in Resources |-> 3]], tagged |-> {"w2"},
     jobs |-> [j \in {"a", "b"} |-> JobOf(IF j = "b" THEN OnA ELSE Alone,
                                          IF j = "a" THEN Shared ELSE PerHost)],
     config |-> [j \in Jobs |-> [r \in Resources |-> Unset]],
     offWorkers |-> {}, offJobs |-> <<>>, vars |-> {"a"}, purge |-> FALSE]

(* b leaves, a grows; or b is turned round and a has nowhere to go. *)
Alter ==
    [Base EXCEPT !.jobs = [j \in {"a"} |-> Base.jobs[j]], !.jobs["a"].certs = PerHost,
                 !.jobs["a"].min["memory"] = 2, !.jobs["a"].max["memory"] = 3,
                 !.config["a"]["memory"] = 3]
Turn ==
    [Base EXCEPT !.jobs["a"].selectors = {"y"}, !.jobs["b"].certs = {}, !.jobs["b"].commands = Alone,
                 !.jobs["a"].commands = OnB, !.jobs["b"].prometheus = Pinned, !.purge = TRUE]
Off  == [Base EXCEPT !.offJobs = [j \in {"b"} |-> {}], !.labels["w2"] = {"y"}]

OnOneHost(w) == [w EXCEPT !.hosts = <<"w1">>]

(* Edits that no build accepts *)
Mistakes ==
    {[Base EXCEPT !.hosts = <<"w1", "w1">>],
     [Base EXCEPT !.jobs["a"].commands = OnB],
     [Base EXCEPT !.jobs["b"].commands = OnNewA],
     [Base EXCEPT !.jobs["a"].version = 0],
     [Base EXCEPT !.labels["w2"] = {}, !.jobs["a"].least = 2],
     [Base EXCEPT !.config["b"]["memory"] = 2],
     [Base EXCEPT !.config["a"]["memory"] = 3, !.jobs["a"].max["memory"] = 3],
     Monitor(Base, "a", [Server EXCEPT !.server = {"yml", "tpl"}]),
     Monitor(Base, "a", [Server EXCEPT !.scrape = {"yaml", "tpl"}]),
     Monitor(Base, "a", [Server EXCEPT !.ports = {}]),
     Monitor(Base, "a", [Server EXCEPT !.items = <<>>]),
     Monitor(Base, "a", [Server EXCEPT !.items[1].discovery = TRUE]),
     Monitor(Base, "b", [Exporter EXCEPT !.items[1].name = "a"]),
     Monitor(Base, "b", [Exporter EXCEPT !.runbooks = {}]),
     Monitor(Base, "b", [Exporter EXCEPT !.rules = @ \o @])}

MCWorkspaces == {Base, Alter, Turn, Off, OnOneHost(Base), OnOneHost(Turn)} \cup Mistakes

(* b is scraped on w2 only, and w2 leaves. *)
OnlyOnW2 ==
    Monitor(Base, "b", [Exporter EXCEPT !.items = <<Called("n", {To(Implicit, "w2")})>>])
PinnedWorkspaces == {OnlyOnW2, OnOneHost(OnlyOnW2)}

MCValues == {"", "deployed", "tags", "vars.toml"}
=============================================================================
