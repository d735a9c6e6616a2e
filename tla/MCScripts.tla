----------------------------- MODULE MCScripts ------------------------------
(***************************************************************************)
(* The programs under scripts/ for TLC: the update of the dependencies, its *)
(* report, the check of the compose files and the filing of the issues.    *)
(* They share nothing, so each behaviour is of one of them.                *)
(***************************************************************************)
EXTENDS MCFlakeUpdate, UpdateReport, ComposeCheck, IssueFiling

CONSTANT Scripts   \* which of them are checked
VARIABLE script    \* the one that runs

---------------------------------------------------------------------------
\* Two tickets that name each other, and two of one title.

Ticket(id, title, refs) == [id |-> id, title |-> title, labels |-> {"ci"}, refs |-> refs]
EachOther == <<Ticket(<<0, 1>>, "A", {<<1, 1>>}), Ticket(<<1, 1>>, "B", {<<0, 1>>})>>
SameTitle == <<Ticket(<<0, 1>>, "A", {}), Ticket(<<1, 1>>, "A", {})>>
TwoPlans == {EachOther, SameTitle}
TwoPhases == <<"Phase 0", "Phase 1">>

---------------------------------------------------------------------------
\* Compose files of one service with at most one port or volume, alone and with
\* a second file before or after it.

TwoNumbers == [token \in {"8000", "8001"} |-> IF token = "8000" THEN 8000 ELSE 8001]

PortAt(ip, ports, protocol, form) == [ip |-> ip, ports |-> ports, protocol |-> protocol, form |-> form]
Ports ==
  {PortAt(ip, ports, protocol, form) :
     ip \in {<<>>, <<"0.0.0.0">>, <<"127.0.0.1">>, <<":", ":">>, <<"$", "IP">>},
     ports \in {<<>>, <<"8000", "8000">>, <<"8000", "8001">>},
     protocol \in {"tcp", "udp"}, form \in {"short", "long"}}
  \cup {PortAt(<<>>, <<>>, "tcp", "int")}

Volume(kind, path, ro) ==
  {[kind |-> kind, path |-> path, ro |-> ro, form |-> form] : form \in {"short", "long"}}
Absolute(path) == Volume("bind", <<"/">> \o path, FALSE)
ReadOnly(path) == Volume("bind", <<"/">> \o path, TRUE)
Volumes ==
  Absolute(<<"srv", "web", "data">>) \cup Absolute(<<"srv", "web">>) \cup Absolute(<<"srv", "webs">>)
  \cup Absolute(<<"srv", "web", "..", "db">>) \cup Absolute(<<"srv", "db", "..", "web", ".", "x">>)
  \cup Absolute(<<"srv", "web", "..", "..", "..", "run", "docker.sock">>)
  \cup Absolute(<<"etc", "localtime">>)
  \cup ReadOnly(<<"etc", "localtime">>) \cup ReadOnly(<<"var", "run", "docker.sock">>)
  \cup ReadOnly(<<"srv", "db">>)
  \cup Volume("bind", <<".", "/", "data">>, FALSE) \cup Volume("bind", <<"..", "/", "data">>, FALSE)
  \cup Volume("bind", <<"~", "/", "data">>, TRUE) \cup Volume("bind", <<"$", "DIR">>, FALSE)
  \cup Volume("named", <<"data">>, FALSE) \cup Volume("anonymous", <<>>, FALSE)

Doc(service, hostNetwork, ports, volumes, hostBinding) ==
  [services |-> (service :> [hostNetwork |-> hostNetwork, ports |-> ports, volumes |-> volumes]),
   hostBinding |-> hostBinding]
Docs ==
  {Doc("web", FALSE, {x}, {}, FALSE) : x \in Ports}
  \cup {Doc("web", FALSE, {}, {v}, FALSE) : v \in Volumes}
  \cup {Doc("web", host, {}, {}, ~ host) : host \in BOOLEAN}
  \cup {Doc(s, FALSE, {}, {}, FALSE) : s \in {"web", "db"}}
Good == Doc("web", FALSE, {PortAt(<<"0.0.0.0">>, <<"8000", "8000">>, "tcp", "short")}, {}, FALSE)
Empty == Doc("web", FALSE, {}, {}, FALSE)

File(dir, doc) == [dir |-> dir, doc |-> doc]
SomeFiles ==
  {<<File("web", doc)>> : doc \in Docs}
  \cup {<<File("web", doc), File("db", other)>> : doc \in {Good, Empty}, other \in Docs}
  \cup {<<File("db", other), File("web", doc)>> : doc \in {Good, Empty}, other \in Docs}
  \cup {<<>>, <<File("old", Good)>>}

Stack(publicPorts, dataDir, composeFile) ==
  [services |-> {"web"}, publicPorts |-> publicPorts, dataDir |-> dataDir, composeFile |-> composeFile]
Stacks ==
  {Stack(ports, dir, file) : ports \in {{}, {<<8000, "tcp">>}, {<<8000, "tcp">>, <<8001, "tcp">>}},
     dir \in {<<>>, <<"srv", "web">>}, file \in {{}, {Good}}}
SomeManifests ==
  {"web" :> stack : stack \in Stacks}
  \cup {("web" :> stack) @@ ("db" :> Stack({<<8000, "tcp">>}, <<>>, {})) : stack \in Stacks}

---------------------------------------------------------------------------
\* Two packages with two CVEs.

SomeSystems == [{"nginx", "openssl"} -> SUBSET {"CVE-1", "CVE-2"}]

---------------------------------------------------------------------------

\* A script that does not run stands still, on nothing.
MCInit ==
  /\ script \in Scripts
  /\ Init
  /\ IF script = "report" THEN ReportInit
     ELSE /\ reportAt = "done" /\ attempt = 1 /\ spent = 0 /\ written = NotWritten
          /\ system = <<>> /\ cves = <<>>
  /\ IF script = "compose" THEN ComposeInit
     ELSE manifest = <<>> /\ files = <<>> /\ nextFile = 0 /\ failed = FALSE
  /\ IF script = "issues" THEN IssueInit
     ELSE /\ plan = <<>> /\ issues = <<>> /\ milestones = <<>> /\ labels = {}
          /\ edits = 0 /\ runs = 0 /\ stage = "idle" /\ at = 1 /\ haveLabels = {}
          /\ existing = <<>> /\ num = <<>> /\ created = {} /\ edited = {}

Update == script = "update" /\ Next /\ UNCHANGED <<reportVars, composeVars, issueVars>>
Report == script = "report" /\ ReportNext /\ UNCHANGED <<vars, composeVars, issueVars>>
Compose == script = "compose" /\ ComposeNext /\ UNCHANGED <<vars, reportVars, issueVars>>
Issues == script = "issues" /\ IssueNext /\ UNCHANGED <<vars, reportVars, composeVars>>

MCNext == UNCHANGED script /\ (Update \/ Report \/ Compose \/ Issues)

MCSpec == MCInit /\ [][MCNext]_<<script, vars, reportVars, composeVars, issueVars>>

\* Each variable of the four scripts keeps its type.
TypeOK == UpdateTypeOK /\ ReportTypeOK /\ ComposeTypeOK /\ IssueTypeOK
=============================================================================
