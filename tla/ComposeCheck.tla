---------------------------- MODULE ComposeCheck ----------------------------
(***************************************************************************)
(* scripts/check_compose.py: the flake check that reads every compose      *)
(* file.  A file says what its services publish and mount in Docker's      *)
(* syntax, as texts that are sequences of tokens; the check reads the      *)
(* texts, and the properties what they mean.                               *)
(***************************************************************************)
EXTENDS Naturals, Sequences, FiniteSets, SequencesExt

CONSTANTS
  Number,     \* the tokens that are numbers, with their values
  Manifests,  \* what the manifest may hold: stacks by name
  FileSets    \* the compose files there may be, in order, as [dir, doc]

\* What a file may say.  A port is [ip, ports, protocol, form]: `ports` is the
\* first and last host port, or empty if Docker picks.  A volume is [kind, path,
\* ro, form].  What separates the parts of a text is in none of them.

IsText(text) == text \in Seq(Range(text))

IsPort(x) ==
  /\ x.form \in {"int", "short", "long"}
  /\ x.form = "int" => x.ip = <<>> /\ x.ports = <<>> /\ x.protocol = "tcp"
  /\ IsText(x.ip) /\ Range(x.ip) \cap {"/", "[", "]"} = {}
  /\ \/ x.ports = <<>>
     \/ \E from, to \in DOMAIN Number : x.ports = <<from, to>> /\ Number[from] <= Number[to]
  /\ x.protocol # "$"

\* How the source of a bind mount begins.
PathStarts == {"/", ".", "..", "~"}

IsVolume(v) ==
  /\ v.form \in {"short", "long"} /\ v.ro \in BOOLEAN
  /\ IsText(v.path) /\ ":" \notin Range(v.path)
  /\ \/ v.kind = "anonymous" /\ v.path = <<>> /\ ~ v.ro
     \/ /\ v.kind \in {"bind", "named"} /\ v.path # <<>>
        /\ v.form = "short" => (v.kind = "bind" <=> v.path[1] \in PathStarts) \/ "$" \in Range(v.path)
  /\ v.path # <<>> /\ v.path[1] = "/" => "/" \notin Range(Tail(v.path))

ASSUME ComposeAssumption ==
  /\ \A token \in DOMAIN Number : Number[token] \in Nat /\ token \notin {":", "/", "-", "$", "["}
  /\ \A stacks \in Manifests : \A name \in DOMAIN stacks :
       \A public \in stacks[name].publicPorts : public = <<public[1], public[2]>>
  /\ \A set \in FileSets :
       /\ DOMAIN set = 1..Len(set) /\ Len(set) \in Nat
       /\ \A k \in DOMAIN set :
            /\ DOMAIN set[k] = {"dir", "doc"}
            /\ \A s \in DOMAIN set[k].doc.services :
                 /\ \A x \in set[k].doc.services[s].ports : IsPort(x)
                 /\ \A v \in set[k].doc.services[s].volumes : IsVolume(v)

PublicIp == <<"0.0.0.0">>
Ipv6All == {<<":", ":">>, <<"[", ":", ":", "]">>}
Sockets == {<<"var", "run", "docker.sock">>, <<"run", "docker.sock">>}
ReadOnlyAllowed == {<<"etc", "localtime">>, <<"etc", "timezone">>}

---------------------------------------------------------------------------
\* What a file means, as Docker reads it.

HasColon(text) == ":" \in Range(text)

HostPorts(x) ==
  IF x.ports = <<>> THEN <<>>
  ELSE IF x.ports[1] = x.ports[2] THEN <<x.ports[1]>> ELSE <<x.ports[1], "-", x.ports[2]>>

\* Its short form: [[ip:]ports:]container[/protocol].
PortText(x) ==
  (IF x.ip = <<>> THEN <<>>
   ELSE IF HasColon(x.ip) THEN <<"[">> \o x.ip \o <<"]", ":">> ELSE x.ip \o <<":">>)
  \o (IF x.ip = <<>> /\ x.ports = <<>> THEN <<>> ELSE HostPorts(x) \o <<":">>)
  \o <<"80">> \o (IF x.protocol = "tcp" THEN <<>> ELSE <<"/", x.protocol>>)

VolumeText(v) ==
  (IF v.kind = "anonymous" THEN <<>> ELSE v.path \o <<":">>)
  \o <<"/", "inside">> \o (IF v.ro THEN <<":", "ro">> ELSE <<>>)

PublishedBy(x) == IF x.ports = <<>> THEN {} ELSE Number[x.ports[1]]..Number[x.ports[2]]

Variable(text) == "$" \in Range(text)

PortConforms(x, stack) ==
  /\ ~ Variable(x.ip) /\ x.ip # <<>> /\ x.ip # <<":", ":">>
  /\ x.ip = PublicIp =>
       x.ports # <<>> /\ \A p \in PublishedBy(x) : <<p, x.protocol>> \in stack.publicPorts

Inside(path, dir) == Len(dir) <= Len(path) /\ SubSeq(path, 1, Len(dir)) = dir

\* Where an absolute path leads: the names on it that no later `..` takes back.
NamesOf(path, part) == {k \in part : path[k] \notin {"/", ".", ".."}}
UpsOf(path, part) == {k \in part : path[k] = ".."}
Stays(path) ==
  {k \in NamesOf(path, DOMAIN path) :
     \A j \in k..Len(path) :
       Cardinality(UpsOf(path, (k + 1)..j)) <= Cardinality(NamesOf(path, (k + 1)..j))}
Real(path) ==
  [rank \in 1..Cardinality(Stays(path)) |->
     path[CHOOSE k \in Stays(path) : Cardinality(Stays(path) \cap 1..k) = rank]]

VolumeConforms(v, stack) ==
  /\ v.kind # "anonymous" => ~ Variable(v.path)
  /\ v.kind = "bind" =>
       /\ v.path[1] = "/" /\ Real(v.path) \notin Sockets
       /\ \/ v.ro /\ Real(v.path) \in ReadOnlyAllowed
          \/ stack.dataDir # <<>> /\ Inside(Real(v.path), stack.dataDir)

Conforms(doc, stack) ==
  /\ DOMAIN doc.services = stack.services /\ ~ doc.hostBinding
  /\ \A s \in DOMAIN doc.services :
       /\ ~ doc.services[s].hostNetwork
       /\ \A x \in doc.services[s].ports : PortConforms(x, stack)
       /\ \A v \in doc.services[s].volumes : VolumeConforms(v, stack)
  /\ \A public \in stack.publicPorts :
       \E s \in DOMAIN doc.services : \E x \in doc.services[s].ports :
         x.ip = PublicIp /\ public[1] \in PublishedBy(x) /\ public[2] = x.protocol

---------------------------------------------------------------------------
\* The check's reading of the texts.

Error == [error |-> TRUE]

\* str.partition, and what is before and after the last separator.
Positions(text, sep) == {k \in DOMAIN text : text[k] = sep}
Until(text, sep) ==
  IF Positions(text, sep) = {} THEN text ELSE SubSeq(text, 1, Min(Positions(text, sep)) - 1)
After(text, sep) ==
  IF Positions(text, sep) = {} THEN <<>> ELSE SubSeq(text, Min(Positions(text, sep)) + 1, Len(text))
BeforeLast(text, sep) ==
  IF Positions(text, sep) = {} THEN <<>> ELSE SubSeq(text, 1, Max(Positions(text, sep)) - 1)
AfterLast(text, sep) ==
  IF Positions(text, sep) = {} THEN text ELSE SubSeq(text, Max(Positions(text, sep)) + 1, Len(text))

Value(text) == IF Len(text) = 1 /\ text[1] \in DOMAIN Number THEN {Number[text[1]]} ELSE {}

\* port_range: its ports, or none where int() raises.
PortRange(text) ==
  LET first == Until(text, "-")
      last == IF After(text, "-") = <<>> THEN first ELSE After(text, "-")
  IN  UNION {a..b : a \in Value(first), b \in Value(last)}

\* The address of a short form, which has all but the last two parts, and the rest.
SplitIp(text) ==
  LET host == BeforeLast(text, ":")
      ip == BeforeLast(host, ":")
  IN  CASE text[1] = "[" -> [ip |-> Until(text, "]") \o <<"]">>, rest |-> Tail(After(text, "]"))]
      [] text[1] # "[" /\ HasColon(host) -> [ip |-> ip, rest |-> SubSeq(text, Len(ip) + 2, Len(text))]
      [] text[1] # "[" /\ ~ HasColon(host) -> [ip |-> <<>>, rest |-> text]

\* Of a rest of two parts, the first.
Published(rest) ==
  IF HasColon(rest) /\ ~ HasColon(After(rest, ":")) THEN PortRange(Until(rest, ":")) ELSE {}

\* parse_port, of a number, an object or a text.
ParsePort(x) ==
  LET text == PortText(x)
      protocol == After(text, "/")
      split == SplitIp(Until(text, "/"))
  IN  CASE x.form = "int" -> [ip |-> <<>>, published |-> {}, protocol |-> "tcp"]
      [] x.form # "int" /\ Variable(text) -> Error
      [] x.form = "long" /\ ~ Variable(text) ->
           [ip |-> x.ip, published |-> PortRange(HostPorts(x)), protocol |-> x.protocol]
      [] x.form = "short" /\ ~ Variable(text) ->
           [ip |-> split.ip,
            published |-> Published(split.rest),
            protocol |-> IF protocol = <<>> THEN "tcp" ELSE protocol[1]]

\* volume_source.
VolumeSource(v) ==
  IF v.form = "long" THEN IF v.kind = "anonymous" THEN <<>> ELSE v.path
  ELSE IF After(VolumeText(v), ":") = <<>> THEN <<>> ELSE Until(VolumeText(v), ":")

\* bind_source: at most one.
BindSources(v) ==
  LET source == Until(VolumeText(v), ":")
      rest == After(VolumeText(v), ":")
  IN  IF v.form = "long"
      THEN IF v.kind = "bind" THEN {[path |-> v.path, ro |-> v.ro]} ELSE {}
      ELSE IF rest = <<>> \/ source[1] \notin PathStarts THEN {}
      ELSE {[path |-> source, ro |-> HasColon(rest) /\ AfterLast(rest, ":") = <<"ro">>]}

\* (Mutant) As it is written.
NormalAsIs(path) == SelectSeq(path, LAMBDA token : token # "/")

\* os.path.normpath, of an absolute path: the names on the way.
Step(walked, token) ==
  IF token \in {"/", "."} THEN walked
  ELSE IF token # ".." THEN Append(walked, token)
  ELSE IF walked = <<>> THEN walked ELSE Front(walked)
Normal(path) ==
  LET walk[k \in 0..Len(path)] == IF k = 0 THEN <<>> ELSE Step(walk[k - 1], path[k])
  IN  walk[Len(path)]

PortProblem(x, stack) ==
  LET read == ParsePort(x)
  IN  IF read = Error THEN TRUE
      ELSE \/ read.ip = <<>> \/ read.ip \in Ipv6All
           \/ /\ read.ip = PublicIp
              /\ \/ read.published = {}
                 \/ \E p \in read.published : <<p, read.protocol>> \notin stack.publicPorts

BindProblem(bind, stack) ==
  LET normal == Normal(bind.path)
  IN  \/ bind.path[1] # "/" \/ normal \in Sockets
      \/ /\ ~ (bind.ro /\ normal \in ReadOnlyAllowed)
         /\ stack.dataDir = <<>> \/ ~ Inside(normal, stack.dataDir)

VolumeProblem(v, stack) ==
  Variable(VolumeSource(v)) \/ \E bind \in BindSources(v) : BindProblem(bind, stack)

\* The ports that a file's services publish on every address.
Public(doc) ==
  LET entries == UNION {doc.services[s].ports : s \in DOMAIN doc.services}
      read == {ParsePort(x) : x \in entries} \ {Error}
  IN  UNION {{<<p, r.protocol>> : p \in r.published} : r \in {q \in read : q.ip = PublicIp}}

\* check_file: is there a problem?
CheckFile(doc, stack) ==
  \/ DOMAIN doc.services # stack.services
  \/ \E s \in DOMAIN doc.services :
       \/ doc.services[s].hostNetwork
       \/ \E x \in doc.services[s].ports : PortProblem(x, stack)
       \/ \E v \in doc.services[s].volumes : VolumeProblem(v, stack)
  \/ doc.hostBinding
  \/ stack.publicPorts \ Public(doc) # {}

---------------------------------------------------------------------------
\* `main`.

VARIABLES
  manifest,  \* the stacks
  files,     \* the compose files under the directory
  nextFile,  \* the file it is at; 0 before the first
  failed     \* `failed`

composeVars == <<manifest, files, nextFile, failed>>

ComposeInit ==
  /\ manifest \in Manifests /\ files \in FileSets
  /\ nextFile = 0 /\ failed = FALSE

\* A stack's own file is one of the files, in a directory of its name.
FileListed(name) ==
  manifest[name].composeFile = {} \/
  \E k \in DOMAIN files : files[k].dir = name /\ files[k].doc \in manifest[name].composeFile

CheckStacks ==
  /\ nextFile = 0 /\ nextFile' = 1
  /\ failed' = \E name \in DOMAIN manifest : ~ FileListed(name)
  /\ UNCHANGED <<manifest, files>>

Found(problem) == failed' = (failed \/ problem)

CheckNext ==
  /\ nextFile \in DOMAIN files /\ nextFile' = nextFile + 1
  /\ LET file == files[nextFile]
     IN  Found(file.dir \notin DOMAIN manifest \/ CheckFile(file.doc, manifest[file.dir]))
  /\ UNCHANGED <<manifest, files>>

ComposeNext == CheckStacks \/ CheckNext

ComposeSpec == ComposeInit /\ [][ComposeNext]_composeVars

Exits == nextFile = Len(files) + 1

---------------------------------------------------------------------------

ComposeTypeOK ==
  /\ \A k \in DOMAIN files : DOMAIN files[k] = {"dir", "doc"}
  /\ nextFile \in 0..(Len(files) + 1) /\ failed \in BOOLEAN

\* What is to hold of the repository: the file of every stack is in a directory
\* of its name, every file is a stack's, and means nothing that its stack does
\* not declare.
AllConform ==
  /\ \A name \in DOMAIN manifest : FileListed(name)
  /\ \A k \in DOMAIN files :
       files[k].dir \in DOMAIN manifest /\ Conforms(files[k].doc, manifest[files[k].dir])

\* The check exits 0 exactly when all of it conforms, in whatever of Docker's
\* forms the files are written and in whatever order they come.
ExitTells == Exits => (failed <=> ~ AllConform)
=============================================================================
