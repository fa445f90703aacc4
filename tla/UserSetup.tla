------------------------------ MODULE UserSetup ------------------------------
(***************************************************************************)
(* `sofarpc-mcp setup` at user scope (cmd/sofarpc-mcp/setup.go): it        *)
(* registers the server in the configuration files of two clients, Claude  *)
(* Code's JSON and Codex's TOML, and installs a skill beside each.  The    *)
(* clients keep settings of their own in these files and save them while   *)
(* setup runs; several runs may overlap; a run may fail or be killed       *)
(* between any two file system calls.                                      *)
(*                                                                         *)
(* A JSON file keeps the entry of this server, its other servers and the   *)
(* rest, each as who wrote it; a TOML file is the sequence of its lines,   *)
(* because setup edits it line by line.                                    *)
(***************************************************************************)
EXTENDS Naturals, Sequences, FiniteSets, SequencesExt

CONSTANTS
  Runs,          \* executions of setup, each with a command of its own
  UserKeys,      \* guardrails in the environment of the server
  ProjectKeys,   \* variables that belong to a project's config files
  Before,        \* who wrote what was there in the beginning
  Client,        \* a client that saves its own file
  Options,       \* how setup may be called
  JsonFiles,     \* Claude Code's file in the beginning
  TomlFiles      \* Codex's file in the beginning

Clients == {"claude", "codex"}

(* A value that is no string: a number, a nested table. *)
NotAString == "notAString"

NoEnv == [k \in {} |-> Before]
NoEntry == [command |-> "none", env |-> NoEnv]
NoFile == [text |-> "none", entry |-> NoEntry, servers |-> "none", rest |-> "none"]

(* One line of TOML: the header of a table or of an array's next element,  *)
(* or a key with its value.  A noted header has a comment behind it, a     *)
(* quoted one its name in quotes.                                          *)
Table(n) == [kind |-> "table", name |-> n, value |-> "none"]
Noted(n) == [kind |-> "noted", name |-> n, value |-> "none"]
Quoted(n) == [kind |-> "quoted", name |-> n, value |-> "none"]
Array(n) == [kind |-> "array", name |-> n, value |-> "none"]
Pair(k, v) == [kind |-> "pair", name |-> k, value |-> v]

(* An option asks for clients, sets guardrails and carries what the checks *)
(* of the flags look at.                                                   *)
Accepted(o) ==
  /\ ~o.projectFlag
  /\ o.command \in {"file", "installed"}
  /\ o.limits # "notANumber"

(* What a client can read to begin with: a JSON object, or lines in which  *)
(* no table is defined twice.                                              *)
Defines(line) == line.kind \in {"table", "noted", "quoted"}

Readable(lines) ==
  \A i, j \in DOMAIN lines :
    Defines(lines[i]) /\ lines[j].kind # "pair" /\ lines[j].name = lines[i].name => i = j

IsLine(line) ==
  line \in {Table(line.name), Noted(line.name), Quoted(line.name), Array(line.name),
            Pair(line.name, line.value)}

IsToml(lines) ==
  /\ lines \in Seq({lines[i] : i \in DOMAIN lines})
  /\ \A i \in DOMAIN lines : IsLine(lines[i])
  /\ Readable(lines)

IsJson(f) == f = [text |-> f.text, entry |-> [command |-> f.entry.command, env |-> f.entry.env],
                  servers |-> f.servers, rest |-> f.rest]

ASSUME SetupAssumption ==
  /\ UserKeys \cap ProjectKeys = {}
  /\ Before \notin Runs /\ Client \notin Runs
  /\ \A o \in Options : /\ o.clients \subseteq Clients
                       /\ DOMAIN o.env \subseteq UserKeys /\ IsFiniteSet(DOMAIN o.env)
  /\ \A f \in JsonFiles : IsJson(f)
  /\ \A lines \in TomlFiles : IsToml(lines)

VARIABLES
  file,      \* the two configuration files
  skill,     \* the two installed skills
  opt,       \* how each run was called
  pc,        \* where it stands: its step, and the jobs that are left
  body,      \* what it will write
  version,   \* history: how often each configuration file was replaced
  seen       \* history: the version the run last read

vars == <<file, skill, opt, pc, body, version, seen>>

(* What a run writes, in order: for each client its file, then the skill. *)
Jobs(o) ==
  LET Asked(c) == o.clients = {} \/ c \in o.clients
      Job(c) == IF ~Asked(c) THEN <<>>
                ELSE IF o.skill THEN <<<<c, "config">>, <<c, "skill">>>> ELSE <<<<c, "config">>>>
  IN  Job("claude") \o Job("codex")

Goto(r, step) == pc' = [pc EXCEPT ![r].step = step]
Job(r) == Head(pc[r].jobs)

(* The job is done; the run goes on with the next one. *)
NextJob(r) ==
  pc' = [pc EXCEPT ![r] = [step |-> IF Len(@.jobs) = 1 THEN "done" ELSE "read", jobs |-> Tail(@.jobs)]]

Init ==
  /\ \E j \in JsonFiles, t \in TomlFiles : file = [c \in Clients |-> IF c = "claude" THEN j ELSE t]
  /\ skill = [c \in Clients |-> Before]
  /\ opt \in [Runs -> Options]
  /\ pc = [r \in Runs |-> [step |-> "start", jobs |-> Jobs(opt[r])]]
  /\ body = [r \in Runs |-> "none"]
  /\ version = [c \in Clients |-> 0]
  /\ seen = [r \in Runs |-> 0]

-----------------------------------------------------------------------------
(* The environment of the entry: the strings that were there, unless the   *)
(* run replaces them, without what belongs to a project, under the flags.  *)
Environment_NoScrub(o, old) ==
  LET kept == IF o.replace THEN {} ELSE {k \in DOMAIN old : old[k] # NotAString}
  IN  [k \in kept \cup DOMAIN o.env |-> IF k \in DOMAIN o.env THEN o.env[k] ELSE old[k]]

Environment(o, old) ==
  LET kept == IF o.replace THEN {} ELSE {k \in DOMAIN old \ ProjectKeys : old[k] # NotAString}
  IN  [k \in kept \cup DOMAIN o.env |-> IF k \in DOMAIN o.env THEN o.env[k] ELSE old[k]]

(* Claude Code: the entry is replaced in the document. *)
Upserted_FreshDocument(r, old) ==
  [NoFile EXCEPT !.text = "json",
                 !.entry = [command |-> r, env |-> Environment(opt[r], old.entry.env)]]

Upserted(r, old) ==
  [old EXCEPT !.text = "json",
              !.entry = [command |-> r, env |-> Environment(opt[r], old.entry.env)]]

(* Codex: codexHeaderRe finds the headers of tables with nothing behind    *)
(* them; a line belongs to the last one it found.  A name in quotes is not *)
(* the name that setup looks for.                                          *)
IsHeader(line) == line.kind \in {"table", "quoted"}

Title(header) == IF header.kind = "quoted" THEN "quoted" ELSE header.name

Under(lines, i) ==
  LET above == {j \in 1 .. i : IsHeader(lines[j])}
  IN  IF above = {} THEN "top" ELSE Title(lines[CHOOSE j \in above : \A k \in above : k <= j])

Ours == {"sofarpc", "sofarpc.env"}

(* The lines at some places, one after the other. *)
Picked(lines, places) ==
  LET upTo[n \in 0..Len(lines)] ==
        IF n = 0 THEN <<>> ELSE IF n \in places THEN Append(upTo[n - 1], lines[n]) ELSE upTo[n - 1]
  IN  upTo[Len(lines)]

Stripped_KeepsEnv(lines) == Picked(lines, {i \in DOMAIN lines : Under(lines, i) # "sofarpc"})

Stripped(lines) == Picked(lines, {i \in DOMAIN lines : Under(lines, i) \notin Ours})

(* The strings under the header of the environment; a later one wins. *)
ReadEnv(lines) ==
  LET pairs == {i \in DOMAIN lines : /\ lines[i].kind = "pair" /\ lines[i].value # NotAString
                                     /\ Under(lines, i) = "sofarpc.env"}
      LastOf(k) == CHOOSE i \in pairs : lines[i].name = k /\ \A j \in pairs : lines[j].name = k => j <= i
  IN  [k \in {lines[i].name : i \in pairs} |-> lines[LastOf(k)].value]

Rendered(r, env) ==
  LET order == SetToSeq(DOMAIN env)
  IN  <<Table("sofarpc"), Pair("command", r)>>
      \o (IF env = NoEnv THEN <<>> ELSE <<Table("sofarpc.env")>>)
      \o [n \in DOMAIN order |-> Pair(order[n], env[order[n]])]

UpsertedLines(r, lines) ==
  Stripped(lines) \o Rendered(r, Environment(opt[r], ReadEnv(lines)))

-----------------------------------------------------------------------------
(* Flags and command are checked before anything is read. *)
Start(r) ==
  /\ pc[r].step = "start"
  /\ Goto(r, IF Accepted(opt[r]) THEN "read" ELSE "failed")
  /\ UNCHANGED <<file, skill, opt, body, version, seen>>

(* One reads the file and works out the whole new text; a dry run prints   *)
(* it.  A JSON file that does not parse ends the run.                      *)
ReadFile(r) ==
  LET c == Job(r)[1]
      old == file[c]
  IN
  /\ pc[r].step = "read" /\ Job(r)[2] = "config"
  /\ IF c = "claude" /\ old.text = "garbage"
     THEN Goto(r, "failed") /\ UNCHANGED body
     ELSE /\ IF opt[r].dryRun THEN NextJob(r) ELSE Goto(r, "replace")
          /\ body' = [body EXCEPT ![r] = IF c = "claude" THEN Upserted(r, old) ELSE UpsertedLines(r, old)]
  /\ seen' = [seen EXCEPT ![r] = version[c]]
  /\ UNCHANGED <<file, skill, opt, version>>

(* The skill is what the binary carries, whatever is there. *)
PrepareSkill(r) ==
  /\ pc[r].step = "read" /\ Job(r)[2] = "skill"
  /\ IF opt[r].dryRun THEN NextJob(r) ELSE Goto(r, "replace")
  /\ body' = [body EXCEPT ![r] = r]
  /\ UNCHANGED <<file, skill, opt, version, seen>>

(* atomicWrite: a file beside the target is written and renamed over it.   *)
(* Nobody else sees that file, so the rename is the step that counts.      *)
Replace(r) ==
  LET c == Job(r)[1] IN
  /\ pc[r].step = "replace"
  /\ IF Job(r)[2] = "config"
     THEN /\ file' = [file EXCEPT ![c] = body[r]]
          /\ version' = [version EXCEPT ![c] = @ + 1]
          /\ UNCHANGED skill
     ELSE skill' = [skill EXCEPT ![c] = body[r]] /\ UNCHANGED <<file, version>>
  /\ NextJob(r)
  /\ UNCHANGED <<opt, body, seen>>

Busy(r) == pc[r].step \notin {"done", "failed"}

(* A file system call fails, or the process is killed: the run ends there, *)
(* after what it has already written.                                      *)
Fails_GoesOn(r) ==
  /\ Busy(r)
  /\ NextJob(r)
  /\ UNCHANGED <<file, skill, opt, body, version, seen>>

Fails(r) ==
  /\ Busy(r)
  /\ Goto(r, "failed")
  /\ UNCHANGED <<file, skill, opt, body, version, seen>>

(* A client saves a setting of its own, once. *)
ClientSaves(c) ==
  /\ IF c = "claude"
     THEN /\ file[c].rest # Client
          /\ file' = [file EXCEPT ![c].rest = Client, ![c].text = "json"]
     ELSE /\ \A i \in DOMAIN file[c] : file[c][i].value # Client
          /\ file' = [file EXCEPT ![c] = <<Pair("setting", Client)>> \o @]
  /\ version' = [version EXCEPT ![c] = @ + 1]
  /\ UNCHANGED <<skill, opt, pc, body, seen>>

Next ==
  \/ \E r \in Runs :
       \/ Start(r)
       \/ ReadFile(r)
       \/ PrepareSkill(r)
       \/ Replace(r)
       \/ Fails(r)
  \/ \E c \in Clients : ClientSaves(c)

Spec == Init /\ [][Next]_vars

-----------------------------------------------------------------------------
(* What Codex reads, by the rules of TOML: every header, however it is     *)
(* written, ends the table before it, and a table is defined once.         *)
Opens(header) == IF Defines(header) THEN Table(header.name) ELSE header

Owner(lines, i) ==
  LET above == {j \in 1 .. i : lines[j].kind # "pair"}
  IN  IF above = {} THEN Table("top") ELSE Opens(lines[CHOOSE j \in above : \A k \in above : k <= j])

PairsOf(lines, t) ==
  {lines[i] : i \in {j \in DOMAIN lines : lines[j].kind = "pair" /\ Owner(lines, j) = Table(t)}}

Foreign(lines) == Picked(lines, {i \in DOMAIN lines : Owner(lines, i) \notin {Table(t) : t \in Ours}})

(* What a client starts the server with. *)
EnvOf(c) ==
  IF c = "claude" THEN file[c].entry.env
  ELSE LET pairs == PairsOf(file[c], "sofarpc.env")
       IN  [k \in {p.name : p \in pairs} |-> (CHOOSE p \in pairs : p.name = k).value]

CommandsOf(c) ==
  IF c = "claude" THEN {file[c].entry.command}
  ELSE {p.value : p \in {q \in PairsOf(file[c], "sofarpc") : q.name = "command"}}

(* A run replaces a file that nobody saved since it was read. *)
Undisturbed(r) ==
  Replace(r) /\ Job(r)[2] = "config" /\ version[Job(r)[1]] = seen[r]

(* Registering keeps the client's other servers, tables and settings, and  *)
(* never replaces a JSON file it cannot read.                              *)
ReplacesOnlyItsEntry ==
  [][\A r \in Runs : Undisturbed(r) =>
       IF Job(r)[1] = "claude"
       THEN /\ file["claude"].text # "garbage"
            /\ file'["claude"].servers = file["claude"].servers
            /\ file'["claude"].rest = file["claude"].rest
       ELSE Foreign(file'["codex"]) = Foreign(file["codex"])]_vars

(* Afterwards the client starts the server with the guardrails the flags   *)
(* set, with those set before unless the run replaces them, and with       *)
(* nothing of any project: the same from either format.                    *)
KeepsGuardrails ==
  [][\A r \in Runs, c \in Clients : Undisturbed(r) /\ c = Job(r)[1] =>
       LET old == EnvOf(c)
           new == EnvOf(c)'
           kept == {k \in DOMAIN old \cap UserKeys : old[k] # NotAString /\ ~opt[r].replace}
       IN  /\ DOMAIN new \cap (UserKeys \cup ProjectKeys) = kept \cup DOMAIN opt[r].env
           /\ \A k \in DOMAIN opt[r].env : new[k] = opt[r].env[k]
           /\ \A k \in kept \ DOMAIN opt[r].env : new[k] = old[k]]_vars

(* However often setup registered the server, "semantically equivalent to  *)
(* replacement in TOML" (setup.go): Codex can read its config, no table    *)
(* being defined twice.  That needs headers of the server's own tables     *)
(* which setup finds, as those that it writes.  And a run that ends        *)
(* without an error has registered the server with every client it was     *)
(* asked for, and installed the skill where it should; what other runs and *)
(* the clients write in between does not undo it.                          *)
SuccessCoversEveryClient ==
  /\ Readable(file["codex"])
  /\ \A r \in Runs :
       pc[r].step = "done" /\ ~opt[r].dryRun =>
         \A i \in DOMAIN Jobs(opt[r]) :
           LET job == Jobs(opt[r])[i]
           IN  IF job[2] = "config" THEN CommandsOf(job[1]) # {} /\ CommandsOf(job[1]) \subseteq Runs
               ELSE skill[job[1]] \in Runs
=============================================================================
