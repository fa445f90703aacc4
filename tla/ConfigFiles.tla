----------------------------- MODULE ConfigFiles -----------------------------
(***************************************************************************)
(* The writers of a project's .sofarpc directory: project initialization   *)
(* (Run), target profiles (WriteProfile) and `profile use` (UseProfile) of *)
(* internal/core/projectbootstrap, over the file operations of             *)
(* internal/core/projectconfig.  sofarpc_init_project runs them in         *)
(* concurrent tool calls and the CLI in processes of its own; nothing      *)
(* locks the files.  Every file system call is one action, and a process   *)
(* may die between two of them.                                            *)
(*                                                                         *)
(* A configuration keeps what the writers treat differently: the base      *)
(* settings and each profile as the writer they come from, the kind of     *)
(* allowedServices, and the default profile.                               *)
(***************************************************************************)
EXTENDS Naturals, FiniteSets

CONSTANTS
  Writers,   \* calls, each of which performs one operation
  Names,     \* profile names
  NoName,    \* no profile name: the file sets no default
  Before     \* who wrote what was there in the beginning

ASSUME ConfigAssumption ==
  /\ NoName \notin Names
  /\ Before \notin Writers

Kinds == {"local", "shared"}
Authors == Writers \cup {Before}

(* text: no file, JSON that parses, what somebody else left there, or a    *)
(* prefix of what a writer meant to write.                                 *)
Config == [text     : {"none", "json", "garbage", "torn"},
           base     : Authors \cup {NoName},
           allow    : {"unset", "blockAll", "listed"},
           default  : Names \cup {NoName},
           profiles : UNION {[D -> Authors] : D \in SUBSET Names}]

NoProfiles == [n \in {} |-> Before]
NoConfig == [text |-> "none", base |-> NoName, allow |-> "unset",
             default |-> NoName, profiles |-> NoProfiles]

Garbage == [NoConfig EXCEPT !.text = "garbage"]

(* A file by hand: one profile, and an allowlist that blocks everything. *)
Written(n) == [text |-> "json", base |-> Before, allow |-> "blockAll",
               default |-> NoName, profiles |-> [p \in {n} |-> Before]]

Op == [do : {"run", "profile", "use"}, kind : Kinds, name : Names \cup {NoName},
       setDefault : BOOLEAN, force : BOOLEAN, dryRun : BOOLEAN]

Ops_NoNameCheck ==
  {o \in Op :
    /\ o.do = "run" => o.name = NoName /\ ~o.setDefault
    /\ o.do = "use" => o.kind = "local" /\ o.setDefault /\ ~o.force}

(* A profile needs a name; the selected default lands in the local file.   *)
Ops ==
  {o \in Op :
    /\ o.do = "run" => o.name = NoName /\ ~o.setDefault
    /\ o.do = "profile" => o.name \in Names
    /\ o.do = "use" => o.kind = "local" /\ o.name \in Names /\ o.setDefault /\ ~o.force}

VARIABLES
  disk,      \* both config files
  ignored,   \* .gitignore has the entry of the local file
  op,        \* what each writer was asked to do
  pc,        \* where it stands
  names,     \* profile names it has found defined
  body,      \* what it will write
  tmp,       \* its temporary file
  version,   \* history: how often each file was replaced
  seen,      \* history: the file's version when the writer last looked at it
  found      \* history: in which versions of which files a selection saw its profile

looked == <<names, found>>
plan == <<op, looked, body, version, seen>>
vars == <<disk, ignored, op, pc, names, body, tmp, version, seen, found>>

K(w) == op[w].kind
Exists(k) == disk[k].text # "none"
Parses(k) == disk[k].text \in {"none", "json"}
Goto(w, p) == pc' = [pc EXCEPT ![w] = p]
Look(w) == seen' = [seen EXCEPT ![w] = version[K(w)]]
Finds(w, k) ==
  found' = [found EXCEPT ![w] = IF op[w].name \in DOMAIN disk[k].profiles
                                THEN @ \cup {<<k, version[k]>>} ELSE @]

Init ==
  /\ \E n \in Names :
       disk \in [Kinds -> {NoConfig, Garbage, Written(n)}]
  /\ ignored \in BOOLEAN
  /\ op \in [Writers -> Ops]
  /\ pc = [w \in Writers |-> "start"]
  /\ names = [w \in Writers |-> {}]
  /\ body = [w \in Writers |-> NoConfig]
  /\ tmp = [w \in Writers |-> "none"]
  /\ version = [k \in Kinds |-> 0]
  /\ seen = [w \in Writers |-> 0]
  /\ found = [w \in Writers |-> {}]

-----------------------------------------------------------------------------
(* What follows once the body is known: .gitignore before a local file,    *)
(* and nothing more in a dry run.                                          *)
Prepared_UseSkipsIgnore(w) ==
  IF K(w) = "local" /\ op[w].do # "use" THEN "ignore"
  ELSE IF op[w].dryRun THEN "done" ELSE "stat"

Prepared(w) ==
  IF K(w) = "local" THEN "ignore" ELSE IF op[w].dryRun THEN "done" ELSE "stat"

(* Run: the first look at the file.  The new content owes nothing to it. *)
RunCheck(w) ==
  /\ pc[w] = "start" /\ op[w].do = "run"
  /\ IF Exists(K(w)) /\ ~op[w].force THEN Goto(w, "done") ELSE Goto(w, Prepared(w))
  /\ body' = [body EXCEPT ![w] = [NoConfig EXCEPT !.text = "json", !.base = w, !.allow = "listed"]]
  /\ Look(w)
  /\ UNCHANGED <<disk, ignored, op, looked, tmp, version>>

(* SetProfile and SetDefaultProfile on what was read. *)
Merged_DropsEmptyAllowlist(w, old) ==
  [old EXCEPT !.text = "json",
              !.allow = IF old.allow = "blockAll" THEN "unset" ELSE old.allow,
              !.default = IF op[w].setDefault THEN op[w].name ELSE @,
              !.profiles = IF op[w].do = "use" THEN @
                           ELSE [n \in DOMAIN @ \cup {op[w].name} |->
                                   IF n = op[w].name THEN w ELSE @[n]]]

Merged_DefaultAlone(w, old) ==
  IF op[w].do = "use" THEN [NoConfig EXCEPT !.text = "json", !.default = op[w].name]
  ELSE [old EXCEPT !.text = "json",
                   !.default = IF op[w].setDefault THEN op[w].name ELSE @,
                   !.profiles = [n \in DOMAIN @ \cup {op[w].name} |->
                                   IF n = op[w].name THEN w ELSE @[n]]]

Merged(w, old) ==
  [old EXCEPT !.text = "json",
              !.default = IF op[w].setDefault THEN op[w].name ELSE @,
              !.profiles = IF op[w].do = "use" THEN @
                           ELSE [n \in DOMAIN @ \cup {op[w].name} |->
                                   IF n = op[w].name THEN w ELSE @[n]]]

(* WriteProfile reads the file; a profile of that name needs force. *)
ProfileRead(w) ==
  LET old == disk[K(w)]
  IN
  /\ pc[w] = "start" /\ op[w].do = "profile"
  /\ IF Parses(K(w)) /\ (op[w].name \in DOMAIN old.profiles => op[w].force)
     THEN Goto(w, Prepared(w)) /\ body' = [body EXCEPT ![w] = Merged(w, old)]
     ELSE Goto(w, "done") /\ UNCHANGED body
  /\ Look(w)
  /\ UNCHANGED <<disk, ignored, op, looked, tmp, version>>

(* UseProfile collects the defined names, the shared file's first, and     *)
(* then reads the local file a second time to change it.                   *)
UseReadShared(w) ==
  /\ pc[w] = "start" /\ op[w].do = "use"
  /\ IF Parses("shared")
     THEN Goto(w, "shared") /\ names' = [names EXCEPT ![w] = DOMAIN disk["shared"].profiles]
     ELSE Goto(w, "done") /\ UNCHANGED names
  /\ Finds(w, "shared")
  /\ UNCHANGED <<disk, ignored, op, body, tmp, version, seen>>

UseReadLocal_AnyName(w) ==
  /\ pc[w] = "shared"
  /\ names' = [names EXCEPT ![w] = @ \cup DOMAIN disk["local"].profiles]
  /\ Finds(w, "local")
  /\ IF Parses("local") THEN Goto(w, "defined") ELSE Goto(w, "done")
  /\ UNCHANGED <<disk, ignored, op, body, tmp, version, seen>>

UseReadLocal(w) ==
  /\ pc[w] = "shared"
  /\ names' = [names EXCEPT ![w] = @ \cup DOMAIN disk["local"].profiles]
  /\ Finds(w, "local")
  /\ IF Parses("local") /\ op[w].name \in names'[w] THEN Goto(w, "defined") ELSE Goto(w, "done")
  /\ UNCHANGED <<disk, ignored, op, body, tmp, version, seen>>

UseRead(w) ==
  /\ pc[w] = "defined"
  /\ IF Parses("local")
     THEN Goto(w, Prepared(w)) /\ body' = [body EXCEPT ![w] = Merged(w, disk["local"])]
     ELSE Goto(w, "done") /\ UNCHANGED body
  /\ Look(w)
  /\ UNCHANGED <<disk, ignored, op, looked, tmp, version>>

(* prepareLocalGitignore: a dry run only reports. *)
Ignore(w) ==
  /\ pc[w] = "ignore"
  /\ IF op[w].dryRun THEN Goto(w, "done") /\ UNCHANGED ignored
     ELSE Goto(w, "stat") /\ ignored' = TRUE
  /\ UNCHANGED <<disk, tmp, plan>>

(* Write looks again, and refuses again; WriteMerged has no gate. *)
Stat_NoGate(w) ==
  /\ pc[w] = "stat"
  /\ Goto(w, "create")
  /\ IF op[w].do = "run" THEN Look(w) ELSE UNCHANGED seen
  /\ UNCHANGED <<disk, ignored, op, looked, body, tmp, version>>

Stat(w) ==
  /\ pc[w] = "stat"
  /\ IF op[w].do = "run" /\ Exists(K(w)) /\ ~op[w].force
     THEN Goto(w, "done")
     ELSE Goto(w, "create")
  /\ IF op[w].do = "run" THEN Look(w) ELSE UNCHANGED seen
  /\ UNCHANGED <<disk, ignored, op, looked, body, tmp, version>>

-----------------------------------------------------------------------------
(* atomicWrite: create, write and close, rename. *)
CreateTemp(w) ==
  /\ pc[w] = "create"
  /\ tmp' = [tmp EXCEPT ![w] = "partial"]
  /\ Goto(w, "write")
  /\ UNCHANGED <<disk, ignored, plan>>

WriteTemp(w) ==
  /\ pc[w] = "write"
  /\ tmp' = [tmp EXCEPT ![w] = "whole"]
  /\ Goto(w, "rename")
  /\ UNCHANGED <<disk, ignored, plan>>

Rename(w) ==
  /\ pc[w] = "rename"
  /\ disk' = [disk EXCEPT ![K(w)] = IF tmp[w] = "whole" THEN body[w]
                                   ELSE [NoConfig EXCEPT !.text = "torn"]]
  /\ tmp' = [tmp EXCEPT ![w] = "none"]
  /\ version' = [version EXCEPT ![K(w)] = @ + 1]
  /\ Goto(w, "done")
  /\ UNCHANGED <<ignored, op, looked, body, seen>>

Busy(w) == pc[w] \notin {"done", "dead"}

(* A file system call fails: the operation returns its error, and the      *)
(* deferred clean-up removes the temporary file.                           *)
Fails_LeavesTemp(w) ==
  /\ Busy(w)
  /\ Goto(w, "done")
  /\ UNCHANGED <<disk, ignored, tmp, plan>>

Fails_WriteErrorIgnored(w) ==
  /\ Busy(w)
  /\ IF pc[w] = "write" THEN Goto(w, "rename") /\ UNCHANGED tmp
     ELSE Goto(w, "done") /\ tmp' = [tmp EXCEPT ![w] = "none"]
  /\ UNCHANGED <<disk, ignored, plan>>

Fails(w) ==
  /\ Busy(w)
  /\ Goto(w, "done")
  /\ tmp' = [tmp EXCEPT ![w] = "none"]
  /\ UNCHANGED <<disk, ignored, plan>>

(* The process is killed. *)
Dies(w) ==
  /\ Busy(w)
  /\ Goto(w, "dead")
  /\ UNCHANGED <<disk, ignored, tmp, plan>>

Next ==
  \E w \in Writers :
    \/ RunCheck(w)
    \/ ProfileRead(w)
    \/ UseReadShared(w)
    \/ UseReadLocal(w)
    \/ UseRead(w)
    \/ Ignore(w)
    \/ Stat(w)
    \/ CreateTemp(w)
    \/ WriteTemp(w)
    \/ Rename(w)
    \/ Fails(w)
    \/ Dies(w)

Spec == Init /\ [][Next]_vars

-----------------------------------------------------------------------------
TypeOK ==
  /\ disk \in [Kinds -> Config]
  /\ ignored \in BOOLEAN
  /\ op \in [Writers -> Ops]
  /\ pc \in [Writers -> {"start", "shared", "defined", "ignore", "stat", "create",
                         "write", "rename", "done", "dead"}]
  /\ names \in [Writers -> SUBSET Names]
  /\ body \in [Writers -> Config]
  /\ tmp \in [Writers -> {"none", "partial", "whole"}]
  /\ version \in [Kinds -> Nat]
  /\ seen \in [Writers -> Nat]
  /\ found \in [Writers -> SUBSET (Kinds \X Nat)]

(* Whoever reads a config file finds a whole one, whatever failed or died  *)
(* while it was replaced.                                                  *)
NeverTorn == \A k \in Kinds : disk[k].text # "torn"

(* A temporary file is left behind only by a process that was killed. *)
NoLitter == \A w \in Writers : tmp[w] # "none" => pc[w] \in {"write", "rename", "dead"}

(* A local file is in .gitignore before the tool first writes it, so there *)
(* is no moment, not even after a crash, at which it could be committed.   *)
LocalIsIgnored == version["local"] > 0 => ignored

(* At every moment, also after a crash, what is on disk is safe to read    *)
(* and to commit.                                                          *)
FilesAreSafe == TypeOK /\ NeverTorn /\ NoLitter /\ LocalIsIgnored

(* An initialization without force replaces an existing file only if       *)
(* somebody put that file there after the last look at it.                 *)
OverwritesOnlyWhatItCouldNotSee ==
  [][\A w \in Writers :
       Rename(w) /\ op[w].do = "run" /\ ~op[w].force /\ Exists(K(w))
         => version[K(w)] # seen[w]]_vars

(* A profile edit of a file that nobody replaced since it was read keeps   *)
(* the base settings, an explicitly empty allowlist, the other profiles    *)
(* and, unless told otherwise, the default; it replaces a profile of the   *)
(* same name only with force, and never a file that does not parse.        *)
KeepsRest(w, old, new) ==
  /\ new.base = old.base
  /\ new.allow = old.allow
  /\ ~op[w].setDefault => new.default = old.default
  /\ \A n \in DOMAIN old.profiles :
       /\ n \in DOMAIN new.profiles
       /\ new.profiles[n] # old.profiles[n] => op[w].do = "profile" /\ n = op[w].name /\ op[w].force

MergeKeepsTheRest ==
  [][\A w \in Writers :
       Rename(w) /\ op[w].do # "run" /\ version[K(w)] = seen[w]
         => Parses(K(w)) /\ KeepsRest(w, disk[K(w)], disk'[K(w)])]_vars

(* A selection reads the shared file, the local file, and the local file   *)
(* again, and others may write at any moment.  Its new default is a        *)
(* profile that one of the first two reads saw, and it is still defined    *)
(* once the selection is written, unless every file in which it was seen   *)
(* was replaced too soon: the shared one before the end, the local one     *)
(* between its two reads.                                                  *)
SelectsADefinedProfile ==
  [][\A w \in Writers :
       Rename(w) /\ op[w].do = "use"
         => /\ disk'["local"].default = op[w].name
            /\ found[w] # {}
            /\ <<"shared", version["shared"]>> \in found[w]
                 => op[w].name \in DOMAIN disk'["shared"].profiles
            /\ <<"local", seen[w]>> \in found[w]
                 => op[w].name \in DOMAIN disk'["local"].profiles]_vars

-----------------------------------------------------------------------------
(* README.md: "Existing project config files are not overwritten unless    *)
(* `--force` is passed."                                                   *)
NoOverwriteWithoutForce ==
  [][\A w \in Writers :
       Rename(w) /\ op[w].do = "run" /\ ~op[w].force => ~Exists(K(w))]_vars

(* The doc comment of WriteProfile: it "rewrites the file preserving every *)
(* other field - the base target settings, other profiles, and an explicit *)
(* allowedServices".                                                       *)
ProfileWritePreservesTheRest ==
  [][\A w \in Writers :
       Rename(w) /\ op[w].do = "profile" => KeepsRest(w, disk[K(w)], disk'[K(w)])]_vars

(* The comment on UseProfileInput: "the named profile must be defined in   *)
(* either file or it errors rather than persisting an undefined default".  *)
NeverPersistsAnUndefinedDefault ==
  [][\A w \in Writers :
       Rename(w) /\ op[w].do = "use"
         => \E k \in Kinds : op[w].name \in DOMAIN disk'[k].profiles]_vars
=============================================================================
