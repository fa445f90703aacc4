------------------------------ MODULE ToolCalls ------------------------------
(***************************************************************************)
(* sofarpc_open, sofarpc_invoke and sofarpc_replay from the decoded        *)
(* request to the answer (internal/mcp/open.go, invoke.go, replay.go,      *)
(* scope.go, execution.go and the plan building of                         *)
(* internal/core/invoke).  Calls run concurrently, each in its own         *)
(* goroutine; what they share is the session registry, the invoke limiter  *)
(* and the config files on disk, which other programs rewrite meanwhile.   *)
(*                                                                         *)
(* SessionStore is the registry with its mutex, Bulkhead what the limiter  *)
(* promises.  The two config files are read one after the other, and a     *)
(* call works from then on with what it read.                              *)
(***************************************************************************)
EXTENDS ExecutionPolicy, FiniteSets

CONSTANTS
  Callers,      \* tool calls that can be in progress at once
  Projects,     \* project roots
  Directories,  \* bound of the model: roots that requests name
  ServerRoot,   \* the working directory of the server
  SharedFiles,  \* bound of the model: contents of config.json
  LocalFiles,   \* bound of the model: contents of config.local.json
  FirstFiles,   \* the config files every project starts with
  Environments, \* bound of the model: [guard, set] of the server process
  Limits,       \* bound of the model: limits of the invoke limiter, zero for none
  InvokeInputs, \* bound of the model: what clients ask sofarpc_invoke for
  Payloads,     \* bound of the model: plans sent to sofarpc_replay
  SessionIds, Cap, History,
  MaxCalls,     \* bound of the model: calls per behaviour
  Edited,       \* bound of the model: projects whose files are rewritten
  MaxEdits      \* bound of the model: rewrites of config files per behaviour

ASSUME ToolCallsAssumption ==
  /\ {ServerRoot} \cup Directories \cup Edited \subseteq Projects
  /\ SharedFiles \cup LocalFiles \subseteq ConfigFile
  /\ FirstFiles \in [Projects -> [shared : SharedFiles, local : LocalFiles]]
  /\ None \notin Projects \cup SessionIds \cup Profiles \cup Urls \cup Addrs
  /\ IsFiniteSet(SessionIds)
  /\ Cap \in Nat
  /\ History \in Nat \ {0}
  /\ IsFiniteSet(Callers)
  /\ MaxCalls \in Nat
  /\ Limits \subseteq [global : Nat, perTarget : Nat]

VARIABLES
  files,     \* files[p] : the config files of project p on disk
  env,       \* guardrails and the invocation property variables that are set
  limits,    \* the limits of the invoke limiter
  status,    \* where each call stands with the limiter
  dest,      \* the limiter key of each call
  sessions, issued, attempts, log,   \* the variables of SessionStore
  opened,    \* per issued id, the project and profile it was created with
  captured,  \* the plan of every capture attempt
  call,      \* call[c] : the call in progress
  started,   \* calls so far
  edits      \* rewrites so far

sessionVars == <<sessions, issued, attempts, log, opened, captured>>
limiterVars == <<limits, status, dest>>
worldVars == <<files, edits, env>>
vars == <<worldVars, limiterVars, sessionVars, call, started>>

(* Without a clock all sessions are equally old, and any may be dropped.   *)
S == INSTANCE SessionStore WITH now <- 0, TTL <- 0, MaxTime <- 0, MaxCaptures <- MaxCalls

(* A target is an address, or a url that has none. *)
LimitKeys == Addrs \cup Urls \cup {None}

B == INSTANCE Bulkhead WITH Targets <- LimitKeys

Plan ==
  [service : Services \cup {None}, url : Urls \cup {None}, protocol : Protocols \cup {None},
   props : Declarations, profile : Profiles \cup {None},
   source : {"none", "facade-store", "trusted"}]

NoPlan ==
  [service |-> None, url |-> None, protocol |-> None, props |-> NoDecls,
   profile |-> None, source |-> "none"]

(* complete: service, method, types and args are given and fit together.   *)
InvokeInput ==
  [service : Services \cup {None}, profile : Profiles \cup {None}, url : Urls \cup {None},
   props : Declarations, mode : {"auto", "strict", "trusted"}, complete : BOOLEAN,
   dryRun : BOOLEAN]

ASSUME InputsAssumption == InvokeInputs \subseteq InvokeInput /\ Payloads \subseteq Plan

NoInput ==
  [service |-> None, profile |-> None, url |-> None, props |-> NoDecls,
   mode |-> "auto", complete |-> FALSE, dryRun |-> FALSE]

(* planId zero stands for none, plan for the payload. *)
Request ==
  [tool : {"open", "invoke", "replay"}, session : SessionIds \cup {None},
   cwd : Directories \cup {None}, in : InvokeInput, planId : Nat, plan : Plan]

NoRequest ==
  [tool |-> "open", session |-> None, cwd |-> None, in |-> NoInput,
   planId |-> 0, plan |-> NoPlan]

Idle ==
  [pc |-> "idle", req |-> NoRequest, project |-> ServerRoot, profile |-> None,
   shared |-> AbsentFile, local |-> AbsentFile, plan |-> NoPlan]

PCs == {"idle", "extract", "planById", "session", "shared", "local", "scoped",
        "check", "rejected", "queued", "sending"}

Src(c) == Sources(call[c].shared, call[c].local)

Init ==
  /\ files = FirstFiles
  /\ env \in Environments
  /\ limits \in Limits
  /\ status = [c \in Callers |-> "outside"]
  /\ dest = [c \in Callers |-> None]
  /\ S!Init
  /\ opened = [id \in {} |-> [project |-> ServerRoot, profile |-> None]]
  /\ captured = <<>>
  /\ call = [c \in Callers |-> Idle]
  /\ started = 0
  /\ edits = 0

-----------------------------------------------------------------------------
(* resolveToolScope: with a session and no directory the session names the *)
(* project; otherwise the files are read first and the session, if any, is *)
(* looked up after.                                                        *)
ScopeStart(req) == IF req.cwd = None /\ req.session # None THEN "session" ELSE "shared"

ScopeEnd(req) == IF req.tool = "replay" THEN "check" ELSE "scoped"

(* A plan in the payload goes before the session's. *)
FirstStep(req) ==
  IF req.tool = "replay" /\ req.plan = NoPlan THEN "extract" ELSE ScopeStart(req)

Begin(c, req) ==
  /\ call[c].pc = "idle"
  /\ started < MaxCalls
  /\ started' = started + 1
  /\ call' = [call EXCEPT ![c] = [Idle EXCEPT !.pc = FirstStep(req), !.req = req, !.plan = req.plan,
                                             !.project = Or(req.cwd, ServerRoot)]]
  /\ UNCHANGED <<worldVars, limiterVars, sessionVars>>

BeginOpen(c) ==
  /\ Cardinality(issued) < Cardinality(SessionIds)
  /\ \A d \in Callers : call[d].pc # "idle" => call[d].req.tool # "open"
  /\ \E p \in Directories \cup {None}, profile \in Profiles \cup {None} :
       Begin(c, [NoRequest EXCEPT !.cwd = p, !.in.profile = profile])

BeginInvoke(c) ==
  \E in \in InvokeInputs, id \in issued \cup {None}, p \in Directories \cup {None} :
    Begin(c, [NoRequest EXCEPT !.tool = "invoke", !.session = id, !.cwd = p, !.in = in])

(* A planId needs a session and no payload.  The dry run of a payload      *)
(* touches nothing that is shared and is left out.                         *)
BeginReplay(c) ==
  \E id \in issued \cup {None}, p \in Directories \cup {None}, n \in 0..attempts,
     plan \in Payloads \cup {NoPlan}, dryRun \in BOOLEAN :
    /\ id = None => plan # NoPlan
    /\ n # 0 \/ dryRun => plan = NoPlan
    /\ Begin(c, [NoRequest EXCEPT !.tool = "replay", !.session = id, !.cwd = p, !.planId = n,
                                  !.plan = plan, !.in.dryRun = dryRun])

Answer(c) == call' = [call EXCEPT ![c] = Idle]

-----------------------------------------------------------------------------
(* planFromSession.  The session is looked up, which counts as a use, then *)
(* the plan, by planId under a second lock.  What is missing is an error.  *)
UsePlan(c, n) ==
  IF call[c].req.in.dryRun THEN Answer(c)
  ELSE call' = [call EXCEPT ![c].pc = ScopeStart(call[c].req), ![c].plan = captured[n]]

ExtractPlan(c) ==
  LET id == call[c].req.session IN
  /\ call[c].pc = "extract"
  /\ IF id \in DOMAIN sessions
     THEN /\ S!Get(id)
          /\ IF call[c].req.planId # 0
             THEN call' = [call EXCEPT ![c].pc = "planById"]
             ELSE IF sessions[id].lastPlan = S!NoPlan THEN Answer(c)
             ELSE UsePlan(c, sessions[id].lastPlan)
     ELSE Answer(c) /\ UNCHANGED <<sessions, issued, attempts, log>>
  /\ UNCHANGED <<worldVars, limiterVars, opened, captured, started>>

HasPlan_EverIssued(id, n) == id \in DOMAIN sessions /\ n \in 1..attempts

(* PlanByID. *)
HasPlan(id, n) ==
  id \in DOMAIN sessions /\ \E i \in DOMAIN sessions[id].plans : sessions[id].plans[i] = n

ExtractPlanById_TrustsFirstLook(c) ==
  /\ call[c].pc = "planById"
  /\ UsePlan(c, call[c].req.planId)
  /\ UNCHANGED <<worldVars, limiterVars, sessionVars, started>>

ExtractPlanById(c) ==
  LET req == call[c].req IN
  /\ call[c].pc = "planById"
  /\ IF HasPlan(req.session, req.planId) THEN UsePlan(c, req.planId) ELSE Answer(c)
  /\ UNCHANGED <<worldVars, limiterVars, sessionVars, started>>

(* sessionByID.  A session of another project than the one asked for is an *)
(* error.                                                                  *)
LookupSession_AnyProject(c) ==
  LET req == call[c].req
      id  == req.session IN
  /\ call[c].pc = "session"
  /\ IF id \in DOMAIN sessions
     THEN /\ S!Get(id)
          /\ call' = [call EXCEPT
                        ![c].pc = IF req.cwd = None THEN "shared" ELSE ScopeEnd(req),
                        ![c].project = Or(req.cwd, opened[id].project),
                        ![c].profile = opened[id].profile]
     ELSE Answer(c) /\ UNCHANGED <<sessions, issued, attempts, log>>
  /\ UNCHANGED <<worldVars, limiterVars, opened, captured, started>>

LookupSession(c) ==
  LET req == call[c].req
      id  == req.session IN
  /\ call[c].pc = "session"
  /\ IF id \in DOMAIN sessions
     THEN /\ S!Get(id)
          /\ IF req.cwd \in {None, opened[id].project}
             THEN call' = [call EXCEPT
                             ![c].pc = IF req.cwd = None THEN "shared" ELSE ScopeEnd(req),
                             ![c].project = opened[id].project,
                             ![c].profile = opened[id].profile]
             ELSE Answer(c)
     ELSE Answer(c) /\ UNCHANGED <<sessions, issued, attempts, log>>
  /\ UNCHANGED <<worldVars, limiterVars, opened, captured, started>>

(* ProjectSources. *)
ReadShared(c) ==
  /\ call[c].pc = "shared"
  /\ call' = [call EXCEPT ![c].pc = "local", ![c].shared = files[call[c].project].shared]
  /\ UNCHANGED <<worldVars, limiterVars, sessionVars, started>>

ReadLocal(c) ==
  LET req == call[c].req IN
  /\ call[c].pc = "local"
  /\ call' = [call EXCEPT
                ![c].pc = IF req.cwd # None /\ req.session # None THEN "session" ELSE ScopeEnd(req),
                ![c].local = files[call[c].project].local]
  /\ UNCHANGED <<worldVars, limiterVars, sessionVars, started>>

-----------------------------------------------------------------------------
(* A session is pinned to the profile that was resolved, which may be the  *)
(* default of that moment.  An undefined profile opens no session.         *)
OpenSession(c) ==
  LET report == Resolve(EmptyLayer, call[c].req.in.profile, Src(c)) IN
  /\ call[c].pc = "scoped"
  /\ call[c].req.tool = "open"
  /\ Answer(c)
  /\ IF report.undefined THEN UNCHANGED sessionVars
     ELSE \E id \in SessionIds :
            /\ S!Create(id)
            /\ opened' = [s \in issued \cup {id} |->
                            IF s = id THEN [project |-> call[c].project, profile |-> report.profile]
                            ELSE opened[s]]
            /\ UNCHANGED captured
  /\ UNCHANGED <<worldVars, limiterVars, started>>

EffectiveProfile_SessionFirst(c) == Or(call[c].profile, call[c].req.in.profile)

EffectiveProfile(c) == Or(call[c].req.in.profile, call[c].profile)

(* The contract mode, the attached contract store and the outcome of       *)
(* resolving the method in it decide between the two kinds of plan and an  *)
(* error.  Only auto mode falls back to the caller's own tuple.            *)
PlanSource_AlwaysFallsBack(in, store, outcome) ==
  IF store /\ in.mode # "trusted" /\ outcome = "resolved" THEN "facade-store"
  ELSE IF in.complete THEN "trusted"
  ELSE "none"

PlanSource(in, store, outcome) ==
  IF store /\ in.mode # "trusted"
  THEN IF outcome = "resolved" THEN "facade-store"
       ELSE IF outcome = "unresolvable" /\ in.mode = "auto" /\ in.complete THEN "trusted"
       ELSE "none"
  ELSE IF in.mode # "strict" /\ in.complete THEN "trusted" ELSE "none"

(* capturePlanForSession: nothing when there is no session any more; a     *)
(* plan above the byte limit is counted but not kept.                      *)
Capture(c, plan) ==
  LET id == call[c].req.session IN
  IF id \in DOMAIN sessions
  THEN /\ S!CapturePlan(id) \/ S!CaptureTooLarge(id)
       /\ captured' = Append(captured, plan)
       /\ UNCHANGED opened
  ELSE UNCHANGED sessionVars

BuildPlan(c) ==
  LET in     == call[c].req.in
      input  == [url |-> in.url, protocol |-> None]
      report == Resolve(input, EffectiveProfile(c), Src(c))
  IN
  /\ call[c].pc = "scoped"
  /\ call[c].req.tool = "invoke"
  /\ \E store \in BOOLEAN, outcome \in {"resolved", "unresolvable", "error"} :
       LET source == PlanSource(in, store, outcome)
           plan   == [service |-> in.service, url |-> report.url, protocol |-> report.protocol,
                      props |-> MergeProps(in.props, EffectiveProfile(c), Src(c)),
                      profile |-> report.profile, source |-> source]
       IN  IF report.undefined \/ report.url = None \/ source = "none"
           THEN Answer(c) /\ UNCHANGED sessionVars
           ELSE /\ Capture(c, plan)
                /\ IF in.dryRun THEN Answer(c)
                   ELSE call' = [call EXCEPT ![c].pc = "check", ![c].plan = plan]
  /\ UNCHANGED <<worldVars, limiterVars, started>>

-----------------------------------------------------------------------------
(* invokeLimitTargetKey: two spellings of an address are one target. *)
TargetKey_AsSpelled(plan) == plan.url

TargetKey(plan) ==
  IF plan.url = None THEN None
  ELSE IF Dial[plan.url] = None THEN plan.url ELSE Dial[plan.url]

(* executePlanWithPolicy.  The policy sees the files that the call read,   *)
(* then the call asks the limiter for a place.                             *)
CheckPolicy(c) ==
  LET plan == call[c].plan IN
  /\ call[c].pc = "check"
  /\ IF Validate(env.guard, Src(c), plan)
     THEN /\ B!Ask(c, TargetKey(plan))
          /\ call' = [call EXCEPT ![c].pc = "queued"]
     ELSE /\ call' = [call EXCEPT ![c].pc = "rejected"]
          /\ UNCHANGED limiterVars
  /\ UNCHANGED <<worldVars, sessionVars, started>>

AnswerRejected(c) ==
  /\ call[c].pc = "rejected"
  /\ Answer(c)
  /\ UNCHANGED <<worldVars, limiterVars, sessionVars, started>>

Admitted(c) ==
  /\ call[c].pc = "queued"
  /\ B!Admit(c)
  /\ UNCHANGED <<worldVars, sessionVars, call, started>>

TurnedAway(c) ==
  /\ call[c].pc = "queued"
  /\ B!TurnAway(c)
  /\ Answer(c)
  /\ UNCHANGED <<worldVars, sessionVars, started>>

(* ValidateExecutablePlan and what ExecuteDirectIfPossible does before it  *)
(* dials: references to the environment are resolved here.                 *)
Executable(plan) ==
  /\ plan.url # None
  /\ plan.protocol \in {None, "bolt"}
  /\ \A k \in DOMAIN plan.props : plan.props[k] = EnvRef => k \in env.set
  /\ Dial[plan.url] # None

Execute_LeaksSlot(c) ==
  /\ call[c].pc = "queued"
  /\ status[c] = "inside"
  /\ IF Executable(call[c].plan)
     THEN call' = [call EXCEPT ![c].pc = "sending"]
     ELSE Answer(c)
  /\ UNCHANGED <<worldVars, limiterVars, sessionVars, started>>

Execute(c) ==
  /\ call[c].pc = "queued"
  /\ status[c] = "inside"
  /\ IF Executable(call[c].plan)
     THEN call' = [call EXCEPT ![c].pc = "sending"] /\ UNCHANGED limiterVars
     ELSE Answer(c) /\ B!Leave(c)
  /\ UNCHANGED <<worldVars, sessionVars, started>>

(* The exchange with the service ends, with a result or an error. *)
Finish(c) ==
  /\ call[c].pc = "sending"
  /\ Answer(c)
  /\ B!Leave(c)
  /\ UNCHANGED <<worldVars, sessionVars, started>>

(* A config file is rewritten by setup, sofarpc_init_project or by hand. *)
EditFile(p) ==
  /\ edits < MaxEdits
  /\ edits' = edits + 1
  /\ \/ \E f \in SharedFiles \ {files[p].shared} : files' = [files EXCEPT ![p].shared = f]
     \/ \E f \in LocalFiles \ {files[p].local} : files' = [files EXCEPT ![p].local = f]
  /\ UNCHANGED <<env, limiterVars, sessionVars, call, started>>

Next ==
  \/ \E c \in Callers :
       \/ BeginOpen(c) \/ BeginInvoke(c) \/ BeginReplay(c)
       \/ ExtractPlan(c) \/ ExtractPlanById(c)
       \/ LookupSession(c) \/ ReadShared(c) \/ ReadLocal(c)
       \/ OpenSession(c) \/ BuildPlan(c)
       \/ CheckPolicy(c) \/ AnswerRejected(c)
       \/ Admitted(c) \/ TurnedAway(c) \/ Execute(c) \/ Finish(c)
  \/ \E p \in Edited : EditFile(p)

Spec == Init /\ [][Next]_vars

-----------------------------------------------------------------------------
TypeOK ==
  /\ files \in [Projects -> [shared : SharedFiles, local : LocalFiles]]
  /\ status \in [Callers -> {"outside", "asking", "inside"}]
  /\ dest \in [Callers -> LimitKeys]
  /\ issued \subseteq SessionIds
  /\ opened \in [issued -> [project : Projects, profile : Profiles \cup {None}]]
  /\ captured \in Seq(Plan)
  /\ Len(captured) = attempts
  /\ \A c \in Callers :
       /\ call[c].pc \in PCs
       /\ call[c].req \in Request
       /\ call[c].project \in Projects
       /\ call[c].profile \in Profiles \cup {None}
       /\ call[c].plan \in Plan
  /\ \A c \in Callers : (status[c] = "outside") = (call[c].pc \notin {"queued", "sending"})

(* Whatever way a plan came about (planned now, captured under another     *)
(* config or profile, or sent in by the client), a request leaves for the  *)
(* network only if both files the call read are sound, the allowlist in    *)
(* force in them names the service, and, without the override, its address *)
(* is the one those files resolve to when nothing is selected.             *)
SentWithinPolicy ==
  \A c \in Callers : call[c].pc = "sending" =>
    LET plan  == call[c].plan
        local == call[c].local
        list  == IF local.status = "ok" /\ local.allow.listed THEN local.allow ELSE call[c].shared.allow
    IN  /\ env.guard.allowInvoke
        /\ "broken" \notin {call[c].shared.status, local.status}
        /\ list.listed
        /\ {plan.service, Wildcard} \cap list.services # {}
        /\ env.guard.allowOverride \/ Dial[plan.url] = Dial[Ambient(Src(c)).url]
        /\ env.guard.hosts # {} => Dial[plan.url] \in env.guard.hosts

(* However the plans came about and however their addresses are written,   *)
(* no more requests are under way than the limiter allows, over all and to *)
(* the address that they go to: what a call counts for is where it goes,   *)
(* and it counts until its answer.                                         *)
WireWithinLimits ==
  LET sending == {c \in Callers : call[c].pc = "sending"}
  IN /\ limits.global > 0 => Cardinality(sending) <= limits.global
     /\ limits.perTarget > 0 =>
          \A a \in Addrs :
            Cardinality({c \in sending : Dial[call[c].plan.url] = a}) <= limits.perTarget

(* A call that names a session works with the config of the session's      *)
(* project, so one project's allowlist never lets another's call through.  *)
SafetyContextIsTheSessions ==
  \A c \in Callers :
    call[c].pc \in {"check", "queued", "sending"} /\ call[c].req.session # None =>
      call[c].project = opened[call[c].req.session].project

(* A call is in one place: it works for the project of its session, and it *)
(* has a place in the limiter's queue or a slot exactly while it waits or  *)
(* sends, whichever of its steps fails.                                    *)
CallsKeepTheirPlace == TypeOK /\ SafetyContextIsTheSessions

(* The profile that was chosen, by the call, else by the session when it   *)
(* was opened, else by the config, is the one a plan is built under: it is *)
(* defined in the files the call read, and unless the caller gave a url    *)
(* the plan goes where the profile points if it points anywhere.  A plan   *)
(* that bypasses the contract was asked for or allowed by the mode.        *)
PlanHonoursSelection ==
  \A c \in Callers : call[c].req.tool = "invoke" /\ call[c].pc \in {"check", "queued", "sending"} =>
    LET req    == call[c].req
        plan   == call[c].plan
        pinned == IF req.session = None THEN None ELSE opened[req.session].profile
        p      == ActiveProfile(Or(req.in.profile, pinned), Src(c))
        own    == {f.profiles[p].target.url : f \in {g \in {Src(c).shared, Src(c).local} : p \in DOMAIN g.profiles}} \ {None}
    IN  /\ plan.profile = p
        /\ p # None => p \in DOMAIN Src(c).shared.profiles \cup DOMAIN Src(c).local.profiles
        /\ req.in.url # None => plan.url = req.in.url
        /\ p # None /\ req.in.url = None /\ own # {} => plan.url \in own
        /\ plan.source = "trusted" => req.in.mode # "strict" /\ req.in.complete

(* What a replay by session works with is, when it takes it, a plan that   *)
(* its session has not forgotten: the named one if fewer than History      *)
(* plans were kept after it, else the last capture of a session that is    *)
(* still there.  Captures, evictions and other sessions come in between    *)
(* its look-ups.  From then on neither later captures nor the config       *)
(* change its target and properties.                                       *)
TakesARemembered(c) ==
  LET req  == call[c].req
      kept == S!Elements(log[req.session]) \ {S!NoPlan}
  IN  /\ req.session \in DOMAIN sessions
      /\ \E n \in kept :
           /\ call'[c].plan = captured[n]
           /\ req.planId = 0 => n = S!LastOf(log[req.session])
           /\ req.planId # 0 => n = req.planId /\ Cardinality({m \in kept : m > n}) < History

ReplayIsACapture ==
  [][\A c \in Callers :
       call[c].req.tool = "replay" /\ call[c].req.plan = NoPlan /\ call'[c].plan # NoPlan =>
         IF call[c].plan = NoPlan THEN TakesARemembered(c) ELSE call'[c].plan = call[c].plan]_vars

(* ADR 0003: users can hold several environments at once "and switch per   *)
(* call, per session, or via defaultProfile without overwriting any        *)
(* config"; the override is for a per-call directUrl and for literal       *)
(* payloads (README, "Per-call directUrl overrides and literal replay      *)
(* payload targets").  So a call that selects a defined profile and passes *)
(* everything else is not rejected for its target.                         *)
SelectingAProfileIsEnough ==
  \A c \in Callers : call[c].pc = "rejected" /\ call[c].req.tool = "invoke" =>
    \/ call[c].req.in.url # None
    \/ Src(c).errors
    \/ ~env.guard.allowInvoke
    \/ ~ServiceAllowed(Src(c), call[c].plan.service)
    \/ ~HostAllowed(env.guard, call[c].plan.url)
    \/ Dial[call[c].plan.url] = None
=============================================================================
