----------------------------- MODULE MCToolCalls -----------------------------
(* Two concurrent calls on two projects.  u1 and u1b are two spellings of  *)
(* the address a1, u2 is at a2.  One shared file defines the profiles test *)
(* (at a2) and prod (at a1 too), the other only test, which it makes the   *)
(* default; a local file is absent, broken, or forbids every service.  An  *)
(* address may be sent one request at a time.                              *)
EXTENDS ToolCalls, TLC

CONSTANTS u1, u1b, u2, a1, a2, test, prod, svc, key, lit, projectA, projectB

MCUrls == {u1, u1b, u2}
MCDial == (u1 :> a1) @@ (u1b :> a1) @@ (u2 :> a2)

Sec(url, props) == [target |-> [url |-> url, protocol |-> None], props |-> props]

SharedFile(default, profiles) ==
  [status |-> "ok", base |-> Sec(u1, key :> EnvRef), profiles |-> profiles,
   default |-> default, allow |-> [listed |-> TRUE, services |-> {svc}]]

TestProfile == test :> Sec(u2, key :> Unset)

TwoProfiles == SharedFile(None, TestProfile @@ (prod :> Sec(u1b, key :> lit)))

TestOnly == SharedFile(test, TestProfile)

MCSharedFiles == {TwoProfiles, TestOnly}

Blocking ==
  [status |-> "ok", base |-> Sec(u1b, NoDecls), profiles |-> [p \in {} |-> EmptySection],
   default |-> None, allow |-> [listed |-> TRUE, services |-> {}]]

Broken == [AbsentFile EXCEPT !.status = "broken"]

MCLocalFiles == {AbsentFile, Broken, Blocking}

MCFirstFiles ==
  (projectA :> [shared |-> TwoProfiles, local |-> AbsentFile]) @@
  (projectB :> [shared |-> TestOnly, local |-> AbsentFile])

Guard(override, hosts) == [allowInvoke |-> TRUE, allowOverride |-> override, hosts |-> hosts]

(* In the last one replays are looked at. *)
ReplayWorld == [guard |-> Guard(TRUE, {}), set |-> {key}]

MCEnvironments ==
  {[guard |-> Guard(FALSE, {}), set |-> {key}],
   [guard |-> Guard(TRUE, {a2}), set |-> {}],
   ReplayWorld}

Ask(profile, url, mode, dry) ==
  [service |-> svc, profile |-> profile, url |-> url, props |-> NoDecls, mode |-> mode, complete |-> TRUE,
   dryRun |-> dry]

MCInvokeInputs ==
  {Ask(None, None, "strict", FALSE), Ask(prod, u1b, "auto", FALSE), Ask(None, None, "auto", TRUE)}

MCLimits == {[global |-> 0, perTarget |-> 1]}

Symmetry == Permutations(Callers) \cup Permutations(SessionIds)

MCPayloads ==
  {[service |-> svc, url |-> u2, protocol |-> "bolt", props |-> key :> EnvRef,
    profile |-> None, source |-> "trusted"]}

(* Five calls and three sessions where no files are edited and sessions    *)
(* alone name the project, four while an invoke is sent; three calls and   *)
(* two sessions where files are edited and requests name projects.         *)
MCBounds ==
  IF env = ReplayWorld
  THEN /\ edits' = 0
       /\ \A c \in Callers :
            LET req == call'[c].req
            IN  /\ req.cwd = None /\ req.plan = NoPlan
                /\ req.in.url = None /\ req.in.profile # test
                /\ req.tool = "invoke" => req.in.dryRun \/ started' <= 4
  ELSE started' <= 3 /\ Cardinality(issued') <= 2
=============================================================================
