-------------------------- MODULE TargetResolution --------------------------
(***************************************************************************)
(* How the two config files of a project, a named profile and the caller's *)
(* own input give one target (internal/core/target/target.go) and one set  *)
(* of invocation properties (internal/core/invocationprops/properties.go). *)
(*                                                                         *)
(* A layer is a record of optional fields.  directUrl and protocol stand   *)
(* for the seven fields of target.Config: each other one is resolved by    *)
(* the same rule as protocol.  The mcp-env layer is left out, envConfig of *)
(* cmd/sofarpc-mcp/main.go always hands over an empty one.                 *)
(***************************************************************************)
EXTENDS Naturals, Sequences

CONSTANTS
  Urls,       \* directUrl values
  Profiles,   \* target profile names
  Services,   \* service names, the wildcard "*" not among them
  Wildcard,   \* "*"
  Keys,       \* invocation property names
  Decls,      \* declarations of a literal value
  EnvRef,     \* a declaration that names an environment variable
  Unset,      \* a declaration that masks the lower layers
  None        \* a field that is not set

Protocols == {"bolt", "rest"}

Layer == [url : Urls \cup {None}, protocol : Protocols \cup {None}]

EmptyLayer == [url |-> None, protocol |-> None]

DefaultConfig == [url |-> None, protocol |-> "bolt"]

Declarations == UNION {[K -> Decls \cup {EnvRef, Unset}] : K \in SUBSET Keys}

NoDecls == [k \in {} |-> Unset]

Section == [target : Layer, props : Declarations]

EmptySection == [target |-> EmptyLayer, props |-> NoDecls]

(* A config file.  A broken one exists but cannot be read or parsed.  An   *)
(* allowlist that is present may be empty.                                 *)
ConfigFile ==
  [status : {"absent", "broken", "ok"},
   base : Section,
   profiles : UNION {[P -> Section] : P \in SUBSET Profiles},
   default : Profiles \cup {None},
   allow : [listed : BOOLEAN, services : SUBSET (Services \cup {Wildcard})]]

AbsentFile ==
  [status |-> "absent", base |-> EmptySection, profiles |-> [p \in {} |-> EmptySection],
   default |-> None, allow |-> [listed |-> FALSE, services |-> {}]]

(* applyProjectConfig: a file that is absent or broken contributes nothing *)
(* and a broken one is remembered in ConfigErrors.                         *)
Loaded(f) == IF f.status = "ok" THEN f ELSE AbsentFile

Sources(shared, local) ==
  [shared |-> Loaded(shared), local |-> Loaded(local),
   errors |-> "broken" \in {shared.status, local.status}]

-----------------------------------------------------------------------------
Or(a, b) == IF a # None THEN a ELSE b

(* Resolve falls back to defaultProfile, the local declaration first. *)
ActiveProfile(p, src) == Or(p, Or(src.local.default, src.shared.default))

ProfileDefined(src, p) == p \in DOMAIN src.shared.profiles \cup DOMAIN src.local.profiles

ProfileSection(file, p) ==
  IF p \in DOMAIN file.profiles THEN file.profiles[p] ELSE EmptySection

(* The sections between the caller's input and the defaults, highest       *)
(* priority first; the order of buildLayerStack and of                     *)
(* InvocationPropertySources.                                              *)
SectionStack_BaseFirst(src, p) ==
  <<src.local.base, src.shared.base>> \o
  (IF p = None THEN <<>>
   ELSE <<ProfileSection(src.local, p), ProfileSection(src.shared, p)>>)

SectionStack(src, p) ==
  (IF p = None THEN <<>>
   ELSE <<ProfileSection(src.local, p), ProfileSection(src.shared, p)>>) \o
  <<src.local.base, src.shared.base>>

LayerStack(input, src, p) ==
  LET sections == SectionStack(src, p)
  IN  <<input>> \o [i \in DOMAIN sections |-> sections[i].target] \o <<DefaultConfig>>

(* resolveEndpoint and resolveField: the first layer that sets the field. *)
FirstSet(layers, field) ==
  LET setting == {i \in DOMAIN layers : layers[i][field] # None}
  IN  IF setting = {} THEN None
      ELSE layers[CHOOSE i \in setting : \A j \in setting : i <= j][field]

(* A profile that no file defines is an error, and nothing is resolved. *)
Resolve_FallsThrough(input, profile, src) ==
  LET p == ActiveProfile(profile, src)
      layers == LayerStack(input, src, IF ProfileDefined(src, p) THEN p ELSE None)
  IN  [profile |-> p, undefined |-> FALSE,
       url |-> FirstSet(layers, "url"), protocol |-> FirstSet(layers, "protocol")]

Resolve(input, profile, src) ==
  LET p == ActiveProfile(profile, src)
      layers == LayerStack(input, src, p)
      undefined == p # None /\ ~ProfileDefined(src, p)
  IN  [profile |-> p,
       undefined |-> undefined,
       url |-> IF undefined THEN None ELSE FirstSet(layers, "url"),
       protocol |-> IF undefined THEN None ELSE FirstSet(layers, "protocol")]

(* invocationprops.Merge: the first layer that declares a key decides, and *)
(* a key it unsets is left out.  References to the environment stay        *)
(* references.                                                             *)
MergeProps(declared, profile, src) ==
  LET sections == SectionStack(src, ActiveProfile(profile, src))
      stack    == <<declared>> \o [i \in DOMAIN sections |-> sections[i].props]
      layersOf(k) == {i \in DOMAIN stack : k \in DOMAIN stack[i]}
      first(k) == stack[CHOOSE i \in layersOf(k) : \A j \in layersOf(k) : i <= j][k]
  IN  [k \in {j \in Keys : layersOf(j) # {} /\ first(j) # Unset} |-> first(k)]

(* ServiceAllowlistForSources: an allowlist in the local file replaces the *)
(* shared one, also when it is empty.                                      *)
ServiceAllowlist_SkipsEmpty(src) ==
  IF src.local.allow.services # {} THEN src.local.allow ELSE src.shared.allow

ServiceAllowlist(src) ==
  IF src.local.allow.listed THEN src.local.allow ELSE src.shared.allow
=============================================================================
