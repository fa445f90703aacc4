--------------------------- MODULE ExecutionPolicy ---------------------------
(***************************************************************************)
(* The guard every real call passes (internal/core/invoke/policy.go): a    *)
(* pure function of the guardrail environment of the process, the config   *)
(* files that were read for the call, and the plan.                        *)
(***************************************************************************)
EXTENDS TargetResolution

CONSTANTS
  Addrs,   \* dial addresses, host:port in lower case
  Dial     \* ParseDirectDialAddress: the address of a url, None: a parse error

ASSUME DialAssumption == Dial \in [Urls -> Addrs \cup {None}]

(* The SOFARPC_* guardrails; no hosts means every host is allowed. *)
Guardrails == [allowInvoke : BOOLEAN, allowOverride : BOOLEAN, hosts : SUBSET Addrs]

ServiceAllowed(src, service) ==
  LET list == ServiceAllowlist(src)
  IN  list.listed /\ {service, Wildcard} \cap list.services # {}

(* ValidateTarget resolves the ambient target with an empty input. *)
Ambient(src) == Resolve(EmptyLayer, None, src)

SameDirectTarget(u, v) ==
  u # None /\ v # None /\ Dial[u] # None /\ Dial[u] = Dial[v]

HostAllowed(g, url) == g.hosts = {} \/ Dial[url] \in g.hosts

(* A plan without a url passes here and is refused as not executable. *)
TargetAllowed_AnyConfigured(g, src, url) ==
  url # None =>
    /\ g.allowOverride \/ Ambient(src).url # None
    /\ HostAllowed(g, url)

TargetAllowed(g, src, url) ==
  url # None =>
    /\ g.allowOverride \/ SameDirectTarget(url, Ambient(src).url)
    /\ HostAllowed(g, url)

Validate(g, src, plan) ==
  /\ ~src.errors
  /\ g.allowInvoke
  /\ ServiceAllowed(src, plan.service)
  /\ TargetAllowed(g, src, plan.url)
=============================================================================
