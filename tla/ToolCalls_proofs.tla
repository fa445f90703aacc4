--------------------------- MODULE ToolCalls_proofs ---------------------------
(* What holds of every mix of tool calls, whatever the config files of the  *)
(* projects say and however they are rewritten meanwhile, for every number  *)
(* of callers, sessions, profiles and projects.                             *)
EXTENDS ToolCalls, SequenceTheorems, FiniteSetTheorems, WellFoundedInduction, TLAPS

(* The first layer that sets a field exists if any does. *)
LEMMA LeastElement ==
  ASSUME NEW T \in SUBSET Nat, T # {}
  PROVE  \E i \in T : \A j \in T : i <= j
  <1> DEFINE upTo == {1 .. i : i \in T}
  <1>1. upTo # {}
    OBVIOUS
  <1>2. \A i \in T : IsFiniteSet(1 .. i)
    BY FS_Interval
  <1>3. upTo \subseteq FiniteSubsetsOf(Nat)
    BY <1>2 DEF FiniteSubsetsOf
  <1>4. PICK s \in upTo : \A t \in upTo : ~ (<<t, s>> \in StrictSubsetOrdering(Nat))
    <2> HIDE DEF upTo
    <2>1. QED
      BY <1>1, <1>3, FS_StrictSubsetOrderingWellFounded, WFMin
  <1>5. PICK i \in T : s = 1 .. i
    OBVIOUS
  <1>6. ASSUME NEW j \in T, j < i PROVE FALSE
    <2>1. 1 .. j \subseteq 1 .. i
      BY <1>6
    <2>2. i \in 1 .. i /\ i \notin 1 .. j
      BY <1>6
    <2>3. <<1 .. j, s>> \in StrictSubsetOrdering(Nat)
      BY <1>5, <2>1, <2>2 DEF StrictSubsetOrdering
    <2>4. QED
      BY <1>4, <2>3
  <1>7. QED
    BY <1>6

LEMMA FirstOf ==
  ASSUME NEW T \in SUBSET Nat, T # {},
         NEW m, m = CHOOSE i \in T : \A j \in T : i <= j
  PROVE  m \in T /\ \A j \in T : m <= j
  BY LeastElement

-----------------------------------------------------------------------------
(* Config files, and what they make of a target. *)

(* A file that is absent or broken counts as one that says nothing. *)
LEMMA FilesAreFiles ==
  /\ EmptyLayer \in Layer /\ DefaultConfig \in Layer
  /\ EmptySection \in Section
  /\ AbsentFile \in ConfigFile
  /\ \A f \in ConfigFile : Loaded(f) \in ConfigFile
  <1>1. EmptyLayer \in Layer /\ DefaultConfig \in Layer
    BY DEF EmptyLayer, DefaultConfig, Layer, Protocols
  <1>2. NoDecls \in Declarations
    <2>1. NoDecls \in [{} -> Decls \cup {EnvRef, Unset}]
      BY DEF NoDecls
    <2>2. QED
      BY <2>1 DEF Declarations
  <1>3. EmptySection \in Section
    BY <1>1, <1>2 DEF EmptySection, Section
  <1>4. [p \in {} |-> EmptySection] \in UNION {[P -> Section] : P \in SUBSET Profiles}
    <2>1. [p \in {} |-> EmptySection] \in [{} -> Section]
      OBVIOUS
    <2>2. QED
      BY <2>1
  <1>5. AbsentFile \in ConfigFile
    BY <1>3, <1>4 DEF AbsentFile, ConfigFile
  <1>6. QED
    BY <1>1, <1>3, <1>5 DEF Loaded

(* The two files that a call has read, as resolution sees them. *)
SourcesOk(src) == src.shared \in ConfigFile /\ src.local \in ConfigFile

LEMMA SourcesAreOk ==
  \A shared, local \in ConfigFile : SourcesOk(Sources(shared, local))
  BY FilesAreFiles DEF SourcesOk, Sources

LEMMA ProfileSectionOk ==
  ASSUME NEW f \in ConfigFile, NEW p
  PROVE  ProfileSection(f, p) \in Section
  <1>1. PICK P \in SUBSET Profiles : f.profiles \in [P -> Section]
    BY DEF ConfigFile
  <1>2. QED
    BY <1>1, FilesAreFiles DEF ProfileSection

LEMMA ActiveProfileOk ==
  ASSUME NEW src, SourcesOk(src), NEW p \in Profiles \cup {None}
  PROVE  ActiveProfile(p, src) \in Profiles \cup {None}
  BY DEF SourcesOk, ActiveProfile, Or, ConfigFile

(* The sections of the profile, if there is one, come before the base       *)
(* sections, those of the local file before those of the shared one.        *)
LEMMA SectionsInOrder ==
  ASSUME NEW src, SourcesOk(src), NEW p
  PROVE  LET st == SectionStack(src, p)
             n  == IF p = None THEN 2 ELSE 4
         IN  /\ st \in Seq(Section)
             /\ DOMAIN st = 1 .. n
             /\ p # None => st[1] = ProfileSection(src.local, p) /\ st[2] = ProfileSection(src.shared, p)
  <1> DEFINE top == IF p = None THEN <<>>
                    ELSE <<ProfileSection(src.local, p), ProfileSection(src.shared, p)>>
             base == <<src.local.base, src.shared.base>>
             k == IF p = None THEN 0 ELSE 2
  <1>1. src.local.base \in Section /\ src.shared.base \in Section
    BY DEF SourcesOk, ConfigFile
  <1>2. base \in Seq(Section) /\ Len(base) = 2
    BY <1>1
  <1>3. ProfileSection(src.local, p) \in Section /\ ProfileSection(src.shared, p) \in Section
    BY ProfileSectionOk DEF SourcesOk
  <1>4. /\ top \in Seq(Section) /\ Len(top) = k
        /\ p # None => top[1] = ProfileSection(src.local, p) /\ top[2] = ProfileSection(src.shared, p)
    BY <1>3
  <1>5. SectionStack(src, p) = top \o base
    BY DEF SectionStack
  <1> HIDE DEF top, base
  <1>6. /\ top \o base \in Seq(Section) /\ Len(top \o base) = k + 2
        /\ \A i \in 1 .. k + 2 : (top \o base)[i] = IF i <= k THEN top[i] ELSE base[i - k]
    <2>1. /\ top \o base \in Seq(Section) /\ Len(top \o base) = Len(top) + Len(base)
          /\ \A i \in 1 .. Len(top) + Len(base) :
               (top \o base)[i] = IF i <= Len(top) THEN top[i] ELSE base[i - Len(top)]
      <3> HIDE DEF k
      <3>1. top \in Seq(Section) /\ base \in Seq(Section)
        BY <1>2, <1>4
      <3>2. QED
        BY <3>1, ConcatProperties
    <2>2. Len(top) = k /\ Len(base) = 2
      BY <1>2, <1>4
    <2> HIDE DEF k
    <2>3. QED
      BY <2>1, <2>2
  <1>7. QED
    BY <1>4, <1>5, <1>6

(* The layers of a target: what the caller gave, the sections, and the      *)
(* defaults.                                                                *)
LEMMA LayersInOrder ==
  ASSUME NEW src, SourcesOk(src), NEW p, NEW input \in Layer
  PROVE  LET st == LayerStack(input, src, p)
             n  == IF p = None THEN 4 ELSE 6
         IN  /\ st \in Seq(Layer)
             /\ DOMAIN st = 1 .. n
             /\ st[1] = input
             /\ p # None => /\ st[2] = ProfileSection(src.local, p).target
                            /\ st[3] = ProfileSection(src.shared, p).target
  <1> DEFINE sections == SectionStack(src, p)
             k == IF p = None THEN 2 ELSE 4
             mid == [i \in DOMAIN sections |-> sections[i].target]
  <1>1. /\ sections \in Seq(Section) /\ DOMAIN sections = 1 .. k
        /\ p # None => /\ sections[1] = ProfileSection(src.local, p)
                       /\ sections[2] = ProfileSection(src.shared, p)
    BY SectionsInOrder
  <1>2. \A i \in 1 .. k : sections[i] \in Section
    BY <1>1, ElementOfSeq
  <1> HIDE DEF sections
  <1>3. mid \in Seq(Layer) /\ Len(mid) = k /\ \A i \in 1 .. k : mid[i] = sections[i].target
    <2>1. mid \in [1 .. k -> Layer]
      BY <1>1, <1>2 DEF Section
    <2>2. k \in Nat
      OBVIOUS
    <2>3. QED
      BY <1>1, <2>1, <2>2
  <1>4. <<input>> \in Seq(Layer) /\ Len(<<input>>) = 1 /\ <<input>>[1] = input
    OBVIOUS
  <1>5. LayerStack(input, src, p) = (<<input>> \o mid) \o <<DefaultConfig>>
    BY DEF LayerStack, sections
  <1> HIDE DEF mid
  <1> DEFINE one == <<input>>
             upper == one \o mid
  <1>6. /\ upper \in Seq(Layer) /\ Len(upper) = 1 + k
        /\ \A i \in 1 .. 1 + k : upper[i] = IF i <= 1 THEN input ELSE mid[i - 1]
    <2>1. one \in Seq(Layer) /\ Len(one) = 1 /\ one[1] = input
      BY <1>4
    <2> HIDE DEF one
    <2>2. /\ upper \in Seq(Layer) /\ Len(upper) = Len(one) + Len(mid)
          /\ \A i \in 1 .. Len(one) + Len(mid) :
               upper[i] = IF i <= Len(one) THEN one[i] ELSE mid[i - Len(one)]
      <3> HIDE DEF k
      <3>1. mid \in Seq(Layer)
        BY <1>3
      <3>2. QED
        BY <2>1, <3>1, ConcatProperties
    <2>3. Len(mid) = k
      BY <1>3
    <2> HIDE DEF upper, k
    <2>4. \A i \in 1 .. 1 + k : i <= 1 => i = 1
      OBVIOUS
    <2>5. QED
      BY <2>1, <2>2, <2>3, <2>4
  <1> HIDE DEF upper
  <1> DEFINE all == upper \o <<DefaultConfig>>
  <1>7. all \in Seq(Layer) /\ Len(all) = k + 2 /\ \A i \in 1 .. 1 + k : all[i] = upper[i]
    <2>1. upper \in Seq(Layer) /\ DefaultConfig \in Layer
      BY <1>6, FilesAreFiles
    <2>2. all = Append(upper, DefaultConfig)
      BY <2>1, AppendIsConcat
    <2> HIDE DEF all, k
    <2>3. /\ all \in Seq(Layer) /\ Len(all) = Len(upper) + 1
          /\ \A i \in 1 .. Len(upper) : all[i] = upper[i]
      BY <2>1, <2>2, AppendProperties
    <2>4. Len(upper) = 1 + k /\ 1 + k + 1 = k + 2
      <3>1. k \in Nat
        BY DEF k
      <3>2. QED
        BY <1>6, <3>1
    <2>5. QED
      BY <2>3, <2>4
  <1>8. LayerStack(input, src, p) = all
    BY <1>5 DEF upper, one
  <1> HIDE DEF all
  <1>9. k \in Nat /\ DOMAIN all = 1 .. k + 2
    <2>1. k \in Nat
      OBVIOUS
    <2> HIDE DEF k
    <2>2. QED
      BY <1>7, <2>1, LenProperties
  <1>10. all[1] = input
    BY <1>6, <1>7, <1>9
  <1>11. p # None => all[2] = mid[1] /\ all[3] = mid[2]
    BY <1>6, <1>7
  <1>12. QED
    BY <1>1, <1>3, <1>7, <1>8, <1>9, <1>10, <1>11

(* A field is what the first layer that sets it says. *)
LEMMA FirstSetIs ==
  ASSUME NEW layers \in Seq(Layer), NEW field \in {"url", "protocol"}
  PROVE  LET v == FirstSet(layers, field)
         IN  IF \A i \in DOMAIN layers : layers[i][field] = None THEN v = None
             ELSE \E i \in DOMAIN layers :
                    /\ v = layers[i][field] /\ v # None
                    /\ \A j \in DOMAIN layers : j < i => layers[j][field] = None
  <1> DEFINE setting == {i \in DOMAIN layers : layers[i][field] # None}
             m == CHOOSE i \in setting : \A j \in setting : i <= j
  <1>1. DOMAIN layers \subseteq Nat
    OBVIOUS
  <1>2. CASE setting = {}
    BY <1>2 DEF FirstSet
  <1>3. CASE setting # {}
    <2>1. m \in setting /\ \A j \in setting : m <= j
      <3>1. setting \in SUBSET Nat
        BY <1>1
      <3> HIDE DEF setting
      <3>2. QED
        BY <1>3, <3>1, FirstOf
    <2>2. FirstSet(layers, field) = layers[m][field]
      BY <1>3 DEF FirstSet
    <2> HIDE DEF m
    <2>3. m \in DOMAIN layers /\ layers[m][field] # None
      BY <2>1
    <2>4. ASSUME NEW j \in DOMAIN layers, j < m PROVE layers[j][field] = None
      BY <1>1, <2>1, <2>4
    <2>5. QED
      BY <2>2, <2>3, <2>4
  <1>4. QED
    BY <1>2, <1>3

(* The urls that the files give a profile. *)
OwnUrls(src, p) ==
  {f.profiles[p].target.url : f \in {g \in {src.shared, src.local} : p \in DOMAIN g.profiles}} \ {None}

LEMMA OwnUrlsAre ==
  ASSUME NEW src, NEW p
  PROVE  \A u : u \in OwnUrls(src, p) <=>
           /\ u # None
           /\ \/ u = ProfileSection(src.shared, p).target.url
              \/ u = ProfileSection(src.local, p).target.url
  <1>1. EmptySection.target.url = None
    BY DEF EmptySection, EmptyLayer
  <1>2. QED
    BY <1>1 DEF OwnUrls, ProfileSection

(* What resolution finds, if the profile is defined: the caller's own url   *)
(* goes first, then those that the files give the profile.                  *)
LEMMA ResolveIs ==
  ASSUME NEW src, SourcesOk(src), NEW input \in Layer, NEW profile \in Profiles \cup {None}
  PROVE  LET r == Resolve(input, profile, src)
             p == ActiveProfile(profile, src)
         IN  /\ r.profile = p /\ p \in Profiles \cup {None}
             /\ r.url \in Urls \cup {None} /\ r.protocol \in Protocols \cup {None}
             /\ ~r.undefined =>
                  /\ p # None => ProfileDefined(src, p)
                  /\ input.url # None => r.url = input.url
                  /\ p # None /\ input.url = None /\ OwnUrls(src, p) # {} => r.url \in OwnUrls(src, p)
  <1> DEFINE p == ActiveProfile(profile, src)
             layers == LayerStack(input, src, p)
             undefined == p # None /\ ~ProfileDefined(src, p)
             r == Resolve(input, profile, src)
             n == IF p = None THEN 4 ELSE 6
  <1>1. p \in Profiles \cup {None}
    BY ActiveProfileOk
  <1>2. /\ r.profile = p /\ r.undefined = undefined
        /\ r.url = IF undefined THEN None ELSE FirstSet(layers, "url")
        /\ r.protocol = IF undefined THEN None ELSE FirstSet(layers, "protocol")
    BY DEF Resolve
  <1> HIDE DEF r, p
  <1>3. /\ layers \in Seq(Layer) /\ DOMAIN layers = 1 .. n /\ layers[1] = input
        /\ p # None => /\ layers[2] = ProfileSection(src.local, p).target
                       /\ layers[3] = ProfileSection(src.shared, p).target
    BY LayersInOrder
  <1> HIDE DEF layers, undefined
  <1>4. \A i \in DOMAIN layers : layers[i] \in Layer
    BY <1>3, ElementOfSeq
  <1>5. FirstSet(layers, "protocol") \in Protocols \cup {None}
    <2>1. \A i \in DOMAIN layers : layers[i]["protocol"] \in Protocols \cup {None}
      BY <1>4 DEF Layer
    <2>2. QED
      BY <1>3, <2>1, FirstSetIs
  <1> DEFINE u == FirstSet(layers, "url")
  <1>6. IF \A i \in DOMAIN layers : layers[i].url = None THEN u = None
        ELSE \E i \in DOMAIN layers :
               /\ u = layers[i].url /\ u # None
               /\ \A j \in DOMAIN layers : j < i => layers[j].url = None
    BY <1>3, FirstSetIs
  <1> HIDE DEF u
  <1>7. u \in Urls \cup {None}
    <2>1. \A i \in DOMAIN layers : layers[i].url \in Urls \cup {None}
      BY <1>4 DEF Layer
    <2>2. QED
      BY <1>6, <2>1
  <1>8. input.url # None => u = input.url
    <2> SUFFICES ASSUME input.url # None PROVE u = input.url
      OBVIOUS
    <2>1. 1 \in DOMAIN layers
      BY <1>3
    <2>2. PICK i \in DOMAIN layers :
            u = layers[i].url /\ \A j \in DOMAIN layers : j < i => layers[j].url = None
      BY <1>3, <1>6, <2>1
    <2>3. i = 1
      BY <1>3, <2>1, <2>2
    <2>4. QED
      BY <1>3, <2>2, <2>3
  <1>9. ASSUME p # None, input.url = None, OwnUrls(src, p) # {}
        PROVE  u \in OwnUrls(src, p)
    <2>1. DOMAIN layers = 1 .. 6
      BY <1>3, <1>9
    <2>2. layers[2].url # None \/ layers[3].url # None
      BY <1>3, <1>9, OwnUrlsAre
    <2>3. PICK i \in 1 .. 6 :
            u = layers[i].url /\ u # None /\ \A j \in 1 .. 6 : j < i => layers[j].url = None
      BY <1>6, <2>1, <2>2
    <2>4. i # 1
      BY <1>3, <1>9, <2>3
    <2>5. i \in 2 .. 3
      BY <2>2, <2>3, <2>4
    <2>6. u = ProfileSection(src.local, p).target.url \/ u = ProfileSection(src.shared, p).target.url
      <3>1. i = 2 \/ i = 3
        BY <2>5
      <3>2. QED
        BY <1>3, <1>9, <2>3, <3>1
    <2>7. QED
      BY <2>3, <2>6, OwnUrlsAre
  <1>10. undefined = FALSE => (p # None => ProfileDefined(src, p))
    BY DEF undefined
  <1>11. undefined \in BOOLEAN
    BY DEF undefined
  <1>12. QED
    BY <1>1, <1>2, <1>5, <1>7, <1>8, <1>9, <1>10, <1>11 DEF p, r, u

LEMMA MergedAreDeclarations ==
  ASSUME NEW src, SourcesOk(src), NEW declared \in Declarations, NEW profile
  PROVE  MergeProps(declared, profile, src) \in Declarations
  <1> DEFINE sections == SectionStack(src, ActiveProfile(profile, src))
             mid == [i \in DOMAIN sections |-> sections[i].props]
             stack == <<declared>> \o mid
             layersOf(k) == {i \in DOMAIN stack : k \in DOMAIN stack[i]}
             first(k) == stack[CHOOSE i \in layersOf(k) : \A j \in layersOf(k) : i <= j][k]
             set == {j \in Keys : layersOf(j) # {} /\ first(j) # Unset}
  <1>1. PICK n \in Nat : sections \in Seq(Section) /\ DOMAIN sections = 1 .. n
    BY SectionsInOrder
  <1>2. mid \in Seq(Declarations)
    <2>1. \A i \in 1 .. n : sections[i] \in Section
      BY <1>1, ElementOfSeq
    <2> HIDE DEF sections
    <2>2. mid \in [1 .. n -> Declarations]
      BY <1>1, <2>1 DEF Section
    <2>3. QED
      BY <2>2
  <1>3. <<declared>> \in Seq(Declarations)
    OBVIOUS
  <1> HIDE DEF mid
  <1>4. stack \in Seq(Declarations)
    BY <1>2, <1>3, ConcatProperties
  <1>5. MergeProps(declared, profile, src) = [k \in set |-> first(k)]
    BY DEF MergeProps, mid
  <1> HIDE DEF stack
  <1>6. DOMAIN stack \in SUBSET Nat /\ \A i \in DOMAIN stack : stack[i] \in Declarations
    BY <1>4, ElementOfSeq, LenProperties
  <1>7. ASSUME NEW k, layersOf(k) # {}
        PROVE  first(k) \in Decls \cup {EnvRef, Unset}
    <2> DEFINE T == layersOf(k)
               m == CHOOSE i \in T : \A j \in T : i <= j
    <2>1. m \in T
      <3>1. T \in SUBSET Nat /\ T # {}
        BY <1>6, <1>7
      <3> HIDE DEF T
      <3>2. QED
        BY <3>1, FirstOf
    <2> HIDE DEF m
    <2>2. stack[m] \in Declarations /\ k \in DOMAIN stack[m]
      BY <1>6, <2>1
    <2>3. stack[m][k] \in Decls \cup {EnvRef, Unset}
      BY <2>2 DEF Declarations
    <2>4. QED
      BY <2>3 DEF m
  <1> HIDE DEF layersOf, first
  <1>8. [k \in set |-> first(k)] \in [set -> Decls \cup {EnvRef, Unset}]
    BY <1>7
  <1>9. set \in SUBSET Keys
    OBVIOUS
  <1> HIDE DEF set
  <1>10. QED
    BY <1>5, <1>8, <1>9 DEF Declarations

-----------------------------------------------------------------------------
(* The plans within the byte limit that were captured in a session. *)
Logged(id) == {log[id][i] : i \in DOMAIN log[id]} \ {S!NoPlan}

(* Every plan a session knows was captured in it, and no session of        *)
(* another project is ever taken for it.                                   *)
Registry ==
  /\ issued \subseteq SessionIds
  /\ DOMAIN sessions \subseteq issued
  /\ sessions \in [DOMAIN sessions -> S!Session]
  /\ attempts \in Nat
  /\ log \in [issued -> Seq(Nat)]
  /\ opened \in [issued -> [project : Projects, profile : Profiles \cup {None}]]
  /\ captured \in Seq(Plan)
  /\ Len(captured) = attempts
  /\ \A id \in issued : Logged(id) \subseteq 1 .. attempts
  /\ \A id \in DOMAIN sessions :
       /\ \A i \in DOMAIN sessions[id].plans : sessions[id].plans[i] \in Logged(id)
       /\ sessions[id].lastPlan \in Logged(id) \cup {S!NoPlan}

World ==
  /\ files \in [Projects -> [shared : SharedFiles, local : LocalFiles]]
  /\ status \in [Callers -> {"outside", "asking", "inside"}]
  /\ dest \in [Callers -> LimitKeys]

CallState ==
  [pc : PCs, req : Request, project : Projects, profile : Profiles \cup {None},
   shared : ConfigFile, local : ConfigFile, plan : Plan]

(* Where the files, the project and the profile of a call are settled. *)
Settled == {"scoped", "check", "rejected", "queued", "sending"}

(* A call that has looked its session up works for the session's project. *)
InItsSession(s) ==
  IF s.req.session = None THEN s.profile = None
  ELSE /\ s.req.session \in issued
       /\ s.pc \in Settled \/ (s.pc \in {"shared", "local"} /\ s.req.cwd = None) =>
            /\ s.project = opened[s.req.session].project
            /\ s.profile = opened[s.req.session].profile

Replays(s) ==
  s.req.tool = "replay" /\ s.req.plan = NoPlan =>
    /\ s.req.session # None
    /\ s.plan # NoPlan =>
         \E n \in Logged(s.req.session) : s.req.planId \in {0, n} /\ s.plan = captured[n]

(* PlanHonoursSelection, of one call. *)
Honours(s) ==
  LET src == Sources(s.shared, s.local)
      p   == ActiveProfile(Or(s.req.in.profile, s.profile), src)
  IN  /\ s.plan.profile = p
      /\ p # None => ProfileDefined(src, p)
      /\ s.req.in.url # None => s.plan.url = s.req.in.url
      /\ p # None /\ s.req.in.url = None /\ OwnUrls(src, p) # {} => s.plan.url \in OwnUrls(src, p)
      /\ s.plan.source = "trusted" => s.req.in.mode # "strict" /\ s.req.in.complete

GoodCall(s) ==
  /\ s \in CallState
  /\ InItsSession(s)
  /\ Replays(s)
  /\ s.pc \in {"extract", "planById", "session"} => s.req.session # None
  /\ s.req.tool = "invoke" /\ s.pc \in {"check", "queued", "sending"} => Honours(s)
  /\ s.pc \in {"queued", "sending"} => Validate(env.guard, Sources(s.shared, s.local), s.plan)
  /\ s.pc = "sending" => Executable(s.plan)

InPlace(c) == (status[c] = "outside") = (call[c].pc \notin {"queued", "sending"})

IInv ==
  /\ Registry
  /\ World
  /\ call \in [Callers -> CallState]
  /\ \A c \in Callers : GoodCall(call[c]) /\ InPlace(c)

(* What other calls rely on: sessions keep their project and profile, and   *)
(* captured plans stay as they are.                                         *)
Grows ==
  /\ env' = env
  /\ issued \subseteq issued'
  /\ \A id \in issued : opened'[id] = opened[id] /\ Logged(id) \subseteq Logged(id)'
  /\ \A n \in 1 .. attempts : captured'[n] = captured[n]

LEMMA IdleIsGood == GoodCall(Idle)
  <1>1. NoDecls \in Declarations
    <2>1. NoDecls \in [{} -> Decls \cup {EnvRef, Unset}]
      BY DEF NoDecls
    <2>2. QED
      BY <2>1 DEF Declarations
  <1>2. NoInput \in InvokeInput /\ NoPlan \in Plan
    BY <1>1 DEF NoInput, InvokeInput, NoPlan, Plan
  <1>3. NoRequest \in Request
    BY <1>2 DEF NoRequest, Request
  <1>4. ServerRoot \in Projects
    BY ToolCallsAssumption
  <1>5. Idle \in CallState
    BY <1>2, <1>3, <1>4, FilesAreFiles DEF Idle, CallState, PCs
  <1>6. Idle.pc = "idle" /\ Idle.req.session = None /\ Idle.req.tool = "open" /\ Idle.profile = None
    BY DEF Idle, NoRequest
  <1>7. QED
    BY <1>5, <1>6 DEF GoodCall, InItsSession, Replays

(* A step of one call: it is good as things stood before the step, and the  *)
(* step takes nothing away from the others.                                 *)
LEMMA OneCallGoesOn ==
  ASSUME IInv, Registry', World', Grows,
         NEW c \in Callers, NEW s, call' = [call EXCEPT ![c] = s], GoodCall(s),
         (status'[c] = "outside") = (s.pc \notin {"queued", "sending"}),
         \A d \in Callers \ {c} : status'[d] = status[d]
  PROVE  IInv'
  <1>1. call' \in [Callers -> CallState] /\ \A d \in Callers : call'[d] = IF d = c THEN s ELSE call[d]
    BY DEF IInv, GoodCall
  <1>2. ASSUME NEW d \in Callers, NEW r, GoodCall(r), call'[d] = r
        PROVE  GoodCall(call[d])'
    <2>1. InItsSession(call[d])'
      BY <1>2 DEF GoodCall, InItsSession, Grows
    <2>2. Replays(call[d])'
      <3> SUFFICES ASSUME r.req.tool = "replay", r.req.plan = NoPlan
                   PROVE  /\ r.req.session # None
                          /\ r.plan # NoPlan =>
                               \E n \in Logged(r.req.session)' : r.req.planId \in {0, n} /\ r.plan = captured'[n]
        BY <1>2 DEF Replays
      <3>1. r.req.session # None
        BY <1>2 DEF GoodCall, Replays
      <3>2. r.req.session \in issued
        BY <1>2, <3>1 DEF GoodCall, InItsSession
      <3>3. ASSUME r.plan # NoPlan
            PROVE  \E n \in Logged(r.req.session)' : r.req.planId \in {0, n} /\ r.plan = captured'[n]
        <4>1. PICK n \in Logged(r.req.session) : r.req.planId \in {0, n} /\ r.plan = captured[n]
          BY <1>2, <3>3 DEF GoodCall, Replays
        <4>2. n \in Logged(r.req.session)' /\ n \in 1 .. attempts
          BY <3>2, <4>1 DEF Grows, IInv, Registry
        <4>3. QED
          BY <4>1, <4>2 DEF Grows
      <3>4. QED
        BY <3>1, <3>3
    <2>3. Validate(env'.guard, Sources(r.shared, r.local), r.plan)
            = Validate(env.guard, Sources(r.shared, r.local), r.plan)
      BY DEF Grows
    <2>4. Executable(r.plan) => Executable(call[d].plan)'
      BY <1>2 DEF Executable, Grows
    <2>5. QED
      BY <1>2, <2>1, <2>2, <2>3, <2>4 DEF GoodCall
  <1>3. ASSUME NEW d \in Callers PROVE GoodCall(call[d])' /\ InPlace(d)'
    <2>1. CASE d = c
      BY <1>1, <1>2, <2>1 DEF InPlace
    <2>2. CASE d # c
      <3>1. call'[d] = call[d] /\ status'[d] = status[d]
        BY <1>1, <2>2
      <3>2. GoodCall(call[d]) /\ InPlace(d)
        BY DEF IInv
      <3>3. QED
        BY <1>2, <3>1, <3>2 DEF InPlace
    <2>3. QED
      BY <2>1, <2>2
  <1>4. QED
    BY <1>1, <1>3 DEF IInv

(* A step that leaves files, sessions and captured plans alone. *)
LEMMA Quiet ==
  ASSUME IInv, UNCHANGED <<worldVars, sessionVars>>
  PROVE  Registry' /\ Grows
  BY DEF IInv, Registry, Grows, Logged, worldVars, sessionVars

(* A call that answers before it has asked for a place. *)
LEMMA EarlyAnswer ==
  ASSUME IInv, Registry', World', Grows, NEW c \in Callers, Answer(c),
         call[c].pc \notin {"queued", "sending"}, UNCHANGED status
  PROVE  IInv'
  <1>1. Idle.pc = "idle"
    BY DEF Idle
  <1>2. status[c] = "outside"
    BY DEF IInv, InPlace
  <1>3. QED
    BY <1>1, <1>2, IdleIsGood, OneCallGoesOn DEF Answer

-----------------------------------------------------------------------------
(* The registry, one operation at a time. *)
LEMMA GetKeeps ==
  ASSUME Registry, NEW id \in DOMAIN sessions, S!Get(id), UNCHANGED <<opened, captured, env>>
  PROVE  Registry' /\ Grows
  <1>1. /\ sessions' = [sessions EXCEPT ![id].lastUsed = 0]
        /\ UNCHANGED <<issued, attempts, log>>
    BY DEF S!Get
  <1>2. /\ DOMAIN sessions' = DOMAIN sessions
        /\ sessions' \in [DOMAIN sessions -> S!Session]
        /\ \A s \in DOMAIN sessions : /\ sessions'[s].plans = sessions[s].plans
                                      /\ sessions'[s].lastPlan = sessions[s].lastPlan
    BY <1>1 DEF Registry, S!Session
  <1>3. \A s : Logged(s)' = Logged(s)
    BY <1>1 DEF Logged
  <1>4. QED
    BY <1>1, <1>2, <1>3 DEF Registry, Grows

(* The registry's own proofs apply to it here, where time stands still. *)
Proved == INSTANCE SessionStore_proofs
            WITH now <- 0, TTL <- 0, MaxTime <- 0, MaxCaptures <- MaxCalls

LEMMA RegistryConstants == Proved!SessionAssumption
  <1>1. Proved!IsFiniteSet(SessionIds)
    BY ToolCallsAssumption DEF Proved!IsFiniteSet, IsFiniteSet
  <1>2. QED
    BY <1>1, ToolCallsAssumption DEF Proved!SessionAssumption

(* Both instances mean the same registry. *)
LEMMA SameCreate == ASSUME NEW id, S!Create(id) PROVE Proved!Create(id)
  BY Zenon DEF S!Create, Proved!Create, S!Scans, Proved!Scans, S!Kept, Proved!Kept, S!Lru, Proved!Lru,
     S!Unexpired, Proved!Unexpired, S!Expired, Proved!Expired, S!NoPlan, Proved!NoPlan,
     S!Surjection, Proved!Surjection, S!Cardinality, Proved!Cardinality

LEMMA SameSteps ==
  ASSUME NEW id
  PROVE  /\ S!Get(id) => Proved!Get(id)
         /\ S!CapturePlan(id) => Proved!CapturePlan(id)
         /\ S!CaptureTooLarge(id) => Proved!CaptureTooLarge(id)
  BY DEF S!Get, Proved!Get, S!CapturePlan, Proved!CapturePlan, S!CaptureTooLarge,
         Proved!CaptureTooLarge, S!Remember, Proved!Remember, S!NoPlan, Proved!NoPlan

LEMMA RegistryTyped == ASSUME Registry PROVE Proved!TypeOK
  BY DEF Registry, Proved!TypeOK, S!Session, Proved!Session

LEMMA CreateKeeps ==
  ASSUME Registry, NEW id \in SessionIds, S!Create(id),
         NEW o \in [project : Projects, profile : Profiles \cup {None}],
         opened' = [s \in issued \cup {id} |-> IF s = id THEN o ELSE opened[s]],
         UNCHANGED <<captured, env>>
  PROVE  Registry' /\ Grows
  <1> DEFINE new == [lastUsed |-> 0, lastPlan |-> S!NoPlan, plans |-> <<>>]
  <1>1. PICK keep \in SUBSET DOMAIN sessions :
          sessions' = [s \in keep \cup {id} |-> IF s = id THEN new ELSE sessions[s]]
    <2>1. \E keep \in SUBSET Proved!Unexpired :
            /\ Proved!LeavesRoom(keep)
            /\ sessions' = [s \in keep \cup {id} |->
                              IF s = id
                              THEN [lastUsed |-> 0, lastPlan |-> Proved!NoPlan, plans |-> <<>>]
                              ELSE sessions[s]]
      BY RegistryConstants, RegistryTyped, SameCreate, Proved!Survivors
    <2>2. Proved!Unexpired \subseteq DOMAIN sessions /\ Proved!NoPlan = S!NoPlan
      BY DEF Proved!Unexpired, Proved!NoPlan, S!NoPlan
    <2>3. QED
      BY <2>1, <2>2
  <1>2. /\ id \notin issued /\ issued' = issued \cup {id} /\ attempts' = attempts
        /\ log' = [s \in issued \cup {id} |-> IF s = id THEN <<>> ELSE log[s]]
    BY DEF S!Create
  <1>3. new \in S!Session
    BY DEF S!Session, S!NoPlan
  <1>4. /\ DOMAIN sessions' \subseteq issued'
        /\ sessions' \in [DOMAIN sessions' -> S!Session]
        /\ log' \in [issued' -> Seq(Nat)]
        /\ opened' \in [issued' -> [project : Projects, profile : Profiles \cup {None}]]
    BY <1>1, <1>2, <1>3 DEF Registry
  <1>5. \A s \in issued : s # id /\ Logged(s)' = Logged(s) /\ opened'[s] = opened[s]
    BY <1>2 DEF Logged
  <1>6. Logged(id)' = {}
    BY <1>2 DEF Logged
  <1>7. ASSUME NEW s \in DOMAIN sessions'
        PROVE  /\ \A i \in DOMAIN sessions'[s].plans : sessions'[s].plans[i] \in Logged(s)'
               /\ sessions'[s].lastPlan \in Logged(s)' \cup {S!NoPlan}
    <2>1. CASE s = id
      BY <1>1, <2>1
    <2>2. CASE s # id
      <3>1. s \in keep /\ sessions'[s] = sessions[s] /\ s \in issued
        BY <1>1, <2>2 DEF Registry
      <3>2. QED
        BY <1>5, <3>1 DEF Registry
    <2>3. QED
      BY <2>1, <2>2
  <1>8. QED
    BY <1>2, <1>4, <1>5, <1>6, <1>7 DEF Registry, Grows

(* What a session remembers after a capture is the new plan or was          *)
(* remembered before.                                                       *)
LEMMA RememberedAre ==
  ASSUME NEW plans \in Seq(Nat), NEW p \in Nat
  PROVE  /\ S!Remember(plans, p) \in Seq(Nat)
         /\ \A i \in DOMAIN S!Remember(plans, p) :
              \/ S!Remember(plans, p)[i] = p
              \/ \E j \in DOMAIN plans : S!Remember(plans, p)[i] = plans[j]
  <1> DEFINE all == <<p>> \o plans
             l == Len(plans)
             n == IF Len(all) > History THEN History ELSE Len(all)
             kept == SubSeq(all, 1, n)
  <1>1. S!Remember(plans, p) = kept
    BY DEF S!Remember
  <1>2. l \in Nat /\ DOMAIN plans = 1 .. l
    BY LenProperties
  <1>3. <<p>> \in Seq(Nat) /\ Len(<<p>>) = 1 /\ <<p>>[1] = p
    OBVIOUS
  <1>4. /\ all \in Seq(Nat) /\ Len(all) = 1 + l
        /\ \A i \in 1 .. 1 + l : all[i] = IF i <= 1 THEN <<p>>[i] ELSE plans[i - 1]
    BY <1>3, ConcatProperties
  <1> HIDE DEF all
  <1>5. n \in Nat /\ n <= 1 + l
    BY <1>2, <1>4, ToolCallsAssumption
  <1> HIDE DEF n, l
  <1>6. \A i \in 1 .. n : i \in 1 .. 1 + l /\ all[i] \in Nat
    <2>1. \A i \in 1 .. 1 + l : all[i] \in Nat
      BY <1>4, ElementOfSeq
    <2>2. QED
      BY <1>2, <1>5, <2>1
  <1>7. /\ kept \in Seq(Nat) /\ Len(kept) = IF 1 <= n THEN n - 1 + 1 ELSE 0
        /\ \A i \in 1 .. n - 1 + 1 : kept[i] = all[1 + i - 1]
    BY <1>5, <1>6, SubSeqProperties
  <1> HIDE DEF kept
  <1>8. DOMAIN kept = 1 .. n /\ \A i \in 1 .. n : kept[i] = all[i]
    <2>1. Len(kept) = n
      BY <1>5, <1>7
    <2>2. DOMAIN kept = 1 .. n
      BY <1>7, <2>1, LenProperties
    <2>3. \A i \in 1 .. n : i \in 1 .. n - 1 + 1 /\ 1 + i - 1 = i
      BY <1>5
    <2>4. QED
      BY <1>7, <2>2, <2>3
  <1>9. ASSUME NEW i \in 1 .. n PROVE kept[i] = p \/ \E j \in DOMAIN plans : kept[i] = plans[j]
    <2>1. i \in 1 .. 1 + l /\ kept[i] = all[i]
      BY <1>6, <1>8
    <2>2. CASE i = 1
      BY <1>3, <1>4, <2>1, <2>2
    <2>3. CASE i # 1
      <3>1. i - 1 \in 1 .. l /\ ~(i <= 1)
        BY <1>2, <2>1, <2>3
      <3>2. QED
        BY <1>2, <1>4, <2>1, <3>1
    <2>4. QED
      BY <2>2, <2>3
  <1>10. QED
    BY <1>1, <1>7, <1>8, <1>9

LEMMA CaptureKeeps ==
  ASSUME Registry, NEW id \in DOMAIN sessions, S!CapturePlan(id) \/ S!CaptureTooLarge(id),
         NEW plan \in Plan, captured' = Append(captured, plan), UNCHANGED <<opened, env>>
  PROVE  Registry' /\ Grows
  <1> DEFINE p == attempts + 1
  <1>1. id \in issued /\ log[id] \in Seq(Nat) /\ sessions[id] \in S!Session /\ attempts \in Nat
    BY DEF Registry
  <1>2. PICK e \in {p, S!NoPlan} :
          /\ attempts' = p /\ issued' = issued
          /\ log' = [log EXCEPT ![id] = Append(@, e)]
          /\ DOMAIN sessions' = DOMAIN sessions
          /\ \A s \in DOMAIN sessions \ {id} : sessions'[s] = sessions[s]
          /\ sessions'[id] \in S!Session
          /\ sessions' \in [DOMAIN sessions -> S!Session]
          /\ sessions'[id].lastPlan = e
          /\ sessions'[id].plans = IF e = p THEN S!Remember(sessions[id].plans, p) ELSE sessions[id].plans
    <2>1. CASE S!CapturePlan(id)
      <3>1. sessions' = [sessions EXCEPT ![id] = [lastUsed |-> 0, lastPlan |-> p,
                                                  plans |-> S!Remember(@.plans, p)]]
        BY <2>1 DEF S!CapturePlan
      <3>2. S!Remember(sessions[id].plans, p) \in Seq(Nat)
        BY <1>1, RememberedAre DEF S!Session
      <3> DEFINE new == [lastUsed |-> 0, lastPlan |-> p, plans |-> S!Remember(sessions[id].plans, p)]
      <3>3. new \in S!Session
        BY <1>1, <3>2 DEF S!Session
      <3>4. sessions' = [sessions EXCEPT ![id] = new]
        BY <3>1
      <3>5. new.lastPlan = p /\ new.plans = S!Remember(sessions[id].plans, p)
        OBVIOUS
      <3> HIDE DEF new
      <3>6. /\ DOMAIN sessions' = DOMAIN sessions /\ sessions'[id] = new
            /\ \A s \in DOMAIN sessions \ {id} : sessions'[s] = sessions[s]
            /\ sessions' \in [DOMAIN sessions -> S!Session]
        BY <3>3, <3>4 DEF Registry
      <3>7. attempts' = p /\ issued' = issued /\ log' = [log EXCEPT ![id] = Append(@, p)]
        BY <2>1 DEF S!CapturePlan
      <3>8. QED
        BY <3>3, <3>5, <3>6, <3>7
    <2>2. CASE S!CaptureTooLarge(id)
      <3>1. p # S!NoPlan
        BY <1>1 DEF S!NoPlan
      <3>2. /\ attempts' = p /\ issued' = issued /\ log' = [log EXCEPT ![id] = Append(@, S!NoPlan)]
            /\ sessions' = [sessions EXCEPT ![id].lastPlan = S!NoPlan, ![id].lastUsed = 0]
        BY <2>2 DEF S!CaptureTooLarge
      <3>3. /\ DOMAIN sessions' = DOMAIN sessions
            /\ \A s \in DOMAIN sessions \ {id} : sessions'[s] = sessions[s]
            /\ sessions'[id].lastPlan = S!NoPlan /\ sessions'[id].plans = sessions[id].plans
        BY <1>1, <3>2 DEF Registry, S!Session
      <3>4. sessions' \in [DOMAIN sessions -> S!Session]
        BY <3>2 DEF Registry, S!Session, S!NoPlan
      <3>5. QED
        BY <3>1, <3>2, <3>3, <3>4
    <2>3. QED
      BY <2>1, <2>2
  <1>3. p \in Nat /\ p # S!NoPlan /\ e \in Nat /\ attempts < p
    BY <1>1 DEF S!NoPlan
  <1> HIDE DEF p
  <1>4. Append(log[id], e) \in Seq(Nat) /\ log'[id] = Append(log[id], e) /\ log' \in [issued -> Seq(Nat)]
    BY <1>1, <1>2, <1>3 DEF Registry
  <1>5. Logged(id)' = Logged(id) \cup ({e} \ {S!NoPlan})
    <2> DEFINE l == log[id]
    <2>1. /\ Len(Append(l, e)) = Len(l) + 1
          /\ \A i \in 1 .. Len(l) : Append(l, e)[i] = l[i]
          /\ Append(l, e)[Len(l) + 1] = e
      BY <1>1, <1>3, AppendProperties
    <2>2. DOMAIN l = 1 .. Len(l) /\ DOMAIN Append(l, e) = 1 .. Len(l) + 1 /\ Len(l) \in Nat
      BY <1>1, <1>4, <2>1, LenProperties
    <2>3. 1 .. Len(l) + 1 = 1 .. Len(l) \cup {Len(l) + 1}
      BY <2>2
    <2> HIDE DEF l
    <2>4. QED
      BY <1>4, <2>1, <2>2, <2>3 DEF Logged, l
  <1>6. \A s \in issued \ {id} : Logged(s)' = Logged(s)
    BY <1>2 DEF Logged, Registry
  <1>7. captured \in Seq(Plan) /\ Len(captured) = attempts
    BY DEF Registry
  <1>8. captured' \in Seq(Plan) /\ Len(captured') = p /\ \A n \in 1 .. attempts : captured'[n] = captured[n]
    BY <1>7, AppendProperties DEF p
  <1>9. 1 .. attempts \subseteq 1 .. p /\ p \in 1 .. p
    BY <1>1, <1>3
  <1>10. \A s \in issued : Logged(s) \subseteq Logged(s)' /\ Logged(s)' \subseteq 1 .. p
    <2>1. \A s \in issued : Logged(s) \subseteq 1 .. attempts
      BY DEF Registry
    <2>2. QED
      BY <1>2, <1>5, <1>6, <1>9, <2>1
  <1>11. ASSUME NEW s \in DOMAIN sessions
         PROVE  /\ \A i \in DOMAIN sessions'[s].plans : sessions'[s].plans[i] \in Logged(s)'
                /\ sessions'[s].lastPlan \in Logged(s)' \cup {S!NoPlan}
    <2>1. s \in issued
      BY DEF Registry
    <2>2. /\ \A i \in DOMAIN sessions[s].plans : sessions[s].plans[i] \in Logged(s)
          /\ sessions[s].lastPlan \in Logged(s) \cup {S!NoPlan}
      BY DEF Registry
    <2>3. CASE s # id
      BY <1>2, <1>10, <2>1, <2>2, <2>3
    <2>4. CASE s = id
      <3>1. sessions'[s].lastPlan \in Logged(s)' \cup {S!NoPlan}
        BY <1>2, <1>5, <2>4
      <3>2. CASE e # p
        BY <1>2, <1>10, <2>1, <2>2, <2>4, <3>1, <3>2
      <3>3. CASE e = p
        <4>1. sessions[id].plans \in Seq(Nat)
          BY <1>1 DEF S!Session
        <4>2. \A i \in DOMAIN sessions'[s].plans :
                \/ sessions'[s].plans[i] = p
                \/ \E j \in DOMAIN sessions[id].plans : sessions'[s].plans[i] = sessions[id].plans[j]
          <5> DEFINE old == sessions[id].plans
                     new == S!Remember(old, p)
          <5>1. sessions'[s].plans = new
            BY <1>2, <2>4, <3>3
          <5>2. \A i \in DOMAIN new : new[i] = p \/ \E j \in DOMAIN old : new[i] = old[j]
            <6> HIDE DEF old
            <6>1. QED
              BY <1>3, <4>1, RememberedAre DEF old
          <5> HIDE DEF new
          <5>3. QED
            BY <5>1, <5>2
        <4>3. p \in Logged(s)'
          BY <1>3, <1>5, <2>4, <3>3
        <4>4. QED
          BY <1>10, <2>1, <2>2, <2>4, <3>1, <4>2, <4>3
      <3>4. QED
        BY <3>2, <3>3
    <2>5. QED
      BY <2>3, <2>4
  <1>12. QED
    BY <1>2, <1>3, <1>4, <1>8, <1>10, <1>11 DEF Registry, Grows

-----------------------------------------------------------------------------
(* The actions. *)
LEMMA InitInv == Init => IInv
  <1> SUFFICES ASSUME Init PROVE IInv
    OBVIOUS
  <1>1. Registry
    <2>1. /\ issued = {} /\ attempts = 0 /\ DOMAIN sessions = {}
          /\ sessions \in [{} -> S!Session] /\ log \in [{} -> Seq(Nat)]
      BY DEF Init, S!Init
    <2>2. opened \in [{} -> [project : Projects, profile : Profiles \cup {None}]]
      BY DEF Init
    <2>3. captured \in Seq(Plan) /\ Len(captured) = 0
      BY DEF Init
    <2>4. QED
      BY <2>1, <2>2, <2>3 DEF Registry
  <1>2. World
    BY ToolCallsAssumption DEF Init, World, LimitKeys
  <1>3. Idle.pc = "idle"
    BY DEF Idle
  <1>4. \A c \in Callers : call[c] = Idle /\ status[c] = "outside"
    BY DEF Init
  <1>5. call \in [Callers -> CallState]
    BY IdleIsGood DEF Init, GoodCall
  <1>6. QED
    BY <1>1, <1>2, <1>3, <1>4, <1>5, IdleIsGood DEF IInv, InPlace

LEMMA BeginKeeps ==
  ASSUME IInv, NEW c \in Callers, NEW req \in Request, Begin(c, req),
         req.session # None => req.session \in issued,
         req.tool = "replay" /\ req.plan = NoPlan => req.session # None
  PROVE  IInv'
  <1> DEFINE s == [Idle EXCEPT !.pc = FirstStep(req), !.req = req, !.plan = req.plan,
                               !.project = Or(req.cwd, ServerRoot)]
  <1>1. /\ call' = [call EXCEPT ![c] = s] /\ call[c].pc = "idle"
        /\ UNCHANGED <<worldVars, limiterVars, sessionVars>>
    BY DEF Begin
  <1>2. Registry' /\ Grows /\ World' /\ UNCHANGED status
    BY <1>1, Quiet DEF IInv, World, worldVars, limiterVars
  <1>3. Or(req.cwd, ServerRoot) \in Projects
    BY ToolCallsAssumption DEF Request, Or
  <1>4. /\ FirstStep(req) \in {"extract", "session", "shared"}
        /\ FirstStep(req) # "shared" => req.session # None
        /\ FirstStep(req) = "shared" => req.cwd # None \/ req.session = None
    BY DEF FirstStep, ScopeStart
  <1>5. /\ s \in CallState /\ s.pc = FirstStep(req) /\ s.req = req /\ s.plan = req.plan
        /\ s.profile = None
    <2>1. Idle \in CallState /\ Idle.profile = None
      BY IdleIsGood DEF GoodCall, Idle
    <2>2. FirstStep(req) \in PCs /\ req.plan \in Plan
      BY <1>4 DEF PCs, Request
    <2>3. QED
      BY <1>3, <2>1, <2>2 DEF CallState
  <1> HIDE DEF s
  <1>6. GoodCall(s)
    BY <1>4, <1>5 DEF GoodCall, InItsSession, Replays, Settled
  <1>7. status[c] = "outside"
    BY <1>1 DEF IInv, InPlace
  <1>8. QED
    BY <1>1, <1>2, <1>4, <1>5, <1>6, <1>7, OneCallGoesOn

LEMMA BeginOpenKeeps == ASSUME IInv, NEW c \in Callers, BeginOpen(c) PROVE IInv'
  <1>1. PICK p \in Directories \cup {None}, profile \in Profiles \cup {None} :
          Begin(c, [NoRequest EXCEPT !.cwd = p, !.in.profile = profile])
    BY DEF BeginOpen
  <1> DEFINE req == [NoRequest EXCEPT !.cwd = p, !.in.profile = profile]
  <1>2. NoRequest \in Request /\ NoRequest.session = None /\ NoRequest.tool = "open"
    BY IdleIsGood DEF GoodCall, CallState, Idle, NoRequest
  <1>3. req \in Request /\ req.session = None /\ req.tool = "open"
    BY <1>2 DEF Request, InvokeInput
  <1> HIDE DEF req
  <1>4. QED
    BY <1>1, <1>3, BeginKeeps DEF req

LEMMA BeginInvokeKeeps == ASSUME IInv, NEW c \in Callers, BeginInvoke(c) PROVE IInv'
  <1>1. PICK in \in InvokeInputs, id \in issued \cup {None}, p \in Directories \cup {None} :
          Begin(c, [NoRequest EXCEPT !.tool = "invoke", !.session = id, !.cwd = p, !.in = in])
    BY DEF BeginInvoke
  <1> DEFINE req == [NoRequest EXCEPT !.tool = "invoke", !.session = id, !.cwd = p, !.in = in]
  <1>2. NoRequest \in Request
    BY IdleIsGood DEF GoodCall, CallState, Idle
  <1>3. in \in InvokeInput /\ issued \subseteq SessionIds
    BY InputsAssumption DEF IInv, Registry
  <1>4. req \in Request /\ req.session = id /\ req.tool = "invoke"
    BY <1>2, <1>3 DEF Request
  <1> HIDE DEF req
  <1>5. QED
    BY <1>1, <1>4, BeginKeeps DEF req

LEMMA BeginReplayKeeps == ASSUME IInv, NEW c \in Callers, BeginReplay(c) PROVE IInv'
  <1>1. PICK id \in issued \cup {None}, p \in Directories \cup {None}, n \in 0..attempts,
             plan \in Payloads \cup {NoPlan}, dryRun \in BOOLEAN :
          /\ id = None => plan # NoPlan
          /\ Begin(c, [NoRequest EXCEPT !.tool = "replay", !.session = id, !.cwd = p, !.planId = n,
                                        !.plan = plan, !.in.dryRun = dryRun])
    BY DEF BeginReplay
  <1> DEFINE req == [NoRequest EXCEPT !.tool = "replay", !.session = id, !.cwd = p, !.planId = n,
                                      !.plan = plan, !.in.dryRun = dryRun]
  <1>2. NoRequest \in Request /\ NoPlan \in Plan
    BY IdleIsGood DEF GoodCall, CallState, Idle
  <1>3. plan \in Plan /\ issued \subseteq SessionIds /\ n \in Nat
    BY <1>2, InputsAssumption DEF IInv, Registry
  <1>4. req \in Request /\ req.session = id /\ req.plan = plan
    BY <1>2, <1>3 DEF Request, InvokeInput
  <1> HIDE DEF req
  <1>5. QED
    BY <1>1, <1>4, BeginKeeps DEF req

(* A captured plan of the session takes the place of the payload. *)
LEMMA UsePlanKeeps ==
  ASSUME IInv, Registry', World', Grows, UNCHANGED status, NEW c \in Callers,
         call[c].pc \in {"extract", "planById"},
         NEW n \in Logged(call[c].req.session), call[c].req.planId \in {0, n}, UsePlan(c, n)
  PROVE  IInv'
  <1>1. CASE Answer(c)
    BY <1>1, EarlyAnswer
  <1>2. CASE ~Answer(c)
    <2> DEFINE req == call[c].req
               s == [call[c] EXCEPT !.pc = ScopeStart(req), !.plan = captured[n]]
    <2>1. call' = [call EXCEPT ![c] = s]
      BY <1>2 DEF UsePlan
    <2>2. /\ call[c] \in CallState /\ InItsSession(call[c])
          /\ req.session # None /\ status[c] = "outside"
      BY DEF IInv, GoodCall, InPlace
    <2>3. req.session \in issued
      BY <2>2 DEF InItsSession
    <2>4. captured[n] \in Plan
      <3>1. n \in 1 .. Len(captured)
        BY <2>3 DEF IInv, Registry
      <3>2. QED
        BY <3>1 DEF IInv, Registry
    <2>5. /\ ScopeStart(req) \in {"session", "shared"}
          /\ ScopeStart(req) = "shared" => req.cwd # None
      BY <2>2 DEF ScopeStart
    <2>6. s \in CallState /\ s.pc = ScopeStart(req) /\ s.req = req /\ s.plan = captured[n]
      <3>1. ScopeStart(req) \in PCs
        BY <2>5 DEF PCs
      <3>2. QED
        BY <2>2, <2>4, <3>1 DEF CallState
    <2> HIDE DEF s
    <2>7. GoodCall(s)
      BY <2>2, <2>3, <2>5, <2>6 DEF GoodCall, InItsSession, Replays, Settled
    <2>8. QED
      BY <2>1, <2>2, <2>5, <2>6, <2>7, OneCallGoesOn
  <1>3. QED
    BY <1>1, <1>2

LEMMA ExtractPlanKeeps == ASSUME IInv, NEW c \in Callers, ExtractPlan(c) PROVE IInv'
  <1> DEFINE id == call[c].req.session
  <1>1. /\ call[c].pc = "extract" /\ UNCHANGED <<worldVars, limiterVars, opened, captured>>
    BY DEF ExtractPlan
  <1>2. /\ call[c] \in CallState /\ InItsSession(call[c]) /\ Replays(call[c])
        /\ id # None /\ status[c] = "outside"
    BY <1>1 DEF IInv, GoodCall, InPlace
  <1>3. World' /\ UNCHANGED <<status, env>>
    BY <1>1 DEF IInv, World, worldVars, limiterVars
  <1>4. CASE id \notin DOMAIN sessions
    <2>1. Answer(c) /\ UNCHANGED <<sessions, issued, attempts, log>>
      BY <1>4 DEF ExtractPlan
    <2>2. Registry' /\ Grows
      BY <1>1, <2>1, Quiet DEF sessionVars
    <2>3. QED
      BY <1>1, <1>3, <2>1, <2>2, EarlyAnswer
  <1>5. CASE id \in DOMAIN sessions
    <2>1. S!Get(id)
      BY <1>5 DEF ExtractPlan
    <2>2. Registry' /\ Grows
      BY <1>1, <1>3, <1>5, <2>1, GetKeeps DEF IInv
    <2>3. CASE call[c].req.planId # 0
      <3> DEFINE s == [call[c] EXCEPT !.pc = "planById"]
      <3>1. call' = [call EXCEPT ![c] = s]
        BY <1>5, <2>3 DEF ExtractPlan
      <3>2. /\ s \in CallState /\ s.pc = "planById" /\ s.req = call[c].req /\ s.plan = call[c].plan
            /\ s.project = call[c].project /\ s.profile = call[c].profile
        BY <1>2 DEF CallState, PCs
      <3> HIDE DEF s
      <3>3. GoodCall(s)
        BY <1>2, <3>2 DEF GoodCall, InItsSession, Replays, Settled
      <3>4. QED
        BY <1>2, <1>3, <2>2, <3>1, <3>2, <3>3, OneCallGoesOn
    <2>4. CASE call[c].req.planId = 0 /\ sessions[id].lastPlan = S!NoPlan
      <3>1. Answer(c)
        BY <1>5, <2>4 DEF ExtractPlan
      <3>2. QED
        BY <1>1, <1>3, <2>2, <3>1, EarlyAnswer
    <2>5. CASE call[c].req.planId = 0 /\ sessions[id].lastPlan # S!NoPlan
      <3> DEFINE n == sessions[id].lastPlan
      <3>1. UsePlan(c, n)
        BY <1>5, <2>5 DEF ExtractPlan
      <3>2. n \in Logged(id)
        BY <1>5, <2>5 DEF IInv, Registry
      <3> HIDE DEF n
      <3>3. QED
        BY <1>1, <1>3, <2>2, <2>5, <3>1, <3>2, UsePlanKeeps
    <2>6. QED
      BY <2>3, <2>4, <2>5
  <1>6. QED
    BY <1>4, <1>5

LEMMA ExtractPlanByIdKeeps == ASSUME IInv, NEW c \in Callers, ExtractPlanById(c) PROVE IInv'
  <1> DEFINE req == call[c].req
  <1>1. call[c].pc = "planById" /\ UNCHANGED <<worldVars, limiterVars, sessionVars>>
    BY DEF ExtractPlanById
  <1>2. Registry' /\ Grows /\ World' /\ UNCHANGED status
    BY <1>1, Quiet DEF IInv, World, worldVars, limiterVars
  <1>3. CASE HasPlan(req.session, req.planId)
    <2>1. req.planId \in Logged(req.session)
      BY <1>3 DEF HasPlan, IInv, Registry
    <2>2. UsePlan(c, req.planId)
      BY <1>3 DEF ExtractPlanById
    <2>3. QED
      BY <1>1, <1>2, <2>1, <2>2, UsePlanKeeps
  <1>4. CASE ~HasPlan(req.session, req.planId)
    <2>1. Answer(c)
      BY <1>4 DEF ExtractPlanById
    <2>2. QED
      BY <1>1, <1>2, <2>1, EarlyAnswer
  <1>5. QED
    BY <1>3, <1>4

LEMMA LookupSessionKeeps == ASSUME IInv, NEW c \in Callers, LookupSession(c) PROVE IInv'
  <1> DEFINE req == call[c].req
             id == req.session
  <1>1. call[c].pc = "session" /\ UNCHANGED <<worldVars, limiterVars, opened, captured>>
    BY DEF LookupSession
  <1>2. /\ call[c] \in CallState /\ Replays(call[c]) /\ id # None /\ status[c] = "outside"
    BY <1>1 DEF IInv, GoodCall, InPlace
  <1>3. World' /\ UNCHANGED <<status, env>>
    BY <1>1 DEF IInv, World, worldVars, limiterVars
  <1>4. CASE id \notin DOMAIN sessions
    <2>1. Answer(c) /\ UNCHANGED <<sessions, issued, attempts, log>>
      BY <1>4 DEF LookupSession
    <2>2. Registry' /\ Grows
      BY <1>1, <2>1, Quiet DEF sessionVars
    <2>3. QED
      BY <1>1, <1>3, <2>1, <2>2, EarlyAnswer
  <1>5. CASE id \in DOMAIN sessions
    <2>1. S!Get(id)
      BY <1>5 DEF LookupSession
    <2>2. Registry' /\ Grows
      BY <1>1, <1>3, <1>5, <2>1, GetKeeps DEF IInv
    <2>3. id \in issued /\ opened[id].project \in Projects /\ opened[id].profile \in Profiles \cup {None}
      BY <1>5 DEF IInv, Registry
    <2>4. CASE req.cwd \notin {None, opened[id].project}
      <3>1. Answer(c)
        BY <1>5, <2>4 DEF LookupSession
      <3>2. QED
        BY <1>1, <1>3, <2>2, <3>1, EarlyAnswer
    <2>5. CASE req.cwd \in {None, opened[id].project}
      <3> DEFINE pc == IF req.cwd = None THEN "shared" ELSE ScopeEnd(req)
                 s == [call[c] EXCEPT !.pc = pc, !.project = opened[id].project,
                                      !.profile = opened[id].profile]
      <3>1. call' = [call EXCEPT ![c] = s]
        BY <1>5, <2>5 DEF LookupSession
      <3>2. pc \in {"shared", "check", "scoped"} /\ (pc = "check" => req.tool = "replay")
        BY DEF ScopeEnd
      <3> HIDE DEF pc
      <3>3. /\ s \in CallState /\ s.pc = pc /\ s.req = req /\ s.plan = call[c].plan
            /\ s.project = opened[id].project /\ s.profile = opened[id].profile
        <4>1. pc \in PCs
          BY <3>2 DEF PCs
        <4>2. QED
          BY <1>2, <2>3, <4>1 DEF CallState
      <3> HIDE DEF s
      <3>4. GoodCall(s)
        <4>1. InItsSession(s)
          BY <1>2, <2>3, <3>3 DEF InItsSession
        <4>2. Replays(s)
          BY <1>2, <3>3 DEF Replays
        <4>3. QED
          BY <1>2, <3>2, <3>3, <4>1, <4>2 DEF GoodCall
      <3>5. QED
        BY <1>2, <1>3, <2>2, <3>1, <3>2, <3>3, <3>4, OneCallGoesOn
    <2>6. QED
      BY <2>4, <2>5
  <1>6. QED
    BY <1>4, <1>5

LEMMA ReadSharedKeeps == ASSUME IInv, NEW c \in Callers, ReadShared(c) PROVE IInv'
  <1> DEFINE file == files[call[c].project].shared
             s == [call[c] EXCEPT !.pc = "local", !.shared = file]
  <1>1. /\ call[c].pc = "shared" /\ call' = [call EXCEPT ![c] = s]
        /\ UNCHANGED <<worldVars, limiterVars, sessionVars>>
    BY DEF ReadShared
  <1>2. Registry' /\ Grows /\ World' /\ UNCHANGED status
    BY <1>1, Quiet DEF IInv, World, worldVars, limiterVars
  <1>3. call[c] \in CallState /\ GoodCall(call[c]) /\ status[c] = "outside"
    BY <1>1 DEF IInv, InPlace
  <1>4. file \in ConfigFile
    BY <1>3, ToolCallsAssumption DEF IInv, World, CallState
  <1> HIDE DEF file
  <1>5. /\ s \in CallState /\ s.pc = "local" /\ s.req = call[c].req /\ s.plan = call[c].plan
        /\ s.project = call[c].project /\ s.profile = call[c].profile
    BY <1>3, <1>4 DEF CallState, PCs
  <1> HIDE DEF s
  <1>6. GoodCall(s)
    BY <1>1, <1>3, <1>5 DEF GoodCall, InItsSession, Replays, Settled
  <1>7. QED
    BY <1>1, <1>2, <1>3, <1>5, <1>6, OneCallGoesOn

LEMMA ReadLocalKeeps == ASSUME IInv, NEW c \in Callers, ReadLocal(c) PROVE IInv'
  <1> DEFINE req == call[c].req
             pc == IF req.cwd # None /\ req.session # None THEN "session" ELSE ScopeEnd(req)
             file == files[call[c].project].local
             s == [call[c] EXCEPT !.pc = pc, !.local = file]
  <1>1. /\ call[c].pc = "local" /\ call' = [call EXCEPT ![c] = s]
        /\ UNCHANGED <<worldVars, limiterVars, sessionVars>>
    BY DEF ReadLocal
  <1>2. Registry' /\ Grows /\ World' /\ UNCHANGED status
    BY <1>1, Quiet DEF IInv, World, worldVars, limiterVars
  <1>3. call[c] \in CallState /\ GoodCall(call[c]) /\ status[c] = "outside"
    BY <1>1 DEF IInv, InPlace
  <1>4. file \in ConfigFile
    BY <1>3, ToolCallsAssumption DEF IInv, World, CallState
  <1>5. /\ pc \in {"session", "check", "scoped"} /\ (pc = "check" => req.tool = "replay")
        /\ pc = "session" => req.session # None
        /\ pc # "session" => req.cwd = None \/ req.session = None
    BY DEF ScopeEnd
  <1> HIDE DEF file, pc
  <1>6. /\ s \in CallState /\ s.pc = pc /\ s.req = req /\ s.plan = call[c].plan
        /\ s.project = call[c].project /\ s.profile = call[c].profile
    <2>1. pc \in PCs
      BY <1>5 DEF PCs
    <2>2. QED
      BY <1>3, <1>4, <2>1 DEF CallState
  <1> HIDE DEF s
  <1>7. GoodCall(s)
    <2>1. InItsSession(s)
      BY <1>1, <1>3, <1>5, <1>6 DEF GoodCall, InItsSession, Settled
    <2>2. Replays(s)
      BY <1>3, <1>6 DEF GoodCall, Replays
    <2>3. QED
      BY <1>5, <1>6, <2>1, <2>2 DEF GoodCall
  <1>8. QED
    BY <1>1, <1>2, <1>3, <1>5, <1>6, <1>7, OneCallGoesOn

LEMMA OpenSessionKeeps == ASSUME IInv, NEW c \in Callers, OpenSession(c) PROVE IInv'
  <1> DEFINE report == Resolve(EmptyLayer, call[c].req.in.profile, Src(c))
  <1>1. call[c].pc = "scoped" /\ Answer(c) /\ UNCHANGED <<worldVars, limiterVars>>
    BY DEF OpenSession
  <1>2. World' /\ UNCHANGED <<status, env>>
    BY <1>1 DEF IInv, World, worldVars, limiterVars
  <1>3. CASE UNCHANGED sessionVars
    BY <1>1, <1>2, <1>3, Quiet, EarlyAnswer
  <1>4. CASE ~UNCHANGED sessionVars
    <2> DEFINE o == [project |-> call[c].project, profile |-> report.profile]
    <2>1. PICK id \in SessionIds :
            /\ S!Create(id)
            /\ opened' = [s \in issued \cup {id} |-> IF s = id THEN o ELSE opened[s]]
            /\ UNCHANGED captured
      BY <1>4 DEF OpenSession
    <2>2. call[c] \in CallState
      BY DEF IInv
    <2>3. SourcesOk(Src(c)) /\ call[c].req.in.profile \in Profiles \cup {None}
      BY <2>2, SourcesAreOk DEF Src, CallState, Request, InvokeInput
    <2>4. report.profile \in Profiles \cup {None}
      BY <2>3, ResolveIs, FilesAreFiles
    <2> HIDE DEF report
    <2>5. o \in [project : Projects, profile : Profiles \cup {None}]
      BY <2>2, <2>4 DEF CallState
    <2> HIDE DEF o
    <2>6. Registry' /\ Grows
      BY <1>2, <2>1, <2>5, CreateKeeps DEF IInv
    <2>7. QED
      BY <1>1, <1>2, <2>6, EarlyAnswer
  <1>5. QED
    BY <1>3, <1>4

(* The plan that is built honours what was selected. *)
LEMMA BuildPlanKeeps == ASSUME IInv, NEW c \in Callers, BuildPlan(c) PROVE IInv'
  <1> DEFINE req == call[c].req
             in == req.in
             input == [url |-> in.url, protocol |-> None]
             report == Resolve(input, EffectiveProfile(c), Src(c))
             props == MergeProps(in.props, EffectiveProfile(c), Src(c))
             plan(source) == [service |-> in.service, url |-> report.url, protocol |-> report.protocol,
                              props |-> props, profile |-> report.profile, source |-> source]
  <1>1. call[c].pc = "scoped" /\ req.tool = "invoke" /\ UNCHANGED <<worldVars, limiterVars>>
    BY DEF BuildPlan
  <1>2. World' /\ UNCHANGED <<status, env>>
    BY <1>1 DEF IInv, World, worldVars, limiterVars
  <1>3. PICK store \in BOOLEAN, outcome \in {"resolved", "unresolvable", "error"} :
          LET source == PlanSource(in, store, outcome)
          IN  IF report.undefined \/ report.url = None \/ source = "none"
              THEN Answer(c) /\ UNCHANGED sessionVars
              ELSE /\ Capture(c, plan(source))
                   /\ IF in.dryRun THEN Answer(c)
                      ELSE call' = [call EXCEPT ![c].pc = "check", ![c].plan = plan(source)]
    BY DEF BuildPlan
  <1> DEFINE source == PlanSource(in, store, outcome)
             p == plan(source)
  <1>4. CASE report.undefined \/ report.url = None \/ source = "none"
    <2>1. Answer(c) /\ UNCHANGED sessionVars
      BY <1>3, <1>4
    <2>2. QED
      BY <1>1, <1>2, <2>1, Quiet, EarlyAnswer
  <1>5. CASE ~(report.undefined \/ report.url = None \/ source = "none")
    <2>1. /\ Capture(c, p)
          /\ IF in.dryRun THEN Answer(c) ELSE call' = [call EXCEPT ![c].pc = "check", ![c].plan = p]
      BY <1>3, <1>5
    <2>2. call[c] \in CallState /\ GoodCall(call[c]) /\ status[c] = "outside"
      BY <1>1 DEF IInv, InPlace
    <2>3. SourcesOk(Src(c)) /\ in \in InvokeInput /\ EffectiveProfile(c) \in Profiles \cup {None}
      BY <2>2, SourcesAreOk DEF Src, CallState, Request, InvokeInput, EffectiveProfile, Or
    <2>4. input \in Layer
      BY <2>3 DEF Layer, InvokeInput
    <2> DEFINE q == ActiveProfile(EffectiveProfile(c), Src(c))
    <2>5. /\ report.profile = q /\ q \in Profiles \cup {None}
          /\ report.url \in Urls \cup {None} /\ report.protocol \in Protocols \cup {None}
          /\ q # None => ProfileDefined(Src(c), q)
          /\ in.url # None => report.url = in.url
          /\ q # None /\ in.url = None /\ OwnUrls(Src(c), q) # {} => report.url \in OwnUrls(Src(c), q)
      <3>1. input.url = in.url
        OBVIOUS
      <3> HIDE DEF input
      <3>2. QED
        BY <1>5, <2>3, <2>4, <3>1, ResolveIs
    <2>6. props \in Declarations
      BY <2>3, MergedAreDeclarations DEF InvokeInput
    <2>7. /\ source \in {"facade-store", "trusted"}
          /\ source = "trusted" => in.mode # "strict" /\ in.complete
      BY <1>5 DEF PlanSource
    <2> HIDE DEF report, props, source, q
    <2>8. /\ p \in Plan /\ p.profile = q /\ p.url = report.url /\ p.source = source
      BY <2>3, <2>5, <2>6, <2>7 DEF Plan, InvokeInput
    <2> HIDE DEF p
    <2>9. Registry' /\ Grows
      <3>1. CASE req.session \in DOMAIN sessions
        <4>1. /\ S!CapturePlan(req.session) \/ S!CaptureTooLarge(req.session)
              /\ captured' = Append(captured, p) /\ UNCHANGED opened
          BY <2>1, <3>1 DEF Capture
        <4>2. QED
          BY <1>2, <2>8, <3>1, <4>1, CaptureKeeps DEF IInv
      <3>2. CASE req.session \notin DOMAIN sessions
        BY <1>1, <2>1, <3>2, Quiet DEF Capture
      <3>3. QED
        BY <3>1, <3>2
    <2>10. CASE in.dryRun
      BY <1>1, <1>2, <2>1, <2>9, <2>10, EarlyAnswer
    <2>11. CASE ~in.dryRun
      <3> DEFINE s == [call[c] EXCEPT !.pc = "check", !.plan = p]
      <3>1. call' = [call EXCEPT ![c] = s]
        BY <2>1, <2>11
      <3>2. /\ s \in CallState /\ s.pc = "check" /\ s.req = req /\ s.plan = p
            /\ s.project = call[c].project /\ s.profile = call[c].profile
            /\ s.shared = call[c].shared /\ s.local = call[c].local
        BY <2>2, <2>8 DEF CallState, PCs
      <3> HIDE DEF s
      <3>3. InItsSession(s) /\ Replays(s)
        BY <1>1, <2>2, <3>2 DEF GoodCall, InItsSession, Replays, Settled
      <3>4. /\ Sources(s.shared, s.local) = Src(c)
            /\ ActiveProfile(Or(s.req.in.profile, s.profile), Src(c)) = q
        BY <3>2 DEF Src, q, EffectiveProfile
      <3>5. Honours(s)
        BY <2>5, <2>7, <2>8, <3>2, <3>4 DEF Honours
      <3>6. GoodCall(s)
        BY <3>2, <3>3, <3>5 DEF GoodCall
      <3>7. QED
        BY <1>2, <2>2, <2>9, <3>1, <3>2, <3>6, OneCallGoesOn
    <2>12. QED
      BY <2>10, <2>11
  <1>6. QED
    BY <1>4, <1>5

(* A call that goes on with its plan keeps all it has found out. *)
LEMMA SamePlan ==
  ASSUME NEW r, GoodCall(r), r.pc \in {"check", "queued"},
         NEW pc \in {"rejected", "queued", "sending"}, NEW s, s = [r EXCEPT !.pc = pc],
         pc \in {"queued", "sending"} => Validate(env.guard, Sources(r.shared, r.local), r.plan),
         pc = "sending" => Executable(r.plan)
  PROVE  GoodCall(s) /\ s.pc = pc
  <1>1. /\ s \in CallState /\ s.pc = pc /\ s.req = r.req /\ s.plan = r.plan
        /\ s.project = r.project /\ s.profile = r.profile
        /\ s.shared = r.shared /\ s.local = r.local
    BY DEF GoodCall, CallState, PCs
  <1>2. InItsSession(s) /\ Replays(s)
    BY <1>1 DEF GoodCall, InItsSession, Replays, Settled
  <1>3. Honours(r) => Honours(s)
    BY <1>1 DEF Honours
  <1>4. QED
    BY <1>1, <1>2, <1>3 DEF GoodCall

LEMMA TargetKeyIs ==
  ASSUME NEW plan \in Plan
  PROVE  TargetKey(plan) \in LimitKeys
  BY DialAssumption DEF TargetKey, LimitKeys, Plan

LEMMA CheckPolicyKeeps == ASSUME IInv, NEW c \in Callers, CheckPolicy(c) PROVE IInv'
  <1> DEFINE plan == call[c].plan
             k == TargetKey(plan)
  <1>1. call[c].pc = "check" /\ UNCHANGED <<worldVars, sessionVars>>
    BY DEF CheckPolicy
  <1>2. Registry' /\ Grows /\ UNCHANGED files
    BY <1>1, Quiet DEF worldVars
  <1>3. /\ call[c] \in CallState /\ GoodCall(call[c]) /\ status[c] = "outside"
        /\ status \in [Callers -> {"outside", "asking", "inside"}]
    BY <1>1 DEF IInv, InPlace, World
  <1>4. k \in LimitKeys
    BY <1>3, TargetKeyIs DEF CallState
  <1>5. CASE Validate(env.guard, Src(c), plan)
    <2> DEFINE s == [call[c] EXCEPT !.pc = "queued"]
    <2>1. B!Ask(c, k) /\ call' = [call EXCEPT ![c] = s]
      BY <1>5 DEF CheckPolicy
    <2> HIDE DEF k
    <2>2. /\ World' /\ status'[c] = "asking" /\ \A d \in Callers \ {c} : status'[d] = status[d]
      BY <1>2, <1>3, <1>4, <2>1 DEF B!Ask, IInv, World
    <2>3. GoodCall(s) /\ s.pc = "queued"
      BY <1>1, <1>3, <1>5, SamePlan DEF Src
    <2> HIDE DEF s
    <2>4. QED
      BY <1>2, <2>1, <2>2, <2>3, OneCallGoesOn
  <1>6. CASE ~Validate(env.guard, Src(c), plan)
    <2> DEFINE s == [call[c] EXCEPT !.pc = "rejected"]
    <2>1. UNCHANGED limiterVars /\ call' = [call EXCEPT ![c] = s]
      BY <1>6 DEF CheckPolicy
    <2>2. World' /\ UNCHANGED status
      BY <1>2, <2>1 DEF IInv, World, limiterVars
    <2>3. GoodCall(s) /\ s.pc = "rejected"
      BY <1>1, <1>3, SamePlan
    <2> HIDE DEF s
    <2>4. QED
      BY <1>2, <1>3, <2>1, <2>2, <2>3, OneCallGoesOn
  <1>7. QED
    BY <1>5, <1>6

(* A call that has left the limiter, or was turned away. *)
LEMMA AnswerOutside ==
  ASSUME IInv, NEW c \in Callers, Answer(c), UNCHANGED <<worldVars, sessionVars, dest>>,
         status' = [status EXCEPT ![c] = "outside"]
  PROVE  IInv'
  <1>1. Registry' /\ Grows
    BY Quiet
  <1>2. World' /\ status'[c] = "outside" /\ \A d \in Callers \ {c} : status'[d] = status[d]
    BY DEF IInv, World, worldVars
  <1>3. Idle.pc = "idle"
    BY DEF Idle
  <1>4. QED
    BY <1>1, <1>2, <1>3, IdleIsGood, OneCallGoesOn DEF Answer

LEMMA AdmittedKeeps == ASSUME IInv, NEW c \in Callers, Admitted(c) PROVE IInv'
  <1>1. /\ call[c].pc = "queued" /\ UNCHANGED <<worldVars, sessionVars, dest, call>>
        /\ status' = [status EXCEPT ![c] = "inside"]
    BY DEF Admitted, B!Admit
  <1>2. Registry' /\ Grows
    BY <1>1, Quiet
  <1>3. World' /\ status'[c] = "inside" /\ \A d \in Callers \ {c} : status'[d] = status[d]
    BY <1>1 DEF IInv, World, worldVars
  <1>4. GoodCall(call[c]) /\ call' = [call EXCEPT ![c] = call[c]]
    BY <1>1 DEF IInv
  <1>5. QED
    BY <1>1, <1>2, <1>3, <1>4, OneCallGoesOn

LEMMA ExecuteKeeps == ASSUME IInv, NEW c \in Callers, Execute(c) PROVE IInv'
  <1>1. /\ call[c].pc = "queued" /\ status[c] = "inside" /\ UNCHANGED <<worldVars, sessionVars>>
    BY DEF Execute
  <1>2. CASE Executable(call[c].plan)
    <2> DEFINE s == [call[c] EXCEPT !.pc = "sending"]
    <2>1. call' = [call EXCEPT ![c] = s] /\ UNCHANGED limiterVars
      BY <1>2 DEF Execute
    <2>2. Registry' /\ Grows /\ World' /\ UNCHANGED status
      BY <1>1, <2>1, Quiet DEF IInv, World, worldVars, limiterVars
    <2>3. GoodCall(call[c])
      BY DEF IInv
    <2>4. Validate(env.guard, Sources(call[c].shared, call[c].local), call[c].plan)
      BY <1>1, <2>3 DEF GoodCall
    <2>5. GoodCall(s) /\ s.pc = "sending"
      BY <1>1, <1>2, <2>3, <2>4, SamePlan
    <2> HIDE DEF s
    <2>6. QED
      BY <1>1, <2>1, <2>2, <2>5, OneCallGoesOn
  <1>3. CASE ~Executable(call[c].plan)
    BY <1>1, <1>3, AnswerOutside DEF Execute, B!Leave
  <1>4. QED
    BY <1>2, <1>3

(* Files are rewritten under the calls: what a call has read it keeps. *)
LEMMA EditFileKeeps == ASSUME IInv, NEW p \in Edited, EditFile(p) PROVE IInv'
  <1>1. UNCHANGED <<env, limiterVars, sessionVars, call>> /\ p \in Projects
    BY ToolCallsAssumption DEF EditFile
  <1>2. files' \in [Projects -> [shared : SharedFiles, local : LocalFiles]]
    BY <1>1 DEF EditFile, IInv, World
  <1>3. Registry' /\ World'
    BY <1>1, <1>2 DEF IInv, Registry, World, Logged, sessionVars, limiterVars
  <1>4. ASSUME NEW c \in Callers PROVE GoodCall(call[c])' /\ InPlace(c)'
    <2>1. GoodCall(call[c]) /\ InPlace(c)
      BY DEF IInv
    <2>2. QED
      BY <1>1, <2>1 DEF GoodCall, InItsSession, Replays, Logged, InPlace, Executable,
                        sessionVars, limiterVars
  <1>5. QED
    BY <1>1, <1>3, <1>4 DEF IInv

LEMMA StepInv == IInv /\ [Next]_vars => IInv'
  <1> SUFFICES ASSUME IInv, [Next]_vars PROVE IInv'
    OBVIOUS
  <1>1. ASSUME NEW c \in Callers, AnswerRejected(c) PROVE IInv'
    <2>1. /\ call[c].pc = "rejected" /\ Answer(c)
          /\ UNCHANGED <<worldVars, limiterVars, sessionVars>>
      BY <1>1 DEF AnswerRejected
    <2>2. Registry' /\ Grows /\ World' /\ UNCHANGED status
      BY <2>1, Quiet DEF IInv, World, worldVars, limiterVars
    <2>3. QED
      BY <2>1, <2>2, EarlyAnswer
  <1>2. ASSUME NEW c \in Callers, TurnedAway(c) PROVE IInv'
    BY <1>2, AnswerOutside DEF TurnedAway, B!TurnAway
  <1>3. ASSUME NEW c \in Callers, Finish(c) PROVE IInv'
    BY <1>3, AnswerOutside DEF Finish, B!Leave
  <1>4. CASE UNCHANGED vars
    <2>1. UNCHANGED <<worldVars, limiterVars, sessionVars, call, files, env, status, dest>>
      BY <1>4 DEF vars, worldVars, limiterVars
    <2>2. Registry' /\ World'
      BY <2>1, Quiet DEF IInv, World
    <2>3. ASSUME NEW c \in Callers PROVE GoodCall(call[c])' /\ InPlace(c)'
      <3>1. GoodCall(call[c]) /\ InPlace(c)
        BY DEF IInv
      <3>2. QED
        BY <2>1, <3>1 DEF GoodCall, InItsSession, Replays, Logged, InPlace, Executable, sessionVars
    <2>4. QED
      BY <2>1, <2>2, <2>3 DEF IInv
  <1>5. QED
    BY <1>1, <1>2, <1>3, <1>4, BeginOpenKeeps, BeginInvokeKeeps, BeginReplayKeeps,
       ExtractPlanKeeps, ExtractPlanByIdKeeps, LookupSessionKeeps, ReadSharedKeeps, ReadLocalKeeps,
       OpenSessionKeeps, BuildPlanKeeps, CheckPolicyKeeps, AdmittedKeeps, ExecuteKeeps,
       EditFileKeeps DEF Next

LEMMA Inductive == Spec => []IInv
  BY InitInv, StepInv, PTL DEF Spec

-----------------------------------------------------------------------------
(* A request leaves for the network only within the policy of the files     *)
(* its call has read, however its plan came about and whatever was          *)
(* rewritten meanwhile.                                                     *)
THEOREM RequestsWithinPolicy == Spec => []SentWithinPolicy
  <1>1. IInv => SentWithinPolicy
    <2> SUFFICES ASSUME IInv, NEW c \in Callers, call[c].pc = "sending"
                 PROVE  LET plan  == call[c].plan
                            local == call[c].local
                            list  == IF local.status = "ok" /\ local.allow.listed THEN local.allow
                                     ELSE call[c].shared.allow
                        IN  /\ env.guard.allowInvoke
                            /\ "broken" \notin {call[c].shared.status, local.status}
                            /\ list.listed
                            /\ {plan.service, Wildcard} \cap list.services # {}
                            /\ env.guard.allowOverride \/ Dial[plan.url] = Dial[Ambient(Src(c)).url]
                            /\ env.guard.hosts # {} => Dial[plan.url] \in env.guard.hosts
      BY DEF SentWithinPolicy
    <2>1. Validate(env.guard, Src(c), call[c].plan) /\ Executable(call[c].plan)
      BY DEF IInv, GoodCall, Src
    <2>2. env.guard.allowInvoke /\ "broken" \notin {call[c].shared.status, call[c].local.status}
      BY <2>1 DEF Validate, Src, Sources
    <2>3. /\ env.guard.allowOverride \/ Dial[call[c].plan.url] = Dial[Ambient(Src(c)).url]
          /\ env.guard.hosts # {} => Dial[call[c].plan.url] \in env.guard.hosts
      BY <2>1 DEF Validate, Executable, TargetAllowed, SameDirectTarget, HostAllowed
    <2> DEFINE list == IF call[c].local.status = "ok" /\ call[c].local.allow.listed
                       THEN call[c].local.allow ELSE call[c].shared.allow
    <2>4. list.listed /\ {call[c].plan.service, Wildcard} \cap list.services # {}
      <3>1. /\ ServiceAllowlist(Src(c)).listed
            /\ {call[c].plan.service, Wildcard} \cap ServiceAllowlist(Src(c)).services # {}
        BY <2>1 DEF Validate, ServiceAllowed
      <3>2. AbsentFile.allow.listed = FALSE
        BY DEF AbsentFile
      <3>3. ServiceAllowlist(Src(c)) = list
        BY <3>1, <3>2 DEF ServiceAllowlist, Src, Sources, Loaded
      <3>4. QED
        BY <3>1, <3>3
    <2>5. QED
      BY <2>2, <2>3, <2>4
  <1>2. QED
    BY <1>1, Inductive, PTL

(* A call works for the project of its session, and is in the limiter       *)
(* exactly while it waits or sends.                                         *)
THEOREM CallsInPlace == Spec => []CallsKeepTheirPlace
  <1>1. IInv => TypeOK
    BY DEF IInv, World, Registry, GoodCall, CallState, InPlace, TypeOK
  <1>2. IInv => SafetyContextIsTheSessions
    BY DEF IInv, GoodCall, InItsSession, Settled, SafetyContextIsTheSessions
  <1>3. QED
    BY <1>1, <1>2, Inductive, PTL DEF CallsKeepTheirPlace

(* A plan is built under the profile that the call, its session or the      *)
(* config chose, goes where that profile points, and bypasses the contract  *)
(* only where the mode allows it.                                           *)
THEOREM SelectionIsHonoured == Spec => []PlanHonoursSelection
  <1>1. IInv => PlanHonoursSelection
    <2> SUFFICES ASSUME IInv, NEW c \in Callers, call[c].req.tool = "invoke",
                        call[c].pc \in {"check", "queued", "sending"}
                 PROVE  LET req    == call[c].req
                            plan   == call[c].plan
                            pinned == IF req.session = None THEN None ELSE opened[req.session].profile
                            p      == ActiveProfile(Or(req.in.profile, pinned), Src(c))
                            own    == OwnUrls(Src(c), p)
                        IN  /\ plan.profile = p
                            /\ p # None => p \in DOMAIN Src(c).shared.profiles \cup DOMAIN Src(c).local.profiles
                            /\ req.in.url # None => plan.url = req.in.url
                            /\ p # None /\ req.in.url = None /\ own # {} => plan.url \in own
                            /\ plan.source = "trusted" => req.in.mode # "strict" /\ req.in.complete
      BY DEF PlanHonoursSelection, OwnUrls
    <2>1. GoodCall(call[c]) /\ Honours(call[c])
      BY DEF IInv, GoodCall
    <2>2. call[c].profile = IF call[c].req.session = None THEN None ELSE opened[call[c].req.session].profile
      BY <2>1 DEF GoodCall, InItsSession, Settled
    <2>3. QED
      BY <2>1, <2>2 DEF Honours, Src, ProfileDefined
  <1>2. QED
    BY <1>1, Inductive, PTL

-----------------------------------------------------------------------------
(* Replays.  The sessions remember what the registry's proofs say, and a    *)
(* call has no plan before it takes one.                                    *)
Unfilled ==
  \A c \in Callers :
    /\ call[c].pc = "idle" => call[c] = Idle
    /\ call[c].pc \in {"extract", "planById"} /\ call[c].req.plan = NoPlan => call[c].plan = NoPlan

Memory == Proved!Numbered /\ Proved!HistoryIsRecentCaptures

(* Every step is one of the registry's or leaves it alone. *)
LEMMA RegistryStep ==
  ASSUME IInv, [Next]_vars PROVE [Proved!Next]_(Proved!vars)
  <1>1. UNCHANGED <<sessions, issued, attempts, log>> => UNCHANGED Proved!vars
    BY DEF Proved!vars
  <1>2. ASSUME NEW id \in SessionIds,
               S!Create(id) \/ S!Get(id) \/ S!CapturePlan(id) \/ S!CaptureTooLarge(id)
        PROVE  Proved!Next
    BY <1>2, SameCreate, SameSteps DEF Proved!Next
  <1>3. DOMAIN sessions \subseteq SessionIds
    BY DEF IInv, Registry
  <1>4. ASSUME NEW c \in Callers, ExtractPlan(c) \/ LookupSession(c) PROVE [Proved!Next]_(Proved!vars)
    <2>1. \/ UNCHANGED <<sessions, issued, attempts, log>>
          \/ \E id \in DOMAIN sessions : S!Get(id)
      BY <1>4 DEF ExtractPlan, LookupSession
    <2>2. QED
      BY <1>1, <1>2, <1>3, <2>1
  <1>5. ASSUME NEW c \in Callers, OpenSession(c) PROVE [Proved!Next]_(Proved!vars)
    <2>1. UNCHANGED sessionVars \/ \E id \in SessionIds : S!Create(id)
      BY <1>5 DEF OpenSession
    <2>2. QED
      BY <1>1, <1>2, <2>1 DEF sessionVars
  <1>6. ASSUME NEW c \in Callers, BuildPlan(c) PROVE [Proved!Next]_(Proved!vars)
    <2>1. \/ UNCHANGED sessionVars
          \/ \E id \in DOMAIN sessions : S!CapturePlan(id) \/ S!CaptureTooLarge(id)
      BY <1>6 DEF BuildPlan, Capture
    <2>2. QED
      BY <1>1, <1>2, <1>3, <2>1 DEF sessionVars
  <1>7. ASSUME NEW c \in Callers,
               \/ BeginOpen(c) \/ BeginInvoke(c) \/ BeginReplay(c) \/ ExtractPlanById(c)
               \/ ReadShared(c) \/ ReadLocal(c) \/ CheckPolicy(c) \/ AnswerRejected(c)
               \/ Admitted(c) \/ TurnedAway(c) \/ Execute(c) \/ Finish(c)
        PROVE  UNCHANGED sessionVars
    <2>1. BeginOpen(c) \/ BeginInvoke(c) \/ BeginReplay(c) => \E req : Begin(c, req)
      BY DEF BeginOpen, BeginInvoke, BeginReplay
    <2>2. (\E req : Begin(c, req)) => UNCHANGED sessionVars
      BY DEF Begin
    <2>3. ExtractPlanById(c) \/ ReadShared(c) \/ ReadLocal(c) => UNCHANGED sessionVars
      BY DEF ExtractPlanById, ReadShared, ReadLocal
    <2>4. CheckPolicy(c) \/ AnswerRejected(c) \/ Admitted(c) => UNCHANGED sessionVars
      BY DEF CheckPolicy, AnswerRejected, Admitted
    <2>5. TurnedAway(c) \/ Execute(c) \/ Finish(c) => UNCHANGED sessionVars
      BY DEF TurnedAway, Execute, Finish
    <2>6. QED
      BY <1>7, <2>1, <2>2, <2>3, <2>4, <2>5
  <1>8. (\E p \in Edited : EditFile(p)) \/ UNCHANGED vars => UNCHANGED sessionVars
    BY DEF EditFile, vars
  <1>9. QED
    BY <1>1, <1>4, <1>5, <1>6, <1>7, <1>8 DEF Next, sessionVars

LEMMA MemoryKeeps == IInv /\ Memory /\ [Next]_vars => Memory'
  BY RegistryConstants, RegistryTyped, RegistryStep, Proved!NextHistory DEF Memory, IInv

(* A step answers a call, leaves it alone, or changes neither its request  *)
(* nor its plan; a call does not come back to where it takes a plan.       *)
Keeps(c) ==
  \/ call'[c] \in {call[c], Idle}
  \/ /\ call'[c].plan = call[c].plan /\ call'[c].req = call[c].req
     /\ call'[c].pc # "idle" /\ call[c].pc # "idle"
     /\ call'[c].pc \in {"extract", "planById"} => call[c].pc \in {"extract", "planById"}

Starts(c) ==
  /\ call[c].pc = "idle" /\ call'[c].pc # "idle"
  /\ call'[c].plan = call'[c].req.plan

Plans(c) == call[c].req.tool = "invoke" /\ call'[c].pc \notin {"idle", "extract", "planById"}

Fetches(c) ==
  /\ call'[c].pc \notin {"idle", "extract", "planById"}
  /\ call[c].pc \in {"extract", "planById"}
  /\ \E n \in Nat :
       /\ UsePlan(c, n)
       /\ \/ ExtractPlan(c) /\ call[c].req.planId = 0 /\ n = sessions[call[c].req.session].lastPlan
          \/ ExtractPlanById(c) /\ n = call[c].req.planId /\ HasPlan(call[c].req.session, n)

LEMMA StepsOfPlans ==
  ASSUME IInv, [Next]_vars, NEW c \in Callers
  PROVE  Keeps(c) \/ Starts(c) \/ Plans(c) \/ Fetches(c)
  <1> DEFINE Goal == Keeps(c) \/ Starts(c) \/ Plans(c) \/ Fetches(c)
  <1>0. call \in [Callers -> CallState]
    BY DEF IInv
  <1>1. ASSUME NEW d \in Callers, Answer(d) PROVE Goal
    BY <1>0, <1>1 DEF Answer, Keeps
  <1>2. ASSUME NEW d \in Callers, NEW req, Begin(d, req) PROVE Goal
    <2> DEFINE v == [Idle EXCEPT !.pc = FirstStep(req), !.req = req, !.plan = req.plan,
                                 !.project = Or(req.cwd, ServerRoot)]
    <2>1. call[d].pc = "idle" /\ call' = [call EXCEPT ![d] = v]
      BY <1>2 DEF Begin
    <2>2. v.plan = v.req.plan /\ v.pc # "idle"
      BY DEF Idle, FirstStep, ScopeStart
    <2> HIDE DEF v
    <2>3. QED
      BY <1>0, <2>1, <2>2 DEF Keeps, Starts
  <1>3. ASSUME NEW d \in Callers, BeginOpen(d) \/ BeginInvoke(d) \/ BeginReplay(d) PROVE Goal
    <2>1. \E req : Begin(d, req)
      BY <1>3 DEF BeginOpen, BeginInvoke, BeginReplay
    <2>2. QED
      BY <1>2, <2>1
  <1>4. ASSUME NEW d \in Callers, ReadShared(d) \/ ReadLocal(d) PROVE Goal
    BY <1>0, <1>4 DEF ReadShared, ReadLocal, ScopeEnd, CallState, Keeps
  <1>5. ASSUME NEW d \in Callers, LookupSession(d) PROVE Goal
    <2>1. CASE Answer(d)
      BY <1>1, <2>1
    <2>2. CASE ~Answer(d)
      BY <1>0, <1>5, <2>2 DEF LookupSession, ScopeEnd, CallState, Keeps
    <2>3. QED
      BY <2>1, <2>2
  <1>6. ASSUME NEW d \in Callers, OpenSession(d) \/ AnswerRejected(d) \/ TurnedAway(d) \/ Finish(d) PROVE Goal
    BY <1>1, <1>6 DEF OpenSession, AnswerRejected, TurnedAway, Finish
  <1>7. ASSUME NEW d \in Callers, BuildPlan(d) PROVE Goal
    <2>1. CASE Answer(d)
      BY <1>1, <2>1
    <2>2. CASE ~Answer(d)
      <3>1. /\ call[d].req.tool = "invoke"
            /\ \E plan : call' = [call EXCEPT ![d].pc = "check", ![d].plan = plan]
        BY <1>7, <2>2 DEF BuildPlan
      <3>2. QED
        BY <1>0, <3>1 DEF CallState, Keeps, Plans
    <2>3. QED
      BY <2>1, <2>2
  <1>8. ASSUME NEW d \in Callers, CheckPolicy(d) \/ Execute(d) \/ Admitted(d) PROVE Goal
    <2>1. CASE Answer(d)
      BY <1>1, <2>1
    <2>2. CASE ~Answer(d)
      BY <1>0, <1>8, <2>2 DEF CheckPolicy, Execute, Admitted, CallState, Keeps
    <2>3. QED
      BY <2>1, <2>2
  <1>9. ASSUME NEW d \in Callers, NEW n \in Nat, UsePlan(d, n), ~Answer(d),
               call[d].pc \in {"extract", "planById"}
        PROVE  IF d = c THEN call'[d].pc \notin {"idle", "extract", "planById"} ELSE call'[c] = call[c]
    BY <1>0, <1>9 DEF UsePlan, ScopeStart, CallState
  <1>10. ASSUME NEW d \in Callers, ExtractPlan(d) PROVE Goal
    <2>1. CASE Answer(d)
      BY <1>1, <2>1
    <2>2. CASE ~Answer(d) /\ call[d].req.planId # 0
      BY <1>0, <1>10, <2>2 DEF ExtractPlan, CallState, Keeps
    <2>3. CASE ~Answer(d) /\ call[d].req.planId = 0
      <3> DEFINE id == call[d].req.session
                 n == sessions[id].lastPlan
      <3>1. call[d].pc = "extract" /\ id \in DOMAIN sessions /\ UsePlan(d, n)
        BY <1>10, <2>3 DEF ExtractPlan
      <3>2. n \in Nat
        BY <3>1 DEF IInv, Registry, S!Session
      <3>3. QED
        BY <1>9, <1>10, <2>3, <3>1, <3>2 DEF Keeps, Fetches
    <2>4. QED
      BY <2>1, <2>2, <2>3
  <1>11. ASSUME NEW d \in Callers, ExtractPlanById(d) PROVE Goal
    <2>1. CASE Answer(d)
      BY <1>1, <2>1
    <2>2. CASE ~Answer(d)
      <3> DEFINE n == call[d].req.planId
      <3>1. call[d].pc = "planById" /\ HasPlan(call[d].req.session, n) /\ UsePlan(d, n)
        BY <1>11, <2>2 DEF ExtractPlanById
      <3>2. n \in Nat
        BY <1>0 DEF CallState, Request
      <3>3. QED
        BY <1>9, <1>11, <2>2, <3>1, <3>2 DEF Keeps, Fetches
    <2>3. QED
      BY <2>1, <2>2
  <1>12. (\E p \in Edited : EditFile(p)) \/ UNCHANGED vars => Goal
    BY DEF EditFile, vars, Keeps
  <1> HIDE DEF Goal
  <1>13. Goal
    BY <1>3, <1>4, <1>5, <1>6, <1>7, <1>8, <1>10, <1>11, <1>12 DEF Next
  <1>14. QED
    BY <1>13 DEF Goal

LEMMA UnfilledKeeps == IInv /\ Unfilled /\ [Next]_vars => Unfilled'
  <1> SUFFICES ASSUME IInv, Unfilled, [Next]_vars, NEW c \in Callers
               PROVE  /\ call'[c].pc = "idle" => call'[c] = Idle
                      /\ call'[c].pc \in {"extract", "planById"} /\ call'[c].req.plan = NoPlan
                           => call'[c].plan = NoPlan
    BY DEF Unfilled
  <1>1. Keeps(c) \/ Starts(c) \/ Plans(c) \/ Fetches(c)
    BY StepsOfPlans
  <1>2. Idle.pc = "idle"
    BY DEF Idle
  <1>3. QED
    BY <1>1, <1>2 DEF Unfilled, Keeps, Starts, Plans, Fetches

(* Fewer than History plans of a session are younger than one it remembers. *)
LEMMA FewAreYounger ==
  ASSUME NEW plans \in Seq(Nat), NEW fit \in SUBSET Nat, Proved!Remembers(plans, fit),
         NEW i \in DOMAIN plans
  PROVE  plans[i] \in fit /\ Cardinality({m \in fit : m > plans[i]}) < History
  <1> DEFINE young == {m \in fit : m > plans[i]}
             before == {plans[j] : j \in 1 .. i - 1}
  <1>1. /\ Len(plans) \in Nat /\ DOMAIN plans = 1 .. Len(plans) /\ \A j \in 1 .. Len(plans) : plans[j] \in Nat
        /\ Len(plans) <= History
    BY LenProperties, ElementOfSeq DEF Proved!Remembers
  <1>2. i - 1 \in Nat /\ i - 1 < History /\ 1 .. i - 1 \subseteq DOMAIN plans
    BY <1>1, ToolCallsAssumption
  <1>3. plans[i] \in fit
    BY DEF Proved!Remembers, Proved!Elements
  <1>4. ASSUME NEW m \in young PROVE m \in before
    <2>1. m \in Proved!Elements(plans)
      <3> SUFFICES ASSUME m \notin Proved!Elements(plans) PROVE FALSE
        OBVIOUS
      <3>1. plans[i] \in Proved!Elements(plans)
        BY DEF Proved!Elements
      <3>2. m < plans[i]
        BY <3>1 DEF Proved!Remembers
      <3>3. QED
        BY <1>1, <1>3, <3>2
    <2>2. PICK j \in DOMAIN plans : plans[j] = m
      BY <2>1 DEF Proved!Elements
    <2>3. ~(i < j) /\ i # j
      <3>1. i < j => plans[i] > plans[j]
        BY DEF Proved!Remembers
      <3>2. QED
        BY <1>1, <2>2, <3>1
    <2>4. j \in 1 .. i - 1
      BY <1>1, <2>3
    <2>5. QED
      BY <2>2, <2>4
  <1>5. IsFiniteSet(before) /\ Cardinality(before) <= i - 1
    <2> DEFINE f == [j \in 1 .. i - 1 |-> plans[j]]
    <2>1. f \in Surjection(1 .. i - 1, before)
      BY DEF Surjection
    <2>2. ExistsSurjection(1 .. i - 1, before)
      BY <2>1 DEF ExistsSurjection
    <2>3. QED
      BY <1>2, <2>2, FS_NatSurjection, FS_SurjCardinalityBound
  <1>6. Cardinality(young) <= Cardinality(before) /\ Cardinality(young) \in Nat /\ Cardinality(before) \in Nat
    BY <1>4, <1>5, FS_Subset, FS_CardinalityType
  <1>7. QED
    BY <1>2, <1>3, <1>5, <1>6, ToolCallsAssumption

(* A replay by session takes a plan that its session has not forgotten, and *)
(* keeps it as it was captured.                                             *)
THEOREM ReplaysAreCaptures == Spec => ReplayIsACapture
  <1> DEFINE Good(c) ==
        call[c].req.tool = "replay" /\ call[c].req.plan = NoPlan /\ call'[c].plan # NoPlan =>
          IF call[c].plan = NoPlan THEN TakesARemembered(c) ELSE call'[c].plan = call[c].plan
  <1>1. ASSUME IInv, Memory, Unfilled, [Next]_vars, NEW c \in Callers PROVE Good(c)
    <2> SUFFICES ASSUME call[c].req.tool = "replay", call[c].req.plan = NoPlan, call'[c].plan # NoPlan
                 PROVE  IF call[c].plan = NoPlan THEN TakesARemembered(c) ELSE call'[c].plan = call[c].plan
      OBVIOUS
    <2>1. Idle.plan = NoPlan /\ Idle.req.tool = "open"
      BY DEF Idle, NoRequest
    <2>2. call[c].pc # "idle" /\ call'[c] # Idle
      BY <1>1, <2>1 DEF Unfilled
    <2>3. Keeps(c) \/ Fetches(c)
      BY <1>1, <2>2, StepsOfPlans DEF Starts, Plans
    <2>4. CASE Keeps(c)
      BY <2>2, <2>4 DEF Keeps
    <2>5. CASE Fetches(c)
      <3> DEFINE id == call[c].req.session
                 kept == S!Elements(log[id]) \ {S!NoPlan}
      <3>1. call[c].plan = NoPlan
        BY <1>1, <2>5 DEF Fetches, Unfilled
      <3>2. PICK n \in Nat :
              /\ UsePlan(c, n)
              /\ \/ ExtractPlan(c) /\ call[c].req.planId = 0 /\ n = sessions[id].lastPlan
                 \/ ExtractPlanById(c) /\ n = call[c].req.planId /\ HasPlan(id, n)
        BY <2>5 DEF Fetches
      <3>3. call'[c].plan = captured[n]
        <4>1. call \in [Callers -> CallState]
          BY <1>1 DEF IInv
        <4>2. ~Answer(c)
          BY <2>2, <4>1 DEF Answer
        <4>3. QED
          BY <3>2, <4>1, <4>2 DEF UsePlan, CallState
      <3>4. ASSUME id \in DOMAIN sessions
            PROVE  /\ sessions[id].plans \in Seq(Nat) /\ kept \in SUBSET Nat
                   /\ Proved!Remembers(sessions[id].plans, kept)
                   /\ sessions[id].lastPlan = S!LastOf(log[id])
                   /\ sessions[id].lastPlan \in kept \cup {S!NoPlan}
        <4>1. sessions[id] \in S!Session /\ id \in issued /\ log[id] \in Seq(Nat)
          BY <1>1, <3>4 DEF IInv, Registry
        <4>2. /\ Proved!Remembers(sessions[id].plans, Proved!Elements(log[id]) \ {Proved!NoPlan})
              /\ sessions[id].lastPlan = Proved!LastOf(log[id])
          BY <1>1, <3>4 DEF Memory, Proved!HistoryIsRecentCaptures
        <4>3. /\ Proved!Elements(log[id]) = S!Elements(log[id]) /\ Proved!NoPlan = S!NoPlan
              /\ Proved!LastOf(log[id]) = S!LastOf(log[id])
          BY DEF Proved!Elements, S!Elements, Proved!NoPlan, S!NoPlan, Proved!LastOf, S!LastOf
        <4>4. kept \in SUBSET Nat
          BY <4>1, ElementOfSeq, LenProperties DEF S!Elements
        <4>5. sessions[id].lastPlan \in kept \cup {S!NoPlan}
          BY <1>1, <3>4 DEF IInv, Registry, Logged, S!Elements
        <4>6. QED
          BY <4>1, <4>2, <4>3, <4>4, <4>5 DEF S!Session
      <3>5. CASE ExtractPlan(c) /\ call[c].req.planId = 0 /\ n = sessions[id].lastPlan
        <4>1. id \in DOMAIN sessions /\ n # S!NoPlan
          <5>1. ~Answer(c)
            <6>1. call \in [Callers -> CallState]
              BY <1>1 DEF IInv
            <6>2. QED
              BY <2>2, <6>1 DEF Answer
          <5>2. QED
            BY <3>5, <5>1 DEF ExtractPlan
        <4>2. n \in kept /\ n = S!LastOf(log[id])
          BY <3>4, <3>5, <4>1
        <4>3. TakesARemembered(c)
          BY <3>3, <3>5, <4>1, <4>2 DEF TakesARemembered
        <4>4. QED
          BY <3>1, <4>3
      <3>6. CASE ExtractPlanById(c) /\ n = call[c].req.planId /\ HasPlan(id, n)
        <4>1. id \in DOMAIN sessions /\ n \in Nat
          BY <3>6 DEF HasPlan
        <4>2. PICK i \in DOMAIN sessions[id].plans : sessions[id].plans[i] = n
          BY <3>6 DEF HasPlan
        <4> HIDE DEF kept
        <4>3. n \in kept /\ Cardinality({m \in kept : m > n}) < History
          BY <3>4, <4>1, <4>2, FewAreYounger
        <4>4. n # 0
          BY <4>3 DEF kept, S!NoPlan
        <4>5. TakesARemembered(c)
          BY <3>3, <3>6, <4>1, <4>3, <4>4 DEF TakesARemembered, kept
        <4>6. QED
          BY <3>1, <4>5
      <3>7. QED
        BY <3>2, <3>5, <3>6
    <2>6. QED
      BY <2>3, <2>4, <2>5
  <1>2. Init => Memory /\ Unfilled
    <2>1. Init => Memory
      BY DEF Init, S!Init, Memory, Proved!Numbered, Proved!HistoryIsRecentCaptures
    <2>2. Idle.pc = "idle"
      BY DEF Idle
    <2>3. Init => Unfilled
      BY <2>2 DEF Init, Unfilled
    <2>4. QED
      BY <2>1, <2>3
  <1>3. IInv /\ Memory /\ Unfilled /\ [Next]_vars => [\A c \in Callers : Good(c)]_vars
    BY <1>1
  <1>4. QED
    BY <1>2, <1>3, Inductive, MemoryKeeps, UnfilledKeeps, PTL DEF Spec, ReplayIsACapture

-----------------------------------------------------------------------------
(* What the limiter counts, and what a call counts for. *)
LEMMA SameCardinality == \A set : B!Cardinality(set) = Cardinality(set)
  BY DEF B!Cardinality, Cardinality

LEMMA CountsAreNumbers ==
  /\ IsFiniteSet(B!Inside) /\ Cardinality(B!Inside) \in Nat
  /\ \A k : IsFiniteSet(B!InsideFor(k)) /\ Cardinality(B!InsideFor(k)) \in Nat
  <1>1. B!Inside \subseteq Callers /\ \A k : B!InsideFor(k) \subseteq Callers
    BY DEF B!Inside, B!InsideFor
  <1>2. \A set \in SUBSET Callers : IsFiniteSet(set) /\ Cardinality(set) \in Nat
    BY ToolCallsAssumption, FS_Subset, FS_CardinalityType
  <1>3. QED
    BY <1>1, <1>2

(* A call that sends is inside, under the key of the plan it executes. *)
Slots ==
  /\ limits \in [global : Nat, perTarget : Nat]
  /\ limits.global > 0 => Cardinality(B!Inside) <= limits.global
  /\ limits.perTarget > 0 => \A k \in LimitKeys : Cardinality(B!InsideFor(k)) <= limits.perTarget
  /\ \A c \in Callers :
       /\ call[c].pc = "sending" => status[c] = "inside"
       /\ call[c].pc \in {"queued", "sending"} => dest[c] = TargetKey(call[c].plan)

(* A call goes on outside of the limiter. *)
LEMMA OutsideKeeps ==
  ASSUME IInv, IInv', Slots, UNCHANGED limiterVars, NEW c \in Callers,
         call[c].pc \notin {"queued", "sending"}, \A d \in Callers \ {c} : call'[d] = call[d]
  PROVE  Slots'
  <1>1. UNCHANGED <<limits, status, dest>>
    BY DEF limiterVars
  <1>2. call'[c].pc \notin {"queued", "sending"}
    BY <1>1 DEF IInv, InPlace
  <1>3. ASSUME NEW d \in Callers
        PROVE  /\ call'[d].pc = "sending" => status'[d] = "inside"
               /\ call'[d].pc \in {"queued", "sending"} => dest'[d] = TargetKey(call'[d].plan)
    BY <1>1, <1>2 DEF Slots
  <1>4. B!Inside' = B!Inside /\ \A k : B!InsideFor(k)' = B!InsideFor(k)
    BY <1>1 DEF B!Inside, B!InsideFor
  <1>5. ASSUME NEW d \in Callers PROVE TargetKey(call[d].plan)' = TargetKey(call'[d].plan)
    BY DEF TargetKey
  <1>6. QED
    BY <1>1, <1>3, <1>4, <1>5 DEF Slots

(* One call asks, is admitted, is turned away or leaves. *)
LEMMA AskKeeps ==
  ASSUME IInv, Slots, NEW c \in Callers, call[c].pc = "check", B!Ask(c, TargetKey(call[c].plan)),
         call' = [call EXCEPT ![c].pc = "queued"]
  PROVE  Slots'
  <1>a. PICK k : k = TargetKey(call[c].plan)
    OBVIOUS
  <1>0. /\ call \in [Callers -> CallState] /\ status \in [Callers -> {"outside", "asking", "inside"}]
        /\ dest \in [Callers -> LimitKeys] /\ limits' = limits /\ status[c] = "outside"
        /\ status' = [status EXCEPT ![c] = "asking"] /\ dest' = [dest EXCEPT ![c] = k]
    BY <1>a DEF IInv, World, B!Ask
  <1>1. c \notin B!Inside /\ B!Inside' = B!Inside
    BY <1>0 DEF B!Inside
  <1>2. ASSUME NEW j PROVE B!InsideFor(j)' = B!InsideFor(j)
    <2>1. \A d \in B!Inside : d \in Callers /\ d # c
      BY <1>1 DEF B!Inside
    <2>2. \A d \in B!Inside : dest'[d] = dest[d]
      BY <1>0, <2>1
    <2>3. QED
      BY <1>1, <2>2 DEF B!InsideFor
  <1>3. ASSUME NEW d \in Callers
        PROVE  /\ call'[d].pc = "sending" => status'[d] = "inside"
               /\ call'[d].pc \in {"queued", "sending"} => dest'[d] = TargetKey(call[d].plan)
               /\ call'[d].plan = call[d].plan
    BY <1>0, <1>a DEF Slots, CallState
  <1>4. ASSUME NEW d \in Callers PROVE TargetKey(call[d].plan)' = TargetKey(call[d].plan)
    BY <1>3 DEF TargetKey
  <1>5. QED
    BY <1>0, <1>1, <1>2, <1>3, <1>4 DEF Slots

LEMMA AdmitKeeps ==
  ASSUME IInv, Slots, NEW c \in Callers, B!Admit(c), call' = call
  PROVE  Slots'
  <1>a. PICK k : k = dest[c]
    OBVIOUS
  <1>0. /\ status \in [Callers -> {"outside", "asking", "inside"}] /\ k \in LimitKeys
        /\ UNCHANGED <<limits, dest>> /\ status[c] = "asking"
        /\ status' = [status EXCEPT ![c] = "inside"]
    BY <1>a DEF IInv, World, B!Admit
  <1>1. c \notin B!Inside /\ B!Inside' = B!Inside \cup {c}
    BY <1>0 DEF B!Inside
  <1>2. c \notin B!InsideFor(k) /\ B!InsideFor(k)' = B!InsideFor(k) \cup {c}
    BY <1>0, <1>1, <1>a DEF B!InsideFor
  <1>3. \A j : j # k => B!InsideFor(j)' = B!InsideFor(j)
    BY <1>0, <1>1, <1>a DEF B!InsideFor
  <1>4. /\ limits.global > 0 => Cardinality(B!Inside) < limits.global
        /\ limits.perTarget > 0 => Cardinality(B!InsideFor(k)) < limits.perTarget
    BY <1>a, SameCardinality DEF B!Admit, B!HasRoom
  <1>5. /\ Cardinality(B!Inside') = Cardinality(B!Inside) + 1
        /\ Cardinality(B!InsideFor(k)') = Cardinality(B!InsideFor(k)) + 1
    BY <1>1, <1>2, CountsAreNumbers, FS_AddElement
  <1>6. limits' = limits /\ limits.global \in Nat /\ limits.perTarget \in Nat
    BY <1>0 DEF Slots
  <1>7. limits.global > 0 => Cardinality(B!Inside') <= limits.global
    BY <1>4, <1>5, <1>6, CountsAreNumbers
  <1>8. ASSUME limits.perTarget > 0, NEW j \in LimitKeys
        PROVE  Cardinality(B!InsideFor(j)') <= limits.perTarget
    <2>1. CASE j = k
      BY <1>4, <1>5, <1>6, <1>8, <2>1, CountsAreNumbers
    <2>2. CASE j # k
      BY <1>3, <1>8, <2>2 DEF Slots
    <2>3. QED
      BY <2>1, <2>2
  <1>9. ASSUME NEW d \in Callers
        PROVE  /\ call'[d].pc = "sending" => status'[d] = "inside"
               /\ call'[d].pc \in {"queued", "sending"} => dest'[d] = TargetKey(call[d].plan)
               /\ TargetKey(call[d].plan)' = TargetKey(call[d].plan)
    BY <1>0 DEF Slots, TargetKey
  <1>10. QED
    BY <1>6, <1>7, <1>8, <1>9, <1>0 DEF Slots

LEMMA LeaveKeeps ==
  ASSUME IInv, Slots, NEW c \in Callers, Answer(c), UNCHANGED <<limits, dest>>,
         status' = [status EXCEPT ![c] = "outside"]
  PROVE  Slots'
  <1>0. /\ call \in [Callers -> CallState] /\ status \in [Callers -> {"outside", "asking", "inside"}]
        /\ call' = [call EXCEPT ![c] = Idle] /\ Idle.pc = "idle"
    BY DEF IInv, World, Answer, Idle
  <1>1. B!Inside' \subseteq B!Inside /\ \A k : B!InsideFor(k)' \subseteq B!InsideFor(k)
    BY <1>0 DEF B!Inside, B!InsideFor
  <1>2. /\ Cardinality(B!Inside') <= Cardinality(B!Inside) /\ Cardinality(B!Inside') \in Nat
        /\ \A k : /\ Cardinality(B!InsideFor(k)') <= Cardinality(B!InsideFor(k))
                  /\ Cardinality(B!InsideFor(k)') \in Nat
    BY <1>1, CountsAreNumbers, FS_Subset, FS_CardinalityType
  <1>3. limits' = limits /\ limits.global \in Nat /\ limits.perTarget \in Nat
    BY DEF Slots
  <1>4. limits.global > 0 => Cardinality(B!Inside') <= limits.global
    BY <1>2, <1>3, CountsAreNumbers DEF Slots
  <1>5. ASSUME limits.perTarget > 0, NEW k \in LimitKeys
        PROVE  Cardinality(B!InsideFor(k)') <= limits.perTarget
    BY <1>2, <1>3, <1>5, CountsAreNumbers DEF Slots
  <1>6. ASSUME NEW d \in Callers
        PROVE  /\ call'[d].pc = "sending" => status'[d] = "inside"
               /\ call'[d].pc \in {"queued", "sending"} => dest'[d] = TargetKey(call'[d].plan)
               /\ TargetKey(call[d].plan)' = TargetKey(call'[d].plan)
    BY <1>0 DEF Slots, TargetKey
  <1>7. QED
    BY <1>3, <1>4, <1>5, <1>6 DEF Slots

LEMMA InitSlots == Init => Slots
  <1> SUFFICES ASSUME Init PROVE Slots
    OBVIOUS
  <1>1. \A c \in Callers : status[c] = "outside" /\ call[c].pc = "idle"
    BY DEF Init, Idle
  <1>2. B!Inside = {} /\ \A k : B!InsideFor(k) = {}
    BY <1>1 DEF B!Inside, B!InsideFor
  <1>3. Cardinality({}) = 0
    BY FS_EmptySet
  <1>4. limits \in [global : Nat, perTarget : Nat]
    BY ToolCallsAssumption DEF Init
  <1>5. QED
    BY <1>1, <1>2, <1>3, <1>4 DEF Slots

(* What a step is for the limiter. *)
LEMMA LimiterStep ==
  ASSUME IInv, Next
  PROVE  \/ UNCHANGED <<limiterVars, call>>
         \/ \E c \in Callers :
              \/ /\ UNCHANGED limiterVars
                 /\ call[c].pc \notin {"queued", "sending"}
                 /\ \A d \in Callers \ {c} : call'[d] = call[d]
              \/ /\ call[c].pc = "check"
                 /\ B!Ask(c, TargetKey(call[c].plan))
                 /\ call' = [call EXCEPT ![c].pc = "queued"]
              \/ B!Admit(c) /\ call' = call
              \/ /\ call[c].pc = "queued" /\ status[c] = "inside"
                 /\ UNCHANGED limiterVars
                 /\ call' = [call EXCEPT ![c].pc = "sending"]
              \/ (B!TurnAway(c) \/ B!Leave(c)) /\ Answer(c)
  <1> DEFINE Outside(c) == /\ UNCHANGED limiterVars
                           /\ call[c].pc \notin {"queued", "sending"}
                           /\ \A d \in Callers \ {c} : call'[d] = call[d]
  <1>0. call \in [Callers -> CallState]
    BY DEF IInv
  <1>1. ASSUME NEW c \in Callers, Answer(c) PROVE \A d \in Callers \ {c} : call'[d] = call[d]
    BY <1>0, <1>1 DEF Answer
  <1>2. ASSUME NEW c \in Callers, NEW req, Begin(c, req) PROVE Outside(c)
    BY <1>0, <1>2 DEF Begin
  <1>3. ASSUME NEW c \in Callers, BeginOpen(c) \/ BeginInvoke(c) \/ BeginReplay(c) PROVE Outside(c)
    <2> HIDE DEF Outside
    <2>1. QED
      BY <1>2, <1>3 DEF BeginOpen, BeginInvoke, BeginReplay
  <1>4. ASSUME NEW c \in Callers, NEW n, UsePlan(c, n) PROVE \A d \in Callers \ {c} : call'[d] = call[d]
    BY <1>0, <1>1, <1>4 DEF UsePlan
  <1>5. ASSUME NEW c \in Callers, ExtractPlan(c) PROVE Outside(c)
    <2>1. /\ call[c].pc = "extract" /\ UNCHANGED limiterVars
          /\ \/ Answer(c)
             \/ call' = [call EXCEPT ![c].pc = "planById"]
             \/ UsePlan(c, sessions[call[c].req.session].lastPlan)
      BY <1>5 DEF ExtractPlan
    <2>2. QED
      BY <1>0, <1>1, <1>4, <2>1
  <1>6. ASSUME NEW c \in Callers, ExtractPlanById(c) PROVE Outside(c)
    BY <1>1, <1>4, <1>6 DEF ExtractPlanById
  <1>7. ASSUME NEW c \in Callers, LookupSession(c) PROVE Outside(c)
    <2>1. call[c].pc = "session" /\ UNCHANGED limiterVars
      BY <1>7 DEF LookupSession
    <2> DEFINE req == call[c].req
               scope == opened[req.session]
    <2>2. \/ Answer(c)
          \/ call' = [call EXCEPT ![c].pc = IF req.cwd = None THEN "shared" ELSE ScopeEnd(req),
                                  ![c].project = scope.project, ![c].profile = scope.profile]
      <3> HIDE DEF Outside
      <3>1. QED
        BY <1>7 DEF LookupSession
    <2>3. QED
      BY <1>0, <1>1, <2>1, <2>2
  <1>8. ASSUME NEW c \in Callers, ReadShared(c) \/ ReadLocal(c) PROVE Outside(c)
    BY <1>0, <1>8 DEF ReadShared, ReadLocal
  <1>9. ASSUME NEW c \in Callers, OpenSession(c) PROVE Outside(c)
    BY <1>1, <1>9 DEF OpenSession
  <1>10. ASSUME NEW c \in Callers, BuildPlan(c) PROVE Outside(c)
    <2>1. call[c].pc = "scoped" /\ UNCHANGED limiterVars
      BY <1>10 DEF BuildPlan
    <2>2. Answer(c) \/ \E plan : call' = [call EXCEPT ![c].pc = "check", ![c].plan = plan]
      BY <1>10 DEF BuildPlan
    <2>3. QED
      BY <1>0, <1>1, <2>1, <2>2
  <1>11. ASSUME NEW c \in Callers, CheckPolicy(c)
         PROVE  \/ Outside(c)
                \/ /\ call[c].pc = "check"
                   /\ B!Ask(c, TargetKey(call[c].plan))
                   /\ call' = [call EXCEPT ![c].pc = "queued"]
    <2>1. \/ call[c].pc = "check" /\ B!Ask(c, TargetKey(call[c].plan))
                                  /\ call' = [call EXCEPT ![c].pc = "queued"]
          \/ call[c].pc = "check" /\ call' = [call EXCEPT ![c].pc = "rejected"] /\ UNCHANGED limiterVars
      BY <1>11 DEF CheckPolicy
    <2>2. QED
      BY <1>0, <2>1
  <1>12. ASSUME NEW c \in Callers, AnswerRejected(c) PROVE Outside(c)
    BY <1>1, <1>12 DEF AnswerRejected
  <1>13. ASSUME NEW c \in Callers, Admitted(c) PROVE B!Admit(c) /\ call' = call
    BY <1>13 DEF Admitted
  <1>14. ASSUME NEW c \in Callers, TurnedAway(c) \/ Finish(c) PROVE (B!TurnAway(c) \/ B!Leave(c)) /\ Answer(c)
    BY <1>14 DEF TurnedAway, Finish
  <1>15. ASSUME NEW c \in Callers, Execute(c)
         PROVE  \/ /\ call[c].pc = "queued" /\ status[c] = "inside"
                   /\ UNCHANGED limiterVars
                   /\ call' = [call EXCEPT ![c].pc = "sending"]
                \/ B!Leave(c) /\ Answer(c)
    BY <1>15 DEF Execute
  <1>16. ASSUME NEW p \in Edited, EditFile(p) PROVE UNCHANGED <<limiterVars, call>>
    BY <1>16 DEF EditFile
  <1> HIDE DEF Outside
  <1>17. CASE \E p \in Edited : EditFile(p)
    BY <1>16, <1>17
  <1>18. CASE ~\E p \in Edited : EditFile(p)
    <2>1. PICK c \in Callers :
            \/ BeginOpen(c) \/ BeginInvoke(c) \/ BeginReplay(c)
            \/ ExtractPlan(c) \/ ExtractPlanById(c)
            \/ LookupSession(c) \/ ReadShared(c) \/ ReadLocal(c)
            \/ OpenSession(c) \/ BuildPlan(c)
            \/ CheckPolicy(c) \/ AnswerRejected(c)
            \/ Admitted(c) \/ TurnedAway(c) \/ Execute(c) \/ Finish(c)
      BY <1>18 DEF Next
    <2>2. \/ Outside(c)
          \/ /\ call[c].pc = "check"
             /\ B!Ask(c, TargetKey(call[c].plan))
             /\ call' = [call EXCEPT ![c].pc = "queued"]
          \/ B!Admit(c) /\ call' = call
          \/ /\ call[c].pc = "queued" /\ status[c] = "inside"
             /\ UNCHANGED limiterVars
             /\ call' = [call EXCEPT ![c].pc = "sending"]
          \/ (B!TurnAway(c) \/ B!Leave(c)) /\ Answer(c)
      BY <1>3, <1>5, <1>6, <1>7, <1>8, <1>9, <1>10, <1>11, <1>12, <1>13, <1>14, <1>15, <2>1
    <2>3. QED
      BY <2>2 DEF Outside
  <1>19. QED
    BY <1>17, <1>18

LEMMA StepSlots == IInv /\ IInv' /\ Slots /\ [Next]_vars => Slots'
  <1> SUFFICES ASSUME IInv, IInv', Slots, [Next]_vars PROVE Slots'
    OBVIOUS
  <1>1. CASE UNCHANGED <<limiterVars, call>>
    <2>1. B!Inside' = B!Inside /\ \A k : B!InsideFor(k)' = B!InsideFor(k)
      BY <1>1 DEF B!Inside, B!InsideFor, limiterVars
    <2>2. QED
      BY <1>1, <2>1 DEF Slots, TargetKey, limiterVars
  <1>2. ASSUME NEW c \in Callers, call[c].pc = "queued", status[c] = "inside",
               UNCHANGED limiterVars, call' = [call EXCEPT ![c].pc = "sending"]
        PROVE  Slots'
    <2>1. B!Inside' = B!Inside /\ \A k : B!InsideFor(k)' = B!InsideFor(k)
      BY <1>2 DEF B!Inside, B!InsideFor, limiterVars
    <2>2. ASSUME NEW d \in Callers
          PROVE  /\ call'[d].pc = "sending" => status[d] = "inside"
                 /\ call'[d].pc \in {"queued", "sending"} => dest[d] = TargetKey(call[d].plan)
                 /\ call'[d].plan = call[d].plan
      BY <1>2 DEF Slots, IInv, CallState
    <2>3. ASSUME NEW d \in Callers PROVE TargetKey(call[d].plan)' = TargetKey(call[d].plan)
      BY <2>2 DEF TargetKey
    <2>4. QED
      BY <1>2, <2>1, <2>2, <2>3 DEF Slots, limiterVars
  <1>3. CASE UNCHANGED vars
    BY <1>1, <1>3 DEF vars
  <1>4. CASE Next
    <2>1. ASSUME NEW c \in Callers, (B!TurnAway(c) \/ B!Leave(c)) /\ Answer(c) PROVE Slots'
      BY <2>1, LeaveKeeps DEF B!TurnAway, B!Leave
    <2>2. QED
      BY <1>1, <1>2, <1>4, <2>1, LimiterStep, OutsideKeeps, AskKeeps, AdmitKeeps
  <1>5. QED
    BY <1>3, <1>4

(* However the plans came about and however their addresses are written:    *)
(* no more requests are under way, over all and to one address, than the    *)
(* limiter allows.                                                          *)
THEOREM SendersWithinLimits == Spec => []WireWithinLimits
  <1>1. IInv /\ Slots => WireWithinLimits
    <2> SUFFICES ASSUME IInv, Slots PROVE WireWithinLimits
      OBVIOUS
    <2> DEFINE sending == {c \in Callers : call[c].pc = "sending"}
               sendingTo(a) == {c \in sending : Dial[call[c].plan.url] = a}
    <2>1. sending \subseteq B!Inside
      BY DEF Slots, B!Inside
    <2>2. ASSUME NEW a \in Addrs PROVE sendingTo(a) \subseteq B!InsideFor(a) /\ a \in LimitKeys
      <3>1. ASSUME NEW c \in sendingTo(a) PROVE dest[c] = a
        <4>1. Executable(call[c].plan) /\ dest[c] = TargetKey(call[c].plan)
          BY DEF IInv, GoodCall, Slots
        <4>2. QED
          BY <4>1 DEF Executable, TargetKey
      <3>2. QED
        BY <2>1, <3>1 DEF B!InsideFor, LimitKeys
    <2> HIDE DEF sending
    <2>3. Cardinality(sending) <= Cardinality(B!Inside) /\ Cardinality(sending) \in Nat
      BY <2>1, CountsAreNumbers, FS_Subset, FS_CardinalityType
    <2>4. ASSUME NEW a \in Addrs
          PROVE  /\ Cardinality(sendingTo(a)) <= Cardinality(B!InsideFor(a))
                 /\ Cardinality(sendingTo(a)) \in Nat
      <3> HIDE DEF sendingTo
      <3>1. QED
        BY <2>2, CountsAreNumbers, FS_Subset, FS_CardinalityType
    <2>5. limits.global \in Nat /\ limits.perTarget \in Nat
      BY DEF Slots
    <2>6. limits.global > 0 => Cardinality(sending) <= limits.global
      BY <2>3, <2>5, CountsAreNumbers DEF Slots
    <2>7. ASSUME limits.perTarget > 0, NEW a \in Addrs
          PROVE  Cardinality(sendingTo(a)) <= limits.perTarget
      <3> HIDE DEF sendingTo
      <3>1. Cardinality(B!InsideFor(a)) <= limits.perTarget
        BY <2>2, <2>7 DEF Slots
      <3>2. QED
        BY <2>4, <2>5, <3>1, CountsAreNumbers
    <2>8. QED
      BY <2>6, <2>7 DEF WireWithinLimits, sending
  <1>2. Spec => []Slots
    BY Inductive, InitSlots, StepSlots, PTL DEF Spec
  <1>3. QED
    BY <1>1, <1>2, Inductive, PTL

(* What the calls of a server do with the limiter is what a bulkhead        *)
(* allows, so that InvokeLimiter, which implements one, may stand for it.   *)
THEOREM CallsKeepToTheBulkhead == Spec => B!Spec
  <1>1. Init => B!Init
    BY ToolCallsAssumption DEF Init, B!Init, LimitKeys
  <1>2. IInv /\ [Next]_vars => [B!Next]_(B!vars)
    <2> SUFFICES ASSUME IInv, [Next]_vars PROVE [B!Next]_(B!vars)
      OBVIOUS
    <2>1. CASE UNCHANGED limiterVars
      BY <2>1 DEF limiterVars, B!vars
    <2>2. ASSUME NEW c \in Callers, B!Ask(c, TargetKey(call[c].plan)) PROVE B!Next
      <3>1. TargetKey(call[c].plan) \in LimitKeys
        BY TargetKeyIs DEF IInv, CallState
      <3>2. QED
        BY <2>2, <3>1 DEF B!Next
    <2>3. ASSUME NEW c \in Callers, B!Admit(c) \/ B!TurnAway(c) \/ B!Leave(c) PROVE B!Next
      BY <2>3 DEF B!Next
    <2>4. CASE UNCHANGED vars
      BY <2>1, <2>4 DEF vars
    <2>5. QED
      BY <2>1, <2>2, <2>3, <2>4, LimiterStep
  <1>3. QED
    BY <1>1, <1>2, Inductive, PTL DEF Spec, B!Spec

=============================================================================
