------------------------- MODULE ConfigFiles_proofs -------------------------
(***************************************************************************)
(* Proofs about the writers of a project's configuration files, for any    *)
(* number of writers, any profile names and any files in the beginning.    *)
(***************************************************************************)
EXTENDS ConfigFiles, TLAPS

(* Where the body of a writer is decided, and where the file is about to be replaced. *)
Prepares == {"ignore", "stat", "create", "write", "rename"}
Replaces == {"create", "write", "rename"}

(* A temporary file exists only while it is written, and is whole when it  *)
(* is renamed.                                                             *)
TempIsWhole == \A w \in Writers : pc[w] = "rename" => tmp[w] = "whole"

BodiesAreWhole == \A w \in Writers : body[w].text # "torn"

(* A writer of a local file is past the .gitignore step once it touches it. *)
IgnoresFirst ==
  \A w \in Writers : pc[w] \in Replaces \cup {"stat"} /\ K(w) = "local" => ignored

SeenIsPast == \A w \in Writers : seen[w] <= version[K(w)]

(* An initialization goes on only past a file it did not see. *)
RunSawNothing ==
  \A w \in Writers :
    pc[w] \in Replaces /\ op[w].do = "run" /\ ~op[w].force /\ version[K(w)] = seen[w]
      => ~Exists(K(w))

(* What an edit makes of a file: Merged, as a function of the operation.   *)
Edited(o, w, old) ==
  [old EXCEPT !.text = "json",
              !.default = IF o.setDefault THEN o.name ELSE @,
              !.profiles = IF o.do = "use" THEN @
                           ELSE [n \in DOMAIN @ \cup {o.name} |->
                                   IF n = o.name THEN w ELSE @[n]]]

(* As long as nobody has replaced the file, an edit's body is that file,   *)
(* edited, and the edit is one the writer was allowed to make.             *)
BodyIsAnEdit ==
  \A w \in Writers :
    pc[w] \in Prepares /\ op[w].do # "run" /\ version[K(w)] = seen[w]
      => /\ body[w] = Edited(op[w], w, disk[K(w)])
         /\ Parses(K(w))
         /\ op[w].do = "profile" /\ op[w].name \in DOMAIN disk[K(w)].profiles => op[w].force

(* What is known of the files in which a selection saw its profile: it is  *)
(* in the shared file as long as that has the same version, in the local   *)
(* file until the second read, and then in what that read gave.  A         *)
(* selection goes on only with a name that it found.                       *)
FoundIsPast == \A w \in Writers : \A f \in found[w] : f[2] <= version[f[1]]
NameIsFound(w) ==
  /\ op[w].name \in names[w] => found[w] # {}
  /\ pc[w] \in Prepares \cup {"defined"} => op[w].name \in names[w]
  /\ <<"shared", version["shared"]>> \in found[w]
       => op[w].name \in DOMAIN disk["shared"].profiles
  /\ pc[w] \in {"start", "shared", "defined"} /\ <<"local", version["local"]>> \in found[w]
       => op[w].name \in DOMAIN disk["local"].profiles
  /\ pc[w] \in Prepares /\ <<"local", seen[w]>> \in found[w]
       => op[w].name \in DOMAIN body[w].profiles
  /\ pc[w] \in Prepares => body[w].default = op[w].name
NamesAreFound == \A w \in Writers : op[w].do = "use" => NameIsFound(w)

(* "shared" and "defined" are steps of a selection. *)
StepsOfUse == \A w \in Writers : pc[w] \in {"shared", "defined"} => op[w].do = "use"

Inv ==
  /\ TypeOK
  /\ NeverTorn
  /\ NoLitter
  /\ LocalIsIgnored
  /\ TempIsWhole
  /\ BodiesAreWhole
  /\ IgnoresFirst
  /\ SeenIsPast
  /\ RunSawNothing
  /\ BodyIsAnEdit
  /\ FoundIsPast
  /\ NamesAreFound
  /\ StepsOfUse

-----------------------------------------------------------------------------
(* Merged is Edited with the writer's operation. *)
LEMMA MergedIsEdited ==
  ASSUME NEW w, NEW old
  PROVE  Merged(w, old) = Edited(op[w], w, old)
  BY DEF Merged, Edited

(* An operation has its fields. *)
LEMMA OpType ==
  ASSUME NEW o \in Ops
  PROVE  /\ o.do \in {"run", "profile", "use"} /\ o.kind \in Kinds
         /\ o.setDefault \in BOOLEAN /\ o.force \in BOOLEAN /\ o.dryRun \in BOOLEAN
         /\ o.do # "run" => o.name \in Names
         /\ o.do = "use" => o.kind = "local" /\ o.setDefault
  BY DEF Ops, Op

(* The fields of a configuration. *)
LEMMA ConfigFields ==
  ASSUME NEW c \in Config
  PROVE  /\ c.text \in {"none", "json", "garbage", "torn"} /\ c.base \in Authors \cup {NoName}
         /\ c.allow \in {"unset", "blockAll", "listed"} /\ c.default \in Names \cup {NoName}
         /\ DOMAIN c.profiles \subseteq Names /\ c.profiles \in [DOMAIN c.profiles -> Authors]
         /\ c = [text |-> c.text, base |-> c.base, allow |-> c.allow,
                 default |-> c.default, profiles |-> c.profiles]
  BY DEF Config

(* An edit yields a configuration that parses and keeps the other fields. *)
LEMMA EditedIs ==
  ASSUME NEW o \in Ops, o.do # "run", NEW w \in Writers, NEW old \in Config
  PROVE  /\ Edited(o, w, old) \in Config
         /\ Edited(o, w, old).text = "json"
         /\ Edited(o, w, old).base = old.base
         /\ Edited(o, w, old).allow = old.allow
         /\ Edited(o, w, old).default = IF o.setDefault THEN o.name ELSE old.default
         /\ \A n \in DOMAIN old.profiles :
              /\ n \in DOMAIN Edited(o, w, old).profiles
              /\ Edited(o, w, old).profiles[n] =
                   IF o.do = "profile" /\ n = o.name THEN w ELSE old.profiles[n]
  <1> DEFINE new == IF o.do = "use" THEN old.profiles
                    ELSE [n \in DOMAIN old.profiles \cup {o.name} |->
                            IF n = o.name THEN w ELSE old.profiles[n]]
  <1>1. Edited(o, w, old) =
          [text |-> "json", base |-> old.base, allow |-> old.allow,
           default |-> IF o.setDefault THEN o.name ELSE old.default, profiles |-> new]
    <2>1. Edited(o, w, old) =
            [old EXCEPT !.text = "json",
                        !.default = IF o.setDefault THEN o.name ELSE old.default,
                        !.profiles = new]
      BY DEF Edited
    <2> HIDE DEF new
    <2>2. QED
      BY <2>1, ConfigFields
  <1>2. /\ new \in [DOMAIN new -> Authors]
        /\ DOMAIN new \in SUBSET Names
        /\ \A n \in DOMAIN old.profiles :
             n \in DOMAIN new /\ new[n] = IF o.do = "profile" /\ n = o.name THEN w ELSE old.profiles[n]
    BY ConfigFields, OpType DEF Authors
  <1> HIDE DEF new
  <1>3. new \in UNION {[D -> Authors] : D \in SUBSET Names}
    BY <1>2
  <1>4. QED
    BY <1>1, <1>2, <1>3, ConfigFields, OpType DEF Config

-----------------------------------------------------------------------------
Places == {"start", "shared", "defined", "ignore", "stat", "create", "write", "rename",
           "done", "dead"}

(* What initialization writes is a configuration, and so is nothing. *)
LEMMA ConfigConstants ==
  /\ NoConfig \in Config
  /\ Garbage \in Config
  /\ \A n \in Names : Written(n) \in Config
  /\ \A w \in Writers : [NoConfig EXCEPT !.text = "json", !.base = w, !.allow = "listed"] \in Config
  <1>1. NoProfiles \in [{} -> Authors] /\ {} \in SUBSET Names
    BY DEF NoProfiles
  <1>2. NoProfiles \in UNION {[D -> Authors] : D \in SUBSET Names}
    BY <1>1
  <1>3. \A n \in Names : [p \in {n} |-> Before] \in UNION {[D -> Authors] : D \in SUBSET Names}
    <2> SUFFICES ASSUME NEW n \in Names
                 PROVE  [p \in {n} |-> Before] \in UNION {[D -> Authors] : D \in SUBSET Names}
      OBVIOUS
    <2> DEFINE f == [p \in {n} |-> Before]
    <2>1. {n} \in SUBSET Names /\ f \in [{n} -> Authors]
      BY DEF Authors
    <2> HIDE DEF f
    <2>2. f \in UNION {[D -> Authors] : D \in SUBSET Names}
      BY <2>1
    <2>3. QED
      BY <2>2 DEF f
  <1>4. QED
    BY <1>2, <1>3 DEF NoConfig, Garbage, Written, Config, Authors

(* The initial states are typed. *)
LEMMA InitTypeOK == Init => TypeOK
  <1> SUFFICES ASSUME Init PROVE TypeOK
    OBVIOUS
  <1>1. disk \in [Kinds -> Config]
    BY ConfigConstants DEF Init
  <1>2. body \in [Writers -> Config]
    BY ConfigConstants DEF Init
  <1>3. QED
    BY <1>1, <1>2 DEF Init, TypeOK

(* Types are preserved, given that what is renamed is whole. *)
LEMMA NextTypeOK == TypeOK /\ TempIsWhole /\ StepsOfUse /\ [Next]_vars => TypeOK'
  <1> SUFFICES ASSUME TypeOK, TempIsWhole, StepsOfUse, [Next]_vars PROVE TypeOK'
    OBVIOUS
  <1> USE DEF TypeOK, Goto, K, plan, looked, Places
  <1>1. ASSUME NEW w \in Writers, RunCheck(w) PROVE TypeOK'
    BY <1>1, ConfigConstants, OpType DEF RunCheck, Look, Prepared
  <1>2. ASSUME NEW w \in Writers, ProfileRead(w) PROVE TypeOK'
    <2>1. Edited(op[w], w, disk[K(w)]) \in Config
      BY <1>2, EditedIs, OpType DEF ProfileRead
    <2>2. body' \in [Writers -> Config]
      BY <1>2, <2>1, MergedIsEdited DEF ProfileRead
    <2>3. pc' \in [Writers -> Places] /\ seen' \in [Writers -> Nat]
      BY <1>2, OpType DEF ProfileRead, Look, Prepared
    <2>4. QED
      BY <1>2, <2>2, <2>3 DEF ProfileRead
  <1>3. ASSUME NEW w \in Writers, UseReadShared(w) PROVE TypeOK'
    <2>1. DOMAIN disk["shared"].profiles \in SUBSET Names
      BY ConfigFields DEF Kinds
    <2>2. QED
      BY <1>3, <2>1 DEF UseReadShared, Finds, Kinds
  <1>4. ASSUME NEW w \in Writers, UseReadLocal(w) PROVE TypeOK'
    <2>1. DOMAIN disk["local"].profiles \in SUBSET Names
      BY ConfigFields DEF Kinds
    <2>2. QED
      BY <1>4, <2>1 DEF UseReadLocal, Finds, Kinds
  <1>5. ASSUME NEW w \in Writers, UseRead(w) PROVE TypeOK'
    <2>1. Edited(op[w], w, disk["local"]) \in Config
      BY <1>5, EditedIs DEF UseRead, StepsOfUse, Kinds
    <2>2. body' \in [Writers -> Config]
      BY <1>5, <2>1, MergedIsEdited DEF UseRead
    <2>3. pc' \in [Writers -> Places] /\ seen' \in [Writers -> Nat]
      BY <1>5, OpType DEF UseRead, Look, Prepared
    <2>4. QED
      BY <1>5, <2>2, <2>3 DEF UseRead
  <1>6. ASSUME NEW w \in Writers, Ignore(w) PROVE TypeOK'
    BY <1>6 DEF Ignore
  <1>7. ASSUME NEW w \in Writers, Stat(w) PROVE TypeOK'
    BY <1>7, OpType DEF Stat, Look
  <1>8. ASSUME NEW w \in Writers, CreateTemp(w) PROVE TypeOK'
    BY <1>8 DEF CreateTemp
  <1>9. ASSUME NEW w \in Writers, WriteTemp(w) PROVE TypeOK'
    BY <1>9 DEF WriteTemp
  <1>10. ASSUME NEW w \in Writers, Rename(w) PROVE TypeOK'
    <2>1. /\ tmp[w] = "whole" /\ disk' = [disk EXCEPT ![K(w)] = body[w]]
          /\ K(w) \in Kinds
      BY <1>10, OpType DEF Rename, TempIsWhole
    <2>2. disk' \in [Kinds -> Config]
      BY <2>1
    <2>3. QED
      BY <1>10, <2>1, <2>2 DEF Rename
  <1>11. ASSUME NEW w \in Writers, Fails(w) PROVE TypeOK'
    BY <1>11 DEF Fails
  <1>12. ASSUME NEW w \in Writers, Dies(w) PROVE TypeOK'
    BY <1>12 DEF Dies
  <1>13. CASE UNCHANGED vars
    BY <1>13 DEF vars
  <1>14. QED
    BY <1>1, <1>2, <1>3, <1>4, <1>5, <1>6, <1>7, <1>8, <1>9, <1>10, <1>11, <1>12, <1>13 DEF Next
-----------------------------------------------------------------------------
(* What is on disk is whole, because what is renamed is. *)
LEMMA NextWhole ==
  ASSUME TypeOK, NeverTorn, NoLitter, TempIsWhole, BodiesAreWhole, [Next]_vars
  PROVE  NeverTorn' /\ NoLitter' /\ TempIsWhole' /\ BodiesAreWhole'
  <1> USE DEF TypeOK, Goto, K, plan, looked, NeverTorn, NoLitter, TempIsWhole, BodiesAreWhole
  <1>1. ASSUME NEW w \in Writers, RunCheck(w) PROVE NeverTorn' /\ NoLitter' /\ TempIsWhole' /\ BodiesAreWhole'
    BY <1>1, OpType DEF RunCheck, Prepared, Look
  <1>2. ASSUME NEW w \in Writers, ProfileRead(w) PROVE NeverTorn' /\ NoLitter' /\ TempIsWhole' /\ BodiesAreWhole'
    <2>1. K(w) \in Kinds
      BY OpType
    <2>2. Edited(op[w], w, disk[K(w)]).text = "json"
      BY <1>2, <2>1, EditedIs DEF ProfileRead
    <2>3. BodiesAreWhole'
      BY <1>2, <2>2, MergedIsEdited DEF ProfileRead
    <2>4. QED
      BY <1>2, <2>3 DEF ProfileRead, Prepared
  <1>3. ASSUME NEW w \in Writers, UseReadShared(w) PROVE NeverTorn' /\ NoLitter' /\ TempIsWhole' /\ BodiesAreWhole'
    BY <1>3, OpType DEF UseReadShared
  <1>4. ASSUME NEW w \in Writers, UseReadLocal(w) PROVE NeverTorn' /\ NoLitter' /\ TempIsWhole' /\ BodiesAreWhole'
    BY <1>4, OpType DEF UseReadLocal
  <1>5. ASSUME NEW w \in Writers, UseRead(w) PROVE NeverTorn' /\ NoLitter' /\ TempIsWhole' /\ BodiesAreWhole'
    <2>1. Merged(w, disk["local"]).text = "json"
      BY ConfigFields DEF Merged, Kinds
    <2>2. BodiesAreWhole'
      BY <1>5, <2>1 DEF UseRead
    <2>3. QED
      BY <1>5, <2>2 DEF UseRead, Prepared
  <1>6. ASSUME NEW w \in Writers, Ignore(w) PROVE NeverTorn' /\ NoLitter' /\ TempIsWhole' /\ BodiesAreWhole'
    BY <1>6, OpType DEF Ignore
  <1>7. ASSUME NEW w \in Writers, Stat(w) PROVE NeverTorn' /\ NoLitter' /\ TempIsWhole' /\ BodiesAreWhole'
    BY <1>7, OpType DEF Stat, Look
  <1>8. ASSUME NEW w \in Writers, CreateTemp(w) PROVE NeverTorn' /\ NoLitter' /\ TempIsWhole' /\ BodiesAreWhole'
    BY <1>8, OpType DEF CreateTemp
  <1>9. ASSUME NEW w \in Writers, WriteTemp(w) PROVE NeverTorn' /\ NoLitter' /\ TempIsWhole' /\ BodiesAreWhole'
    BY <1>9, OpType DEF WriteTemp
  <1>10. ASSUME NEW w \in Writers, Rename(w) PROVE NeverTorn' /\ NoLitter' /\ TempIsWhole' /\ BodiesAreWhole'
    BY <1>10, OpType DEF Rename
  <1>11. ASSUME NEW w \in Writers, Fails(w) PROVE NeverTorn' /\ NoLitter' /\ TempIsWhole' /\ BodiesAreWhole'
    BY <1>11, OpType DEF Fails
  <1>12. ASSUME NEW w \in Writers, Dies(w) PROVE NeverTorn' /\ NoLitter' /\ TempIsWhole' /\ BodiesAreWhole'
    BY <1>12, OpType DEF Dies
  <1>13. CASE UNCHANGED vars
    BY <1>13 DEF vars
  <1>14. QED
    BY <1>1, <1>2, <1>3, <1>4, <1>5, <1>6, <1>7, <1>8, <1>9, <1>10, <1>11, <1>12, <1>13 DEF Next

(* The entry in .gitignore precedes every write of a local file. *)
LEMMA NextIgnored ==
  ASSUME TypeOK, LocalIsIgnored, IgnoresFirst, [Next]_vars
  PROVE  LocalIsIgnored' /\ IgnoresFirst'
  <1> USE DEF TypeOK, Goto, K, plan, looked, LocalIsIgnored, IgnoresFirst, Replaces
  <1>1. ASSUME NEW w \in Writers, RunCheck(w) PROVE LocalIsIgnored' /\ IgnoresFirst'
    BY <1>1, OpType DEF RunCheck, Prepared, Look
  <1>2. ASSUME NEW w \in Writers, ProfileRead(w) PROVE LocalIsIgnored' /\ IgnoresFirst'
    BY <1>2, OpType DEF ProfileRead, Prepared, Look
  <1>3. ASSUME NEW w \in Writers, UseReadShared(w) PROVE LocalIsIgnored' /\ IgnoresFirst'
    BY <1>3, OpType DEF UseReadShared
  <1>4. ASSUME NEW w \in Writers, UseReadLocal(w) PROVE LocalIsIgnored' /\ IgnoresFirst'
    BY <1>4, OpType DEF UseReadLocal
  <1>5. ASSUME NEW w \in Writers, UseRead(w) PROVE LocalIsIgnored' /\ IgnoresFirst'
    BY <1>5, OpType DEF UseRead, Prepared, Look
  <1>6. ASSUME NEW w \in Writers, Ignore(w) PROVE LocalIsIgnored' /\ IgnoresFirst'
    BY <1>6, OpType DEF Ignore
  <1>7. ASSUME NEW w \in Writers, Stat(w) PROVE LocalIsIgnored' /\ IgnoresFirst'
    BY <1>7, OpType DEF Stat, Look
  <1>8. ASSUME NEW w \in Writers, CreateTemp(w) PROVE LocalIsIgnored' /\ IgnoresFirst'
    BY <1>8, OpType DEF CreateTemp
  <1>9. ASSUME NEW w \in Writers, WriteTemp(w) PROVE LocalIsIgnored' /\ IgnoresFirst'
    BY <1>9, OpType DEF WriteTemp
  <1>10. ASSUME NEW w \in Writers, Rename(w) PROVE LocalIsIgnored' /\ IgnoresFirst'
    BY <1>10, OpType DEF Rename
  <1>11. ASSUME NEW w \in Writers, Fails(w) PROVE LocalIsIgnored' /\ IgnoresFirst'
    BY <1>11, OpType DEF Fails
  <1>12. ASSUME NEW w \in Writers, Dies(w) PROVE LocalIsIgnored' /\ IgnoresFirst'
    BY <1>12, OpType DEF Dies
  <1>13. CASE UNCHANGED vars
    BY <1>13 DEF vars
  <1>14. QED
    BY <1>1, <1>2, <1>3, <1>4, <1>5, <1>6, <1>7, <1>8, <1>9, <1>10, <1>11, <1>12, <1>13 DEF Next

(* Nobody has seen a version that is not there yet, and only a selection   *)
(* takes its steps.                                                        *)
LEMMA NextSeen ==
  ASSUME TypeOK, SeenIsPast, StepsOfUse, [Next]_vars
  PROVE  SeenIsPast' /\ StepsOfUse'
  <1> USE DEF TypeOK, Goto, K, plan, looked, SeenIsPast, StepsOfUse
  <1>1. ASSUME NEW w \in Writers, RunCheck(w) PROVE SeenIsPast' /\ StepsOfUse'
    BY <1>1, OpType DEF RunCheck, Prepared, Look
  <1>2. ASSUME NEW w \in Writers, ProfileRead(w) PROVE SeenIsPast' /\ StepsOfUse'
    BY <1>2, OpType DEF ProfileRead, Prepared, Look
  <1>3. ASSUME NEW w \in Writers, UseReadShared(w) PROVE SeenIsPast' /\ StepsOfUse'
    BY <1>3, OpType DEF UseReadShared
  <1>4. ASSUME NEW w \in Writers, UseReadLocal(w) PROVE SeenIsPast' /\ StepsOfUse'
    BY <1>4, OpType DEF UseReadLocal
  <1>5. ASSUME NEW w \in Writers, UseRead(w) PROVE SeenIsPast' /\ StepsOfUse'
    BY <1>5, OpType DEF UseRead, Prepared, Look
  <1>6. ASSUME NEW w \in Writers, Ignore(w) PROVE SeenIsPast' /\ StepsOfUse'
    BY <1>6, OpType DEF Ignore
  <1>7. ASSUME NEW w \in Writers, Stat(w) PROVE SeenIsPast' /\ StepsOfUse'
    BY <1>7, OpType DEF Stat, Look
  <1>8. ASSUME NEW w \in Writers, CreateTemp(w) PROVE SeenIsPast' /\ StepsOfUse'
    BY <1>8, OpType DEF CreateTemp
  <1>9. ASSUME NEW w \in Writers, WriteTemp(w) PROVE SeenIsPast' /\ StepsOfUse'
    BY <1>9, OpType DEF WriteTemp
  <1>10. ASSUME NEW w \in Writers, Rename(w) PROVE SeenIsPast' /\ StepsOfUse'
    BY <1>10, OpType DEF Rename
  <1>11. ASSUME NEW w \in Writers, Fails(w) PROVE SeenIsPast' /\ StepsOfUse'
    BY <1>11, OpType DEF Fails
  <1>12. ASSUME NEW w \in Writers, Dies(w) PROVE SeenIsPast' /\ StepsOfUse'
    BY <1>12, OpType DEF Dies
  <1>13. CASE UNCHANGED vars
    BY <1>13 DEF vars
  <1>14. QED
    BY <1>1, <1>2, <1>3, <1>4, <1>5, <1>6, <1>7, <1>8, <1>9, <1>10, <1>11, <1>12, <1>13 DEF Next

(* Stat looks again right before an initialization writes; whoever renames *)
(* between that look and the write moves the version on.                   *)
LEMMA NextRunSawNothing ==
  ASSUME TypeOK, SeenIsPast, StepsOfUse, RunSawNothing, [Next]_vars
  PROVE  RunSawNothing'
  <1> USE DEF TypeOK, Goto, K, plan, looked, SeenIsPast, StepsOfUse, RunSawNothing, Replaces, Exists
  <1>1. ASSUME NEW w \in Writers, RunCheck(w) PROVE RunSawNothing'
    BY <1>1, OpType DEF RunCheck, Prepared, Look
  <1>2. ASSUME NEW w \in Writers, ProfileRead(w) PROVE RunSawNothing'
    BY <1>2, OpType DEF ProfileRead, Prepared, Look
  <1>3. ASSUME NEW w \in Writers, UseReadShared(w) PROVE RunSawNothing'
    BY <1>3, OpType DEF UseReadShared
  <1>4. ASSUME NEW w \in Writers, UseReadLocal(w) PROVE RunSawNothing'
    BY <1>4, OpType DEF UseReadLocal
  <1>5. ASSUME NEW w \in Writers, UseRead(w) PROVE RunSawNothing'
    BY <1>5, OpType DEF UseRead, Prepared, Look
  <1>6. ASSUME NEW w \in Writers, Ignore(w) PROVE RunSawNothing'
    BY <1>6, OpType DEF Ignore
  <1>7. ASSUME NEW w \in Writers, Stat(w) PROVE RunSawNothing'
    BY <1>7, OpType DEF Stat, Look
  <1>8. ASSUME NEW w \in Writers, CreateTemp(w) PROVE RunSawNothing'
    BY <1>8, OpType DEF CreateTemp
  <1>9. ASSUME NEW w \in Writers, WriteTemp(w) PROVE RunSawNothing'
    BY <1>9, OpType DEF WriteTemp
  <1>10. ASSUME NEW w \in Writers, Rename(w) PROVE RunSawNothing'
    BY <1>10, OpType DEF Rename
  <1>11. ASSUME NEW w \in Writers, Fails(w) PROVE RunSawNothing'
    BY <1>11, OpType DEF Fails
  <1>12. ASSUME NEW w \in Writers, Dies(w) PROVE RunSawNothing'
    BY <1>12, OpType DEF Dies
  <1>13. CASE UNCHANGED vars
    BY <1>13 DEF vars
  <1>14. QED
    BY <1>1, <1>2, <1>3, <1>4, <1>5, <1>6, <1>7, <1>8, <1>9, <1>10, <1>11, <1>12, <1>13 DEF Next
-----------------------------------------------------------------------------
(* An edit's body follows from the file as the writer read it, and stays   *)
(* so for as long as nobody replaces that file.                            *)
LEMMA NextBodyIsAnEdit ==
  ASSUME TypeOK, SeenIsPast, StepsOfUse, BodyIsAnEdit, [Next]_vars
  PROVE  BodyIsAnEdit'
  <1> USE DEF TypeOK, Goto, K, plan, looked, SeenIsPast, StepsOfUse, BodyIsAnEdit, Prepares, Parses
  <1>1. ASSUME NEW w \in Writers, RunCheck(w) PROVE BodyIsAnEdit'
    BY <1>1, OpType DEF RunCheck, Prepared, Look
  <1>2. ASSUME NEW w \in Writers, ProfileRead(w) PROVE BodyIsAnEdit'
    BY <1>2, OpType, MergedIsEdited DEF ProfileRead, Prepared, Look
  <1>3. ASSUME NEW w \in Writers, UseReadShared(w) PROVE BodyIsAnEdit'
    BY <1>3, OpType DEF UseReadShared
  <1>4. ASSUME NEW w \in Writers, UseReadLocal(w) PROVE BodyIsAnEdit'
    BY <1>4, OpType DEF UseReadLocal
  <1>5. ASSUME NEW w \in Writers, UseRead(w) PROVE BodyIsAnEdit'
    BY <1>5, OpType, MergedIsEdited DEF UseRead, Prepared, Look
  <1>6. ASSUME NEW w \in Writers, Ignore(w) PROVE BodyIsAnEdit'
    BY <1>6, OpType DEF Ignore
  <1>7. ASSUME NEW w \in Writers, Stat(w) PROVE BodyIsAnEdit'
    BY <1>7, OpType DEF Stat, Look
  <1>8. ASSUME NEW w \in Writers, CreateTemp(w) PROVE BodyIsAnEdit'
    BY <1>8, OpType DEF CreateTemp
  <1>9. ASSUME NEW w \in Writers, WriteTemp(w) PROVE BodyIsAnEdit'
    BY <1>9, OpType DEF WriteTemp
  <1>10. ASSUME NEW w \in Writers, Rename(w) PROVE BodyIsAnEdit'
    BY <1>10, OpType DEF Rename
  <1>11. ASSUME NEW w \in Writers, Fails(w) PROVE BodyIsAnEdit'
    BY <1>11, OpType DEF Fails
  <1>12. ASSUME NEW w \in Writers, Dies(w) PROVE BodyIsAnEdit'
    BY <1>12, OpType DEF Dies
  <1>13. CASE UNCHANGED vars
    BY <1>13 DEF vars
  <1>14. QED
    BY <1>1, <1>2, <1>3, <1>4, <1>5, <1>6, <1>7, <1>8, <1>9, <1>10, <1>11, <1>12, <1>13 DEF Next

(* A selection found its profile in versions that are no later than now.   *)
LEMMA NextFoundIsPast ==
  ASSUME TypeOK, FoundIsPast, [Next]_vars
  PROVE  FoundIsPast'
  <1> USE DEF TypeOK, Goto, K, plan, looked, FoundIsPast, Kinds
  <1>1. ASSUME NEW w \in Writers, RunCheck(w) PROVE FoundIsPast'
    BY <1>1, OpType DEF RunCheck
  <1>2. ASSUME NEW w \in Writers, ProfileRead(w) PROVE FoundIsPast'
    BY <1>2, OpType DEF ProfileRead
  <1>3. ASSUME NEW w \in Writers, UseReadShared(w) PROVE FoundIsPast'
    BY <1>3, OpType DEF UseReadShared, Finds
  <1>4. ASSUME NEW w \in Writers, UseReadLocal(w) PROVE FoundIsPast'
    BY <1>4, OpType DEF UseReadLocal, Finds
  <1>5. ASSUME NEW w \in Writers, UseRead(w) PROVE FoundIsPast'
    BY <1>5, OpType DEF UseRead
  <1>6. ASSUME NEW w \in Writers, Ignore(w) PROVE FoundIsPast'
    BY <1>6, OpType DEF Ignore
  <1>7. ASSUME NEW w \in Writers, Stat(w) PROVE FoundIsPast'
    BY <1>7, OpType DEF Stat
  <1>8. ASSUME NEW w \in Writers, CreateTemp(w) PROVE FoundIsPast'
    BY <1>8, OpType DEF CreateTemp
  <1>9. ASSUME NEW w \in Writers, WriteTemp(w) PROVE FoundIsPast'
    BY <1>9, OpType DEF WriteTemp
  <1>10. ASSUME NEW w \in Writers, Rename(w) PROVE FoundIsPast'
    BY <1>10, OpType DEF Rename
  <1>11. ASSUME NEW w \in Writers, Fails(w) PROVE FoundIsPast'
    BY <1>11, OpType DEF Fails
  <1>12. ASSUME NEW w \in Writers, Dies(w) PROVE FoundIsPast'
    BY <1>12, OpType DEF Dies
  <1>13. CASE UNCHANGED vars
    BY <1>13 DEF vars
  <1>14. QED
    BY <1>1, <1>2, <1>3, <1>4, <1>5, <1>6, <1>7, <1>8, <1>9, <1>10, <1>11, <1>12, <1>13 DEF Next

(* A step that is not one of a selection's three reads keeps what is known *)
(* of what it found, whatever is replaced by it.                           *)
LEMMA FoundStays ==
  ASSUME TypeOK, FoundIsPast, NEW v \in Writers, NameIsFound(v), op' = op,
         names'[v] = names[v], found'[v] = found[v], body'[v] = body[v], seen'[v] = seen[v],
         \/ pc'[v] = pc[v]
         \/ pc'[v] \in {"done", "dead"}
         \/ pc[v] \in Prepares /\ pc'[v] \in Prepares,
         \A k \in Kinds : \/ version'[k] = version[k] /\ disk'[k] = disk[k]
                         \/ version'[k] = version[k] + 1
  PROVE  NameIsFound(v)'
  <1>1. \A k \in Kinds : version[k] \in Nat /\ <<k, version[k] + 1>> \notin found[v]
    BY DEF TypeOK, FoundIsPast
  <1>2. \A k \in Kinds : <<k, version'[k]>> \in found[v] => version'[k] = version[k] /\ disk'[k] = disk[k]
    BY <1>1
  <1>3. (pc[v] \in Prepares)' => pc[v] \in Prepares
    BY DEF Prepares
  <1>4. pc'[v] \in {"start", "shared", "defined"} => pc'[v] = pc[v]
    BY DEF Prepares
  <1>5. "shared" \in Kinds /\ "local" \in Kinds
    BY DEF Kinds
  <1>6. pc'[v] \in Prepares \cup {"defined"} => pc[v] \in Prepares \cup {"defined"}
    BY <1>3, <1>4
  <1>7. QED
    BY <1>2, <1>3, <1>4, <1>5, <1>6 DEF NameIsFound

(* What a selection found is there, or its version is gone. *)
LEMMA NextNames ==
  ASSUME TypeOK, StepsOfUse, FoundIsPast, NamesAreFound, [Next]_vars
  PROVE  NamesAreFound'
  <1> SUFFICES ASSUME NEW v \in Writers, (op[v].do = "use")' PROVE NameIsFound(v)'
    BY DEF NamesAreFound
  <1>1. op' = op /\ op[v].do = "use" /\ K(v) = "local" /\ op[v] \in Ops
    BY OpType DEF Next, vars, TypeOK, K, RunCheck, ProfileRead, UseReadShared, UseReadLocal, UseRead,
          Ignore, Stat, CreateTemp, WriteTemp, Rename, Fails, Dies, plan
  <1>2. NameIsFound(v)
    BY <1>1 DEF NamesAreFound
  <1>3. CASE UNCHANGED vars
    BY <1>2, <1>3, FoundStays DEF vars
  <1>4. ASSUME NEW w \in Writers,
               \/ RunCheck(w) \/ ProfileRead(w) \/ Ignore(w) \/ Stat(w)
               \/ CreateTemp(w) \/ WriteTemp(w) \/ Rename(w) \/ Fails(w) \/ Dies(w)
        PROVE  NameIsFound(v)'
    <2>1. /\ names'[v] = names[v] /\ found'[v] = found[v]
          /\ body'[v] = body[v] /\ seen'[v] = seen[v]
      BY <1>1, <1>4 DEF RunCheck, ProfileRead, Ignore, Stat, CreateTemp, WriteTemp, Rename,
                        Fails, Dies, plan, looked, Look, TypeOK
    <2>2. \/ pc'[v] = pc[v]
          \/ pc'[v] \in {"done", "dead"}
          \/ pc[v] \in Prepares /\ pc'[v] \in Prepares
      BY <1>1, <1>4 DEF RunCheck, ProfileRead, Ignore, Stat, CreateTemp, WriteTemp, Rename,
                        Fails, Dies, Goto, Prepares, TypeOK
    <2>3. \A k \in Kinds : \/ version'[k] = version[k] /\ disk'[k] = disk[k]
                          \/ version'[k] = version[k] + 1
      BY <1>4 DEF RunCheck, ProfileRead, Ignore, Stat, CreateTemp, WriteTemp, Rename,
                  Fails, Dies, plan, TypeOK
    <2>4. QED
      BY <1>1, <1>2, <2>1, <2>2, <2>3, FoundStays
  <1>5. ASSUME NEW w \in Writers, UseReadShared(w) \/ UseReadLocal(w) \/ UseRead(w), w # v
        PROVE  NameIsFound(v)'
    <2>1. /\ names'[v] = names[v] /\ found'[v] = found[v]
          /\ body'[v] = body[v] /\ seen'[v] = seen[v] /\ pc'[v] = pc[v]
          /\ disk' = disk /\ version' = version
      BY <1>5 DEF UseReadShared, UseReadLocal, UseRead, looked, Finds, Look, Goto, TypeOK
    <2>2. QED
      BY <1>1, <1>2, <2>1, FoundStays
  <1>6. CASE UseReadShared(v)
    BY <1>1, <1>2, <1>6 DEF UseReadShared, Finds, Goto, TypeOK, Kinds, Prepares, NameIsFound
  <1>7. CASE UseReadLocal(v)
    BY <1>1, <1>2, <1>7 DEF UseReadLocal, Finds, Goto, TypeOK, Kinds, Prepares, NameIsFound
  <1>8. CASE UseRead(v)
    <2>1. disk["local"] \in Config
      BY DEF TypeOK, Kinds
    <2>2. body'[v] = Edited(op[v], v, disk["local"]) \/ pc'[v] = "done"
      BY <1>8, MergedIsEdited DEF UseRead, Goto, TypeOK
    <2>3. /\ body'[v].default = op[v].name
          /\ DOMAIN disk["local"].profiles \subseteq DOMAIN body'[v].profiles
          \/ pc'[v] = "done"
      BY <1>1, <2>1, <2>2, EditedIs, OpType
    <2>4. /\ names'[v] = names[v] /\ found'[v] = found[v] /\ seen'[v] = version["local"]
          /\ disk' = disk /\ version' = version /\ pc[v] = "defined"
          /\ pc'[v] \in Prepares \cup {"done"}
      BY <1>1, <1>8 DEF UseRead, looked, Look, Goto, Prepared, Prepares, TypeOK
    <2>5. QED
      BY <1>1, <1>2, <2>3, <2>4 DEF NameIsFound, Prepares
  <1>9. QED
    BY <1>3, <1>4, <1>5, <1>6, <1>7, <1>8 DEF Next
-----------------------------------------------------------------------------
(* The initial states satisfy the invariant. *)
LEMMA InitInv == Init => Inv
  <1> SUFFICES ASSUME Init PROVE Inv
    OBVIOUS
  <1>1. TypeOK
    BY InitTypeOK
  <1>2. NeverTorn
    BY DEF Init, NeverTorn, Kinds, NoConfig, Garbage, Written
  <1>3. SeenIsPast /\ LocalIsIgnored
    BY OpType DEF Init, SeenIsPast, LocalIsIgnored, K, Kinds
  <1>4. BodiesAreWhole
    BY DEF Init, BodiesAreWhole, NoConfig
  <1>5. QED
    BY <1>1, <1>2, <1>3, <1>4
       DEF Init, Inv, NoLitter, TempIsWhole, IgnoresFirst, RunSawNothing, BodyIsAnEdit,
           FoundIsPast, NamesAreFound, NameIsFound, StepsOfUse, Prepares, Replaces

(* Every step preserves the invariant. *)
LEMMA NextInv == Inv /\ [Next]_vars => Inv'
  <1> SUFFICES ASSUME Inv, [Next]_vars PROVE Inv'
    OBVIOUS
  <1> USE DEF Inv
  <1>1. TypeOK'
    BY NextTypeOK
  <1>2. NeverTorn' /\ NoLitter' /\ TempIsWhole' /\ BodiesAreWhole'
    BY NextWhole
  <1>3. LocalIsIgnored' /\ IgnoresFirst'
    BY NextIgnored
  <1>4. SeenIsPast' /\ StepsOfUse'
    BY NextSeen
  <1>5. RunSawNothing'
    BY NextRunSawNothing
  <1>6. BodyIsAnEdit'
    BY NextBodyIsAnEdit
  <1>7. FoundIsPast' /\ NamesAreFound'
    BY NextFoundIsPast, NextNames
  <1>8. QED
    BY <1>1, <1>2, <1>3, <1>4, <1>5, <1>6, <1>7

(* Every reachable state satisfies the invariant. *)
LEMMA InvariantAlways == Spec => []Inv
  BY InitInv, NextInv, PTL DEF Spec

(* At every moment, whatever failed or died, both config files are whole,  *)
(* only a killed process leaves a temporary file, and a local file was put *)
(* into .gitignore before the tool first wrote it.                         *)
THEOREM FilesAlwaysSafe == Spec => []FilesAreSafe
  <1>1. Inv => FilesAreSafe
    BY DEF Inv, FilesAreSafe
  <1>2. QED
    BY <1>1, InvariantAlways, PTL

(* An initialization without force replaces only a file that appeared      *)
(* after it last looked.                                                   *)
THEOREM OverwritesOnlyTheUnseen == Spec => OverwritesOnlyWhatItCouldNotSee
  <1>1. Inv => \A w \in Writers : Rename(w) => pc[w] \in Replaces
    BY DEF Rename, Replaces
  <1>2. Inv => [\A w \in Writers :
                  Rename(w) /\ op[w].do = "run" /\ ~op[w].force /\ Exists(K(w))
                    => version[K(w)] # seen[w]]_vars
    BY <1>1 DEF Inv, RunSawNothing
  <1>3. QED
    BY <1>2, InvariantAlways, PTL DEF OverwritesOnlyWhatItCouldNotSee

(* What an allowed edit makes of a file keeps the rest of it. *)
LEMMA EditKeepsRest ==
  ASSUME TypeOK, NEW w \in Writers, op[w].do # "run", NEW old \in Config,
         op[w].do = "profile" /\ op[w].name \in DOMAIN old.profiles => op[w].force
  PROVE  KeepsRest(w, old, Edited(op[w], w, old))
  <1>1. op[w] \in Ops
    BY DEF TypeOK
  <1> HIDE DEF Edited
  <1>2. QED
    BY <1>1, OpType, EditedIs DEF KeepsRest

(* An edit of a file that nobody replaced since it was read keeps the base *)
(* settings, the allowlist, the other profiles and the default.            *)
THEOREM EditsKeepTheRest == Spec => MergeKeepsTheRest
  <1>1. ASSUME Inv, NEW w \in Writers, Rename(w), op[w].do # "run", version[K(w)] = seen[w]
        PROVE  Parses(K(w)) /\ KeepsRest(w, disk[K(w)], disk'[K(w)])
    <2>1. K(w) \in Kinds
      BY <1>1, OpType DEF Inv, TypeOK, K
    <2>2. /\ body[w] = Edited(op[w], w, disk[K(w)])
          /\ Parses(K(w))
          /\ op[w].do = "profile" /\ op[w].name \in DOMAIN disk[K(w)].profiles => op[w].force
      BY <1>1 DEF Inv, BodyIsAnEdit, Rename, Prepares
    <2>3. disk'[K(w)] = body[w]
      BY <1>1, <2>1 DEF Inv, TypeOK, TempIsWhole, Rename
    <2>4. KeepsRest(w, disk[K(w)], Edited(op[w], w, disk[K(w)]))
      BY <1>1, <2>1, <2>2, EditKeepsRest DEF Inv, TypeOK
    <2>5. QED
      BY <2>2, <2>3, <2>4
  <1>2. Inv => [\A w \in Writers :
                  Rename(w) /\ op[w].do # "run" /\ version[K(w)] = seen[w]
                    => Parses(K(w)) /\ KeepsRest(w, disk[K(w)], disk'[K(w)])]_vars
    BY <1>1
  <1>3. QED
    BY <1>2, InvariantAlways, PTL DEF MergeKeepsTheRest

(* A selection's new default is a profile it found, and that is defined    *)
(* when the selection is written unless every file it was found in was     *)
(* replaced: the shared one since, the local one between the two reads.    *)
THEOREM SelectionIsDefined == Spec => SelectsADefinedProfile
  <1> DEFINE Defined(w) ==
               /\ disk'["local"].default = op[w].name
               /\ found[w] # {}
               /\ <<"shared", version["shared"]>> \in found[w]
                    => op[w].name \in DOMAIN disk'["shared"].profiles
               /\ <<"local", seen[w]>> \in found[w]
                    => op[w].name \in DOMAIN disk'["local"].profiles
  <1>1. ASSUME Inv, NEW w \in Writers, Rename(w), op[w].do = "use" PROVE Defined(w)
    <2>1. K(w) = "local" /\ pc[w] \in Prepares
      BY <1>1, OpType DEF Inv, TypeOK, K, Rename, Prepares
    <2>2. disk'["local"] = body[w] /\ disk'["shared"] = disk["shared"]
      BY <1>1, <2>1 DEF Inv, TypeOK, TempIsWhole, Rename, Kinds
    <2>3. QED
      BY <1>1, <2>1, <2>2 DEF Inv, NamesAreFound, NameIsFound
  <1>2. Inv => [\A w \in Writers : Rename(w) /\ op[w].do = "use" => Defined(w)]_vars
    BY <1>1
  <1>3. QED
    BY <1>2, InvariantAlways, PTL DEF SelectsADefinedProfile
=============================================================================
