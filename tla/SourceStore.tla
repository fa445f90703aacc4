----------------------------- MODULE SourceStore -----------------------------
(***************************************************************************)
(* Store.Class of the Java source contract store                           *)
(* (internal/sourcecontract/store.go): classes are parsed on first use,    *)
(* one parse per file at a time, and kept for ever.  Lookups run in        *)
(* concurrent tool calls.  Each critical section of s.mu is one action; a  *)
(* parse reads its file and runs without the lock.                         *)
(*                                                                         *)
(* A parse panic is recovered far above, in the tool's panic guard, so     *)
(* nothing removes the file's in-flight entry or closes its channel.       *)
(***************************************************************************)
EXTENDS Naturals, Sequences, FiniteSets

CONSTANTS
  Lookups,     \* lookups that can be in progress at once
  Fqns,        \* class names that are asked for
  Files,       \* Java source files
  NoFile,      \* not a file: no entry in the index
  NoName,      \* not a name: the lookup is not in progress
  Index,       \* s.index: the file of each top-level name, built once by Load
  Enclosing,   \* Enclosing[f]: f, its outer class, that one's outer class, ...
  Contents,    \* Contents[p]: the sets of classes file p may declare; {} stands
               \* for a file that cannot be read or has no declaration
  MaxEdits     \* bound of the model: times a file changes on disk

ASSUME SourceAssumption ==
  /\ Index \in [DOMAIN Index -> Files]
  /\ Enclosing \in [Fqns -> Seq(Fqns \cup DOMAIN Index)]
  /\ Contents \in [Files -> SUBSET (SUBSET Fqns)]
  /\ \A p \in Files : Contents[p] # {}
  /\ NoFile \notin Files
  /\ NoName \notin Fqns
  /\ MaxEdits \in Nat

VARIABLES
  disk,       \* what each file declares now
  edits,      \* how often a file has changed
  cache,      \* names in s.cache
  inflight,   \* files with an entry in s.inflight
  failures,   \* names in s.parseFailures
  failCount,  \* s.parseFailureCount
  panicked,   \* files whose parse panicked
  stage,      \* where each lookup stands
  fqn,        \* the name each lookup asks for
  parsed,     \* the classes a parse has found but not yet stored
  ended       \* history: of the parses of its file that ended while a lookup
              \* was in progress, whether they found its class or lacked it

asked == <<stage, fqn, ended>>
storeVars == <<disk, edits, cache, inflight, failures, failCount, panicked, parsed, asked>>

(* A lookup that has answered is idle again and takes the next request. *)
PCs == {"idle", "missed", "parsing", "storing", "waiting", "woken", "failing"}

-----------------------------------------------------------------------------
(* The file of f, or of the innermost enclosing class that is indexed. *)
FileOf(f) ==
  LET hits == {i \in DOMAIN Enclosing[f] : Enclosing[f][i] \in DOMAIN Index}
  IN  IF hits = {} THEN NoFile
      ELSE Index[Enclosing[f][CHOOSE i \in hits : \A j \in hits : i <= j]]

Goto(c, p) == stage' = [stage EXCEPT ![c] = p]
Forget(c) == fqn' = [fqn EXCEPT ![c] = NoName]

Answer(c) ==
  /\ Goto(c, "idle")
  /\ Forget(c)
  /\ ended' = [ended EXCEPT ![c] = {}]

StoreInit ==
  /\ disk \in {d \in [Files -> SUBSET Fqns] : \A p \in Files : d[p] \in Contents[p]}
  /\ edits = 0
  /\ cache = {}
  /\ inflight = {}
  /\ failures = {}
  /\ failCount = 0
  /\ panicked = {}
  /\ stage = [c \in Lookups |-> "idle"]
  /\ fqn = [c \in Lookups |-> NoName]
  /\ parsed = [c \in Lookups |-> {}]
  /\ ended = [c \in Lookups |-> {}]

(* recordParseFailureLocked: the first failure of a name is counted. *)
RecordFailure_CountsTwice(f) ==
  /\ failures' = failures \cup {f}
  /\ failCount' = failCount + 1

RecordFailure(f) ==
  /\ failures' = failures \cup {f}
  /\ failCount' = IF f \in failures THEN failCount ELSE failCount + 1

(* finishParseLocked: the entry goes and close(done) wakes every waiter. *)
FinishParse_NoClose(c) ==
  /\ inflight' = inflight \ {FileOf(fqn[c])}
  /\ stage' = [stage EXCEPT ![c] = "idle"]

FinishParse(c) ==
  /\ inflight' = inflight \ {FileOf(fqn[c])}
  /\ stage' = [d \in Lookups |->
              IF d = c THEN "idle"
              ELSE IF stage[d] = "waiting" /\ FileOf(fqn[d]) = FileOf(fqn[c]) THEN "woken"
              ELSE stage[d]]

Outcome(c, f) == IF f \in parsed[c] THEN "found" ELSE "lacked"

(* Every other lookup of the file that is in progress has now been there *)
(* when a parse ended.                                                    *)
ParseEnds(c) ==
  ended' = [d \in Lookups |->
              IF d = c THEN {}
              ELSE IF stage[d] # "idle" /\ FileOf(fqn[d]) = FileOf(fqn[c]) THEN ended[d] \cup {Outcome(c, fqn[d])}
              ELSE ended[d]]

-----------------------------------------------------------------------------
(* The read-locked section at the top of Class. *)
Begin_NoIndexCheck(c, f) ==
  /\ stage[c] = "idle"
  /\ IF f \in cache THEN UNCHANGED <<stage, fqn>>
     ELSE Goto(c, "missed") /\ fqn' = [fqn EXCEPT ![c] = f]
  /\ UNCHANGED <<disk, edits, cache, inflight, failures, failCount, panicked, parsed, ended>>

Begin(c, f) ==
  /\ stage[c] = "idle"
  /\ IF f \in cache \/ FileOf(f) = NoFile
     THEN UNCHANGED <<stage, fqn>>
     ELSE Goto(c, "missed") /\ fqn' = [fqn EXCEPT ![c] = f]
  /\ UNCHANGED <<disk, edits, cache, inflight, failures, failCount, panicked, parsed, ended>>

(* The write-locked section: look again, join a parse or become its owner. *)
JoinOrParse_NoRecheck(c) ==
  /\ stage[c] = "missed"
  /\ IF FileOf(fqn[c]) \in inflight THEN Goto(c, "waiting") /\ UNCHANGED inflight
     ELSE Goto(c, "parsing") /\ inflight' = inflight \cup {FileOf(fqn[c])}
  /\ UNCHANGED <<disk, edits, cache, failures, failCount, panicked, parsed, fqn, ended>>

JoinOrParse_NoJoin(c) ==
  /\ stage[c] = "missed"
  /\ IF fqn[c] \in cache THEN Answer(c) /\ UNCHANGED inflight
     ELSE /\ Goto(c, "parsing")
          /\ inflight' = inflight \cup {FileOf(fqn[c])}
          /\ UNCHANGED <<fqn, ended>>
  /\ UNCHANGED <<disk, edits, cache, failures, failCount, panicked, parsed>>

JoinOrParse(c) ==
  /\ stage[c] = "missed"
  /\ IF fqn[c] \in cache THEN Answer(c) /\ UNCHANGED inflight
     ELSE /\ UNCHANGED <<fqn, ended>>
          /\ IF FileOf(fqn[c]) \in inflight THEN Goto(c, "waiting") /\ UNCHANGED inflight
             ELSE Goto(c, "parsing") /\ inflight' = inflight \cup {FileOf(fqn[c])}
  /\ UNCHANGED <<disk, edits, cache, failures, failCount, panicked, parsed>>

(* parseJavaFileClasses reads the file as it is now. *)
ParseFile(c) ==
  /\ stage[c] = "parsing"
  /\ parsed' = [parsed EXCEPT ![c] = disk[FileOf(fqn[c])]]
  /\ Goto(c, "storing")
  /\ UNCHANGED <<disk, edits, cache, inflight, failures, failCount, panicked, fqn, ended>>

ParsePanics(c) ==
  /\ stage[c] = "parsing"
  /\ panicked' = panicked \cup {FileOf(fqn[c])}
  /\ Answer(c)
  /\ UNCHANGED <<disk, edits, cache, inflight, failures, failCount, parsed>>

(* The write-locked section after the parse. *)
StoreClasses(c) ==
  /\ stage[c] = "storing"
  /\ cache' = cache \cup parsed[c]
  /\ FinishParse(c)
  /\ ParseEnds(c)
  /\ IF parsed[c] # {} /\ fqn[c] \in cache'
     THEN UNCHANGED <<failures, failCount>>
     ELSE RecordFailure(fqn[c])
  /\ Forget(c)
  /\ parsed' = [parsed EXCEPT ![c] = {}]
  /\ UNCHANGED <<disk, edits, panicked>>

(* A waiter reads the cache again once the parse it joined is over. *)
Reread_TrustsLeader(c) ==
  /\ stage[c] = "woken"
  /\ Goto(c, "failing")
  /\ UNCHANGED <<disk, edits, cache, inflight, failures, failCount, panicked, parsed, fqn, ended>>

Reread(c) ==
  /\ stage[c] = "woken"
  /\ IF fqn[c] \in cache THEN Answer(c)
     ELSE Goto(c, "failing") /\ UNCHANGED <<fqn, ended>>
  /\ UNCHANGED <<disk, edits, cache, inflight, failures, failCount, panicked, parsed>>

(* recordParseFailure takes the lock again. *)
Fail(c) ==
  /\ stage[c] = "failing"
  /\ RecordFailure(fqn[c])
  /\ Answer(c)
  /\ UNCHANGED <<disk, edits, cache, inflight, panicked, parsed>>

(* Somebody edits a source file. *)
Edit(p) ==
  /\ edits < MaxEdits
  /\ \E content \in Contents[p] \ {disk[p]} : disk' = [disk EXCEPT ![p] = content]
  /\ edits' = edits + 1
  /\ UNCHANGED <<cache, inflight, failures, failCount, panicked, parsed, asked>>

Step(c) ==
  \/ JoinOrParse(c)
  \/ ParseFile(c)
  \/ StoreClasses(c)
  \/ Reread(c)
  \/ Fail(c)

StoreNext ==
  \/ \E c \in Lookups :
       \/ \E f \in Fqns : Begin(c, f)
       \/ Step(c)
       \/ ParsePanics(c)
  \/ \E p \in Files : Edit(p)

StoreSpec == StoreInit /\ [][StoreNext]_storeVars

(* Runnable goroutines run and a parse ends: the parser is a loop over the *)
(* text of one file.                                                       *)
FairStoreSpec == StoreSpec /\ \A c \in Lookups : WF_storeVars(Step(c))

-----------------------------------------------------------------------------
StoreTypeOK ==
  /\ disk \in [Files -> SUBSET Fqns]
  /\ edits \in Nat
  /\ cache \subseteq Fqns
  /\ inflight \subseteq Files
  /\ failures \subseteq Fqns
  /\ failCount \in Nat
  /\ panicked \subseteq Files
  /\ stage \in [Lookups -> PCs]
  /\ fqn \in [Lookups -> Fqns \cup {NoName}]
  /\ parsed \in [Lookups -> SUBSET Fqns]
  /\ ended \in [Lookups -> SUBSET {"found", "lacked"}]

Parsing(p) == {c \in Lookups : stage[c] \in {"parsing", "storing"} /\ FileOf(fqn[c]) = p}

(* Single flight: a file is never parsed twice at the same time, and its   *)
(* in-flight entry is there exactly while it is parsed or after its parse  *)
(* panicked.  A lookup waits only while there is such an entry, never for  *)
(* a parse that is already over.                                           *)
SingleFlight ==
  /\ \A p \in Files :
       /\ \A c, d \in Parsing(p) : c = d
       /\ p \in inflight <=> (Parsing(p) # {} \/ p \in panicked)
  /\ \A c \in Lookups : stage[c] = "waiting" => FileOf(fqn[c]) \in inflight

(* parseFailureCount is the number of distinct names that failed, though   *)
(* owner and waiters of one failed parse all report it.                    *)
FailuresCountedOnce == failCount = Cardinality(failures)

(* The lock protects the cache, the in-flight entries and the failures, of *)
(* which each lookup changes several: they agree after every step.         *)
StoreIsConsistent == StoreTypeOK /\ SingleFlight /\ FailuresCountedOnce

(* A lookup that answers "no such class" about an indexed file has been    *)
(* there when a parse of that file ended, its own or another's, which did  *)
(* not find the class; and it does not start a parse of its own for what   *)
(* one that ended since it began has found.  Others edit the file, parse   *)
(* it and store its classes between any two of its steps.                  *)
AnswersMiss(c) ==
  /\ stage'[c] = "idle"
  /\ \/ stage[c] = "storing" /\ (parsed[c] = {} \/ fqn[c] \notin cache')
     \/ stage[c] = "failing"

MissIsReal(c) ==
  /\ AnswersMiss(c) => "lacked" \in IF stage[c] = "storing" THEN {Outcome(c, fqn[c])} ELSE ended[c]
  /\ stage[c] # "parsing" /\ stage'[c] = "parsing" => "found" \notin ended[c]

MissesAreReal == [][\A c \in Lookups : MissIsReal(c)]_storeVars

(* Every lookup answers, unless the parse of its file has panicked: a      *)
(* lookup of any other file is not affected by that.                       *)
EveryLookupAnswers ==
  \A c \in Lookups :
    stage[c] # "idle" ~> (stage[c] = "idle" \/ FileOf(fqn[c]) \in panicked)
=============================================================================
