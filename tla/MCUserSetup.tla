----------------------------- MODULE MCUserSetup -----------------------------
(* Two runs of setup with every pair of options, and clients that save     *)
(* once, over files with and without an entry of this server.              *)
EXTENDS UserSetup, TLC

Fine == [clients |-> {}, skill |-> FALSE, replace |-> FALSE, dryRun |-> FALSE, env |-> NoEnv,
         projectFlag |-> FALSE, command |-> "file", limits |-> "none"]

Sets(k) == [n \in {k} |-> "byFlag"]

MCOptions ==
  {Fine,
   [Fine EXCEPT !.clients = {"codex"}, !.env = Sets("allowInvoke")],
   [Fine EXCEPT !.clients = {"claude"}, !.skill = TRUE, !.env = Sets("maxBytes")],
   [Fine EXCEPT !.replace = TRUE, !.env = Sets("allowInvoke"), !.command = "installed"],
   [Fine EXCEPT !.dryRun = TRUE, !.skill = TRUE],
   [Fine EXCEPT !.projectFlag = TRUE],
   [Fine EXCEPT !.command = "goRun"],
   [Fine EXCEPT !.limits = "notANumber"]}

OldEnv == ("allowInvoke" :> Before) @@ ("maxBytes" :> NotAString) @@ ("directUrl" :> Before)

MCJsonFiles ==
  {NoFile,
   [NoFile EXCEPT !.text = "garbage", !.rest = Before],
   [text |-> "json", entry |-> [command |-> Before, env |-> OldEnv], servers |-> Before, rest |-> Before]}

OldEntry == <<Table("sofarpc"), Pair("command", Before)>>
OldLines == <<Table("sofarpc.env"), Pair("allowInvoke", Before), Pair("maxBytes", NotAString),
              Pair("directUrl", Before)>>
Other == <<Table("other"), Pair("command", Before)>>

(* The entry first, last, in two places, without an environment, and none. *)
(* Headers that setup does not find stand only before it.                  *)
MCTomlFiles ==
  {<<>>, Other, OldEntry \o OldLines \o Other, Other \o OldEntry \o OldLines,
   OldLines \o Other \o OldEntry, <<Pair("model", Before)>> \o OldEntry,
   <<Noted("third"), Pair("command", Before), Array("hooks"), Pair("allowInvoke", Before)>>
     \o OldEntry \o OldLines \o <<Quoted("fourth"), Pair("command", Before)>>}

(* An array of tables after the entry, whose elements have keys too. *)
MCArrayFiles == {OldEntry \o OldLines \o <<Array("hooks"), Pair("allowInvoke", Before)>>}

(* An entry with a comment behind its header, and one in quotes. *)
MCNotedFiles == {<<h, Pair("command", Before)>> \o OldLines : h \in {Noted("sofarpc"), Quoted("sofarpc")}}
==============================================================================
