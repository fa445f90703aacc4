---------------------------- MODULE MCSourceStore ----------------------------
(* Three lookups of an outer class, a nested name its file never declares,  *)
(* a class of a second file and a name no file is indexed for.  The first   *)
(* file is unreadable or declares the outer class, and changes once.        *)
EXTENDS SourceStore

MCIndex == [A |-> "fileA", B |-> "fileB"]
MCEnclosing ==
  [A |-> <<"A">>, AInner |-> <<"AInner", "A">>, B |-> <<"B">>, Unknown |-> <<"Unknown">>]
MCContents == [fileA |-> {{}, {"A"}}, fileB |-> {{"B"}}]
=============================================================================
