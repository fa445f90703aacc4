----------------------------- MODULE HessianInts -----------------------------
(***************************************************************************)
(* The compact forms of integers, which readValue and readStringWithTag    *)
(* read each with cases of its own (internal/sofarpcwire/decoder.go,       *)
(* decoder_primitive.go), against the encoder of a Java service, which     *)
(* takes the shortest form it can.  Integers of eight bytes are left out:  *)
(* TLC computes with four.                                                 *)
(***************************************************************************)
EXTENDS Integers, Sequences

CONSTANT Ints  \* bound of the model: the integers that are encoded

ASSUME IntsAssumption == \A v \in Ints : v \in Int /\ -2147483647 - 1 <= v /\ v <= 2147483647

(* Bytes, the most significant one first, behind what stands before them.  *)
Behind(high, bytes) ==
  LET upTo[n \in 0..Len(bytes)] == IF n = 0 THEN high ELSE upTo[n - 1] * 256 + bytes[n]
  IN upTo[Len(bytes)]

Signed(byte) == IF byte >= 128 THEN byte - 256 ELSE byte

Forms_ByteZero == [
  int  |-> <<[zero |-> 144, tags |-> 128..191], [zero |-> 192, tags |-> 192..207], [zero |-> 212, tags |-> 208..215]>>,
  long |-> <<[zero |-> 224, tags |-> 216..239], [zero |-> 248, tags |-> 240..255], [zero |-> 60, tags |-> 56..63]>>]

(* The tag that means zero and the tags around it, for no, one and two     *)
(* bytes that follow.                                                      *)
Forms == [
  int  |-> <<[zero |-> 144, tags |-> 128..191], [zero |-> 200, tags |-> 192..207], [zero |-> 212, tags |-> 208..215]>>,
  long |-> <<[zero |-> 224, tags |-> 216..239], [zero |-> 248, tags |-> 240..255], [zero |-> 60, tags |-> 56..63]>>]

(* The same in readStringWithTag. *)
TextForms == [
  int  |-> <<[zero |-> 144, tags |-> 128..191], [zero |-> 200, tags |-> 192..207], [zero |-> 212, tags |-> 208..215]>>,
  long |-> <<[zero |-> 224, tags |-> 216..239], [zero |-> 248, tags |-> 240..255], [zero |-> 60, tags |-> 56..63]>>]

(* 'I' and hessianLongInt: four bytes follow. *)
Wide == [int |-> 73, long |-> 119]

FormsOf(forms) == {forms[k][n] : k \in {"int", "long"}, n \in 1..3}

IntOf(forms, bytes) ==
  LET tag == Head(bytes)
      form == CHOOSE f \in FormsOf(forms) : tag \in f.tags
  IN IF tag \in {Wide.int, Wide.long}
     THEN Behind(Signed(bytes[2]), SubSeq(bytes, 3, 5))
     ELSE Behind(tag - form.zero, Tail(bytes))

-----------------------------------------------------------------------------
(* The Java encoder, not part of this code: the last n bytes of v, and the *)
(* forms that have room for it.                                            *)
Weight == <<1, 256, 65536, 16777216>>

Bytes(v, n) == [i \in 1..n |-> (v \div Weight[n - i + 1]) % 256]

Encoded(kind, v) ==
  LET least == [int |-> <<-16, -2048, -262144>>, long |-> <<-8, -2048, -262144>>]
      most == [int |-> <<47, 2047, 262143>>, long |-> <<15, 2047, 262143>>]
      zero == [int |-> <<144, 200, 212>>, long |-> <<224, 248, 60>>]
      wide == [int |-> 73, long |-> 119]
      fits == {n \in 1..3 : least[kind][n] <= v /\ v <= most[kind][n]}
  IN IF fits = {} THEN <<wide[kind]>> \o Bytes(v, 4)
     ELSE LET n == CHOOSE m \in fits : \A o \in fits : m <= o
          IN <<zero[kind][n] + v \div Weight[n]>> \o Bytes(v, n - 1)

(* An integer is read as it was sent, at either side of every form's       *)
(* bounds, also where its text is wanted.                                  *)
IntegersAreExact ==
  \A v \in Ints, kind \in {"int", "long"}, forms \in {Forms, TextForms} : IntOf(forms, Encoded(kind, v)) = v
=============================================================================
