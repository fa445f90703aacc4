--------------------------- MODULE HessianStrings ---------------------------
(***************************************************************************)
(* Strings and byte slices, which come in chunks that count characters:    *)
(* readChunkedString, readBytesWithTag, readUTF8Bytes and writeString      *)
(* (internal/sofarpcwire/decoder_primitive.go, encoder.go).                *)
(*                                                                         *)
(* A character is the number of its bytes; of the bytes the first one says *)
(* how many follow, and one of the others alone is a character of one.     *)
(***************************************************************************)
EXTENDS Integers, Sequences, SequencesExt, FiniteSetsExt

CONSTANTS
  Characters,  \* the lengths of characters in bytes
  MaxLength,   \* bound of the model: of a string, in characters
  ChunkLength, \* bound of the model: the characters of a chunk that a Java service sends
  ShortLength, \* bound of the model: instead of 31, what a tag alone can count
  ByteLimits   \* bound of the model: limits.MaxScalarBytes

ASSUME StringsAssumption ==
  /\ Characters \subseteq Nat \ {0}
  /\ MaxLength \in Nat
  /\ ByteLimits \subseteq Nat
  /\ ChunkLength \in Nat \ {0} /\ ShortLength \in 0..ChunkLength

Strings == BoundedSeq(Characters, MaxLength)

(* Every byte of a string: how far readUTF8Bytes gets from it. *)
Sizes(string) == FlattenSeq([i \in DOMAIN string |-> <<string[i]>> \o [j \in 1..string[i] - 1 |-> 1]])

Chunk(tag, string) == [tag |-> tag, count |-> Len(string), sizes |-> Sizes(string)]

(* A tag that is a count, or 'S', ends a string, 's' does not. *)
LastChunk(string) == Chunk(IF Len(string) <= ShortLength THEN "count" ELSE "S", string)

(* writeString: one chunk. *)
Written(string) == <<LastChunk(string)>>

(* A Java service, not part of this code: full chunks, then what is left.  *)
Split(string) ==
  LET full == Max({0, Len(string) - 1}) \div ChunkLength
      from(i) == (i - 1) * ChunkLength + 1
  IN [i \in 1..full |-> Chunk("s", SubSeq(string, from(i), from(i + 1) - 1))]
       \o <<LastChunk(SubSeq(string, from(full + 1), Len(string)))>>

(* The same with a last chunk that is empty. *)
SplitToTheEnd(string) == Append(Front(Split(string)), [Last(Split(string)) EXCEPT !.tag = "s"]) \o <<LastChunk(<<>>)>>

-----------------------------------------------------------------------------
Failure == <<-1>>

(* readUTF8Bytes: the bytes of so many characters.                         *)
BytesOf(sizes, count) ==
  LET to[n \in 0..count] ==
        IF n = 0 THEN 0 ELSE IF to[n - 1] >= Len(sizes) THEN Len(sizes) + 1 ELSE to[n - 1] + sizes[to[n - 1] + 1]
  IN IF to[count] > Len(sizes) THEN Failure ELSE SubSeq(sizes, 1, to[count])

(* checkScalarByteLength *)
WithinBytes(limit, sizes) == Len(sizes) <= limit

Joined_LimitPerChunk(chunks, limit) ==
  LET last == SelectInSeq(chunks, LAMBDA c : c.tag # "s")
      upTo[n \in 0..last] ==
        IF n = 0 THEN <<>>
        ELSE LET bytes == BytesOf(chunks[n].sizes, chunks[n].count) IN
             IF upTo[n - 1] = Failure \/ bytes # chunks[n].sizes \/ ~WithinBytes(limit, bytes)
             THEN Failure
             ELSE upTo[n - 1] \o bytes
  IN upTo[last]

(* readChunkedString and readBytesWithTag loop up to a chunk that is the   *)
(* last one; a chunk that is not read to its end leaves bytes where the    *)
(* next tag is expected.                                                   *)
Joined(chunks, limit) ==
  LET last == SelectInSeq(chunks, LAMBDA c : c.tag # "s")
      upTo[n \in 0..last] ==
        IF n = 0 THEN <<>>
        ELSE LET bytes == BytesOf(chunks[n].sizes, chunks[n].count) IN
             IF upTo[n - 1] = Failure \/ bytes # chunks[n].sizes \/ ~WithinBytes(limit, upTo[n - 1] \o bytes)
             THEN Failure
             ELSE upTo[n - 1] \o bytes
  IN upTo[last]

(* A string is read as it was sent, however it is cut into chunks, unless  *)
(* its bytes together are more than the limit.                             *)
StringsAreExact ==
  \A string \in Strings, limit \in ByteLimits :
    \A chunks \in {Written(string), Split(string), SplitToTheEnd(string)} :
      Joined(chunks, limit) = IF WithinBytes(limit, Sizes(string)) THEN Sizes(string) ELSE Failure
=============================================================================
