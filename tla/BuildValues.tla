----------------------------- MODULE BuildValues -----------------------------
(***************************************************************************)
(* What BuildFromOps stores for the data of a parsed value:                *)
(* hive/builder/regtext.go decodes it and hive/builder/encode.go encodes   *)
(* it again.  Data are sequences of bytes, text is a sequence of runes.    *)
(***************************************************************************)
EXTENDS Naturals, Sequences, SequencesExt

CONSTANTS
  Bytes,     \* the bytes data are made of
  MaxBytes   \* bound on their number

VARIABLES typ, data   \* the value to store, of the operation OpSetValue

NUL == 0
Replacement == 65533   \* U+FFFD
Surrogate(u) == u \in 55296..57343

Unit(d, k) == d[2 * k - 1] + 256 * d[2 * k]
Units(d) == [k \in 1..(Len(d) \div 2) |-> Unit(d, k)]
\* string(runes): a rune that is half of a pair is no character.
RunesToString(runes) == [k \in DOMAIN runes |-> IF Surrogate(runes[k]) THEN Replacement ELSE runes[k]]

\* decodeUTF16LEString: two zero bytes at the end are cut off wherever a unit
\* begins, an odd byte is ignored, a NUL inside is skipped.
DecodeUTF16LEString(d) ==
  LET n == Len(d)
      cut == IF n >= 2 /\ d[n - 1] = 0 /\ d[n] = 0 THEN SubSeq(d, 1, n - 2) ELSE d
  IN RunesToString(SelectSeq(Units(cut), LAMBDA u : u # NUL))

\* decodeMultiString: the list ends at the second NUL in a row once it has a
\* string; empty strings in front of the first are skipped.
DecodeMultiString(d) ==
  LET start == [list |-> <<>>, current |-> <<>>, ended |-> FALSE]
      step(s, u) ==
        IF s.ended THEN s
        ELSE IF u # NUL THEN [s EXCEPT !.current = Append(@, u)]
        ELSE IF s.current # <<>>
          THEN [s EXCEPT !.list = Append(@, RunesToString(s.current)), !.current = <<>>]
        ELSE [s EXCEPT !.ended = s.list # <<>>]
      end == FoldLeft(step, start, Units(d))
  IN IF end.current # <<>> THEN Append(end.list, RunesToString(end.current)) ELSE end.list

\* utf16.Encode for runes below 2^16, little-endian.
Encode(s) == FlattenSeq([k \in DOMAIN s |-> <<s[k] % 256, s[k] \div 256>>])

\* (mutant) no terminator is written.
EncodeStringBare(s) == Encode(s)
EncodeString(s) == Encode(s) \o <<0, 0>>
EncodeMultiString(list) ==
  IF list = <<>> THEN <<0, 0, 0, 0>>
  ELSE FlattenSeq([k \in DOMAIN list |-> Encode(list[k]) \o <<0, 0>>]) \o <<0, 0>>

\* Setters that decode to a number and encode it again keep the bytes, in
\* their order: encodeDWORD, encodeQWORD, encodeDWORDBigEndian.
EncodeDWORD(d) == d
EncodeQWORD(d) == d

\* A number of another length is an error.
Accepted(t, d) == (t = "dword" => Len(d) = 4) /\ (t = "qword" => Len(d) = 8)

\* applyOp for an OpSetValue.
Stored(t, d) ==
  CASE t = "none" -> <<>>
    [] t \in {"sz", "expand"} -> EncodeString(DecodeUTF16LEString(d))
    [] t = "multi" -> EncodeMultiString(DecodeMultiString(d))
    [] t = "dword" -> EncodeDWORD(d)
    [] t = "qword" -> EncodeQWORD(d)
    [] OTHER -> d

Types == {"none", "sz", "multi", "dword", "qword", "binary"}
Data == UNION {[1..n -> Bytes] : n \in 0..MaxBytes}

Init == typ \in Types /\ data \in Data
Next == UNCHANGED <<typ, data>>
-----------------------------------------------------------------------------
\* Text as Windows stores it: whole units, one NUL at the very end of a
\* string and one more at the end of a list.
Terminated(u) == u # <<>> /\ Last(u) = NUL
CleanSZ(d) ==
  LET u == Units(d)
  IN /\ Len(d) % 2 = 0 /\ Terminated(u)
     /\ \A k \in DOMAIN u : ~Surrogate(u[k]) /\ (u[k] = NUL => k = Len(u))
CleanMulti(d) ==
  LET u == Units(d)
      n == Len(u)
  IN /\ Len(d) % 2 = 0 /\ n >= 2 /\ u[n] = NUL /\ u[n - 1] = NUL
     /\ \A k \in DOMAIN u : ~Surrogate(u[k])
     /\ \A k \in 1..(n - 2) : u[k] = NUL => u[k + 1] # NUL /\ k > 1

\* Exporting a built hive and building again changes nothing: what was
\* stored is stored as it is, for any data whatever.  Numbers, and text in
\* the form Windows gives it, are stored as they came the first time; other
\* text is changed (NULs inside are lost, halves of surrogate pairs become
\* U+FFFD).
StoredOnce ==
  LET s == Stored(typ, data)
  IN Accepted(typ, data) =>
       /\ Stored(typ, s) = s
       /\ typ = "sz" /\ CleanSZ(data) => s = data
       /\ typ = "multi" /\ CleanMulti(data) => s = data
=============================================================================
