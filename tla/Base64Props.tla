---------------------------- MODULE Base64Props ----------------------------
(***************************************************************************)
(* Properties of the base64 encoding.                                      *)
(***************************************************************************)
EXTENDS Base64, SequencesExt

SkipBreak(t, x) == IF x \in {CR, LF} THEN t ELSE Append(t, x)
WithoutBreaks(c) == FoldLeft(SkipBreak, <<>>, c)

(* Whatever the length of the string and of a line, the line breaks        *)
(* included, the code writes no further than the buffer it allocated, and  *)
(* decoding the characters gives the string with zeros behind it, which    *)
(* make it a whole number of groups.  (A decoder that skips line breaks;   *)
(* b64decode takes them for characters.)                                   *)
EncodingFitsAndDecodes ==
  encoded # <<>> =>
    LET s == source.bytes
        d == IF decoded # <<>> /\ source.subLen = 0 THEN decoded ELSE Decode64(WithoutBreaks(encoded))
    IN  /\ EndOfWrites(Len(s), source.subLen) <= Len(encoded)
        /\ \A i \in DOMAIN d : d[i] = IF i \in DOMAIN s THEN s[i] ELSE 0
        /\ Len(d) >= Len(s)
=============================================================================
