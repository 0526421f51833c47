------------------------------- MODULE Base64 -------------------------------
(***************************************************************************)
(* SOCKETENCODE64, SOCKETDECODE64 (socket/socket.c) over socket/base64.c.  *)
(* Three bytes become four characters; with nSubLen > 0 a line break is    *)
(* written each time a multiple of nSubLen bytes is done.  The result is   *)
(* laid out in a buffer whose size is computed before.                     *)
(***************************************************************************)
EXTENDS Naturals, Sequences, FiniteSets

CONSTANTS
  SomeBytes, \* bound: the bytes of a string
  MaxString, \* bound: length of a string
  MaxSubLen  \* bound: nSubLen

ASSUME Base64Assumption ==
  SomeBytes \subseteq 0 .. 255 /\ MaxString \in Nat /\ MaxSubLen \in Nat

VARIABLES
  source,  \* the string encoded last, [bytes, subLen]
  encoded, \* its characters
  decoded  \* what they were decoded to, <<>> before that

base64Vars == <<source, encoded, decoded>>

(* A character is its place in the alphabet b64e, or one of these *)
Equals == 64
CR == 65
LF == 66

(* b64d: any other character counts as the first of the alphabet *)
ValueOf(c) == IF c < 64 THEN c ELSE 0

Groups(n) == (n + 2) \div 3

-----------------------------------------------------------------------------
(* b64encodelen                                                            *)

BreakAfter(g, subLen) == subLen > 0 /\ (3 * g) % subLen = 0

(* Where the characters of group g, the first one being 0, are put *)
StartOf(g, subLen) == 4 * g + 2 * Cardinality({j \in 1 .. g : BreakAfter(j, subLen)})

(* b64enc of group g: of the last bytes, only the characters they need *)
GroupChars(s, g) ==
  LET n == Len(s) - 3 * g
      t(i) == IF i < n THEN s[3 * g + i + 1] ELSE 0
  IN  [i \in 0 .. 3 |->
         CASE i = 0 -> t(0) \div 4
           [] i = 1 -> (t(0) % 4) * 16 + (t(1) \div 16)
           [] i = 2 -> IF n <= 1 THEN Equals ELSE (t(1) % 16) * 4 + (t(2) \div 64)
           [] OTHER -> IF n <= 2 THEN Equals ELSE t(2) % 64]

(* Faulty: no room for a last line that is not full *)
EncodedLenFullLines(n, subLen) ==
  4 * Groups(n) + (IF subLen > 0 THEN (n \div (subLen + 1)) * 2 ELSE 0)

(* nEncodeLen in SOCKETENCODE64 *)
EncodedLen(n, subLen) ==
  4 * Groups(n) + (IF subLen > 0 THEN ((n \div subLen) + 1) * 2 ELSE 0)

(* How far the code writes *)
EndOfWrites(n, subLen) == StartOf(Groups(n), subLen)

(* The buffer, filled with = signs, with groups and line breaks in it *)
CharAt(s, subLen, i) ==
  LET written == {g \in 0 .. Groups(Len(s)) - 1 :
                    StartOf(g, subLen) <= i /\ i < StartOf(g + 1, subLen)}
      g == CHOOSE g \in written : TRUE
      k == i - StartOf(g, subLen)
  IN  IF written = {} THEN Equals
      ELSE IF k < 4 THEN GroupChars(s, g)[k]
      ELSE IF k = 4 THEN CR ELSE LF

Encode64(s, subLen) ==
  [i \in 1 .. EncodedLen(Len(s), subLen) |-> CharAt(s, subLen, i - 1)]

-----------------------------------------------------------------------------
(* Faulty: bits of the third character are lost *)
SecondByteCut(t1, t2) == (t1 % 16) * 16

SecondByte(t1, t2) == ((t1 % 16) * 16) + ((t2 \div 4) % 16)

(* b64decode: a buffer of whole groups of three bytes; characters that are *)
(* missing at the end count as zero                                        *)
Decode64(c) ==
  LET t(g, i) == IF 4 * g + i < Len(c) THEN ValueOf(c[4 * g + i + 1]) ELSE 0
  IN  [k \in 1 .. 3 * ((Len(c) + 3) \div 4) |->
         LET g == (k - 1) \div 3
             i == (k - 1) % 3
         IN  CASE i = 0 -> ((t(g, 0) * 4) % 256) + (t(g, 1) \div 16)
               [] i = 1 -> SecondByte(t(g, 1), t(g, 2))
               [] OTHER -> (t(g, 2) % 4) * 64 + t(g, 3)]

-----------------------------------------------------------------------------
(* The calls share nothing, so one of them is enough *)
SocketEncode64(s, subLen) ==
  /\ encoded = <<>>
  /\ source' = [bytes |-> s, subLen |-> subLen]
  /\ encoded' = Encode64(s, subLen)
  /\ decoded' = <<>>

SocketDecode64 ==
  /\ encoded # <<>>
  /\ decoded = <<>>
  /\ decoded' = Decode64(encoded)
  /\ UNCHANGED <<source, encoded>>

Base64Init ==
  /\ source = [bytes |-> <<>>, subLen |-> 0]
  /\ encoded = <<>> /\ decoded = <<>>

Base64Next ==
  \/ \E n \in 1 .. MaxString, subLen \in 0 .. MaxSubLen :
       \E s \in [1 .. n -> SomeBytes] : SocketEncode64(s, subLen)
  \/ SocketDecode64
=============================================================================
