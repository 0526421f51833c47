---------------------------- MODULE StreamDigest ----------------------------
(***************************************************************************)
(* The message digests of the contributed libraries: SHA-256 and its HMAC  *)
(* (hbaes/sha2.c), MD5 and its HMAC (socket/md5c.c, hmac_md5.c).  A context*)
(* takes a message in pieces of any length, hashes whole blocks as they    *)
(* fill up, and is closed with padding and the length of the message in    *)
(* bits, kept in two words that overflow.                                  *)
(*                                                                         *)
(* What hashing does to a block is abstracted: the state of a context is   *)
(* the sequence of the blocks hashed so far.  Sizes are scaled down.       *)
(***************************************************************************)
EXTENDS Naturals, Sequences

CONSTANTS
  BlockSize,   \* 64 in the code
  LengthBytes, \* 8 in the code: the bytes of the length, two words
  Word,        \* 2^32 in the code: a word counts modulo Word
  Bits,        \* 8 in the code: bits of a byte
  MaxMessage   \* bound: length of a message

ASSUME DigestAssumption ==
  /\ BlockSize \in Nat /\ BlockSize >= 4 /\ LengthBytes \in Nat /\ LengthBytes < BlockSize
  /\ LengthBytes % 2 = 0
  /\ Word \in Nat \ {0} /\ Bits \in Nat \ {0} /\ Word % (Bits * BlockSize) = 0
  /\ Word > BlockSize /\ MaxMessage \in Nat

VARIABLES
  ctx,     \* the context: total[0] and total[1] (count[] of MD5), state, buffer, ipad, opad
  kind,    \* "sha2" or "md5"; "none" before the first call
  key,     \* the key of an HMAC, or NoHmac
  message, \* for the properties: the bytes given since the start
  digest   \* what the last finish returned, <<>> before it

digestVars == <<ctx, kind, key, message, digest>>

NoHmac == <<<<"none", 0>>>>
Zero   == <<"0">>
Pad80  == <<"80">>

Zeros(n) == [i \in 1 .. n |-> Zero]
HashLen(k) == IF k = "sha2" THEN BlockSize \div 2 ELSE BlockSize \div 4

(* The digest of a state, as bytes *)
Output(k, state) == [i \in 1 .. HashLen(k) |-> <<k, state, i>>]

Chunks(s) ==
  [i \in 1 .. Len(s) \div BlockSize |-> SubSeq(s, (i - 1) * BlockSize + 1, i * BlockSize)]

(* Word w of the length, as LengthBytes \div 2 bytes *)
WordBytes(w) == [i \in 1 .. LengthBytes \div 2 |-> <<"length", w, i>>]

-----------------------------------------------------------------------------
(* sha2_starts, MD5Init: the buffer keeps what was in it *)
Starts(c) == [c EXCEPT !.t0 = 0, !.t1 = 0, !.state = <<>>]

(* memcpy(buffer + at, s, Len(s)) *)
CopyTo(buffer, at, s) ==
  [i \in 1 .. BlockSize |-> IF i \in at + 1 .. at + Len(s) THEN s[i - at] ELSE buffer[i]]

(* The context c with the block full (none if <<>>) and the whole blocks   *)
(* of rest hashed and what is left of rest in the buffer at index at       *)
Absorb(c, full, at, rest) ==
  LET whole == Chunks(rest)
      left == SubSeq(rest, Len(whole) * BlockSize + 1, Len(rest))
  IN  [c EXCEPT !.state = @ \o full \o whole,
                !.buffer = CopyTo(IF full # <<>> THEN full[1] ELSE @, at, left)]

(* sha2_update: total counts bytes *)
Sha2Total(c, n) ==
  LET t == (c.t0 + n) % Word
  IN  [c EXCEPT !.t0 = t, !.t1 = IF t < n THEN (@ + 1) % Word ELSE @]

Sha2Update(c, s) ==
  LET left == c.t0 % BlockSize
      fill == BlockSize - left
      counted == Sha2Total(c, Len(s))
  IN  IF s = <<>> THEN c
      ELSE IF left > 0 /\ Len(s) >= fill
      THEN Absorb(counted, <<CopyTo(c.buffer, left, SubSeq(s, 1, fill))>>, 0,
                  SubSeq(s, fill + 1, Len(s)))
      ELSE Absorb(counted, <<>>, left, s)

(* MD5Update: count counts bits *)
Md5Total(c, n) ==
  LET low == (n * Bits) % Word
      t == (c.t0 + low) % Word
  IN  [c EXCEPT !.t0 = t,
                !.t1 = (@ + (IF t < low THEN 1 ELSE 0) + (n * Bits) \div Word) % Word]

Md5Update(c, s) ==
  LET index == (c.t0 \div Bits) % BlockSize
      partLen == BlockSize - index
      counted == Md5Total(c, Len(s))
  IN  IF Len(s) >= partLen
      THEN Absorb(counted, <<CopyTo(c.buffer, index, SubSeq(s, 1, partLen))>>, 0,
                  SubSeq(s, partLen + 1, Len(s)))
      ELSE Absorb(counted, <<>>, index, s)

Update(k, c, s) == IF k = "sha2" THEN Sha2Update(c, s) ELSE Md5Update(c, s)

-----------------------------------------------------------------------------
(* The length: SHA-256 turns bytes into bits and puts the high word first  *)
LengthOf(k, c) ==
  IF k = "sha2"
  THEN WordBytes(((c.t0 * Bits) \div Word + c.t1 * Bits) % Word) \o WordBytes((c.t0 * Bits) % Word)
  ELSE WordBytes(c.t0) \o WordBytes(c.t1)

Filled(k, c) == (IF k = "sha2" THEN c.t0 ELSE c.t0 \div Bits) % BlockSize

(* Faulty: a length that just does not fit is taken to fit *)
PadLenOffByOne(last) ==
  IF last <= BlockSize - LengthBytes THEN BlockSize - LengthBytes - last
  ELSE 2 * BlockSize - LengthBytes - last

PadLen(last) ==
  IF last < BlockSize - LengthBytes THEN BlockSize - LengthBytes - last
  ELSE 2 * BlockSize - LengthBytes - last

(* sha2_finish, MD5Final: the context once padding and length are in *)
Finished(k, c) ==
  LET n == PadLen(Filled(k, c))
      padding == SubSeq(<<Pad80>> \o Zeros(2 * BlockSize), 1, n)
  IN  Update(k, Update(k, c, padding), LengthOf(k, c))

(* The digest of s in one call *)
Hash(k, c, s) == Output(k, Finished(k, Update(k, Starts(c), s)).state)

-----------------------------------------------------------------------------
(* HMAC: a key longer than a block is hashed *)
ShortKey(k, c, s) == IF Len(s) > BlockSize THEN Hash(k, c, s) ELSE s

KeyPad(pad, s) ==
  [i \in 1 .. BlockSize |-> <<pad, IF i <= Len(s) THEN s[i] ELSE Zero>>]

(* sha2_hmac_starts *)
HmacStarts(k, c, s) ==
  LET short == ShortKey(k, c, s)
      pads == [c EXCEPT !.ipad = KeyPad("36", short), !.opad = KeyPad("5C", short)]
  IN  Update(k, Starts(pads), pads.ipad)

(* Faulty: what was hashed before stays *)
ResetKeepsTotal(k, c) == Update(k, [c EXCEPT !.state = <<>>], c.ipad)

(* sha2_hmac_reset *)
HmacReset(k, c) == Update(k, Starts(c), c.ipad)

(* sha2_hmac_finish *)
HmacFinished(k, c) ==
  LET inner == Finished(k, c)
  IN  Finished(k, Update(k, Update(k, Starts(inner), inner.opad), Output(k, inner.state)))

-----------------------------------------------------------------------------
(* The calls *)

MessageKey(n) == [i \in 1 .. n |-> <<"key", i>>]

StartDigest(k, hmacKey) ==
  /\ kind' = k
  /\ key' = hmacKey
  /\ ctx' = IF hmacKey = NoHmac THEN Starts(ctx) ELSE HmacStarts(k, ctx, hmacKey)
  /\ message' = <<>>
  /\ digest' = <<>>

(* Bound: an update is shorter than Word *)
UpdateDigest(n) ==
  LET s == [i \in 1 .. n |-> <<"m", Len(message) + i>>]
  IN  /\ kind # "none"
      /\ digest = <<>>
      /\ Len(message) + n <= MaxMessage
      /\ ctx' = Update(kind, ctx, s)
      /\ message' = message \o s
      /\ UNCHANGED <<kind, key, digest>>

FinishDigest ==
  /\ kind # "none"
  /\ digest = <<>>
  /\ ctx' = IF key = NoHmac THEN Finished(kind, ctx) ELSE HmacFinished(kind, ctx)
  /\ digest' = Output(kind, ctx'.state)
  /\ UNCHANGED <<kind, key, message>>

(* The same key for another message, also before the first is finished *)
ResetHmac ==
  /\ kind = "sha2"
  /\ key # NoHmac
  /\ ctx' = HmacReset(kind, ctx)
  /\ message' = <<>>
  /\ digest' = <<>>
  /\ UNCHANGED <<kind, key>>

(* A context is used for one kind of digest *)
DigestInit ==
  /\ ctx = [t0 |-> 0, t1 |-> 0, state |-> <<>>, buffer |-> Zeros(BlockSize),
            ipad |-> Zeros(BlockSize), opad |-> Zeros(BlockSize)]
  /\ kind = "none" /\ key = NoHmac /\ message = <<>> /\ digest = <<>>

DigestNext ==
  \/ \E k \in {"sha2", "md5"} :
       /\ kind \in {"none", k}
       /\ \/ StartDigest(k, NoHmac)
          \/ \E n \in 0 .. BlockSize + 1 : StartDigest(k, MessageKey(n))
  \/ \E n \in 0 .. Word - 1 : UpdateDigest(n)
  \/ FinishDigest
  \/ ResetHmac
=============================================================================
