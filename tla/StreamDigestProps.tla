------------------------- MODULE StreamDigestProps -------------------------
(***************************************************************************)
(* What the digests promise, written down from their definitions           *)
(* (FIPS 180-2, RFC 1321, RFC 2104): the message is padded as a whole and  *)
(* then cut into blocks.                                                   *)
(***************************************************************************)
EXTENDS StreamDigest

BitLength(s) == (Len(s) * Bits) % (Word * Word)

RefLength(k, s) ==
  LET high == WordBytes(BitLength(s) \div Word)
      low  == WordBytes(BitLength(s) % Word)
  IN  IF k = "sha2" THEN high \o low ELSE low \o high

(* As few zeros as make whole blocks *)
RefPadded(k, s) ==
  LET n == CHOOSE n \in 0 .. BlockSize - 1 : (Len(s) + 1 + n + LengthBytes) % BlockSize = 0
  IN  s \o <<Pad80>> \o Zeros(n) \o RefLength(k, s)

RefHash(k, s) == Output(k, Chunks(RefPadded(k, s)))

RefHmac(k, secret, s) ==
  LET short == IF Len(secret) > BlockSize THEN RefHash(k, secret) ELSE secret
  IN  RefHash(k, KeyPad("5C", short) \o RefHash(k, KeyPad("36", short) \o s))

(* However a message is cut into updates, whatever the context was used    *)
(* for before, and also when its length overflows a word, the digest is    *)
(* that of the whole message.                                              *)
StreamIsDigest ==
  digest # <<>> =>
    digest = IF key = NoHmac THEN RefHash(kind, message) ELSE RefHmac(kind, key, message)
=============================================================================
