--------------------------- MODULE CryptFileProps ---------------------------
(***************************************************************************)
(* Properties of encrypted files.                                          *)
(***************************************************************************)
EXTENDS CryptFile

(* Decryption returns 0 for a file that an encryption finished, with the   *)
(* same key and whatever the length of the text, and then wrote that text  *)
(* and not a block more; it returns 0 for no other file, be it cut,        *)
(* spoilt in one of its blocks, or its blocks put in another order.        *)
OpensIfGenuine ==
  last.mode = "decrypt" /\ last.clean =>
    /\ last.ret = 0 <=> enc = made.file /\ last.key = made.key
    /\ last.ret = 0 => out = made.text
=============================================================================
