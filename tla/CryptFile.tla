----------------------------- MODULE CryptFile -----------------------------
(***************************************************************************)
(* CRYPTFILEAES (hbaes/aescrypt2.c) and its callers EncryptFileAES and     *)
(* DecryptFileAES: a file is encrypted block by block behind a header (IV) *)
(* whose low bits say how much of the last block is text, and before a     *)
(* code (MAC, two blocks long) over all of it.  Decryption writes text as  *)
(* it goes and looks at the MAC at the end.  Any read or write may fail,   *)
(* the program may be killed, and the file may be damaged afterwards.      *)
(*                                                                         *)
(* AES and SHA-256 are taken as ideal: a block enciphered with another key,*)
(* and a MAC made with one, is never the same.                             *)
(***************************************************************************)
EXTENDS Naturals, Sequences

CONSTANTS
  AesBlock, \* 16 in the code
  MaxText,   \* bound: length of a text
  Passwords

ASSUME CryptAssumption == AesBlock \in Nat \ {0} /\ MaxText \in Nat

VARIABLES
  text,     \* the file to encrypt: a sequence of bytes
  enc, out, \* the encrypted file, a sequence of blocks, and the decrypted
            \* one; neither need be complete
  keyFiles, \* passwords that are also the name of a file
  op,       \* the call that is running
  made,     \* for the properties: the last complete encryption, [file, text, key]
  last      \* for the properties: how the last call ended, [mode, ret, key, clean]

cryptVars == <<text, enc, out, keyFiles, op, made, last>>

Part == <<"part">>                 \* less than a block, at the end of a file
IV(size) == <<"iv", size>>
Junk(low) == <<"junk", low>>
Pad == <<0, 0>>                    \* a byte behind the end of the text
NotText == [i \in 1 .. AesBlock |-> <<0, 1>>]

Idle == [mode |-> "idle"]
NotMade == [file |-> <<>>, text |-> <<>>, key |-> <<>>]
NoCall == [mode |-> "idle", ret |-> 1, key |-> <<>>, clean |-> TRUE]

(* Texts of each length, and another one of the longest *)
TextOf(v, n) == [i \in 1 .. n |-> <<v, i>>]
SomeTexts == {TextOf(1, n) : n \in 0 .. MaxText} \cup {TextOf(2, MaxText)}

(* A password that names a file stands for what is in the file *)
KeyOf(p) == IF p \in keyFiles THEN <<"file", p>> ELSE <<"password", p>>

-----------------------------------------------------------------------------
(* The primitives.  d is the result of the 8192 hashes of IV and key.      *)

Digest(iv, key) == <<iv, key>>

(* CBC: the block, exclusive-or the one before it, enciphered              *)
Cipher(d, plain, prev) == <<"block", d, plain, prev>>
Decipher(d, unit, prev) ==
  IF unit[1] = "block" /\ unit[2] = d /\ unit[4] = prev THEN unit[3] ELSE NotText

Mac(d, blocks) == <<<<"mac1", d, blocks>>, <<"mac2", d, blocks>>>>

(* lastn: the low bits of the header *)
LastOf(unit) == IF unit[1] = "iv" THEN unit[2] % AesBlock
                ELSE IF unit[1] = "junk" THEN unit[2] ELSE 0

Smaller(a, b) == IF a < b THEN a ELSE b

(* What of a file may be on disk when its writer stops: any part of it *)
Written(f) == {SubSeq(f, 1, n) : n \in 0 .. Len(f)}
WrittenBlocks(f) == Written(f) \cup {Append(SubSeq(f, 1, n), Part) : n \in 0 .. Len(f) - 1}

-----------------------------------------------------------------------------
(* The end of a call.  Nobody looks at what fclose returns: a disk that is *)
(* full only then leaves a part of the file and ret 0.                     *)

End(ret, clean) ==
  /\ op' = Idle
  /\ last' = [mode |-> op.mode, ret |-> ret, key |-> op.key, clean |-> clean]

(* Faulty: the MAC is not looked at; the last block is always cut          *)
MacUnread(f, d, blocks) == TRUE
LastCut(lastn, isLast) == IF isLast THEN lastn ELSE AesBlock

MacMatches(f, d, blocks) == <<f[Len(f) - 1], f[Len(f)]>> = Mac(d, blocks)

(* Header and MAC at least, and whole blocks *)
TooShort(f) == Len(f) < 3 \/ f[Len(f)] = Part

(* How much of a decrypted block is text *)
TextIn(lastn, isLast) == IF lastn > 0 /\ isLast THEN lastn ELSE AesBlock

-----------------------------------------------------------------------------
(* Encryption                                                              *)

(* The output is truncated and the header written.  The user agreed to     *)
(* overwrite a file that was there.                                        *)
StartEncrypt(p) ==
  LET iv == IV(Len(text)) IN
  /\ op = Idle
  /\ op' = [mode |-> "encrypt", key |-> KeyOf(p), d |-> Digest(iv, KeyOf(p)),
            offset |-> 0, prev |-> iv, blocks |-> <<>>]
  /\ enc' = <<iv>>
  /\ made' = NotMade
  /\ last' = NoCall
  /\ UNCHANGED <<text, out, keyFiles>>

EncryptBlock ==
  LET n == Smaller(AesBlock, Len(text) - op.offset)
      plain == [i \in 1 .. AesBlock |-> IF i <= n THEN text[op.offset + i] ELSE Pad]
      block == Cipher(op.d, plain, op.prev)
  IN  /\ op.mode = "encrypt"
      /\ op.offset < Len(text)
      /\ enc' = Append(enc, block)
      /\ op' = [op EXCEPT !.offset = @ + AesBlock, !.prev = block,
                          !.blocks = Append(@, block)]
      /\ UNCHANGED <<text, out, keyFiles, made, last>>

EndEncrypt ==
  LET file == enc \o Mac(op.d, op.blocks) IN
  /\ op.mode = "encrypt"
  /\ op.offset >= Len(text)
  /\ \/ /\ enc' = file
        /\ made' = [file |-> file, text |-> text, key |-> op.key]
        /\ End(0, TRUE)
     \/ /\ enc' \in WrittenBlocks(file) \ {file}
        /\ End(0, FALSE)
        /\ UNCHANGED made
  /\ UNCHANGED <<text, out, keyFiles>>

-----------------------------------------------------------------------------
(* Decryption                                                              *)

(* The output is truncated before the input is looked at *)
StartDecrypt(p) ==
  LET d == Digest(enc[1], KeyOf(p)) IN
  /\ op = Idle
  /\ enc # <<>>
  /\ out' = <<>>
  /\ \/ /\ TooShort(enc)
        /\ last' = [mode |-> "decrypt", ret |-> 1, key |-> KeyOf(p), clean |-> TRUE]
        /\ UNCHANGED op
     \/ /\ ~TooShort(enc)
        /\ op' = [mode |-> "decrypt", key |-> KeyOf(p), d |-> d, offset |-> 0,
                  prev |-> enc[1], blocks |-> <<>>]
        /\ last' = NoCall
  /\ UNCHANGED <<text, enc, keyFiles, made>>

(* The blocks between header and MAC *)
Blocks == Len(enc) - 3

DecryptBlock ==
  LET i == op.offset + 1
      unit == enc[i + 1]
      n == TextIn(LastOf(enc[1]), i = Blocks)
  IN  /\ op.mode = "decrypt"
      /\ op.offset < Blocks
      /\ out' = out \o SubSeq(Decipher(op.d, unit, op.prev), 1, n)
      /\ op' = [op EXCEPT !.offset = i, !.prev = unit, !.blocks = Append(@, unit)]
      /\ UNCHANGED <<text, enc, keyFiles, made, last>>

EndDecrypt ==
  /\ op.mode = "decrypt"
  /\ op.offset >= Blocks
  /\ \/ /\ MacMatches(enc, op.d, op.blocks)
        /\ End(0, TRUE)
        /\ UNCHANGED out
     \/ /\ MacMatches(enc, op.d, op.blocks)
        /\ out' \in Written(out) \ {out}
        /\ End(0, FALSE)
     \/ /\ ~MacMatches(enc, op.d, op.blocks)
        /\ End(1, TRUE)
        /\ UNCHANGED out
  /\ UNCHANGED <<text, enc, keyFiles, made>>

-----------------------------------------------------------------------------
(* Failures: a read or a write fails, and the call returns 1; the program  *)
(* is killed.  What was written so far need not be on disk.                *)

StopsHere ==
  /\ \/ /\ op.mode = "encrypt"
        /\ enc' \in WrittenBlocks(enc)
        /\ UNCHANGED out
     \/ /\ op.mode = "decrypt"
        /\ out' \in Written(out)
        /\ UNCHANGED enc
  /\ UNCHANGED <<text, keyFiles, made>>

FailIO == StopsHere /\ End(1, FALSE)
Killed == StopsHere /\ op' = Idle /\ last' = NoCall

(* Between the calls the text is edited, files come and go, and the        *)
(* encrypted file is cut off, lengthened, spoilt or put together wrongly.  *)
Between ==
  /\ op = Idle
  /\ last' = NoCall
  /\ UNCHANGED <<out, op, made>>

EditText == Between /\ text' \in SomeTexts \ {text} /\ UNCHANGED <<enc, keyFiles>>

KeyFile(p) ==
  /\ Between
  /\ keyFiles' = IF p \in keyFiles THEN keyFiles \ {p} ELSE keyFiles \cup {p}
  /\ UNCHANGED <<text, enc>>

Damage ==
  /\ Between
  /\ enc = made.file
  /\ \/ enc' \in WrittenBlocks(enc) \cup {Append(enc, Part), Append(enc, Junk(0))}
     \/ \E i \in DOMAIN enc, low \in 0 .. AesBlock - 1 : enc' = [enc EXCEPT ![i] = Junk(low)]
     \/ \E i, j \in 2 .. Len(enc) : enc' = [enc EXCEPT ![i] = enc[j], ![j] = enc[i]]
  /\ UNCHANGED <<text, keyFiles>>

-----------------------------------------------------------------------------
CryptInit ==
  /\ text = <<>> /\ enc = <<>> /\ out = <<>>
  /\ keyFiles = {}
  /\ op = Idle
  /\ made = NotMade
  /\ last = NoCall

CryptNext ==
  \/ \E p \in Passwords : StartEncrypt(p) \/ StartDecrypt(p) \/ KeyFile(p)
  \/ EncryptBlock \/ EndEncrypt
  \/ DecryptBlock \/ EndDecrypt
  \/ FailIO \/ Killed
  \/ EditText \/ Damage

CryptSpec == CryptInit /\ [][CryptNext]_cryptVars
=============================================================================
