---------------------------- MODULE Crypt_proofs ----------------------------
(***************************************************************************)
(* Of files of any length and blocks of any size, DecryptFileAES opens     *)
(* those that EncryptFileAES finished with the same key, and no other.     *)
(* Of messages of any length, cut in any way, and blocks and words of any  *)
(* size, SHA-256, MD5 and their HMACs give the digest of the whole.        *)
(***************************************************************************)
EXTENDS CryptFileProps, StreamDigestProps, Integers, SequenceTheorems, TLAPS

-----------------------------------------------------------------------------
(* The inductive invariant.                                                *)

(* Sequences of anything: a block of a file contains the block before it,  *)
(* so that there is no set of all blocks.                                  *)
Units(s) == {s[i] : i \in DOMAIN s}
IsSeq(s) == s \in Seq(Units(s))

Byte == (1 .. 2) \X (1 .. MaxText)

(* The block of the text t behind its first from bytes *)
PlainBlock(t, from) ==
  [j \in 1 .. AesBlock |-> IF from + j <= Len(t) THEN t[from + j] ELSE Pad]

(* The first m blocks of the file f, and that they are those of the text t *)
(* enciphered in a chain                                                   *)
Middle(f, m) == [i \in 1 .. m |-> f[i + 1]]
Enciphers(f, t, k, m) ==
  /\ f[1] = IV(Len(t))
  /\ \A i \in 1 .. m :
       f[i + 1] = Cipher(Digest(f[1], k), PlainBlock(t, (i - 1) * AesBlock), f[i])

(* The text t needs as many as m blocks; m blocks are enough for it *)
Needed(t, m) == m > 0 => (m - 1) * AesBlock < Len(t)
Enough(t, m) == Len(t) <= m * AesBlock

(* A file that an encryption of t with the key k finished *)
Genuine(f, t, k) ==
  LET m == Len(f) - 3
  IN  /\ IsSeq(f) /\ m >= 0 /\ t \in Seq(Byte)
      /\ Enciphers(f, t, k, m)
      /\ Needed(t, m) /\ Enough(t, m)
      /\ f[Len(f) - 1] = <<"mac1", Digest(f[1], k), Middle(f, m)>>
      /\ f[Len(f)] = <<"mac2", Digest(f[1], k), Middle(f, m)>>

(* The second half of a MAC, which is written last, is there only as that  *)
(* of the last encryption that ended.                                      *)
FilesInv ==
  /\ text \in Seq(Byte)
  /\ IsSeq(enc)
  /\ made = NotMade \/ Genuine(made.file, made.text, made.key)
  /\ \A i \in DOMAIN enc : enc[i][1] = "mac2" =>
       made # NotMade /\ enc[i] = made.file[Len(made.file)]

Running == [mode |-> op.mode, key |-> op.key, d |-> op.d, offset |-> op.offset,
            prev |-> op.prev, blocks |-> op.blocks]

Encrypting ==
  LET m == Len(enc) - 1
  IN  /\ op = Running /\ op.mode = "encrypt" /\ last = NoCall
      /\ made = NotMade
      /\ m >= 0
      /\ op.d = Digest(enc[1], op.key) /\ op.prev = enc[m + 1]
      /\ op.blocks = Middle(enc, m) /\ op.offset = m * AesBlock
      /\ Enciphers(enc, text, op.key, m) /\ Needed(text, m)

(* w is the first n bytes of t, or all of it                               *)
Begins(w, t, n) ==
  /\ w \in Seq(Byte) /\ Len(w) = Smaller(n, Len(t))
  /\ \A j \in 1 .. Len(w) : w[j] = t[j]

(* Of a genuine file the text is written as far as it is deciphered.       *)
Decrypting ==
  /\ op = Running /\ op.mode = "decrypt" /\ last = NoCall
  /\ ~TooShort(enc) /\ op.offset \in 0 .. Blocks
  /\ op.d = Digest(enc[1], op.key) /\ op.prev = enc[op.offset + 1]
  /\ op.blocks = Middle(enc, op.offset)
  /\ enc = made.file /\ op.key = made.key => Begins(out, made.text, op.offset * AesBlock)

CryptInv ==
  /\ FilesInv
  /\ op = Idle \/ Encrypting \/ Decrypting
  /\ OpensIfGenuine

-----------------------------------------------------------------------------
(* Sequences.                                                              *)

(* A sequence of elements of a set is a sequence. *)
LEMMA IsSeqIn ==
  ASSUME NEW S, NEW s \in Seq(S)
  PROVE  IsSeq(s)
<1>1. /\ Len(s) \in Nat /\ DOMAIN s = 1 .. Len(s) /\ s \in [1 .. Len(s) -> S]
  BY LenProperties
<1>2. s \in [1 .. Len(s) -> Units(s)]
  BY <1>1 DEF Units
<1> QED
  BY <1>1, <1>2 DEF IsSeq

(* What it is to be one: a length, and an element at each index. *)
LEMMA SeqOf ==
  ASSUME NEW s, IsSeq(s)
  PROVE  /\ Len(s) \in Nat /\ DOMAIN s = 1 .. Len(s)
         /\ s \in [1 .. Len(s) -> Units(s)]
  BY LenProperties DEF IsSeq

(* A sequence is one over every set that holds its elements. *)
LEMMA SeqIn ==
  ASSUME NEW s, IsSeq(s), NEW S, \A i \in 1 .. Len(s) : s[i] \in S
  PROVE  s \in Seq(S)
<1>1. /\ Len(s) \in Nat /\ DOMAIN s = 1 .. Len(s) /\ s \in [1 .. Len(s) -> Units(s)]
  BY SeqOf
<1>2. s \in [1 .. Len(s) -> S]
  BY <1>1
<1> QED
  BY <1>1, <1>2

(* Sequences are equal if they agree in length and element by element. *)
LEMMA SameSeq ==
  ASSUME NEW s, NEW t, IsSeq(s), IsSeq(t), Len(s) = Len(t),
         \A i \in 1 .. Len(s) : s[i] = t[i]
  PROVE  s = t
<1>1. s \in [1 .. Len(s) -> Units(s)] /\ t \in [1 .. Len(s) -> Units(t)]
  BY SeqOf
<1> QED
  BY <1>1

(* Append keeps what is there. *)
LEMMA Appended ==
  ASSUME NEW s, IsSeq(s), NEW e
  PROVE  /\ IsSeq(Append(s, e)) /\ Len(Append(s, e)) = Len(s) + 1
         /\ \A i \in 1 .. Len(s) : Append(s, e)[i] = s[i]
         /\ Append(s, e)[Len(s) + 1] = e
<1> DEFINE S == Units(s) \cup {e}
<1>1. Len(s) \in Nat /\ s \in [1 .. Len(s) -> Units(s)]
  BY SeqOf
<1>2. s \in Seq(S) /\ e \in S
  BY <1>1, SeqIn
<1> HIDE DEF S
<1>3. Append(s, e) \in Seq(S)
  BY <1>2
<1>4. IsSeq(Append(s, e))
  BY <1>3, IsSeqIn
<1> QED
  BY <1>2, <1>4, AppendProperties

(* The first elements of a sequence *)
LEMMA Cut ==
  ASSUME NEW s, IsSeq(s), NEW n \in 0 .. Len(s)
  PROVE  /\ IsSeq(SubSeq(s, 1, n)) /\ Len(SubSeq(s, 1, n)) = n
         /\ \A i \in 1 .. n : SubSeq(s, 1, n)[i] = s[i]
<1>1. Len(s) \in Nat /\ DOMAIN s = 1 .. Len(s) /\ s \in [1 .. Len(s) -> Units(s)]
  BY SeqOf
<1>2. /\ 1 \in Int /\ n \in Int /\ n \in Nat
      /\ \A i \in 1 .. n : s[i] \in Units(s)
  BY <1>1
<1>3. /\ SubSeq(s, 1, n) \in Seq(Units(s))
      /\ Len(SubSeq(s, 1, n)) = IF 1 <= n THEN n - 1 + 1 ELSE 0
      /\ \A i \in 1 .. n - 1 + 1 : SubSeq(s, 1, n)[i] = s[1 + i - 1]
  BY <1>2, SubSeqProperties
<1>4. IsSeq(SubSeq(s, 1, n))
  BY <1>3, IsSeqIn
<1> QED
  BY <1>2, <1>3, <1>4

(* The blocks between the head of a file and its MAC, as a sequence. *)
LEMMA Blocked ==
  ASSUME NEW f, NEW m \in Nat
  PROVE  /\ IsSeq(Middle(f, m)) /\ Len(Middle(f, m)) = m
         /\ \A i \in 1 .. m : Middle(f, m)[i] = f[i + 1]
<1> DEFINE S == {f[i + 1] : i \in 1 .. m}
<1>1. Middle(f, m) \in [1 .. m -> S]
  BY DEF Middle
<1>2. \A T, n \in Nat : \A g \in [1 .. n -> T] : g \in Seq(T) /\ Len(g) = n
  OBVIOUS
<1> HIDE DEF S
<1>3. Middle(f, m) \in Seq(S) /\ Len(Middle(f, m)) = m
  BY <1>1, <1>2
<1>4. IsSeq(Middle(f, m))
  BY <1>3, IsSeqIn
<1> QED
  BY <1>3, <1>4 DEF Middle

(* They grow by the block that is written or read next. *)
LEMMA OneMoreBlock ==
  ASSUME NEW f, NEW m \in Nat
  PROVE  Append(Middle(f, m), f[m + 2]) = Middle(f, m + 1)
<1>1. /\ IsSeq(Middle(f, m)) /\ Len(Middle(f, m)) = m
      /\ \A i \in 1 .. m : Middle(f, m)[i] = f[i + 1]
  BY Blocked
<1>2. /\ IsSeq(Middle(f, m + 1)) /\ Len(Middle(f, m + 1)) = m + 1
      /\ \A i \in 1 .. m + 1 : Middle(f, m + 1)[i] = f[i + 1]
  BY Blocked, m + 1 \in Nat
<1>3. \A i \in 1 .. m + 1 : Append(Middle(f, m), f[m + 2])[i] = Middle(f, m + 1)[i]
  <2> SUFFICES ASSUME NEW i \in 1 .. m + 1
               PROVE  Append(Middle(f, m), f[m + 2])[i] = f[i + 1]
    BY <1>2
  <2>1. CASE i = m + 1
    <3>1. Append(Middle(f, m), f[m + 2])[m + 1] = f[m + 2]
      BY <1>1, Appended
    <3>2. i + 1 = m + 2
      BY <2>1
    <3> QED
      BY <2>1, <3>1, <3>2
  <2>2. CASE i # m + 1
    BY <1>1, <2>2, Appended
  <2> QED
    BY <2>1, <2>2
<1>4. /\ IsSeq(Append(Middle(f, m), f[m + 2]))
      /\ Len(Append(Middle(f, m), f[m + 2])) = m + 1
  BY <1>1, Appended
<1> QED
  BY <1>2, <1>3, <1>4, SameSeq

(* They depend on nothing else in the file. *)
LEMMA SameBlocks ==
  ASSUME NEW f, NEW g, NEW m \in Nat, \A i \in 2 .. m + 1 : f[i] = g[i]
  PROVE  Middle(f, m) = Middle(g, m)
  BY DEF Middle

-----------------------------------------------------------------------------
(* Files.                                                                  *)

(* A part of a file, as it may be on disk *)
LEMMA PartWritten ==
  ASSUME NEW f, IsSeq(f), NEW e \in WrittenBlocks(f)
  PROVE  /\ IsSeq(e)
         /\ \A i \in DOMAIN e : e[i] = Part \/ (i \in DOMAIN f /\ e[i] = f[i])
         /\ e # f => \A i \in DOMAIN e : e[i] = Part \/ i # Len(f)
<1>1. Len(f) \in Nat /\ DOMAIN f = 1 .. Len(f)
  BY SeqOf
<1>2. ASSUME NEW n \in 0 .. Len(f), e = SubSeq(f, 1, n)
      PROVE  /\ IsSeq(e)
             /\ \A i \in DOMAIN e : e[i] = Part \/ (i \in DOMAIN f /\ e[i] = f[i])
             /\ e # f => \A i \in DOMAIN e : e[i] = Part \/ i # Len(f)
  <2>1. IsSeq(e) /\ Len(e) = n /\ \A i \in 1 .. n : e[i] = f[i]
    BY <1>2, Cut
  <2>2. DOMAIN e = 1 .. n
    BY <2>1, SeqOf
  <2>3. n = Len(f) => e = f
    BY <2>1, SameSeq
  <2>4. \A i \in DOMAIN e : i \in DOMAIN f /\ e[i] = f[i]
    BY <1>1, <2>1, <2>2
  <2>5. ASSUME e # f, NEW i \in DOMAIN e PROVE i # Len(f)
    <3>1. n # Len(f) /\ i \in 1 .. n
      BY <2>2, <2>3, <2>5
    <3>2. \A N \in Nat : n \in 0 .. N /\ n # N => i # N
      BY <3>1
    <3> QED
      BY <1>1, <3>1, <3>2
  <2> QED
    BY <2>1, <2>4, <2>5
<1>3. ASSUME NEW n \in 0 .. Len(f) - 1, e = Append(SubSeq(f, 1, n), Part)
      PROVE  /\ IsSeq(e)
             /\ \A i \in DOMAIN e : e[i] = Part \/ (i \in DOMAIN f /\ e[i] = f[i])
             /\ e # f => \A i \in DOMAIN e : e[i] = Part \/ i # Len(f)
  <2> DEFINE s == SubSeq(f, 1, n)
  <2>0. n \in 0 .. Len(f)
    BY <1>1
  <2>1. IsSeq(s) /\ Len(s) = n /\ \A i \in 1 .. n : s[i] = f[i]
    BY <2>0, Cut
  <2> HIDE DEF s
  <2>2. /\ IsSeq(Append(s, Part)) /\ Len(Append(s, Part)) = n + 1
        /\ \A i \in 1 .. n : Append(s, Part)[i] = s[i]
        /\ Append(s, Part)[n + 1] = Part
    BY <2>1, Appended
  <2>3. e = Append(s, Part)
    BY <1>3 DEF s
  <2>4. DOMAIN e = 1 .. n + 1
    BY <2>2, <2>3, SeqOf
  <2>5. \A i \in DOMAIN e : (i = n + 1 /\ e[i] = Part) \/ (i \in 1 .. n /\ e[i] = f[i])
    BY <1>1, <2>1, <2>2, <2>3, <2>4
  <2>6. \A i \in 1 .. n : i \in DOMAIN f /\ i # Len(f)
    <3> TAKE i \in 1 .. n
    <3>1. \A N \in Nat : n \in 0 .. N - 1 => i \in 1 .. N /\ i # N
      OBVIOUS
    <3> QED
      BY <1>1, <3>1
  <2>7. IsSeq(e)
    BY <2>2, <2>3
  <2> QED
    BY <2>5, <2>6, <2>7
<1> QED
  BY <1>2, <1>3 DEF WrittenBlocks, Written

(* A step that ends no encryption and writes no second half of a MAC.      *)
LEMMA FilesKept ==
  ASSUME FilesInv, text' \in Seq(Byte), IsSeq(enc'), made' = made,
         \A i \in DOMAIN enc' : enc'[i] \in Units(enc) \/ enc'[i][1] # "mac2"
  PROVE  FilesInv'
<1>1. ASSUME NEW i \in DOMAIN enc', enc'[i][1] = "mac2"
      PROVE  made # NotMade /\ enc'[i] = made.file[Len(made.file)]
  <2>1. PICK j \in DOMAIN enc : enc'[i] = enc[j]
    BY <1>1 DEF Units
  <2> QED
    BY <1>1, <2>1 DEF FilesInv
<1>2. (IsSeq(enc))' <=> IsSeq(enc')
  BY DEF IsSeq, Units
<1>3. Genuine(made.file, made.text, made.key)' <=> Genuine(made.file, made.text, made.key)
  BY DEF Genuine, IsSeq, Units, Enciphers, Needed, Enough, Middle, PlainBlock, Cipher, Digest,
         IV, Pad, Byte
<1> QED
  BY <1>1, <1>2, <1>3 DEF FilesInv, NotMade, Byte

(* Between calls nothing is said of the last one once it is forgotten.     *)
LEMMA Forgotten ==
  ASSUME last' = NoCall \/ last'.mode = "encrypt" \/ ~last'.clean
  PROVE  OpensIfGenuine'
  BY DEF OpensIfGenuine, NoCall

-----------------------------------------------------------------------------
(* Whole blocks of AesBlock bytes.                                         *)

(* One block more is AesBlock bytes more. *)
LEMMA OneMore ==
  ASSUME NEW m \in Nat
  PROVE  /\ (m + 1) * AesBlock = m * AesBlock + AesBlock
         /\ m * AesBlock \in Nat /\ AesBlock \in Nat /\ AesBlock > 0
  BY CryptAssumption

(* More blocks are not fewer bytes. *)
LEMMA NoFewer ==
  ASSUME NEW i \in Nat, NEW m \in Nat, i <= m
  PROVE  i * AesBlock <= m * AesBlock
<1>1. PICK j \in Nat : m = i + j
  BY m - i \in Nat, m = i + (m - i)
<1>2. m * AesBlock = i * AesBlock + j * AesBlock
  BY <1>1, CryptAssumption
<1>3. j * AesBlock \in Nat /\ i * AesBlock \in Nat
  BY OneMore
<1> QED
  BY <1>2, <1>3

(* The low bits of the length tell how much of the last block is text.     *)
LEMMA LastBlock ==
  ASSUME NEW L \in Nat, NEW m \in Nat, m > 0, (m - 1) * AesBlock < L, L <= m * AesBlock
  PROVE  L = (m - 1) * AesBlock + (IF L % AesBlock > 0 THEN L % AesBlock ELSE AesBlock)
<1> DEFINE q == L \div AesBlock
           r == L % AesBlock
<1>1. q \in Nat /\ r \in 0 .. AesBlock - 1 /\ L = q * AesBlock + r
  <2>1. q \in Int /\ r \in 0 .. AesBlock - 1 /\ L = q * AesBlock + r
    BY CryptAssumption
  <2>2. q >= 0
    BY <2>1, CryptAssumption
  <2> QED
    BY <2>1, <2>2
<1> HIDE DEF q, r
<1>2. m - 1 \in Nat /\ m * AesBlock = (m - 1) * AesBlock + AesBlock /\ (m - 1) * AesBlock \in Nat
  BY OneMore, m - 1 \in Nat, (m - 1) + 1 = m
<1>3. q >= m - 1
  <2>1. SUFFICES ASSUME q < m - 1 PROVE FALSE
    BY <1>1, <1>2
  <2>2. (q + 1) * AesBlock <= (m - 1) * AesBlock
    BY <1>1, <1>2, <2>1, NoFewer
  <2> QED
    BY <1>1, <1>2, <2>2, OneMore
<1>4. q <= m
  <2>1. SUFFICES ASSUME q > m PROVE FALSE
    BY <1>1
  <2>2. (m + 1) * AesBlock <= q * AesBlock
    BY <1>1, <2>1, NoFewer
  <2> QED
    BY <1>1, <1>2, <2>2, OneMore
<1>5. CASE q = m
  <2>1. r = 0 /\ L = (m - 1) * AesBlock + AesBlock
    BY <1>1, <1>2, <1>5, CryptAssumption
  <2> QED
    BY <2>1 DEF r
<1>6. CASE q = m - 1
  BY <1>1, <1>2, <1>6 DEF r
<1> QED
  BY <1>1, <1>3, <1>4, <1>5, <1>6

-----------------------------------------------------------------------------
(* Encryption.                                                             *)

(* Encryption begins with the head of the file and no block. *)
LEMMA StartsEncrypting ==
  ASSUME CryptInv, NEW p, StartEncrypt(p)
  PROVE  CryptInv'
<1> DEFINE iv == IV(Len(text))
<1>1. /\ enc' = <<iv>> /\ made' = NotMade /\ last' = NoCall /\ text' = text
      /\ op' = [mode |-> "encrypt", key |-> KeyOf(p), d |-> Digest(iv, KeyOf(p)),
                offset |-> 0, prev |-> iv, blocks |-> <<>>]
  BY DEF StartEncrypt
<1>2. iv[1] # "mac2"
  BY DEF IV
<1>3. /\ Len(enc') = 1 /\ DOMAIN enc' = {1} /\ enc'[1] = iv /\ IsSeq(enc')
  <2>1. enc' \in Seq({iv})
    BY <1>1
  <2>2. IsSeq(enc')
    BY <2>1, IsSeqIn
  <2> QED
    BY <1>1, <2>2
<1>4. FilesInv'
  <2>1. (IsSeq(enc))' <=> IsSeq(enc')
    BY DEF IsSeq, Units
  <2> QED
    BY <1>1, <1>2, <1>3, <2>1 DEF CryptInv, FilesInv, NotMade, Byte
<1>5. Encrypting'
  <2> DEFINE m == Len(enc') - 1
  <2>1. m = 0
    BY <1>3
  <2>2. Running' = op'
    BY <1>1 DEF Running
  <2>3. Middle(enc', 0) = <<>>
    BY DEF Middle
  <2>4. Enciphers(enc', text', op'.key, 0) /\ Needed(text', 0)
    BY <1>1, <1>3 DEF Enciphers, Needed
  <2>5. op'.d = Digest(enc'[1], op'.key) /\ op'.prev = enc'[0 + 1] /\ op'.offset = 0 * AesBlock
    BY <1>1, <1>3, CryptAssumption
  <2> QED
    BY <1>1, <2>1, <2>2, <2>3, <2>4, <2>5 DEF Encrypting
<1> QED
  BY <1>1, <1>4, <1>5, Forgotten DEF CryptInv

(* One block more, read, enciphered and written. *)
LEMMA EncryptsBlock ==
  ASSUME CryptInv, EncryptBlock
  PROVE  CryptInv'
<1> DEFINE m == Len(enc) - 1
           plain == PlainBlock(text, op.offset)
           block == Cipher(op.d, plain, op.prev)
<1>1. /\ op.mode = "encrypt" /\ op.offset < Len(text)
      /\ UNCHANGED <<text, made, last>>
  BY DEF EncryptBlock
<1>2. Encrypting /\ FilesInv
  BY <1>1 DEF CryptInv, Decrypting, Idle
<1>3. /\ op = Running /\ last = NoCall /\ made = NotMade
      /\ m \in Nat /\ Len(enc) = m + 1 /\ m + 1 \in DOMAIN enc
      /\ \A i \in 1 .. m : i \in 1 .. Len(enc) /\ i + 1 \in 1 .. Len(enc)
      /\ 1 \in 1 .. Len(enc)
      /\ op.d = Digest(enc[1], op.key) /\ op.prev = enc[m + 1]
      /\ op.blocks = Middle(enc, m) /\ op.offset = m * AesBlock
      /\ Enciphers(enc, text, op.key, m)
      /\ IsSeq(enc) /\ Len(text) \in Nat
  <2>1. Len(enc) \in Nat /\ DOMAIN enc = 1 .. Len(enc) /\ Len(text) \in Nat
    BY <1>2, SeqOf, LenProperties DEF FilesInv
  <2> QED
    BY <1>2, <2>1 DEF Encrypting, FilesInv
<1>4. [i \in 1 .. AesBlock |-> IF i <= Smaller(AesBlock, Len(text) - op.offset)
                               THEN text[op.offset + i] ELSE Pad] = plain
  <2>1. op.offset \in Nat /\ AesBlock \in Nat
    BY <1>3, OneMore
  <2>2. ASSUME NEW i \in 1 .. AesBlock
        PROVE  i <= Smaller(AesBlock, Len(text) - op.offset) <=> op.offset + i <= Len(text)
    BY <1>1, <1>3, <2>1 DEF Smaller
  <2> QED
    BY <2>2 DEF PlainBlock
<1>5. /\ enc' = Append(enc, block)
      /\ op' = [op EXCEPT !.offset = @ + AesBlock, !.prev = block, !.blocks = Append(@, block)]
  BY <1>4 DEF EncryptBlock
<1> HIDE DEF plain, m
<1>6. /\ IsSeq(enc') /\ Len(enc') = m + 2 /\ DOMAIN enc' = 1 .. m + 2
      /\ \A i \in 1 .. m + 1 : enc'[i] = enc[i]
      /\ enc'[m + 2] = block
  <2>1. /\ IsSeq(enc') /\ Len(enc') = Len(enc) + 1
        /\ \A i \in 1 .. Len(enc) : enc'[i] = enc[i]
        /\ enc'[Len(enc) + 1] = block
    BY <1>3, <1>5, Appended
  <2> QED
    BY <1>3, <2>1, SeqOf
<1>7. block[1] = "block"
  BY DEF Cipher
<1> HIDE DEF block
<1>8. FilesInv'
  <2>1. ASSUME NEW i \in DOMAIN enc' PROVE enc'[i] \in Units(enc) \/ enc'[i][1] # "mac2"
    <3>1. CASE i = m + 2
      BY <1>6, <1>7, <3>1
    <3>2. CASE i # m + 2
      <4>1. i \in 1 .. m + 1 /\ DOMAIN enc = 1 .. m + 1
        BY <1>3, <1>6, <3>2, SeqOf
      <4> QED
        BY <1>6, <4>1 DEF Units
    <3> QED
      BY <3>1, <3>2
  <2> QED
    BY <1>1, <1>2, <1>6, <2>1, FilesKept DEF FilesInv
<1>9. /\ op'.mode = "encrypt" /\ op'.key = op.key /\ op'.d = op.d /\ op' = Running'
      /\ op'.offset = op.offset + AesBlock /\ op'.prev = block
      /\ op'.blocks = Append(op.blocks, block)
  BY <1>1, <1>3, <1>5 DEF Running
<1>10. Encrypting'
  <2>1. Len(enc') - 1 = m + 1
    BY <1>3, <1>6
  <2>2. op'.blocks = Middle(enc', m + 1)
    <3>1. Middle(enc, m) = Middle(enc', m)
      BY <1>3, <1>6, SameBlocks
    <3> QED
      BY <1>3, <1>6, <1>9, <3>1, OneMoreBlock
  <2>3. op'.offset = (m + 1) * AesBlock
    BY <1>3, <1>9, OneMore
  <2>4. Needed(text', m + 1)
    BY <1>1, <1>3 DEF Needed
  <2>5. enc'[1] = enc[1]
    BY <1>3, <1>6
  <2>6. Enciphers(enc', text', op'.key, m + 1)
    <3>1. enc'[1] = IV(Len(text'))
      BY <1>1, <1>3, <2>5 DEF Enciphers
    <3> SUFFICES ASSUME NEW i \in 1 .. m + 1
                 PROVE  enc'[i + 1] = Cipher(Digest(enc'[1], op'.key),
                                             PlainBlock(text', (i - 1) * AesBlock), enc'[i])
      BY <3>1 DEF Enciphers
    <3>2. CASE i = m + 1
      <4>1. enc'[i + 1] = block /\ i - 1 = m /\ enc'[i] = enc[m + 1]
        BY <1>3, <1>6, <3>2
      <4>2. block = Cipher(Digest(enc[1], op.key), PlainBlock(text, m * AesBlock), enc[m + 1])
        BY <1>3 DEF block, plain
      <4> QED
        BY <1>1, <1>9, <2>5, <4>1, <4>2
    <3>3. CASE i # m + 1
      <4>1. i \in 1 .. m /\ enc'[i + 1] = enc[i + 1] /\ enc'[i] = enc[i]
        BY <1>3, <1>6, <3>3
      <4>2. enc[i + 1] = Cipher(Digest(enc[1], op.key), PlainBlock(text, (i - 1) * AesBlock), enc[i])
        BY <1>3, <4>1 DEF Enciphers
      <4> QED
        BY <1>1, <1>9, <2>5, <4>1, <4>2
    <3> QED
      BY <3>2, <3>3
  <2>7. op'.d = Digest(enc'[1], op'.key) /\ op'.prev = enc'[m + 1 + 1] /\ m + 1 >= 0
    BY <1>3, <1>6, <1>9, <2>5
  <2> QED
    BY <1>1, <1>3, <1>9, <2>1, <2>2, <2>3, <2>4, <2>6, <2>7 DEF Encrypting
<1> QED
  BY <1>1, <1>3, <1>8, <1>10, Forgotten DEF CryptInv

(* The MAC goes behind the blocks.                                         *)
LEMMA MacAppended ==
  ASSUME NEW f, IsSeq(f), NEW d, NEW blocks
  PROVE  LET g == f \o Mac(d, blocks)
         IN  /\ IsSeq(g) /\ Len(g) = Len(f) + 2
             /\ \A i \in 1 .. Len(f) : g[i] = f[i]
             /\ g[Len(f) + 1] = <<"mac1", d, blocks>>
             /\ g[Len(f) + 2] = <<"mac2", d, blocks>>
<1> DEFINE a == <<"mac1", d, blocks>>
           b == <<"mac2", d, blocks>>
           S == Units(f) \cup {a, b}
           g == f \o <<a, b>>
<1>1. Len(f) \in Nat /\ f \in [1 .. Len(f) -> Units(f)]
  BY SeqOf
<1>2. f \in Seq(S)
  BY <1>1, SeqIn
<1>3. a \in S /\ b \in S
  OBVIOUS
<1>4. Mac(d, blocks) = <<a, b>>
  BY DEF Mac
<1> HIDE DEF S, a, b
<1>5. <<a, b>> \in Seq(S) /\ Len(<<a, b>>) = 2 /\ <<a, b>>[1] = a /\ <<a, b>>[2] = b
  BY <1>3
<1>6. /\ g \in Seq(S) /\ Len(g) = Len(f) + 2
      /\ \A i \in 1 .. Len(f) + 2 : g[i] = IF i <= Len(f) THEN f[i] ELSE <<a, b>>[i - Len(f)]
  BY <1>2, <1>5, ConcatProperties
<1> HIDE DEF g
<1>7. IsSeq(g)
  BY <1>6, IsSeqIn
<1>8. \A N \in Nat : /\ N + 1 \in 1 .. N + 2 /\ N + 2 \in 1 .. N + 2
                     /\ ~(N + 1 <= N) /\ ~(N + 2 <= N) /\ (N + 1) - N = 1 /\ (N + 2) - N = 2
                     /\ \A i \in 1 .. N : i \in 1 .. N + 2 /\ i <= N
  OBVIOUS
<1>9. /\ g[Len(f) + 1] = a /\ g[Len(f) + 2] = b
      /\ \A i \in 1 .. Len(f) : g[i] = f[i]
  BY <1>1, <1>5, <1>6, <1>8
<1> QED
  BY <1>4, <1>6, <1>7, <1>9 DEF g, a, b

(* The MAC makes the file that of a finished encryption. *)
LEMMA EndsEncrypting ==
  ASSUME CryptInv, EndEncrypt
  PROVE  CryptInv'
<1> DEFINE m == Len(enc) - 1
           file == enc \o Mac(op.d, op.blocks)
<1>1. /\ op.mode = "encrypt" /\ op.offset >= Len(text)
      /\ UNCHANGED text /\ op' = Idle /\ last'.mode = "encrypt"
  BY DEF EndEncrypt, End
<1>2. Encrypting /\ FilesInv
  BY <1>1 DEF CryptInv, Decrypting, Idle
<1>3. /\ made = NotMade
      /\ m \in Nat /\ Len(enc) = m + 1 /\ DOMAIN enc = 1 .. m + 1
      /\ op.d = Digest(enc[1], op.key) /\ op.blocks = Middle(enc, m)
      /\ op.offset = m * AesBlock
      /\ Enciphers(enc, text, op.key, m) /\ Needed(text, m) /\ text \in Seq(Byte)
      /\ IsSeq(enc) /\ Len(text) \in Nat
  <2>1. Len(enc) \in Nat /\ DOMAIN enc = 1 .. Len(enc) /\ Len(text) \in Nat
    BY <1>2, SeqOf, LenProperties DEF FilesInv
  <2> QED
    BY <1>2, <2>1 DEF Encrypting, FilesInv
<1>4. /\ IsSeq(file) /\ Len(file) = m + 3
      /\ \A i \in 1 .. m + 1 : file[i] = enc[i]
      /\ file[m + 2] = <<"mac1", op.d, op.blocks>>
      /\ file[m + 3] = <<"mac2", op.d, op.blocks>>
  <2>1. /\ IsSeq(file) /\ Len(file) = Len(enc) + 2
        /\ \A i \in 1 .. Len(enc) : file[i] = enc[i]
        /\ file[Len(enc) + 1] = <<"mac1", op.d, op.blocks>>
        /\ file[Len(enc) + 2] = <<"mac2", op.d, op.blocks>>
    BY <1>3, MacAppended
  <2>2. Len(enc) + 1 = m + 2 /\ Len(enc) + 2 = m + 3
    BY <1>3
  <2> QED
    BY <1>3, <2>1, <2>2
<1>5. /\ DOMAIN file = 1 .. m + 3
      /\ \A i \in DOMAIN file : i = Len(file) \/ file[i] \in Units(enc) \/ file[i][1] # "mac2"
  <2>1. DOMAIN file = 1 .. m + 3
    BY <1>4, SeqOf
  <2> SUFFICES ASSUME NEW i \in 1 .. m + 3
               PROVE  i = Len(file) \/ file[i] \in Units(enc) \/ file[i][1] # "mac2"
    BY <2>1
  <2>2. i \in 1 .. m + 1 \/ i = m + 2 \/ i = m + 3
    BY <1>3
  <2>3. i \in 1 .. m + 1 => file[i] \in Units(enc)
    BY <1>3, <1>4 DEF Units
  <2>4. file[m + 2][1] = "mac1"
    BY <1>4
  <2> QED
    BY <1>4, <2>2, <2>3, <2>4
<1>6. CASE enc' = file /\ made' = [file |-> file, text |-> text, key |-> op.key]
  <2> HIDE DEF file, m
  <2>0. Middle(file, m) = Middle(enc, m)
    BY <1>3, <1>4, SameBlocks
  <2>1. /\ made'.file = file /\ made'.text = text /\ made'.key = op.key
        /\ file[1] = enc[1]
    BY <1>3, <1>4, <1>6
  <2>2. Enciphers(file, text, op.key, m)
    <3>1. file[1] = IV(Len(text))
      BY <1>3, <2>1 DEF Enciphers
    <3>2. ASSUME NEW i \in 1 .. m
          PROVE  file[i + 1] = Cipher(Digest(file[1], op.key),
                                      PlainBlock(text, (i - 1) * AesBlock), file[i])
      <4>1. file[i + 1] = enc[i + 1] /\ file[i] = enc[i]
        <5>1. i \in 1 .. m + 1 /\ i + 1 \in 1 .. m + 1
          BY <1>3
        <5> QED
          BY <1>4, <5>1
      <4> QED
        BY <1>3, <2>1, <4>1 DEF Enciphers
    <3> QED
      BY <3>1, <3>2 DEF Enciphers
  <2>3. Enough(text, m)
    BY <1>1, <1>3 DEF Enough
  <2>4. Len(file) - 3 = m /\ Len(file) - 1 = m + 2 /\ Len(file) = m + 3
    BY <1>3, <1>4
  <2>5. Genuine(file, text, op.key)
    BY <1>3, <1>4, <2>0, <2>1, <2>2, <2>3, <2>4 DEF Genuine
  <2>6. made' # NotMade
    <3>1. Len(file) # Len(<<>>)
      BY <1>3, <1>4
    <3>2. NotMade.file = <<>>
      BY DEF NotMade
    <3> QED
      BY <2>1, <3>1, <3>2
  <2>7. ASSUME NEW i \in DOMAIN enc', enc'[i][1] = "mac2"
        PROVE  enc'[i] = made'.file[Len(made'.file)]
    <3>1. file[i] \notin Units(enc)
      BY <1>2, <1>3, <2>7, <1>6 DEF Units, FilesInv
    <3> QED
      BY <1>5, <1>6, <2>1, <2>7, <3>1
  <2>8. IsSeq(enc')
    BY <1>4, <1>6
  <2>9. FilesInv'
    BY <1>1, <1>3, <2>1, <2>5, <2>6, <2>7, <2>8 DEF FilesInv, NotMade, Byte
  <2> QED
    BY <1>1, <2>9, Forgotten DEF CryptInv, Idle
<1>7. CASE enc' \in WrittenBlocks(file) \ {file} /\ made' = made
  <2> HIDE DEF file
  <2>1. /\ IsSeq(enc')
        /\ \A i \in DOMAIN enc' : enc'[i] = Part \/ (i \in DOMAIN file /\ enc'[i] = file[i])
        /\ \A i \in DOMAIN enc' : enc'[i] = Part \/ i # Len(file)
    BY <1>4, <1>7, PartWritten
  <2>2. Part[1] # "mac2"
    BY DEF Part
  <2>3. \A i \in DOMAIN enc' : enc'[i] \in Units(enc) \/ enc'[i][1] # "mac2"
    BY <1>5, <2>1, <2>2
  <2>4. FilesInv'
    BY <1>1, <1>2, <1>3, <1>7, <2>1, <2>3, FilesKept
  <2> QED
    BY <1>1, <2>4, Forgotten DEF CryptInv, Idle
<1> QED
  BY <1>6, <1>7 DEF EndEncrypt

-----------------------------------------------------------------------------
(* Decryption.                                                             *)

(* Decryption begins with the head of the file and no text. *)
LEMMA StartsDecrypting ==
  ASSUME CryptInv, NEW p, StartDecrypt(p)
  PROVE  CryptInv'
<1>1. /\ op = Idle /\ enc # <<>> /\ out' = <<>> /\ UNCHANGED <<text, enc, made>>
      /\ FilesInv /\ IsSeq(enc)
  BY DEF StartDecrypt, CryptInv, FilesInv
<1>2. FilesInv'
  BY <1>1, FilesKept DEF FilesInv, Units
<1>3. Len(enc) \in Nat /\ DOMAIN enc = 1 .. Len(enc)
  BY <1>1, SeqOf
<1>4. CASE /\ TooShort(enc) /\ op' = op
           /\ last' = [mode |-> "decrypt", ret |-> 1, key |-> KeyOf(p), clean |-> TRUE]
  <2>1. enc # made.file
    <3>1. SUFFICES ASSUME enc = made.file PROVE FALSE
      OBVIOUS
    <3>2. made # NotMade
      BY <1>1, <3>1 DEF NotMade
    <3>3. Genuine(enc, made.text, made.key)
      BY <1>1, <3>1, <3>2 DEF FilesInv
    <3>4. ~(Len(enc) < 3) /\ enc[Len(enc)][1] = "mac2"
      BY <1>3, <3>3 DEF Genuine
    <3>5. Part[1] = "part"
      BY DEF Part
    <3> QED
      BY <1>4, <3>4, <3>5 DEF TooShort
  <2>2. last'.ret = 1
    BY <1>4
  <2>3. OpensIfGenuine'
    BY <1>1, <2>1, <2>2 DEF OpensIfGenuine
  <2> QED
    BY <1>1, <1>2, <1>4, <2>3 DEF CryptInv, Idle
<1>5. CASE /\ ~TooShort(enc) /\ last' = NoCall
           /\ op' = [mode |-> "decrypt", key |-> KeyOf(p), d |-> Digest(enc[1], KeyOf(p)),
                     offset |-> 0, prev |-> enc[1], blocks |-> <<>>]
  <2>1. Len(enc) >= 3 /\ 0 \in 0 .. Len(enc) - 3
    BY <1>3, <1>5 DEF TooShort
  <2>2. Running' = op'
    BY <1>5 DEF Running
  <2>3. Middle(enc, 0) = <<>>
    BY DEF Middle
  <2>4. enc = made.file => Begins(out', made.text, op'.offset * AesBlock)
    <3> SUFFICES ASSUME enc = made.file PROVE Begins(out', made.text, op'.offset * AesBlock)
      OBVIOUS
    <3>1. made.text \in Seq(Byte)
      BY <1>1 DEF FilesInv, Genuine, NotMade
    <3>2. Len(made.text) \in Nat
      BY <3>1, LenProperties
    <3>3. op'.offset * AesBlock = 0
      BY <1>5, CryptAssumption
    <3>4. Smaller(0, Len(made.text)) = 0
      BY <3>2 DEF Smaller
    <3>5. out' = <<>> /\ Len(out') = 0 /\ out' \in Seq(Byte)
      BY <1>1
    <3>6. \A j \in 1 .. Len(out') : out'[j] = made.text[j]
      BY <3>5
    <3> QED
      BY <3>3, <3>4, <3>5, <3>6 DEF Begins
  <2>5. op'.mode = "decrypt" /\ op'.offset = 0 /\ op'.prev = enc[0 + 1] /\ op'.blocks = <<>>
        /\ op'.d = Digest(enc[1], op'.key)
    BY <1>5
  <2>6. Decrypting'
    BY <1>1, <1>5, <2>1, <2>2, <2>3, <2>4, <2>5 DEF Decrypting, Blocks
  <2> QED
    BY <1>2, <1>5, <2>6, Forgotten DEF CryptInv
<1> QED
  BY <1>4, <1>5 DEF StartDecrypt

(* A block of a genuine file, deciphered with its key, is the text's.      *)
LEMMA BlockDeciphered ==
  ASSUME NEW f, NEW t, NEW k, Genuine(f, t, k), NEW i \in 1 .. Len(f) - 3
  PROVE  Decipher(Digest(f[1], k), f[i + 1], f[i]) = PlainBlock(t, (i - 1) * AesBlock)
<1>1. f[i + 1] = Cipher(Digest(f[1], k), PlainBlock(t, (i - 1) * AesBlock), f[i])
  BY DEF Genuine, Enciphers
<1> DEFINE d == Digest(f[1], k)
           plain == PlainBlock(t, (i - 1) * AesBlock)
<1>2. f[i + 1] = <<"block", d, plain, f[i]>>
  BY <1>1 DEF Cipher
<1> HIDE DEF d, plain
<1>3. Decipher(d, f[i + 1], f[i]) = plain
  BY <1>2 DEF Decipher
<1> QED
  BY <1>3 DEF d, plain

(* What decryption writes of block i is the text from there, to its end or *)
(* to the end of the block.                                                *)
LEMMA TextOfBlock ==
  ASSUME NEW f, NEW t, NEW k, Genuine(f, t, k), NEW i \in 1 .. Len(f) - 3
  PROVE  LET from == (i - 1) * AesBlock
             n == TextIn(LastOf(f[1]), i = Len(f) - 3)
         IN  /\ from \in Nat /\ n \in 1 .. AesBlock /\ from < Len(t)
             /\ from + n = Smaller(i * AesBlock, Len(t))
<1> DEFINE m == Len(f) - 3
           from == (i - 1) * AesBlock
           L == Len(t)
           n == TextIn(LastOf(f[1]), i = m)
<1>1. m \in Nat /\ i \in Nat /\ i - 1 \in Nat /\ i <= m /\ m > 0 /\ L \in Nat /\ m - 1 \in Nat
  BY SeqOf, LenProperties DEF Genuine
<1>2. f[1] = <<"iv", L>> /\ (m - 1) * AesBlock < L /\ L <= m * AesBlock
  BY <1>1 DEF Genuine, Enciphers, IV, Needed, Enough
<1>3. LastOf(f[1]) = L % AesBlock
  BY <1>2 DEF LastOf
<1>4. L % AesBlock \in 0 .. AesBlock - 1
  BY <1>1, CryptAssumption
<1>5. from \in Nat /\ i * AesBlock = from + AesBlock /\ AesBlock \in Nat /\ AesBlock > 0
  BY <1>1, OneMore, (i - 1) + 1 = i
<1> HIDE DEF m, from, L, n
<1>6. CASE i = m
  <2>1. n = IF L % AesBlock > 0 THEN L % AesBlock ELSE AesBlock
    BY <1>3, <1>6 DEF n, TextIn
  <2>2. L = (m - 1) * AesBlock + (IF L % AesBlock > 0 THEN L % AesBlock ELSE AesBlock)
    BY <1>1, <1>2, LastBlock
  <2>3. n \in 1 .. AesBlock
    BY <1>4, <1>5, <2>1
  <2>4. L = from + n
    BY <1>6, <2>1, <2>2 DEF from
  <2>5. L <= i * AesBlock
    BY <1>2, <1>6
  <2>6. Smaller(i * AesBlock, L) = L
    BY <1>1, <1>5, <2>5 DEF Smaller
  <2> QED
    BY <1>1, <1>5, <2>3, <2>4, <2>6 DEF from, n, L, m
<1>7. CASE i # m
  <2>1. n = AesBlock
    BY <1>7 DEF n, TextIn
  <2>2. i * AesBlock <= (m - 1) * AesBlock
    BY <1>1, <1>7, NoFewer
  <2>3. (m - 1) * AesBlock \in Nat
    BY <1>1, OneMore
  <2>4. i * AesBlock < L
    BY <1>1, <1>2, <1>5, <2>2, <2>3
  <2>5. Smaller(i * AesBlock, L) = i * AesBlock /\ from < L /\ n \in 1 .. AesBlock
    BY <1>1, <1>5, <2>1, <2>4 DEF Smaller
  <2> QED
    BY <1>1, <1>5, <2>1, <2>5 DEF from, n, L, m
<1> QED
  BY <1>6, <1>7

(* What is cut from a block of the text.                                   *)
LEMMA PieceOfText ==
  ASSUME NEW t \in Seq(Byte), NEW from \in Nat, NEW n \in 1 .. AesBlock, from + n <= Len(t)
  PROVE  LET piece == SubSeq(PlainBlock(t, from), 1, n)
         IN  /\ piece \in Seq(Byte) /\ Len(piece) = n
             /\ \A j \in 1 .. n : piece[j] = t[from + j]
<1>1. n \in Nat /\ n \in Int /\ 1 \in Int /\ 1 <= n /\ AesBlock \in Nat /\ Len(t) \in Nat
  BY CryptAssumption, LenProperties
<1>2. ASSUME NEW j \in 1 .. n
      PROVE  PlainBlock(t, from)[j] = t[from + j] /\ t[from + j] \in Byte
  <2>1. j \in 1 .. AesBlock /\ from + j <= Len(t) /\ from + j \in 1 .. Len(t)
    BY <1>1
  <2>2. t[from + j] \in Byte
    BY <2>1, ElementOfSeq
  <2> QED
    BY <2>1, <2>2 DEF PlainBlock
<1> DEFINE plain == PlainBlock(t, from)
<1>3. \A j \in 1 .. n : plain[j] = t[from + j] /\ plain[j] \in Byte
  BY <1>2
<1> HIDE DEF plain
<1>4. /\ SubSeq(plain, 1, n) \in Seq(Byte)
      /\ Len(SubSeq(plain, 1, n)) = IF 1 <= n THEN n - 1 + 1 ELSE 0
      /\ \A j \in 1 .. n - 1 + 1 : SubSeq(plain, 1, n)[j] = plain[1 + j - 1]
  BY <1>1, <1>3, SubSeqProperties
<1>5. \A j \in 1 .. n : j \in 1 .. n - 1 + 1 /\ 1 + j - 1 = j
  BY <1>1
<1>6. Len(SubSeq(plain, 1, n)) = n
  BY <1>1, <1>4
<1>7. \A j \in 1 .. n : SubSeq(plain, 1, n)[j] = t[from + j]
  BY <1>3, <1>4, <1>5
<1> QED
  BY <1>4, <1>6, <1>7 DEF plain

(* Bytes of a text behind its first bytes give its first bytes again. *)
LEMMA TextContinued ==
  ASSUME NEW t, NEW w \in Seq(Byte), NEW piece \in Seq(Byte),
         \A j \in 1 .. Len(w) : w[j] = t[j],
         \A j \in 1 .. Len(piece) : piece[j] = t[Len(w) + j]
  PROVE  /\ w \o piece \in Seq(Byte) /\ Len(w \o piece) = Len(w) + Len(piece)
         /\ \A j \in 1 .. Len(w) + Len(piece) : (w \o piece)[j] = t[j]
<1>0. Len(w) \in Nat /\ Len(piece) \in Nat
  BY LenProperties
<1>1. /\ w \o piece \in Seq(Byte) /\ Len(w \o piece) = Len(w) + Len(piece)
      /\ \A j \in 1 .. Len(w) + Len(piece) :
           (w \o piece)[j] = IF j <= Len(w) THEN w[j] ELSE piece[j - Len(w)]
  BY ConcatProperties
<1>2. ASSUME NEW j \in 1 .. Len(w) + Len(piece) PROVE (w \o piece)[j] = t[j]
  <2>1. CASE j <= Len(w)
    <3>1. j \in 1 .. Len(w)
      BY <1>0, <2>1
    <3> QED
      BY <1>1, <2>1, <3>1
  <2>2. CASE ~(j <= Len(w))
    <3>1. j - Len(w) \in 1 .. Len(piece) /\ Len(w) + (j - Len(w)) = j
      BY <1>0, <2>2
    <3> QED
      BY <1>1, <2>2, <3>1
  <2> QED
    BY <2>1, <2>2
<1> QED
  BY <1>1, <1>2

(* A block more of the text is written.                                    *)
Taken(f, i) == TextIn(LastOf(f[1]), i = Len(f) - 3)

(* Decryption of a genuine file writes the next bytes of its text. *)
LEMMA TextWritten ==
  ASSUME NEW f, NEW t, NEW k, Genuine(f, t, k), NEW i \in 1 .. Len(f) - 3,
         NEW w, Begins(w, t, (i - 1) * AesBlock),
         NEW x, x = w \o SubSeq(PlainBlock(t, (i - 1) * AesBlock), 1, Taken(f, i))
  PROVE  Begins(x, t, i * AesBlock)
<1> DEFINE from == (i - 1) * AesBlock
           n == Taken(f, i)
           piece == SubSeq(PlainBlock(t, from), 1, n)
<1>1. /\ from \in Nat /\ n \in 1 .. AesBlock /\ from < Len(t)
      /\ from + n = Smaller(i * AesBlock, Len(t))
  BY TextOfBlock DEF Taken
<1>2. t \in Seq(Byte) /\ Len(t) \in Nat /\ i \in Nat
  BY LenProperties, SeqOf DEF Genuine
<1>3. AesBlock \in Nat /\ i * AesBlock \in Nat
  BY <1>2, OneMore
<1> HIDE DEF from, n, piece
<1>4. n \in Nat /\ from + n <= Len(t)
  BY <1>1, <1>2, <1>3 DEF Smaller
<1>5. Len(w) = from
  <2>1. Len(w) = Smaller(from, Len(t))
    BY DEF from, Begins
  <2> QED
    BY <1>1, <1>2, <2>1 DEF Smaller
<1>6. piece \in Seq(Byte) /\ Len(piece) = n /\ \A j \in 1 .. n : piece[j] = t[from + j]
  BY <1>1, <1>2, <1>4, PieceOfText DEF piece
<1>7. w \in Seq(Byte) /\ \A j \in 1 .. Len(w) : w[j] = t[j]
  BY DEF Begins
<1>8. \A j \in 1 .. Len(piece) : piece[j] = t[Len(w) + j]
  BY <1>5, <1>6
<1>9. /\ w \o piece \in Seq(Byte) /\ Len(w \o piece) = from + n
      /\ \A j \in 1 .. from + n : (w \o piece)[j] = t[j]
  <2>1. /\ w \o piece \in Seq(Byte) /\ Len(w \o piece) = Len(w) + Len(piece)
        /\ \A j \in 1 .. Len(w) + Len(piece) : (w \o piece)[j] = t[j]
    BY <1>6, <1>7, <1>8, TextContinued
  <2> QED
    BY <1>5, <1>6, <2>1
<1>10. x = w \o piece
  BY DEF from, n, piece
<1> QED
  BY <1>1, <1>9, <1>10 DEF Begins

(* One block more, read, deciphered and written. *)
LEMMA DecryptsBlock ==
  ASSUME CryptInv, DecryptBlock
  PROVE  CryptInv'
<1> DEFINE i == op.offset + 1
           unit == enc[i + 1]
           n == TextIn(LastOf(enc[1]), i = Blocks)
<1>1. /\ op.mode = "decrypt" /\ op.offset < Blocks
      /\ out' = out \o SubSeq(Decipher(op.d, unit, op.prev), 1, n)
      /\ op' = [op EXCEPT !.offset = i, !.prev = unit, !.blocks = Append(@, unit)]
      /\ UNCHANGED <<text, enc, made, last>>
  BY DEF DecryptBlock
<1>2. Decrypting /\ FilesInv
  BY <1>1 DEF CryptInv, Encrypting, Idle
<1>3. FilesInv'
  BY <1>1, <1>2, FilesKept DEF FilesInv, Units
<1>4. /\ op = Running /\ last = NoCall /\ ~TooShort(enc) /\ op.offset \in 0 .. Blocks
      /\ op.d = Digest(enc[1], op.key) /\ op.prev = enc[i]
      /\ op.blocks = Middle(enc, op.offset)
  BY <1>2 DEF Decrypting
<1> HIDE DEF unit, n
<1>5. /\ op'.mode = "decrypt" /\ op'.key = op.key /\ op'.d = op.d /\ op' = Running'
      /\ op'.offset = i /\ op'.prev = unit
      /\ op'.blocks = Append(op.blocks, unit)
  BY <1>1, <1>4 DEF Running
<1>6. Blocks \in Int /\ op.offset \in Nat /\ i \in 0 .. Blocks /\ i \in 1 .. Len(enc) - 3 /\ i - 1 = op.offset
      /\ Blocks = Len(enc) - 3
  <2>1. Len(enc) \in Nat
    BY <1>2, SeqOf DEF FilesInv
  <2>2. Blocks = Len(enc) - 3 /\ Blocks \in Int
    BY <2>1 DEF Blocks
  <2> QED
    BY <1>1, <1>4, <2>2
<1>7. op'.blocks = Middle(enc, op'.offset)
  <2>1. op.offset + 2 = i + 1
    BY <1>6
  <2> QED
    BY <1>4, <1>5, <1>6, <2>1, OneMoreBlock DEF unit
<1>8. ASSUME enc = made.file, op.key = made.key PROVE Begins(out', made.text, op'.offset * AesBlock)
  <2>1. Genuine(enc, made.text, op.key)
    <3>1. made # NotMade
      <4>1. enc # <<>>
        BY <1>6
      <4> QED
        BY <1>8, <4>1 DEF NotMade
    <3> QED
      BY <1>2, <1>8, <3>1 DEF FilesInv
  <2>2. Begins(out, made.text, (i - 1) * AesBlock)
    BY <1>2, <1>6, <1>8 DEF Decrypting
  <2>3. Decipher(op.d, unit, op.prev) = PlainBlock(made.text, (i - 1) * AesBlock)
    <3> HIDE DEF i
    <3>1. Decipher(Digest(enc[1], op.key), enc[i + 1], enc[i])
            = PlainBlock(made.text, (i - 1) * AesBlock)
      BY <1>6, <2>1, BlockDeciphered
    <3> QED
      BY <1>4, <3>1 DEF unit
  <2>4. out' = out \o SubSeq(PlainBlock(made.text, (i - 1) * AesBlock), 1, n)
    BY <1>1, <2>3
  <2>5. n = Taken(enc, i)
    BY <1>6 DEF n, Taken
  <2> HIDE DEF i
  <2>6. i \in 1 .. Len(enc) - 3
    BY <1>6
  <2>7. out' = out \o SubSeq(PlainBlock(made.text, (i - 1) * AesBlock), 1, Taken(enc, i))
    BY <2>4, <2>5
  <2>8. Begins(out', made.text, i * AesBlock)
    BY <2>1, <2>2, <2>6, <2>7, TextWritten
  <2> QED
    BY <1>5, <2>8
<1>9. Decrypting'
  BY <1>1, <1>4, <1>5, <1>6, <1>7, <1>8 DEF Decrypting, unit, Blocks
<1> QED
  BY <1>1, <1>3, <1>4, <1>9, Forgotten DEF CryptInv

(* The MAC that is expected stands at the end of no other file than the    *)
(* one that was made with the same key.                                    *)
LEMMA MacTells ==
  ASSUME FilesInv, Decrypting, op.offset >= Blocks
  PROVE  MacMatches(enc, op.d, op.blocks) <=> enc = made.file /\ op.key = made.key
<1> DEFINE n == Len(enc)
           m == Len(made.file) - 3
           f == made.file
<1>1. /\ IsSeq(enc) /\ n \in Nat /\ n >= 3 /\ DOMAIN enc = 1 .. n
      /\ op.offset = n - 3 /\ op.d = Digest(enc[1], op.key) /\ op.blocks = Middle(enc, n - 3)
  <2>1. IsSeq(enc) /\ n \in Nat /\ DOMAIN enc = 1 .. n
    BY SeqOf DEF FilesInv
  <2>2. ~(n < 3) /\ op.offset \in 0 .. Blocks /\ Blocks = n - 3
    BY DEF Decrypting, TooShort, Blocks
  <2>3. op.offset = n - 3
    BY <2>1, <2>2
  <2> QED
    BY <2>1, <2>2, <2>3 DEF Decrypting
<1>2. MacMatches(enc, op.d, op.blocks) <=>
        /\ enc[n - 1] = <<"mac1", op.d, op.blocks>>
        /\ enc[n] = <<"mac2", op.d, op.blocks>>
  BY DEF MacMatches, Mac
<1>3. ASSUME enc = made.file, op.key = made.key
      PROVE  MacMatches(enc, op.d, op.blocks)
  <2>1. made # NotMade
    BY <1>1, <1>3 DEF NotMade
  <2>2. Genuine(enc, made.text, op.key)
    BY <1>3, <2>1 DEF FilesInv
  <2> QED
    BY <1>1, <1>2, <2>2 DEF Genuine
<1>4. ASSUME MacMatches(enc, op.d, op.blocks)
      PROVE  enc = made.file /\ op.key = made.key
  <2>1. /\ enc[n - 1] = <<"mac1", op.d, op.blocks>>
        /\ enc[n] = <<"mac2", op.d, op.blocks>> /\ enc[n][1] = "mac2"
        /\ n \in 1 .. n
    BY <1>1, <1>2, <1>4
  <2>2. made # NotMade /\ enc[n] = f[Len(f)]
    BY <1>1, <2>1 DEF FilesInv
  <2>3. Genuine(f, made.text, made.key)
    BY <2>2 DEF FilesInv
  <2>4. /\ IsSeq(f) /\ Len(f) \in Nat /\ m \in Nat
        /\ f[Len(f) - 1] = <<"mac1", Digest(f[1], made.key), Middle(f, m)>>
        /\ f[Len(f)] = <<"mac2", Digest(f[1], made.key), Middle(f, m)>>
    <3>1. IsSeq(f) /\ m >= 0
      BY <2>3 DEF Genuine
    <3>2. Len(f) \in Nat
      BY <3>1, SeqOf
    <3> QED
      BY <2>3, <3>1, <3>2 DEF Genuine
  <2>5. op.d = Digest(f[1], made.key) /\ op.blocks = Middle(f, m)
    <3>1. <<"mac2", op.d, op.blocks>> = <<"mac2", Digest(f[1], made.key), Middle(f, m)>>
      BY <2>1, <2>2, <2>4
    <3> QED
      BY <3>1
  <2>6. enc[1] = f[1] /\ op.key = made.key
    <3>1. <<enc[1], op.key>> = <<f[1], made.key>>
      BY <1>1, <2>5 DEF Digest
    <3> QED
      BY <3>1
  <2>7. n - 3 = m /\ n = Len(f)
    <3>1. n - 3 \in Nat /\ Middle(enc, n - 3) = Middle(f, m)
      BY <1>1, <2>5
    <3>2. Len(Middle(enc, n - 3)) = n - 3 /\ Len(Middle(f, m)) = m
      BY <2>4, <3>1, Blocked
    <3> QED
      BY <1>1, <2>4, <3>1, <3>2
  <2>8. \A i \in 1 .. m : enc[i + 1] = f[i + 1]
    <3>1. /\ \A i \in 1 .. m : Middle(enc, m)[i] = enc[i + 1]
          /\ \A i \in 1 .. m : Middle(f, m)[i] = f[i + 1]
      BY DEF Middle
    <3>2. Middle(enc, m) = Middle(f, m)
      BY <1>1, <2>5, <2>7
    <3> QED
      BY <3>1, <3>2
  <2>9. ASSUME NEW i \in 1 .. n PROVE enc[i] = f[i]
    <3>1. CASE i = 1
      BY <2>6, <3>1
    <3>2. CASE i \in 2 .. m + 1
      <4>1. i - 1 \in 1 .. m /\ (i - 1) + 1 = i
        BY <2>4, <3>2
      <4> QED
        BY <2>8, <4>1
    <3>3. CASE i = n - 1
      BY <2>1, <2>4, <2>5, <2>7, <3>3
    <3>4. CASE i = n
      BY <2>2, <2>7, <3>4
    <3>5. i = 1 \/ i \in 2 .. m + 1 \/ i = n - 1 \/ i = n
      BY <1>1, <2>4, <2>7
    <3> QED
      BY <3>1, <3>2, <3>3, <3>4, <3>5
  <2>10. enc = f
    BY <1>1, <2>4, <2>7, <2>9, SameSeq
  <2> QED
    BY <2>6, <2>10
<1> QED
  BY <1>3, <1>4

(* The comparison of the MAC tells a genuine file from any other. *)
LEMMA EndsDecrypting ==
  ASSUME CryptInv, EndDecrypt
  PROVE  CryptInv'
<1>1. /\ op.mode = "decrypt" /\ op.offset >= Blocks
      /\ UNCHANGED <<text, enc, made>> /\ op' = Idle
  BY DEF EndDecrypt, End
<1>2. Decrypting /\ FilesInv
  BY <1>1 DEF CryptInv, Encrypting, Idle
<1>3. FilesInv'
  BY <1>1, <1>2, FilesKept DEF FilesInv, Units
<1>4. MacMatches(enc, op.d, op.blocks) <=> enc = made.file /\ op.key = made.key
  BY <1>1, <1>2, MacTells
<1>5. CASE ~last'.clean
  BY <1>1, <1>3, <1>5, Forgotten DEF CryptInv, Idle
<1>6. CASE /\ MacMatches(enc, op.d, op.blocks)
           /\ last' = [mode |-> op.mode, ret |-> 0, key |-> op.key, clean |-> TRUE]
           /\ out' = out
  <2>1. enc = made.file /\ op.key = made.key
    BY <1>4, <1>6
  <2>2. Begins(out, made.text, op.offset * AesBlock)
    BY <1>2, <2>1 DEF Decrypting
  <2>3. Genuine(enc, made.text, op.key)
    <3>1. made # NotMade
      <4>1. enc # <<>>
        BY <1>2 DEF Decrypting, TooShort
      <4> QED
        BY <2>1, <4>1 DEF NotMade
    <3> QED
      BY <1>2, <2>1, <3>1 DEF FilesInv
  <2>4. op.offset \in Nat /\ op.offset = Len(enc) - 3
    <3>1. Len(enc) \in Nat
      BY <1>2, SeqOf DEF FilesInv
    <3>2. op.offset \in 0 .. Blocks /\ Blocks = Len(enc) - 3
      BY <1>2 DEF Decrypting, Blocks
    <3> QED
      BY <1>1, <3>1, <3>2
  <2>5. Len(made.text) <= op.offset * AesBlock /\ made.text \in Seq(Byte)
    BY <2>3, <2>4 DEF Genuine, Enough
  <2>6. Len(out) = Len(made.text)
    <3>1. op.offset * AesBlock \in Nat /\ Len(made.text) \in Nat
      BY <2>4, <2>5, OneMore, LenProperties
    <3> QED
      BY <2>2, <2>5, <3>1 DEF Begins, Smaller
  <2>7. out = made.text
    BY <2>2, <2>5, <2>6, SeqEqual DEF Begins
  <2>8. last'.ret = 0 /\ last'.key = op.key
    BY <1>6
  <2>9. OpensIfGenuine'
    BY <1>1, <1>6, <2>1, <2>7, <2>8 DEF OpensIfGenuine
  <2> QED
    BY <1>1, <1>3, <2>9 DEF CryptInv, Idle
<1>7. CASE /\ ~MacMatches(enc, op.d, op.blocks)
           /\ last' = [mode |-> op.mode, ret |-> 1, key |-> op.key, clean |-> TRUE]
  <2>1. last'.ret = 1 /\ last'.key = op.key
    BY <1>7
  <2>2. OpensIfGenuine'
    BY <1>1, <1>4, <1>7, <2>1 DEF OpensIfGenuine
  <2> QED
    BY <1>1, <1>3, <2>2 DEF CryptInv, Idle
<1> QED
  BY <1>5, <1>6, <1>7 DEF EndDecrypt, End

-----------------------------------------------------------------------------
(* Failures, and what happens between the calls.                           *)

(* A failure or a kill between two blocks leaves nothing that opens. *)
LEMMA Stops ==
  ASSUME CryptInv, StopsHere, op' = Idle, last' = NoCall \/ ~last'.clean
  PROVE  CryptInv'
<1>1. FilesInv /\ IsSeq(enc) /\ UNCHANGED <<text, made>>
  BY DEF CryptInv, FilesInv, StopsHere
<1>2. IsSeq(enc') /\ \A i \in DOMAIN enc' : enc'[i] \in Units(enc) \/ enc'[i][1] # "mac2"
  <2>1. CASE enc' \in WrittenBlocks(enc)
    <3>1. /\ IsSeq(enc')
          /\ \A i \in DOMAIN enc' : enc'[i] = Part \/ (i \in DOMAIN enc /\ enc'[i] = enc[i])
      BY <1>1, <2>1, PartWritten
    <3>2. Part[1] # "mac2"
      BY DEF Part
    <3> QED
      BY <3>1, <3>2 DEF Units
  <2>2. CASE enc' = enc
    BY <1>1, <2>2 DEF Units
  <2> QED
    BY <2>1, <2>2 DEF StopsHere
<1>3. FilesInv'
  BY <1>1, <1>2, FilesKept DEF FilesInv
<1> QED
  BY <1>3, Forgotten DEF CryptInv, Idle

(* A damaged file has no unit that the file has not, but a part of one or  *)
(* junk.                                                                   *)
LEMMA Damaged ==
  ASSUME FilesInv, Damage
  PROVE  IsSeq(enc') /\ \A i \in DOMAIN enc' : enc'[i] \in Units(enc) \/ enc'[i][1] # "mac2"
<1>1. IsSeq(enc) /\ Len(enc) \in Nat /\ DOMAIN enc = 1 .. Len(enc) /\ enc \in Seq(Units(enc))
  BY SeqOf DEF FilesInv, IsSeq
<1>2. Part[1] # "mac2" /\ \A low : Junk(low)[1] # "mac2"
  BY DEF Part, Junk
<1>3. CASE enc' \in WrittenBlocks(enc)
  <2>1. /\ IsSeq(enc')
        /\ \A i \in DOMAIN enc' : enc'[i] = Part \/ (i \in DOMAIN enc /\ enc'[i] = enc[i])
    BY <1>1, <1>3, PartWritten
  <2> QED
    BY <1>2, <2>1 DEF Units
<1>4. ASSUME NEW e, e[1] # "mac2", enc' = Append(enc, e)
      PROVE  IsSeq(enc') /\ \A i \in DOMAIN enc' : enc'[i] \in Units(enc) \/ enc'[i][1] # "mac2"
  <2>1. /\ IsSeq(enc') /\ Len(enc') = Len(enc) + 1
        /\ \A i \in 1 .. Len(enc) : enc'[i] = enc[i]
        /\ enc'[Len(enc) + 1] = e
    BY <1>1, <1>4, Appended
  <2>2. DOMAIN enc' = 1 .. Len(enc) + 1
    BY <2>1, SeqOf
  <2>3. \A i \in DOMAIN enc' : i \in 1 .. Len(enc) \/ i = Len(enc) + 1
    BY <1>1, <2>2
  <2> QED
    BY <1>1, <1>4, <2>1, <2>3 DEF Units
<1>5. ASSUME NEW i \in DOMAIN enc, NEW e, e[1] # "mac2", enc' = [enc EXCEPT ![i] = e]
      PROVE  IsSeq(enc') /\ \A j \in DOMAIN enc' : enc'[j] \in Units(enc) \/ enc'[j][1] # "mac2"
  <2> DEFINE S == Units(enc) \cup {e}
  <2>1. enc \in [1 .. Len(enc) -> S]
    BY <1>1, SeqOf
  <2>2. enc' \in [1 .. Len(enc) -> S]
    BY <1>5, <2>1
  <2> HIDE DEF S
  <2>3. enc' \in Seq(S)
    BY <1>1, <2>2
  <2>4. IsSeq(enc')
    BY <2>3, IsSeqIn
  <2> QED
    BY <1>5, <2>2, <2>4 DEF S
<1>6. ASSUME NEW i \in DOMAIN enc, NEW j \in DOMAIN enc,
             enc' = [enc EXCEPT ![i] = enc[j], ![j] = enc[i]]
      PROVE  IsSeq(enc') /\ \A k \in DOMAIN enc' : enc'[k] \in Units(enc) \/ enc'[k][1] # "mac2"
  <2>1. enc[i] \in Units(enc) /\ enc[j] \in Units(enc)
    BY DEF Units
  <2> DEFINE S == Units(enc)
  <2> HIDE DEF S
  <2>2. enc \in [1 .. Len(enc) -> S] /\ enc[i] \in S /\ enc[j] \in S
    BY <1>1, <2>1, SeqOf DEF S
  <2>3. enc' \in [1 .. Len(enc) -> S]
    BY <1>6, <2>2
  <2>4. enc' \in Seq(S)
    BY <1>1, <2>3
  <2>5. IsSeq(enc')
    BY <2>4, IsSeqIn
  <2> QED
    BY <2>3, <2>5 DEF S
<1>7. \A i \in 2 .. Len(enc) : i \in DOMAIN enc
  BY <1>1
<1> QED
  BY <1>2, <1>3, <1>4, <1>5, <1>6, <1>7 DEF Damage

(* Between calls files may be damaged and texts and keys exchanged. *)
LEMMA HappensBetween ==
  ASSUME CryptInv,
         EditText \/ Damage \/ \E p \in Passwords : KeyFile(p)
  PROVE  CryptInv'
<1>1. /\ op = Idle /\ op' = op /\ made' = made /\ last' = NoCall
      /\ FilesInv /\ IsSeq(enc)
  BY DEF EditText, Damage, KeyFile, Between, CryptInv, FilesInv
<1>2. text' \in Seq(Byte)
  <2>1. CASE EditText
    <3>1. PICK v \in 1 .. 2, n \in 0 .. MaxText : text' = [i \in 1 .. n |-> <<v, i>>]
      BY <2>1, CryptAssumption DEF EditText, SomeTexts, TextOf
    <3>2. n \in Nat /\ \A i \in 1 .. n : <<v, i>> \in Byte
      BY CryptAssumption DEF Byte
    <3>3. text' \in [1 .. n -> Byte]
      BY <3>1, <3>2
    <3> QED
      BY <3>2, <3>3
  <2>2. CASE text' = text
    BY <1>1, <2>2 DEF FilesInv
  <2> QED
    BY <2>1, <2>2 DEF Damage, KeyFile
<1>3. IsSeq(enc') /\ \A i \in DOMAIN enc' : enc'[i] \in Units(enc) \/ enc'[i][1] # "mac2"
  <2>1. CASE enc' = enc
    BY <1>1, <2>1 DEF Units
  <2> QED
    BY <1>1, <2>1, Damaged DEF EditText, KeyFile
<1>4. FilesInv'
  BY <1>1, <1>2, <1>3, FilesKept
<1> QED
  BY <1>1, <1>4, Forgotten DEF CryptInv, Idle

-----------------------------------------------------------------------------
(* Every step keeps the invariant. *)
LEMMA NextCrypt == CryptInv /\ [CryptNext]_cryptVars => CryptInv'
<1> SUFFICES ASSUME CryptInv, [CryptNext]_cryptVars PROVE CryptInv'
  OBVIOUS
<1>1. ASSUME NEW p \in Passwords, StartEncrypt(p) PROVE CryptInv'
  BY <1>1, StartsEncrypting
<1>2. ASSUME NEW p \in Passwords, StartDecrypt(p) PROVE CryptInv'
  BY <1>2, StartsDecrypting
<1>3. CASE EncryptBlock \/ EndEncrypt \/ DecryptBlock \/ EndDecrypt
  BY <1>3, EncryptsBlock, EndsEncrypting, DecryptsBlock, EndsDecrypting
<1>4. CASE FailIO \/ Killed
  BY <1>4, Stops DEF FailIO, Killed, End
<1>5. CASE EditText \/ Damage \/ \E p \in Passwords : KeyFile(p)
  BY <1>5, HappensBetween
<1>6. CASE UNCHANGED cryptVars
  <2>1. UNCHANGED <<text, enc, out, op, made, last>>
    BY <1>6 DEF cryptVars
  <2>2. FilesInv'
    BY <2>1 DEF CryptInv, FilesInv
  <2>3. (op = Idle \/ Encrypting \/ Decrypting)'
    <3>1. Encrypting' <=> Encrypting
      BY <2>1 DEF Encrypting, Running
    <3>2. Decrypting' <=> Decrypting
      BY <2>1 DEF Decrypting, Running, Blocks
    <3> QED
      BY <2>1, <3>1, <3>2 DEF CryptInv, Idle
  <2>4. OpensIfGenuine'
    BY <2>1 DEF CryptInv, OpensIfGenuine
  <2> QED
    BY <2>2, <2>3, <2>4 DEF CryptInv
<1> QED
  BY <1>1, <1>2, <1>3, <1>4, <1>5, <1>6 DEF CryptNext

(* DecryptFileAES returns 0 for the file that EncryptFileAES finished with *)
(* the same key, and then has written its text; it returns 0 for no other. *)
THEOREM GenuineOpens == CryptSpec => []OpensIfGenuine
<1>1. CryptInit => CryptInv
  <2> SUFFICES ASSUME CryptInit PROVE CryptInv
    OBVIOUS
  <2>1. /\ text = <<>> /\ enc = <<>> /\ op = Idle /\ made = NotMade /\ last = NoCall
    BY DEF CryptInit
  <2>2. IsSeq(enc) /\ DOMAIN enc = {} /\ text \in Seq(Byte)
    <3>1. enc \in Seq({}) /\ DOMAIN enc = {} /\ text \in Seq(Byte)
      BY <2>1
    <3> QED
      BY <3>1, IsSeqIn
  <2>3. OpensIfGenuine
    BY <2>1 DEF OpensIfGenuine, NoCall
  <2> QED
    BY <2>1, <2>2, <2>3 DEF CryptInv, FilesInv
<1>2. CryptInv => OpensIfGenuine
  BY DEF CryptInv
<1> QED
  BY <1>1, <1>2, NextCrypt, PTL DEF CryptSpec

-----------------------------------------------------------------------------
(* Sequences of anything: a message, a padding and a digest are made of    *)
(* bytes of different kinds, a digest of those of the blocks it stands for.*)
IsAnySeq(s) == Len(s) \in Nat /\ s = [i \in 1 .. Len(s) |-> s[i]]
Elements(s) == {s[i] : i \in 1 .. Len(s)}

(* Such a sequence is one of any set that has its elements.                *)
LEMMA SeqOfElements ==
  ASSUME NEW s, IsAnySeq(s), NEW S, \A i \in 1 .. Len(s) : s[i] \in S
  PROVE  s \in Seq(S)
<1> DEFINE n == Len(s)
<1>1. n \in Nat /\ s = [i \in 1 .. n |-> s[i]]
  BY DEF IsAnySeq
<1> HIDE DEF n
<1>2. \A i \in 1 .. n : s[i] \in S
  BY DEF n
<1> QED
  BY <1>1, <1>2, IsASeq

(* Sequences of a set are such sequences.                                  *)
LEMMA IsSeqOf ==
  ASSUME NEW S, NEW s \in Seq(S)
  PROVE  IsAnySeq(s)
  BY DEF IsAnySeq

(* A function on 1 .. n is a sequence of n elements.                       *)
LEMMA FunctionIsSeq ==
  ASSUME NEW n \in Nat, NEW f, f = [i \in 1 .. n |-> f[i]]
  PROVE  IsAnySeq(f) /\ Len(f) = n
<1>1. f \in Seq({f[i] : i \in 1 .. n})
  BY IsASeq
<1> QED
  BY <1>1 DEF IsAnySeq

(* A concatenation, element by element.                                    *)
LEMMA ConcatIs ==
  ASSUME NEW s, NEW t, IsAnySeq(s), IsAnySeq(t)
  PROVE  /\ IsAnySeq(s \o t) /\ Len(s \o t) = Len(s) + Len(t)
         /\ \A i \in 1 .. Len(s) : (s \o t)[i] = s[i]
         /\ \A i \in 1 .. Len(t) : (s \o t)[Len(s) + i] = t[i]
<1> DEFINE S == Elements(s) \cup Elements(t)
<1>1. s \in Seq(S) /\ t \in Seq(S)
  BY SeqOfElements DEF Elements
<1> HIDE DEF S
<1>2. s \o t \in Seq(S)
  BY <1>1
<1>3. Len(s) \in Nat /\ Len(t) \in Nat
  BY DEF IsAnySeq
<1>4. \A i \in 1 .. Len(t) : (s \o t)[Len(s) + i] = t[i]
  BY <1>1, <1>3
<1>5. Len(s \o t) = Len(s) + Len(t) /\ \A i \in 1 .. Len(s) : (s \o t)[i] = s[i]
  BY <1>1, <1>3
<1>6. IsAnySeq(s \o t)
  BY <1>2, IsSeqOf
<1> QED
  BY <1>4, <1>5, <1>6

IsPart(w, s, m, n) == w = SubSeq(s, m + 1, m + n) /\ m + n <= Len(s)

(* A part of a sequence, element by element.                               *)
LEMMA SubSeqIs ==
  ASSUME NEW s, IsAnySeq(s), NEW m \in Nat, NEW n \in Nat, NEW w, IsPart(w, s, m, n)
  PROVE  IsAnySeq(w) /\ Len(w) = n /\ \A i \in 1 .. n : w[i] = s[m + i]
<1>1. s \in Seq(Elements(s)) /\ Len(s) \in Nat
  BY SeqOfElements DEF Elements, IsAnySeq
<1>2. SubSeq(s, m + 1, m + n) \in Seq(Elements(s)) /\ Len(SubSeq(s, m + 1, m + n)) = n
  BY <1>1 DEF IsPart
<1>3. \A i \in 1 .. n : SubSeq(s, m + 1, m + n)[i] = s[m + i]
  BY <1>1 DEF IsPart
<1>4. w = SubSeq(s, m + 1, m + n)
  BY DEF IsPart
<1> QED
  BY <1>2, <1>3, <1>4, IsSeqOf

(* Sequences of the same elements are equal.                               *)
LEMMA SeqsEqual ==
  ASSUME NEW s, NEW t, IsAnySeq(s), IsAnySeq(t), Len(s) = Len(t), \A i \in 1 .. Len(s) : s[i] = t[i]
  PROVE  s = t
<1> DEFINE n == Len(s)
<1>1. s = [i \in 1 .. n |-> s[i]] /\ t = [i \in 1 .. n |-> t[i]]
  BY DEF IsAnySeq
<1> HIDE DEF n
<1>2. \A i \in 1 .. n : s[i] = t[i]
  BY DEF n
<1>3. [i \in 1 .. n |-> s[i]] = [i \in 1 .. n |-> t[i]]
  BY <1>2
<1> QED
  BY <1>1, <1>3

-----------------------------------------------------------------------------
(* Whole blocks of a length and what is left.                              *)
Full(n) == n \div BlockSize
LeftOf(n) == n % BlockSize

(* Products of natural numbers, in either order.                           *)
LEMMA TimesNat ==
  ASSUME NEW a \in Nat, NEW b \in Nat
  PROVE  a * b \in Nat /\ a * b = b * a
  OBVIOUS

(* A product of a sum is the sum of the products.                          *)
LEMMA Distributes ==
  ASSUME NEW a \in Int, NEW b \in Int, NEW c \in Int
  PROVE  (a + b) * c = a * c + b * c /\ c * (a + b) = c * a + c * b
  OBVIOUS

(* Multiples grow with their factor.                                       *)
LEMMA TimesAtLeast ==
  ASSUME NEW a \in Nat, NEW b \in Nat, NEW c \in Nat, a <= b
  PROVE  a * c <= b * c
<1> DEFINE d == b - a
<1>1. d \in Nat /\ b = a + d
  OBVIOUS
<1> HIDE DEF d
<1>2. b * c = a * c + d * c /\ d * c \in Nat /\ a * c \in Nat
  BY <1>1, Distributes, TimesNat
<1> QED
  BY <1>2

(* A length is its whole blocks and what is left.                          *)
LEMMA FullPart ==
  ASSUME DigestAssumption, NEW n \in Nat
  PROVE  /\ Full(n) \in Nat /\ LeftOf(n) \in 0 .. BlockSize - 1
         /\ n = Full(n) * BlockSize + LeftOf(n)
<1>1. BlockSize \in Nat \ {0}
  BY DEF DigestAssumption
<1>2. n \div BlockSize \in Nat /\ n % BlockSize \in 0 .. BlockSize - 1
      /\ n = BlockSize * (n \div BlockSize) + (n % BlockSize)
  BY <1>1
<1>3. BlockSize * (n \div BlockSize) = (n \div BlockSize) * BlockSize
  BY <1>1, <1>2, TimesNat
<1> QED
  BY <1>2, <1>3 DEF Full, LeftOf

(* Quotient and remainder are unique.                                      *)
LEMMA QuotientOnce ==
  ASSUME NEW b \in Nat \ {0}, NEW p \in Nat, NEW q \in Nat, NEW r \in 0 .. b - 1,
         NEW t \in 0 .. b - 1, p * b + r = q * b + t
  PROVE  p = q /\ r = t
<1>1. ASSUME NEW x \in Nat, NEW y \in Nat, NEW u \in 0 .. b - 1, NEW v \in 0 .. b - 1,
             x * b + u = y * b + v, x < y
      PROVE  FALSE
  <2>1. (x + 1) * b <= y * b
    BY <1>1, TimesAtLeast
  <2>2. (x + 1) * b = x * b + b
    BY Distributes
  <2>3. x * b \in Nat /\ y * b \in Nat
    BY TimesNat
  <2> QED
    BY <1>1, <2>1, <2>2, <2>3
<1>2. ~ (p < q)
  BY <1>1
<1>3. ~ (q < p)
  BY <1>1
<1>4. p = q
  BY <1>2, <1>3
<1>5. p * b \in Nat
  BY TimesNat
<1> QED
  BY <1>4, <1>5

(* What a quotient and a remainder are.                                    *)
LEMMA DivMod ==
  ASSUME NEW b \in Nat \ {0}, NEW q \in Nat, NEW r \in 0 .. b - 1, NEW n, n = q * b + r
  PROVE  n \in Nat /\ n \div b = q /\ n % b = r
<1>1. q * b \in Nat
  BY TimesNat
<1>2. n \in Nat
  BY <1>1
<1>3. n \div b \in Nat /\ n % b \in 0 .. b - 1 /\ n = b * (n \div b) + (n % b)
  BY <1>2
<1> DEFINE p == n \div b
           s == n % b
<1>4. b * p = p * b
  BY <1>3, TimesNat
<1>5. p \in Nat /\ s \in 0 .. b - 1 /\ p * b + s = q * b + r
  BY <1>3, <1>4
<1> HIDE DEF p, s
<1>6. p = q /\ s = r
  BY <1>5, QuotientOnce
<1> QED
  BY <1>2, <1>6 DEF p, s

(* The whole blocks of a length, and what is left, are the only such.      *)
LEMMA FullPartIs ==
  ASSUME DigestAssumption, NEW n, NEW q \in Nat, NEW r \in 0 .. BlockSize - 1,
         n = q * BlockSize + r
  PROVE  n \in Nat /\ Full(n) = q /\ LeftOf(n) = r
<1>1. BlockSize \in Nat \ {0}
  BY DEF DigestAssumption
<1> QED
  BY <1>1, DivMod DEF Full, LeftOf

-----------------------------------------------------------------------------
(* The first a blocks of a sequence, byte by byte.                         *)
BlocksOf(st, s, a) ==
  /\ IsAnySeq(st) /\ Len(st) = a
  /\ \A i \in 1 .. a : /\ IsAnySeq(st[i]) /\ Len(st[i]) = BlockSize
                       /\ \A j \in 1 .. BlockSize : st[i][j] = s[(i - 1) * BlockSize + j]

(* A byte of a block is a byte of the sequence.                            *)
LEMMA ByteOfBlock ==
  ASSUME DigestAssumption, NEW a \in Nat, NEW i \in 1 .. a, NEW j \in 1 .. BlockSize
  PROVE  /\ (i - 1) * BlockSize \in Nat
         /\ (i - 1) * BlockSize + j \in 1 .. a * BlockSize
         /\ i * BlockSize = (i - 1) * BlockSize + BlockSize
         /\ (i - 1) * BlockSize + BlockSize <= a * BlockSize
<1>1. BlockSize \in Nat
  BY DEF DigestAssumption
<1>2. i - 1 \in Nat /\ i \in Nat /\ i <= a
  OBVIOUS
<1>3. (i - 1) * BlockSize \in Nat /\ a * BlockSize \in Nat
  BY <1>1, <1>2, TimesNat
<1>4. ((i - 1) + 1) * BlockSize = (i - 1) * BlockSize + 1 * BlockSize
  BY <1>1, <1>2, Distributes
<1>5. i * BlockSize = (i - 1) * BlockSize + BlockSize
  BY <1>1, <1>2, <1>4
<1>6. i * BlockSize <= a * BlockSize
  BY <1>1, <1>2, TimesAtLeast
<1> QED
  BY <1>1, <1>3, <1>5, <1>6

(* Chunks cuts a sequence into its whole blocks.                           *)
LEMMA ChunksAre ==
  ASSUME DigestAssumption, NEW s, IsAnySeq(s)
  PROVE  BlocksOf(Chunks(s), s, Full(Len(s)))
<1> DEFINE a == Full(Len(s))
           c == Chunks(s)
<1>1. a \in Nat /\ a * BlockSize <= Len(s) /\ Len(s) \in Nat /\ BlockSize \in Nat
  BY FullPart DEF IsAnySeq, DigestAssumption
<1>2. c = [i \in 1 .. a |-> SubSeq(s, (i - 1) * BlockSize + 1, i * BlockSize)]
  BY DEF Chunks, Full
<1> HIDE DEF a, c
<1>3. IsAnySeq(c) /\ Len(c) = a
  <2>1. c = [i \in 1 .. a |-> c[i]]
    BY <1>2
  <2> QED
    BY <1>1, <2>1, FunctionIsSeq
<1>4. ASSUME NEW i \in 1 .. a
      PROVE  /\ IsAnySeq(c[i]) /\ Len(c[i]) = BlockSize
             /\ \A j \in 1 .. BlockSize : c[i][j] = s[(i - 1) * BlockSize + j]
  <2> DEFINE m == (i - 1) * BlockSize
  <2>1. 1 \in 1 .. BlockSize
    BY DEF DigestAssumption
  <2>2. m \in Nat /\ i * BlockSize = m + BlockSize /\ m + BlockSize <= a * BlockSize
    BY <1>1, <2>1, ByteOfBlock
  <2>3. c[i] = SubSeq(s, m + 1, m + BlockSize)
    BY <1>2, <2>2
  <2>4. a * BlockSize \in Nat
    BY <1>1, TimesNat
  <2> HIDE DEF m
  <2>5. m + BlockSize <= Len(s)
    BY <1>1, <2>2, <2>4
  <2> DEFINE d == c[i]
  <2>6. d = SubSeq(s, m + 1, m + BlockSize)
    BY <2>3
  <2> HIDE DEF d
  <2>7. IsAnySeq(d) /\ Len(d) = BlockSize /\ \A j \in 1 .. BlockSize : d[j] = s[m + j]
    <3>1. IsPart(d, s, m, BlockSize)
      BY <2>5, <2>6 DEF IsPart
    <3> QED
      BY <1>1, <2>2, <3>1, SubSeqIs
  <2> QED
    BY <2>7 DEF m, d
<1> QED
  BY <1>3, <1>4 DEF BlocksOf, a, c

(* Two sequences of blocks of the same bytes are the same.                 *)
LEMMA BlocksOnce ==
  ASSUME DigestAssumption, NEW x, NEW y, NEW s, NEW t, NEW a \in Nat,
         BlocksOf(x, s, a), BlocksOf(y, t, a), \A i \in 1 .. a * BlockSize : s[i] = t[i]
  PROVE  x = y
<1>1. ASSUME NEW i \in 1 .. a
      PROVE  x[i] = y[i]
  <2>1. IsAnySeq(x[i]) /\ Len(x[i]) = BlockSize /\ IsAnySeq(y[i]) /\ Len(y[i]) = BlockSize
    BY DEF BlocksOf
  <2>2. ASSUME NEW j \in 1 .. BlockSize
        PROVE  x[i][j] = y[i][j]
    <3> DEFINE k == (i - 1) * BlockSize + j
    <3>1. x[i][j] = s[k] /\ y[i][j] = t[k]
      BY DEF BlocksOf
    <3>2. k \in 1 .. a * BlockSize
      BY ByteOfBlock
    <3> HIDE DEF k
    <3> QED
      BY <3>1, <3>2
  <2> QED
    BY <2>1, <2>2, SeqsEqual
<1>2. IsAnySeq(x) /\ IsAnySeq(y) /\ Len(x) = a /\ Len(y) = a
  BY DEF BlocksOf
<1> QED
  BY <1>1, <1>2, SeqsEqual

(* Blocks of one sequence are those of a longer one.                       *)
LEMMA BlocksStay ==
  ASSUME DigestAssumption, NEW x, NEW s, NEW t, NEW a \in Nat,
         BlocksOf(x, s, a), \A i \in 1 .. a * BlockSize : s[i] = t[i]
  PROVE  BlocksOf(x, t, a)
<1>1. ASSUME NEW i \in 1 .. a, NEW j \in 1 .. BlockSize
      PROVE  x[i][j] = t[(i - 1) * BlockSize + j]
  <2> DEFINE k == (i - 1) * BlockSize + j
  <2>1. x[i][j] = s[k]
    BY DEF BlocksOf
  <2>2. k \in 1 .. a * BlockSize
    BY ByteOfBlock
  <2> HIDE DEF k
  <2>3. x[i][j] = t[k]
    BY <2>1, <2>2
  <2> QED
    BY <2>3 DEF k
<1> QED
  BY <1>1 DEF BlocksOf

(* Blocks behind blocks: the ones of t go on where those of s end.         *)
LEMMA BlocksGoOn ==
  ASSUME DigestAssumption, NEW x, NEW y, NEW s, NEW t, NEW a \in Nat, NEW b \in Nat,
         BlocksOf(x, s, a), BlocksOf(y, t, b),
         \A i \in 1 .. b * BlockSize : s[a * BlockSize + i] = t[i]
  PROVE  BlocksOf(x \o y, s, a + b)
<1>1. IsAnySeq(x) /\ IsAnySeq(y) /\ Len(x) = a /\ Len(y) = b
  BY DEF BlocksOf
<1>2. /\ IsAnySeq(x \o y) /\ Len(x \o y) = a + b
      /\ \A i \in 1 .. a : (x \o y)[i] = x[i]
      /\ \A i \in 1 .. b : (x \o y)[a + i] = y[i]
  BY SMTT(30), <1>1, ConcatIs
<1> DEFINE z == x \o y
<1> HIDE DEF z
<1>3. ASSUME NEW i \in 1 .. a + b
      PROVE  /\ IsAnySeq(z[i]) /\ Len(z[i]) = BlockSize
             /\ \A j \in 1 .. BlockSize : z[i][j] = s[(i - 1) * BlockSize + j]
  <2>1. CASE i \in 1 .. a
    <3>1. z[i] = x[i]
      BY <1>2, <2>1 DEF z
    <3> QED
      BY <2>1, <3>1 DEF BlocksOf
  <2>2. CASE i \notin 1 .. a
    <3> DEFINE k == i - a
    <3>1. k \in 1 .. b /\ i = a + k
      BY <2>2
    <3> HIDE DEF k
    <3>2. z[i] = y[k]
      BY <1>2, <3>1 DEF z
    <3>3. /\ IsAnySeq(y[k]) /\ Len(y[k]) = BlockSize
          /\ \A j \in 1 .. BlockSize : y[k][j] = t[(k - 1) * BlockSize + j]
      BY <3>1 DEF BlocksOf
    <3>4. ASSUME NEW j \in 1 .. BlockSize
          PROVE  y[k][j] = s[(i - 1) * BlockSize + j]
      <4> DEFINE u == (k - 1) * BlockSize
      <4>1. u \in Nat /\ u + j \in 1 .. b * BlockSize
        BY <3>1, ByteOfBlock
      <4>2. a * BlockSize \in Nat /\ BlockSize \in Nat
        BY TimesNat DEF DigestAssumption
      <4>3. (i - 1) * BlockSize = a * BlockSize + u
        <5>1. i - 1 = a + (k - 1) /\ k - 1 \in Int
          BY <3>1
        <5> QED
          BY <4>2, <5>1, Distributes
      <4> HIDE DEF u
      <4>4. s[a * BlockSize + (u + j)] = t[u + j]
        BY <4>1
      <4>5. (a * BlockSize + u) + j = a * BlockSize + (u + j)
        <5> DEFINE w == a * BlockSize
        <5>1. w \in Nat
          BY <4>2
        <5> HIDE DEF w
        <5>2. (w + u) + j = w + (u + j)
          BY <4>1, <5>1
        <5> QED
          BY <5>2 DEF w
      <4>6. y[k][j] = t[u + j]
        BY <3>3 DEF u
      <4> QED
        BY <4>3, <4>4, <4>5, <4>6
    <3> QED
      BY SMTT(30), <3>2, <3>3, <3>4
  <2> QED
    BY <2>1, <2>2
<1> QED
  BY <1>2, <1>3 DEF BlocksOf, z

-----------------------------------------------------------------------------
(* A context, and the length it has counted: two words, and what is above  *)
(* them is lost.                                                           *)
IsContext(c) ==
  /\ c = [t0 |-> c.t0, t1 |-> c.t1, state |-> c.state, buffer |-> c.buffer,
          ipad |-> c.ipad, opad |-> c.opad]
  /\ c.t0 \in 0 .. Word - 1 /\ c.t1 \in 0 .. Word - 1
  /\ c.buffer = [i \in 1 .. BlockSize |-> c.buffer[i]]

UnitsOf(k, n) == IF k = "sha2" THEN n ELSE n * Bits
Counted(k, c, n) == \E u \in Nat : UnitsOf(k, n) = (u * Word + c.t1) * Word + c.t0

(* A word is a whole number of blocks of bits, and of bytes.               *)
LEMMA WordIs ==
  ASSUME DigestAssumption
  PROVE  /\ Word \in Nat \ {0} /\ Bits \in Nat \ {0} /\ BlockSize \in Nat \ {0}
         /\ \E m \in Nat : Word = m * (Bits * BlockSize) /\ Bits * m \in Nat /\ m * BlockSize \in Nat
                           /\ Word = (Bits * m) * BlockSize /\ Word = (m * BlockSize) * Bits
<1>1. Word \in Nat \ {0} /\ Bits \in Nat \ {0} /\ BlockSize \in Nat \ {0} /\ Word % (Bits * BlockSize) = 0
  BY DEF DigestAssumption
<1> DEFINE b == Bits * BlockSize
<1>2. b \in Nat \ {0}
  BY <1>1
<1> HIDE DEF b
<1>3. Word % b = 0
  BY <1>1 DEF b
<1> DEFINE m == Word \div b
<1>4. m \in Nat /\ Word = b * m + (Word % b)
  BY <1>1, <1>2
<1> HIDE DEF m
<1>5. Word = m * b
  BY <1>2, <1>3, <1>4
<1>6. m * (Bits * BlockSize) = (Bits * m) * BlockSize /\ m * (Bits * BlockSize) = (m * BlockSize) * Bits
  BY <1>1, <1>4
<1>7. Bits * m \in Nat /\ m * BlockSize \in Nat
  BY <1>1, <1>4, TimesNat
<1> QED
  BY <1>1, <1>4, <1>5, <1>6, <1>7 DEF b

(* The counter says how much of the buffer is filled, for both digests.    *)
LEMMA FilledIs ==
  ASSUME DigestAssumption, NEW k \in {"sha2", "md5"}, NEW c, IsContext(c), NEW n \in Nat, Counted(k, c, n)
  PROVE  Filled(k, c) = LeftOf(n)
<1>1. PICK u \in Nat : UnitsOf(k, n) = (u * Word + c.t1) * Word + c.t0
  BY DEF Counted
<1>2. PICK m \in Nat : /\ Bits * m \in Nat /\ m * BlockSize \in Nat
                       /\ Word = (Bits * m) * BlockSize /\ Word = (m * BlockSize) * Bits
  BY WordIs
<1>3. Word \in Nat \ {0} /\ Bits \in Nat \ {0} /\ BlockSize \in Nat \ {0}
  BY WordIs
<1>4. c.t0 \in Nat /\ c.t1 \in Nat
  BY <1>3 DEF IsContext
<1> DEFINE x == u * Word + c.t1
           t == c.t0
<1>5. x \in Nat /\ t \in Nat
  BY <1>3, <1>4, TimesNat
<1>6. UnitsOf(k, n) = x * Word + t
  BY <1>1
<1> HIDE DEF x, t
<1>7. CASE k = "sha2"
  <2> DEFINE y == x * (Bits * m)
  <2>1. y \in Nat /\ x * Word = y * BlockSize
    BY <1>2, <1>3, <1>5
  <2>2. n = x * Word + t
    BY <1>6, <1>7 DEF UnitsOf
  <2> HIDE DEF y
  <2>3. Full(t) \in Nat /\ LeftOf(t) \in 0 .. BlockSize - 1 /\ t = Full(t) * BlockSize + LeftOf(t)
    BY <1>5, FullPart
  <2>4. (y + Full(t)) * BlockSize = y * BlockSize + Full(t) * BlockSize
    BY <1>3, <2>1, <2>3, Distributes
  <2>5. y * BlockSize \in Nat /\ Full(t) * BlockSize \in Nat
    BY <1>3, <2>1, <2>3, TimesNat
  <2>6. n = (y + Full(t)) * BlockSize + LeftOf(t)
    BY <2>1, <2>2, <2>3, <2>4, <2>5
  <2>7. LeftOf(n) = LeftOf(t)
    <3> DEFINE q == y + Full(t)
               r == LeftOf(t)
    <3>1. q \in Nat /\ r \in 0 .. BlockSize - 1 /\ n = q * BlockSize + r
      BY <2>1, <2>3, <2>6
    <3> HIDE DEF q, r
    <3> QED
      BY <3>1, FullPartIs DEF r
  <2> QED
    BY <1>7, <2>7 DEF Filled, LeftOf, t
<1>8. CASE k = "md5"
  <2> DEFINE y == x * (m * BlockSize)
             d == n - y
  <2>1. y \in Nat /\ x * Word = y * Bits
    BY <1>2, <1>3, <1>5
  <2>2. n * Bits = x * Word + t
    BY <1>6, <1>8 DEF UnitsOf
  <2>3. y = (x * m) * BlockSize /\ x * m \in Nat
    BY <1>2, <1>3, <1>5
  <2> HIDE DEF y
  <2>4. d \in Int /\ n = y + d
    BY <2>1
  <2> HIDE DEF d
  <2>5. n * Bits = y * Bits + d * Bits
    BY <1>3, <2>1, <2>4, Distributes
  <2>6. y * Bits \in Nat /\ d * Bits \in Int
    BY <1>3, <2>1, <2>4
  <2>7. t = d * Bits
    BY <1>5, <2>1, <2>2, <2>5, <2>6
  <2>8. d \in Nat
    BY <1>3, <1>5, <2>4, <2>7
  <2>9. t \div Bits = d
    <3>1. 0 \in 0 .. Bits - 1 /\ t = d * Bits + 0
      BY <1>3, <1>5, <2>7
    <3> QED
      BY <1>3, <2>8, <3>1, DivMod
  <2>10. Full(d) \in Nat /\ LeftOf(d) \in 0 .. BlockSize - 1 /\ d = Full(d) * BlockSize + LeftOf(d)
    BY <2>8, FullPart
  <2>11. n = (x * m + Full(d)) * BlockSize + LeftOf(d)
    <3> DEFINE z == x * m
    <3>1. z \in Nat /\ y = z * BlockSize
      BY <2>3
    <3> HIDE DEF z
    <3>2. (z + Full(d)) * BlockSize = z * BlockSize + Full(d) * BlockSize
      BY <1>3, <2>10, <3>1, Distributes
    <3>3. z * BlockSize \in Nat /\ Full(d) * BlockSize \in Nat
      BY <1>3, <2>10, <3>1, TimesNat
    <3> QED
      BY <2>4, <2>10, <3>1, <3>2, <3>3 DEF z
  <2>12. LeftOf(n) = LeftOf(d)
    <3> DEFINE q == x * m + Full(d)
               r == LeftOf(d)
    <3>1. q \in Nat /\ r \in 0 .. BlockSize - 1 /\ n = q * BlockSize + r
      BY <2>3, <2>10, <2>11
    <3> HIDE DEF q, r
    <3> QED
      BY <3>1, FullPartIs DEF r
  <2> QED
    BY <1>8, <2>9, <2>12 DEF Filled, LeftOf, t
<1> QED
  BY <1>7, <1>8

(* Counting bytes, or bits: a word that overflows is carried.              *)
Total(k, c, n) == IF k = "sha2" THEN Sha2Total(c, n) ELSE Md5Total(c, n)

(* A word plus at most a word: there is a carry or not.                    *)
Carries(x, l, t, carry) == t = (x + l) % Word /\ carry = IF t < l THEN 1 ELSE 0

(* What a sum of words leaves in its word, and that its carry is seen.     *)
LEMMA WordPlus ==
  ASSUME DigestAssumption, NEW x \in 0 .. Word - 1, NEW l \in 0 .. Word,
         NEW t, NEW carry, Carries(x, l, t, carry)
  PROVE  t \in 0 .. Word - 1 /\ carry \in 0 .. 1 /\ x + l = carry * Word + t
<1>1. Word \in Nat \ {0}
  BY WordIs
<1> USE DEF Carries
<1> DEFINE s == x + l
<1>2. s \in Nat
  OBVIOUS
<1>3. CASE s < Word
  <2>1. s % Word = s
    BY <1>1, <1>2, <1>3
  <2>2. ~ (s < l)
    BY <1>1
  <2> HIDE DEF s
  <2> QED
    BY <1>1, <1>2, <1>3, <2>1, <2>2 DEF s
<1>4. CASE ~ (s < Word)
  <2> DEFINE r == s - Word
             q == 1
  <2>1. q \in Nat /\ r \in 0 .. Word - 1 /\ s = q * Word + r /\ r < l
    BY <1>1, <1>4
  <2> HIDE DEF r, s, q
  <2>2. s % Word = r
    BY <1>1, <2>1, DivMod
  <2>3. q = 1
    BY DEF q
  <2>4. t = r /\ carry = 1
    BY <2>1, <2>2 DEF s
  <2>5. s = 1 * Word + t
    BY <2>1, <2>3, <2>4
  <2> QED
    BY <2>1, <2>4, <2>5 DEF s
<1> QED
  BY <1>3, <1>4

(* Both digests count what they are given, modulo two words.               *)
LEMMA TotalIs ==
  ASSUME DigestAssumption, NEW c, IsContext(c), NEW n \in Nat, NEW l \in Nat,
         NEW k \in {"sha2", "md5"}, Counted(k, c, n), k = "sha2" => l <= Word
  PROVE  /\ IsContext(Total(k, c, l)) /\ Counted(k, Total(k, c, l), n + l)
         /\ Total(k, c, l).state = c.state /\ Total(k, c, l).buffer = c.buffer
         /\ Total(k, c, l).ipad = c.ipad /\ Total(k, c, l).opad = c.opad
<1>1. Word \in Nat \ {0} /\ Bits \in Nat \ {0}
  BY WordIs
<1>2. PICK u \in Nat : UnitsOf(k, n) = (u * Word + c.t1) * Word + c.t0
  BY DEF Counted
<1>3. c.t0 \in 0 .. Word - 1 /\ c.t1 \in 0 .. Word - 1
  BY DEF IsContext
<1> DEFINE Counts(d) ==
             \E h \in Nat, carry \in 0 .. 1, t \in 0 .. Word - 1 :
                /\ c.t0 + UnitsOf(k, l) = (h + carry) * Word + t
                /\ d = [c EXCEPT !.t0 = t, !.t1 = (@ + carry + h) % Word]
<1>4. Counts(Total(k, c, l))
  <2>1. CASE k = "sha2"
    <3> DEFINE t == (c.t0 + l) % Word
               carry == IF t < l THEN 1 ELSE 0
    <3>1. Total(k, c, l) = [c EXCEPT !.t0 = t, !.t1 = IF t < l THEN (@ + 1) % Word ELSE @]
      BY <2>1 DEF Total, Sha2Total
    <3>2. l \in 0 .. Word
      BY <1>1, <2>1
    <3>3. t \in 0 .. Word - 1 /\ c.t0 + l = carry * Word + t /\ carry \in 0 .. 1
      <4>1. Carries(c.t0, l, t, carry)
        BY DEF Carries
      <4> HIDE DEF t, carry
      <4> QED
        BY <1>3, <3>2, <4>1, WordPlus
    <3>4. (IF t < l THEN (c.t1 + 1) % Word ELSE c.t1) = (c.t1 + carry + 0) % Word
      BY <1>1, <1>3
    <3>5. UnitsOf(k, l) = l
      BY <2>1 DEF UnitsOf
    <3> HIDE DEF t
    <3>6. Total(k, c, l) = [c EXCEPT !.t0 = t, !.t1 = IF t < l THEN (c.t1 + 1) % Word ELSE c.t1]
      BY <3>1 DEF IsContext
    <3> HIDE DEF carry
    <3>7. Total(k, c, l) = [c EXCEPT !.t0 = t, !.t1 = (@ + carry + 0) % Word]
      BY <3>4, <3>6 DEF IsContext
    <3>8. c.t0 + UnitsOf(k, l) = (0 + carry) * Word + t /\ 0 \in Nat
      BY <3>3, <3>5
    <3> QED
      BY <3>3, <3>7, <3>8
  <2>2. CASE k = "md5"
    <3> DEFINE b == l * Bits
               low == b % Word
               h == b \div Word
               t == (c.t0 + low) % Word
               carry == IF t < low THEN 1 ELSE 0
    <3>1. b \in Nat
      BY <1>1, TimesNat
    <3>2. Total(k, c, l) = [c EXCEPT !.t0 = t, !.t1 = (@ + carry + h) % Word]
      BY <2>2 DEF Total, Md5Total
    <3>3. UnitsOf(k, l) = b
      BY <2>2 DEF UnitsOf
    <3> HIDE DEF b
    <3>4. h \in Nat /\ low \in 0 .. Word - 1 /\ b = h * Word + low
      <4>1. h \in Nat /\ low \in 0 .. Word - 1 /\ b = Word * h + low
        BY <1>1, <3>1
      <4> QED
        BY <1>1, <4>1, TimesNat
    <3> HIDE DEF h, low
    <3>5. /\ t \in 0 .. Word - 1 /\ carry \in 0 .. 1
          /\ c.t0 + low = carry * Word + t
      <4>1. low \in 0 .. Word
        BY <1>1, <3>4
      <4>2. Carries(c.t0, low, t, carry)
        BY DEF Carries
      <4> HIDE DEF t, carry
      <4> QED
        BY <1>3, <4>1, <4>2, WordPlus
    <3> HIDE DEF t, carry
    <3>6. (h + carry) * Word = h * Word + carry * Word
      BY <1>1, <3>4, <3>5, Distributes
    <3>7. h * Word \in Nat /\ carry * Word \in Nat
      BY <1>1, <3>4, <3>5, TimesNat
    <3>8. c.t0 + UnitsOf(k, l) = (h + carry) * Word + t
      BY <1>1, <1>3, <3>3, <3>4, <3>5, <3>6, <3>7
    <3> QED
      BY <3>2, <3>4, <3>5, <3>8
  <2> QED
    BY <2>1, <2>2
<1> HIDE DEF Counts
<1> DEFINE d == Total(k, c, l)
<1> HIDE DEF d
<1>5. PICK h \in Nat, carry \in 0 .. 1, t \in 0 .. Word - 1 :
                /\ c.t0 + UnitsOf(k, l) = (h + carry) * Word + t
                /\ d = [c EXCEPT !.t0 = t, !.t1 = (@ + carry + h) % Word]
  BY <1>4 DEF Counts, d
<1> DEFINE s == c.t1 + carry + h
           g == s \div Word
           r == s % Word
<1>6. s \in Nat
  BY <1>1, <1>3
<1> HIDE DEF s
<1>7. g \in Nat /\ r \in 0 .. Word - 1 /\ s = g * Word + r
  <2>1. g \in Nat /\ r \in 0 .. Word - 1 /\ s = Word * g + r
    BY <1>1, <1>6
  <2> QED
    BY <1>1, <2>1, TimesNat
<1>8. d = [c EXCEPT !.t0 = t, !.t1 = r]
  BY <1>5 DEF s, IsContext
<1> HIDE DEF g, r
<1>9. /\ d.t0 = t /\ d.t1 = r /\ d.state = c.state /\ d.buffer = c.buffer
      /\ d.ipad = c.ipad /\ d.opad = c.opad /\ IsContext(d)
  BY <1>7, <1>8 DEF IsContext
<1>10. UnitsOf(k, n + l) = UnitsOf(k, n) + UnitsOf(k, l) /\ UnitsOf(k, n) \in Nat /\ UnitsOf(k, l) \in Nat
  BY <1>1, Distributes, TimesNat DEF UnitsOf
<1>11. UnitsOf(k, n + l) = ((u + g) * Word + r) * Word + t
  <2> DEFINE x == u * Word + c.t1
             y == h + carry
  <2>1. x \in Nat /\ y \in Nat
    BY <1>1, <1>3, TimesNat
  <2>2. UnitsOf(k, n + l) = x * Word + y * Word + t
    <3> HIDE DEF x, y
    <3>1. x * Word \in Nat /\ y * Word \in Nat
      BY <1>1, <2>1, TimesNat
    <3>2. UnitsOf(k, n) = x * Word + c.t0 /\ c.t0 + UnitsOf(k, l) = y * Word + t
      BY <1>2, <1>5 DEF x, y
    <3> QED
      BY <1>1, <1>3, <1>10, <3>1, <3>2
  <2>3. x + y = u * Word + s
    <3>1. u * Word \in Nat
      BY <1>1, TimesNat
    <3> QED
      BY <1>1, <1>3, <3>1 DEF s
  <2>4. u * Word + s = (u + g) * Word + r
    <3>1. (u + g) * Word = u * Word + g * Word
      BY <1>1, <1>7, Distributes
    <3>2. u * Word \in Nat /\ g * Word \in Nat
      BY <1>1, <1>7, TimesNat
    <3> QED
      BY <1>7, <3>1, <3>2
  <2> HIDE DEF x, y
  <2>5. (x + y) * Word = x * Word + y * Word
    BY <1>1, <2>1, Distributes
  <2> QED
    BY <2>2, <2>3, <2>4, <2>5
<1>12. Counted(k, d, n + l)
  <2>1. u + g \in Nat
    BY <1>7
  <2> QED
    BY <1>9, <1>11, <2>1 DEF Counted
<1> QED
  BY <1>9, <1>12 DEF d

-----------------------------------------------------------------------------
(* What a context has taken in: the whole blocks are hashed, and the rest  *)
(* is in the buffer.                                                       *)
HashedAndHeld(c, s) ==
  /\ BlocksOf(c.state, s, Full(Len(s)))
  /\ \A i \in 1 .. LeftOf(Len(s)) : c.buffer[i] = s[Full(Len(s)) * BlockSize + i]

TakenIn(k, c, s) == IsContext(c) /\ IsAnySeq(s) /\ Counted(k, c, Len(s)) /\ HashedAndHeld(c, s)

(* Nothing behind a sequence.                                              *)
LEMMA ConcatEmpty ==
  ASSUME NEW s, IsAnySeq(s)
  PROVE  s \o <<>> = s
<1>1. s \in Seq(Elements(s))
  BY SeqOfElements DEF Elements
<1> QED
  BY <1>1

(* Concatenations may be grouped either way.                               *)
LEMMA ConcatTwice ==
  ASSUME NEW s, NEW t, NEW u, IsAnySeq(s), IsAnySeq(t), IsAnySeq(u)
  PROVE  (s \o t) \o u = s \o (t \o u)
<1> DEFINE S == Elements(s) \cup Elements(t) \cup Elements(u)
<1>1. s \in Seq(S) /\ t \in Seq(S) /\ u \in Seq(S)
  BY SeqOfElements DEF Elements
<1> HIDE DEF S
<1> QED
  BY <1>1, ConcatAssociative

(* What is added goes on where the rest ends, if it begins a block or does *)
(* not fill one.                                                           *)
LEMMA AbsorbMore ==
  ASSUME DigestAssumption, NEW c, NEW s, NEW t, IsContext(c), IsAnySeq(s), IsAnySeq(t), HashedAndHeld(c, s),
         NEW l, l = LeftOf(Len(s)), l = 0 \/ l + Len(t) < BlockSize
  PROVE  LET d == Absorb(c, <<>>, l, t)
         IN  /\ IsContext(d) /\ HashedAndHeld(d, s \o t)
             /\ d.t0 = c.t0 /\ d.t1 = c.t1 /\ d.ipad = c.ipad /\ d.opad = c.opad
<1> DEFINE a == Full(Len(s))
           b == Full(Len(t))
           p == LeftOf(Len(t))
           r == s \o t
           left == SubSeq(t, Len(Chunks(t)) * BlockSize + 1, Len(t))
           copied == CopyTo(c.buffer, l, left)
           d == Absorb(c, <<>>, l, t)
<1>1. Len(s) \in Nat /\ Len(t) \in Nat /\ BlockSize \in Nat \ {0}
  BY WordIs DEF IsAnySeq
<1>2. /\ a \in Nat /\ l \in 0 .. BlockSize - 1 /\ Len(s) = a * BlockSize + l
      /\ b \in Nat /\ p \in 0 .. BlockSize - 1 /\ Len(t) = b * BlockSize + p
  BY <1>1, FullPart
<1>3. /\ IsAnySeq(r) /\ Len(r) = Len(s) + Len(t)
      /\ \A i \in 1 .. Len(s) : r[i] = s[i]
      /\ \A i \in 1 .. Len(t) : r[Len(s) + i] = t[i]
  BY ConcatIs
<1>4. BlocksOf(Chunks(t), t, b)
  BY ChunksAre
<1>5. BlocksOf(c.state, s, a) /\ \A i \in 1 .. l : c.buffer[i] = s[a * BlockSize + i]
  BY DEF HashedAndHeld
<1>6. d = [c EXCEPT !.state = (c.state \o <<>>) \o Chunks(t), !.buffer = copied]
  BY DEF Absorb, IsContext
<1>7. c.state \o <<>> = c.state
  BY <1>5, ConcatEmpty DEF BlocksOf
<1>8. Len(Chunks(t)) = b
  BY <1>4 DEF BlocksOf
<1> HIDE DEF a, b, p, r, d
<1>9. a * BlockSize \in Nat /\ b * BlockSize \in Nat /\ (a + b) * BlockSize = a * BlockSize + b * BlockSize
  BY <1>1, <1>2, Distributes, TimesNat
<1>10. l = 0 \/ b = 0
  <2>1. CASE b >= 1
    <3>1. 1 * BlockSize <= b * BlockSize
      BY <1>1, <1>2, <2>1, TimesAtLeast
    <3> QED
      BY <1>1, <1>2, <1>9, <3>1
  <2> QED
    BY <1>2, <2>1
<1>11. l + p \in 0 .. BlockSize - 1
  <2>1. CASE l = 0
    BY <1>1, <1>2, <2>1
  <2>2. CASE l # 0
    <3>1. Len(t) = p
      BY <1>1, <1>2, <1>10, <2>2
    <3> QED
      BY <1>1, <1>2, <2>2, <3>1
  <2> QED
    BY <2>1, <2>2
<1>12. Len(r) \in Nat /\ Full(Len(r)) = a + b /\ LeftOf(Len(r)) = l + p
  <2> DEFINE q == a + b
             m == l + p
  <2>1. q \in Nat /\ m \in 0 .. BlockSize - 1
    BY <1>2, <1>11
  <2>2. Len(r) = q * BlockSize + m
    BY <1>1, <1>2, <1>3, <1>9
  <2> HIDE DEF q, m
  <2>3. Len(r) \in Nat /\ Full(Len(r)) = q /\ LeftOf(Len(r)) = m
    BY <2>1, <2>2, FullPartIs
  <2> QED
    BY <2>3 DEF q, m
<1>13. BlocksOf(c.state \o Chunks(t), r, a + b)
  <2>1. \A i \in 1 .. a * BlockSize : s[i] = r[i]
    BY SMTT(30), <1>1, <1>2, <1>3, <1>9
  <2>2. BlocksOf(c.state, r, a)
    BY <1>2, <1>5, <2>1, BlocksStay
  <2>3. \A i \in 1 .. b * BlockSize : r[a * BlockSize + i] = t[i]
    <3>1. CASE l = 0
      <4>1. a * BlockSize = Len(s) /\ \A i \in 1 .. b * BlockSize : i \in 1 .. Len(t)
        BY <1>1, <1>2, <1>9, <3>1
      <4> QED
        BY <1>3, <4>1
    <3>2. CASE b = 0
      BY <1>1, <3>2
    <3> QED
      BY <1>10, <3>1, <3>2
  <2> QED
    BY <1>2, <1>4, <2>2, <2>3, BlocksGoOn
<1>14. IsAnySeq(left) /\ Len(left) = p /\ \A i \in 1 .. p : left[i] = t[b * BlockSize + i]
  <2> DEFINE m == b * BlockSize
  <2>1. m \in Nat /\ p \in Nat /\ m + p = Len(t)
    BY <1>1, <1>2, <1>9
  <2>2. left = SubSeq(t, m + 1, m + p)
    BY <1>8, <2>1
  <2> HIDE DEF m, left
  <2>3. m + p <= Len(t)
    BY <1>1, <2>1
  <2>4. IsAnySeq(left) /\ Len(left) = p /\ \A i \in 1 .. p : left[i] = t[m + i]
    <3>1. IsPart(left, t, m, p)
      BY <2>2, <2>3 DEF IsPart
    <3> QED
      BY <2>1, <3>1, SubSeqIs
  <2> QED
    BY <2>4 DEF m
<1> HIDE DEF left
<1>15. copied = [i \in 1 .. BlockSize |-> IF i \in l + 1 .. l + p THEN left[i - l] ELSE c.buffer[i]]
  BY <1>14 DEF CopyTo
<1>16. ASSUME NEW i \in 1 .. l + p
       PROVE  copied[i] = r[(a + b) * BlockSize + i]
  <2>1. i \in 1 .. BlockSize
    BY <1>1, <1>2, <1>11
  <2>2. CASE i \in 1 .. l
    <3>1. b = 0
      BY <1>2, <1>10, <2>2
    <3>2. copied[i] = c.buffer[i]
      BY SMTT(30), <1>2, <1>15, <2>1, <2>2
    <3>3. a * BlockSize + i \in 1 .. Len(s)
      BY <1>1, <1>2, <1>9, <2>2
    <3>4. c.buffer[i] = r[a * BlockSize + i]
      BY <1>3, <1>5, <2>2, <3>3
    <3>5. (a + b) * BlockSize = a * BlockSize
      BY <1>2, <3>1
    <3> QED
      BY <3>2, <3>4, <3>5
  <2>3. CASE i \notin 1 .. l
    <3> DEFINE j == i - l
               x == b * BlockSize + j
    <3>1. j \in 1 .. p /\ i \in l + 1 .. l + p
      BY SMTT(30), <1>2, <2>3
    <3>2. copied[i] = left[j]
      BY <1>15, <2>1, <3>1
    <3>3. left[j] = t[x]
      BY <1>14, <3>1
    <3>4. x \in 1 .. Len(t)
      <4> DEFINE y == b * BlockSize
      <4>1. y \in Nat /\ Len(t) = y + p /\ x = y + j
        BY <1>2, <1>9
      <4> HIDE DEF x, y, j
      <4> QED
        BY <1>2, <3>1, <4>1
    <3>5. Len(s) + x = (a + b) * BlockSize + i
      BY SMTT(30), <1>1, <1>2, <1>9, <3>1
    <3> HIDE DEF x, j
    <3>6. t[x] = r[Len(s) + x]
      BY <1>3, <3>4
    <3> QED
      BY <3>2, <3>3, <3>5, <3>6
  <2> QED
    BY <2>2, <2>3
<1> HIDE DEF copied
<1>17. copied = [i \in 1 .. BlockSize |-> copied[i]]
  BY <1>15
<1>18. /\ d.state = c.state \o Chunks(t) /\ d.buffer = copied
       /\ d.t0 = c.t0 /\ d.t1 = c.t1 /\ d.ipad = c.ipad /\ d.opad = c.opad
       /\ d = [t0 |-> d.t0, t1 |-> d.t1, state |-> d.state, buffer |-> d.buffer,
               ipad |-> d.ipad, opad |-> d.opad]
  BY <1>6, <1>7 DEF IsContext
<1>19. IsContext(d)
  BY <1>17, <1>18 DEF IsContext
<1>20. HashedAndHeld(d, r)
  BY <1>12, <1>13, <1>16, <1>18 DEF HashedAndHeld
<1> QED
  BY <1>18, <1>19, <1>20 DEF d, r

(* A sequence of one element.                                              *)
LEMMA OneIsSeq ==
  ASSUME NEW x
  PROVE  IsAnySeq(<<x>>) /\ Len(<<x>>) = 1 /\ <<x>>[1] = x /\ <<x>> # <<>>
<1>1. <<x>> \in Seq({x}) /\ Len(<<x>>) = 1 /\ <<x>>[1] = x
  OBVIOUS
<1>2. Len(<<>>) = 0
  OBVIOUS
<1>3. <<x>> # <<>>
  BY <1>1, <1>2
<1>4. IsAnySeq(<<x>>)
  BY <1>1, IsSeqOf
<1> QED
  BY <1>1, <1>3, <1>4

(* A sequence cut in two.                                                  *)
IsCut(t, f, first, rest) ==
  f \in Nat /\ f <= Len(t) /\ first = SubSeq(t, 1, f) /\ rest = SubSeq(t, f + 1, Len(t))

(* The two parts are sequences, and give the whole.                        *)
LEMMA CutInTwo ==
  ASSUME NEW t, IsAnySeq(t), NEW f, NEW first, NEW rest, IsCut(t, f, first, rest)
  PROVE  /\ IsAnySeq(first) /\ Len(first) = f /\ IsAnySeq(rest) /\ Len(rest) = Len(t) - f
         /\ first \o rest = t /\ \A i \in 1 .. f : first[i] = t[i]
<1> DEFINE n == Len(t)
           g == n - f
<1>1. n \in Nat /\ g \in Nat /\ f + g = n /\ f \in Nat /\ first = SubSeq(t, 1, f) /\ rest = SubSeq(t, f + 1, n)
  BY DEF IsAnySeq, IsCut
<1> HIDE DEF g
<1>2. IsPart(first, t, 0, f)
  BY <1>1 DEF IsPart
<1>3. IsAnySeq(first) /\ Len(first) = f /\ \A i \in 1 .. f : first[i] = t[i]
  <2>1. IsAnySeq(first) /\ Len(first) = f /\ \A i \in 1 .. f : first[i] = t[0 + i]
    <3>1. 0 \in Nat
      OBVIOUS
    <3> QED
      BY <1>1, <1>2, <3>1, SubSeqIs
  <2> QED
    BY <2>1
<1>4. IsPart(rest, t, f, g)
  BY SMTT(30), <1>1 DEF IsPart
<1>5. IsAnySeq(rest) /\ Len(rest) = g /\ \A i \in 1 .. g : rest[i] = t[f + i]
  BY <1>1, <1>4, SubSeqIs
<1> HIDE DEF n
<1> DEFINE r == first \o rest
<1>6. /\ IsAnySeq(r) /\ Len(r) = f + g
      /\ \A i \in 1 .. f : r[i] = first[i]
      /\ \A i \in 1 .. g : r[f + i] = rest[i]
  <2>1. IsAnySeq(first) /\ IsAnySeq(rest)
    BY <1>3, <1>5
  <2>2. /\ IsAnySeq(r) /\ Len(r) = Len(first) + Len(rest)
        /\ \A i \in 1 .. Len(first) : r[i] = first[i]
        /\ \A i \in 1 .. Len(rest) : r[Len(first) + i] = rest[i]
    BY ONLY <2>1, ConcatIs
  <2> HIDE DEF r
  <2> QED
    BY <1>3, <1>5, <2>2
<1> HIDE DEF r
<1>7. ASSUME NEW i \in 1 .. n
      PROVE  r[i] = t[i]
  <2>1. CASE i \in 1 .. f
    BY <1>3, <1>6, <2>1
  <2>2. CASE i \notin 1 .. f
    <3> DEFINE j == i - f
    <3>1. j \in 1 .. g /\ i = f + j
      BY <1>1, <2>2
    <3> HIDE DEF j
    <3> QED
      BY <1>5, <1>6, <3>1
  <2> QED
    BY <2>1, <2>2
<1>8. r = t
  BY <1>1, <1>6, <1>7, SeqsEqual DEF n
<1> QED
  BY <1>1, <1>3, <1>5, <1>8 DEF n, r, g

(* The context once its buffer is filled up and hashed.                    *)
FillUp(c, l, first) ==
  LET full == CopyTo(c.buffer, l, first)
  IN  [c EXCEPT !.state = @ \o <<full>>, !.buffer = full]

(* A block that is filled up and hashed holds the bytes of the message.    *)
LEMMA FillUpIs ==
  ASSUME DigestAssumption, NEW c, NEW s, NEW first, IsContext(c), IsAnySeq(s), IsAnySeq(first),
         HashedAndHeld(c, s), NEW l, l = LeftOf(Len(s)), Len(first) = BlockSize - l
  PROVE  LET d == FillUp(c, l, first)
         IN  /\ IsContext(d) /\ HashedAndHeld(d, s \o first) /\ LeftOf(Len(s \o first)) = 0
             /\ d.t0 = c.t0 /\ d.t1 = c.t1 /\ d.ipad = c.ipad /\ d.opad = c.opad
<1> DEFINE a == Full(Len(s))
           r == s \o first
           full == CopyTo(c.buffer, l, first)
           d == FillUp(c, l, first)
<1>1. Len(s) \in Nat /\ Len(first) \in Nat /\ BlockSize \in Nat \ {0}
  BY WordIs DEF IsAnySeq
<1>2. a \in Nat /\ l \in 0 .. BlockSize - 1 /\ Len(s) = a * BlockSize + l
  BY <1>1, FullPart
<1>3. /\ IsAnySeq(r) /\ Len(r) = Len(s) + Len(first)
      /\ \A i \in 1 .. Len(s) : r[i] = s[i]
      /\ \A i \in 1 .. Len(first) : r[Len(s) + i] = first[i]
  BY SMTT(30), ConcatIs
<1>4. BlocksOf(c.state, s, a) /\ \A i \in 1 .. l : c.buffer[i] = s[a * BlockSize + i]
  BY DEF HashedAndHeld
<1>5. d = [c EXCEPT !.state = c.state \o <<full>>, !.buffer = full]
  BY DEF FillUp, IsContext
<1>6. full = [i \in 1 .. BlockSize |-> IF i \in l + 1 .. l + Len(first) THEN first[i - l] ELSE c.buffer[i]]
  BY DEF CopyTo
<1> HIDE DEF a, r, d, full
<1>7. a * BlockSize \in Nat /\ (a + 1) * BlockSize = a * BlockSize + BlockSize
  <2>1. (a + 1) * BlockSize = a * BlockSize + 1 * BlockSize
    BY <1>1, <1>2, Distributes
  <2> QED
    BY <1>1, <1>2, <2>1, TimesNat
<1>8. Len(r) = (a + 1) * BlockSize /\ Len(r) \in Nat /\ \A i \in 1 .. a * BlockSize : i \in 1 .. Len(s)
  <2> DEFINE m == a * BlockSize
  <2>1. m \in Nat /\ (a + 1) * BlockSize = m + BlockSize /\ Len(s) = m + l
    BY <1>2, <1>7
  <2> HIDE DEF m
  <2>2. Len(r) = Len(s) + Len(first) /\ Len(first) = BlockSize - l
    BY <1>3
  <2>3. Len(r) = m + BlockSize /\ Len(r) \in Nat
    <3>1. l \in Int /\ BlockSize \in Nat /\ Len(s) = m + l /\ m \in Nat
      BY <1>1, <1>2, <2>1
    <3>2. Len(r) = (m + l) + (BlockSize - l)
      BY ONLY <2>2, <3>1
    <3> QED
      BY ONLY <3>1, <3>2
  <2>4. \A i \in 1 .. m : i \in 1 .. Len(s)
    BY <1>1, <1>2, <2>1
  <2> QED
    BY <2>1, <2>3, <2>4 DEF m
<1>9. Full(Len(r)) = a + 1 /\ LeftOf(Len(r)) = 0
  <2> DEFINE q == a + 1
             m == 0
  <2>1. q \in Nat /\ m \in 0 .. BlockSize - 1 /\ Len(r) = q * BlockSize + m
    BY <1>1, <1>2, <1>8
  <2> HIDE DEF q, m
  <2>2. Full(Len(r)) = q /\ LeftOf(Len(r)) = m
    BY <2>1, FullPartIs
  <2> QED
    BY <2>2 DEF q, m
<1>10. ASSUME NEW j \in 1 .. BlockSize
       PROVE  full[j] = r[a * BlockSize + j]
  <2>1. CASE j \in 1 .. l
    <3>1. full[j] = c.buffer[j]
      <4>1. j \notin l + 1 .. l + Len(first)
        BY <1>1, <1>2, <2>1
      <4> QED
        BY <1>6, <4>1
    <3>2. a * BlockSize + j \in 1 .. Len(s)
      BY <1>1, <1>2, <1>7, <2>1
    <3> QED
      BY <1>3, <1>4, <2>1, <3>1, <3>2
  <2>2. CASE j \notin 1 .. l
    <3> DEFINE i == j - l
    <3>1. i \in 1 .. Len(first) /\ j \in l + 1 .. l + Len(first)
      BY SMTT(30), <1>1, <1>2, <2>2
    <3>2. full[j] = first[i]
      BY <1>6, <3>1
    <3>3. Len(s) + i = a * BlockSize + j
      BY <1>1, <1>2, <1>7, <3>1
    <3> HIDE DEF i
    <3> QED
      BY <1>3, <3>1, <3>2, <3>3
  <2> QED
    BY <2>1, <2>2
<1>11. full = [i \in 1 .. BlockSize |-> full[i]]
  BY <1>6
<1>12. IsAnySeq(full) /\ Len(full) = BlockSize
  BY <1>1, <1>11, FunctionIsSeq
<1> DEFINE held == <<full>>
<1>13. IsAnySeq(held) /\ Len(held) = 1 /\ held[1] = full
  BY OneIsSeq
<1> HIDE DEF held
<1>14. BlocksOf(held, full, 1)
  <2>1. ASSUME NEW i \in 1 .. 1
        PROVE  /\ IsAnySeq(held[i]) /\ Len(held[i]) = BlockSize
               /\ \A j \in 1 .. BlockSize : held[i][j] = full[(i - 1) * BlockSize + j]
    <3>1. i = 1 /\ (i - 1) * BlockSize = 0
      BY <1>1
    <3>2. held[i] = full
      BY <1>13, <3>1
    <3>3. \A j \in 1 .. BlockSize : 0 + j = j
      BY <1>1
    <3> QED
      BY <1>12, <3>1, <3>2, <3>3
  <2> QED
    BY <1>13, <2>1 DEF BlocksOf
<1>15. BlocksOf(c.state \o held, r, a + 1)
  <2>1. \A i \in 1 .. a * BlockSize : s[i] = r[i]
    BY <1>3, <1>8
  <2>2. BlocksOf(c.state, r, a)
    BY <1>2, <1>4, <2>1, BlocksStay
  <2>3. \A i \in 1 .. 1 * BlockSize : r[a * BlockSize + i] = full[i]
    BY <1>1, <1>10
  <2> QED
    BY <1>2, <1>14, <2>2, <2>3, BlocksGoOn
<1>16. /\ d.state = c.state \o held /\ d.buffer = full
       /\ d.t0 = c.t0 /\ d.t1 = c.t1 /\ d.ipad = c.ipad /\ d.opad = c.opad
       /\ d = [t0 |-> d.t0, t1 |-> d.t1, state |-> d.state, buffer |-> d.buffer,
               ipad |-> d.ipad, opad |-> d.opad]
  BY <1>5 DEF IsContext, held
<1>17. IsContext(d)
  BY <1>11, <1>16 DEF IsContext
<1>18. HashedAndHeld(d, r)
  <2>1. \A i \in 1 .. 0 : d.buffer[i] = r[(a + 1) * BlockSize + i]
    OBVIOUS
  <2> QED
    BY <1>9, <1>15, <1>16, <2>1 DEF HashedAndHeld
<1> QED
  BY <1>9, <1>16, <1>17, <1>18 DEF d, r

(* Absorbing behind a full block is filling up, then absorbing.            *)
LEMMA AbsorbFull ==
  ASSUME NEW c, NEW l, NEW first, NEW rest, IsContext(c), IsAnySeq(c.state)
  PROVE  Absorb(c, <<CopyTo(c.buffer, l, first)>>, 0, rest)
           = Absorb(FillUp(c, l, first), <<>>, 0, rest)
<1> DEFINE full == CopyTo(c.buffer, l, first)
           whole == Chunks(rest)
           left == SubSeq(rest, Len(whole) * BlockSize + 1, Len(rest))
           held == <<full>>
           d == FillUp(c, l, first)
<1>1. d = [c EXCEPT !.state = c.state \o held, !.buffer = full]
  BY DEF FillUp, IsContext
<1>2. IsAnySeq(held) /\ held # <<>> /\ held[1] = full
  BY OneIsSeq
<1>3. Absorb(c, held, 0, rest)
        = [c EXCEPT !.state = (c.state \o held) \o whole,
                    !.buffer = CopyTo(IF held # <<>> THEN held[1] ELSE c.buffer, 0, left)]
  BY DEF Absorb, IsContext
<1>4. Absorb(d, <<>>, 0, rest)
        = [d EXCEPT !.state = (d.state \o <<>>) \o whole, !.buffer = CopyTo(d.buffer, 0, left)]
  BY <1>1 DEF Absorb, IsContext
<1>5. (c.state \o held) \o <<>> = c.state \o held
  BY <1>2, ConcatEmpty, ConcatIs
<1> HIDE DEF full, whole, left, held, d
<1>6. d.state = c.state \o held /\ d.buffer = full
  BY <1>1 DEF IsContext
<1>7. Absorb(c, held, 0, rest)
        = [c EXCEPT !.state = (c.state \o held) \o whole, !.buffer = CopyTo(full, 0, left)]
  BY <1>2, <1>3
<1>8. Absorb(d, <<>>, 0, rest)
        = [d EXCEPT !.state = (c.state \o held) \o whole, !.buffer = CopyTo(full, 0, left)]
  BY <1>4, <1>5, <1>6
<1>9. Absorb(c, held, 0, rest) = Absorb(d, <<>>, 0, rest)
  BY <1>1, <1>7, <1>8 DEF IsContext
<1> QED
  BY <1>9 DEF held, full, d

(* Update is the counting and then the absorbing, for both digests: c is   *)
(* the context, d the one that has counted t, l the bytes in the buffer.   *)
AbsorbAll(k, c, d, l, t) ==
  IF k = "sha2" /\ t = <<>> THEN c
  ELSE IF (k = "sha2" => l > 0) /\ Len(t) >= BlockSize - l
  THEN Absorb(d, <<CopyTo(c.buffer, l, SubSeq(t, 1, BlockSize - l))>>, 0,
              SubSeq(t, BlockSize - l + 1, Len(t)))
  ELSE Absorb(d, <<>>, l, t)

(* MD5Update and sha2_update differ in their guards and in what they count.*)
LEMMA UpdateIs ==
  ASSUME DigestAssumption, NEW k \in {"sha2", "md5"}, NEW c, NEW s, NEW t,
         TakenIn(k, c, s), IsAnySeq(t)
  PROVE  Update(k, c, t) = AbsorbAll(k, c, Total(k, c, Len(t)), LeftOf(Len(s)), t)
<1> DEFINE l == LeftOf(Len(s))
           d == Total(k, c, Len(t))
<1>1. Filled(k, c) = l
  <2>1. Len(s) \in Nat
    BY DEF TakenIn, IsAnySeq
  <2> QED
    BY <2>1, FilledIs DEF TakenIn
<1>2. CASE k = "sha2"
  <2>1. c.t0 % BlockSize = l
    BY <1>1, <1>2 DEF Filled
  <2>2. d = Sha2Total(c, Len(t))
    BY <1>2 DEF Total
  <2>3. Update(k, c, t) = Sha2Update(c, t)
    BY <1>2 DEF Update
  <2> QED
    BY <1>2, <2>1, <2>2, <2>3 DEF Sha2Update, AbsorbAll
<1>3. CASE k = "md5"
  <2>1. (c.t0 \div Bits) % BlockSize = l
    BY <1>1, <1>3 DEF Filled
  <2>2. d = Md5Total(c, Len(t))
    BY <1>3 DEF Total
  <2>3. Update(k, c, t) = Md5Update(c, t)
    BY <1>3 DEF Update
  <2> QED
    BY <1>3, <2>1, <2>2, <2>3 DEF Md5Update, AbsorbAll
<1> QED
  BY <1>2, <1>3

(* However a message is cut into updates, a context has taken in all of it.*)
LEMMA UpdateKeeps ==
  ASSUME DigestAssumption, NEW k \in {"sha2", "md5"}, NEW c, NEW s, NEW t,
         TakenIn(k, c, s), IsAnySeq(t), k = "sha2" => Len(t) <= Word
  PROVE  LET d == Update(k, c, t)
         IN  TakenIn(k, d, s \o t) /\ d.ipad = c.ipad /\ d.opad = c.opad
<1> DEFINE l == LeftOf(Len(s))
           e == Total(k, c, Len(t))
           d == Update(k, c, t)
           r == s \o t
<1>1. IsContext(c) /\ IsAnySeq(s) /\ Counted(k, c, Len(s)) /\ HashedAndHeld(c, s)
  BY DEF TakenIn
<1>2. Len(s) \in Nat /\ Len(t) \in Nat /\ BlockSize \in Nat
  BY <1>1, WordIs DEF IsAnySeq
<1>3. l \in 0 .. BlockSize - 1
  BY <1>2, FullPart
<1>4. /\ IsContext(e) /\ Counted(k, e, Len(s) + Len(t))
      /\ e.state = c.state /\ e.buffer = c.buffer /\ e.ipad = c.ipad /\ e.opad = c.opad
  <2> DEFINE m == Len(t)
             n == Len(s)
  <2>1. /\ DigestAssumption /\ k \in {"sha2", "md5"} /\ IsContext(c) /\ m \in Nat /\ n \in Nat
        /\ Counted(k, c, n) /\ (k = "sha2" => m <= Word) /\ e = Total(k, c, m)
    BY <1>1, <1>2
  <2> HIDE DEF m, n, e
  <2>2. /\ IsContext(e) /\ Counted(k, e, n + m)
        /\ e.state = c.state /\ e.buffer = c.buffer /\ e.ipad = c.ipad /\ e.opad = c.opad
    BY ONLY SMTT(30), <2>1, TotalIs
  <2> QED
    BY <2>2 DEF m, n
<1>5. IsAnySeq(r) /\ Len(r) = Len(s) + Len(t)
  BY <1>1, ConcatIs
<1>6. HashedAndHeld(e, s)
  BY <1>1, <1>4 DEF HashedAndHeld
<1>7. d = IF k = "sha2" /\ t = <<>> THEN c
          ELSE IF (k = "sha2" => l > 0) /\ Len(t) >= BlockSize - l
          THEN Absorb(e, <<CopyTo(c.buffer, l, SubSeq(t, 1, BlockSize - l))>>, 0,
                      SubSeq(t, BlockSize - l + 1, Len(t)))
          ELSE Absorb(e, <<>>, l, t)
  <2>1. d = AbsorbAll(k, c, e, l, t)
    BY UpdateIs
  <2> HIDE DEF d, e, l
  <2> QED
    BY <2>1 DEF AbsorbAll
<1> HIDE DEF e, d
(* It is enough that what is behind the counting is absorbed.              *)
<1>8. ASSUME IsContext(d), HashedAndHeld(d, r), d.t0 = e.t0, d.t1 = e.t1, d.ipad = e.ipad, d.opad = e.opad
      PROVE  TakenIn(k, d, r) /\ d.ipad = c.ipad /\ d.opad = c.opad
  <2>1. Counted(k, d, Len(r))
    BY <1>4, <1>5, <1>8 DEF Counted
  <2> QED
    BY <1>4, <1>5, <1>8, <2>1 DEF TakenIn
<1>9. CASE k = "sha2" /\ t = <<>>
  <2>1. d = c /\ r = s
    BY <1>1, <1>7, <1>9, ConcatEmpty
  <2> HIDE DEF r
  <2>2. TakenIn(k, d, r) /\ d.ipad = c.ipad /\ d.opad = c.opad
    BY <2>1
  <2> QED
    BY <2>2 DEF d, r
<1>10. CASE ~ (k = "sha2" /\ t = <<>>) /\ (k = "sha2" => l > 0) /\ Len(t) >= BlockSize - l
  <2> DEFINE f == BlockSize - l
             first == SubSeq(t, 1, f)
             rest == SubSeq(t, f + 1, Len(t))
             g == FillUp(e, l, first)
             p == s \o first
  <2>1. f \in Nat /\ f <= Len(t)
    BY <1>2, <1>3, <1>10
  <2>2. IsAnySeq(first) /\ Len(first) = f /\ IsAnySeq(rest) /\ first \o rest = t
    <3>1. IsCut(t, f, first, rest) /\ IsAnySeq(t)
      BY <2>1 DEF IsCut
    <3> HIDE DEF f, first, rest
    <3> QED
      BY ONLY <3>1, CutInTwo
  <2>3. d = Absorb(e, <<CopyTo(e.buffer, l, first)>>, 0, rest)
    BY <1>4, <1>7, <1>10
  <2>4. IsAnySeq(e.state)
    BY <1>6 DEF HashedAndHeld, BlocksOf
  <2> HIDE DEF first, rest, l
  <2>5. d = Absorb(g, <<>>, 0, rest)
    BY <1>4, <2>3, <2>4, AbsorbFull
  <2>6. /\ IsContext(g) /\ HashedAndHeld(g, p) /\ LeftOf(Len(p)) = 0
        /\ g.t0 = e.t0 /\ g.t1 = e.t1 /\ g.ipad = e.ipad /\ g.opad = e.opad
    BY <1>1, <1>4, <1>6, <2>2, FillUpIs DEF l
  <2>7. IsAnySeq(p) /\ p \o rest = r
    <3>1. IsAnySeq(p)
      BY <1>1, <2>2, ConcatIs
    <3>2. IsAnySeq(s) /\ IsAnySeq(first) /\ IsAnySeq(rest)
      BY <1>1, <2>2
    <3>3. (s \o first) \o rest = s \o (first \o rest)
      BY ONLY SMTT(30), <3>2, ConcatTwice
    <3> QED
      BY <2>2, <3>1, <3>3
  <2> HIDE DEF g, p, r
  <2>8. /\ IsContext(d) /\ HashedAndHeld(d, p \o rest)
        /\ d.t0 = g.t0 /\ d.t1 = g.t1 /\ d.ipad = g.ipad /\ d.opad = g.opad
    <3> DEFINE z == 0
    <3>1. /\ z = LeftOf(Len(p)) /\ (z = 0 \/ z + Len(rest) < BlockSize) /\ d = Absorb(g, <<>>, z, rest) /\ DigestAssumption
          /\ IsContext(g) /\ HashedAndHeld(g, p) /\ IsAnySeq(p) /\ IsAnySeq(rest)
      BY <2>2, <2>5, <2>6, <2>7
    <3> HIDE DEF z
    <3> QED
      BY ONLY <3>1, AbsorbMore
  <2>9. TakenIn(k, d, r) /\ d.ipad = c.ipad /\ d.opad = c.opad
    BY <1>8, <2>6, <2>7, <2>8
  <2> QED
    BY <2>9 DEF d, r
<1>11. CASE ~ (k = "sha2" /\ t = <<>>) /\ ~ ((k = "sha2" => l > 0) /\ Len(t) >= BlockSize - l)
  <2>1. d = Absorb(e, <<>>, l, t)
    BY <1>7, <1>11
  <2>2. l = 0 \/ l + Len(t) < BlockSize
    BY <1>2, <1>3, <1>11
  <2> DEFINE q == l
  <2>3. q = LeftOf(Len(s)) /\ (q = 0 \/ q + Len(t) < BlockSize) /\ d = Absorb(e, <<>>, q, t)
    BY <2>1, <2>2
  <2> HIDE DEF q, l, r
  <2>4. /\ IsContext(d) /\ HashedAndHeld(d, s \o t)
        /\ d.t0 = e.t0 /\ d.t1 = e.t1 /\ d.ipad = e.ipad /\ d.opad = e.opad
    BY <1>1, <1>4, <1>6, <2>3, AbsorbMore
  <2>5. TakenIn(k, d, r) /\ d.ipad = c.ipad /\ d.opad = c.opad
    BY <1>8, <2>4 DEF r
  <2> QED
    BY <2>5 DEF d, r
<1> QED
  BY <1>9, <1>10, <1>11

-----------------------------------------------------------------------------
(* The start and the end of a digest.                                      *)

(* The empty sequence.                                                     *)
LEMMA NothingIsSeq == IsAnySeq(<<>>) /\ Len(<<>>) = 0
<1>1. <<>> \in Seq({}) /\ Len(<<>>) = 0
  OBVIOUS
<1> QED
  BY <1>1, IsSeqOf

(* A context that starts has taken in nothing, whatever it was used for.   *)
LEMMA StartsTakesNothing ==
  ASSUME DigestAssumption, NEW k \in {"sha2", "md5"}, NEW c, IsContext(c)
  PROVE  LET d == Starts(c)
         IN  TakenIn(k, d, <<>>) /\ d.ipad = c.ipad /\ d.opad = c.opad
<1> DEFINE d == Starts(c)
           nothing == <<>>
<1>1. Word \in Nat \ {0} /\ Bits \in Nat \ {0} /\ BlockSize \in Nat \ {0}
  BY WordIs
<1>2. /\ d.t0 = 0 /\ d.t1 = 0 /\ d.state = <<>> /\ d.buffer = c.buffer
      /\ d.ipad = c.ipad /\ d.opad = c.opad
      /\ d = [t0 |-> d.t0, t1 |-> d.t1, state |-> d.state, buffer |-> d.buffer,
              ipad |-> d.ipad, opad |-> d.opad]
  <2>1. d = [c EXCEPT !.t0 = 0, !.t1 = 0, !.state = nothing]
    BY DEF Starts
  <2> HIDE DEF nothing, d
  <2>2. /\ d.t0 = 0 /\ d.t1 = 0 /\ d.state = nothing /\ d.buffer = c.buffer
        /\ d.ipad = c.ipad /\ d.opad = c.opad
        /\ d = [t0 |-> d.t0, t1 |-> d.t1, state |-> d.state, buffer |-> d.buffer,
                ipad |-> d.ipad, opad |-> d.opad]
    BY <2>1 DEF IsContext
  <2> QED
    BY <2>2 DEF nothing
<1> HIDE DEF d
<1>3. IsContext(d)
  <2>1. 0 \in 0 .. Word - 1
    BY <1>1
  <2> QED
    BY <1>2, <2>1 DEF IsContext
<1>4. IsAnySeq(nothing) /\ Len(nothing) = 0
  BY NothingIsSeq
<1>5. Counted(k, d, 0)
  <2>1. 0 \in Nat /\ (0 * Word + 0) * Word + 0 = 0 /\ 0 * Bits = 0
    BY <1>1
  <2> QED
    BY <1>2, <2>1 DEF Counted, UnitsOf
<1>6. Full(0) = 0 /\ LeftOf(0) = 0
  <2> DEFINE q == 0
             r == 0
             n == 0
  <2>1. q \in Nat /\ r \in 0 .. BlockSize - 1 /\ n = q * BlockSize + r
    BY <1>1
  <2> HIDE DEF q, r, n
  <2>2. Full(n) = q /\ LeftOf(n) = r
    BY <2>1, FullPartIs
  <2> QED
    BY <2>2 DEF q, r, n
<1>7. BlocksOf(nothing, nothing, 0)
  <2>1. \A i \in 1 .. 0 : FALSE
    OBVIOUS
  <2> QED
    BY <1>4, <2>1 DEF BlocksOf
<1>8. HashedAndHeld(d, nothing)
  <2>1. \A i \in 1 .. 0 : FALSE
    OBVIOUS
  <2> QED
    BY <1>2, <1>4, <1>6, <1>7, <2>1 DEF HashedAndHeld
<1>9. TakenIn(k, d, nothing)
  BY <1>3, <1>4, <1>5, <1>8 DEF TakenIn
<1> QED
  BY <1>2, <1>9 DEF d

(* The two words of a number that may need more.                           *)
AreWordsOf(n, w, h, l) == \E x \in Nat : n = (x * w + h) * w + l

(* The two words are the high and the low one, modulo two words.           *)
LEMMA TwoWords ==
  ASSUME NEW w \in Nat \ {0}, NEW h \in 0 .. w - 1, NEW l \in 0 .. w - 1,
         NEW n, AreWordsOf(n, w, h, l)
  PROVE  (n % (w * w)) \div w = h /\ (n % (w * w)) % w = l
<1> PICK x \in Nat : n = (x * w + h) * w + l
  BY DEF AreWordsOf
<1> DEFINE b == w * w
           m == h * w + l
<1>1. b \in Nat \ {0}
  OBVIOUS
<1>2. h * w \in Nat /\ x * w \in Nat
  BY TimesNat
<1>3. m \in 0 .. b - 1
  <2>1. (h + 1) * w <= w * w
    BY TimesAtLeast
  <2>2. (h + 1) * w = h * w + 1 * w
    BY Distributes
  <2> DEFINE y == h * w
  <2>3. y \in Nat /\ y + w <= b /\ m = y + l
    BY <1>2, <2>1, <2>2
  <2> HIDE DEF y, b, m
  <2> QED
    BY <1>1, <2>3
<1>4. n = x * b + m
  <2>1. (x * w + h) * w = (x * w) * w + h * w
    BY <1>2, Distributes
  <2>2. (x * w) * w = x * b
    OBVIOUS
  <2> DEFINE y == (x * w) * w
             z == h * w
  <2>3. y \in Nat /\ z \in Nat
    BY <1>2, TimesNat
  <2>4. n = (y + z) + l /\ m = z + l /\ x * b = y
    BY <2>1, <2>2
  <2> HIDE DEF y, z, m, b
  <2> QED
    BY <2>3, <2>4
<1> HIDE DEF b
<1>5. n % b = m
  <2> HIDE DEF m
  <2> QED
    BY <1>1, <1>3, <1>4, DivMod
<1>6. m \div w = h /\ m % w = l
  <2>1. w \in Nat \ {0} /\ h \in Nat /\ l \in 0 .. w - 1 /\ m = h * w + l
    OBVIOUS
  <2> HIDE DEF m
  <2> QED
    BY ONLY <2>1, DivMod
<1> QED
  BY <1>5, <1>6 DEF b

(* The length that closes a digest is that of the message in bits.         *)
LEMMA LengthIs ==
  ASSUME DigestAssumption, NEW k \in {"sha2", "md5"}, NEW c, NEW s, IsContext(c), IsAnySeq(s),
         Counted(k, c, Len(s))
  PROVE  LengthOf(k, c) = RefLength(k, s)
<1> DEFINE n == Len(s)
           t0 == c.t0
           t1 == c.t1
<1>1. Word \in Nat \ {0} /\ Bits \in Nat \ {0} /\ n \in Nat
  BY WordIs DEF IsAnySeq
<1>2. PICK u \in Nat : UnitsOf(k, n) = (u * Word + t1) * Word + t0
  BY DEF Counted
<1>3. t0 \in 0 .. Word - 1 /\ t1 \in 0 .. Word - 1
  BY DEF IsContext
<1>4. CASE k = "md5"
  <2>1. n * Bits = (u * Word + t1) * Word + t0
    BY <1>2, <1>4 DEF UnitsOf
  <2> HIDE DEF n, t0, t1
  <2> DEFINE b == n * Bits
  <2>2. b = (u * Word + t1) * Word + t0
    BY <2>1
  <2> HIDE DEF b
  <2>3. (b % (Word * Word)) \div Word = t1 /\ (b % (Word * Word)) % Word = t0
    <3>1. AreWordsOf(b, Word, t1, t0)
      BY <2>2 DEF AreWordsOf
    <3> QED
      BY <1>1, <1>3, <3>1, TwoWords
  <2> QED
    BY <1>4, <2>3 DEF RefLength, BitLength, LengthOf, b, n, t0, t1
<1>5. CASE k = "sha2"
  <2>1. n = (u * Word + t1) * Word + t0
    BY <1>2, <1>5 DEF UnitsOf
  <2> HIDE DEF n, t0, t1
  <2> DEFINE x == t0 * Bits
             p == x \div Word
             low == x % Word
             y == p + t1 * Bits
             g == y \div Word
             high == y % Word
  <2>2. x \in Nat /\ t1 * Bits \in Nat
    BY <1>1, <1>3, TimesNat
  <2> HIDE DEF x
  <2>3. p \in Nat /\ low \in 0 .. Word - 1 /\ x = Word * p + low
    BY <1>1, <2>2
  <2>4. y \in Nat
    BY <2>2, <2>3
  <2> HIDE DEF p, low, y
  <2>5. g \in Nat /\ high \in 0 .. Word - 1 /\ y = Word * g + high
    BY <1>1, <2>4
  <2> HIDE DEF g, high
  <2> DEFINE v == u * Bits
             b == n * Bits
  <2>6. v \in Nat
    BY <1>1, TimesNat
  <2>7. b = ((v + g) * Word + high) * Word + low
    <3>1. b = (u * Word + t1) * Word * Bits + x
      <4>1. (u * Word + t1) * Word \in Nat
        <5>1. u * Word + t1 \in Nat
          BY <1>1, <1>3, TimesNat
        <5> QED
          BY <1>1, <5>1, TimesNat
      <4>2. n * Bits = ((u * Word + t1) * Word) * Bits + t0 * Bits
        BY <1>1, <1>3, <2>1, <4>1, Distributes
      <4> QED
        BY <4>2 DEF x
    <3>2. (u * Word + t1) * Word * Bits = (v * Word + t1 * Bits) * Word
      <4>1. (u * Word + t1) * Bits = (u * Word) * Bits + t1 * Bits
        BY <1>1, <1>3, Distributes, TimesNat
      <4>2. (u * Word) * Bits = v * Word
        BY <1>1
      <4> DEFINE z == u * Word + t1
      <4>3. z \in Nat
        BY <1>1, <1>3, TimesNat
      <4> HIDE DEF z
      <4>4. z * Word * Bits = (z * Bits) * Word
        BY <1>1, <4>3
      <4>5. z * Bits = v * Word + t1 * Bits
        BY <4>1, <4>2 DEF z
      <4> QED
        BY <4>4, <4>5 DEF z
    <3>3. (v * Word + t1 * Bits) * Word + x = (v * Word + y) * Word + low
      <4> DEFINE q == v * Word
                 w == t1 * Bits
      <4>1. q \in Nat /\ w \in Nat /\ y = p + w
        BY <1>1, <2>2, <2>6, TimesNat DEF y
      <4> HIDE DEF q, w
      <4>2. (q + y) * Word = (q + w) * Word + p * Word
        <5> DEFINE z == q + w
        <5>1. z \in Nat /\ q + y = z + p
          BY <2>3, <4>1
        <5> HIDE DEF z
        <5>2. (z + p) * Word = z * Word + p * Word
          BY <1>1, <2>3, <5>1, Distributes
        <5> QED
          BY <5>1, <5>2 DEF z
      <4>3. p * Word = Word * p
        BY <1>1, <2>3, TimesNat
      <4> DEFINE e == (q + w) * Word
                 f == p * Word
      <4>4. e \in Nat /\ f \in Nat
        BY <1>1, <2>3, <4>1, TimesNat
      <4>5. (q + y) * Word = e + f /\ x = f + low
        BY <2>3, <4>2, <4>3
      <4> HIDE DEF e, f
      <4>6. e + x = (e + f) + low
        BY <2>3, <4>4, <4>5
      <4>7. (q + w) * Word + x = (q + y) * Word + low
        BY <4>5, <4>6 DEF e
      <4> QED
        BY <4>7 DEF q, w
    <3>4. v * Word + y = (v + g) * Word + high
      <4>1. (v + g) * Word = v * Word + g * Word /\ g * Word = Word * g
        BY <1>1, <2>5, <2>6, Distributes, TimesNat
      <4> DEFINE e == v * Word
                 f == g * Word
      <4>2. e \in Nat /\ f \in Nat
        BY <1>1, <2>5, <2>6, TimesNat
      <4>3. (v + g) * Word = e + f /\ y = f + high
        BY <2>5, <4>1
      <4> HIDE DEF e, f
      <4>4. e + y = (e + f) + high
        BY <2>5, <4>2, <4>3
      <4> QED
        BY <4>3, <4>4 DEF e
    <3> HIDE DEF b, v
    <3> QED
      BY <3>1, <3>2, <3>3, <3>4
  <2> HIDE DEF v, b
  <2> DEFINE z == v + g
  <2>8. z \in Nat /\ b = (z * Word + high) * Word + low
    BY <2>5, <2>6, <2>7
  <2> HIDE DEF z
  <2>9. (b % (Word * Word)) \div Word = high /\ (b % (Word * Word)) % Word = low
    <3>1. AreWordsOf(b, Word, high, low)
      BY <2>8 DEF AreWordsOf
    <3> QED
      BY <1>1, <2>3, <2>5, <3>1, TwoWords
  <2> QED
    BY <1>5, <2>9 DEF RefLength, BitLength, LengthOf, b, n, t0, t1, high, low, y, p, x
<1> QED
  BY <1>4, <1>5

-----------------------------------------------------------------------------
(* The padding: one byte, and as few zeros as make whole blocks.           *)

(* Padding and length make one or two whole blocks.                        *)
LEMMA PadLenIs ==
  ASSUME DigestAssumption, NEW held \in 0 .. BlockSize - 1
  PROVE  /\ PadLen(held) \in 1 .. BlockSize
         /\ \E q \in 1 .. 2 : held + PadLen(held) + LengthBytes = q * BlockSize
<1> DEFINE p == PadLen(held)
<1>1. BlockSize \in Nat \ {0} /\ LengthBytes \in Nat /\ LengthBytes < BlockSize
  BY DEF DigestAssumption
<1>2. CASE held < BlockSize - LengthBytes
  <2>1. p = BlockSize - LengthBytes - held
    BY <1>2 DEF PadLen
  <2> HIDE DEF p
  <2>2. p \in 1 .. BlockSize /\ held + p + LengthBytes = 1 * BlockSize
    BY <1>1, <1>2, <2>1
  <2> QED
    BY <2>2 DEF p
<1>3. CASE ~ (held < BlockSize - LengthBytes)
  <2>1. p = 2 * BlockSize - LengthBytes - held
    BY <1>3 DEF PadLen
  <2> HIDE DEF p
  <2>2. p \in 1 .. BlockSize /\ held + p + LengthBytes = 2 * BlockSize
    BY <1>1, <1>3, <2>1
  <2> QED
    BY <2>2 DEF p
<1> QED
  BY <1>2, <1>3

(* No two numbers of zeros make whole blocks.                              *)
LEMMA ZerosOnce ==
  ASSUME DigestAssumption, NEW m \in Nat, NEW x \in 0 .. BlockSize - 1, NEW y \in 0 .. BlockSize - 1,
         LeftOf(m + x) = 0, LeftOf(m + y) = 0
  PROVE  x = y
<1>1. BlockSize \in Nat \ {0}
  BY WordIs
<1>2. ASSUME NEW u \in 0 .. BlockSize - 1, NEW v \in 0 .. BlockSize - 1,
             LeftOf(m + u) = 0, LeftOf(m + v) = 0, u <= v
      PROVE  u = v
  <2> DEFINE p == Full(m + v)
             q == Full(m + u)
             d == v - u
             z == 0
  <2>1. p \in Nat /\ m + v = p * BlockSize + 0
    <3> DEFINE w == m + v
    <3>1. w \in Nat /\ LeftOf(w) = 0
      BY <1>1, <1>2
    <3> HIDE DEF w
    <3>2. Full(w) \in Nat /\ w = Full(w) * BlockSize + 0
      BY <3>1, FullPart
    <3> QED
      BY <3>2 DEF w
  <2>2. q \in Nat /\ m + u = q * BlockSize + 0
    <3> DEFINE w == m + u
    <3>1. w \in Nat /\ LeftOf(w) = 0
      BY <1>1, <1>2
    <3> HIDE DEF w
    <3>2. Full(w) \in Nat /\ w = Full(w) * BlockSize + 0
      BY <3>1, FullPart
    <3> QED
      BY <3>2 DEF w
  <2>3. d \in 0 .. BlockSize - 1 /\ v = u + d /\ z \in 0 .. BlockSize - 1 /\ z = 0
    BY <1>1, <1>2
  <2> HIDE DEF p, q, d, z
  <2>4. p * BlockSize \in Nat /\ q * BlockSize \in Nat
    BY <1>1, <2>1, <2>2, TimesNat
  <2>5. p * BlockSize + z = q * BlockSize + d
    BY <1>1, <2>1, <2>2, <2>3, <2>4
  <2>6. z = d
    <3>1. /\ BlockSize \in Nat \ {0} /\ p \in Nat /\ q \in Nat /\ z \in 0 .. BlockSize - 1
          /\ d \in 0 .. BlockSize - 1 /\ p * BlockSize + z = q * BlockSize + d
      BY <1>1, <2>1, <2>2, <2>3, <2>5
    <3> QED
      BY ONLY <3>1, QuotientOnce
  <2> QED
    BY <1>1, <2>3, <2>6
<1> QED
  BY <1>1, <1>2

ZerosOf(s) ==
  CHOOSE n \in 0 .. BlockSize - 1 : (Len(s) + 1 + n + LengthBytes) % BlockSize = 0

(* PadLen takes as few zeros as make whole blocks.                         *)
LEMMA ZerosAre ==
  ASSUME DigestAssumption, NEW s, IsAnySeq(s)
  PROVE  ZerosOf(s) = PadLen(LeftOf(Len(s))) - 1
<1> DEFINE held == LeftOf(Len(s))
           p == PadLen(held)
           z == p - 1
           m == Len(s) + 1 + LengthBytes
           Fits(n) == (Len(s) + 1 + n + LengthBytes) % BlockSize = 0
<1>1. BlockSize \in Nat \ {0} /\ LengthBytes \in Nat /\ Len(s) \in Nat
  BY WordIs DEF IsAnySeq, DigestAssumption
<1>2. held \in 0 .. BlockSize - 1 /\ Full(Len(s)) \in Nat /\ Len(s) = Full(Len(s)) * BlockSize + held
  BY <1>1, FullPart
<1>3. p \in 1 .. BlockSize /\ \E q \in 1 .. 2 : held + p + LengthBytes = q * BlockSize
  BY <1>2, PadLenIs
<1>4. z \in 0 .. BlockSize - 1 /\ m \in Nat
  BY <1>1, <1>3
<1>5. ASSUME NEW n \in 0 .. BlockSize - 1
      PROVE  Fits(n) <=> LeftOf(m + n) = 0
  <2>1. Len(s) + 1 + n + LengthBytes = m + n
    BY <1>1
  <2> QED
    BY <2>1 DEF LeftOf
<1>6. LeftOf(m + z) = 0
  <2>1. PICK q \in 1 .. 2 : held + p + LengthBytes = q * BlockSize
    BY <1>3
  <2> DEFINE a == Full(Len(s))
             b == a + q
             zero == 0
             y == m + z
             x == a * BlockSize
  <2>2. (a + q) * BlockSize = a * BlockSize + q * BlockSize /\ x \in Nat
    BY <1>1, <1>2, Distributes, TimesNat
  <2>3. y = (a + q) * BlockSize
    <3>1. y = Len(s) + (p + LengthBytes)
      BY <1>1, <1>3
    <3>2. Len(s) = x + held
      BY <1>2
    <3> HIDE DEF x, y, p, held
    <3>3. x \in Nat /\ held \in Nat /\ p \in Nat /\ LengthBytes \in Nat
      BY <1>1, <1>2, <1>3, <2>2 DEF x
    <3>4. y = x + (held + p + LengthBytes)
      BY ONLY <3>1, <3>2, <3>3
    <3> QED
      BY <2>1, <2>2, <3>4 DEF x
  <2>4. b \in Nat /\ zero \in 0 .. BlockSize - 1 /\ y = b * BlockSize + zero
    <3>1. b * BlockSize \in Nat /\ b \in Nat
      BY <1>1, <1>2, TimesNat
    <3> QED
      BY <1>1, <2>3, <3>1
  <2> HIDE DEF b, zero, y
  <2>5. LeftOf(y) = zero
    BY <2>4, FullPartIs
  <2> QED
    BY <2>5 DEF y, zero
<1> HIDE DEF z, m, p, held
<1>7. Fits(z)
  BY <1>4, <1>5, <1>6
<1>8. \A n \in 0 .. BlockSize - 1 : Fits(n) => n = z
  BY <1>4, <1>5, <1>6, ZerosOnce
<1>9. ZerosOf(s) = CHOOSE n \in 0 .. BlockSize - 1 : Fits(n)
  BY DEF ZerosOf
<1> HIDE DEF Fits
<1>10. (CHOOSE n \in 0 .. BlockSize - 1 : Fits(n)) = z
  BY <1>4, <1>7, <1>8
<1> QED
  BY <1>9, <1>10 DEF z, p, held

Padding(n) == <<Pad80>> \o Zeros(n)

(* The padding, byte by byte.                                              *)
LEMMA PaddingIs ==
  ASSUME DigestAssumption, NEW n \in Nat
  PROVE  /\ IsAnySeq(Zeros(n)) /\ Len(Zeros(n)) = n
         /\ IsAnySeq(Padding(n)) /\ Len(Padding(n)) = n + 1 /\ Padding(n)[1] = Pad80
         /\ \A i \in 2 .. n + 1 : Padding(n)[i] = Zero
<1> DEFINE one == <<Pad80>>
           z == Zeros(n)
<1>1. IsAnySeq(one) /\ Len(one) = 1 /\ one[1] = Pad80
  BY OneIsSeq
<1>2. z = [i \in 1 .. n |-> z[i]] /\ \A i \in 1 .. n : z[i] = Zero
  BY DEF Zeros
<1>3. Padding(n) = one \o z
  BY DEF Padding
<1> HIDE DEF one, z
<1>4. IsAnySeq(z) /\ Len(z) = n
  BY <1>2, FunctionIsSeq
<1> DEFINE p == one \o z
<1>5. /\ IsAnySeq(p) /\ Len(p) = 1 + n
      /\ \A i \in 1 .. 1 : p[i] = one[i]
      /\ \A i \in 1 .. n : p[1 + i] = z[i]
  <2>1. /\ IsAnySeq(p) /\ Len(p) = Len(one) + Len(z)
        /\ \A i \in 1 .. Len(one) : p[i] = one[i]
        /\ \A i \in 1 .. Len(z) : p[Len(one) + i] = z[i]
    <3>1. IsAnySeq(one) /\ IsAnySeq(z)
      BY <1>1, <1>4
    <3> QED
      BY ONLY <3>1, ConcatIs
  <2> HIDE DEF p
  <2> QED
    BY <1>1, <1>4, <2>1
<1> HIDE DEF p
<1>6. p[1] = Pad80
  BY <1>1, <1>5
<1>7. ASSUME NEW i \in 2 .. n + 1
      PROVE  p[i] = Zero
  <2> DEFINE j == i - 1
  <2>1. j \in 1 .. n /\ i = 1 + j
    OBVIOUS
  <2> HIDE DEF j
  <2> QED
    BY <1>2, <1>5, <2>1
<1> QED
  BY <1>3, <1>4, <1>5, <1>6, <1>7 DEF p, z

(* The padding that is cut off a long one.                                 *)
LEMMA PaddingCut ==
  ASSUME DigestAssumption, NEW n \in 1 .. BlockSize
  PROVE  SubSeq(<<Pad80>> \o Zeros(2 * BlockSize), 1, n) = Padding(n - 1)
<1> DEFINE long == Padding(2 * BlockSize)
           short == Padding(n - 1)
           cut == SubSeq(long, 1, n)
           big == 2 * BlockSize
           z == n - 1
<1>1. BlockSize \in Nat \ {0} /\ big \in Nat /\ n <= big /\ n \in Nat /\ z \in Nat /\ n = z + 1
  BY WordIs
<1>2. cut = SubSeq(<<Pad80>> \o Zeros(2 * BlockSize), 1, n)
  BY DEF Padding
<1>3. IsAnySeq(long) /\ Len(long) = big + 1 /\ long[1] = Pad80 /\ \A i \in 2 .. big + 1 : long[i] = Zero
  <2> HIDE DEF big
  <2>1. long = Padding(big)
    BY DEF big
  <2> QED
    BY <1>1, <2>1, PaddingIs
<1>4. IsAnySeq(short) /\ Len(short) = n /\ short[1] = Pad80 /\ \A i \in 2 .. n : short[i] = Zero
  <2> HIDE DEF z
  <2>1. short = Padding(z)
    BY DEF z
  <2> QED
    BY <1>1, <2>1, PaddingIs
<1> HIDE DEF long, short, big, z
<1>5. IsAnySeq(cut) /\ Len(cut) = n /\ \A i \in 1 .. n : cut[i] = long[i]
  <2>1. IsPart(cut, long, 0, n)
    BY <1>1, <1>3 DEF IsPart
  <2>2. 0 \in Nat
    OBVIOUS
  <2> HIDE DEF cut
  <2>3. IsAnySeq(cut) /\ Len(cut) = n /\ \A i \in 1 .. n : cut[i] = long[0 + i]
    BY <1>1, <1>3, <2>1, <2>2, SubSeqIs
  <2> QED
    BY <1>1, <2>3
<1> HIDE DEF cut
<1>6. ASSUME NEW i \in 1 .. n
      PROVE  cut[i] = short[i]
  <2>1. CASE i = 1
    BY <1>1, <1>3, <1>4, <1>5, <2>1
  <2>2. CASE i # 1
    <3>1. i \in 2 .. n /\ i \in 2 .. big + 1
      BY <1>1, <2>2
    <3> QED
      BY <1>3, <1>4, <1>5, <3>1
  <2> QED
    BY <2>1, <2>2
<1>7. cut = short
  BY <1>4, <1>5, <1>6, SeqsEqual
<1> QED
  BY <1>2, <1>7 DEF short

(* The length is LengthBytes bytes, less than a word.                      *)
LEMMA LengthFits ==
  ASSUME DigestAssumption, NEW k \in {"sha2", "md5"}, NEW c
  PROVE  IsAnySeq(LengthOf(k, c)) /\ Len(LengthOf(k, c)) <= Word
<1> DEFINE h == LengthBytes \div 2
<1>1. h \in Nat /\ h + h <= Word
  BY DEF DigestAssumption
<1>2. \A w : IsAnySeq(WordBytes(w)) /\ Len(WordBytes(w)) = h
  <2>1. ASSUME NEW w
        PROVE  IsAnySeq(WordBytes(w)) /\ Len(WordBytes(w)) = h
    <3> DEFINE b == WordBytes(w)
    <3>1. b = [i \in 1 .. h |-> b[i]]
      BY DEF WordBytes
    <3> HIDE DEF b, h
    <3>2. IsAnySeq(b) /\ Len(b) = h
      BY <1>1, <3>1, FunctionIsSeq
    <3> QED
      BY <3>2 DEF b
  <2> QED
    BY <2>1
<1> HIDE DEF h
<1>3. \A v, w : IsAnySeq(WordBytes(v) \o WordBytes(w)) /\ Len(WordBytes(v) \o WordBytes(w)) = h + h
  <2>1. ASSUME NEW v, NEW w
        PROVE  IsAnySeq(WordBytes(v) \o WordBytes(w)) /\ Len(WordBytes(v) \o WordBytes(w)) = h + h
    <3> DEFINE x == WordBytes(v)
               y == WordBytes(w)
    <3>1. IsAnySeq(x) /\ IsAnySeq(y) /\ Len(x) = h /\ Len(y) = h
      BY <1>2
    <3> HIDE DEF x, y
    <3>2. IsAnySeq(x \o y) /\ Len(x \o y) = Len(x) + Len(y)
      BY ONLY <3>1, ConcatIs
    <3>3. IsAnySeq(x \o y) /\ Len(x \o y) = h + h
      BY <3>1, <3>2
    <3> QED
      BY <3>3 DEF x, y
  <2> QED
    BY <2>1
<1>4. \E v, w : LengthOf(k, c) = WordBytes(v) \o WordBytes(w)
  <2>1. CASE k = "sha2"
    <3> DEFINE v == ((c.t0 * Bits) \div Word + c.t1 * Bits) % Word
               w == (c.t0 * Bits) % Word
    <3>1. LengthOf(k, c) = WordBytes(v) \o WordBytes(w)
      BY <2>1 DEF LengthOf
    <3> HIDE DEF v, w
    <3> QED
      BY <3>1
  <2>2. CASE k # "sha2"
    BY <2>2 DEF LengthOf
  <2> QED
    BY <2>1, <2>2
<1> QED
  BY <1>1, <1>3, <1>4

(* A context that has taken in a message is finished with the blocks of    *)
(* the padded message.                                                     *)
LEMMA FinishedIs ==
  ASSUME DigestAssumption, NEW k \in {"sha2", "md5"}, NEW c, NEW s, TakenIn(k, c, s)
  PROVE  LET d == Finished(k, c)
         IN  /\ IsContext(d) /\ d.ipad = c.ipad /\ d.opad = c.opad
             /\ d.state = Chunks(RefPadded(k, s))
<1> DEFINE held == LeftOf(Len(s))
           n == PadLen(held)
           z == n - 1
           pad == Padding(z)
           e == Update(k, c, pad)
           p == s \o pad
           len == LengthOf(k, c)
           d == Finished(k, c)
           r == p \o len
<1>1. /\ IsContext(c) /\ IsAnySeq(s) /\ Counted(k, c, Len(s)) /\ Len(s) \in Nat
      /\ BlockSize \in Nat \ {0} /\ BlockSize < Word
  BY WordIs DEF TakenIn, IsAnySeq, DigestAssumption
<1>2. held \in 0 .. BlockSize - 1
  BY <1>1, FullPart
<1>3. n \in 1 .. BlockSize
  BY <1>2, PadLenIs
<1>4. z \in Nat /\ n = z + 1
  BY <1>1, <1>3
<1>5. SubSeq(<<Pad80>> \o Zeros(2 * BlockSize), 1, n) = pad
  <2> HIDE DEF n
  <2> QED
    BY <1>3, PaddingCut
<1>6. Filled(k, c) = held
  BY <1>1, FilledIs
<1>7. d = Update(k, e, len)
  <2> HIDE DEF held, pad, e, len
  <2>1. d = Update(k, Update(k, c, SubSeq(<<Pad80>> \o Zeros(2 * BlockSize), 1, n)), len)
    BY <1>6 DEF Finished, len
  <2> QED
    BY <1>5, <2>1 DEF e
<1> HIDE DEF held, n
<1>8. IsAnySeq(pad) /\ Len(pad) <= Word /\ IsAnySeq(Zeros(z)) /\ pad = <<Pad80>> \o Zeros(z)
  <2>1. IsAnySeq(pad) /\ Len(pad) = z + 1 /\ IsAnySeq(Zeros(z))
    <3> HIDE DEF z
    <3> QED
      BY <1>4, PaddingIs
  <2>2. pad = <<Pad80>> \o Zeros(z)
    BY DEF Padding
  <2> HIDE DEF pad, z
  <2> QED
    BY <1>1, <1>3, <1>4, <2>1, <2>2
<1>9. IsAnySeq(len) /\ Len(len) <= Word /\ len = RefLength(k, s)
  BY <1>1, LengthFits, LengthIs
<1> HIDE DEF pad, len
<1>10. TakenIn(k, e, p) /\ e.ipad = c.ipad /\ e.opad = c.opad
  <2>1. /\ DigestAssumption /\ k \in {"sha2", "md5"} /\ TakenIn(k, c, s) /\ IsAnySeq(pad)
        /\ (k = "sha2" => Len(pad) <= Word) /\ e = Update(k, c, pad) /\ p = s \o pad
    BY <1>8
  <2> HIDE DEF e, p
  <2> QED
    BY ONLY <2>1, UpdateKeeps
<1> HIDE DEF e, p, d
<1>11. TakenIn(k, d, r) /\ d.ipad = e.ipad /\ d.opad = e.opad
  BY <1>7, <1>9, <1>10, UpdateKeeps
<1>12. r = RefPadded(k, s)
  <2> DEFINE one == <<Pad80>>
             zs == Zeros(z)
  <2>1. IsAnySeq(one) /\ IsAnySeq(zs) /\ IsAnySeq(s)
    BY <1>1, <1>8, OneIsSeq
  <2>2. ZerosOf(s) = z
    BY <1>1, ZerosAre DEF held, n
  <2>3. RefPadded(k, s) = s \o <<Pad80>> \o Zeros(ZerosOf(s)) \o RefLength(k, s)
    BY DEF RefPadded, ZerosOf
  <2>4. RefPadded(k, s) = s \o one \o zs \o len
    BY <1>9, <2>2, <2>3
  <2>5. pad = one \o zs
    BY <1>8
  <2> HIDE DEF one, zs, z
  <2>6. (s \o one) \o zs = s \o (one \o zs)
    BY ONLY <2>1, ConcatTwice
  <2> QED
    BY <2>4, <2>5, <2>6 DEF p
<1> HIDE DEF r
<1>13. d.state = Chunks(r)
  <2> DEFINE a == Full(Len(r))
  <2>1. IsAnySeq(r) /\ BlocksOf(d.state, r, a)
    BY <1>11 DEF TakenIn, HashedAndHeld
  <2>2. BlocksOf(Chunks(r), r, a)
    BY <2>1, ChunksAre
  <2>3. a \in Nat
    BY <2>1, FullPart DEF IsAnySeq
  <2> DEFINE x == d.state
             y == Chunks(r)
  <2> HIDE DEF a, x, y
  <2>4. x = y
    BY <2>1, <2>2, <2>3, BlocksOnce DEF x, y
  <2> QED
    BY <2>4 DEF x, y
<1>14. IsContext(d)
  BY <1>11 DEF TakenIn
<1> QED
  BY <1>10, <1>11, <1>12, <1>13, <1>14 DEF d

(* Nothing in front of a sequence.                                         *)
LEMMA EmptyConcat ==
  ASSUME NEW s, IsAnySeq(s)
  PROVE  <<>> \o s = s
<1>1. s \in Seq(Elements(s))
  BY SeqOfElements DEF Elements
<1> QED
  BY <1>1

(* A digest is a sequence shorter than a word, and not empty.              *)
LEMMA OutputIs ==
  ASSUME DigestAssumption, NEW k \in {"sha2", "md5"}, NEW st
  PROVE  IsAnySeq(Output(k, st)) /\ Len(Output(k, st)) <= Word /\ Output(k, st) # <<>>
<1> DEFINE o == Output(k, st)
           n == HashLen(k)
<1>1. n \in Nat /\ n <= Word /\ n >= 1
  <2>1. BlockSize \in Nat /\ BlockSize >= 4 /\ Word \in Nat /\ Word > BlockSize
    BY DEF DigestAssumption
  <2>2. BlockSize \div 2 \in 1 .. BlockSize /\ BlockSize \div 4 \in 1 .. BlockSize
    BY <2>1
  <2> QED
    BY <2>1, <2>2 DEF HashLen
<1>2. o = [i \in 1 .. n |-> o[i]]
  BY DEF Output
<1> HIDE DEF o, n
<1>3. IsAnySeq(o) /\ Len(o) = n
  BY <1>1, <1>2, FunctionIsSeq
<1>4. o # <<>>
  BY <1>1, <1>3, NothingIsSeq
<1> QED
  BY <1>1, <1>3, <1>4 DEF o

(* A pad is a block.                                                       *)
LEMMA KeyPadIs ==
  ASSUME DigestAssumption, NEW pad, NEW s
  PROVE  IsAnySeq(KeyPad(pad, s)) /\ Len(KeyPad(pad, s)) = BlockSize /\ BlockSize <= Word
<1> DEFINE p == KeyPad(pad, s)
<1>1. p = [i \in 1 .. BlockSize |-> p[i]]
  BY DEF KeyPad
<1>2. BlockSize \in Nat /\ BlockSize <= Word
  BY DEF DigestAssumption
<1> HIDE DEF p
<1>3. IsAnySeq(p) /\ Len(p) = BlockSize
  BY <1>1, <1>2, FunctionIsSeq
<1> QED
  BY <1>2, <1>3 DEF p

(* A digest in one call.                                                   *)
LEMMA HashIs ==
  ASSUME DigestAssumption, NEW k \in {"sha2", "md5"}, NEW c, NEW s, IsContext(c), IsAnySeq(s),
         k = "sha2" => Len(s) <= Word
  PROVE  Hash(k, c, s) = RefHash(k, s)
<1> DEFINE d == Starts(c)
           e == Update(k, d, s)
           nothing == <<>>
           r == nothing \o s
<1>1. TakenIn(k, d, nothing)
  BY StartsTakesNothing
<1>2. r = s
  BY EmptyConcat
<1>3. Hash(k, c, s) = Output(k, Finished(k, e).state)
  BY DEF Hash
<1> HIDE DEF d, nothing
<1>4. TakenIn(k, e, r)
  BY <1>1, UpdateKeeps
<1> HIDE DEF e, r
<1>5. Finished(k, e).state = Chunks(RefPadded(k, s))
  BY <1>2, <1>4, FinishedIs
<1> QED
  BY <1>3, <1>5 DEF RefHash

-----------------------------------------------------------------------------
(* HMAC: the inner digest begins with one pad, the outer one is that of    *)
(* the other pad and the inner digest.                                     *)

Short(k, s) == IF Len(s) > BlockSize THEN RefHash(k, s) ELSE s
Keyed(k, c, s) == c.ipad = KeyPad("36", Short(k, s)) /\ c.opad = KeyPad("5C", Short(k, s))

(* The pads of a keyed context may be hashed.                              *)
LEMMA KeyedPads ==
  ASSUME DigestAssumption, NEW k, NEW c, NEW s, Keyed(k, c, s)
  PROVE  IsAnySeq(c.ipad) /\ Len(c.ipad) <= Word /\ IsAnySeq(c.opad) /\ Len(c.opad) <= Word
  BY KeyPadIs DEF Keyed

(* A context that starts with a pad.                                       *)
LEMMA PadTaken ==
  ASSUME DigestAssumption, NEW k \in {"sha2", "md5"}, NEW c, NEW s, IsContext(c), IsAnySeq(s),
         Len(s) <= Word
  PROVE  LET d == Update(k, Starts(c), s)
         IN  TakenIn(k, d, s) /\ d.ipad = c.ipad /\ d.opad = c.opad
<1> DEFINE a == Starts(c)
           d == Update(k, a, s)
           nothing == <<>>
           r == nothing \o s
<1>1. TakenIn(k, a, nothing) /\ a.ipad = c.ipad /\ a.opad = c.opad
  BY StartsTakesNothing
<1>2. r = s
  BY EmptyConcat
<1> HIDE DEF a, nothing
<1>3. TakenIn(k, d, r) /\ d.ipad = a.ipad /\ d.opad = a.opad
  BY <1>1, UpdateKeeps
<1> HIDE DEF d, r
<1>4. TakenIn(k, d, s) /\ d.ipad = c.ipad /\ d.opad = c.opad
  BY <1>1, <1>2, <1>3
<1> QED
  BY <1>4 DEF d, a

(* An HMAC starts with the pads of its key and has taken in the inner one. *)
LEMMA HmacStartsIs ==
  ASSUME DigestAssumption, NEW k \in {"sha2", "md5"}, NEW c, NEW s, IsContext(c), IsAnySeq(s),
         Len(s) <= Word
  PROVE  LET d == HmacStarts(k, c, s)
         IN  Keyed(k, d, s) /\ TakenIn(k, d, d.ipad)
<1> DEFINE short == ShortKey(k, c, s)
           i == KeyPad("36", short)
           o == KeyPad("5C", short)
           pads == [c EXCEPT !.ipad = i, !.opad = o]
           d == HmacStarts(k, c, s)
<1>1. short = Short(k, s)
  <2>1. Hash(k, c, s) = RefHash(k, s)
    BY HashIs
  <2> QED
    BY <2>1 DEF ShortKey, Short
<1>2. d = Update(k, Starts(pads), pads.ipad)
  BY DEF HmacStarts
<1>3. IsAnySeq(i) /\ Len(i) <= Word
  BY KeyPadIs
<1> HIDE DEF short, i, o
<1>4. pads.ipad = i /\ pads.opad = o /\ IsContext(pads)
  <2>1. pads = [c EXCEPT !.ipad = i, !.opad = o]
    OBVIOUS
  <2> HIDE DEF pads
  <2>2. /\ pads.t0 = c.t0 /\ pads.t1 = c.t1 /\ pads.buffer = c.buffer
        /\ pads.ipad = i /\ pads.opad = o
        /\ pads = [t0 |-> pads.t0, t1 |-> pads.t1, state |-> pads.state, buffer |-> pads.buffer,
                   ipad |-> pads.ipad, opad |-> pads.opad]
    BY <2>1 DEF IsContext
  <2> QED
    BY <2>2 DEF IsContext
<1> HIDE DEF pads, d
<1>5. d = Update(k, Starts(pads), i)
  BY <1>2, <1>4
<1>6. TakenIn(k, d, i) /\ d.ipad = pads.ipad /\ d.opad = pads.opad
  BY <1>3, <1>4, <1>5, PadTaken
<1>7. d.ipad = i /\ d.opad = o /\ TakenIn(k, d, i)
  BY <1>4, <1>6
<1>8. Keyed(k, d, s)
  BY <1>1, <1>7 DEF Keyed, i, o
<1> QED
  BY <1>7, <1>8 DEF d

(* So it does again after a reset, also before the first is finished.      *)
LEMMA HmacResetIs ==
  ASSUME DigestAssumption, NEW k \in {"sha2", "md5"}, NEW c, NEW s, IsContext(c), Keyed(k, c, s)
  PROVE  LET d == HmacReset(k, c)
         IN  Keyed(k, d, s) /\ TakenIn(k, d, d.ipad)
<1> DEFINE i == c.ipad
           d == HmacReset(k, c)
<1>1. IsAnySeq(i) /\ Len(i) <= Word
  BY KeyedPads
<1>2. d = Update(k, Starts(c), i)
  BY DEF HmacReset
<1> HIDE DEF d, i
<1>3. TakenIn(k, d, i) /\ d.ipad = c.ipad /\ d.opad = c.opad
  BY <1>1, <1>2, PadTaken
<1>4. Keyed(k, d, s) /\ TakenIn(k, d, d.ipad)
  BY <1>3 DEF Keyed, i
<1> QED
  BY <1>4 DEF d

(* What an HMAC finishes with is the HMAC of key and message.              *)
LEMMA HmacFinishedIs ==
  ASSUME DigestAssumption, NEW k \in {"sha2", "md5"}, NEW c, NEW s, NEW m, IsContext(c),
         Keyed(k, c, s), IsAnySeq(m), TakenIn(k, c, c.ipad \o m)
  PROVE  LET d == HmacFinished(k, c)
         IN  IsContext(d) /\ Keyed(k, d, s) /\ Output(k, d.state) = RefHmac(k, s, m)
<1> DEFINE all == c.ipad \o m
           inner == Finished(k, c)
           sum == Output(k, inner.state)
           pad == inner.opad
           a == Update(k, Starts(inner), pad)
           b == Update(k, a, sum)
           d == HmacFinished(k, c)
           r == pad \o sum
<1>1. d = Finished(k, b)
  BY DEF HmacFinished
<1>2. /\ IsContext(inner) /\ inner.ipad = c.ipad /\ inner.opad = c.opad
      /\ inner.state = Chunks(RefPadded(k, all))
  BY FinishedIs
<1>3. IsAnySeq(sum) /\ Len(sum) <= Word
  BY OutputIs
<1>4. sum = RefHash(k, all)
  BY <1>2 DEF RefHash
<1>5. IsAnySeq(c.opad) /\ Len(c.opad) <= Word
  BY KeyedPads
<1>6. IsAnySeq(pad) /\ Len(pad) <= Word
  BY <1>2, <1>5
<1> HIDE DEF sum, inner, d, all, pad
<1>7. TakenIn(k, a, pad) /\ a.ipad = inner.ipad /\ a.opad = inner.opad
  BY <1>2, <1>6, PadTaken
<1> HIDE DEF a
<1>8. TakenIn(k, b, r) /\ b.ipad = a.ipad /\ b.opad = a.opad
  BY <1>3, <1>7, UpdateKeeps
<1> HIDE DEF b, r
<1>9. /\ IsContext(d) /\ d.ipad = b.ipad /\ d.opad = b.opad
      /\ d.state = Chunks(RefPadded(k, r))
  BY <1>1, <1>8, FinishedIs
<1>10. Output(k, d.state) = RefHash(k, r)
  BY <1>9 DEF RefHash
<1>11. d.ipad = c.ipad /\ d.opad = c.opad
  BY <1>2, <1>7, <1>8, <1>9
<1>12. Keyed(k, d, s)
  BY <1>11 DEF Keyed
<1>13. RefHmac(k, s, m) = RefHash(k, KeyPad("5C", Short(k, s)) \o RefHash(k, KeyPad("36", Short(k, s)) \o m))
  BY DEF RefHmac, Short
<1>14. RefHmac(k, s, m) = RefHash(k, c.opad \o RefHash(k, c.ipad \o m))
  BY <1>13 DEF Keyed
<1>15. r = c.opad \o RefHash(k, c.ipad \o m)
  BY <1>2, <1>4 DEF r, pad, all
<1> QED
  BY <1>9, <1>10, <1>12, <1>14, <1>15 DEF d

-----------------------------------------------------------------------------
(* The inductive invariant: before a digest is finished its context has    *)
(* taken in the message, behind the pad of the key if there is one, and a  *)
(* keyed context keeps its pads.                                           *)

Begun == IF key = NoHmac THEN <<>> ELSE ctx.ipad

DigestInv ==
  /\ kind \in {"none", "sha2", "md5"}
  /\ IsContext(ctx) /\ IsAnySeq(message)
  /\ kind = "none" => digest = <<>>
  /\ kind # "none" /\ key # NoHmac => Keyed(kind, ctx, key)
  /\ kind # "none" /\ digest = <<>> => TakenIn(kind, ctx, Begun \o message)
  /\ StreamIsDigest

(* At first there is no digest.                                            *)
LEMMA DigestInitHolds ==
  ASSUME DigestAssumption, DigestInit
  PROVE  DigestInv
<1>1. Word \in Nat \ {0}
  BY WordIs
<1>2. /\ ctx.t0 = 0 /\ ctx.t1 = 0 /\ ctx.buffer = Zeros(BlockSize)
      /\ ctx = [t0 |-> ctx.t0, t1 |-> ctx.t1, state |-> ctx.state, buffer |-> ctx.buffer,
                ipad |-> ctx.ipad, opad |-> ctx.opad]
  BY DEF DigestInit
<1>3. Zeros(BlockSize) = [i \in 1 .. BlockSize |-> Zeros(BlockSize)[i]]
  BY DEF Zeros
<1>4. IsContext(ctx)
  <2>1. 0 \in 0 .. Word - 1
    BY <1>1
  <2> QED
    BY <1>2, <1>3, <2>1 DEF IsContext
<1>5. kind = "none" /\ digest = <<>> /\ message = <<>>
  BY DEF DigestInit
<1>6. IsAnySeq(message)
  BY <1>5, NothingIsSeq
<1> QED
  BY <1>4, <1>5, <1>6 DEF DigestInv, StreamIsDigest

(* Starting, with a key or without one.                                    *)
LEMMA StartHolds ==
  ASSUME DigestAssumption, DigestInv, NEW k \in {"sha2", "md5"}, NEW h,
         h # NoHmac => IsAnySeq(h) /\ Len(h) <= Word, StartDigest(k, h)
  PROVE  DigestInv'
<1> DEFINE nothing == <<>>
<1>1. /\ kind' = k /\ key' = h /\ message' = nothing /\ digest' = nothing
      /\ ctx' = IF h = NoHmac THEN Starts(ctx) ELSE HmacStarts(k, ctx, h)
  BY DEF StartDigest
<1>2. IsContext(ctx)
  BY DEF DigestInv
<1>3. IsAnySeq(nothing)
  BY NothingIsSeq
<1>4. IsContext(ctx') /\ (h # NoHmac => Keyed(k, ctx', h)) /\ TakenIn(k, ctx', Begun' \o nothing)
  <2>1. CASE h = NoHmac
    <3>1. TakenIn(k, ctx', nothing)
      BY <1>1, <1>2, <2>1, StartsTakesNothing
    <3>2. Begun' = nothing
      BY <1>1, <2>1 DEF Begun
    <3> HIDE DEF nothing
    <3>3. nothing \o nothing = nothing
      BY <1>3, EmptyConcat DEF nothing
    <3> QED
      BY <2>1, <3>1, <3>2, <3>3 DEF TakenIn
  <2>2. CASE h # NoHmac
    <3> DEFINE d == HmacStarts(k, ctx, h)
               i == d.ipad
    <3>1. Keyed(k, d, h) /\ TakenIn(k, d, i)
      BY <1>2, <2>2, HmacStartsIs
    <3>2. ctx' = d
      BY <1>1, <2>2
    <3>3. Begun' = i
      BY <1>1, <2>2, <3>2 DEF Begun
    <3> HIDE DEF d, i
    <3>4. i \o nothing = i
      BY <3>1, ConcatEmpty DEF TakenIn
    <3> HIDE DEF nothing
    <3> QED
      BY <3>1, <3>2, <3>3, <3>4 DEF TakenIn
  <2> QED
    BY <2>1, <2>2
<1>5. StreamIsDigest'
  BY <1>1 DEF StreamIsDigest
<1> HIDE DEF nothing
<1>6. k # "none" /\ k \in {"none", "sha2", "md5"}
  OBVIOUS
<1> QED
  BY <1>1, <1>3, <1>4, <1>5, <1>6 DEF DigestInv, nothing

(* Updating with less than a word.                                         *)
LEMMA UpdateHolds ==
  ASSUME DigestAssumption, DigestInv, NEW n \in 0 .. Word - 1, UpdateDigest(n)
  PROVE  DigestInv'
<1> DEFINE s == [i \in 1 .. n |-> <<"m", Len(message) + i>>]
           m == message \o s
<1>1. /\ kind # "none" /\ digest = <<>> /\ ctx' = Update(kind, ctx, s) /\ message' = m
      /\ kind' = kind /\ key' = key /\ digest' = digest
  BY DEF UpdateDigest
<1>2. kind \in {"sha2", "md5"} /\ IsAnySeq(message) /\ TakenIn(kind, ctx, Begun \o message)
  BY <1>1 DEF DigestInv
<1>3. IsAnySeq(s) /\ Len(s) <= Word
  <2>1. s = [i \in 1 .. n |-> s[i]] /\ n \in Nat /\ n <= Word
    BY WordIs
  <2> HIDE DEF s
  <2>2. IsAnySeq(s) /\ Len(s) = n
    BY <2>1, FunctionIsSeq
  <2> QED
    BY <2>1, <2>2
<1> DEFINE b == Begun
           all == b \o message
           d == Update(kind, ctx, s)
<1> HIDE DEF s
<1>4. TakenIn(kind, d, all \o s) /\ d.ipad = ctx.ipad /\ d.opad = ctx.opad
  <2>1. DigestAssumption /\ kind \in {"sha2", "md5"} /\ TakenIn(kind, ctx, all) /\ IsAnySeq(s)
        /\ (kind = "sha2" => Len(s) <= Word)
    BY <1>2, <1>3
  <2> HIDE DEF all
  <2> QED
    BY ONLY <2>1, UpdateKeeps
<1>5. IsAnySeq(b)
  <2>1. CASE key = NoHmac
    BY <2>1, NothingIsSeq DEF Begun
  <2>2. CASE key # NoHmac
    <3>1. Keyed(kind, ctx, key)
      BY <1>1, <2>2 DEF DigestInv
    <3> QED
      BY <2>2, <3>1, KeyedPads DEF Begun
  <2> QED
    BY <2>1, <2>2
<1>6. all \o s = b \o m
  <2>1. IsAnySeq(b) /\ IsAnySeq(message) /\ IsAnySeq(s)
    BY <1>2, <1>3, <1>5
  <2> HIDE DEF b
  <2> QED
    BY ONLY <2>1, ConcatTwice DEF all, m
<1>7. IsAnySeq(m)
  BY <1>2, <1>3, ConcatIs
<1> HIDE DEF d, all, m
<1>8. ctx' = d
  BY <1>1 DEF d
<1>9. Begun' = b
  BY <1>1, <1>4, <1>8 DEF Begun
<1> HIDE DEF b
<1>10. TakenIn(kind, ctx', b \o m)
  BY <1>4, <1>6, <1>8
<1>11. IsContext(ctx')
  BY <1>10 DEF TakenIn
<1>12. key # NoHmac => Keyed(kind, ctx', key)
  BY <1>1, <1>4, <1>8 DEF DigestInv, Keyed
<1>13. StreamIsDigest'
  BY <1>1 DEF StreamIsDigest
<1> QED
  BY <1>1, <1>2, <1>7, <1>9, <1>10, <1>11, <1>12, <1>13 DEF DigestInv

(* Finishing gives the digest of the whole.                                *)
LEMMA FinishHolds ==
  ASSUME DigestAssumption, DigestInv, FinishDigest
  PROVE  DigestInv'
<1>1. /\ kind # "none" /\ digest = <<>> /\ digest' = Output(kind, ctx'.state)
      /\ ctx' = IF key = NoHmac THEN Finished(kind, ctx) ELSE HmacFinished(kind, ctx)
      /\ kind' = kind /\ key' = key /\ message' = message
  BY DEF FinishDigest
<1>2. /\ kind \in {"sha2", "md5"} /\ IsAnySeq(message) /\ IsContext(ctx)
      /\ TakenIn(kind, ctx, Begun \o message)
  BY <1>1 DEF DigestInv
<1>3. digest' # <<>>
  BY <1>1, <1>2, OutputIs
<1>4. /\ IsContext(ctx') /\ (key # NoHmac => Keyed(kind, ctx', key))
      /\ digest' = IF key = NoHmac THEN RefHash(kind, message) ELSE RefHmac(kind, key, message)
  <2>1. CASE key = NoHmac
    <3>1. TakenIn(kind, ctx, message)
      BY <1>2, <2>1, EmptyConcat DEF Begun
    <3>2. IsContext(ctx') /\ ctx'.state = Chunks(RefPadded(kind, message))
      BY <1>1, <1>2, <2>1, <3>1, FinishedIs
    <3> QED
      BY <1>1, <2>1, <3>2 DEF RefHash
  <2>2. CASE key # NoHmac
    <3>1. Keyed(kind, ctx, key)
      BY <1>1, <2>2 DEF DigestInv
    <3>2. TakenIn(kind, ctx, ctx.ipad \o message)
      BY <1>2, <2>2 DEF Begun
    <3>3. ctx' = HmacFinished(kind, ctx)
      BY <1>1, <2>2
    <3>4. IsContext(ctx') /\ Keyed(kind, ctx', key) /\ Output(kind, ctx'.state) = RefHmac(kind, key, message)
      BY <1>2, <3>1, <3>2, <3>3, HmacFinishedIs
    <3> QED
      BY <1>1, <2>2, <3>4
  <2> QED
    BY <2>1, <2>2
<1>5. StreamIsDigest'
  BY <1>1, <1>4 DEF StreamIsDigest
<1> QED
  BY <1>1, <1>2, <1>3, <1>4, <1>5 DEF DigestInv

(* Resetting an HMAC.                                                      *)
LEMMA ResetHolds ==
  ASSUME DigestAssumption, DigestInv, ResetHmac
  PROVE  DigestInv'
<1> DEFINE nothing == <<>>
           d == HmacReset(kind, ctx)
           i == d.ipad
<1>1. /\ kind = "sha2" /\ key # NoHmac /\ ctx' = d /\ message' = nothing /\ digest' = nothing
      /\ kind' = kind /\ key' = key
  BY DEF ResetHmac
<1>2. kind \in {"sha2", "md5"} /\ kind # "none" /\ IsContext(ctx) /\ Keyed(kind, ctx, key)
  BY <1>1 DEF DigestInv
<1>3. Keyed(kind, d, key) /\ TakenIn(kind, d, i)
  BY <1>2, HmacResetIs
<1>4. IsAnySeq(nothing)
  BY NothingIsSeq
<1>5. Begun' = i
  BY <1>1 DEF Begun
<1> HIDE DEF d, i
<1>6. i \o nothing = i
  BY <1>3, ConcatEmpty DEF TakenIn
<1>7. StreamIsDigest'
  BY <1>1 DEF StreamIsDigest
<1> HIDE DEF nothing
<1>8. IsContext(ctx') /\ TakenIn(kind, ctx', i \o nothing) /\ Keyed(kind, ctx', key)
  BY <1>1, <1>3, <1>6 DEF TakenIn
<1> QED
  BY <1>1, <1>2, <1>4, <1>5, <1>7, <1>8 DEF DigestInv, nothing

(* The keys of the model are shorter than a word.                          *)
LEMMA MessageKeyIs ==
  ASSUME DigestAssumption, NEW n \in 0 .. BlockSize + 1
  PROVE  IsAnySeq(MessageKey(n)) /\ Len(MessageKey(n)) <= Word
<1> DEFINE s == MessageKey(n)
<1>1. s = [i \in 1 .. n |-> s[i]]
  BY DEF MessageKey
<1>2. n \in Nat /\ n <= Word
  BY DEF DigestAssumption
<1> HIDE DEF s
<1>3. IsAnySeq(s) /\ Len(s) = n
  BY <1>1, <1>2, FunctionIsSeq
<1> QED
  BY <1>2, <1>3 DEF s

(* The calls on one context, in any order *)
DigestSpec == DigestInit /\ [][DigestNext]_digestVars

(***************************************************************************)
(* A message given to SHA-256, MD5 or their HMACs in pieces of any length, *)
(* also one whose length overflows a word, has the digest of the message   *)
(* as a whole; whatever the context was used for before, and for every     *)
(* size of blocks, words and keys.                                         *)
(***************************************************************************)
THEOREM StreamHasItsDigest == DigestAssumption => (DigestSpec => []StreamIsDigest)
<1> SUFFICES ASSUME DigestAssumption
             PROVE  DigestSpec => []StreamIsDigest
  OBVIOUS
<1>1. DigestInit => DigestInv
  BY DigestInitHolds
<1>2. DigestInv /\ [DigestNext]_digestVars => DigestInv'
  <2> SUFFICES ASSUME DigestInv, [DigestNext]_digestVars
               PROVE  DigestInv'
    OBVIOUS
  <2>1. ASSUME NEW k \in {"sha2", "md5"}, StartDigest(k, NoHmac)
        PROVE  DigestInv'
    BY <2>1, StartHolds
  <2>2. ASSUME NEW k \in {"sha2", "md5"}, NEW n \in 0 .. BlockSize + 1, StartDigest(k, MessageKey(n))
        PROVE  DigestInv'
    BY <2>2, MessageKeyIs, StartHolds
  <2>3. ASSUME NEW n \in 0 .. Word - 1, UpdateDigest(n)
        PROVE  DigestInv'
    BY <2>3, UpdateHolds
  <2>4. CASE FinishDigest
    BY <2>4, FinishHolds
  <2>5. CASE ResetHmac
    BY <2>5, ResetHolds
  <2>6. CASE UNCHANGED digestVars
    <3>1. ctx' = ctx /\ kind' = kind /\ key' = key /\ message' = message /\ digest' = digest
      BY <2>6 DEF digestVars
    <3>2. Begun' = Begun /\ (StreamIsDigest' <=> StreamIsDigest)
      BY <3>1 DEF Begun, StreamIsDigest
    <3> QED
      BY <3>1, <3>2 DEF DigestInv
  <2> QED
    BY <2>1, <2>2, <2>3, <2>4, <2>5, <2>6 DEF DigestNext
<1>3. DigestInv => StreamIsDigest
  BY DEF DigestInv
<1> QED
  BY <1>1, <1>2, <1>3, PTL DEF DigestSpec
=============================================================================
