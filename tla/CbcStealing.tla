---------------------------- MODULE CbcStealing ----------------------------
(***************************************************************************)
(* lrz_crypt of util.c: a buffer enciphered in place by AES in CBC mode,   *)
(* with ciphertext stealing for a length that is no multiple of a block.   *)
(* The cipher is any permutation of the blocks, a block is CbcLen bits,    *)
(* and lrz_keygen gives every salt its permutation and initial vector.     *)
(***************************************************************************)
EXTENDS Integers, Sequences, Functions

CONSTANTS
  CbcLen,       \* CBC_LEN
  Aes,          \* Aes[salt]: the permutation of blocks under the key of a salt
  Iv            \* Iv[salt]: the initial vector of a salt

Bit01    == {0, 1}
BlockSet == [1 .. CbcLen -> Bit01]

xor128(a, b) == [k \in 1 .. CbcLen |-> (a[k] + b[k]) % 2]
BlockAt(b, at) == [k \in 1 .. CbcLen |-> b[at + k]]
PutAt(b, at, s) == [k \in DOMAIN b |-> IF k > at /\ k <= at + Len(s) THEN s[k - at] ELSE b[k]]
Padded(s) == [k \in 1 .. CbcLen |-> IF k <= Len(s) THEN s[k] ELSE 0]

aes_crypt_ecb(salt, encrypt, x) == IF encrypt THEN Aes[salt][x] ELSE Inverse(Aes[salt], BlockSet, BlockSet)[x]

\* The blocks below len in place, and the vector the next block would use.
aes_crypt_cbc(salt, encrypt, len, iv, b) ==
  LET run[n \in 0 .. len \div CbcLen] ==
        IF n = 0 THEN [buf |-> b, iv |-> iv]
        ELSE LET at == (n - 1) * CbcLen
                 x  == BlockAt(b, at)
                 y  == IF encrypt THEN aes_crypt_ecb(salt, TRUE, xor128(x, run[n - 1].iv))
                       ELSE xor128(aes_crypt_ecb(salt, FALSE, x), run[n - 1].iv)
             IN [buf |-> PutAt(run[n - 1].buf, at, y), iv |-> IF encrypt THEN y ELSE x]
  IN run[len \div CbcLen]

lrz_encrypt(b, salt) ==
  LET M   == Len(b) % CbcLen
      N   == Len(b) - M
      cbc == aes_crypt_cbc(salt, TRUE, N, Iv[salt], b)
      end == aes_crypt_cbc(salt, TRUE, CbcLen, cbc.iv, Padded(SubSeq(b, N + 1, N + M))).buf
  IN IF M = 0 THEN cbc.buf
     ELSE PutAt(PutAt(cbc.buf, N, SubSeq(cbc.buf, N - CbcLen + 1, N - CbcLen + M)),
                N - CbcLen, end)

lrz_decrypt(b, salt) ==
  LET M    == Len(b) % CbcLen
      N    == Len(b) - M
      cbc  == aes_crypt_cbc(salt, FALSE, N - CbcLen, Iv[salt], b)
      tail == SubSeq(b, N + 1, N + M)
      tmp0 == xor128(aes_crypt_ecb(salt, FALSE, BlockAt(cbc.buf, N - CbcLen)), Padded(tail))
      tmp1 == tail \o SubSeq(tmp0, M + 1, CbcLen)
  IN IF M = 0 THEN aes_crypt_cbc(salt, FALSE, Len(b), Iv[salt], b).buf
     ELSE PutAt(PutAt(cbc.buf, N, SubSeq(tmp0, 1, M)), N - CbcLen,
                xor128(aes_crypt_ecb(salt, FALSE, tmp1), cbc.iv))
=============================================================================
