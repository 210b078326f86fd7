---------------------------- MODULE Codec_proofs ----------------------------
(***************************************************************************)
(* Lemmas and theorems about Codec: decoding inverts encoding for every    *)
(* block size, key, confusion counter and byte string, and a key of any    *)
(* accepted length fits the cipher.                                        *)
(***************************************************************************)
EXTENDS Codec, SequenceTheorems, WellFoundedInduction, TLAPS

USE CodecAssumption

Byte == 0..255

-----------------------------------------------------------------------------
(* Arithmetic.                                                             *)

LEMMA Remainder ==
    ASSUME NEW n \in Nat, NEW k \in Nat \ {0}
    PROVE  n % k \in 0..(k - 1)
  OBVIOUS

LEMMA Half ==
    ASSUME NEW n \in Nat
    PROVE  (2 * n) \div 2 = n /\ (2 * n) % 2 = 0
  OBVIOUS

LEMMA SmallRemainder ==
    ASSUME NEW k \in Nat \ {0}, NEW r \in 0..(k - 1)
    PROVE  r % k = r /\ (k + r) % k = r /\ (2 * k) % k = 0
  OBVIOUS

\* What the loop of main.go adds to a flag of length l.
LEMMA Filled ==
    ASSUME NEW l \in 0..(2 * BlockSize)
    PROVE  /\ (BlockSize - (l % BlockSize)) % BlockSize \in Nat
           /\ l + ((BlockSize - (l % BlockSize)) % BlockSize)
                 \in {0, BlockSize, 2 * BlockSize}
<1>0. BlockSize \in Nat \ {0} /\ 0 \in 0..(BlockSize - 1)
  OBVIOUS
<1>1. BlockSize % BlockSize = 0 /\ 0 % BlockSize = 0 /\ (2 * BlockSize) % BlockSize = 0
  BY <1>0, SmallRemainder
<1>2. CASE l \in {0, BlockSize, 2 * BlockSize}
  BY <1>1, <1>2
<1>3. CASE l \in 1..(BlockSize - 1)
  <2>1. l % BlockSize = l
    BY <1>0, <1>3, SmallRemainder
  <2>2. BlockSize - l \in 0..(BlockSize - 1)
    BY <1>3
  <2>3. (BlockSize - l) % BlockSize = BlockSize - l
    BY <1>0, <2>2, SmallRemainder
  <2>4. QED
    BY <1>3, <2>1, <2>3
<1>4. CASE l \in (BlockSize + 1)..(2 * BlockSize - 1)
  <2> DEFINE m == l - BlockSize
  <2>1. m \in 1..(BlockSize - 1) /\ l = BlockSize + m
    BY <1>4
  <2> HIDE DEF m
  <2>2. l % BlockSize = m
    BY <1>0, <2>1, SmallRemainder
  <2>3. BlockSize - m \in 0..(BlockSize - 1)
    BY <2>1
  <2>4. (BlockSize - m) % BlockSize = BlockSize - m
    BY <1>0, <2>3, SmallRemainder
  <2>5. QED
    BY <2>1, <2>2, <2>4
<1>5. QED
  BY <1>2, <1>3, <1>4

-----------------------------------------------------------------------------
(* Confusion.                                                              *)

\* There is at least one confusion byte, and no value overflows a byte.
LEMMA ConfusionBytes ==
    ASSUME NEW count \in Nat
    PROVE  /\ ConfusionData(count) \in Seq(Byte)
           /\ Len(ConfusionData(count)) > 0
<1> DEFINE n == IF count % Window < Least THEN Least ELSE count % Window
<1>1. n \in Nat \ {0}
  BY Remainder
<1>2. \A i \in 1..n : ((count + i) % Values) + 1 \in Byte
  <2> SUFFICES ASSUME NEW i \in 1..n PROVE ((count + i) % Values) + 1 \in Byte
    OBVIOUS
  <2>1. count + i \in Nat /\ Values \in Nat \ {0}
    BY <1>1
  <2>2. (count + i) % Values \in 0..(Values - 1)
    BY <2>1, Remainder
  <2>3. QED
    BY <2>2 DEF Byte
<1>3. ConfusionData(count) = [i \in 1..n |-> ((count + i) % Values) + 1]
  BY DEF ConfusionData
<1> HIDE DEF n
<1>4. QED
  BY <1>1, <1>2, <1>3

\* buildConfusionData may return anything as long as it is not empty.
LEMMA Separated ==
    ASSUME NEW data \in Seq(Byte), NEW confusion \in Seq(Byte), Len(confusion) > 0
    PROVE  /\ Confuse(data, confusion) \in Seq(Byte)
           /\ Separate(Confuse(data, confusion)) = data
<1> DEFINE mixed == Confuse(data, confusion)
<1>1. mixed \in Seq(Byte) /\ Len(mixed) = 2 * Len(data)
  <2> SUFFICES ASSUME NEW i \in 1..(2 * Len(data))
               PROVE  (IF i % 2 = 1 THEN confusion[((i \div 2) % Len(confusion)) + 1]
                       ELSE data[i \div 2]) \in Byte
    BY DEF Confuse
  <2>1. CASE i % 2 = 1
    <3>1. i \div 2 \in Nat
      OBVIOUS
    <3>2. \A k \in Nat \ {0} : (i \div 2) % k \in 0..(k - 1)
      BY <3>1, Remainder
    <3>3. QED
      BY <2>1, <3>2
  <2>2. CASE i % 2 # 1
    BY <2>2
  <2>3. QED
    BY <2>1, <2>2
<1>2. \A i \in 1..Len(data) : mixed[2 * i] = data[i]
  BY DEF Confuse
<1>3. Separate(mixed) = [i \in 1..Len(data) |-> mixed[2 * i]]
  BY <1>1, Half DEF Separate
<1>4. Separate(mixed) = data
  BY <1>2, <1>3
<1>5. QED
  BY <1>1, <1>4

-----------------------------------------------------------------------------
(* Padding.                                                                *)

\* A full block is added when nothing is missing, so there is always a last
\* byte that tells how much to remove.
LEMMA Unpadded ==
    ASSUME NEW data \in Seq(Byte)
    PROVE  ~ UnpadFails(Pad(data)) /\ Unpad(Pad(data)) = data
<1> DEFINE p == Padding(Len(data))
           tail == [i \in 1..p |-> p]
<1>1. p \in 1..BlockSize /\ p \in Byte
  <2>1. Len(data) \in Nat /\ BlockSize \in Nat \ {0}
    OBVIOUS
  <2> DEFINE m == Len(data) % BlockSize
  <2>2. m \in 0..(BlockSize - 1)
    BY <2>1, Remainder
  <2>3. p = BlockSize - m
    BY DEF Padding
  <2> HIDE DEF m, p
  <2>4. p \in 1..BlockSize
    BY <2>1, <2>2, <2>3
  <2>5. QED
    BY <2>4 DEF Byte
<1>2. tail \in Seq(Byte) /\ Len(tail) = p
  BY <1>1
<1>3. /\ Pad(data) \in Seq(Byte)
      /\ Len(Pad(data)) = Len(data) + p
      /\ Pad(data)[Len(data) + p] = p
      /\ \A i \in 1..Len(data) : Pad(data)[i] = data[i]
  <2>1. Pad(data) = data \o tail
    BY DEF Pad
  <2> HIDE DEF p, tail
  <2>2. /\ data \o tail \in Seq(Byte)
        /\ Len(data \o tail) = Len(data) + Len(tail)
        /\ \A i \in 1..(Len(data) + Len(tail)) :
              (data \o tail)[i] = IF i <= Len(data) THEN data[i] ELSE tail[i - Len(data)]
    BY <1>2, ConcatProperties
  <2>3. tail[p] = p
    BY <1>1 DEF tail
  <2>4. QED
    BY <1>1, <1>2, <2>1, <2>2, <2>3
<1>4. ~ UnpadFails(Pad(data))
  BY <1>1, <1>3 DEF UnpadFails
<1>5. Unpad(Pad(data)) = SubSeq(Pad(data), 1, Len(data))
  BY <1>1, <1>3 DEF Unpad
<1>6. SubSeq(Pad(data), 1, Len(data)) = data
  BY <1>1, <1>3
<1>7. QED
  BY <1>4, <1>5, <1>6

-----------------------------------------------------------------------------
(* The theorems.                                                           *)

\* EncryptionData and DecryptData (protocol.go) are inverse: a frame is never
\* refused with the key it was made with, and yields the bytes that went in,
\* for every length, key and state of the confusion counter.
THEOREM RoundTrip ==
    ASSUME NEW key, NEW count \in Nat, NEW data \in Seq(Byte)
    PROVE  /\ ~ DecryptFails(key, EncryptionData(key, count, data))
           /\ DecryptData(key, EncryptionData(key, count, data)) = data
<1> DEFINE confusion == ConfusionData(count)
           mixed == Confuse(data, confusion)
<1>1. mixed \in Seq(Byte) /\ Separate(mixed) = data
  BY ConfusionBytes, Separated
<1>2. ~ UnpadFails(Pad(mixed)) /\ Unpad(Pad(mixed)) = mixed
  BY <1>1, Unpadded
<1> HIDE DEF mixed
<1>3. CASE key = << >>
  BY <1>1, <1>3 DEF EncryptionData, DecryptFails, DecryptData, mixed
<1>4. CASE key # << >>
  BY <1>1, <1>2, <1>4
     DEF EncryptionData, DecryptFails, DecryptData, AesEncrypt, AesFails, AesDecrypt, mixed
<1>5. QED
  BY <1>3, <1>4

\* The padding of main.go makes a key of every accepted flag that aes.NewCipher
\* takes.
THEOREM KeyFits ==
    ASSUME NEW Char, Zero \in Char, NEW flag \in Seq(Char), Len(flag) <= MaxKey
    PROVE  PadKey(flag) \in Seq(Char) /\ Len(PadKey(flag)) \in KeyLengths
<1> DEFINE n == (BlockSize - (Len(flag) % BlockSize)) % BlockSize
           zeros == [i \in 1..n |-> Zero]
<1>1. n \in Nat /\ Len(flag) + n \in KeyLengths
  BY Filled DEF MaxKey, KeyLengths
<1>2. zeros \in Seq(Char) /\ Len(zeros) = n
  BY <1>1
<1>3. PadKey(flag) = flag \o zeros
  BY DEF PadKey
<1> HIDE DEF zeros, n
<1>4. QED
  BY <1>1, <1>2, <1>3, ConcatProperties

LEMMA LeastElement ==
    ASSUME NEW T, T \subseteq Nat, T # {}
    PROVE  \E n \in T : \A k \in T : n <= k
<1>1. \E n \in T : \A k \in T : <<k, n>> \notin OpToRel(<, Nat)
  BY NatLessThanWellFounded, WFMin
<1>2. PICK n \in T : \A k \in T : <<k, n>> \notin OpToRel(<, Nat)
  BY <1>1
<1>3. \A k \in T : ~ (k < n)
  BY <1>2 DEF OpToRel
<1>4. QED
  BY <1>3

\* TrimKey cuts off zeros, and nothing else.
LEMMA Trimmed ==
    ASSUME NEW Char, NEW key \in Seq(Char)
    PROVE  \E n \in 0..Len(key) : /\ TrimKey(key) = SubSeq(key, 1, n)
                                  /\ \A i \in (n + 1)..Len(key) : key[i] = Zero
<1> DEFINE T == {n \in 0..Len(key) : \A i \in (n + 1)..Len(key) : key[i] = Zero}
           Ends(n) == /\ \A i \in (n + 1)..Len(key) : key[i] = Zero
                      /\ (n > 0 => key[n] # Zero)
<1>1. Len(key) \in T /\ T \subseteq Nat
  OBVIOUS
<1>2. PICK n \in T : \A k \in T : n <= k
  <2> HIDE DEF T
  <2>1. QED
    BY <1>1, LeastElement
<1>3. n > 0 => key[n] # Zero
  <2> SUFFICES ASSUME n > 0, key[n] = Zero PROVE FALSE
    OBVIOUS
  <2>1. n - 1 \in T
    OBVIOUS
  <2>2. n <= n - 1
    BY <1>2, <2>1
  <2>3. QED
    BY <2>2
<1>4. \E k \in 0..Len(key) : Ends(k)
  BY <1>3
<1> DEFINE m == CHOOSE k \in 0..Len(key) : Ends(k)
<1>5. m \in 0..Len(key) /\ Ends(m)
  BY <1>4
<1>6. TrimKey(key) = SubSeq(key, 1, m)
  BY DEF TrimKey
<1>7. QED
  BY <1>5, <1>6

\* The script that the server's page offers (download.go) has a key that pads to
\* the server's own, unless nothing is left of the key, so that -k takes the next
\* word, or zeros that fill a block of their own were cut off.
THEOREM DownloadedKeyFits ==
    ASSUME NEW Char, Zero \in Char, NEW flag \in Seq(Char), Len(flag) <= MaxKey,
           ~ LosesKey(flag), ~ LosesBlock(flag)
    PROVE  PadKey(DownloadKey(flag)) = PadKey(flag)
<1> DEFINE key == PadKey(flag)
<1>1. key \in Seq(Char)
  BY KeyFits
<1> HIDE DEF key
<1>2. PICK n \in 0..Len(key) :
              /\ TrimKey(key) = SubSeq(key, 1, n)
              /\ \A i \in (n + 1)..Len(key) : key[i] = Zero
  BY <1>1, Trimmed
<1> DEFINE short == SubSeq(key, 1, n)
           k == (BlockSize - (n % BlockSize)) % BlockSize
           zeros == [i \in 1..k |-> Zero]
<1>3. short \in Seq(Char) /\ Len(short) = n /\ \A i \in 1..n : short[i] = key[i]
  BY <1>1, <1>2
<1>4. k \in Nat
  <2>0. Len(key) \in Nat /\ n \in Nat /\ BlockSize \in Nat \ {0}
    BY <1>1
  <2>1. n % BlockSize \in 0..(BlockSize - 1)
    BY <2>0, Remainder
  <2> DEFINE r == n % BlockSize
  <2> HIDE DEF r
  <2>2. \A x \in 0..(BlockSize - 1) : BlockSize - x \in Nat
    OBVIOUS
  <2>3. QED
    BY <2>0, <2>1, <2>2, Remainder DEF r
<1>5. PadKey(short) = short \o zeros
  BY <1>3 DEF PadKey
<1>6. zeros \in Seq(Char) /\ Len(zeros) = k /\ \A i \in 1..k : zeros[i] = Zero
  BY <1>4
<1> HIDE DEF short, zeros, k
<1>7. /\ PadKey(short) \in Seq(Char)
      /\ Len(PadKey(short)) = n + k
      /\ \A i \in 1..(n + k) : PadKey(short)[i] = IF i <= n THEN short[i] ELSE zeros[i - n]
  <2>0. short \in Seq(Char) /\ zeros \in Seq(Char)
    BY <1>3, <1>6
  <2>1. /\ short \o zeros \in Seq(Char)
        /\ Len(short \o zeros) = Len(short) + Len(zeros)
        /\ \A i \in 1..(Len(short) + Len(zeros)) :
              (short \o zeros)[i] = IF i <= Len(short) THEN short[i] ELSE zeros[i - Len(short)]
    BY <2>0, ConcatProperties
  <2>2. QED
    BY <1>3, <1>5, <1>6, <2>1
<1>8. short = DownloadKey(flag)
  BY <1>2 DEF short, DownloadKey, LosesKey, key
<1>9. Len(PadKey(short)) = Len(key)
  BY <1>8 DEF LosesBlock, key
<1>10. \A i \in 1..Len(key) : PadKey(short)[i] = key[i]
  <2> SUFFICES ASSUME NEW i \in 1..Len(key) PROVE PadKey(short)[i] = key[i]
    OBVIOUS
  <2>1. Len(key) \in Nat /\ n \in Nat /\ Len(key) = n + k
    BY <1>1, <1>4, <1>7, <1>9
  <2>2. CASE i <= n
    <3>1. PadKey(short)[i] = short[i]
      BY <1>7, <2>1, <2>2
    <3>2. QED
      BY <1>3, <2>1, <2>2, <3>1
  <2>3. CASE ~ (i <= n)
    <3>1. PadKey(short)[i] = zeros[i - n] /\ i - n \in 1..k
      BY <1>4, <1>7, <2>1, <2>3
    <3>2. key[i] = Zero
      BY <1>2, <2>1, <2>3
    <3>3. QED
      BY <1>6, <3>1, <3>2
  <2>4. QED
    BY <2>2, <2>3
<1>11. PadKey(short) = key
  BY <1>1, <1>7, <1>9, <1>10, SeqEqual
<1>12. QED
  BY <1>8, <1>11 DEF key
=============================================================================
