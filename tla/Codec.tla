-------------------------------- MODULE Codec --------------------------------
(***************************************************************************)
(* What happens to the bytes of a frame between a client and the server    *)
(* (proxy/protocol/protocol.go, pkg/encryption.go), and to the secret key  *)
(* between flag -k and the cipher (main.go, app/handles/download.go).      *)
(*                                                                         *)
(* A byte string is a sequence of integers, a key a sequence of            *)
(* characters.  AES-CBC is taken as given: a ciphertext is its key and the *)
(* padded plaintext, and another key does not open it.  msgpack, CRC32 and *)
(* the length prefix are left out.                                         *)
(***************************************************************************)
EXTENDS Integers, Sequences

CONSTANTS BlockSize, \* 16: bytes of an AES block
          Window,    \* 356: modulus of the confusion length
          Least,     \* 10: shortest confusion
          Values,    \* 254: number of values of a confusion byte
          Zero       \* the character 0, with which keys are padded

ASSUME CodecAssumption ==
    /\ BlockSize \in 1..255
    /\ Window \in Nat \ {0} /\ Least \in Nat \ {0}
    /\ Values \in 1..255

-----------------------------------------------------------------------------
(* Confusion bytes.                                                        *)

\* buildConfusionData, if the counter stands at count after its first Inc; the
\* increments of other tunnels in between only shift the values.
ConfusionData(count) ==
    LET length == IF count % Window < Least THEN Least ELSE count % Window
    IN  [i \in 1..length |-> ((count + i) % Values) + 1]

\* One confusion byte before each byte of the data, from a rotating buffer.
Confuse(data, confusion) ==
    [i \in 1..(2 * Len(data)) |->
        IF i % 2 = 1 THEN confusion[((i \div 2) % Len(confusion)) + 1]
        ELSE data[i \div 2]]

\* Mutant: the other half of the bytes is kept.
SeparateEven(data) == [i \in 1..(Len(data) \div 2) |-> data[2 * i - 1]]

\* separateConfusionData.
Separate(data) == [i \in 1..(Len(data) \div 2) |-> data[2 * i]]

-----------------------------------------------------------------------------
(* Padding and encryption.                                                 *)

Padding(n) == BlockSize - (n % BlockSize)

\* PKCS7Padding; the added byte does not overflow, since BlockSize < 256.
Pad(data) ==
    data \o [i \in 1..Padding(Len(data)) |-> Padding(Len(data))]

\* PKCS7UnPadding slices before the first byte, and panics.
UnpadFails(data) == IF data = << >> THEN TRUE ELSE data[Len(data)] > Len(data)

\* PKCS7UnPadding otherwise.
Unpad(data) == SubSeq(data, 1, Len(data) - data[Len(data)])

AesEncrypt(data, key) == [key |-> key, bytes |-> Pad(data)]

\* AesDecrypt recovers from the panic and returns an error; what another key
\* makes of the bytes is refused there or by the hash of the request.
AesFails(frame, key) == frame.key # key \/ UnpadFails(frame.bytes)

AesDecrypt(frame) == Unpad(frame.bytes)

\* With an empty key nothing is encrypted.
EncryptionData(key, count, data) ==
    LET mixed == Confuse(data, ConfusionData(count))
    IN  IF key = << >> THEN [key |-> key, bytes |-> mixed] ELSE AesEncrypt(mixed, key)

DecryptFails(key, frame) ==
    IF key = << >> THEN frame.key # key ELSE AesFails(frame, key)

DecryptData(key, frame) ==
    Separate(IF key = << >> THEN frame.bytes ELSE AesDecrypt(frame))

-----------------------------------------------------------------------------
(* The secret key.                                                         *)

\* main.go accepts no longer flag.
MaxKey == 2 * BlockSize

\* aes.NewCipher accepts these lengths, and 24, which is not used; with no key
\* it is not called.
KeyLengths == {0, BlockSize, 2 * BlockSize}

\* The loop of main.go that appends zeros up to a multiple of the block.
PadKey(flag) ==
    flag \o [i \in 1..((BlockSize - (Len(flag) % BlockSize)) % BlockSize) |-> Zero]

\* Mutant: the last character that is no zero goes, too.
TrimKeyMore(key) ==
    SubSeq(key, 1, CHOOSE n \in 0..Len(key) : \A i \in (n + 2)..Len(key) : key[i] = Zero)

\* strings.TrimRight(secretKey, "0").
TrimKey(key) ==
    SubSeq(key, 1, CHOOSE n \in 0..Len(key) :
                       /\ \A i \in (n + 1)..Len(key) : key[i] = Zero
                       /\ (n > 0 => key[n] # Zero))

\* The key that PackScriptFile hands to build is empty: args holds the padded
\* flag by then, and it was empty, too, or zeros only.
LosesKey(flag) == TrimKey(PadKey(flag)) = << >>

\* What follows -k in the script that the server's page offers.  build joins the
\* words with blanks, so an empty key is none: the next word is -r.  The words
\* after that are no flags any more, and -c is among them.
DownloadKey(flag) ==
    IF LosesKey(flag) THEN <<"-", "r">> ELSE TrimKey(PadKey(flag))

\* Zeros that fill a block of their own are lost on the way.
LosesBlock(flag) ==
    Len(PadKey(DownloadKey(flag))) # Len(PadKey(flag))
=============================================================================
