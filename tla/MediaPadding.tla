---------------------------- MODULE MediaPadding ----------------------------
(***************************************************************************)
(* The padding of media: added before a file is encrypted for the CDN      *)
(* (internal/weixin/cdn_upload.go), checked and removed after one is       *)
(* decrypted (cdn_download.go), and the size of the ciphertext that        *)
(* uploadMediaToCdn announces to the gateway before it encrypts. AES works *)
(* block by block and keeps the length, so only lengths and the padding    *)
(* matter here.                                                            *)
(***************************************************************************)
EXTENDS Integers, Sequences

BlockSize == 16     \* aes.BlockSize

Byte == 0 .. 255

Failed == [error |-> "invalid PKCS7 padding"]

Padding(size) == BlockSize - (size % BlockSize)

aesEcbPaddedSize(size) == size + Padding(size)

pkcs7Pad(data) ==
    [i \in 1 .. Len(data) + Padding(Len(data)) |->
        IF i <= Len(data) THEN data[i] ELSE Padding(Len(data))]

\* What decryptAesEcb requires of a ciphertext.
WholeBlocks(size) == size # 0 /\ size % BlockSize = 0

ValidPadding(data) ==
    /\ Len(data) # 0
    /\ data[Len(data)] \in 1 .. BlockSize
    /\ data[Len(data)] <= Len(data)
    /\ \A i \in Len(data) - data[Len(data)] + 1 .. Len(data) : data[i] = data[Len(data)]

pkcs7Unpad(data) ==
    IF ValidPadding(data)
    THEN [i \in 1 .. Len(data) - data[Len(data)] |-> data[i]]
    ELSE Failed
=============================================================================
