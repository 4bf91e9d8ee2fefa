------------------------------ MODULE KeyFormat ------------------------------
(***************************************************************************)
(* Keys, boxes and nonces of the message headers (nonce.go, common.go,     *)
(* signcrypt_seal.go).  Cryptography is symbolic: a box opens with the key *)
(* and the nonce that sealed it, and a hash is what it was computed from.  *)
(***************************************************************************)
EXTENDS Naturals, SequencesExt

Seal(key, nonce, msg) == [key |-> key, nonce |-> nonce, msg |-> msg]

Opens(box, key, nonce) == box.key = key /\ box.nonce = nonce

-----------------------------------------------------------------------------
\* Keys, by what they are derived from.

\* Box and Precompute: the two parties of a box compute the same key.
SharedKey(a, b) == [from |-> {a, b}, ctx |-> "box"]

DerivedEphemeralKeyFromBoxKeys(a, b) == [from |-> {a, b}, ctx |-> "derived"]

DerivedSymmetricKey(ephemeral, key) ==
    [from |-> {ephemeral}, key |-> key, ctx |-> "symmetric"]

PayloadKey == [from |-> {}, ctx |-> "payload"]

KeyIdentifierFromDerivedKey(derived, i) == [derived |-> derived, index |-> i]

-----------------------------------------------------------------------------
\* Nonces.

NonceForSenderKeySecretBox == <<"sender_key_sbox", 0>>

NonceForPayloadKeyBox(major, i) ==
    IF major = 1 THEN <<"payload_key_box", 0>> ELSE <<"recipsb", i>>

\* Mutant of NonceForMACKeyBoxV2: the bit for the ephemeral key is not set.
NonceWithoutEphemeral(hash, ephemeral, i) == <<"mac", hash, FALSE, i>>

NonceForMACKeyBoxV1(hash) == <<"mac", hash, FALSE, 0>>

NonceForMACKeyBoxV2(hash, ephemeral, i) == <<"mac", hash, ephemeral, i>>

\* computeMACKeySingle: a box of zeros is as good as its key and nonce.
ComputeMACKeySingle(a, b, nonce) == [key |-> SharedKey(a, b), nonce |-> nonce]

\* computeMACKeySender and computeMACKeyReceiver: a long-term key and the
\* ephemeral key, each with the receiver's key.
ComputeMACKey(major, i, sender, ephemeral, receiver, hash) ==
    IF major = 1
    THEN <<ComputeMACKeySingle(sender, receiver, NonceForMACKeyBoxV1(hash))>>
    ELSE <<ComputeMACKeySingle(sender, receiver,
                               NonceForMACKeyBoxV2(hash, FALSE, i)),
           ComputeMACKeySingle(ephemeral, receiver,
                               NonceForMACKeyBoxV2(hash, TRUE, i))>>
=============================================================================
