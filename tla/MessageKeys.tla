----------------------------- MODULE MessageKeys -----------------------------
(***************************************************************************)
(* How the receivers of an encrypted or signcrypted message get its keys:  *)
(* encryptStream.init and decryptStream.processHeader (encrypt.go,         *)
(* decrypt.go), signcryptSealStream.init and                               *)
(* signcryptOpenStream.processHeader (signcrypt_seal.go, signcrypt_open.go)*)
(* and the first packet, which shows whether both ends have the same keys. *)
(*                                                                         *)
(* One sender makes a header, it may be altered on its way, and one        *)
(* receiver with a keyring of any content looks for its keys.              *)
(***************************************************************************)
EXTENDS KeyFormat, Shuffle, FiniteSets

CONSTANTS Keys,             \* long-term keys, secret and public
          Ephemeral,        \* the ephemeral key of the message
          SymmetricKeys,    \* keys of ReceiverSymmetricKey
          Identifiers,      \* their identifiers
          NoKID,            \* the empty ReceiverKID of a hidden receiver
          NoKey,            \* no sender, no key
          MaxReceiverCount  \* maxReceiverCount

ASSUME KeysAssumption ==
    /\ IsFiniteSet(Keys) /\ Ephemeral \notin Keys /\ NoKey \notin Keys
    /\ NoKey # Ephemeral /\ NoKey \notin SymmetricKeys
    /\ NoKID \notin Keys \union Identifiers
    /\ \A k \in Keys, i \in 1 .. MaxReceiverCount :
            KeyIdentifierFromDerivedKey(
                DerivedEphemeralKeyFromBoxKeys(k, Ephemeral), i) \notin Identifiers
    /\ MaxReceiverCount \in Nat \ {0} /\ MaxReceiverCount <= WordSize

\* A receiver is a box key or, in signcryption, a symmetric key with its name.
SymmetricReceivers == [key : SymmetricKeys, id : Identifiers]

Receivers(m) == IF m = "encryption" THEN Keys ELSE Keys \union SymmetricReceivers

VARIABLES mode,         \* "encryption" or "signcryption"
          major,        \* the version the sender writes
          sender,       \* its key, or NoKey for an anonymous sender
          hides,        \* the keys with HideIdentity
          asked,        \* history: the receivers the caller has named
          receivers,    \* the receivers, in the order of the header
          sent,         \* the header written
          header,       \* the header read
          ring,         \* the receiver's keyring, resolver and validator
          untried,      \* tryHiddenReceivers: the secret keys still to try
          found,        \* the keys found in the header
          mki,          \* MessageKeyInfo
          pc

vars == <<mode, major, sender, hides, asked, receivers, sent, header, ring,
          untried, found, mki, pc>>

NoHeader == [major |-> 0]
NotFound == [key |-> NoKey, position |-> 0, opened |-> FALSE]

NoInfo == [senderKey |-> NoKey, senderIsAnon |-> FALSE, receiverKey |-> NoKey,
           receiverIsAnon |-> FALSE, named |-> << >>, numAnon |-> 0]

TypeOK ==
    /\ mode \in {"encryption", "signcryption"} /\ major \in 1 .. 3
    /\ sender \in Keys \union {NoKey} /\ hides \subseteq Keys
    /\ receivers \in Seq(Receivers(mode)) /\ Len(receivers) <= MaxReceiverCount
    /\ asked \subseteq Receivers(mode)
    /\ untried \subseteq ring.secret
    /\ found.key \in Keys \union {NoKey} /\ found.position \in 0 .. Len(receivers)
    /\ mki.numAnon \in 0 .. Len(receivers) /\ Len(mki.named) <= Len(receivers)
    /\ pc \in {"start", "refused", "sent", "lookup", "hidden", "sender",
               "packet", "accepted", "failed"}

\* secret: its secret keys, iterable: GetAllBoxSecretKeys returns them, public:
\* the senders it knows, majors: the versions its validator accepts, resolves:
\* what its resolver makes of an identifier.
NoneResolved == [id \in Identifiers |-> NoKey]

Rings(m) ==
    [secret : SUBSET Keys, iterable : BOOLEAN, public : {{}, Keys},
     majors : IF m = "encryption" THEN {{1, 2}, {2}} ELSE {{2}},
     resolves : IF m = "encryption" THEN {NoneResolved}
                ELSE [Identifiers -> SymmetricKeys \union {NoKey}]]

EmptyRing == [secret |-> {}, iterable |-> FALSE, public |-> {}, majors |-> {},
              resolves |-> NoneResolved]

Init ==
    /\ mode \in {"encryption", "signcryption"}
    /\ major \in IF mode = "encryption" THEN 1 .. 3 ELSE {2}
    /\ sender \in Keys \union {NoKey}
    /\ hides \in IF mode = "encryption" THEN SUBSET Keys ELSE {{}}
    /\ asked = {} /\ receivers = << >> /\ sent = NoHeader /\ header = NoHeader
    /\ ring = EmptyRing
    /\ untried = {} /\ found = NotFound /\ mki = NoInfo /\ pc = "start"

-----------------------------------------------------------------------------
\* The sender.

\* The identifiers that must not be repeated.
Kid(r) == IF r \in Keys THEN r ELSE r.id

\* Mutant of CheckReceivers: the number of receivers is not checked.
ReceiversDistinct(rs) ==
    \A i, j \in DOMAIN rs : Kid(rs[i]) = Kid(rs[j]) => i = j

\* checkEncryptReceivers and checkSigncryptReceivers
CheckReceivers(rs) ==
    /\ Len(rs) \in 1 .. MaxReceiverCount
    /\ \A i, j \in DOMAIN rs : Kid(rs[i]) = Kid(rs[j]) => i = j

\* The identity that the header shows for the receiver r in place i.
ReceiverKID(r, i) ==
    IF mode = "encryption" THEN IF r \in hides THEN NoKID ELSE r
    ELSE IF r \in Keys
    THEN KeyIdentifierFromDerivedKey(DerivedEphemeralKeyFromBoxKeys(r, Ephemeral), i)
    ELSE r.id

\* The key that seals the payload key for r.
KeyFor(r) ==
    IF mode = "encryption" THEN SharedKey(Ephemeral, r)
    ELSE IF r \in Keys THEN DerivedEphemeralKeyFromBoxKeys(r, Ephemeral)
    ELSE DerivedSymmetricKey(Ephemeral, r.key)

\* Encryption mode uses the ephemeral key as that of an anonymous sender,
\* signcryption mode a key of zeros.
SenderKey == IF mode = "encryption" /\ sender = NoKey THEN Ephemeral ELSE sender

MakeHeader(rs) ==
    [major |-> major, type |-> mode, ephemeral |-> Ephemeral,
     senderBox |-> Seal(PayloadKey, NonceForSenderKeySecretBox, SenderKey),
     receivers |->
        [i \in DOMAIN rs |->
            [kid |-> ReceiverKID(rs[i], i),
             box |-> Seal(KeyFor(rs[i]), NonceForPayloadKeyBox(major, i),
                          PayloadKey)]]]

\* init: the checks, the shuffle, and the header that is written.  Each step
\* may fail: a bad list, a word or a key that the random source does not give.
NewStream(boxKeys, symmetricKeys) ==
    LET rs == boxKeys \o symmetricKeys
    IN  /\ pc = "start"
        /\ \/ /\ major \in {1, 2} /\ CheckReceivers(rs)
              /\ \E d \in Draws(Len(rs)) : receivers' = CsprngShuffle(rs, d)
              /\ asked' = Range(rs)
              /\ sent' = MakeHeader(receivers') /\ header' = sent'
              /\ pc' = "sent"
           \/ pc' = "refused" /\ UNCHANGED <<asked, receivers, sent, header>>
        /\ UNCHANGED <<mode, major, sender, hides, ring, untried, found, mki>>

-----------------------------------------------------------------------------
\* The way: the header may be altered once.

AlteredReceivers(rs) ==
    { [rs EXCEPT ![i] = rs[j], ![j] = rs[i]] : i, j \in DOMAIN rs }
        \union { RemoveAt(rs, i) : i \in DOMAIN rs }
        \union { [rs EXCEPT ![i].kid = k] : i \in DOMAIN rs,
                                      k \in Keys \union Identifiers \union {NoKID} }

AlteredHeaders(h) ==
    { [h EXCEPT !.receivers = rs] : rs \in AlteredReceivers(h.receivers) }
        \union { [h EXCEPT !.major = v] : v \in 1 .. 3 }
        \union { [h EXCEPT !.type = "other"] }
        \union { [h EXCEPT !.ephemeral = k] : k \in Keys }
        \union { [h EXCEPT !.senderBox.nonce = <<"damaged", 0>>] }

AlterHeader ==
    /\ pc = "sent" /\ header = sent
    /\ header' \in AlteredHeaders(sent) \ {sent}
    /\ UNCHANGED <<mode, major, sender, hides, asked, receivers, sent, ring,
                   untried, found, mki, pc>>

-----------------------------------------------------------------------------
\* The receiver: processHeader.

Reading(next) ==
    /\ pc' = next
    /\ UNCHANGED <<mode, major, sender, hides, asked, receivers, sent, header,
                   ring>>

\* validate, for a receiver with the keyring r
ReadHeader(r) ==
    /\ pc = "sent"
    /\ ring' = r
    /\ pc' = IF header.type = mode /\ header.major \in r.majors
             THEN "lookup" ELSE "failed"
    /\ UNCHANGED <<mode, major, sender, hides, asked, receivers, sent, header,
                   untried, found, mki>>

Entry(i) == header.receivers[i]

PayloadNonce(i) == NonceForPayloadKeyBox(header.major, i)

Visible == { i \in DOMAIN header.receivers : Entry(i).kid # NoKID }
Anonymous == DOMAIN header.receivers \ Visible

\* tab: the places of the visible receivers in the header.
VisiblePlaces ==
    FlattenSeq([i \in DOMAIN header.receivers |->
                    IF i \in Visible THEN <<i>> ELSE << >>])

\* Mutant of Original: the index among the visible receivers.
OriginalForgotten(n) == n

Original(n) == VisiblePlaces[n]

VisibleKIDs == [n \in DOMAIN VisiblePlaces |-> Entry(VisiblePlaces[n]).kid]

\* LookupBoxSecretKey: a key of the ring with its index, any if there are more.
Matches == { n \in DOMAIN VisibleKIDs : VisibleKIDs[n] \in ring.secret }

AllSecretKeys == IF ring.iterable THEN ring.secret ELSE {}

\* Mutant of OpenEntry: a box that does not open is not noticed.
OpenEntryAnyway(i, key, sk) ==
    found' = [key |-> sk, position |-> i, opened |-> TRUE] /\ Reading("sender")

\* The box of the receiver found must open, or the header is refused.
OpenEntry(i, key, sk) ==
    IF Opens(Entry(i).box, key, PayloadNonce(i))
    THEN found' = [key |-> sk, position |-> i, opened |-> TRUE] /\ Reading("sender")
    ELSE Reading("failed") /\ UNCHANGED found

TryVisibleReceivers ==
    /\ pc = "lookup" /\ mode = "encryption" /\ Matches # {}
    /\ mki' = [mki EXCEPT !.named = VisibleKIDs]
    /\ \E n \in Matches :
            OpenEntry(Original(n), SharedKey(header.ephemeral, VisibleKIDs[n]),
                      VisibleKIDs[n])
    /\ UNCHANGED untried

\* Only now are the hidden receivers counted.
NoVisibleReceiver ==
    /\ pc = "lookup" /\ mode = "encryption" /\ Matches = {}
    /\ mki' = [mki EXCEPT !.named = VisibleKIDs, !.receiverIsAnon = TRUE,
                          !.numAnon = Cardinality(Anonymous)]
    /\ untried' = AllSecretKeys
    /\ Reading("hidden") /\ UNCHANGED found

\* An iteration of tryHiddenReceivers: one secret key against all the hidden
\* receivers, the keys in any order.
TryHiddenReceivers ==
    /\ pc = "hidden"
    /\ \/ /\ untried = {}
          /\ Reading("failed") /\ UNCHANGED <<untried, found>>
       \/ \E sk \in untried :
            LET opening == { i \in Anonymous :
                                Opens(Entry(i).box, SharedKey(sk, header.ephemeral),
                                      PayloadNonce(i)) }
            IN  /\ untried' = untried \ {sk}
                /\ IF opening = {} THEN Reading("hidden") /\ UNCHANGED found
                   ELSE /\ found' = [key |-> sk, opened |-> TRUE,
                            position |-> CHOOSE i \in opening :
                                            \A j \in opening : i <= j]
                        /\ Reading("sender")
    /\ UNCHANGED mki

\* tryBoxSecretKeys: the first receiver with an identifier of one of the keys.
Identified ==
    { i \in DOMAIN header.receivers : \E sk \in AllSecretKeys :
        Entry(i).kid = KeyIdentifierFromDerivedKey(
            DerivedEphemeralKeyFromBoxKeys(header.ephemeral, sk), i) }

\* trySharedSymmetricKeys: the first receiver that the resolver has a key for.
Resolved ==
    { i \in DOMAIN header.receivers :
        Entry(i).kid \in Identifiers /\ ring.resolves[Entry(i).kid] # NoKey }

Least(S) == CHOOSE i \in S : \A j \in S : i <= j

TryBoxSecretKeys ==
    /\ pc = "lookup" /\ mode = "signcryption" /\ Identified # {}
    /\ LET i  == Least(Identified)
           sk == CHOOSE k \in AllSecretKeys :
                    Entry(i).kid = KeyIdentifierFromDerivedKey(
                        DerivedEphemeralKeyFromBoxKeys(header.ephemeral, k), i)
       IN  OpenEntry(i, DerivedEphemeralKeyFromBoxKeys(header.ephemeral, sk), sk)
    /\ UNCHANGED <<untried, mki>>

TrySharedSymmetricKeys ==
    /\ pc = "lookup" /\ mode = "signcryption" /\ Identified = {}
    /\ IF Resolved = {} THEN Reading("failed") /\ UNCHANGED found
       ELSE LET i == Least(Resolved)
            IN  OpenEntry(i, DerivedSymmetricKey(header.ephemeral,
                                ring.resolves[Entry(i).kid]), NoKey)
    /\ UNCHANGED <<untried, mki>>

\* The sender's key, from its secret box.
BoxedSender == header.senderBox.msg

ReadSender ==
    /\ pc = "sender"
    /\ IF ~Opens(header.senderBox, PayloadKey, NonceForSenderKeySecretBox)
       THEN Reading("failed") /\ mki' = [mki EXCEPT !.receiverKey = found.key]
       ELSE IF BoxedSender = (IF mode = "encryption" THEN header.ephemeral ELSE NoKey)
       THEN /\ Reading("packet")
            /\ mki' = [mki EXCEPT !.receiverKey = found.key, !.senderIsAnon = TRUE,
                                  !.senderKey = BoxedSender]
       ELSE IF BoxedSender \in ring.public
       THEN /\ Reading("packet")
            /\ mki' = [mki EXCEPT !.receiverKey = found.key, !.senderKey = BoxedSender]
       ELSE Reading("failed") /\ mki' = [mki EXCEPT !.receiverKey = found.key]
    /\ UNCHANGED <<untried, found>>

-----------------------------------------------------------------------------
\* The first packet.

\* The authenticators of encryption mode, one for each receiver.
MACKeysSender ==
    [i \in DOMAIN receivers |->
        ComputeMACKey(major, i, SenderKey, Ephemeral, receivers[i], sent)]

MACKeyReceiver ==
    ComputeMACKey(header.major, found.position, mki.senderKey, header.ephemeral,
                  found.key, header)

\* Mutant of PacketAuthentic: the packet is not bound to the header.
PacketUnbound ==
    mode = "encryption" =>
        MACKeysSender[found.position][1].key = MACKeyReceiver[1].key

\* The authenticator in the place of the receiver, or the nonce and, unless
\* the sender is anonymous, the signature; all of them cover the header.
PacketAuthentic ==
    IF mode = "encryption"
    THEN MACKeysSender[found.position] = MACKeyReceiver /\ header = sent
    ELSE header = sent /\ (mki.senderIsAnon \/ mki.senderKey = sender)

ReadPacket ==
    /\ pc = "packet"
    /\ Reading(IF PacketAuthentic THEN "accepted" ELSE "failed")
    /\ UNCHANGED <<untried, found, mki>>

-----------------------------------------------------------------------------

Next ==
    \/ \E n \in 0 .. MaxReceiverCount + 1 :
        \E m \in IF mode = "encryption" THEN {0} ELSE 0 .. MaxReceiverCount + 1 - n :
            \E boxKeys \in [1 .. n -> Keys] :
                \E symmetricKeys \in [1 .. m -> SymmetricReceivers] :
                    NewStream(boxKeys, symmetricKeys)
    \/ AlterHeader \/ \E r \in Rings(mode) : ReadHeader(r)
    \/ TryVisibleReceivers \/ NoVisibleReceiver \/ TryHiddenReceivers
    \/ TryBoxSecretKeys \/ TrySharedSymmetricKeys
    \/ ReadSender \/ ReadPacket

Spec == Init /\ [][Next]_vars

-----------------------------------------------------------------------------
(* Properties.                                                             *)

\* The receiver can find its key: a visible one by its name, any other one
\* only if the ring lists its keys or the resolver knows it.
CanFind(r) ==
    IF r \notin Keys THEN ring.resolves[r.id] = r.key
    ELSE /\ r \in ring.secret
         /\ (mode = "encryption" /\ r \notin hides) \/ ring.iterable

\* The resolver has no wrong key for a receiver of the message.
ResolverRight ==
    \A r \in asked \ Keys : ring.resolves[r.id] \in {NoKey, r.key}

\* Every receiver the caller has named who can find its key in a header that
\* arrives as it was sent gets through to the payload, wherever the shuffle has
\* put it and whatever other keys its ring holds; visible and hidden, box and
\* symmetric receivers.
ReceiverGetsThrough ==
    /\ pc = "failed" /\ header = sent
    /\ sender = NoKey \/ sender \in ring.public
    /\ major \in ring.majors /\ ResolverRight
    => ~ \E r \in asked : CanFind(r)

\* However the header is altered, only the key of a receiver opens it.
OnlyReceivers ==
    found.opened => \E r \in asked :
        IF r \in Keys THEN found.key = r
        ELSE found.key = NoKey /\ \E id \in Identifiers : ring.resolves[id] = r.key

\* A packet is accepted only under the header that was sent, at the receiver's
\* own place in it, and then MessageKeyInfo tells who the two ends are.
InfoIsTrue ==
    pc = "accepted" =>
        /\ header = sent
        /\ mki.senderIsAnon <=> sender = NoKey
        /\ mki.senderKey = SenderKey
        /\ found.key # NoKey => receivers[found.position] = found.key
        /\ mki.receiverIsAnon <=> mode = "encryption" /\ found.key \in hides

\* Every key and nonce is used once: the boxes of the payload key for all the
\* receivers, and those that make the MAC keys.
Uses ==
    { <<i, 0, sent.receivers[i].box>> : i \in DOMAIN receivers }
        \union { <<i, j, MACKeysSender[i][j]>> : i \in DOMAIN receivers,
                    j \in IF mode = "encryption" THEN 1 .. major ELSE {} }

NonceUsedOnce ==
    pc = "sent" =>
        \A u, v \in Uses :
            u[3].key = v[3].key /\ u[3].nonce = v[3].nonce => u = v

\* The words that are accepted put the receivers in every order equally often:
\* the place of a receiver in the header says nothing about the caller's list.
EveryOrderEquallyOften ==
    pc = "sent" /\ header = sent =>
        LET Ways(p) == Cardinality({ d \in Draws(Len(receivers)) :
                CsprngShuffle(receivers, d) = [i \in DOMAIN receivers |-> receivers[p[i]]] })
        IN  \A p, q \in Bijection(DOMAIN receivers, DOMAIN receivers) : Ways(p) = Ways(q)

-----------------------------------------------------------------------------
(* What a comment of the code claims, and the code does not do.            *)

\* "These fields are not cryptographically verified, and are just repeated
\* from what we saw in the incoming message" (decrypt.go:37): NumAnonReceivers
\* is the number of hidden receivers of the header.
AnonReceiversRepeated ==
    pc = "accepted" /\ mode = "encryption" => mki.numAnon = Cardinality(Anonymous)
=============================================================================
