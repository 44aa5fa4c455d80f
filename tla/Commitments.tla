----------------------------- MODULE Commitments -----------------------------
(***************************************************************************)
(* The commitment engine of src/crates/commitments and the values of       *)
(* src/crates/credentials/src/credential.rs and values.rs, as operators.   *)
(*                                                                         *)
(* Field elements are terms: the image of an unsigned integer, of a limb   *)
(* (the padded byte array that u128::from_le_bytes reads, one to one), of  *)
(* a domain tag, or a hash of other elements. Poseidon is thus ideal: two  *)
(* hashes are equal exactly when their inputs are. What remains is what    *)
(* this code decides: which values are hashed, in which order, from which  *)
(* bytes. Keeping the sorts apart hides no collision: in each hash every   *)
(* position takes one sort only, and where two hashes that could meet      *)
(* differ in it, as a byte header and a later state, their first inputs do *)
(* too: a domain tag and a hash.                                           *)
(***************************************************************************)
EXTENDS Naturals, Sequences, SequencesExt

CONSTANTS
    Byte,           \* u8
    ChunkWidth,     \* LIMB_BYTES, WIDE_LIMB_BYTES, CANONICAL_BYTE_CHUNK (16)
    ReceiverLen,    \* ORCHARD_RECEIVER_LEN (43)
    U64,            \* u64: amounts, nonces, instants
    InvestorClassMax, JurisdictionMax,  \* InvestorClass::MAX, Jurisdiction::MAX
    Field           \* elements that intents and credentials carry as given

AssetBaseLen == 2 * ChunkWidth
NarrowLimbBytes == ReceiverLen - 2 * ChunkWidth

ASSUME CommitmentsAssumption ==
    /\ Byte \subseteq Nat /\ 0 \in Byte
    /\ ChunkWidth \in Nat \ {0}
    /\ ReceiverLen \in Nat
    /\ NarrowLimbBytes \in 1..ChunkWidth
    /\ U64 \subseteq Nat
    /\ InvestorClassMax \in U64 /\ JurisdictionMax \in U64

AssetBaseBytes == [1..AssetBaseLen -> Byte]
OrchardReceiverBytes == [1..ReceiverLen -> Byte]
Limb == [1..ChunkWidth -> Byte]

MatcherFee == [amount : U64, recipient_commitment : Field]

TradeIntent ==
    [offered_asset : AssetBaseBytes, offered_amount : U64,
     requested_asset : AssetBaseBytes, requested_amount : U64,
     recipient_commitment : Field, policy_root : Field,
     matcher_fee : MatcherFee, nonce : U64, expiry : U64]

\* The codes that InvestorClass::from_u64 and Jurisdiction::from_u64 accept.
InvestorClass == {n \in U64 : n <= InvestorClassMax}
Jurisdiction == {n \in U64 : n <= JurisdictionMax}

ActiveCredential ==
    [authority_commitment : Field, subject_secret : Field,
     investor_class : InvestorClass, jurisdiction : Jurisdiction,
     credential_expiry : U64, nonce : U64, approved_receiver : OrchardReceiverBytes]

-----------------------------------------------------------------------------
(* Field elements.                                                         *)

FromU64(n) == <<"num", n>>
FromU128(limb) == <<"limb", limb>>
Domain(label) == <<"tag", label>>
Hash(inputs) == <<"hash", inputs>>

\* little_endian_u128: at most ChunkWidth bytes, padded with zeros.
LittleEndian(bytes) ==
    [i \in 1..ChunkWidth |-> IF i <= Len(bytes) THEN bytes[i] ELSE 0]

-----------------------------------------------------------------------------
(* Limbs.                                                                  *)

EncodeAssetBase(asset) ==
    [hi |-> LittleEndian(SubSeq(asset, ChunkWidth + 1, AssetBaseLen)),
     lo |-> LittleEndian(SubSeq(asset, 1, ChunkWidth))]

DecodeAssetBase(limbs) ==
    [i \in 1..AssetBaseLen |->
        IF i <= ChunkWidth THEN limbs.lo[i] ELSE limbs.hi[i - ChunkWidth]]

AnyReceiverLimbs(limb2) == TRUE     \* mutated form of ReceiverLimbsInRange

\* ReceiverLimbs::new: the third limb fits the narrow width.
ReceiverLimbsInRange(limb2) ==
    \A i \in 1..ChunkWidth : i > NarrowLimbBytes => limb2[i] = 0

EncodeRepeating(receiver) ==    \* mutated form of EncodeReceiver
    [limb0 |-> LittleEndian(SubSeq(receiver, 1, ChunkWidth)),
     limb1 |-> LittleEndian(SubSeq(receiver, 1, ChunkWidth)),
     limb2 |-> LittleEndian(SubSeq(receiver, 2 * ChunkWidth + 1, ReceiverLen))]

EncodeReceiver(receiver) ==
    [limb0 |-> LittleEndian(SubSeq(receiver, 1, ChunkWidth)),
     limb1 |-> LittleEndian(SubSeq(receiver, ChunkWidth + 1, 2 * ChunkWidth)),
     limb2 |-> LittleEndian(SubSeq(receiver, 2 * ChunkWidth + 1, ReceiverLen))]

DecodeReceiver(limbs) ==
    [i \in 1..ReceiverLen |->
        IF i <= ChunkWidth THEN limbs.limb0[i]
        ELSE IF i <= 2 * ChunkWidth THEN limbs.limb1[i - ChunkWidth]
        ELSE limbs.limb2[i - 2 * ChunkWidth]]

-----------------------------------------------------------------------------
(* Commitments.                                                            *)

\* The high limb is hashed before the low limb.
AssetCommitment(asset) ==
    LET limbs == EncodeAssetBase(asset) IN
    Hash(<<Domain("ASSETV1"), FromU128(limbs.hi), FromU128(limbs.lo)>>)

SubjectCommitment(secret) == Hash(<<Domain("SUBJECT1"), secret>>)

ReceiverCommitment(receiver) ==
    LET limbs == EncodeReceiver(receiver) IN
    Hash(<<Domain("RECEIVR1"), FromU128(limbs.limb0), FromU128(limbs.limb1),
           FromU128(limbs.limb2)>>)

RecipientCommitment(subject, receiver) ==
    Hash(<<Domain("RCPBIND1"), subject, receiver>>)

BindRecipient(secret, receiver) ==
    RecipientCommitment(SubjectCommitment(secret), ReceiverCommitment(receiver))

FeeCommitment(fee) ==
    Hash(<<Domain("FEEV1"), Domain("ZEC"), FromU64(fee.amount),
           fee.recipient_commitment>>)

Chunks(bytes) ==
    [i \in 1 .. (Len(bytes) + ChunkWidth - 1) \div ChunkWidth |->
        SubSeq(bytes, (i - 1) * ChunkWidth + 1,
               IF i * ChunkWidth <= Len(bytes) THEN i * ChunkWidth ELSE Len(bytes))]

\* mutated form of ByteHeader: the number of chunks stands in for the length
HeaderWithoutLength(domain, bytes) ==
    Hash(<<domain, FromU64(Len(Chunks(bytes)))>>)

ByteHeader(domain, bytes) ==
    Hash(<<domain, FromU64(Len(bytes)), FromU64(Len(Chunks(bytes)))>>)

\* The states of the hash: it absorbs each chunk with its index.
Absorb(state, bytes, i) ==
    Hash(<<state, FromU128(LittleEndian(Chunks(bytes)[i])), FromU64(i - 1)>>)

States(domain, bytes) ==
    LET state[i \in 0 .. Len(Chunks(bytes))] ==
            IF i = 0 THEN ByteHeader(domain, bytes)
                     ELSE Absorb(state[i - 1], bytes, i)
    IN state

CanonicalBytesCommitment(domain, bytes) == States(domain, bytes)[Len(Chunks(bytes))]

MatcherFeeRecipientCommitment(receiver) ==
    CanonicalBytesCommitment(Domain("FRCPTV1"), receiver)

TradePartA(intent) ==
    Hash(<<Domain("TRDA_V1"), AssetCommitment(intent.offered_asset),
           FromU64(intent.offered_amount), AssetCommitment(intent.requested_asset)>>)

TradePartB(intent) ==
    Hash(<<Domain("TRDB_V1"), FromU64(intent.requested_amount),
           intent.recipient_commitment, intent.policy_root>>)

TradeMetaWithoutNonce(intent) ==    \* mutated form of TradeMeta
    Hash(<<Domain("TRDM_V1"), FeeCommitment(intent.matcher_fee),
           FromU64(intent.expiry)>>)

TradeMeta(intent) ==
    Hash(<<Domain("TRDM_V1"), FeeCommitment(intent.matcher_fee),
           FromU64(intent.nonce), FromU64(intent.expiry)>>)

TradeCommitmentV1(intent) ==
    Hash(<<Domain("TRADE_V1"), TradePartA(intent), TradePartB(intent),
           TradeMeta(intent)>>)

\* The matcher recomputes; it never trusts the presented value.
VerifyTradeCommitment(intent, expected) ==
    IF TradeCommitmentV1(intent) = expected THEN "Ok" ELSE "CommitmentMismatch"

-----------------------------------------------------------------------------
(* Credentials.                                                            *)

CredentialMeta(credential) ==
    Hash(<<Domain("CREDMETA"), FromU64(credential.investor_class),
           FromU64(credential.jurisdiction), FromU64(credential.credential_expiry)>>)

LeafWithoutReceiver(credential) ==  \* mutated form of CredentialLeaf (Phase 0G)
    Hash(<<Domain("CRED_V1"), credential.authority_commitment,
           SubjectCommitment(credential.subject_secret),
           CredentialMeta(credential), FromU64(credential.nonce)>>)

CredentialLeaf(credential) ==
    Hash(<<Domain("CRED_V2"), credential.authority_commitment,
           SubjectCommitment(credential.subject_secret),
           CredentialMeta(credential), FromU64(credential.nonce),
           ReceiverCommitment(credential.approved_receiver)>>)

Authorizes(credential, receiver) ==
    ReceiverCommitment(credential.approved_receiver) = ReceiverCommitment(receiver)

CoversTradeExpiry(credential, expiry) == credential.credential_expiry >= expiry

=============================================================================
