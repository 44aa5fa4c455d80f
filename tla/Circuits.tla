------------------------------ MODULE Circuits ------------------------------
(***************************************************************************)
(* The constraint systems of src/circuits, as predicates on a witness, and *)
(* the off-chain schema that builds witnesses for them.                    *)
(*                                                                         *)
(* A numeric signal is an element 0 .. Modulus - 1 of the field and enters *)
(* a hash as FromU64 does. A limb signal is the padded byte array of a     *)
(* 128-bit limb, or WideLimb, any element that 128 bits cannot hold. Other *)
(* signals are terms of module Commitments, whose ideal hash is used.      *)
(***************************************************************************)
EXTENDS Integers, Commitments

CONSTANTS
    Span,       \* 2^64
    Modulus,    \* the order of the scalar field
    WideLimb

ASSUME CircuitsAssumption ==
    /\ Span \in Nat \ {0, 1}
    /\ U64 = 0 .. Span - 1
    /\ Modulus \in Nat /\ Modulus > 4 * Span
    /\ WideLimb \notin Limb

Element == 0 .. Modulus - 1

LimbSignal == Limb \cup {WideLimb}

AssetSignals == [hi : LimbSignal, lo : LimbSignal]
ReceiverSignals == [limb0 : LimbSignal, limb1 : LimbSignal, limb2 : LimbSignal]

-----------------------------------------------------------------------------
(* Gadgets.                                                                *)

\* Num2Bits of 8, 16 and 64 bits: the signal is at most max.
FitsIn(max, signal) == signal \in 0..max

AnyLimb(signal) == TRUE     \* mutated form of Is128Bits

\* Num2Bits(128) and, for the last receiver limb, Num2Bits(88).
Is128Bits(signal) == signal \in Limb
Is88Bits(signal) == signal \in Limb /\ ReceiverLimbsInRange(signal)

\* circomlib's LessThan(n), span = 2^n: bit n of a + span - b is zero.
LessThan(span, a, b) == (a + span - b) % Modulus < span

GreaterThan(a, b) ==        \* mutated form of GreaterEqThan
    LessThan(2 * Span, b, a)

LessEqThan(a, b) ==         \* mutated form of GreaterEqThan
    LessThan(2 * Span, a, (b + 1) % Modulus)

\* ZKGreaterEqThan(64): one bit wider, so that a + 1 cannot wrap.
GreaterEqThan(a, b) == LessThan(2 * Span, b, (a + 1) % Modulus)

IsBinary(signal) == (signal * (signal - 1)) % Modulus = 0

\* The two ZKMux1 of a level put the running hash on the side the index names.
HashLevel(hash, step) ==
    IF step.index = 0 THEN Hash(<<hash, step.sibling>>)
                      ELSE Hash(<<step.sibling, hash>>)

\* mutated form of MerkleProofVerifier: its output is not constrained
UncheckedMembership(leaf, root, path) ==
    \A i \in DOMAIN path : IsBinary(path[i].index)

\* levelHashes: the running hash after each level of the path.
LevelHashes(leaf, path) ==
    LET hash[k \in 0 .. Len(path)] ==
            IF k = 0 THEN leaf ELSE HashLevel(hash[k - 1], path[k])
    IN hash

MerkleProofVerifier(leaf, root, path) ==
    /\ \A i \in DOMAIN path : IsBinary(path[i].index)
    /\ LevelHashes(leaf, path)[Len(path)] = root

-----------------------------------------------------------------------------
(* Signals of the exact trade that both circuits recompute.                *)

TradeInRange(trade) ==
    /\ Is128Bits(trade.offeredAsset.hi) /\ Is128Bits(trade.offeredAsset.lo)
    /\ Is128Bits(trade.requestedAsset.hi) /\ Is128Bits(trade.requestedAsset.lo)
    /\ \A n \in {trade.offeredAmount, trade.requestedAmount,
                 trade.matcherFeeAmount, trade.nonce, trade.expiry} :
          FitsIn(Span - 1, n)

CircuitAsset(asset) ==
    Hash(<<Domain("ASSETV1"), FromU128(asset.hi), FromU128(asset.lo)>>)

TradeHasher(trade, recipient, policyRoot) ==
    LET fee == Hash(<<Domain("FEEV1"), Domain("ZEC"),
                      FromU64(trade.matcherFeeAmount),
                      trade.matcherFeeRecipientCommitment>>)
        partA == Hash(<<Domain("TRDA_V1"), CircuitAsset(trade.offeredAsset),
                        FromU64(trade.offeredAmount),
                        CircuitAsset(trade.requestedAsset)>>)
        partB == Hash(<<Domain("TRDB_V1"), FromU64(trade.requestedAmount),
                        recipient, policyRoot>>)
        meta == Hash(<<Domain("TRDM_V1"), fee, FromU64(trade.nonce),
                       FromU64(trade.expiry)>>)
    IN Hash(<<Domain("TRADE_V1"), partA, partB, meta>>)

-----------------------------------------------------------------------------
(* RwaInvestorEligibilityV1.                                               *)

CircuitSubject(w) == Hash(<<Domain("SUBJECT1"), w.subjectSecret>>)

\* One signal, consumed by the credential leaf and by the recipient binding.
CircuitReceiver(w) ==
    Hash(<<Domain("RECEIVR1"), FromU128(w.receiver.limb0),
           FromU128(w.receiver.limb1), FromU128(w.receiver.limb2)>>)

CircuitCredentialMeta(w) ==
    Hash(<<Domain("CREDMETA"), FromU64(w.investorClass), FromU64(w.jurisdiction),
           FromU64(w.credentialExpiry)>>)

CircuitCredentialLeaf(w) ==
    Hash(<<Domain("CRED_V2"), w.credentialAuthorityCommitment, CircuitSubject(w),
           CircuitCredentialMeta(w), FromU64(w.credentialNonce), CircuitReceiver(w)>>)

CircuitRecipient(w) ==
    Hash(<<Domain("RCPBIND1"), CircuitSubject(w), CircuitReceiver(w)>>)

CircuitPolicyLeaf(w) ==
    Hash(<<Domain("ELIGPOL1"), FromU64(w.allowedInvestorClass),
           FromU64(w.allowedJurisdiction)>>)

EligibilityInRange(w) ==
    /\ TradeInRange(w.trade)
    /\ Is128Bits(w.receiver.limb0) /\ Is128Bits(w.receiver.limb1)
    /\ Is88Bits(w.receiver.limb2)
    /\ FitsIn(InvestorClassMax, w.investorClass)
    /\ FitsIn(InvestorClassMax, w.allowedInvestorClass)
    /\ FitsIn(JurisdictionMax, w.jurisdiction)
    /\ FitsIn(JurisdictionMax, w.allowedJurisdiction)
    /\ FitsIn(Span - 1, w.credentialExpiry) /\ FitsIn(Span - 1, w.credentialNonce)

SameClassOnly(w) ==         \* mutated form of PolicyTupleMatches
    w.investorClass = w.allowedInvestorClass

PolicyTupleMatches(w) ==
    /\ w.investorClass = w.allowedInvestorClass
    /\ w.jurisdiction = w.allowedJurisdiction

\* Every constraint but the last one, on the public trade commitment.
EligibilityConstraints(activeCredentialRoot, w) ==
    /\ EligibilityInRange(w)
    /\ PolicyTupleMatches(w)
    /\ MerkleProofVerifier(CircuitCredentialLeaf(w), activeCredentialRoot,
                           w.credentialPath)
    /\ MerkleProofVerifier(CircuitPolicyLeaf(w), w.policyRoot, w.policyPath)
    /\ GreaterEqThan(w.credentialExpiry, w.trade.expiry)

EligibilityTrade(w) == TradeHasher(w.trade, CircuitRecipient(w), w.policyRoot)

AcceptsEligibility(activeCredentialRoot, tradeCommitment, w) ==
    /\ EligibilityConstraints(activeCredentialRoot, w)
    /\ EligibilityTrade(w) = tradeCommitment

-----------------------------------------------------------------------------
(* RwaTradeProvenanceV1.                                                   *)

CircuitIssuanceMeta(w) ==
    Hash(<<Domain("ISSMETA1"), w.seriesCommitment, w.policyRoot,
           FromU64(w.issuanceNonce)>>)

CircuitIssuanceLeaf(w) ==
    Hash(<<Domain("ISSUEV1"), w.issuerCommitment, CircuitAsset(w.trade.offeredAsset),
           CircuitIssuanceMeta(w)>>)

ProvenanceConstraints(authorizedIssuanceRoot, w) ==
    /\ TradeInRange(w.trade)
    /\ FitsIn(Span - 1, w.issuanceNonce)
    /\ MerkleProofVerifier(CircuitIssuanceLeaf(w), authorizedIssuanceRoot,
                           w.issuancePath)

ProvenanceTrade(w) == TradeHasher(w.trade, w.recipientCommitment, w.policyRoot)

AcceptsProvenance(authorizedIssuanceRoot, tradeCommitment, w) ==
    /\ ProvenanceConstraints(authorizedIssuanceRoot, w)
    /\ ProvenanceTrade(w) = tradeCommitment

-----------------------------------------------------------------------------
(* The off-chain schema: trees, leaves and the input of an honest prover.  *)

\* The number of leaves of a tree: 1 << depth.
TreeSize[depth \in Nat] == IF depth = 0 THEN 1 ELSE 2 * TreeSize[depth - 1]

PairUp(level) ==
    [i \in 1 .. Len(level) \div 2 |-> Hash(<<level[2 * i - 1], level[2 * i]>>)]

\* buildMerkleTree: level 0 holds the leaves, level depth the root.
MerkleLevels(leaves, depth) ==
    LET level[k \in 0..depth] == IF k = 0 THEN leaves ELSE PairUp(level[k - 1])
    IN level

MerkleRoot(leaves, depth) == MerkleLevels(leaves, depth)[depth][1]

Sibling(cursor) == IF cursor % 2 = 0 THEN cursor + 1 ELSE cursor - 1

\* Where the path from a leaf meets each level, counted from 0.
Cursors(index) ==
    LET cursor[k \in Nat] == IF k = 0 THEN index - 1 ELSE cursor[k - 1] \div 2
    IN cursor

\* Leaves are numbered from 1 here.
MerkleProof(leaves, depth, index) ==
    [k \in 1..depth |->
        LET cursor == Cursors(index)[k - 1] IN
        [sibling |-> MerkleLevels(leaves, depth)[k - 1][Sibling(cursor) + 1],
         index |-> cursor % 2]]

PolicyLeaf(tuple) ==
    Hash(<<Domain("ELIGPOL1"), FromU64(tuple.investorClass),
           FromU64(tuple.jurisdiction)>>)

IssuanceLeaf(issuance, policyRoot) ==
    LET meta == Hash(<<Domain("ISSMETA1"), issuance.seriesCommitment, policyRoot,
                       FromU64(issuance.issuanceNonce)>>)
    IN Hash(<<Domain("ISSUEV1"), issuance.issuerCommitment,
              AssetCommitment(issuance.offeredAsset), meta>>)

\* The trade signals of an intent.
TradeInput(intent) ==
    [offeredAsset |-> EncodeAssetBase(intent.offered_asset),
     offeredAmount |-> intent.offered_amount,
     requestedAsset |-> EncodeAssetBase(intent.requested_asset),
     requestedAmount |-> intent.requested_amount,
     matcherFeeAmount |-> intent.matcher_fee.amount,
     matcherFeeRecipientCommitment |-> intent.matcher_fee.recipient_commitment,
     nonce |-> intent.nonce,
     expiry |-> intent.expiry]

EligibilityInput(intent, credential, path, receiver, tuple, policyPath) ==
    [subjectSecret |-> credential.subject_secret,
     credentialAuthorityCommitment |-> credential.authority_commitment,
     investorClass |-> credential.investor_class,
     jurisdiction |-> credential.jurisdiction,
     credentialExpiry |-> credential.credential_expiry,
     credentialNonce |-> credential.nonce,
     credentialPath |-> path,
     policyRoot |-> intent.policy_root,
     allowedInvestorClass |-> tuple.investorClass,
     allowedJurisdiction |-> tuple.jurisdiction,
     policyPath |-> policyPath,
     receiver |-> EncodeReceiver(receiver),
     trade |-> TradeInput(intent)]

ProvenanceInput(intent, issuance, path) ==
    [issuerCommitment |-> issuance.issuerCommitment,
     seriesCommitment |-> issuance.seriesCommitment,
     policyRoot |-> intent.policy_root,
     issuanceNonce |-> issuance.issuanceNonce,
     issuancePath |-> path,
     recipientCommitment |-> intent.recipient_commitment,
     trade |-> TradeInput(intent)]

=============================================================================
