--------------------------- MODULE WitnessesProofs ---------------------------
(* What the circuits' constraints imply for every field, limb width, tree   *)
(* and witness: what a satisfied witness shows, that the honest one passes, *)
(* and that Merkle paths prove membership at every depth.                   *)
EXTENDS Witnesses, CommitmentsProofs

-----------------------------------------------------------------------------
(* The comparator.                                                         *)

\* A remainder of a number below the modulus is the number.
LEMMA SmallRemainder ==
    ASSUME NEW n \in 0 .. Modulus - 1
    PROVE  n % Modulus = n
<1>1. Modulus \in Nat /\ Modulus > 0
  BY CircuitsAssumption
<1> QED
  BY <1>1

\* On 64-bit signals ZKGreaterEqThan(64) is the comparison that
\* covers_trade_expiry makes in Rust, at equality too: the extra bit absorbs
\* both the borrow and the increment (comparators.circom:77).
THEOREM GreaterEqThanIsGreaterEq ==
    \A a, b \in U64 : GreaterEqThan(a, b) <=> a >= b
<1> SUFFICES ASSUME NEW a \in U64, NEW b \in U64
             PROVE  GreaterEqThan(a, b) <=> a >= b
  OBVIOUS
<1>1. /\ Span \in Nat \ {0} /\ Modulus \in Nat /\ Modulus > 4 * Span
      /\ a \in 0 .. Span - 1 /\ b \in 0 .. Span - 1
  BY CircuitsAssumption
<1>2. a + 1 \in 0 .. Modulus - 1
  BY <1>1
<1>3. (a + 1) % Modulus = a + 1
  BY <1>2, SmallRemainder
<1>4. b + 2 * Span - (a + 1) \in 0 .. Modulus - 1
  BY <1>1
<1>5. (b + 2 * Span - (a + 1)) % Modulus = b + 2 * Span - (a + 1)
  BY <1>4, SmallRemainder
<1>6. GreaterEqThan(a, b) <=> b + 2 * Span - (a + 1) < 2 * Span
  BY <1>3, <1>5 DEF GreaterEqThan, LessThan
<1> QED
  BY <1>1, <1>6

-----------------------------------------------------------------------------
(* Limbs that fit describe bytes.                                          *)

\* Two 128-bit limbs are the encoding of the asset they decode to.
LEMMA LimbsDescribeAssets ==
    ASSUME NEW hi \in Limb, NEW lo \in Limb
    PROVE  LET asset == DecodeAssetBase([hi |-> hi, lo |-> lo])
           IN  /\ asset \in AssetBaseBytes
               /\ EncodeAssetBase(asset) = [hi |-> hi, lo |-> lo]
<1> DEFINE asset == DecodeAssetBase([hi |-> hi, lo |-> lo])
<1>1. /\ ChunkWidth \in Nat \ {0} /\ AssetBaseLen = 2 * ChunkWidth
      /\ hi \in [1..ChunkWidth -> Byte] /\ lo \in [1..ChunkWidth -> Byte]
  BY CommitmentsAssumption DEF AssetBaseLen, Limb
<1>2. asset = [i \in 1..AssetBaseLen |->
                  IF i <= ChunkWidth THEN lo[i] ELSE hi[i - ChunkWidth]]
  BY DEF DecodeAssetBase
<1>3. asset \in AssetBaseBytes
  BY <1>1, <1>2 DEF AssetBaseBytes
<1>4. EncodeAssetBase(asset) =
        [hi |-> [i \in 1..ChunkWidth |-> asset[i + ChunkWidth]],
         lo |-> [i \in 1..ChunkWidth |-> asset[i]]]
  <2> HIDE DEF asset
  <2> QED
    BY <1>3, AssetLimbs
<1>5. [i \in 1..ChunkWidth |-> asset[i + ChunkWidth]] = hi
  BY <1>1, <1>2
<1>6. [i \in 1..ChunkWidth |-> asset[i]] = lo
  BY <1>1, <1>2
<1> QED
  BY <1>3, <1>4, <1>5, <1>6

\* So the circuit's asset hash is the Rust commitment of that asset.
LEMMA CircuitAssetIsAssetCommitment ==
    ASSUME NEW signals, signals.hi \in Limb, signals.lo \in Limb
    PROVE  /\ DecodeAssetBase(signals) \in AssetBaseBytes
           /\ CircuitAsset(signals) = AssetCommitment(DecodeAssetBase(signals))
<1> DEFINE limbs == [hi |-> signals.hi, lo |-> signals.lo]
<1>1. DecodeAssetBase(signals) = DecodeAssetBase(limbs)
  BY DEF DecodeAssetBase
<1>2. /\ DecodeAssetBase(limbs) \in AssetBaseBytes
      /\ EncodeAssetBase(DecodeAssetBase(limbs)) = limbs
  BY LimbsDescribeAssets
<1>3. AssetCommitment(DecodeAssetBase(limbs))
        = Hash(<<Domain("ASSETV1"), FromU128(limbs.hi), FromU128(limbs.lo)>>)
  BY <1>2 DEF AssetCommitment
<1> QED
  BY <1>1, <1>2, <1>3 DEF CircuitAsset

\* The same for receivers, given the 88-bit range of the third limb.
LEMMA CircuitReceiverIsReceiverCommitment ==
    ASSUME NEW w, w.receiver.limb0 \in Limb, w.receiver.limb1 \in Limb,
           w.receiver.limb2 \in Limb, ReceiverLimbsInRange(w.receiver.limb2)
    PROVE  /\ DecodeReceiver(w.receiver) \in OrchardReceiverBytes
           /\ CircuitReceiver(w) = ReceiverCommitment(DecodeReceiver(w.receiver))
<1> DEFINE limbs == [limb0 |-> w.receiver.limb0, limb1 |-> w.receiver.limb1,
                     limb2 |-> w.receiver.limb2]
<1>1. DecodeReceiver(w.receiver) = DecodeReceiver(limbs)
  BY DEF DecodeReceiver
<1>2. EncodeReceiver(DecodeReceiver(limbs)) = limbs
  <2>1. limbs \in [limb0 : Limb, limb1 : Limb, limb2 : Limb]
    OBVIOUS
  <2>2. limbs.limb2 = w.receiver.limb2
    OBVIOUS
  <2> HIDE DEF limbs
  <2> QED
    BY <2>1, <2>2, LimbsInRangeDescribeReceivers
<1>3. DecodeReceiver(limbs) \in OrchardReceiverBytes
  <2>1. /\ ChunkWidth \in Nat \ {0} /\ NarrowLimbBytes \in 1..ChunkWidth
        /\ ReceiverLen \in Nat /\ ReceiverLen = 2 * ChunkWidth + NarrowLimbBytes
    BY CommitmentsAssumption DEF NarrowLimbBytes
  <2>2. /\ limbs.limb0 \in [1..ChunkWidth -> Byte]
        /\ limbs.limb1 \in [1..ChunkWidth -> Byte]
        /\ limbs.limb2 \in [1..ChunkWidth -> Byte]
    BY DEF Limb
  <2> HIDE DEF limbs
  <2> QED
    BY <2>1, <2>2 DEF DecodeReceiver, OrchardReceiverBytes
<1>4. ReceiverCommitment(DecodeReceiver(limbs))
        = Hash(<<Domain("RECEIVR1"), FromU128(limbs.limb0), FromU128(limbs.limb1),
                 FromU128(limbs.limb2)>>)
  BY <1>2 DEF ReceiverCommitment
<1> QED
  BY <1>1, <1>3, <1>4 DEF CircuitReceiver

-----------------------------------------------------------------------------
(* Staging.                                                                *)

\* Both circuits' trade construction is Rust's trade_commitment_v1, for every
\* intent: hash by hash the same inputs in the same order.
THEOREM CircuitsStageLikeRust ==
    \A i : TradeHasher(TradeInput(i), i.recipient_commitment, i.policy_root)
              = TradeCommitmentV1(i)
BY DEF TradeHasher, TradeInput, CircuitAsset, TradeCommitmentV1, TradePartA,
       TradePartB, TradeMeta, AssetCommitment, FeeCommitment

\* Whatever the eligibility witness: an intent exists that the matcher's types
\* can hold, and the circuit's commitment is Rust's commitment of that intent.
THEOREM SatisfiedConstraintsDescribeIntents ==
    ASSUME NEW root, NEW w, EligibilityConstraints(root, w)
    PROVE  /\ IsEncoded(w)
           /\ IsIntent(DescribedIntent(w))
           /\ EligibilityTrade(w) = TradeCommitmentV1(DescribedIntent(w))
<1> DEFINE i == DescribedIntent(w)
<1>1. EligibilityInRange(w)
  BY DEF EligibilityConstraints
<1>2. /\ w.trade.offeredAsset.hi \in Limb /\ w.trade.offeredAsset.lo \in Limb
      /\ w.trade.requestedAsset.hi \in Limb /\ w.trade.requestedAsset.lo \in Limb
  BY <1>1 DEF EligibilityInRange, TradeInRange, Is128Bits
<1>3. /\ w.receiver.limb0 \in Limb /\ w.receiver.limb1 \in Limb
      /\ w.receiver.limb2 \in Limb /\ ReceiverLimbsInRange(w.receiver.limb2)
  BY <1>1 DEF EligibilityInRange, Is128Bits, Is88Bits
<1>4. \A n \in {w.trade.offeredAmount, w.trade.requestedAmount,
                w.trade.matcherFeeAmount, w.trade.nonce, w.trade.expiry} : n \in U64
  BY <1>1, CircuitsAssumption DEF EligibilityInRange, TradeInRange, FitsIn
<1>5. IsEncoded(w)
  BY <1>2, <1>3 DEF IsEncoded
<1>6. /\ DecodeAssetBase(w.trade.offeredAsset) \in AssetBaseBytes
      /\ CircuitAsset(w.trade.offeredAsset)
            = AssetCommitment(DecodeAssetBase(w.trade.offeredAsset))
      /\ DecodeAssetBase(w.trade.requestedAsset) \in AssetBaseBytes
      /\ CircuitAsset(w.trade.requestedAsset)
            = AssetCommitment(DecodeAssetBase(w.trade.requestedAsset))
  BY <1>2, CircuitAssetIsAssetCommitment
<1>7. IsIntent(i)
  BY <1>4, <1>6 DEF IsIntent, DescribedIntent
<1>8. CircuitRecipient(w) = i.recipient_commitment
  <2>1. CircuitReceiver(w) = ReceiverCommitment(DecodeReceiver(w.receiver))
    BY <1>3, CircuitReceiverIsReceiverCommitment
  <2>2. CircuitSubject(w) = SubjectCommitment(w.subjectSecret)
    BY DEF CircuitSubject, SubjectCommitment
  <2>3. i.recipient_commitment
          = BindRecipient(w.subjectSecret, DecodeReceiver(w.receiver))
    BY DEF DescribedIntent
  <2> QED
    BY <2>1, <2>2, <2>3 DEF CircuitRecipient, BindRecipient, RecipientCommitment
<1>9. EligibilityTrade(w) = TradeCommitmentV1(i)
  <2>1. /\ CircuitAsset(w.trade.offeredAsset) = AssetCommitment(i.offered_asset)
        /\ CircuitAsset(w.trade.requestedAsset) = AssetCommitment(i.requested_asset)
    BY <1>6 DEF DescribedIntent
  <2>2. /\ w.trade.offeredAmount = i.offered_amount
        /\ w.trade.requestedAmount = i.requested_amount
        /\ w.trade.matcherFeeAmount = i.matcher_fee.amount
        /\ w.trade.matcherFeeRecipientCommitment = i.matcher_fee.recipient_commitment
        /\ w.trade.nonce = i.nonce /\ w.trade.expiry = i.expiry
        /\ w.policyRoot = i.policy_root
    BY DEF DescribedIntent
  <2> HIDE DEF i
  <2> QED
    BY <1>8, <2>1, <2>2 DEF EligibilityTrade, TradeHasher, TradeCommitmentV1,
        TradePartA, TradePartB, TradeMeta, FeeCommitment
<1> QED
  BY <1>5, <1>7, <1>9

\* The run's invariant, for every choice of trees and every witness presented.
THEOREM ConstraintsAlwaysDescribeIntents == Spec => []ConstraintsDescribeIntents
<1>1. ConstraintsDescribeIntents
  BY SatisfiedConstraintsDescribeIntents DEF ConstraintsDescribeIntents
<1> QED
  BY <1>1, PTL

-----------------------------------------------------------------------------
(* Approved receivers.                                                     *)

\* A satisfied leaf settles to the approved receiver only: if the leaf that the
\* circuit proves membership for is the leaf of an active credential, then the
\* recipient it puts into the trade is the credential's subject bound to the
\* credential's approved receiver, its policy tuple is the credential's, and
\* the credential covers the trade's expiry
\* (rwa_investor_eligibility_v1.circom:120-125).
THEOREM OnlyApprovedReceiverSettles ==
    ASSUME NEW root, NEW w, NEW c \in ActiveCredential,
           EligibilityConstraints(root, w),
           CircuitCredentialLeaf(w) = CredentialLeaf(c)
    PROVE  /\ DescribedIntent(w).recipient_commitment
                = BindRecipient(c.subject_secret, c.approved_receiver)
           /\ w.allowedInvestorClass = c.investor_class
           /\ w.allowedJurisdiction = c.jurisdiction
           /\ CoversTradeExpiry(c, w.trade.expiry)
<1>1. /\ CircuitSubject(w) = SubjectCommitment(c.subject_secret)
      /\ CircuitCredentialMeta(w) = CredentialMeta(c)
      /\ CircuitReceiver(w) = ReceiverCommitment(c.approved_receiver)
  <2>1. <<Domain("CRED_V2"), w.credentialAuthorityCommitment, CircuitSubject(w),
          CircuitCredentialMeta(w), FromU64(w.credentialNonce), CircuitReceiver(w)>>
        = <<Domain("CRED_V2"), c.authority_commitment,
            SubjectCommitment(c.subject_secret), CredentialMeta(c),
            FromU64(c.nonce), ReceiverCommitment(c.approved_receiver)>>
    BY HashInjective DEF CircuitCredentialLeaf, CredentialLeaf
  <2> QED
    BY <2>1
<1>2. /\ w.investorClass = c.investor_class
      /\ w.jurisdiction = c.jurisdiction
      /\ w.credentialExpiry = c.credential_expiry
  <2>1. <<Domain("CREDMETA"), FromU64(w.investorClass), FromU64(w.jurisdiction),
          FromU64(w.credentialExpiry)>>
        = <<Domain("CREDMETA"), FromU64(c.investor_class), FromU64(c.jurisdiction),
            FromU64(c.credential_expiry)>>
    BY <1>1, HashInjective DEF CircuitCredentialMeta, CredentialMeta
  <2>2. /\ FromU64(w.investorClass) = FromU64(c.investor_class)
        /\ FromU64(w.jurisdiction) = FromU64(c.jurisdiction)
        /\ FromU64(w.credentialExpiry) = FromU64(c.credential_expiry)
    BY <2>1
  <2> QED
    BY <2>2, U64Injective
<1>3. w.subjectSecret = c.subject_secret
  <2>1. <<Domain("SUBJECT1"), w.subjectSecret>> = <<Domain("SUBJECT1"), c.subject_secret>>
    BY <1>1, HashInjective DEF CircuitSubject, SubjectCommitment
  <2> QED
    BY <2>1
<1>4. EligibilityInRange(w) /\ PolicyTupleMatches(w)
      /\ GreaterEqThan(w.credentialExpiry, w.trade.expiry)
  BY DEF EligibilityConstraints
<1>5. DecodeReceiver(w.receiver) = c.approved_receiver
  <2>1. /\ w.receiver.limb0 \in Limb /\ w.receiver.limb1 \in Limb
        /\ w.receiver.limb2 \in Limb /\ ReceiverLimbsInRange(w.receiver.limb2)
    BY <1>4 DEF EligibilityInRange, Is128Bits, Is88Bits
  <2>2. /\ DecodeReceiver(w.receiver) \in OrchardReceiverBytes
        /\ CircuitReceiver(w) = ReceiverCommitment(DecodeReceiver(w.receiver))
    BY <2>1, CircuitReceiverIsReceiverCommitment
  <2>3. c.approved_receiver \in OrchardReceiverBytes
    BY DEF ActiveCredential
  <2> QED
    BY <1>1, <2>2, <2>3, ReceiverCommitmentBinds
<1>6. CoversTradeExpiry(c, w.trade.expiry)
  <2>1. w.credentialExpiry \in U64 /\ w.trade.expiry \in U64
    BY <1>4, CircuitsAssumption DEF EligibilityInRange, TradeInRange, FitsIn
  <2>2. w.credentialExpiry >= w.trade.expiry
    BY <1>4, <2>1, GreaterEqThanIsGreaterEq
  <2> QED
    BY <1>2, <2>2 DEF CoversTradeExpiry
<1>7. w.allowedInvestorClass = c.investor_class /\ w.allowedJurisdiction = c.jurisdiction
  BY <1>2, <1>4 DEF PolicyTupleMatches
<1>8. DescribedIntent(w).recipient_commitment
        = BindRecipient(c.subject_secret, c.approved_receiver)
  BY <1>3, <1>5 DEF DescribedIntent
<1> QED
  BY <1>6, <1>7, <1>8

-----------------------------------------------------------------------------
(* Trees and paths. Each recursive definition is first shown to define     *)
(* what it says, level by level.                                           *)

\* A recursive definition over the naturals defines a function.
LEMMA NatRecursion ==
    ASSUME NEW R, NEW base \in R, NEW step \in [R -> R]
    PROVE  \E f \in [Nat -> R] :
              f[0] = base /\ \A n \in Nat : f[n + 1] = step[f[n]]
<1> DEFINE Upto(n) == {f \in [0..n -> R] :
                          \A k \in 0..n : f[k] = IF k = 0 THEN base ELSE step[f[k - 1]]}
           S == {n \in Nat : Upto(n) # {}}
<1>1. 0 \in S
  <2>1. [k \in 0..0 |-> base] \in Upto(0)
    OBVIOUS
  <2> QED
    BY <2>1
<1>2. ASSUME NEW n \in S
      PROVE  n + 1 \in S
  <2>1. n \in Nat
    OBVIOUS
  <2>2. PICK f \in [0..n -> R] :
                \A k \in 0..n : f[k] = IF k = 0 THEN base ELSE step[f[k - 1]]
    OBVIOUS
  <2> DEFINE g == [k \in 0 .. n + 1 |-> IF k = n + 1 THEN step[f[n]] ELSE f[k]]
  <2>3. g \in [0 .. n + 1 -> R]
    BY <2>1, <2>2
  <2>4. ASSUME NEW k \in 0 .. n + 1
        PROVE  g[k] = IF k = 0 THEN base ELSE step[g[k - 1]]
    <3>1. CASE k = n + 1
      BY <2>1, <3>1
    <3>2. CASE k # n + 1
      BY <2>1, <2>2, <3>2
    <3> QED
      BY <3>1, <3>2
  <2>5. g \in Upto(n + 1)
    <3> HIDE DEF g
    <3> QED
      BY <2>3, <2>4
  <2>6. Upto(n + 1) # {}
    BY <2>5
  <2> QED
    BY <2>1, <2>6
<1>3. S = Nat
  <2>1. S \subseteq Nat
    OBVIOUS
  <2> HIDE DEF S
  <2> QED
    BY <1>1, <1>2, <2>1, Induction
<1> DEFINE at == [n \in Nat |-> CHOOSE f : f \in Upto(n)]
<1>4. ASSUME NEW n \in Nat
      PROVE  /\ at[n] \in [0..n -> R]
             /\ \A k \in 0..n : at[n][k] = IF k = 0 THEN base ELSE step[at[n][k - 1]]
  <2>1. \E f : f \in Upto(n)
    BY <1>3
  <2>2. (CHOOSE f : f \in Upto(n)) \in Upto(n)
    <3> HIDE DEF Upto
    <3> QED
      BY <2>1
  <2>3. at[n] \in Upto(n)
    <3> HIDE DEF Upto
    <3> QED
      BY <2>2
  <2> HIDE DEF at
  <2> QED
    BY <2>3
<1> HIDE DEF at
<1>5. \A n \in Nat : at[n + 1][n] = at[n][n]
  <2> SUFFICES ASSUME NEW n \in Nat
               PROVE  at[n + 1][n] = at[n][n]
    OBVIOUS
  <2> DEFINE A == {k \in Nat : k <= n => at[n + 1][k] = at[n][k]}
  <2>1. 0 \in A
    BY <1>4
  <2>2. ASSUME NEW k \in A
        PROVE  k + 1 \in A
    <3>1. CASE k + 1 <= n
      <4>1. /\ k + 1 \in 0..n /\ k + 1 \in 0 .. n + 1
            /\ k \in Nat /\ (k + 1) - 1 = k /\ k + 1 # 0
        BY <3>1
      <4>2. /\ at[n + 1][k + 1] = step[at[n + 1][k]]
           /\ at[n][k + 1] = step[at[n][k]]
        BY <4>1, <1>4
      <4> QED
        BY <4>1, <4>2, <3>1
    <3> QED
      BY <3>1
  <2>3. A = Nat
    <3>1. A \subseteq Nat
      OBVIOUS
    <3> HIDE DEF A
    <3> QED
      BY <2>1, <2>2, <3>1, Induction
  <2> QED
    BY <2>3
<1> DEFINE f == [n \in Nat |-> at[n][n]]
<1>6. f \in [Nat -> R]
  BY <1>4
<1>7. f[0] = base
  BY <1>4
<1>8. ASSUME NEW n \in Nat
      PROVE  f[n + 1] = step[f[n]]
  <2>1. at[n + 1][n] = at[n][n]
    BY <1>5
  <2>2. at[n + 1][n + 1] = step[at[n + 1][n]]
    BY <1>4
  <2> QED
    BY <2>1, <2>2
<1> HIDE DEF f
<1> QED
  BY <1>6, <1>7, <1>8

\* A tree of depth n has 2^n leaves; in particular it has one.
LEMMA TreeSizeDoubles ==
    /\ TreeSize[0] = 1
    /\ \A n \in Nat : TreeSize[n] \in Nat \ {0} /\ TreeSize[n + 1] = 2 * TreeSize[n]
<1>1. TreeSize = [n \in Nat |-> IF n = 0 THEN 1 ELSE 2 * TreeSize[n - 1]]
  <2> DEFINE double == [n \in Nat |-> 2 * n]
  <2>1. double \in [Nat -> Nat]
    OBVIOUS
  <2>2. PICK f \in [Nat -> Nat] : f[0] = 1 /\ \A n \in Nat : f[n + 1] = double[f[n]]
    <3> DEFINE R == Nat
               base == 1
    <3>1. base \in R /\ double \in [R -> R]
      BY <2>1
    <3>2. \E f \in [Nat -> R] : f[0] = base /\ \A n \in Nat : f[n + 1] = double[f[n]]
      <4> HIDE DEF R, base, double
      <4> QED
        BY <3>1, NatRecursion
    <3> QED
      BY <3>2
  <2>3. ASSUME NEW n \in Nat
        PROVE  f[n] = IF n = 0 THEN 1 ELSE 2 * f[n - 1]
    <3>1. CASE n = 0
      BY <2>2, <3>1
    <3>2. CASE n # 0
      <4>1. n - 1 \in Nat /\ (n - 1) + 1 = n
        BY <3>2
      <4> QED
        BY <2>2, <3>2, <4>1
    <3> QED
      BY <3>1, <3>2
  <2>4. f = [n \in Nat |-> IF n = 0 THEN 1 ELSE 2 * f[n - 1]]
    BY <2>3
  <2> QED
    BY <2>4 DEF TreeSize
<1>2. TreeSize[0] = 1
  BY <1>1
<1>3. ASSUME NEW n \in Nat
      PROVE  TreeSize[n + 1] = 2 * TreeSize[n]
  BY <1>1
<1> DEFINE S == {n \in Nat : TreeSize[n] \in Nat \ {0}}
<1>4. S = Nat
  <2>1. S \subseteq Nat /\ 0 \in S
    BY <1>2
  <2>2. ASSUME NEW n \in S
        PROVE  n + 1 \in S
    BY <1>3
  <2> HIDE DEF S
  <2> QED
    BY <2>1, <2>2, Induction
<1> QED
  BY <1>2, <1>3, <1>4

LEMMA MerkleLevelsExist ==
    ASSUME NEW leaves, NEW depth \in Nat
    PROVE  \E f : f = [k \in 0..depth |-> IF k = 0 THEN leaves ELSE PairUp(f[k - 1])]
<1> DEFINE Exists(n) ==
              \E f : f = [k \in 0..n |-> IF k = 0 THEN leaves ELSE PairUp(f[k - 1])]
           S == {n \in Nat : Exists(n)}
<1>1. 0 \in S
  <2> DEFINE f == [k \in 0..0 |-> leaves]
  <2>1. f = [k \in 0..0 |-> IF k = 0 THEN leaves ELSE PairUp(f[k - 1])]
    OBVIOUS
  <2> QED
    BY <2>1
<1>2. ASSUME NEW n \in S
      PROVE  n + 1 \in S
  <2>1. n \in Nat
    OBVIOUS
  <2>2. PICK f : f = [k \in 0..n |-> IF k = 0 THEN leaves ELSE PairUp(f[k - 1])]
    OBVIOUS
  <2> DEFINE g == [k \in 0 .. n + 1 |-> IF k = n + 1 THEN PairUp(f[n]) ELSE f[k]]
  <2>3. g = [k \in 0 .. n + 1 |-> IF k = 0 THEN leaves ELSE PairUp(g[k - 1])]
    <3> SUFFICES ASSUME NEW k \in 0 .. n + 1
                 PROVE  g[k] = IF k = 0 THEN leaves ELSE PairUp(g[k - 1])
      OBVIOUS
    <3>1. CASE k = n + 1
      BY <2>1, <3>1
    <3>2. CASE k # n + 1
      BY <2>1, <2>2, <3>2
    <3> QED
      BY <3>1, <3>2
  <2>4. Exists(n + 1)
    BY <2>3
  <2> QED
    BY <2>1, <2>4
<1>3. S = Nat
  <2>1. S \subseteq Nat
    OBVIOUS
  <2> HIDE DEF S
  <2> QED
    BY <1>1, <1>2, <2>1, Induction
<1> QED
  BY <1>3

\* buildMerkleTree: level 0 is the leaves, and each level pairs up the one before.
LEMMA MerkleLevelsPairUp ==
    ASSUME NEW leaves, NEW depth \in Nat
    PROVE  /\ MerkleLevels(leaves, depth)[0] = leaves
           /\ \A k \in 1..depth : MerkleLevels(leaves, depth)[k]
                                     = PairUp(MerkleLevels(leaves, depth)[k - 1])
<1> DEFINE level == MerkleLevels(leaves, depth)
<1>1. level = [k \in 0..depth |-> IF k = 0 THEN leaves ELSE PairUp(level[k - 1])]
  BY MerkleLevelsExist DEF MerkleLevels
<1> HIDE DEF level
<1>2. /\ level[0] = leaves
      /\ \A k \in 1..depth : level[k] = PairUp(level[k - 1])
  BY <1>1
<1> QED
  BY <1>2 DEF level

LEMMA LevelHashesExist ==
    ASSUME NEW leaf, NEW path, NEW depth \in Nat
    PROVE  \E f : f = [k \in 0..depth |->
                          IF k = 0 THEN leaf ELSE HashLevel(f[k - 1], path[k])]
<1> DEFINE Exists(n) ==
              \E f : f = [k \in 0..n |->
                             IF k = 0 THEN leaf ELSE HashLevel(f[k - 1], path[k])]
           S == {n \in Nat : Exists(n)}
<1>1. 0 \in S
  <2> DEFINE f == [k \in 0..0 |-> leaf]
  <2>1. f = [k \in 0..0 |-> IF k = 0 THEN leaf ELSE HashLevel(f[k - 1], path[k])]
    OBVIOUS
  <2> QED
    BY <2>1
<1>2. ASSUME NEW n \in S
      PROVE  n + 1 \in S
  <2>1. n \in Nat
    OBVIOUS
  <2>2. PICK f : f = [k \in 0..n |->
                         IF k = 0 THEN leaf ELSE HashLevel(f[k - 1], path[k])]
    OBVIOUS
  <2> DEFINE g == [k \in 0 .. n + 1 |->
                      IF k = n + 1 THEN HashLevel(f[n], path[n + 1]) ELSE f[k]]
  <2>3. g = [k \in 0 .. n + 1 |-> IF k = 0 THEN leaf ELSE HashLevel(g[k - 1], path[k])]
    <3> SUFFICES ASSUME NEW k \in 0 .. n + 1
                 PROVE  g[k] = IF k = 0 THEN leaf ELSE HashLevel(g[k - 1], path[k])
      OBVIOUS
    <3>1. CASE k = n + 1
      BY <2>1, <3>1
    <3>2. CASE k # n + 1
      BY <2>1, <2>2, <3>2
    <3> QED
      BY <3>1, <3>2
  <2>4. Exists(n + 1)
    BY <2>3
  <2> QED
    BY <2>1, <2>4
<1>3. S = Nat
  <2>1. S \subseteq Nat
    OBVIOUS
  <2> HIDE DEF S
  <2> QED
    BY <1>1, <1>2, <2>1, Induction
<1> QED
  BY <1>3

\* The signals levelHashes: the leaf, then one hash per level of the path.
LEMMA LevelHashesClimb ==
    ASSUME NEW leaf, NEW path, Len(path) \in Nat
    PROVE  /\ LevelHashes(leaf, path)[0] = leaf
           /\ \A k \in 1..Len(path) :
                 LevelHashes(leaf, path)[k]
                    = HashLevel(LevelHashes(leaf, path)[k - 1], path[k])
<1> DEFINE hash == LevelHashes(leaf, path)
<1>1. hash = [k \in 0..Len(path) |->
                 IF k = 0 THEN leaf ELSE HashLevel(hash[k - 1], path[k])]
  BY LevelHashesExist DEF LevelHashes
<1> HIDE DEF hash
<1>2. /\ hash[0] = leaf
      /\ \A k \in 1..Len(path) : hash[k] = HashLevel(hash[k - 1], path[k])
  BY <1>1
<1> QED
  BY <1>2 DEF hash

\* A path's cursor is halved from level to level (cursor >>= 1).
LEMMA CursorsHalve ==
    ASSUME NEW index \in Nat \ {0}
    PROVE  /\ Cursors(index)[0] = index - 1
           /\ \A k \in Nat : /\ Cursors(index)[k] \in Nat
                             /\ Cursors(index)[k + 1] = Cursors(index)[k] \div 2
<1> DEFINE cursor == Cursors(index)
           halve == [n \in Nat |-> n \div 2]
<1>1. halve \in [Nat -> Nat]
  OBVIOUS
<1>2. PICK f \in [Nat -> Nat] :
              f[0] = index - 1 /\ \A n \in Nat : f[n + 1] = halve[f[n]]
  <2> DEFINE R == Nat
             base == index - 1
  <2>1. base \in R /\ halve \in [R -> R]
    BY <1>1
  <2>2. \E f \in [Nat -> R] : f[0] = base /\ \A n \in Nat : f[n + 1] = halve[f[n]]
    <3> HIDE DEF R, base, halve
    <3> QED
      BY <2>1, NatRecursion
  <2> QED
    BY <2>2
<1>3. ASSUME NEW n \in Nat
      PROVE  f[n] = IF n = 0 THEN index - 1 ELSE f[n - 1] \div 2
  <2>1. CASE n = 0
    BY <1>2, <2>1
  <2>2. CASE n # 0
    <3>1. n - 1 \in Nat /\ (n - 1) + 1 = n
      BY <2>2
    <3> QED
      BY <1>2, <2>2, <3>1
  <2> QED
    BY <2>1, <2>2
<1>4. f = [n \in Nat |-> IF n = 0 THEN index - 1 ELSE f[n - 1] \div 2]
  BY <1>3
<1>5. cursor = [n \in Nat |-> IF n = 0 THEN index - 1 ELSE cursor[n - 1] \div 2]
  BY <1>4 DEF Cursors
<1> HIDE DEF cursor
<1>6. cursor[0] = index - 1 /\ \A n \in Nat : cursor[n + 1] = cursor[n] \div 2
  BY <1>5
<1> DEFINE S == {n \in Nat : cursor[n] \in Nat}
<1>7. S = Nat
  <2>1. index - 1 \in Nat
    OBVIOUS
  <2>2. S \subseteq Nat /\ 0 \in S
    BY <1>6, <2>1
  <2>3. ASSUME NEW n \in S
        PROVE  n + 1 \in S
    BY <1>6
  <2> HIDE DEF S
  <2> QED
    BY <2>2, <2>3, Induction
<1>8. /\ cursor[0] = index - 1
      /\ \A k \in Nat : cursor[k] \in Nat /\ cursor[k + 1] = cursor[k] \div 2
  BY <1>6, <1>7
<1> QED
  BY <1>8 DEF cursor

\* A function on 1..n is a sequence of length n.
LEMMA LengthOf ==
    ASSUME NEW n \in Nat, NEW s, s = [i \in 1..n |-> s[i]]
    PROVE  Len(s) = n /\ DOMAIN s = 1..n
<1> DEFINE R == {s[i] : i \in 1..n}
<1>1. s \in [1..n -> R]
  OBVIOUS
<1> HIDE DEF R
<1> QED
  BY <1>1

LEMMA Halves ==
    \A n \in Nat : /\ n % 2 = 0 => n = 2 * (n \div 2)
                  /\ n % 2 # 0 => n = 2 * (n \div 2) + 1
OBVIOUS

\* One leaf for every place at the bottom of a tree.
FillsTree(leaves, depth) == leaves = [i \in 1 .. TreeSize[depth] |-> leaves[i]]

\* Level k of a tree has as many nodes as a tree of the depth that is left.
LEMMA LevelSizes ==
    ASSUME NEW depth \in Nat, NEW leaves,
           FillsTree(leaves, depth),
           NEW k \in 0..depth
    PROVE  MerkleLevels(leaves, depth)[k]
              = [i \in 1 .. TreeSize[depth - k] |-> MerkleLevels(leaves, depth)[k][i]]
<1> DEFINE level == MerkleLevels(leaves, depth)
           S == {j \in Nat : j <= depth =>
                    level[j] = [i \in 1 .. TreeSize[depth - j] |-> level[j][i]]}
<1>1. level[0] = leaves /\ \A j \in 1..depth : level[j] = PairUp(level[j - 1])
  BY MerkleLevelsPairUp
<1> HIDE DEF level
<1>2. 0 \in S
  <2>1. depth - 0 = depth
    OBVIOUS
  <2> QED
    BY <1>1, <2>1 DEF FillsTree
<1>3. ASSUME NEW j \in S
      PROVE  j + 1 \in S
  <2> SUFFICES ASSUME j + 1 <= depth
               PROVE  level[j + 1]
                         = [i \in 1 .. TreeSize[depth - (j + 1)] |-> level[j + 1][i]]
    OBVIOUS
  <2>1. j \in Nat /\ j + 1 \in 1..depth /\ (j + 1) - 1 = j
    OBVIOUS
  <2>2. level[j] = [i \in 1 .. TreeSize[depth - j] |-> level[j][i]]
    BY <2>1
  <2> DEFINE rest == depth - (j + 1)
  <2>3. rest \in Nat /\ depth - j = rest + 1
    BY <2>1
  <2>4. TreeSize[rest] \in Nat /\ TreeSize[depth - j] = 2 * TreeSize[rest]
    BY <2>3, TreeSizeDoubles
  <2>5. Len(level[j]) = 2 * TreeSize[rest]
    BY <2>2, <2>4, LengthOf
  <2>6. Len(level[j]) \div 2 = TreeSize[rest]
    BY <2>4, <2>5
  <2>7. level[j + 1] = PairUp(level[j])
    BY <1>1, <2>1
  <2> HIDE DEF rest
  <2>8. level[j + 1] = [i \in 1 .. TreeSize[rest] |-> level[j + 1][i]]
    BY <2>6, <2>7 DEF PairUp
  <2> QED
    BY <2>8 DEF rest
<1>4. S = Nat
  <2>1. S \subseteq Nat
    OBVIOUS
  <2> HIDE DEF S
  <2> QED
    BY <1>2, <1>3, <2>1, Induction
<1>5. k \in S
  <2>1. k \in Nat
    OBVIOUS
  <2> HIDE DEF S
  <2> QED
    BY <1>4, <2>1
<1>6. level[k] = [i \in 1 .. TreeSize[depth - k] |-> level[k][i]]
  BY <1>5
<1> QED
  BY <1>6 DEF level

\* A node above the leaves is the hash of the two nodes under it.
LEMMA NodesPairUp ==
    ASSUME NEW depth \in Nat, NEW leaves,
           FillsTree(leaves, depth),
           NEW k \in 1..depth, NEW i \in 1 .. TreeSize[depth - k]
    PROVE  /\ {2 * i - 1, 2 * i} \subseteq 1 .. TreeSize[depth - (k - 1)]
           /\ MerkleLevels(leaves, depth)[k][i]
                 = Hash(<<MerkleLevels(leaves, depth)[k - 1][2 * i - 1],
                          MerkleLevels(leaves, depth)[k - 1][2 * i]>>)
<1> DEFINE level == MerkleLevels(leaves, depth)
           rest == depth - k
<1>1. level[k] = PairUp(level[k - 1])
  BY MerkleLevelsPairUp
<1>2. rest \in Nat /\ depth - (k - 1) = rest + 1
  OBVIOUS
<1>3. TreeSize[rest] \in Nat /\ TreeSize[depth - (k - 1)] = 2 * TreeSize[rest]
  BY <1>2, TreeSizeDoubles
<1>4. level[k - 1] = [j \in 1 .. TreeSize[depth - (k - 1)] |-> level[k - 1][j]]
  <2>1. k - 1 \in 0..depth
    OBVIOUS
  <2> QED
    BY <2>1, LevelSizes
<1> HIDE DEF level
<1>5. Len(level[k - 1]) = 2 * TreeSize[rest]
  BY <1>3, <1>4, LengthOf
<1>6. i \in 1 .. Len(level[k - 1]) \div 2
  BY <1>3, <1>5
<1>7. level[k][i] = Hash(<<level[k - 1][2 * i - 1], level[k - 1][2 * i]>>)
  BY <1>1, <1>6 DEF PairUp
<1>8. {2 * i - 1, 2 * i} \subseteq 1 .. TreeSize[depth - (k - 1)]
  BY <1>3
<1> QED
  BY <1>7, <1>8 DEF level

\* A path of the tree's depth that hashes to the root starts at a leaf: every
\* level of it is a node of that level of the tree (merkle.circom:7-49). What
\* the hash is of decides, whichever side the index puts it on.
THEOREM MembershipIsSound ==
    ASSUME NEW depth \in Nat, NEW leaves,
           FillsTree(leaves, depth),
           NEW leaf, NEW path, Len(path) = depth,
           MerkleProofVerifier(leaf, MerkleRoot(leaves, depth), path)
    PROVE  \E i \in 1 .. TreeSize[depth] : leaf = leaves[i]
<1> DEFINE level == MerkleLevels(leaves, depth)
           hash == LevelHashes(leaf, path)
           S == {j \in Nat : j <= depth =>
                    \E i \in 1 .. TreeSize[j] : hash[depth - j] = level[depth - j][i]}
<1>1. hash[depth] = level[depth][1]
  BY DEF MerkleProofVerifier, MerkleRoot
<1>2. hash[0] = leaf /\ \A j \in 1..depth : hash[j] = HashLevel(hash[j - 1], path[j])
  BY LevelHashesClimb
<1>3. level[0] = leaves
  BY MerkleLevelsPairUp
<1>4. ASSUME NEW k \in 1..depth, NEW i \in 1 .. TreeSize[depth - k]
      PROVE  /\ {2 * i - 1, 2 * i} \subseteq 1 .. TreeSize[depth - (k - 1)]
             /\ level[k][i] = Hash(<<level[k - 1][2 * i - 1], level[k - 1][2 * i]>>)
  BY NodesPairUp
<1> HIDE DEF level, hash
<1>5. 0 \in S
  <2>1. 1 \in 1 .. TreeSize[0]
    BY TreeSizeDoubles
  <2>2. hash[depth - 0] = level[depth - 0][1]
    BY <1>1
  <2> QED
    BY <2>1, <2>2
<1>6. ASSUME NEW j \in S
      PROVE  j + 1 \in S
  <2> SUFFICES ASSUME j + 1 <= depth
               PROVE  \E i \in 1 .. TreeSize[j + 1] :
                         hash[depth - (j + 1)] = level[depth - (j + 1)][i]
    OBVIOUS
  <2> DEFINE k == depth - j
  <2>1. /\ k \in 1..depth /\ depth - k = j /\ depth - (k - 1) = j + 1
        /\ depth - (j + 1) = k - 1
    OBVIOUS
  <2>2. PICK i \in 1 .. TreeSize[j] : hash[k] = level[k][i]
    OBVIOUS
  <2> HIDE DEF k
  <2>3. /\ {2 * i - 1, 2 * i} \subseteq 1 .. TreeSize[j + 1]
        /\ hash[k] = Hash(<<level[k - 1][2 * i - 1], level[k - 1][2 * i]>>)
    BY <1>4, <2>1, <2>2
  <2>4. hash[k] = HashLevel(hash[k - 1], path[k])
    BY <1>2, <2>1
  <2>5. hash[k - 1] \in {level[k - 1][2 * i - 1], level[k - 1][2 * i]}
    <3>1. PICK s : HashLevel(hash[k - 1], path[k]) \in {Hash(<<hash[k - 1], s>>),
                                                       Hash(<<s, hash[k - 1]>>)}
      BY DEF HashLevel
    <3>2. <<level[k - 1][2 * i - 1], level[k - 1][2 * i]>>
             \in {<<hash[k - 1], s>>, <<s, hash[k - 1]>>}
      BY <2>3, <2>4, <3>1, HashInjective
    <3> QED
      BY <3>2
  <2> QED
    BY <2>1, <2>3, <2>5
<1>7. S = Nat
  <2>1. S \subseteq Nat
    OBVIOUS
  <2> HIDE DEF S
  <2> QED
    BY <1>5, <1>6, <2>1, Induction
<1>8. depth \in S
  BY <1>7
<1>9. \E i \in 1 .. TreeSize[depth] : hash[0] = level[0][i]
  <2>1. depth - depth = 0 /\ depth <= depth
    OBVIOUS
  <2> QED
    BY <1>8, <2>1
<1> QED
  BY <1>2, <1>3, <1>9

\* The cursor of a leaf's path stays inside each level of the tree.
LEMMA CursorInLevel ==
    ASSUME NEW depth \in Nat, NEW index \in 1 .. TreeSize[depth], NEW k \in 0..depth
    PROVE  Cursors(index)[k] + 1 \in 1 .. TreeSize[depth - k]
<1> DEFINE cursor == Cursors(index)
           S == {j \in Nat : j <= depth => cursor[j] + 1 \in 1 .. TreeSize[depth - j]}
<1>1. /\ cursor[0] = index - 1
      /\ \A j \in Nat : cursor[j] \in Nat /\ cursor[j + 1] = cursor[j] \div 2
  <2>1. index \in Nat \ {0}
    BY TreeSizeDoubles
  <2> QED
    BY <2>1, CursorsHalve
<1> HIDE DEF cursor
<1>2. 0 \in S
  <2>1. /\ depth - 0 = depth /\ index \in 1 .. TreeSize[depth]
        /\ TreeSize[depth] \in Nat /\ cursor[0] + 1 = index
    BY <1>1, TreeSizeDoubles
  <2> QED
    BY <2>1
<1>3. ASSUME NEW j \in S
      PROVE  j + 1 \in S
  <2> SUFFICES ASSUME j + 1 <= depth
               PROVE  cursor[j + 1] + 1 \in 1 .. TreeSize[depth - (j + 1)]
    OBVIOUS
  <2> DEFINE rest == depth - (j + 1)
  <2>1. j \in Nat /\ rest \in Nat /\ depth - j = rest + 1
    OBVIOUS
  <2>2. cursor[j] + 1 \in 1 .. 2 * TreeSize[rest] /\ TreeSize[rest] \in Nat
    BY <2>1, TreeSizeDoubles
  <2>3. /\ cursor[j] \in Nat /\ cursor[j + 1] \in Nat
        /\ cursor[j + 1] = cursor[j] \div 2
    BY <1>1, <2>1
  <2> HIDE DEF rest
  <2>4. cursor[j + 1] + 1 \in 1 .. TreeSize[rest]
    BY <2>2, <2>3
  <2> QED
    BY <2>4 DEF rest
<1>4. S = Nat
  <2>1. S \subseteq Nat
    OBVIOUS
  <2> HIDE DEF S
  <2> QED
    BY <1>2, <1>3, <2>1, Induction
<1>5. k \in S
  <2>1. k \in Nat
    OBVIOUS
  <2> HIDE DEF S
  <2> QED
    BY <1>4, <2>1
<1> QED
  BY <1>5 DEF cursor

\* Siblings are nodes of the tree, so merkleProof makes a path of its depth.
LEMMA MerkleProofIsPath ==
    ASSUME NEW depth \in Nat, NEW leaves,
           FillsTree(leaves, depth),
           NEW index \in 1 .. TreeSize[depth]
    PROVE  MerkleProof(leaves, depth, index) \in Path(Nodes(leaves, depth), depth)
<1> DEFINE level == MerkleLevels(leaves, depth)
           cursor == Cursors(index)
<1> SUFFICES ASSUME NEW k \in 1..depth
             PROVE  /\ level[k - 1][Sibling(cursor[k - 1]) + 1] \in Nodes(leaves, depth)
                    /\ cursor[k - 1] % 2 \in Element
  BY DEF MerkleProof, Path
<1> DEFINE n == cursor[k - 1]
           rest == depth - k
<1>1. k - 1 \in 0..depth /\ rest \in Nat /\ depth - (k - 1) = rest + 1
  OBVIOUS
<1>2. n \in Nat
  <2>1. index \in Nat \ {0}
    BY TreeSizeDoubles
  <2> QED
    BY <1>1, <2>1, CursorsHalve
<1>3. n + 1 \in 1 .. 2 * TreeSize[rest] /\ TreeSize[rest] \in Nat
  BY <1>1, CursorInLevel, TreeSizeDoubles
<1>4. level[k - 1] = [i \in 1 .. TreeSize[rest + 1] |-> level[k - 1][i]]
  <2>1. level[k - 1] = [i \in 1 .. TreeSize[depth - (k - 1)] |-> level[k - 1][i]]
    BY <1>1, LevelSizes
  <2> QED
    BY <1>1, <2>1
<1>5. TreeSize[rest + 1] = 2 * TreeSize[rest]
  BY <1>1, TreeSizeDoubles
<1>6. level[k - 1] \in {level[j] : j \in 0..depth}
  BY <1>1
<1> HIDE DEF n, rest, level
<1>7. Sibling(n) + 1 \in 1 .. 2 * TreeSize[rest]
  <2>1. CASE n % 2 = 0
    BY <1>2, <1>3, <2>1 DEF Sibling
  <2>2. CASE n % 2 # 0
    BY <1>2, <1>3, <2>2 DEF Sibling
  <2> QED
    BY <2>1, <2>2
<1>8. Sibling(n) + 1 \in DOMAIN level[k - 1]
  BY <1>4, <1>5, <1>7
<1>9. level[k - 1][Sibling(n) + 1] \in Range(level[k - 1])
  BY <1>8 DEF Range
<1>10. level[k - 1][Sibling(n) + 1] \in Nodes(leaves, depth)
  BY <1>1, <1>9 DEF Nodes, level
<1>11. n % 2 \in Element
  BY <1>2, CircuitsAssumption DEF Element
<1> QED
  BY <1>10, <1>11 DEF n

\* The path that merkleProof makes for a leaf is accepted by the circuit.
THEOREM MembershipIsComplete ==
    ASSUME NEW depth \in Nat, NEW leaves,
           FillsTree(leaves, depth),
           NEW index \in 1 .. TreeSize[depth]
    PROVE  MerkleProofVerifier(leaves[index], MerkleRoot(leaves, depth),
                               MerkleProof(leaves, depth, index))
<1> DEFINE level == MerkleLevels(leaves, depth)
           cursor == Cursors(index)
           path == MerkleProof(leaves, depth, index)
           hash == LevelHashes(leaves[index], path)
<1>1. path = [k \in 1..depth |->
                [sibling |-> level[k - 1][Sibling(cursor[k - 1]) + 1],
                 index |-> cursor[k - 1] % 2]]
  BY DEF MerkleProof
<1>2. level[0] = leaves
  BY MerkleLevelsPairUp
<1>3. \A k \in 1..depth : \A i \in 1 .. TreeSize[depth - k] :
         level[k][i] = Hash(<<level[k - 1][2 * i - 1], level[k - 1][2 * i]>>)
  BY NodesPairUp
<1>4. /\ cursor[0] = index - 1
      /\ \A k \in Nat : cursor[k] \in Nat /\ cursor[k + 1] = cursor[k] \div 2
  <2>1. index \in Nat \ {0}
    BY TreeSizeDoubles
  <2> QED
    BY <2>1, CursorsHalve
<1>5. Len(path) = depth /\ DOMAIN path = 1..depth
  <2> HIDE DEF path
  <2>1. path = [k \in 1..depth |-> path[k]]
    BY <1>1
  <2> QED
    BY <2>1, LengthOf
<1>6. /\ hash[0] = leaves[index]
      /\ \A k \in 1..depth : hash[k] = HashLevel(hash[k - 1], path[k])
  <2> HIDE DEF path
  <2> QED
    BY <1>5, LevelHashesClimb
<1>7. \A k \in 0..depth : cursor[k] + 1 \in 1 .. TreeSize[depth - k]
  BY CursorInLevel
<1> HIDE DEF level, cursor, hash, path
<1>8. \A k \in 1..depth : IsBinary(path[k].index)
  <2> SUFFICES ASSUME NEW k \in 1..depth
               PROVE  IsBinary(path[k].index)
    OBVIOUS
  <2>1. k - 1 \in Nat /\ cursor[k - 1] \in Nat
    BY <1>4
  <2>2. path[k].index \in {0, 1}
    BY <1>1, <2>1
  <2>3. 0 % Modulus = 0
    BY SmallRemainder, CircuitsAssumption
  <2>4. path[k].index * (path[k].index - 1) = 0
    BY <2>2
  <2> QED
    BY <2>3, <2>4 DEF IsBinary
<1> DEFINE S == {k \in Nat : k <= depth => hash[k] = level[k][cursor[k] + 1]}
<1>9. 0 \in S
  <2>1. cursor[0] + 1 = index
    BY <1>4, TreeSizeDoubles
  <2> QED
    BY <1>2, <1>6, <2>1
<1>10. ASSUME NEW k \in S
      PROVE  k + 1 \in S
  <2> SUFFICES ASSUME k + 1 <= depth
               PROVE  hash[k + 1] = level[k + 1][cursor[k + 1] + 1]
    OBVIOUS
  <2> DEFINE rest == depth - (k + 1)
  <2>1. /\ k \in Nat /\ k + 1 \in 1..depth /\ (k + 1) - 1 = k
        /\ rest \in Nat /\ depth - k = rest + 1
    OBVIOUS
  <2>2. hash[k] = level[k][cursor[k] + 1]
    BY <2>1
  <2>3. /\ cursor[k] \in Nat /\ cursor[k + 1] \in Nat
        /\ cursor[k + 1] = cursor[k] \div 2
    BY <1>4, <2>1
  <2> DEFINE half == cursor[k + 1]
  <2>5. half + 1 \in 1 .. TreeSize[rest]
    BY <1>7, <2>1
  <2>6. level[k + 1][half + 1]
          = Hash(<<level[k][2 * half + 1], level[k][2 * half + 2]>>)
    <3>1. level[k + 1][half + 1]
            = Hash(<<level[k][2 * (half + 1) - 1], level[k][2 * (half + 1)]>>)
      BY <1>3, <2>1, <2>5
    <3>2. 2 * (half + 1) - 1 = 2 * half + 1 /\ 2 * (half + 1) = 2 * half + 2
      BY <2>3
    <3> QED
      BY <3>1, <3>2
  <2>7. hash[k + 1] = HashLevel(hash[k], path[k + 1])
    BY <1>6, <2>1
  <2>8. path[k + 1] = [sibling |-> level[k][Sibling(cursor[k]) + 1],
                       index |-> cursor[k] % 2]
    BY <1>1, <2>1
  <2>9. CASE cursor[k] % 2 = 0
    <3>1. cursor[k] = 2 * half
      BY <2>3, <2>9, Halves
    <3>2. Sibling(cursor[k]) + 1 = 2 * half + 2
      BY <2>3, <2>9, <3>1 DEF Sibling
    <3>3. hash[k + 1] = Hash(<<hash[k], level[k][2 * half + 2]>>)
      BY <2>7, <2>8, <2>9, <3>2 DEF HashLevel
    <3> QED
      BY <2>2, <2>6, <3>1, <3>3
  <2>10. CASE cursor[k] % 2 # 0
    <3>1. cursor[k] = 2 * half + 1
      BY <2>3, <2>10, Halves
    <3>2. Sibling(cursor[k]) + 1 = 2 * half + 1
      BY <2>3, <2>10, <3>1 DEF Sibling
    <3>3. hash[k + 1] = Hash(<<level[k][2 * half + 1], hash[k]>>)
      BY <2>7, <2>8, <2>10, <3>2 DEF HashLevel
    <3>4. cursor[k] + 1 = 2 * half + 2
      BY <2>3, <3>1
    <3> QED
      BY <2>2, <2>6, <3>3, <3>4
  <2> QED
    BY <2>9, <2>10
<1>11. S = Nat
  <2>1. S \subseteq Nat
    OBVIOUS
  <2> HIDE DEF S
  <2> QED
    BY <1>9, <1>10, <2>1, Induction
<1>12. hash[depth] = level[depth][1]
  <2>1. depth \in S
    BY <1>11
  <2>2. /\ depth <= depth /\ depth - depth = 0
        /\ depth \in Nat /\ cursor[depth] \in Nat
    BY <1>4
  <2>3. /\ cursor[depth] + 1 \in 1 .. TreeSize[0]
        /\ hash[depth] = level[depth][cursor[depth] + 1]
    BY <1>7, <2>1, <2>2
  <2>4. cursor[depth] + 1 = 1
    BY <2>2, <2>3, TreeSizeDoubles
  <2> QED
    BY <2>3, <2>4
<1> QED
  BY <1>5, <1>8, <1>12 DEF MerkleProofVerifier, MerkleRoot, level, hash, path

\* A path decides the leaf: two leaves that hash to one root along one path
\* are the same.
LEMMA PathDeterminesLeaf ==
    ASSUME NEW path, Len(path) \in Nat, NEW leaf1, NEW leaf2, NEW root,
           MerkleProofVerifier(leaf1, root, path), MerkleProofVerifier(leaf2, root, path)
    PROVE  leaf1 = leaf2
<1> DEFINE depth == Len(path)
           hash1 == LevelHashes(leaf1, path)
           hash2 == LevelHashes(leaf2, path)
           S == {j \in Nat : j <= depth => hash1[depth - j] = hash2[depth - j]}
<1>1. hash1[depth] = hash2[depth]
  BY DEF MerkleProofVerifier
<1>2. /\ hash1[0] = leaf1 /\ hash2[0] = leaf2
      /\ \A k \in 1..depth : /\ hash1[k] = HashLevel(hash1[k - 1], path[k])
                             /\ hash2[k] = HashLevel(hash2[k - 1], path[k])
  BY LevelHashesClimb
<1>3. depth \in Nat
  OBVIOUS
<1> HIDE DEF hash1, hash2, depth
<1>4. 0 \in S
  <2>1. depth - 0 = depth
    BY <1>3
  <2> QED
    BY <1>1, <2>1
<1>5. ASSUME NEW j \in S
      PROVE  j + 1 \in S
  <2> SUFFICES ASSUME j + 1 <= depth
               PROVE  hash1[depth - (j + 1)] = hash2[depth - (j + 1)]
    OBVIOUS
  <2> DEFINE k == depth - j
  <2>1. k \in 1..depth /\ depth - (j + 1) = k - 1
    BY <1>3
  <2>2. hash1[k] = hash2[k]
    BY <1>3
  <2>3. HashLevel(hash1[k - 1], path[k]) = HashLevel(hash2[k - 1], path[k])
    BY <1>2, <2>1, <2>2
  <2> HIDE DEF k
  <2>4. hash1[k - 1] = hash2[k - 1]
    <3>1. CASE path[k].index = 0
      <4>1. <<hash1[k - 1], path[k].sibling>> = <<hash2[k - 1], path[k].sibling>>
        BY <2>3, <3>1, HashInjective DEF HashLevel
      <4> QED
        BY <4>1
    <3>2. CASE path[k].index # 0
      <4>1. <<path[k].sibling, hash1[k - 1]>> = <<path[k].sibling, hash2[k - 1]>>
        BY <2>3, <3>2, HashInjective DEF HashLevel
      <4> QED
        BY <4>1
    <3> QED
      BY <3>1, <3>2
  <2> QED
    BY <2>1, <2>4
<1>6. S = Nat
  <2>1. S \subseteq Nat
    OBVIOUS
  <2> HIDE DEF S
  <2> QED
    BY <1>4, <1>5, <2>1, Induction
<1>7. depth \in S
  BY <1>3, <1>6
<1>8. hash1[0] = hash2[0]
  <2>1. depth <= depth /\ depth - depth = 0
    BY <1>3
  <2> QED
    BY <1>7, <2>1
<1> QED
  BY <1>2, <1>8

-----------------------------------------------------------------------------
(* Types.                                                                  *)

LEMMA NumbersAreElements ==
    /\ U64 \subseteq Element /\ Number \subseteq Element
    /\ InvestorClass \subseteq Element /\ Jurisdiction \subseteq Element
    /\ 0 \in U64 /\ 1 \in U64
BY CircuitsAssumption DEF Element, Number, InvestorClass, Jurisdiction

\* The trees of the matcher are trees: functions on a power of two of leaves.
LEMMA LeavesAreTrees ==
    /\ FillsTree(CredentialLeaves, CredentialDepth)
    /\ FillsTree(IssuanceLeaves, IssuanceDepth)
    /\ \A k \in DOMAIN Policies : FillsTree(PolicyLeaves(k), PolicyDepth)
    /\ DOMAIN Credentials = 1 .. TreeSize[CredentialDepth]
    /\ DOMAIN Issuances = 1 .. TreeSize[IssuanceDepth]
    /\ \A k \in DOMAIN Policies : DOMAIN Policies[k] = 1 .. TreeSize[PolicyDepth]
BY WitnessesAssumption DEF FillsTree, CredentialLeaves, IssuanceLeaves, PolicyLeaves

LEMMA PathsAreTyped ==
    /\ \A k \in DOMAIN Credentials :
          CredentialPaths[k] \in Path(CredentialNodes, CredentialDepth)
    /\ \A k \in DOMAIN Issuances :
          IssuancePaths[k] \in Path(IssuanceNodes, IssuanceDepth)
    /\ \A k \in DOMAIN Policies : \A i \in DOMAIN Policies[k] :
          PolicyPaths[k][i] \in Path(PolicyNodes, PolicyDepth)
<1>0. CredentialDepth \in Nat /\ IssuanceDepth \in Nat /\ PolicyDepth \in Nat
  BY WitnessesAssumption
<1>1. ASSUME NEW k \in DOMAIN Credentials
      PROVE  CredentialPaths[k] \in Path(CredentialNodes, CredentialDepth)
  <2>1. MerkleProof(CredentialLeaves, CredentialDepth, k)
           \in Path(Nodes(CredentialLeaves, CredentialDepth), CredentialDepth)
    BY <1>0, LeavesAreTrees, MerkleProofIsPath
  <2> QED
    BY <2>1 DEF CredentialPaths, CredentialNodes
<1>2. ASSUME NEW k \in DOMAIN Issuances
      PROVE  IssuancePaths[k] \in Path(IssuanceNodes, IssuanceDepth)
  <2>1. MerkleProof(IssuanceLeaves, IssuanceDepth, k)
           \in Path(Nodes(IssuanceLeaves, IssuanceDepth), IssuanceDepth)
    BY <1>0, LeavesAreTrees, MerkleProofIsPath
  <2> QED
    BY <2>1 DEF IssuancePaths, IssuanceNodes
<1>3. ASSUME NEW k \in DOMAIN Policies, NEW i \in DOMAIN Policies[k]
      PROVE  PolicyPaths[k][i] \in Path(PolicyNodes, PolicyDepth)
  <2> DEFINE nodes == Nodes(PolicyLeaves(k), PolicyDepth)
  <2>1. MerkleProof(PolicyLeaves(k), PolicyDepth, i) \in Path(nodes, PolicyDepth)
    BY <1>0, LeavesAreTrees, MerkleProofIsPath
  <2>2. nodes \subseteq PolicyNodes
    BY DEF PolicyNodes
  <2>3. PolicyPaths[k][i] = MerkleProof(PolicyLeaves(k), PolicyDepth, i)
    BY DEF PolicyPaths
  <2> HIDE DEF nodes
  <2> QED
    BY <2>1, <2>2, <2>3 DEF Path
<1> QED
  BY <1>1, <1>2, <1>3

LEMMA PolicyRootsAreTyped ==
    \A k \in DOMAIN Policies : PolicyRoot(k) \in Range(PolicyRoots)
BY DEF PolicyRoot, PolicyRoots, Range

\* Encodings are limbs, and limbs that are encodings are bytes.
LEMMA EncodingsAreSignals ==
    /\ \A a \in AssetBaseBytes :
          EncodeAssetBase(a) \in AssetSignals /\ EncodeAssetBase(a).hi \in Limb
          /\ EncodeAssetBase(a).lo \in Limb
    /\ \A r \in OrchardReceiverBytes :
          EncodeReceiver(r) \in ReceiverSignals /\ EncodeReceiver(r).limb0 \in Limb
          /\ EncodeReceiver(r).limb1 \in Limb /\ EncodeReceiver(r).limb2 \in Limb
BY EncodedAssetsAreLimbs, EncodedReceiversAreLimbs
DEF AssetSignals, ReceiverSignals, LimbSignal

LEMMA DecodedReceiversAreBytes ==
    ASSUME NEW l \in [limb0 : Limb, limb1 : Limb, limb2 : Limb]
    PROVE  DecodeReceiver(l) \in OrchardReceiverBytes
<1>1. /\ ChunkWidth \in Nat \ {0} /\ NarrowLimbBytes \in 1..ChunkWidth
      /\ ReceiverLen \in Nat /\ ReceiverLen = 2 * ChunkWidth + NarrowLimbBytes
  BY CommitmentsAssumption DEF NarrowLimbBytes
<1>2. /\ l.limb0 \in [1..ChunkWidth -> Byte] /\ l.limb1 \in [1..ChunkWidth -> Byte]
      /\ l.limb2 \in [1..ChunkWidth -> Byte]
  BY DEF Limb
<1> QED
  BY <1>1, <1>2 DEF DecodeReceiver, OrchardReceiverBytes

\* The intent and the witnesses of a request are well formed.
LEMMA HonestWitnessesAreTyped ==
    ASSUME NEW r \in Requests
    PROVE  /\ IsIntent(RequestedIntent(r))
           /\ HonestEligibility(r) \in EligibilityWitness
           /\ HonestProvenance(r) \in ProvenanceWitness
<1> DEFINE c == Credentials[r.credential]
           issuance == Issuances[r.issuance]
           i == RequestedIntent(r)
           tuple == Policies[issuance.policy][r.entry]
<1>1. /\ c \in ActiveCredential /\ issuance \in Issuance
      /\ r.receiver \in OrchardReceiverBytes /\ r.expiry \in U64
      /\ r.credential \in DOMAIN Credentials /\ r.issuance \in DOMAIN Issuances
  BY WitnessesAssumption
<1>2. /\ issuance.policy \in DOMAIN Policies /\ tuple \in Tuple
      /\ r.entry \in DOMAIN Policies[issuance.policy]
  BY <1>1, WitnessesAssumption DEF Issuance
<1> HIDE DEF c, issuance, tuple
<1>3. SomeField \in Field
  BY <1>1 DEF ActiveCredential, SomeField
<1>4. [j \in 1..AssetBaseLen |-> 0] \in AssetBaseBytes
  BY CommitmentsAssumption DEF AssetBaseBytes
<1>5. i = [offered_asset |-> issuance.offeredAsset, offered_amount |-> 1,
           requested_asset |-> [j \in 1..AssetBaseLen |-> 0], requested_amount |-> 0,
           recipient_commitment |-> BindRecipient(c.subject_secret, r.receiver),
           policy_root |-> PolicyRoot(issuance.policy),
           matcher_fee |-> [amount |-> 0, recipient_commitment |-> SomeField],
           nonce |-> 0, expiry |-> r.expiry]
  BY DEF RequestedIntent, c, issuance
<1> HIDE DEF i
<1>6. issuance.offeredAsset \in AssetBaseBytes
  BY <1>1 DEF Issuance
<1>7. IsIntent(i)
  BY <1>1, <1>4, <1>5, <1>6, NumbersAreElements DEF IsIntent
<1>8. TradeInput(i) \in TradeSignals
  <2>1. /\ EncodeAssetBase(issuance.offeredAsset) \in AssetSignals
        /\ EncodeAssetBase([j \in 1..AssetBaseLen |-> 0]) \in AssetSignals
    BY <1>4, <1>6, EncodingsAreSignals
  <2>2. /\ 0 \in Element /\ 1 \in Element /\ r.expiry \in Element
    BY <1>1, NumbersAreElements
  <2> QED
    BY <1>3, <1>5, <2>1, <2>2 DEF TradeInput, TradeSignals
<1>9. HonestEligibility(r) \in EligibilityWitness
  <2>1. HonestEligibility(r)
          = EligibilityInput(i, c, CredentialPaths[r.credential], r.receiver, tuple,
                             PolicyPaths[issuance.policy][r.entry])
    BY DEF HonestEligibility, c, issuance, tuple, i
  <2>2. /\ CredentialPaths[r.credential] \in Path(CredentialNodes, CredentialDepth)
        /\ PolicyPaths[issuance.policy][r.entry] \in Path(PolicyNodes, PolicyDepth)
    BY <1>1, <1>2, PathsAreTyped
  <2>3. EncodeReceiver(r.receiver) \in ReceiverSignals
    BY <1>1, EncodingsAreSignals
  <2>4. i.policy_root \in Range(PolicyRoots)
    BY <1>2, <1>5, PolicyRootsAreTyped
  <2>5. /\ c.subject_secret \in Field /\ c.authority_commitment \in Field
        /\ c.investor_class \in Element /\ c.jurisdiction \in Element
        /\ c.credential_expiry \in Element /\ c.nonce \in Element
        /\ tuple.investorClass \in Element /\ tuple.jurisdiction \in Element
    BY <1>1, <1>2, NumbersAreElements DEF ActiveCredential, Tuple
  <2> QED
    BY <1>8, <2>1, <2>2, <2>3, <2>4, <2>5 DEF EligibilityInput, EligibilityWitness
<1>10. HonestProvenance(r) \in ProvenanceWitness
  <2>1. HonestProvenance(r) = ProvenanceInput(i, issuance, IssuancePaths[r.issuance])
    BY DEF HonestProvenance, issuance, i
  <2>2. IssuancePaths[r.issuance] \in Path(IssuanceNodes, IssuanceDepth)
    BY <1>1, PathsAreTyped
  <2>3. i.policy_root \in Range(PolicyRoots)
    BY <1>2, <1>5, PolicyRootsAreTyped
  <2>4. /\ issuance.issuerCommitment \in Field /\ issuance.seriesCommitment \in Field
        /\ issuance.issuanceNonce \in Element
    BY <1>1, NumbersAreElements DEF Issuance
  <2>5. i.recipient_commitment \in Recipients
    BY <1>1, <1>5 DEF Recipients, ActiveCredential
  <2> QED
    BY <1>8, <2>1, <2>2, <2>3, <2>4, <2>5 DEF ProvenanceInput, ProvenanceWitness
<1> QED
  BY <1>7, <1>9, <1>10 DEF i

LEMMA PathEditsAreTyped ==
    ASSUME NEW nodes, NEW depth, NEW p \in Path(nodes, depth)
    PROVE  PathEdits(p, nodes) \subseteq Path(nodes, depth)
BY NumbersAreElements DEF PathEdits, Path

LEMMA TradeEditsAreTyped ==
    ASSUME NEW t \in TradeSignals
    PROVE  TradeEdits(t) \subseteq TradeSignals
BY NumbersAreElements DEF TradeEdits, TradeSignals, AssetSignals

LEMMA EligibilityEditsAreTyped ==
    ASSUME NEW w \in EligibilityWitness, NEW v \in EligibilityEdits(w)
    PROVE  v \in EligibilityWitness
<1>1. /\ PathEdits(w.credentialPath, CredentialNodes)
            \subseteq Path(CredentialNodes, CredentialDepth)
      /\ PathEdits(w.policyPath, PolicyNodes) \subseteq Path(PolicyNodes, PolicyDepth)
  BY PathEditsAreTyped DEF EligibilityWitness
<1>2. TradeEdits(w.trade) \subseteq TradeSignals
  BY TradeEditsAreTyped DEF EligibilityWitness
<1>3. Number \subseteq Element
  BY NumbersAreElements
<1> QED
  BY <1>1, <1>2, <1>3, PolicyRootsAreTyped
  DEF EligibilityEdits, EligibilityWitness, ReceiverSignals

LEMMA ProvenanceEditsAreTyped ==
    ASSUME NEW w \in ProvenanceWitness, NEW v \in ProvenanceEdits(w)
    PROVE  v \in ProvenanceWitness
<1>1. PathEdits(w.issuancePath, IssuanceNodes) \subseteq Path(IssuanceNodes, IssuanceDepth)
  BY PathEditsAreTyped DEF ProvenanceWitness
<1>2. TradeEdits(w.trade) \subseteq TradeSignals
  BY TradeEditsAreTyped DEF ProvenanceWitness
<1>3. Number \subseteq Element
  BY NumbersAreElements
<1>4. \A f \in Field, r \in Receivers : BindRecipient(f, r) \in Recipients
  BY WitnessesAssumption DEF Recipients
<1> QED
  BY <1>1, <1>2, <1>3, <1>4, PolicyRootsAreTyped
  DEF ProvenanceEdits, ProvenanceWitness

-----------------------------------------------------------------------------
(* The invariant of the provers.                                           *)

\* Before any alteration the witnesses are the honest ones, whatever has been
\* agreed: the trade they describe is the trade requested.
StillHonest ==
    edits = 0 =>
        /\ eligibility = HonestEligibility(request)
        /\ provenance = HonestProvenance(request)
        /\ intent = RequestedIntent(request)

ProversInv == WitnessesTypeOK /\ StillHonest

\* Presenting a well-formed witness keeps the invariant; the count of
\* alterations has gone up, so nothing is claimed to be honest.
LEMMA PresentingEligibility ==
    ASSUME ProversInv, NEW w \in EligibilityWitness, PresentEligibility(w)
    PROVE  ProversInv'
BY WitnessesAssumption DEF ProversInv, WitnessesTypeOK, StillHonest, PresentEligibility,
   IsIntent

LEMMA PresentingProvenance ==
    ASSUME ProversInv, NEW w \in ProvenanceWitness, PresentProvenance(w)
    PROVE  ProversInv'
BY WitnessesAssumption DEF ProversInv, WitnessesTypeOK, StillHonest, PresentProvenance,
   IsIntent

LEMMA BorrowedCredentialIsTyped ==
    ASSUME ProversInv, NEW k \in DOMAIN Credentials, BorrowCredential(k)
    PROVE  ProversInv'
<1> DEFINE c == Credentials[k]
           w == [eligibility EXCEPT !.subjectSecret = c.subject_secret,
                    !.credentialAuthorityCommitment = c.authority_commitment,
                    !.investorClass = c.investor_class,
                    !.jurisdiction = c.jurisdiction,
                    !.credentialExpiry = c.credential_expiry,
                    !.credentialNonce = c.nonce,
                    !.credentialPath = CredentialPaths[k]]
<1>1. PresentEligibility(w)
  BY DEF BorrowCredential
<1>2. /\ c.subject_secret \in Field /\ c.authority_commitment \in Field
      /\ c.investor_class \in Element /\ c.jurisdiction \in Element
      /\ c.credential_expiry \in Element /\ c.nonce \in Element
  BY WitnessesAssumption, NumbersAreElements DEF ActiveCredential
<1>3. CredentialPaths[k] \in Path(CredentialNodes, CredentialDepth)
  BY PathsAreTyped
<1>4. eligibility \in EligibilityWitness
  BY DEF ProversInv, WitnessesTypeOK
<1>5. w \in EligibilityWitness
  <2> HIDE DEF c
  <2> QED
    BY <1>2, <1>3, <1>4 DEF EligibilityWitness
<1> QED
  BY <1>1, <1>5, PresentingEligibility

LEMMA ChosenPolicyIsTyped ==
    ASSUME ProversInv, NEW policy \in DOMAIN Policies,
           NEW entry \in DOMAIN Policies[policy], ChoosePolicy(policy, entry)
    PROVE  ProversInv'
<1> DEFINE tuple == Policies[policy][entry]
           w == [eligibility EXCEPT !.policyRoot = PolicyRoot(policy),
                    !.allowedInvestorClass = tuple.investorClass,
                    !.allowedJurisdiction = tuple.jurisdiction,
                    !.policyPath = PolicyPaths[policy][entry]]
<1>1. PresentEligibility(w)
  BY DEF ChoosePolicy
<1>2. tuple.investorClass \in Element /\ tuple.jurisdiction \in Element
  BY WitnessesAssumption, NumbersAreElements DEF Tuple
<1>3. /\ PolicyPaths[policy][entry] \in Path(PolicyNodes, PolicyDepth)
      /\ PolicyRoot(policy) \in Range(PolicyRoots)
  BY PathsAreTyped, PolicyRootsAreTyped
<1>4. eligibility \in EligibilityWitness
  BY DEF ProversInv, WitnessesTypeOK
<1>5. w \in EligibilityWitness
  <2> HIDE DEF tuple
  <2> QED
    BY <1>2, <1>3, <1>4 DEF EligibilityWitness
<1> QED
  BY <1>1, <1>5, PresentingEligibility

LEMMA SubstitutedReceiverIsTyped ==
    ASSUME ProversInv, NEW receiver \in Receivers, SubstituteReceiver(receiver)
    PROVE  ProversInv'
<1> DEFINE w == [eligibility EXCEPT !.receiver = EncodeReceiver(receiver)]
<1>1. PresentEligibility(w)
  BY DEF SubstituteReceiver
<1>2. EncodeReceiver(receiver) \in ReceiverSignals
  BY WitnessesAssumption, EncodingsAreSignals
<1>3. w \in EligibilityWitness
  BY <1>2 DEF ProversInv, WitnessesTypeOK, EligibilityWitness
<1> QED
  BY <1>1, <1>3, PresentingEligibility

LEMMA BorrowedIssuanceIsTyped ==
    ASSUME ProversInv, NEW k \in DOMAIN Issuances, BorrowIssuance(k)
    PROVE  ProversInv'
<1> DEFINE i == Issuances[k]
           w == [provenance EXCEPT !.issuerCommitment = i.issuerCommitment,
                    !.seriesCommitment = i.seriesCommitment,
                    !.issuanceNonce = i.issuanceNonce,
                    !.issuancePath = IssuancePaths[k]]
<1>1. PresentProvenance(w)
  BY DEF BorrowIssuance
<1>2. /\ i.issuerCommitment \in Field /\ i.seriesCommitment \in Field
      /\ i.issuanceNonce \in Element
  BY WitnessesAssumption, NumbersAreElements DEF Issuance
<1>3. IssuancePaths[k] \in Path(IssuanceNodes, IssuanceDepth)
  BY PathsAreTyped
<1>4. provenance \in ProvenanceWitness
  BY DEF ProversInv, WitnessesTypeOK
<1>5. w \in ProvenanceWitness
  <2> HIDE DEF i
  <2> QED
    BY <1>2, <1>3, <1>4 DEF ProvenanceWitness
<1> QED
  BY <1>1, <1>5, PresentingProvenance

\* An honest witness describes the intent it was made for: encodings decode to
\* what was encoded.
LEMMA HonestWitnessDescribesRequest ==
    ASSUME NEW r \in Requests
    PROVE  DescribedIntent(HonestEligibility(r)) = RequestedIntent(r)
<1> DEFINE i == RequestedIntent(r)
           w == HonestEligibility(r)
<1>1. /\ w.subjectSecret = Credentials[r.credential].subject_secret
      /\ w.receiver = EncodeReceiver(r.receiver)
      /\ w.policyRoot = i.policy_root /\ w.trade = TradeInput(i)
  BY DEF HonestEligibility, EligibilityInput
<1>2. r.receiver \in OrchardReceiverBytes
  BY WitnessesAssumption
<1>3. DecodeReceiver(w.receiver) = r.receiver
  BY <1>1, <1>2, ReceiverRoundTrip
<1>4. i.offered_asset \in AssetBaseBytes /\ i.requested_asset \in AssetBaseBytes
  BY HonestWitnessesAreTyped DEF IsIntent
<1>5. /\ DecodeAssetBase(w.trade.offeredAsset) = i.offered_asset
      /\ DecodeAssetBase(w.trade.requestedAsset) = i.requested_asset
  BY <1>1, <1>4, AssetBaseRoundTrip DEF TradeInput
<1>6. BindRecipient(w.subjectSecret, DecodeReceiver(w.receiver)) = i.recipient_commitment
  BY <1>1, <1>3 DEF RequestedIntent
<1>7. /\ w.trade.offeredAmount = i.offered_amount
      /\ w.trade.requestedAmount = i.requested_amount
      /\ w.trade.matcherFeeAmount = i.matcher_fee.amount
      /\ w.trade.matcherFeeRecipientCommitment = i.matcher_fee.recipient_commitment
      /\ w.trade.nonce = i.nonce /\ w.trade.expiry = i.expiry
  BY <1>1 DEF TradeInput
<1>8. DescribedIntent(w)
        = [offered_asset |-> i.offered_asset, offered_amount |-> i.offered_amount,
           requested_asset |-> i.requested_asset,
           requested_amount |-> i.requested_amount,
           recipient_commitment |-> i.recipient_commitment,
           policy_root |-> i.policy_root,
           matcher_fee |-> [amount |-> i.matcher_fee.amount,
                            recipient_commitment |-> i.matcher_fee.recipient_commitment],
           nonce |-> i.nonce, expiry |-> i.expiry]
  <2> HIDE DEF i, w
  <2> QED
    BY <1>1, <1>5, <1>6, <1>7 DEF DescribedIntent
<1> QED
  BY <1>8 DEF RequestedIntent

\* Agreement leads to a well-formed intent, and to the requested one as long as
\* nothing has been altered.
LEMMA AgreementIsTyped ==
    ASSUME ProversInv, Agree
    PROVE  ProversInv'
<1> DEFINE described == DescribedIntent(eligibility)
<1>1. /\ IsEncoded(eligibility) /\ IsIntent(described) /\ intent' = described
      /\ provenance' = [provenance EXCEPT !.trade = eligibility.trade,
                           !.policyRoot = eligibility.policyRoot,
                           !.recipientCommitment = described.recipient_commitment]
      /\ UNCHANGED <<request, eligibility, edits>>
  BY DEF Agree
<1>2. /\ eligibility \in EligibilityWitness /\ provenance \in ProvenanceWitness
      /\ request \in Requests /\ edits \in 0..MaxEdits[request]
  BY DEF ProversInv, WitnessesTypeOK
<1>3. described.recipient_commitment \in Recipients
  <2>1. eligibility.subjectSecret \in Field
    BY <1>2 DEF EligibilityWitness
  <2>2. eligibility.receiver \in [limb0 : Limb, limb1 : Limb, limb2 : Limb]
    BY <1>1, <1>2 DEF IsEncoded, EligibilityWitness, ReceiverSignals
  <2>3. DecodeReceiver(eligibility.receiver) \in OrchardReceiverBytes
    BY <2>2, DecodedReceiversAreBytes
  <2> QED
    BY <2>1, <2>3 DEF Recipients, DescribedIntent
<1>4. provenance' \in ProvenanceWitness
  <2>1. eligibility.trade \in TradeSignals /\ eligibility.policyRoot \in Range(PolicyRoots)
    BY <1>2 DEF EligibilityWitness
  <2> HIDE DEF described
  <2> QED
    BY <1>1, <1>2, <1>3, <2>1 DEF ProvenanceWitness
<1>5. WitnessesTypeOK'
  BY <1>1, <1>2, <1>4 DEF WitnessesTypeOK, IsIntent
<1>6. StillHonest'
  <2> SUFFICES ASSUME edits = 0
               PROVE  /\ eligibility' = HonestEligibility(request)
                      /\ provenance' = HonestProvenance(request)
                      /\ intent' = RequestedIntent(request)
    BY <1>1 DEF StillHonest
  <2>1. /\ eligibility = HonestEligibility(request)
        /\ provenance = HonestProvenance(request)
    BY DEF ProversInv, StillHonest
  <2>2. described = RequestedIntent(request)
    BY <1>2, <2>1, HonestWitnessDescribesRequest
  <2>3. /\ eligibility.trade = TradeInput(described)
        /\ eligibility.policyRoot = described.policy_root
    BY <2>1, <2>2 DEF HonestEligibility, EligibilityInput
  <2>4. provenance = ProvenanceInput(described, Issuances[request.issuance],
                                     IssuancePaths[request.issuance])
    BY <2>1, <2>2 DEF HonestProvenance
  <2> HIDE DEF described
  <2>5. provenance' = provenance
    <3>1. /\ provenance.trade = eligibility.trade
          /\ provenance.policyRoot = eligibility.policyRoot
          /\ provenance.recipientCommitment = described.recipient_commitment
      BY <2>3, <2>4 DEF ProvenanceInput
    <3> QED
      BY <1>1, <1>2, <3>1 DEF ProvenanceWitness
  <2> QED
    BY <1>1, <2>1, <2>2, <2>5
<1> QED
  BY <1>5, <1>6 DEF ProversInv

\* The invariant holds in every reachable state.
THEOREM ProversInvariant == Spec => []ProversInv
<1>1. Init => ProversInv
  <2> SUFFICES ASSUME Init
               PROVE  ProversInv
    OBVIOUS
  <2>1. MaxEdits[request] \in Nat
    BY WitnessesAssumption DEF Init
  <2> QED
    BY <2>1, HonestWitnessesAreTyped DEF Init, ProversInv, WitnessesTypeOK, StillHonest
<1>2. ProversInv /\ [Next]_vars => ProversInv'
  <2> SUFFICES ASSUME ProversInv, [Next]_vars
               PROVE  ProversInv'
    OBVIOUS
  <2>1. ASSUME NEW w \in EligibilityEdits(eligibility), PresentEligibility(w)
        PROVE  ProversInv'
    <3>1. w \in EligibilityWitness
      BY EligibilityEditsAreTyped DEF ProversInv, WitnessesTypeOK
    <3> QED
      BY <2>1, <3>1, PresentingEligibility
  <2>2. ASSUME NEW w \in ProvenanceEdits(provenance), PresentProvenance(w)
        PROVE  ProversInv'
    <3>1. w \in ProvenanceWitness
      BY ProvenanceEditsAreTyped DEF ProversInv, WitnessesTypeOK
    <3> QED
      BY <2>2, <3>1, PresentingProvenance
  <2>3. CASE \E k \in DOMAIN Credentials : BorrowCredential(k)
    BY <2>3, BorrowedCredentialIsTyped
  <2>4. CASE \E policy \in DOMAIN Policies : \E entry \in DOMAIN Policies[policy] :
                ChoosePolicy(policy, entry)
    BY <2>4, ChosenPolicyIsTyped
  <2>5. CASE \E receiver \in Receivers : SubstituteReceiver(receiver)
    BY <2>5, SubstitutedReceiverIsTyped
  <2>6. CASE \E k \in DOMAIN Issuances : BorrowIssuance(k)
    BY <2>6, BorrowedIssuanceIsTyped
  <2>7. CASE Agree
    BY <2>7, AgreementIsTyped
  <2>8. CASE UNCHANGED vars
    BY <2>8 DEF vars, ProversInv, WitnessesTypeOK, StillHonest, IsIntent
  <2> QED
    BY <2>1, <2>2, <2>3, <2>4, <2>5, <2>6, <2>7, <2>8 DEF Next
<1> QED
  BY <1>1, <1>2, PTL DEF Spec

-----------------------------------------------------------------------------
(* Completeness: who is accepted without having altered anything.          *)

\* The trade signals of a well-formed intent pass the circuits' range checks.
LEMMA TradeInputInRange ==
    ASSUME NEW i, IsIntent(i)
    PROVE  TradeInRange(TradeInput(i))
<1>1. /\ EncodeAssetBase(i.offered_asset).hi \in Limb
      /\ EncodeAssetBase(i.offered_asset).lo \in Limb
      /\ EncodeAssetBase(i.requested_asset).hi \in Limb
      /\ EncodeAssetBase(i.requested_asset).lo \in Limb
  BY EncodingsAreSignals DEF IsIntent
<1>2. /\ i.offered_amount \in 0 .. Span - 1 /\ i.requested_amount \in 0 .. Span - 1
      /\ i.matcher_fee.amount \in 0 .. Span - 1 /\ i.nonce \in 0 .. Span - 1
      /\ i.expiry \in 0 .. Span - 1
  BY CircuitsAssumption DEF IsIntent
<1> QED
  BY <1>1, <1>2 DEF TradeInRange, TradeInput, Is128Bits, FitsIn

\* An honest eligibility witness satisfies the circuit exactly when the Rust
\* types call the request eligible. That an approval of the receiver is needed
\* is because the path decides the leaf.
LEMMA HonestEligibilityAcceptedIffEligible ==
    ASSUME NEW r \in Requests
    PROVE  AcceptsEligibility(ActiveCredentialRoot, TradeCommitmentV1(RequestedIntent(r)),
                              HonestEligibility(r))
              <=> Eligible(r)
<1> DEFINE c == Credentials[r.credential]
           policy == Issuances[r.issuance].policy
           tuple == Policies[policy][r.entry]
           i == RequestedIntent(r)
           w == HonestEligibility(r)
<1>1. /\ r.credential \in DOMAIN Credentials /\ r.issuance \in DOMAIN Issuances
      /\ c \in ActiveCredential /\ r.receiver \in OrchardReceiverBytes
      /\ Issuances[r.issuance] \in Issuance /\ r.expiry \in U64
      /\ CredentialDepth \in Nat /\ PolicyDepth \in Nat
  BY WitnessesAssumption
<1>2. policy \in DOMAIN Policies /\ tuple \in Tuple /\ r.entry \in DOMAIN Policies[policy]
  BY <1>1, WitnessesAssumption DEF Issuance
<1>3. /\ w.subjectSecret = c.subject_secret
      /\ w.credentialAuthorityCommitment = c.authority_commitment
      /\ w.investorClass = c.investor_class /\ w.jurisdiction = c.jurisdiction
      /\ w.credentialExpiry = c.credential_expiry /\ w.credentialNonce = c.nonce
      /\ w.credentialPath = CredentialPaths[r.credential]
      /\ w.policyRoot = i.policy_root
      /\ w.allowedInvestorClass = tuple.investorClass
      /\ w.allowedJurisdiction = tuple.jurisdiction
      /\ w.policyPath = PolicyPaths[policy][r.entry]
      /\ w.receiver = EncodeReceiver(r.receiver) /\ w.trade = TradeInput(i)
  BY DEF HonestEligibility, EligibilityInput
<1>4. /\ i.policy_root = PolicyRoot(policy) /\ i.expiry = r.expiry
      /\ i.recipient_commitment = BindRecipient(c.subject_secret, r.receiver)
  BY DEF RequestedIntent
<1>5. IsIntent(i)
  BY HonestWitnessesAreTyped
<1> HIDE DEF c, policy, tuple, i, w
<1>6. /\ CircuitReceiver(w) = ReceiverCommitment(r.receiver)
      /\ CircuitSubject(w) = SubjectCommitment(c.subject_secret)
      /\ CircuitCredentialMeta(w) = CredentialMeta(c)
      /\ CircuitPolicyLeaf(w) = PolicyLeaf(tuple)
  BY <1>3 DEF CircuitReceiver, ReceiverCommitment, CircuitSubject, SubjectCommitment,
              CircuitCredentialMeta, CredentialMeta, CircuitPolicyLeaf, PolicyLeaf
<1>7. EligibilityTrade(w) = TradeCommitmentV1(i)
  <2>1. CircuitRecipient(w) = i.recipient_commitment
    BY <1>4, <1>6 DEF CircuitRecipient, BindRecipient, RecipientCommitment
  <2>2. EligibilityTrade(w)
           = TradeHasher(TradeInput(i), i.recipient_commitment, i.policy_root)
    BY <1>3, <2>1 DEF EligibilityTrade
  <2> QED
    BY <2>2, CircuitsStageLikeRust
<1>8. EligibilityInRange(w)
  <2>1. TradeInRange(w.trade)
    BY <1>3, <1>5, TradeInputInRange
  <2>2. /\ Is128Bits(w.receiver.limb0) /\ Is128Bits(w.receiver.limb1)
        /\ Is88Bits(w.receiver.limb2)
    BY <1>1, <1>3, EncodingsAreSignals, ReceiverRoundTrip DEF Is128Bits, Is88Bits
  <2>3. /\ FitsIn(InvestorClassMax, w.investorClass)
        /\ FitsIn(InvestorClassMax, w.allowedInvestorClass)
        /\ FitsIn(JurisdictionMax, w.jurisdiction)
        /\ FitsIn(JurisdictionMax, w.allowedJurisdiction)
    BY <1>1, <1>2, <1>3, CommitmentsAssumption
    DEF FitsIn, ActiveCredential, Tuple, InvestorClass, Jurisdiction
  <2>4. FitsIn(Span - 1, w.credentialExpiry) /\ FitsIn(Span - 1, w.credentialNonce)
    BY <1>1, <1>3, CircuitsAssumption DEF FitsIn, ActiveCredential
  <2> QED
    BY <2>1, <2>2, <2>3, <2>4 DEF EligibilityInRange
<1>9. MerkleProofVerifier(CircuitPolicyLeaf(w), w.policyRoot, w.policyPath)
  <2>1. /\ r.entry \in 1 .. TreeSize[PolicyDepth]
        /\ FillsTree(PolicyLeaves(policy), PolicyDepth)
    BY <1>2, LeavesAreTrees
  <2>2. MerkleProofVerifier(PolicyLeaves(policy)[r.entry],
                            MerkleRoot(PolicyLeaves(policy), PolicyDepth),
                            MerkleProof(PolicyLeaves(policy), PolicyDepth, r.entry))
    BY <1>1, <2>1, MembershipIsComplete
  <2>3. PolicyLeaves(policy)[r.entry] = PolicyLeaf(tuple)
    BY <1>2 DEF PolicyLeaves, tuple
  <2>4. PolicyRoot(policy) = MerkleRoot(PolicyLeaves(policy), PolicyDepth)
    BY <1>2 DEF PolicyRoot, PolicyRoots
  <2>5. PolicyPaths[policy][r.entry] = MerkleProof(PolicyLeaves(policy), PolicyDepth, r.entry)
    BY <1>2 DEF PolicyPaths
  <2> QED
    BY <1>3, <1>4, <1>6, <2>2, <2>3, <2>4, <2>5
<1>10. /\ MerkleProofVerifier(CredentialLeaf(c), ActiveCredentialRoot, w.credentialPath)
       /\ Len(w.credentialPath) = CredentialDepth
  <2>1. /\ r.credential \in 1 .. TreeSize[CredentialDepth]
        /\ FillsTree(CredentialLeaves, CredentialDepth)
    BY <1>1, LeavesAreTrees
  <2>2. MerkleProofVerifier(CredentialLeaves[r.credential],
                            MerkleRoot(CredentialLeaves, CredentialDepth),
                            MerkleProof(CredentialLeaves, CredentialDepth, r.credential))
    BY <1>1, <2>1, MembershipIsComplete
  <2>3. CredentialLeaves[r.credential] = CredentialLeaf(c)
    BY <1>1 DEF CredentialLeaves, c
  <2>4. CredentialPaths[r.credential]
          = MerkleProof(CredentialLeaves, CredentialDepth, r.credential)
    BY <1>1 DEF CredentialPaths
  <2>5. CredentialPaths[r.credential] = [j \in 1..CredentialDepth |->
                                            CredentialPaths[r.credential][j]]
    BY <1>1, PathsAreTyped DEF Path
  <2>6. Len(CredentialPaths[r.credential]) = CredentialDepth
    BY <1>1, <2>5, LengthOf
  <2> QED
    BY <1>3, <2>2, <2>3, <2>4, <2>6 DEF ActiveCredentialRoot
<1>11. MerkleProofVerifier(CircuitCredentialLeaf(w), ActiveCredentialRoot, w.credentialPath)
          <=> Authorizes(c, r.receiver)
  <2>1. CircuitCredentialLeaf(w)
          = Hash(<<Domain("CRED_V2"), c.authority_commitment,
                   SubjectCommitment(c.subject_secret), CredentialMeta(c),
                   FromU64(c.nonce), ReceiverCommitment(r.receiver)>>)
    BY <1>3, <1>6 DEF CircuitCredentialLeaf
  <2>2. ASSUME Authorizes(c, r.receiver)
        PROVE  CircuitCredentialLeaf(w) = CredentialLeaf(c)
    BY <2>1, <2>2 DEF Authorizes, CredentialLeaf
  <2>3. ASSUME MerkleProofVerifier(CircuitCredentialLeaf(w), ActiveCredentialRoot,
                                   w.credentialPath)
        PROVE  Authorizes(c, r.receiver)
    <3>1. CircuitCredentialLeaf(w) = CredentialLeaf(c)
      BY <1>1, <1>10, <2>3, PathDeterminesLeaf
    <3>2. <<Domain("CRED_V2"), c.authority_commitment,
            SubjectCommitment(c.subject_secret), CredentialMeta(c),
            FromU64(c.nonce), ReceiverCommitment(r.receiver)>>
          = <<Domain("CRED_V2"), c.authority_commitment,
              SubjectCommitment(c.subject_secret), CredentialMeta(c),
              FromU64(c.nonce), ReceiverCommitment(c.approved_receiver)>>
      BY <2>1, <3>1, HashInjective DEF CredentialLeaf
    <3> QED
      BY <3>2 DEF Authorizes
  <2> QED
    BY <1>10, <2>2, <2>3
<1>12. GreaterEqThan(w.credentialExpiry, w.trade.expiry) <=> CoversTradeExpiry(c, r.expiry)
  <2>1. w.trade.expiry = r.expiry /\ w.credentialExpiry \in U64
    BY <1>1, <1>3, <1>4 DEF TradeInput, ActiveCredential
  <2> QED
    BY <1>1, <1>3, <2>1, GreaterEqThanIsGreaterEq DEF CoversTradeExpiry
<1>13. PolicyTupleMatches(w) <=> /\ c.investor_class = tuple.investorClass
                                 /\ c.jurisdiction = tuple.jurisdiction
  BY <1>3 DEF PolicyTupleMatches
<1>14. AcceptsEligibility(ActiveCredentialRoot, TradeCommitmentV1(i), w)
          <=> /\ Authorizes(c, r.receiver)
              /\ c.investor_class = tuple.investorClass
              /\ c.jurisdiction = tuple.jurisdiction
              /\ CoversTradeExpiry(c, r.expiry)
  BY <1>7, <1>8, <1>9, <1>11, <1>12, <1>13 DEF AcceptsEligibility, EligibilityConstraints
<1> QED
  BY <1>14 DEF Eligible, c, tuple, policy, i, w

\* An honest provenance witness satisfies its circuit.
LEMMA HonestProvenanceAccepted ==
    ASSUME NEW r \in Requests
    PROVE  AcceptsProvenance(AuthorizedIssuanceRoot, TradeCommitmentV1(RequestedIntent(r)),
                             HonestProvenance(r))
<1> DEFINE issuance == Issuances[r.issuance]
           i == RequestedIntent(r)
           w == HonestProvenance(r)
<1>1. /\ r.issuance \in DOMAIN Issuances /\ issuance \in Issuance /\ IssuanceDepth \in Nat
  BY WitnessesAssumption
<1>2. /\ w.issuerCommitment = issuance.issuerCommitment
      /\ w.seriesCommitment = issuance.seriesCommitment
      /\ w.policyRoot = i.policy_root /\ w.issuanceNonce = issuance.issuanceNonce
      /\ w.issuancePath = IssuancePaths[r.issuance]
      /\ w.recipientCommitment = i.recipient_commitment /\ w.trade = TradeInput(i)
  BY DEF HonestProvenance, ProvenanceInput
<1>3. i.offered_asset = issuance.offeredAsset /\ i.policy_root = PolicyRoot(issuance.policy)
  BY DEF RequestedIntent
<1>4. IsIntent(i)
  BY HonestWitnessesAreTyped
<1> HIDE DEF issuance, i, w
<1>5. ProvenanceTrade(w) = TradeCommitmentV1(i)
  BY <1>2, CircuitsStageLikeRust DEF ProvenanceTrade
<1>6. TradeInRange(w.trade) /\ FitsIn(Span - 1, w.issuanceNonce)
  BY <1>1, <1>2, <1>4, TradeInputInRange, CircuitsAssumption DEF FitsIn, Issuance
<1>7. CircuitIssuanceLeaf(w) = IssuanceLeaf(issuance, PolicyRoot(issuance.policy))
  <2>1. CircuitAsset(w.trade.offeredAsset) = AssetCommitment(issuance.offeredAsset)
    BY <1>2, <1>3 DEF TradeInput, CircuitAsset, AssetCommitment
  <2> QED
    BY <1>2, <1>3, <2>1 DEF CircuitIssuanceLeaf, CircuitIssuanceMeta, IssuanceLeaf
<1>8. MerkleProofVerifier(CircuitIssuanceLeaf(w), AuthorizedIssuanceRoot, w.issuancePath)
  <2>1. /\ r.issuance \in 1 .. TreeSize[IssuanceDepth]
        /\ FillsTree(IssuanceLeaves, IssuanceDepth)
    BY <1>1, LeavesAreTrees
  <2>2. MerkleProofVerifier(IssuanceLeaves[r.issuance],
                            MerkleRoot(IssuanceLeaves, IssuanceDepth),
                            MerkleProof(IssuanceLeaves, IssuanceDepth, r.issuance))
    BY <1>1, <2>1, MembershipIsComplete
  <2>3. IssuanceLeaves[r.issuance] = IssuanceLeaf(issuance, PolicyRoot(issuance.policy))
    BY <1>1 DEF IssuanceLeaves, issuance
  <2>4. IssuancePaths[r.issuance] = MerkleProof(IssuanceLeaves, IssuanceDepth, r.issuance)
    BY <1>1 DEF IssuancePaths
  <2> QED
    BY <1>2, <1>7, <2>2, <2>3, <2>4 DEF AuthorizedIssuanceRoot
<1> QED
  BY <1>5, <1>6, <1>8 DEF AcceptsProvenance, ProvenanceConstraints, i, w

\* The circuits accept an honest prover exactly when the request is
\* eligible, for trees of every depth, and witnesses keep the shape of the
\* circuits' inputs.
THEOREM HonestProversAccepted == Spec => []WitnessesInv
<1>1. ProversInv => WitnessesInv
  BY HonestEligibilityAcceptedIffEligible, HonestProvenanceAccepted
  DEF ProversInv, WitnessesInv, StillHonest, HonestAcceptedIffEligible,
      EligibilityAccepted, ProvenanceAccepted, WitnessesTypeOK
<1> QED
  BY <1>1, ProversInvariant, PTL

-----------------------------------------------------------------------------
(* Soundness: what an accepted witness proves, whatever was altered.       *)

\* Two commitments that agree, agree on what the properties look at.
LEMMA TradeCommitmentFixes ==
    ASSUME NEW i, NEW j, TradeCommitmentV1(i) = TradeCommitmentV1(j)
    PROVE  /\ AssetCommitment(i.offered_asset) = AssetCommitment(j.offered_asset)
           /\ i.recipient_commitment = j.recipient_commitment
           /\ i.policy_root = j.policy_root /\ i.expiry = j.expiry
<1>1. <<Domain("TRADE_V1"), TradePartA(i), TradePartB(i), TradeMeta(i)>>
        = <<Domain("TRADE_V1"), TradePartA(j), TradePartB(j), TradeMeta(j)>>
  BY HashInjective DEF TradeCommitmentV1
<1>2. <<Domain("TRDA_V1"), AssetCommitment(i.offered_asset),
        FromU64(i.offered_amount), AssetCommitment(i.requested_asset)>>
        = <<Domain("TRDA_V1"), AssetCommitment(j.offered_asset),
            FromU64(j.offered_amount), AssetCommitment(j.requested_asset)>>
  BY <1>1, HashInjective DEF TradePartA
<1>3. <<Domain("TRDB_V1"), FromU64(i.requested_amount), i.recipient_commitment,
        i.policy_root>>
        = <<Domain("TRDB_V1"), FromU64(j.requested_amount), j.recipient_commitment,
            j.policy_root>>
  BY <1>1, HashInjective DEF TradePartB
<1>4. <<Domain("TRDM_V1"), FeeCommitment(i.matcher_fee), FromU64(i.nonce),
        FromU64(i.expiry)>>
        = <<Domain("TRDM_V1"), FeeCommitment(j.matcher_fee), FromU64(j.nonce),
            FromU64(j.expiry)>>
  BY <1>1, HashInjective DEF TradeMeta
<1>5. FromU64(i.expiry) = FromU64(j.expiry)
  BY <1>4
<1> QED
  BY <1>2, <1>3, <1>5, U64Injective

LEMMA WitnessPathsHaveDepth ==
    ASSUME ProversInv
    PROVE  /\ Len(eligibility.credentialPath) = CredentialDepth
           /\ Len(eligibility.policyPath) = PolicyDepth
           /\ Len(provenance.issuancePath) = IssuanceDepth
<1>1. CredentialDepth \in Nat /\ PolicyDepth \in Nat /\ IssuanceDepth \in Nat
  BY WitnessesAssumption
<1>2. /\ eligibility.credentialPath \in Path(CredentialNodes, CredentialDepth)
      /\ eligibility.policyPath \in Path(PolicyNodes, PolicyDepth)
      /\ provenance.issuancePath \in Path(IssuanceNodes, IssuanceDepth)
  BY DEF ProversInv, WitnessesTypeOK, EligibilityWitness, ProvenanceWitness
<1>3. ASSUME NEW nodes, NEW depth \in Nat, NEW p \in Path(nodes, depth)
      PROVE  Len(p) = depth
  <2>1. p = [j \in 1..depth |-> p[j]]
    BY DEF Path
  <2> QED
    BY <2>1, LengthOf
<1> QED
  BY <1>1, <1>2, <1>3

\* An accepted eligibility witness is about an active credential, and the trade
\* settles to that credential's subject and approved receiver, in its term,
\* with the class and jurisdiction of the policy entry shown.
LEMMA AcceptedCredential ==
    ASSUME ProversInv, EligibilityAccepted
    PROVE  \E k \in DOMAIN Credentials :
              /\ intent.recipient_commitment
                    = BindRecipient(Credentials[k].subject_secret,
                                    Credentials[k].approved_receiver)
              /\ CoversTradeExpiry(Credentials[k], intent.expiry)
              /\ eligibility.allowedInvestorClass = Credentials[k].investor_class
              /\ eligibility.allowedJurisdiction = Credentials[k].jurisdiction
              /\ intent.policy_root = eligibility.policyRoot
<1> DEFINE w == eligibility
<1>1. /\ EligibilityConstraints(ActiveCredentialRoot, w)
      /\ EligibilityTrade(w) = TradeCommitmentV1(intent)
  BY DEF EligibilityAccepted, AcceptsEligibility
<1>2. /\ MerkleProofVerifier(CircuitCredentialLeaf(w),
                             MerkleRoot(CredentialLeaves, CredentialDepth), w.credentialPath)
      /\ Len(w.credentialPath) = CredentialDepth /\ CredentialDepth \in Nat
  BY <1>1, WitnessPathsHaveDepth, WitnessesAssumption
  DEF EligibilityConstraints, ActiveCredentialRoot
<1>3. PICK k \in 1 .. TreeSize[CredentialDepth] :
              CircuitCredentialLeaf(w) = CredentialLeaves[k]
  BY <1>2, LeavesAreTrees, MembershipIsSound
<1>4. k \in DOMAIN Credentials /\ Credentials[k] \in ActiveCredential
  BY <1>3, LeavesAreTrees, WitnessesAssumption
<1>5. CircuitCredentialLeaf(w) = CredentialLeaf(Credentials[k])
  BY <1>3, <1>4 DEF CredentialLeaves
<1>6. /\ DescribedIntent(w).recipient_commitment
            = BindRecipient(Credentials[k].subject_secret,
                            Credentials[k].approved_receiver)
      /\ w.allowedInvestorClass = Credentials[k].investor_class
      /\ w.allowedJurisdiction = Credentials[k].jurisdiction
      /\ CoversTradeExpiry(Credentials[k], w.trade.expiry)
  BY <1>1, <1>4, <1>5, OnlyApprovedReceiverSettles
<1>7. TradeCommitmentV1(intent) = TradeCommitmentV1(DescribedIntent(w))
  BY <1>1, SatisfiedConstraintsDescribeIntents
<1>8. /\ intent.recipient_commitment = DescribedIntent(w).recipient_commitment
      /\ intent.expiry = w.trade.expiry /\ intent.policy_root = w.policyRoot
  <2>1. /\ DescribedIntent(w).expiry = w.trade.expiry
        /\ DescribedIntent(w).policy_root = w.policyRoot
    BY DEF DescribedIntent
  <2> QED
    BY <1>7, <2>1, TradeCommitmentFixes
<1> QED
  BY <1>4, <1>6, <1>8

\* An accepted provenance witness is about an authorized issuance of the asset
\* that the intent offers, under the policy that the intent names.
LEMMA AcceptedIssuance ==
    ASSUME ProversInv, ProvenanceAccepted
    PROVE  \E k \in DOMAIN Issuances :
              /\ Issuances[k].offeredAsset = intent.offered_asset
              /\ PolicyRoot(Issuances[k].policy) = intent.policy_root
              /\ Issuances[k].policy \in DOMAIN Policies
<1> DEFINE w == provenance
<1>1. /\ ProvenanceConstraints(AuthorizedIssuanceRoot, w)
      /\ ProvenanceTrade(w) = TradeCommitmentV1(intent)
  BY DEF ProvenanceAccepted, AcceptsProvenance
<1>2. /\ MerkleProofVerifier(CircuitIssuanceLeaf(w),
                             MerkleRoot(IssuanceLeaves, IssuanceDepth), w.issuancePath)
      /\ Len(w.issuancePath) = IssuanceDepth /\ IssuanceDepth \in Nat
  BY <1>1, WitnessPathsHaveDepth, WitnessesAssumption
  DEF ProvenanceConstraints, AuthorizedIssuanceRoot
<1>3. PICK k \in 1 .. TreeSize[IssuanceDepth] : CircuitIssuanceLeaf(w) = IssuanceLeaves[k]
  BY <1>2, LeavesAreTrees, MembershipIsSound
<1> DEFINE issuance == Issuances[k]
<1>4. k \in DOMAIN Issuances /\ issuance \in Issuance
  BY <1>3, LeavesAreTrees, WitnessesAssumption
<1>5. CircuitIssuanceLeaf(w) = IssuanceLeaf(issuance, PolicyRoot(issuance.policy))
  BY <1>3, <1>4 DEF IssuanceLeaves
<1> HIDE DEF issuance
<1> DEFINE meta == Hash(<<Domain("ISSMETA1"), issuance.seriesCommitment,
                          PolicyRoot(issuance.policy), FromU64(issuance.issuanceNonce)>>)
<1>6. /\ CircuitAsset(w.trade.offeredAsset) = AssetCommitment(issuance.offeredAsset)
      /\ w.policyRoot = PolicyRoot(issuance.policy)
  <2>1. <<Domain("ISSUEV1"), w.issuerCommitment, CircuitAsset(w.trade.offeredAsset),
          CircuitIssuanceMeta(w)>>
          = <<Domain("ISSUEV1"), issuance.issuerCommitment,
              AssetCommitment(issuance.offeredAsset), meta>>
    BY <1>5, HashInjective DEF CircuitIssuanceLeaf, IssuanceLeaf
  <2>2. <<Domain("ISSMETA1"), w.seriesCommitment, w.policyRoot, FromU64(w.issuanceNonce)>>
          = <<Domain("ISSMETA1"), issuance.seriesCommitment,
              PolicyRoot(issuance.policy), FromU64(issuance.issuanceNonce)>>
    BY <2>1, HashInjective DEF CircuitIssuanceMeta
  <2> QED
    BY <2>1, <2>2
<1>7. /\ CircuitAsset(w.trade.offeredAsset) = AssetCommitment(intent.offered_asset)
      /\ w.policyRoot = intent.policy_root
  <2> DEFINE t == w.trade
             fee == Hash(<<Domain("FEEV1"), Domain("ZEC"), FromU64(t.matcherFeeAmount),
                           t.matcherFeeRecipientCommitment>>)
             partA == Hash(<<Domain("TRDA_V1"), CircuitAsset(t.offeredAsset),
                             FromU64(t.offeredAmount), CircuitAsset(t.requestedAsset)>>)
             partB == Hash(<<Domain("TRDB_V1"), FromU64(t.requestedAmount),
                             w.recipientCommitment, w.policyRoot>>)
             tail == Hash(<<Domain("TRDM_V1"), fee, FromU64(t.nonce),
                            FromU64(t.expiry)>>)
  <2>1. Hash(<<Domain("TRADE_V1"), partA, partB, tail>>) = TradeCommitmentV1(intent)
    BY <1>1 DEF ProvenanceTrade, TradeHasher
  <2> HIDE DEF partA, partB, tail
  <2>2. <<Domain("TRADE_V1"), partA, partB, tail>>
          = <<Domain("TRADE_V1"), TradePartA(intent), TradePartB(intent),
              TradeMeta(intent)>>
    BY <2>1, HashInjective DEF TradeCommitmentV1
  <2>3. partA = TradePartA(intent) /\ partB = TradePartB(intent)
    BY <2>2
  <2>4. <<Domain("TRDA_V1"), CircuitAsset(t.offeredAsset), FromU64(t.offeredAmount),
          CircuitAsset(t.requestedAsset)>>
          = <<Domain("TRDA_V1"), AssetCommitment(intent.offered_asset),
              FromU64(intent.offered_amount), AssetCommitment(intent.requested_asset)>>
    BY <2>3, HashInjective DEF TradePartA, partA
  <2>5. <<Domain("TRDB_V1"), FromU64(t.requestedAmount), w.recipientCommitment,
          w.policyRoot>>
          = <<Domain("TRDB_V1"), FromU64(intent.requested_amount),
              intent.recipient_commitment, intent.policy_root>>
    BY <2>3, HashInjective DEF TradePartB, partB
  <2> QED
    BY <2>4, <2>5
<1>8. issuance.offeredAsset = intent.offered_asset
  <2>1. /\ issuance.offeredAsset \in AssetBaseBytes
        /\ intent.offered_asset \in AssetBaseBytes
    BY <1>4 DEF Issuance, ProversInv, WitnessesTypeOK, IsIntent
  <2> QED
    BY <1>6, <1>7, <2>1, AssetCommitmentBinds
<1>9. issuance.policy \in DOMAIN Policies
  BY <1>4 DEF Issuance
<1> QED
  BY <1>4, <1>6, <1>7, <1>8, <1>9 DEF issuance

\* A policy entry that the circuit finds under the root of a policy is an entry
\* of that policy.
LEMMA AcceptedPolicyEntry ==
    ASSUME ProversInv, EligibilityAccepted, NEW policy \in DOMAIN Policies,
           eligibility.policyRoot = PolicyRoot(policy)
    PROVE  \E entry \in DOMAIN Policies[policy] :
              Policies[policy][entry]
                 = [investorClass |-> eligibility.allowedInvestorClass,
                    jurisdiction |-> eligibility.allowedJurisdiction]
<1> DEFINE w == eligibility
<1>1. /\ MerkleProofVerifier(CircuitPolicyLeaf(w),
                             MerkleRoot(PolicyLeaves(policy), PolicyDepth), w.policyPath)
      /\ Len(w.policyPath) = PolicyDepth /\ PolicyDepth \in Nat
  <2>1. PolicyRoot(policy) = MerkleRoot(PolicyLeaves(policy), PolicyDepth)
    BY DEF PolicyRoot, PolicyRoots
  <2> QED
    BY <2>1, WitnessPathsHaveDepth, WitnessesAssumption
    DEF EligibilityAccepted, AcceptsEligibility, EligibilityConstraints
<1>2. PICK entry \in 1 .. TreeSize[PolicyDepth] :
              CircuitPolicyLeaf(w) = PolicyLeaves(policy)[entry]
  BY <1>1, LeavesAreTrees, MembershipIsSound
<1> DEFINE tuple == Policies[policy][entry]
<1>3. entry \in DOMAIN Policies[policy] /\ tuple \in Tuple
  BY <1>2, LeavesAreTrees, WitnessesAssumption
<1>4. CircuitPolicyLeaf(w) = PolicyLeaf(tuple)
  BY <1>2, <1>3 DEF PolicyLeaves
<1> HIDE DEF tuple
<1>5. <<Domain("ELIGPOL1"), FromU64(w.allowedInvestorClass),
        FromU64(w.allowedJurisdiction)>>
        = <<Domain("ELIGPOL1"), FromU64(tuple.investorClass),
            FromU64(tuple.jurisdiction)>>
  BY <1>4, HashInjective DEF CircuitPolicyLeaf, PolicyLeaf
<1>6. /\ FromU64(w.allowedInvestorClass) = FromU64(tuple.investorClass)
      /\ FromU64(w.allowedJurisdiction) = FromU64(tuple.jurisdiction)
  BY <1>5
<1>7. /\ w.allowedInvestorClass = tuple.investorClass
      /\ w.allowedJurisdiction = tuple.jurisdiction
  BY <1>6, U64Injective
<1>8. tuple = [investorClass |-> w.allowedInvestorClass,
               jurisdiction |-> w.allowedJurisdiction]
  BY <1>3, <1>7 DEF Tuple
<1> QED
  BY <1>3, <1>8 DEF tuple

\* Whoever is accepted holds an active credential for exactly the subject and
\* the receiver the trade settles to, and it covers the trade's expiry: for
\* every tree of credentials, whatever signals were altered.
THEOREM EligibilitySound == Spec => []EligibilityIsSound
<1>1. ProversInv => EligibilityIsSound
  BY AcceptedCredential DEF EligibilityIsSound
<1> QED
  BY <1>1, ProversInvariant, PTL

\* An accepted provenance witness is about an authorized issuance of the very
\* asset the intent offers, under the policy it names.
THEOREM ProvenanceSound == Spec => []ProvenanceIsSound
<1>1. ProversInv => ProvenanceIsSound
  BY AcceptedIssuance DEF ProvenanceIsSound
<1> QED
  BY <1>1, ProversInvariant, PTL

\* The trade commitment joins the two proofs: the recipient's class and
\* jurisdiction are permitted by the policy of the very issuance traded.
THEOREM CommitmentJoinsProofs == Spec => []JoinedByCommitment
<1>1. ProversInv => JoinedByCommitment
  <2> SUFFICES ASSUME ProversInv, EligibilityAccepted, ProvenanceAccepted
               PROVE  JoinedByCommitment
    BY DEF JoinedByCommitment
  <2>1. PICK k \in DOMAIN Credentials :
                /\ intent.recipient_commitment
                      = BindRecipient(Credentials[k].subject_secret,
                                      Credentials[k].approved_receiver)
                /\ eligibility.allowedInvestorClass = Credentials[k].investor_class
                /\ eligibility.allowedJurisdiction = Credentials[k].jurisdiction
                /\ intent.policy_root = eligibility.policyRoot
    BY AcceptedCredential
  <2>2. PICK i \in DOMAIN Issuances :
                /\ Issuances[i].offeredAsset = intent.offered_asset
                /\ PolicyRoot(Issuances[i].policy) = intent.policy_root
                /\ Issuances[i].policy \in DOMAIN Policies
    BY AcceptedIssuance
  <2>3. \E entry \in DOMAIN Policies[Issuances[i].policy] :
           Policies[Issuances[i].policy][entry]
              = [investorClass |-> Credentials[k].investor_class,
                 jurisdiction |-> Credentials[k].jurisdiction]
    <3>1. eligibility.policyRoot = PolicyRoot(Issuances[i].policy)
      BY <2>1, <2>2
    <3>2. \E entry \in DOMAIN Policies[Issuances[i].policy] :
             Policies[Issuances[i].policy][entry]
                = [investorClass |-> eligibility.allowedInvestorClass,
                   jurisdiction |-> eligibility.allowedJurisdiction]
      BY <2>2, <3>1, AcceptedPolicyEntry
    <3> QED
      BY <2>1, <3>2
  <2> QED
    BY <2>1, <2>2, <2>3 DEF JoinedByCommitment
<1> QED
  BY <1>1, ProversInvariant, PTL
=============================================================================
