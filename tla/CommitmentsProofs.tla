-------------------------- MODULE CommitmentsProofs --------------------------
(* What the encodings of Commitments preserve and what the commitments      *)
(* bind, for every byte range, limb width and field.                        *)
EXTENDS Commitments, TLAPS, WellFoundedInduction

-----------------------------------------------------------------------------
(* Induction over the natural numbers. The least counterexample replaces   *)
(* the induction theorems of the library, whose predicate is an operator.  *)

LEMMA LessIsWellFounded ==
    IsWellFoundedOn({pair \in Nat \X Nat : pair[1] < pair[2]}, Nat)
BY NatLessThanWellFounded DEF OpToRel

\* A set of numbers that is not empty has a least one.
LEMMA LeastNumber ==
    ASSUME NEW T, T \subseteq Nat, T # {}
    PROVE  \E m \in T : \A n \in T : m <= n
<1> DEFINE R == {pair \in Nat \X Nat : pair[1] < pair[2]}
<1>1. \E m \in T : \A n \in T : ~ (<<n, m>> \in R)
  <2>1. IsWellFoundedOn(R, Nat)
    BY LessIsWellFounded
  <2> HIDE DEF R
  <2> QED
    BY <2>1, WFMin
<1>2. PICK m \in T : \A n \in T : ~ (<<n, m>> \in R)
  BY <1>1
<1>3. ASSUME NEW n \in T, n < m
      PROVE  FALSE
  <2>1. <<n, m>> \in R
    BY <1>3
  <2> QED
    BY <1>2, <2>1
<1> QED
  BY <1>3

\* A set that has 0, and with each number its successor, has them all.
LEMMA Induction ==
    ASSUME NEW S, S \subseteq Nat, 0 \in S, \A n \in S : n + 1 \in S
    PROVE  S = Nat
<1> SUFFICES ASSUME Nat \ S # {}
             PROVE  FALSE
  OBVIOUS
<1>1. PICK m \in Nat \ S : \A n \in Nat \ S : m <= n
  BY LeastNumber
<1>2. m - 1 \in Nat
  BY <1>1
<1>3. m - 1 \in S
  BY <1>1, <1>2
<1>4. (m - 1) + 1 = m
  OBVIOUS
<1> QED
  BY <1>3, <1>4

-----------------------------------------------------------------------------
(* Hashes and limbs.                                                       *)

\* Ideal hashes: equal digests come from equal inputs (poseidon).
LEMMA HashInjective == \A s, t : Hash(s) = Hash(t) => s = t
BY DEF Hash

\* from_u64 is one to one.
LEMMA U64Injective == \A m, n : FromU64(m) = FromU64(n) => m = n
BY DEF FromU64

\* from_u128 is one to one.
LEMMA U128Injective == \A l, m : FromU128(l) = FromU128(m) => l = m
BY DEF FromU128

\* A slice of at most one limb, read little endian: its bytes, then zeros.
LEMMA SliceOfBytes ==
    ASSUME NEW n \in Nat, NEW bytes \in [1..n -> Byte],
           NEW skip \in Nat, NEW width \in 1..ChunkWidth, skip + width <= n
    PROVE  LittleEndian(SubSeq(bytes, skip + 1, skip + width)) =
              [i \in 1..ChunkWidth |-> IF i <= width THEN bytes[i + skip] ELSE 0]
<1> DEFINE s == SubSeq(bytes, skip + 1, skip + width)
<1>1. bytes \in Seq(Byte) /\ ChunkWidth \in Nat \ {0}
  BY CommitmentsAssumption
<1>2. Len(s) = width
  BY <1>1
<1>3. \A i \in 1..width : s[i] = bytes[i + skip]
  BY <1>1
<1> HIDE DEF s
<1>4. \A i \in 1..ChunkWidth :
        (IF i <= Len(s) THEN s[i] ELSE 0)
          = (IF i <= width THEN bytes[i + skip] ELSE 0)
  BY <1>1, <1>2, <1>3
<1> QED
  BY <1>4 DEF LittleEndian, s

\* The two limbs of an asset, byte by byte (encode_asset_base).
LEMMA AssetLimbs ==
    ASSUME NEW a \in AssetBaseBytes
    PROVE  EncodeAssetBase(a) =
              [hi |-> [i \in 1..ChunkWidth |-> a[i + ChunkWidth]],
               lo |-> [i \in 1..ChunkWidth |-> a[i]]]
<1> DEFINE w == ChunkWidth
<1>1. /\ a \in [1..AssetBaseLen -> Byte] /\ AssetBaseLen \in Nat
      /\ w \in Nat \ {0} /\ AssetBaseLen = w + w /\ w = 0 + w
  BY CommitmentsAssumption DEF AssetBaseBytes, AssetBaseLen
<1> HIDE DEF w
<1>2. /\ LittleEndian(SubSeq(a, 0 + 1, 0 + w))
            = [i \in 1..ChunkWidth |-> IF i <= w THEN a[i + 0] ELSE 0]
      /\ LittleEndian(SubSeq(a, w + 1, w + w))
            = [i \in 1..ChunkWidth |-> IF i <= w THEN a[i + w] ELSE 0]
  <2>1. w \in 1..ChunkWidth /\ 0 + w <= AssetBaseLen /\ w + w <= AssetBaseLen
    BY <1>1 DEF w
  <2>2. LittleEndian(SubSeq(a, 0 + 1, 0 + w))
          = [i \in 1..ChunkWidth |-> IF i <= w THEN a[i + 0] ELSE 0]
    BY <1>1, <2>1, SliceOfBytes
  <2>3. LittleEndian(SubSeq(a, w + 1, w + w))
          = [i \in 1..ChunkWidth |-> IF i <= w THEN a[i + w] ELSE 0]
    BY <1>1, <2>1, SliceOfBytes
  <2> QED
    BY <2>2, <2>3
<1>3. LittleEndian(SubSeq(a, 1, w)) = [i \in 1..ChunkWidth |-> a[i]]
  BY <1>1, <1>2 DEF w
<1>4. LittleEndian(SubSeq(a, w + 1, AssetBaseLen)) = [i \in 1..ChunkWidth |-> a[i + w]]
  BY <1>1, <1>2 DEF w
<1> QED
  BY <1>3, <1>4 DEF EncodeAssetBase, w

\* The three limbs of a receiver, byte by byte (encode_receiver).
LEMMA ReceiverLimbsOf ==
    ASSUME NEW r \in OrchardReceiverBytes
    PROVE  EncodeReceiver(r) =
              [limb0 |-> [i \in 1..ChunkWidth |-> r[i]],
               limb1 |-> [i \in 1..ChunkWidth |-> r[i + ChunkWidth]],
               limb2 |-> [i \in 1..ChunkWidth |->
                            IF i <= NarrowLimbBytes THEN r[i + 2 * ChunkWidth] ELSE 0]]
<1> DEFINE w == ChunkWidth
           n == NarrowLimbBytes
           d == 2 * ChunkWidth
<1>1. /\ r \in [1..ReceiverLen -> Byte] /\ ReceiverLen \in Nat
      /\ w \in Nat \ {0} /\ n \in 1..w
      /\ d \in Nat /\ d = w + w /\ ReceiverLen = d + n
  BY CommitmentsAssumption DEF OrchardReceiverBytes, NarrowLimbBytes
<1> HIDE DEF w, n, d
<1>2. /\ n \in 1..ChunkWidth /\ w \in 1..ChunkWidth /\ 0 + w <= ReceiverLen
      /\ w + w <= ReceiverLen /\ d + n <= ReceiverLen
  BY <1>1 DEF w
<1>s. \A skip \in Nat, width \in 1..ChunkWidth :
         skip + width <= ReceiverLen =>
            LittleEndian(SubSeq(r, skip + 1, skip + width))
              = [i \in 1..ChunkWidth |-> IF i <= width THEN r[i + skip] ELSE 0]
  BY <1>1, SliceOfBytes
<1>3. LittleEndian(SubSeq(r, 0 + 1, 0 + w))
        = [i \in 1..ChunkWidth |-> IF i <= w THEN r[i + 0] ELSE 0]
  BY <1>1, <1>2, <1>s
<1>4. LittleEndian(SubSeq(r, w + 1, w + w))
        = [i \in 1..ChunkWidth |-> IF i <= w THEN r[i + w] ELSE 0]
  <2>1. w \in Nat /\ w \in 1..ChunkWidth /\ w + w <= ReceiverLen
    BY <1>1, <1>2
  <2> QED
    BY <2>1, <1>s
<1>5. LittleEndian(SubSeq(r, d + 1, d + n))
        = [i \in 1..ChunkWidth |-> IF i <= n THEN r[i + d] ELSE 0]
  <2>1. d \in Nat /\ n \in 1..ChunkWidth /\ d + n <= ReceiverLen
    BY <1>1, <1>2
  <2> QED
    BY <2>1, <1>s
<1>6. LittleEndian(SubSeq(r, 1, w)) = [i \in 1..ChunkWidth |-> r[i]]
  BY <1>1, <1>3 DEF w
<1>7. LittleEndian(SubSeq(r, w + 1, d)) = [i \in 1..ChunkWidth |-> r[i + w]]
  BY <1>1, <1>4 DEF w
<1>8. LittleEndian(SubSeq(r, d + 1, ReceiverLen))
        = [i \in 1..ChunkWidth |-> IF i <= n THEN r[i + d] ELSE 0]
  BY <1>1, <1>5
<1> QED
  BY <1>6, <1>7, <1>8 DEF EncodeReceiver, w, n, d

\* Encodings are limbs.
LEMMA EncodedAssetsAreLimbs ==
    ASSUME NEW a \in AssetBaseBytes
    PROVE  EncodeAssetBase(a) \in [hi : Limb, lo : Limb]
<1>1. /\ ChunkWidth \in Nat /\ AssetBaseLen = 2 * ChunkWidth
      /\ a \in [1..AssetBaseLen -> Byte]
  BY CommitmentsAssumption DEF AssetBaseLen, AssetBaseBytes
<1> DEFINE hi == [i \in 1..ChunkWidth |-> a[i + ChunkWidth]]
           lo == [i \in 1..ChunkWidth |-> a[i]]
<1>2. hi \in Limb /\ lo \in Limb
  BY <1>1 DEF Limb
<1>3. EncodeAssetBase(a) = [hi |-> hi, lo |-> lo]
  BY AssetLimbs
<1> HIDE DEF hi, lo
<1> QED
  BY <1>2, <1>3

LEMMA EncodedReceiversAreLimbs ==
    ASSUME NEW r \in OrchardReceiverBytes
    PROVE  EncodeReceiver(r) \in [limb0 : Limb, limb1 : Limb, limb2 : Limb]
<1>1. /\ ChunkWidth \in Nat /\ ReceiverLen \in Nat /\ 0 \in Byte
      /\ NarrowLimbBytes \in 1..ChunkWidth
      /\ ReceiverLen = 2 * ChunkWidth + NarrowLimbBytes
      /\ r \in [1..ReceiverLen -> Byte]
  BY CommitmentsAssumption DEF NarrowLimbBytes, OrchardReceiverBytes
<1> DEFINE limb0 == [i \in 1..ChunkWidth |-> r[i]]
           limb1 == [i \in 1..ChunkWidth |-> r[i + ChunkWidth]]
           limb2 == [i \in 1..ChunkWidth |->
                        IF i <= NarrowLimbBytes THEN r[i + 2 * ChunkWidth] ELSE 0]
<1>2. limb0 \in Limb /\ limb1 \in Limb /\ limb2 \in Limb
  BY <1>1 DEF Limb
<1>3. EncodeReceiver(r) = [limb0 |-> limb0, limb1 |-> limb1, limb2 |-> limb2]
  BY ReceiverLimbsOf
<1> HIDE DEF limb0, limb1, limb2
<1> QED
  BY <1>2, <1>3

\* decode_asset_base undoes encode_asset_base.
THEOREM AssetBaseRoundTrip ==
    \A a \in AssetBaseBytes : DecodeAssetBase(EncodeAssetBase(a)) = a
<1> SUFFICES ASSUME NEW a \in AssetBaseBytes
             PROVE  DecodeAssetBase(EncodeAssetBase(a)) = a
  OBVIOUS
<1>1. a \in [1..AssetBaseLen -> Byte] /\ AssetBaseLen = 2 * ChunkWidth
      /\ ChunkWidth \in Nat
  BY CommitmentsAssumption DEF AssetBaseBytes, AssetBaseLen
<1>2. DecodeAssetBase(EncodeAssetBase(a)) = [i \in 1..AssetBaseLen |-> a[i]]
  BY <1>1, AssetLimbs DEF DecodeAssetBase
<1> QED
  BY <1>1, <1>2

\* decode_receiver undoes encode_receiver, whose third limb is always in range
\* (why encode_receiver can be total).
THEOREM ReceiverRoundTrip ==
    \A r \in OrchardReceiverBytes :
        /\ DecodeReceiver(EncodeReceiver(r)) = r
        /\ ReceiverLimbsInRange(EncodeReceiver(r).limb2)
<1> SUFFICES ASSUME NEW r \in OrchardReceiverBytes
             PROVE  /\ DecodeReceiver(EncodeReceiver(r)) = r
                    /\ ReceiverLimbsInRange(EncodeReceiver(r).limb2)
  OBVIOUS
<1>1. /\ r \in [1..ReceiverLen -> Byte] /\ ReceiverLen \in Nat
      /\ ChunkWidth \in Nat \ {0}
      /\ ReceiverLen = 2 * ChunkWidth + NarrowLimbBytes
      /\ NarrowLimbBytes \in 1..ChunkWidth
  BY CommitmentsAssumption DEF OrchardReceiverBytes, NarrowLimbBytes
<1>2. DecodeReceiver(EncodeReceiver(r)) = [i \in 1..ReceiverLen |-> r[i]]
  BY <1>1, ReceiverLimbsOf DEF DecodeReceiver
<1>3. ReceiverLimbsInRange(EncodeReceiver(r).limb2)
  BY <1>1, ReceiverLimbsOf DEF ReceiverLimbsInRange
<1> QED
  BY <1>1, <1>2, <1>3

\* Equal asset commitments come from equal assets.
LEMMA AssetCommitmentBinds ==
    \A a, b \in AssetBaseBytes : AssetCommitment(a) = AssetCommitment(b) => a = b
<1> SUFFICES ASSUME NEW a \in AssetBaseBytes, NEW b \in AssetBaseBytes,
                    AssetCommitment(a) = AssetCommitment(b)
             PROVE  a = b
  OBVIOUS
<1> DEFINE l == EncodeAssetBase(a)
           m == EncodeAssetBase(b)
<1>1. <<Domain("ASSETV1"), FromU128(l.hi), FromU128(l.lo)>>
        = <<Domain("ASSETV1"), FromU128(m.hi), FromU128(m.lo)>>
  BY HashInjective DEF AssetCommitment
<1>2. l.hi = m.hi /\ l.lo = m.lo
  BY <1>1, U128Injective
<1>3. l = m
  BY <1>2 DEF EncodeAssetBase
<1> QED
  BY <1>3, AssetBaseRoundTrip

\* Equal receiver commitments come from equal receivers.
LEMMA ReceiverCommitmentBinds ==
    \A r, s \in OrchardReceiverBytes :
        ReceiverCommitment(r) = ReceiverCommitment(s) => r = s
<1> SUFFICES ASSUME NEW r \in OrchardReceiverBytes, NEW s \in OrchardReceiverBytes,
                    ReceiverCommitment(r) = ReceiverCommitment(s)
             PROVE  r = s
  OBVIOUS
<1> DEFINE l == EncodeReceiver(r)
           m == EncodeReceiver(s)
<1>1. <<Domain("RECEIVR1"), FromU128(l.limb0), FromU128(l.limb1), FromU128(l.limb2)>>
        = <<Domain("RECEIVR1"), FromU128(m.limb0), FromU128(m.limb1), FromU128(m.limb2)>>
  BY HashInjective DEF ReceiverCommitment
<1>2. l.limb0 = m.limb0 /\ l.limb1 = m.limb1 /\ l.limb2 = m.limb2
  BY <1>1, U128Injective
<1>3. l = m
  BY <1>2 DEF EncodeReceiver
<1> QED
  BY <1>3, ReceiverRoundTrip

\* The range check of ReceiverLimbs::new admits exactly the limbs that are the
\* encoding of a receiver.
THEOREM LimbsInRangeDescribeReceivers ==
    \A l \in [limb0 : Limb, limb1 : Limb, limb2 : Limb] :
        ReceiverLimbsInRange(l.limb2) <=> EncodeReceiver(DecodeReceiver(l)) = l
<1> SUFFICES ASSUME NEW l \in [limb0 : Limb, limb1 : Limb, limb2 : Limb]
             PROVE  ReceiverLimbsInRange(l.limb2)
                      <=> EncodeReceiver(DecodeReceiver(l)) = l
  OBVIOUS
<1> DEFINE r == DecodeReceiver(l)
<1>1. /\ ReceiverLen \in Nat /\ ChunkWidth \in Nat \ {0}
      /\ ReceiverLen = 2 * ChunkWidth + NarrowLimbBytes
      /\ NarrowLimbBytes \in 1..ChunkWidth
  BY CommitmentsAssumption DEF NarrowLimbBytes
<1>2. l.limb0 \in [1..ChunkWidth -> Byte] /\ l.limb1 \in [1..ChunkWidth -> Byte]
      /\ l.limb2 \in [1..ChunkWidth -> Byte]
  BY DEF Limb
<1>3. /\ r \in OrchardReceiverBytes
      /\ \A i \in 1..ChunkWidth : r[i] = l.limb0[i]
      /\ \A i \in 1..ChunkWidth : r[i + ChunkWidth] = l.limb1[i]
      /\ \A i \in 1..NarrowLimbBytes : r[i + 2 * ChunkWidth] = l.limb2[i]
  BY <1>1, <1>2 DEF DecodeReceiver, OrchardReceiverBytes
<1> HIDE DEF r
<1>4. EncodeReceiver(r) =
        [limb0 |-> [i \in 1..ChunkWidth |-> r[i]],
         limb1 |-> [i \in 1..ChunkWidth |-> r[i + ChunkWidth]],
         limb2 |-> [i \in 1..ChunkWidth |->
                      IF i <= NarrowLimbBytes THEN r[i + 2 * ChunkWidth] ELSE 0]]
  BY <1>3, ReceiverLimbsOf
<1>5. EncodeReceiver(r).limb0 = l.limb0 /\ EncodeReceiver(r).limb1 = l.limb1
  <2>1. [i \in 1..ChunkWidth |-> r[i]] = l.limb0
    BY <1>2, <1>3
  <2>2. [i \in 1..ChunkWidth |-> r[i + ChunkWidth]] = l.limb1
    BY <1>2, <1>3
  <2> QED
    BY <1>4, <2>1, <2>2
<1>6. EncodeReceiver(r).limb2 = l.limb2 <=> ReceiverLimbsInRange(l.limb2)
  <2> DEFINE e == [i \in 1..ChunkWidth |->
                     IF i <= NarrowLimbBytes THEN r[i + 2 * ChunkWidth] ELSE 0]
  <2>1. \A i \in 1..ChunkWidth :
          e[i] = IF i <= NarrowLimbBytes THEN l.limb2[i] ELSE 0
    BY <1>1, <1>3
  <2>2. e = l.limb2 <=> \A i \in 1..ChunkWidth : e[i] = l.limb2[i]
    BY <1>2
  <2> HIDE DEF e
  <2>3. (\A i \in 1..ChunkWidth : e[i] = l.limb2[i])
          <=> ReceiverLimbsInRange(l.limb2)
    BY <1>1, <2>1 DEF ReceiverLimbsInRange
  <2> QED
    BY <1>4, <2>2, <2>3 DEF e
<1>7. EncodeReceiver(r) = l <=>
        /\ EncodeReceiver(r).limb0 = l.limb0
        /\ EncodeReceiver(r).limb1 = l.limb1
        /\ EncodeReceiver(r).limb2 = l.limb2
  BY <1>4
<1> QED
  BY <1>5, <1>6, <1>7 DEF r

\* Equal fee commitments come from equal fees.
LEMMA FeeCommitmentBinds ==
    \A f, g \in MatcherFee : FeeCommitment(f) = FeeCommitment(g) => f = g
<1> SUFFICES ASSUME NEW f \in MatcherFee, NEW g \in MatcherFee,
                    FeeCommitment(f) = FeeCommitment(g)
             PROVE  f = g
  OBVIOUS
<1>1. <<Domain("FEEV1"), Domain("ZEC"), FromU64(f.amount), f.recipient_commitment>>
        = <<Domain("FEEV1"), Domain("ZEC"), FromU64(g.amount), g.recipient_commitment>>
  BY HashInjective DEF FeeCommitment
<1>2. f.amount = g.amount /\ f.recipient_commitment = g.recipient_commitment
  BY <1>1, U64Injective
<1> QED
  BY <1>2 DEF MatcherFee

\* TradeCommitmentV1 binds every field of the intent (trade_commitment_parts).
THEOREM TradeCommitmentBinds ==
    \A i, j \in TradeIntent : TradeCommitmentV1(i) = TradeCommitmentV1(j) => i = j
<1> SUFFICES ASSUME NEW i \in TradeIntent, NEW j \in TradeIntent,
                    TradeCommitmentV1(i) = TradeCommitmentV1(j)
             PROVE  i = j
  OBVIOUS
<1>1. /\ TradePartA(i) = TradePartA(j)
      /\ TradePartB(i) = TradePartB(j)
      /\ TradeMeta(i) = TradeMeta(j)
  <2>1. <<Domain("TRADE_V1"), TradePartA(i), TradePartB(i), TradeMeta(i)>>
          = <<Domain("TRADE_V1"), TradePartA(j), TradePartB(j), TradeMeta(j)>>
    BY HashInjective DEF TradeCommitmentV1
  <2> QED
    BY <2>1
<1>2. /\ i.offered_asset = j.offered_asset
      /\ i.offered_amount = j.offered_amount
      /\ i.requested_asset = j.requested_asset
  <2>1. <<Domain("TRDA_V1"), AssetCommitment(i.offered_asset),
          FromU64(i.offered_amount), AssetCommitment(i.requested_asset)>>
          = <<Domain("TRDA_V1"), AssetCommitment(j.offered_asset),
              FromU64(j.offered_amount), AssetCommitment(j.requested_asset)>>
    BY <1>1, HashInjective DEF TradePartA
  <2>2. /\ AssetCommitment(i.offered_asset) = AssetCommitment(j.offered_asset)
        /\ FromU64(i.offered_amount) = FromU64(j.offered_amount)
        /\ AssetCommitment(i.requested_asset) = AssetCommitment(j.requested_asset)
    BY <2>1
  <2>3. /\ i.offered_asset \in AssetBaseBytes /\ j.offered_asset \in AssetBaseBytes
        /\ i.requested_asset \in AssetBaseBytes /\ j.requested_asset \in AssetBaseBytes
    BY DEF TradeIntent
  <2> QED
    BY <2>2, <2>3, AssetCommitmentBinds, U64Injective
<1>3. /\ i.requested_amount = j.requested_amount
      /\ i.recipient_commitment = j.recipient_commitment
      /\ i.policy_root = j.policy_root
  <2>1. <<Domain("TRDB_V1"), FromU64(i.requested_amount), i.recipient_commitment,
          i.policy_root>>
          = <<Domain("TRDB_V1"), FromU64(j.requested_amount), j.recipient_commitment,
              j.policy_root>>
    BY <1>1, HashInjective DEF TradePartB
  <2> QED
    BY <2>1, U64Injective
<1>4. i.matcher_fee = j.matcher_fee /\ i.nonce = j.nonce /\ i.expiry = j.expiry
  <2>1. <<Domain("TRDM_V1"), FeeCommitment(i.matcher_fee), FromU64(i.nonce),
          FromU64(i.expiry)>>
          = <<Domain("TRDM_V1"), FeeCommitment(j.matcher_fee), FromU64(j.nonce),
              FromU64(j.expiry)>>
    BY <1>1, HashInjective DEF TradeMeta
  <2>2. i.matcher_fee \in MatcherFee /\ j.matcher_fee \in MatcherFee
    BY DEF TradeIntent
  <2>3. FeeCommitment(i.matcher_fee) = FeeCommitment(j.matcher_fee)
        /\ FromU64(i.nonce) = FromU64(j.nonce) /\ FromU64(i.expiry) = FromU64(j.expiry)
    BY <2>1
  <2> QED
    BY <2>2, <2>3, FeeCommitmentBinds, U64Injective
<1> QED
  BY <1>2, <1>3, <1>4 DEF TradeIntent

\* The credential leaf binds every field of the credential
\* (ActiveCredential::leaf).
THEOREM CredentialLeafBinds ==
    \A c, d \in ActiveCredential : CredentialLeaf(c) = CredentialLeaf(d) => c = d
<1> SUFFICES ASSUME NEW c \in ActiveCredential, NEW d \in ActiveCredential,
                    CredentialLeaf(c) = CredentialLeaf(d)
             PROVE  c = d
  OBVIOUS
<1>1. /\ c.authority_commitment = d.authority_commitment
      /\ SubjectCommitment(c.subject_secret) = SubjectCommitment(d.subject_secret)
      /\ CredentialMeta(c) = CredentialMeta(d)
      /\ FromU64(c.nonce) = FromU64(d.nonce)
      /\ ReceiverCommitment(c.approved_receiver) = ReceiverCommitment(d.approved_receiver)
  <2>1. <<Domain("CRED_V2"), c.authority_commitment,
          SubjectCommitment(c.subject_secret), CredentialMeta(c), FromU64(c.nonce),
          ReceiverCommitment(c.approved_receiver)>>
          = <<Domain("CRED_V2"), d.authority_commitment,
              SubjectCommitment(d.subject_secret), CredentialMeta(d), FromU64(d.nonce),
              ReceiverCommitment(d.approved_receiver)>>
    BY HashInjective DEF CredentialLeaf
  <2> QED
    BY <2>1
<1>2. c.subject_secret = d.subject_secret
  <2>1. <<Domain("SUBJECT1"), c.subject_secret>> = <<Domain("SUBJECT1"), d.subject_secret>>
    BY <1>1, HashInjective DEF SubjectCommitment
  <2> QED
    BY <2>1
<1>3. /\ c.investor_class = d.investor_class
      /\ c.jurisdiction = d.jurisdiction
      /\ c.credential_expiry = d.credential_expiry
  <2>1. <<Domain("CREDMETA"), FromU64(c.investor_class), FromU64(c.jurisdiction),
          FromU64(c.credential_expiry)>>
          = <<Domain("CREDMETA"), FromU64(d.investor_class), FromU64(d.jurisdiction),
              FromU64(d.credential_expiry)>>
    BY <1>1, HashInjective DEF CredentialMeta
  <2> QED
    BY <2>1, U64Injective
<1>4. c.approved_receiver = d.approved_receiver
  BY <1>1, ReceiverCommitmentBinds DEF ActiveCredential
<1> QED
  BY <1>1, <1>2, <1>3, <1>4, U64Injective DEF ActiveCredential

-----------------------------------------------------------------------------
(* Byte strings of any length.                                             *)

\* What \div gives, for a divisor that is a parameter.
LEMMA Division ==
    ASSUME NEW n \in Nat, NEW w \in Nat \ {0}
    PROVE  /\ n \div w \in Nat /\ n % w \in 0 .. w - 1
           /\ n = (n \div w) * w + (n % w)
OBVIOUS

\* Chunks follow each other without a gap: every byte is in one of them, and
\* no chunk is longer than a limb.
LEMMA ChunksCover ==
    ASSUME NEW b \in Seq(Byte)
    PROVE  /\ Len(Chunks(b)) \in Nat
           /\ \A p \in 1..Len(b) : \E i \in 1..Len(Chunks(b)), k \in 1..ChunkWidth :
                 /\ i = (p - 1) \div ChunkWidth + 1 /\ k = ((p - 1) % ChunkWidth) + 1
                 /\ LittleEndian(Chunks(b)[i])[k] = b[p]
<1> DEFINE w == ChunkWidth
           n == Len(b)
           last(i) == IF i * w <= n THEN i * w ELSE n
           count == (n + w - 1) \div w
<1>1. w \in Nat \ {0} /\ n \in Nat /\ n + w - 1 \in Nat
  BY CommitmentsAssumption
<1>2. count \in Nat /\ n + w - 1 < count * w + w
  <2> DEFINE x == n + w - 1
  <2>1. /\ x \div w \in Nat /\ x % w \in 0 .. w - 1
        /\ x = (x \div w) * w + (x % w)
    BY <1>1, Division
  <2> QED
    BY <1>1, <2>1
<1> HIDE DEF count
<1>3. /\ Chunks(b) = [i \in 1..count |-> SubSeq(b, (i - 1) * w + 1, last(i))]
      /\ Len(Chunks(b)) = count
  BY <1>2 DEF Chunks, count
<1>4. ASSUME NEW p \in 1..n
      PROVE  \E i \in 1..count, k \in 1..w :
                 /\ i = (p - 1) \div w + 1 /\ k = ((p - 1) % w) + 1
                 /\ LittleEndian(Chunks(b)[i])[k] = b[p]
  <2> DEFINE q == (p - 1) \div w
             r == (p - 1) % w
             i == q + 1
             k == r + 1
  <2>1. q \in Nat /\ r \in 0 .. w - 1 /\ p - 1 = q * w + r
    <3>1. p - 1 \in Nat
      OBVIOUS
    <3> QED
      BY <1>1, <3>1, Division
  <2> HIDE DEF q, r
  <2>2. q * w \in Nat /\ i * w = q * w + w /\ k \in 1..w
    BY <1>1, <2>1
  <2>3. i \in 1..count
    <3> SUFFICES ASSUME q >= count
                 PROVE  FALSE
      BY <1>2, <2>1
    <3>1. q * w >= count * w
      BY <1>1, <1>2, <2>1
    <3> QED
      BY <1>1, <1>2, <2>1, <2>2, <3>1
  <2>4. /\ last(i) \in Nat /\ last(i) <= n
        /\ k <= last(i) - q * w /\ q * w + k = p
    BY <1>1, <2>1, <2>2
  <2> DEFINE skip == q * w
             to == last(i)
             s == SubSeq(b, skip + 1, to)
  <2>5. skip \in Nat /\ to \in Nat /\ to <= n /\ k \in 1 .. to - skip /\ skip + k = p
    BY <2>2, <2>4
  <2> HIDE DEF skip, to
  <2>6. Len(s) = to - skip /\ s[k] = b[p]
    BY <2>5, <1>1
  <2> HIDE DEF s
  <2>7. LittleEndian(s)[k] = b[p]
    BY <2>2, <2>5, <2>6, <1>1 DEF LittleEndian
  <2>8. Chunks(b)[i] = s
    <3>1. i - 1 = q
      BY <2>1
    <3>2. Chunks(b)[i] = SubSeq(b, (i - 1) * w + 1, last(i))
      BY <1>3, <2>3
    <3> QED
      BY <3>1, <3>2 DEF s, skip, to
  <2> QED
    BY <2>2, <2>3, <2>7, <2>8 DEF q, r
<1> QED
  BY <1>2, <1>3, <1>4

LEMMA StatesExist ==
    ASSUME NEW base, NEW b, NEW len \in Nat
    PROVE  \E f : f = [i \in 0..len |->
                          IF i = 0 THEN base ELSE Absorb(f[i - 1], b, i)]
<1> DEFINE Exists(n) ==
              \E f : f = [i \in 0..n |->
                             IF i = 0 THEN base ELSE Absorb(f[i - 1], b, i)]
           S == {n \in Nat : Exists(n)}
<1>1. 0 \in S
  <2> DEFINE f == [i \in 0..0 |-> base]
  <2>1. f = [i \in 0..0 |-> IF i = 0 THEN base ELSE Absorb(f[i - 1], b, i)]
    OBVIOUS
  <2> QED
    BY <2>1
<1>2. ASSUME NEW n \in S
      PROVE  n + 1 \in S
  <2>1. n \in Nat
    OBVIOUS
  <2>2. PICK f : f = [i \in 0..n |->
                         IF i = 0 THEN base ELSE Absorb(f[i - 1], b, i)]
    OBVIOUS
  <2> DEFINE g == [i \in 0 .. n + 1 |->
                      IF i = n + 1 THEN Absorb(f[n], b, n + 1) ELSE f[i]]
  <2>3. g = [i \in 0 .. n + 1 |->
                IF i = 0 THEN base ELSE Absorb(g[i - 1], b, i)]
    <3> SUFFICES ASSUME NEW i \in 0 .. n + 1
                 PROVE  g[i] = IF i = 0 THEN base ELSE Absorb(g[i - 1], b, i)
      OBVIOUS
    <3>1. CASE i = n + 1
      BY <2>1, <3>1
    <3>2. CASE i # n + 1
      BY <2>1, <2>2, <3>2
    <3> QED
      BY <3>1, <3>2
  <2>4. Exists(n + 1)
    BY <2>3
  <2> QED
    BY <2>1, <2>4
<1>3. S = Nat
  <2>1. S \subseteq Nat
    OBVIOUS
  <2> HIDE DEF S
  <2> QED
    BY <1>1, <1>2, <2>1, Induction
<1> QED
  BY <1>3

\* The header first, then one more chunk per state.
LEMMA StatesAbsorb ==
    ASSUME NEW domain, NEW b, Len(Chunks(b)) \in Nat
    PROVE  /\ States(domain, b)[0] = ByteHeader(domain, b)
           /\ \A i \in 1..Len(Chunks(b)) :
                 States(domain, b)[i]
                    = Absorb(States(domain, b)[i - 1], b, i)
<1> DEFINE state == States(domain, b)
<1>1. state = [i \in 0..Len(Chunks(b)) |->
                  IF i = 0 THEN ByteHeader(domain, b)
                           ELSE Absorb(state[i - 1], b, i)]
  BY StatesExist DEF States
<1> HIDE DEF state
<1>2. /\ state[0] = ByteHeader(domain, b)
      /\ \A i \in 1..Len(Chunks(b)) : state[i] = Absorb(state[i - 1], b, i)
  BY <1>1
<1> QED
  BY <1>2 DEF state

\* A state that has absorbed gives back what it absorbed, and into what.
LEMMA AbsorbInjective ==
    \A s, t, a, b : \A i, j \in Int : Absorb(s, a, i) = Absorb(t, b, j) =>
        s = t /\ LittleEndian(Chunks(a)[i]) = LittleEndian(Chunks(b)[j]) /\ i = j
<1> SUFFICES ASSUME NEW s, NEW t, NEW a, NEW b, NEW i \in Int, NEW j \in Int,
                    Absorb(s, a, i) = Absorb(t, b, j)
             PROVE  /\ s = t /\ i = j
                    /\ LittleEndian(Chunks(a)[i]) = LittleEndian(Chunks(b)[j])
  OBVIOUS
<1>1. <<s, FromU128(LittleEndian(Chunks(a)[i])), FromU64(i - 1)>>
        = <<t, FromU128(LittleEndian(Chunks(b)[j])), FromU64(j - 1)>>
  BY HashInjective DEF Absorb
<1>2. /\ s = t /\ i - 1 = j - 1
      /\ LittleEndian(Chunks(a)[i]) = LittleEndian(Chunks(b)[j])
  BY <1>1, U128Injective, U64Injective
<1> QED
  BY <1>2

\* Headers of the same label give back the length.
LEMMA HeaderInjective ==
    \A label, a, b : ByteHeader(Domain(label), a) = ByteHeader(Domain(label), b)
                        => Len(a) = Len(b)
<1> SUFFICES ASSUME NEW label, NEW a, NEW b,
                    ByteHeader(Domain(label), a) = ByteHeader(Domain(label), b)
             PROVE  Len(a) = Len(b)
  OBVIOUS
<1>1. <<Domain(label), FromU64(Len(a)), FromU64(Len(Chunks(a)))>>
        = <<Domain(label), FromU64(Len(b)), FromU64(Len(Chunks(b)))>>
  BY HashInjective DEF ByteHeader
<1> QED
  BY <1>1, U64Injective

\* No header is the outcome of absorbing a chunk: a header hashes a domain tag
\* where the other hashes a hash.
LEMMA HeaderIsNotAbsorbed ==
    \A label, a, s, b, i : (\E inputs : s = Hash(inputs)) =>
        ByteHeader(Domain(label), a) # Absorb(s, b, i)
<1> SUFFICES ASSUME NEW label, NEW a, NEW s, NEW b, NEW i, NEW inputs, s = Hash(inputs),
                    ByteHeader(Domain(label), a) = Absorb(s, b, i)
             PROVE  FALSE
  OBVIOUS
<1>1. <<Domain(label), FromU64(Len(a)), FromU64(Len(Chunks(a)))>>
        = <<s, FromU128(LittleEndian(Chunks(b)[i])), FromU64(i - 1)>>
  BY HashInjective DEF ByteHeader, Absorb
<1>2. Domain(label) = Hash(inputs)
  BY <1>1
<1> QED
  BY <1>2 DEF Domain, Hash

\* The commitment tells byte strings of every length apart, although the last
\* chunk is padded with zeros before it is hashed (canonical_bytes_commitment):
\* the last index gives the number of chunks, each state the one before it, and
\* the header the number of bytes that the padding hides.
THEOREM CanonicalBytesBind ==
    ASSUME NEW label, NEW a \in Seq(Byte), NEW b \in Seq(Byte),
           CanonicalBytesCommitment(Domain(label), a)
              = CanonicalBytesCommitment(Domain(label), b)
    PROVE  a = b
<1> DEFINE f == States(Domain(label), a)
           g == States(Domain(label), b)
           n == Len(Chunks(a))
           m == Len(Chunks(b))
<1>1. n \in Nat /\ m \in Nat
  BY ChunksCover
<1>2. /\ f[0] = ByteHeader(Domain(label), a)
      /\ \A i \in 1..n : f[i] = Absorb(f[i - 1], a, i)
  BY <1>1, StatesAbsorb
<1>3. /\ g[0] = ByteHeader(Domain(label), b)
      /\ \A i \in 1..m : g[i] = Absorb(g[i - 1], b, i)
  BY <1>1, StatesAbsorb
<1>4. f[n] = g[m]
  BY DEF CanonicalBytesCommitment
<1> HIDE DEF f, g
<1>5. /\ \A i \in 0..n : \E inputs : f[i] = Hash(inputs)
      /\ \A i \in 0..m : \E inputs : g[i] = Hash(inputs)
  <2>1. ASSUME NEW i \in 0..n
        PROVE  \E inputs : f[i] = Hash(inputs)
    <3>1. CASE i = 0
      BY <1>2, <3>1 DEF ByteHeader
    <3>2. CASE i # 0
      <4>1. f[i] = Absorb(f[i - 1], a, i)
        BY <1>1, <1>2, <3>2
      <4> QED
        BY <4>1 DEF Absorb
    <3> QED
      BY <3>1, <3>2
  <2>2. ASSUME NEW i \in 0..m
        PROVE  \E inputs : g[i] = Hash(inputs)
    <3>1. CASE i = 0
      BY <1>3, <3>1 DEF ByteHeader
    <3>2. CASE i # 0
      <4>1. g[i] = Absorb(g[i - 1], b, i)
        BY <1>1, <1>3, <3>2
      <4> QED
        BY <4>1 DEF Absorb
    <3> QED
      BY <3>1, <3>2
  <2> QED
    BY <2>1, <2>2
<1> HIDE DEF n, m
<1>6. n = m
  <2>1. CASE n = 0 /\ m # 0
    <3>1. m \in 1..m /\ m - 1 \in 0..m
      BY <1>1, <2>1
    <3>2. g[m] = Absorb(g[m - 1], b, m)
      BY <1>3, <3>1
    <3>3. PICK inputs : g[m - 1] = Hash(inputs)
      BY <1>5, <3>1
    <3>4. ByteHeader(Domain(label), a) = Absorb(g[m - 1], b, m)
      BY <1>2, <1>4, <2>1, <3>2
    <3> QED
      BY <3>3, <3>4, HeaderIsNotAbsorbed
  <2>2. CASE n # 0 /\ m = 0
    <3>1. n \in 1..n /\ n - 1 \in 0..n
      BY <1>1, <2>2
    <3>2. f[n] = Absorb(f[n - 1], a, n)
      BY <1>2, <3>1
    <3>3. PICK inputs : f[n - 1] = Hash(inputs)
      BY <1>5, <3>1
    <3>4. ByteHeader(Domain(label), b) = Absorb(f[n - 1], a, n)
      BY <1>3, <1>4, <2>2, <3>2
    <3> QED
      BY <3>3, <3>4, HeaderIsNotAbsorbed
  <2>3. CASE n # 0 /\ m # 0
    <3>1. /\ f[n] = Absorb(f[n - 1], a, n)
          /\ g[m] = Absorb(g[m - 1], b, m)
      BY <1>1, <1>2, <1>3, <2>3
    <3>2. Absorb(f[n - 1], a, n) = Absorb(g[m - 1], b, m)
      BY <1>4, <3>1
    <3> QED
      BY <1>1, <3>2, AbsorbInjective
  <2> QED
    BY <2>1, <2>2, <2>3
<1>7. \A j \in Nat : j <= n => f[n - j] = g[n - j]
  <2> DEFINE S == {j \in Nat : j <= n => f[n - j] = g[n - j]}
  <2>1. 0 \in S
    BY <1>1, <1>4, <1>6
  <2>2. ASSUME NEW j \in S
        PROVE  j + 1 \in S
    <3> SUFFICES ASSUME j + 1 <= n
                 PROVE  f[n - (j + 1)] = g[n - (j + 1)]
      OBVIOUS
    <3>1. /\ n - j \in 1..n /\ n - (j + 1) = (n - j) - 1 /\ f[n - j] = g[n - j]
      BY <1>1
    <3>2. /\ f[n - j] = Absorb(f[(n - j) - 1], a, n - j)
          /\ g[n - j] = Absorb(g[(n - j) - 1], b, n - j)
      BY <1>2, <1>3, <1>6, <3>1
    <3>3. Absorb(f[(n - j) - 1], a, n - j)
            = Absorb(g[(n - j) - 1], b, n - j)
      BY <3>1, <3>2
    <3>4. f[(n - j) - 1] = g[(n - j) - 1]
      BY <1>1, <3>1, <3>3, AbsorbInjective
    <3> QED
      BY <3>1, <3>4
  <2>3. S = Nat
    <3>1. S \subseteq Nat
      OBVIOUS
    <3> HIDE DEF S
    <3> QED
      BY <2>1, <2>2, <3>1, Induction
  <2> QED
    BY <2>3
<1>8. \A i \in 0..n : f[i] = g[i]
  <2> SUFFICES ASSUME NEW i \in 0..n
               PROVE  f[i] = g[i]
    OBVIOUS
  <2>1. n - i \in Nat /\ n - i <= n /\ n - (n - i) = i
    BY <1>1
  <2>2. f[n - (n - i)] = g[n - (n - i)]
    BY <1>7, <2>1
  <2> QED
    BY <2>1, <2>2
<1>9. Len(a) = Len(b)
  <2>1. f[0] = g[0]
    BY <1>1, <1>8
  <2> QED
    BY <1>2, <1>3, <2>1, HeaderInjective
<1>10. \A i \in 1..n : LittleEndian(Chunks(a)[i]) = LittleEndian(Chunks(b)[i])
  <2> SUFFICES ASSUME NEW i \in 1..n
               PROVE  LittleEndian(Chunks(a)[i]) = LittleEndian(Chunks(b)[i])
    OBVIOUS
  <2>1. f[i] = g[i]
    BY <1>1, <1>8
  <2>2. /\ f[i] = Absorb(f[i - 1], a, i)
        /\ g[i] = Absorb(g[i - 1], b, i)
    BY <1>2, <1>3, <1>6
  <2>3. Absorb(f[i - 1], a, i) = Absorb(g[i - 1], b, i)
    BY <2>1, <2>2
  <2> QED
    BY <2>3, AbsorbInjective
<1>11. ASSUME NEW p \in 1..Len(a)
       PROVE  a[p] = b[p]
  <2>1. PICK i \in 1..n, k \in 1..ChunkWidth :
            /\ i = (p - 1) \div ChunkWidth + 1 /\ k = ((p - 1) % ChunkWidth) + 1
            /\ LittleEndian(Chunks(a)[i])[k] = a[p]
    BY ChunksCover DEF n
  <2>2. PICK j \in 1..m, l \in 1..ChunkWidth :
            /\ j = (p - 1) \div ChunkWidth + 1 /\ l = ((p - 1) % ChunkWidth) + 1
            /\ LittleEndian(Chunks(b)[j])[l] = b[p]
    BY <1>9, ChunksCover DEF m
  <2>3. i = j /\ k = l
    BY <2>1, <2>2
  <2> QED
    BY <1>10, <2>1, <2>2, <2>3
<1> QED
  BY <1>9, <1>11

=============================================================================
