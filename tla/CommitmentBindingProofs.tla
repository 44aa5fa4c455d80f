----------------------- MODULE CommitmentBindingProofs -----------------------
(* Invariants of CommitmentBinding, for every byte range, limb width, field *)
(* and bound on amendments, from the lemmas of CommitmentsProofs.           *)
EXTENDS CommitmentBinding, CommitmentsProofs

\* The types of the state, kind by kind.
Typed ==
    /\ original.kind \in Kinds
    /\ original.kind = "intent" => original.value \in TradeIntent /\ copy \in TradeIntent
    /\ original.kind = "credential" =>
          original.value \in ActiveCredential /\ copy \in ActiveCredential
    /\ original.kind = "limbs" =>
          original.value \in ReceiverLimbs /\ copy \in ReceiverLimbs
    /\ original.kind = "bytes" =>
          /\ original.value \in Seq(Byte) /\ Len(original.value) <= MaxLen
          /\ copy \in Seq(Byte) /\ Len(copy) <= MaxLen
    /\ edits \in 0..MaxEdits
    /\ original = [kind |-> original.kind, value |-> original.value]

\* Replacing a byte keeps a byte string of the same length.
LEMMA ByteEditsKeepLength ==
    ASSUME NEW n \in Nat, NEW b \in [1..n -> Byte], NEW e \in ByteEdits(b)
    PROVE  e \in [1..n -> Byte]
BY DEF ByteEdits

\* Every single amendment of an intent is an intent.
LEMMA IntentEditsAreIntents ==
    ASSUME NEW i \in TradeIntent, NEW e \in IntentEdits(i)
    PROVE  e \in TradeIntent
<1>1. AssetBaseLen \in Nat
  BY CommitmentsAssumption DEF AssetBaseLen
<1>2. \A a \in ByteEdits(i.offered_asset) : a \in AssetBaseBytes
  BY <1>1, ByteEditsKeepLength DEF TradeIntent, AssetBaseBytes
<1>3. \A a \in ByteEdits(i.requested_asset) : a \in AssetBaseBytes
  BY <1>1, ByteEditsKeepLength DEF TradeIntent, AssetBaseBytes
<1> QED
  BY <1>2, <1>3 DEF IntentEdits, TradeIntent, MatcherFee

\* Every single amendment of a credential is a credential.
LEMMA CredentialEditsAreCredentials ==
    ASSUME NEW c \in ActiveCredential, NEW e \in CredentialEdits(c)
    PROVE  e \in ActiveCredential
<1>1. \A r \in ByteEdits(c.approved_receiver) : r \in OrchardReceiverBytes
  BY CommitmentsAssumption, ByteEditsKeepLength
     DEF ActiveCredential, OrchardReceiverBytes
<1> QED
  BY <1>1 DEF CredentialEdits, ActiveCredential, InvestorClass, Jurisdiction

\* Every single amendment of three limbs is three limbs.
LEMMA LimbEditsAreLimbs ==
    ASSUME NEW l \in ReceiverLimbs, NEW e \in LimbEdits(l)
    PROVE  e \in ReceiverLimbs
<1>1. \A x \in ByteEdits(l.limb0) : x \in Limb
  BY CommitmentsAssumption, ByteEditsKeepLength DEF ReceiverLimbs, Limb
<1>2. \A x \in ByteEdits(l.limb1) : x \in Limb
  BY CommitmentsAssumption, ByteEditsKeepLength DEF ReceiverLimbs, Limb
<1>3. \A x \in ByteEdits(l.limb2) : x \in Limb
  BY CommitmentsAssumption, ByteEditsKeepLength DEF ReceiverLimbs, Limb
<1> QED
  BY <1>1, <1>2, <1>3 DEF LimbEdits, ReceiverLimbs

\* Replacing a byte of a string, or appending one, gives a byte string.
LEMMA BytesEditsAreBytes ==
    ASSUME NEW b \in Seq(Byte)
    PROVE  /\ \A e \in ByteEdits(b) : e \in Seq(Byte) /\ Len(e) = Len(b)
           /\ \A c \in Byte : Append(b, c) \in Seq(Byte)
                               /\ Len(Append(b, c)) = Len(b) + 1
BY DEF ByteEdits

\* What amendments start from is typed.
LEMMA OriginsAreTyped ==
    /\ Origin("intent") \in TradeIntent
    /\ Origin("credential") \in ActiveCredential
    /\ Origin("limbs") \in ReceiverLimbs
    /\ Origin("bytes") \in Seq(Byte) /\ Len(Origin("bytes")) <= MaxLen
<1>1. SomeField \in Field
  BY BindingAssumption DEF SomeField
<1>2. /\ Zeros(AssetBaseLen) \in AssetBaseBytes
      /\ Zeros(ReceiverLen) \in OrchardReceiverBytes
      /\ Zeros(ChunkWidth) \in Limb
  BY CommitmentsAssumption DEF Zeros, AssetBaseBytes, OrchardReceiverBytes, Limb
<1>3. 0 \in U64
  BY BindingAssumption
<1>4. Origin("intent") \in TradeIntent
  BY <1>1, <1>2, <1>3 DEF Origin, TradeIntent, MatcherFee
<1>5. Origin("credential") \in ActiveCredential
  BY <1>1, <1>2, <1>3, CommitmentsAssumption
     DEF Origin, ActiveCredential, InvestorClass, Jurisdiction
<1>6. Origin("limbs") \in ReceiverLimbs
  BY <1>2 DEF Origin, ReceiverLimbs
<1>7. Origin("bytes") \in Seq(Byte) /\ Len(Origin("bytes")) <= MaxLen
  <2>1. Origin("bytes") = <<>>
    BY DEF Origin
  <2>2. <<>> \in Seq(Byte) /\ Len(<<>>) <= MaxLen
    BY BindingAssumption
  <2> QED
    BY <2>1, <2>2
<1> QED
  BY <1>4, <1>5, <1>6, <1>7

\* Original and copy stay values of their kind.
LEMMA StaysTyped == Spec => []Typed
<1>1. Init => Typed
  BY OriginsAreTyped, BindingAssumption DEF Init, Typed, Kinds
<1>2. Typed /\ [Next]_vars => Typed'
  <2> SUFFICES ASSUME Typed, [Next]_vars
               PROVE  Typed'
    OBVIOUS
  <2>1. ASSUME original.kind = "intent", NEW v \in IntentEdits(copy), Amend("intent", v)
        PROVE  Typed'
    BY <2>1, BindingAssumption, IntentEditsAreIntents DEF Typed, Amend
  <2>2. ASSUME original.kind = "credential", NEW v \in CredentialEdits(copy),
               Amend("credential", v)
        PROVE  Typed'
    BY <2>2, BindingAssumption, CredentialEditsAreCredentials DEF Typed, Amend
  <2>3. ASSUME original.kind = "limbs", NEW v \in LimbEdits(copy), Amend("limbs", v)
        PROVE  Typed'
    BY <2>3, BindingAssumption, LimbEditsAreLimbs DEF Typed, Amend
  <2>4. ASSUME NEW v, Amend("bytes", v), v \in Seq(Byte), Len(v) <= MaxLen
        PROVE  Typed'
    BY <2>4, BindingAssumption DEF Typed, Amend
  <2>5. CASE Recommit
    BY <2>5 DEF Typed, Recommit
  <2>6. CASE UNCHANGED vars
    BY <2>6 DEF Typed, vars
  <2>7. ASSUME original.kind = "bytes", NEW v \in ByteEdits(copy), Amend("bytes", v)
        PROVE  Typed'
    BY <2>4, <2>7, BytesEditsAreBytes DEF Typed
  <2>8. ASSUME original.kind = "bytes", Len(copy) < MaxLen, NEW b \in Byte,
               Amend("bytes", Append(copy, b))
        PROVE  Typed'
    <3>1. copy \in Seq(Byte) /\ Len(copy) \in Nat /\ MaxLen \in Nat
      BY <2>8, BindingAssumption DEF Typed
    <3>2. Append(copy, b) \in Seq(Byte) /\ Len(Append(copy, b)) <= MaxLen
      BY <2>8, <3>1, BytesEditsAreBytes
    <3> QED
      BY <2>4, <2>8, <3>2
  <2> QED
    BY <2>1, <2>2, <2>3, <2>5, <2>6, <2>7, <2>8 DEF Next
<1> QED
  BY <1>1, <1>2, PTL DEF Spec

\* The matcher's recomputation accepts exactly the committed intent
\* (verify_trade_commitment over trade_commitment_parts).
THEOREM IntentIsBound == Spec => []CommitmentBindsIntent
<1>1. Typed => CommitmentBindsIntent
  BY TradeCommitmentBinds DEF Typed, CommitmentBindsIntent, VerifyTradeCommitment
<1> QED
  BY <1>1, StaysTyped, PTL

\* Equal leaves come from equal credentials (ActiveCredential::leaf).
THEOREM CredentialIsBound == Spec => []LeafBindsCredential
<1>1. Typed => LeafBindsCredential
  BY CredentialLeafBinds DEF Typed, LeafBindsCredential
<1> QED
  BY <1>1, StaysTyped, PTL

\* A receiver commitment stands for one receiver, in the credential and in
\* the recipient binding (authorizes, bind_recipient).
THEOREM ReceiverBound == Spec => []ReceiverIsBound
<1>1. Typed => ReceiverIsBound
  <2> SUFFICES ASSUME Typed, original.kind = "credential",
                      NEW o, o = original.value
               PROVE  /\ Authorizes(o, copy.approved_receiver)
                           <=> copy.approved_receiver = o.approved_receiver
                      /\ BindRecipient(copy.subject_secret, copy.approved_receiver)
                           = BindRecipient(o.subject_secret, o.approved_receiver)
                         <=> /\ copy.subject_secret = o.subject_secret
                             /\ copy.approved_receiver = o.approved_receiver
    BY DEF ReceiverIsBound
  <2>1. /\ o.approved_receiver \in OrchardReceiverBytes
        /\ copy.approved_receiver \in OrchardReceiverBytes
    BY DEF Typed, ActiveCredential
  <2>2. Authorizes(o, copy.approved_receiver)
          <=> copy.approved_receiver = o.approved_receiver
    BY <2>1, ReceiverCommitmentBinds DEF Authorizes
  <2>3. ASSUME BindRecipient(copy.subject_secret, copy.approved_receiver)
                 = BindRecipient(o.subject_secret, o.approved_receiver)
        PROVE  /\ copy.subject_secret = o.subject_secret
               /\ copy.approved_receiver = o.approved_receiver
    <3>1. <<Domain("RCPBIND1"), SubjectCommitment(copy.subject_secret),
            ReceiverCommitment(copy.approved_receiver)>>
            = <<Domain("RCPBIND1"), SubjectCommitment(o.subject_secret),
                ReceiverCommitment(o.approved_receiver)>>
      BY <2>3, HashInjective DEF BindRecipient, RecipientCommitment
    <3>2. SubjectCommitment(copy.subject_secret) = SubjectCommitment(o.subject_secret)
          /\ ReceiverCommitment(copy.approved_receiver)
               = ReceiverCommitment(o.approved_receiver)
      BY <3>1
    <3>3. <<Domain("SUBJECT1"), copy.subject_secret>> = <<Domain("SUBJECT1"), o.subject_secret>>
      BY <3>2, HashInjective DEF SubjectCommitment
    <3> QED
      BY <2>1, <3>2, <3>3, ReceiverCommitmentBinds
  <2> QED
    BY <2>2, <2>3
<1> QED
  BY <1>1, StaysTyped, PTL

\* Decoding undoes encoding, and the range check admits exactly the limbs of
\* receivers (encode_asset_base, encode_receiver, ReceiverLimbs::new).
THEOREM EncodingsAreLossless == Spec => []EncodingsRoundTrip
<1>1. Typed => EncodingsRoundTrip
  BY AssetBaseRoundTrip, ReceiverRoundTrip, LimbsInRangeDescribeReceivers
     DEF Typed, EncodingsRoundTrip, TradeIntent, ActiveCredential, ReceiverLimbs
<1> QED
  BY <1>1, StaysTyped, PTL

\* Original and copy stay values of their kind, a receiver always encodes to
\* limbs that the range check admits, and equal canonical-byte commitments come
\* from equal byte strings, of whatever lengths (encode_receiver,
\* canonical_bytes_commitment).
THEOREM BindingHolds == Spec => []BindingInv
<1>1. Typed => BindingTypeOK
  <2> SUFFICES ASSUME Typed
               PROVE  BindingTypeOK
    OBVIOUS
  <2>1. original.value \in Values(original.kind) /\ copy \in Values(original.kind)
    BY DEF Typed, Kinds, Values
  <2>2. ASSUME original.kind = "credential"
        PROVE  LET limbs == EncodeReceiver(copy.approved_receiver)
               IN  limbs \in ReceiverLimbs /\ ReceiverLimbsInRange(limbs.limb2)
    <3>1. copy.approved_receiver \in OrchardReceiverBytes
      BY <2>2 DEF Typed, ActiveCredential
    <3> QED
      BY <3>1, ReceiverRoundTrip, EncodedReceiversAreLimbs DEF ReceiverLimbs
  <2> QED
    BY <2>1, <2>2 DEF Typed, BindingTypeOK
<1>2. Typed => BytesAreBound
  BY CanonicalBytesBind DEF Typed, BytesAreBound
<1> QED
  BY <1>1, <1>2, StaysTyped, PTL DEF BindingInv

=============================================================================
