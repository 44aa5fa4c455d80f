-------------------------- MODULE CommitmentBinding --------------------------
(***************************************************************************)
(* Two parties hold an original and a copy of the same value, and the copy *)
(* is amended one element at a time, any way an intent, a credential, a    *)
(* byte string or a triple of receiver limbs can differ. Whoever compares  *)
(* commitments must see every difference: the matcher when it recomputes   *)
(* TradeCommitmentV1, the credential tree through its leaves, the fee      *)
(* receiver through the canonical-byte commitment.                         *)
(***************************************************************************)
EXTENDS Commitments

CONSTANTS
    MaxLen,         \* bound on the length of byte strings
    MaxEdits        \* bound on the number of amendments

ASSUME BindingAssumption ==
    /\ Field # {}
    /\ 0 \in U64
    /\ MaxLen \in Nat
    /\ MaxEdits \in Nat

VARIABLES
    original,       \* [kind, value]: what was committed to
    copy,           \* the amended value, of the same kind
    edits

vars == <<original, copy, edits>>

Kinds == {"intent", "credential", "bytes", "limbs"}

ReceiverLimbs == [limb0 : Limb, limb1 : Limb, limb2 : Limb]

\* The values a kind ranges over (u128 limbs are not range-checked here).
Values(kind) ==
    CASE kind = "intent" -> TradeIntent
      [] kind = "credential" -> ActiveCredential
      [] kind = "bytes" -> {b \in Seq(Byte) : Len(b) <= MaxLen}
      [] kind = "limbs" -> ReceiverLimbs

Zeros(n) == [i \in 1..n |-> 0]
SomeField == CHOOSE f \in Field : TRUE

\* Where amendments start from: the all-zero value of each kind.
Origin(kind) ==
    CASE kind = "intent" ->
            [offered_asset |-> Zeros(AssetBaseLen), offered_amount |-> 0,
             requested_asset |-> Zeros(AssetBaseLen), requested_amount |-> 0,
             recipient_commitment |-> SomeField, policy_root |-> SomeField,
             matcher_fee |-> [amount |-> 0, recipient_commitment |-> SomeField],
             nonce |-> 0, expiry |-> 0]
      [] kind = "credential" ->
            [authority_commitment |-> SomeField, subject_secret |-> SomeField,
             investor_class |-> 0, jurisdiction |-> 0, credential_expiry |-> 0,
             nonce |-> 0, approved_receiver |-> Zeros(ReceiverLen)]
      [] kind = "bytes" -> <<>>
      [] kind = "limbs" ->
            [limb0 |-> Zeros(ChunkWidth), limb1 |-> Zeros(ChunkWidth),
             limb2 |-> Zeros(ChunkWidth)]

ByteEdits(bytes) ==
    {[bytes EXCEPT ![i] = b] : i \in DOMAIN bytes, b \in Byte}

IntentEdits(i) ==
    {[i EXCEPT !.offered_asset = a] : a \in ByteEdits(i.offered_asset)}
    \cup {[i EXCEPT !.requested_asset = a] : a \in ByteEdits(i.requested_asset)}
    \cup {[i EXCEPT !.offered_amount = n] : n \in U64}
    \cup {[i EXCEPT !.requested_amount = n] : n \in U64}
    \cup {[i EXCEPT !.nonce = n] : n \in U64}
    \cup {[i EXCEPT !.expiry = n] : n \in U64}
    \cup {[i EXCEPT !.matcher_fee.amount = n] : n \in U64}
    \cup {[i EXCEPT !.recipient_commitment = f] : f \in Field}
    \cup {[i EXCEPT !.policy_root = f] : f \in Field}
    \cup {[i EXCEPT !.matcher_fee.recipient_commitment = f] : f \in Field}

CredentialEdits(c) ==
    {[c EXCEPT !.authority_commitment = f] : f \in Field}
    \cup {[c EXCEPT !.subject_secret = f] : f \in Field}
    \cup {[c EXCEPT !.investor_class = n] : n \in InvestorClass}
    \cup {[c EXCEPT !.jurisdiction = n] : n \in Jurisdiction}
    \cup {[c EXCEPT !.credential_expiry = n] : n \in U64}
    \cup {[c EXCEPT !.nonce = n] : n \in U64}
    \cup {[c EXCEPT !.approved_receiver = r] : r \in ByteEdits(c.approved_receiver)}

LimbEdits(l) ==
    {[l EXCEPT !.limb0 = x] : x \in ByteEdits(l.limb0)}
    \cup {[l EXCEPT !.limb1 = x] : x \in ByteEdits(l.limb1)}
    \cup {[l EXCEPT !.limb2 = x] : x \in ByteEdits(l.limb2)}

-----------------------------------------------------------------------------
Init ==
    /\ \E kind \in Kinds :
          original = [kind |-> kind, value |-> Origin(kind)]
    /\ copy = original.value
    /\ edits = 0

Amend(kind, amended) ==
    /\ original.kind = kind
    /\ edits < MaxEdits
    /\ copy' = amended
    /\ edits' = edits + 1
    /\ UNCHANGED original

\* The original moves too, so that neither side stays at the origin.
Recommit ==
    /\ edits < MaxEdits
    /\ copy # original.value
    /\ original' = [original EXCEPT !.value = copy]
    /\ UNCHANGED <<copy, edits>>

Next ==
    \/ original.kind = "intent" /\ \E v \in IntentEdits(copy) : Amend("intent", v)
    \/ original.kind = "credential" /\ \E v \in CredentialEdits(copy) : Amend("credential", v)
    \/ original.kind = "limbs" /\ \E v \in LimbEdits(copy) : Amend("limbs", v)
    \/ original.kind = "bytes" /\ \E v \in ByteEdits(copy) : Amend("bytes", v)
    \/ /\ original.kind = "bytes"
       /\ Len(copy) < MaxLen
       /\ \E b \in Byte : Amend("bytes", Append(copy, b))
    \/ Recommit

Spec == Init /\ [][Next]_vars

-----------------------------------------------------------------------------
(* Properties.                                                             *)

\* Original and copy stay values of their kind, and a receiver of the right
\* length always encodes to limbs that pass the range check, which is why
\* encode_receiver can be total (receiver.rs:90).
BindingTypeOK ==
    /\ original.kind \in Kinds
    /\ original.value \in Values(original.kind)
    /\ copy \in Values(original.kind)
    /\ edits \in 0..MaxEdits
    /\ original.kind = "credential" =>
          LET limbs == EncodeReceiver(copy.approved_receiver) IN
          limbs \in ReceiverLimbs /\ ReceiverLimbsInRange(limbs.limb2)

\* The matcher's recomputation accepts an intent for a commitment exactly
\* when it is the intent that was committed to, every field of it: none of
\* the seven hash stages drops a field or lets one intent's stage stand for
\* another's. Which place a field has in its stage does not matter here, only
\* that all four implementations agree on it: ConstraintsDescribeIntents and
\* HonestAcceptedIffEligible (Witnesses) are about that.
CommitmentBindsIntent ==
    original.kind = "intent" =>
        (VerifyTradeCommitment(copy, TradeCommitmentV1(original.value)) = "Ok"
            <=> copy = original.value)

\* Two credentials have the same leaf only if they are the same credential:
\* a leaf approves one subject, one policy tuple, one expiry and one receiver.
LeafBindsCredential ==
    original.kind = "credential" =>
        (CredentialLeaf(copy) = CredentialLeaf(original.value)
            <=> copy = original.value)

\* A credential authorizes its approved receiver and no other, and the
\* recipient commitment of a trade tells receivers and subjects apart in the
\* same way: it is the same receiver commitment that goes into both.
ReceiverIsBound ==
    original.kind = "credential" =>
        LET o == original.value IN
        /\ Authorizes(o, copy.approved_receiver)
              <=> copy.approved_receiver = o.approved_receiver
        /\ BindRecipient(copy.subject_secret, copy.approved_receiver)
              = BindRecipient(o.subject_secret, o.approved_receiver)
           <=> /\ copy.subject_secret = o.subject_secret
               /\ copy.approved_receiver = o.approved_receiver

\* The canonical-byte commitment tells byte strings of every length apart,
\* although the last chunk is padded with zeros before it is hashed.
BytesAreBound ==
    original.kind = "bytes" =>
        (CanonicalBytesCommitment(Domain("FRCPTV1"), copy)
            = CanonicalBytesCommitment(Domain("FRCPTV1"), original.value)
            <=> copy = original.value)

\* Encodings of any length: receivers always fit their limbs, and byte strings,
\* chunked and padded, keep the commitments of different strings apart.
BindingInv ==
    /\ BindingTypeOK
    /\ BytesAreBound

\* The limb encodings lose nothing: bytes survive encoding and decoding, and
\* accepted receiver limbs describe one receiver each, because the range check
\* on the third limb keeps exactly those that decode and re-encode to
\* themselves.
EncodingsRoundTrip ==
    /\ original.kind = "intent" =>
          DecodeAssetBase(EncodeAssetBase(copy.offered_asset)) = copy.offered_asset
    /\ original.kind = "credential" =>
          DecodeReceiver(EncodeReceiver(copy.approved_receiver))
            = copy.approved_receiver
    /\ original.kind = "limbs" =>
          (ReceiverLimbsInRange(copy.limb2)
              <=> EncodeReceiver(DecodeReceiver(copy)) = copy)

=============================================================================
