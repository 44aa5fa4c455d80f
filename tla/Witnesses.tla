----------------------------- MODULE Witnesses -----------------------------
(***************************************************************************)
(* Provers against the two circuits. A request is turned into honest       *)
(* witnesses; then single signals are altered, parts of other provers'     *)
(* witnesses are presented, and the provers agree on whatever trade their  *)
(* signals now describe, as src/tests/adversarial does in a few fixed      *)
(* ways. The matcher holds the two roots and recomputes the public trade   *)
(* commitment from the intent.                                             *)
(***************************************************************************)
EXTENDS Circuits

CONSTANTS
    Credentials, CredentialDepth,   \* the active credentials, in leaf order
    Policies, PolicyDepth,          \* per policy, its permitted tuples
    Issuances, IssuanceDepth,       \* the authorized issuances, each naming a policy
    Receivers,
    Requests,
    MaxEdits            \* bound of the alterations, per request

Tuple == [investorClass : InvestorClass, jurisdiction : Jurisdiction]
Issuance ==
    [issuerCommitment : Field, offeredAsset : AssetBaseBytes,
     seriesCommitment : Field, issuanceNonce : U64, policy : DOMAIN Policies]

ASSUME WitnessesAssumption ==
    /\ CredentialDepth \in Nat /\ PolicyDepth \in Nat /\ IssuanceDepth \in Nat
    /\ Credentials \in [1 .. TreeSize[CredentialDepth] -> ActiveCredential]
    /\ DOMAIN Policies \subseteq Nat
    /\ \A k \in DOMAIN Policies : Policies[k] \in [1 .. TreeSize[PolicyDepth] -> Tuple]
    /\ Issuances \in [1 .. TreeSize[IssuanceDepth] -> Issuance]
    /\ Receivers \subseteq OrchardReceiverBytes
    /\ \A r \in Requests :
          /\ r.credential \in DOMAIN Credentials
          /\ r.receiver \in Receivers
          /\ r.issuance \in DOMAIN Issuances
          /\ r.entry \in 1 .. TreeSize[PolicyDepth]
          /\ r.expiry \in U64
    /\ MaxEdits \in [Requests -> Nat]

VARIABLES
    request,    \* what the honest witnesses were made for
    intent,     \* the intent the matcher recomputes the commitment from
    eligibility, provenance,    \* the witnesses presented
    edits

vars == <<request, intent, eligibility, provenance, edits>>

-----------------------------------------------------------------------------
(* Trees.                                                                  *)

\* Every leaf is some subject's credential (the fixtures have one credential and
\* put constants in the other places).
CredentialLeaves == [i \in DOMAIN Credentials |-> CredentialLeaf(Credentials[i])]
PolicyLeaves(policy) == [i \in DOMAIN Policies[policy] |-> PolicyLeaf(Policies[policy][i])]

PolicyRoots ==
    [policy \in DOMAIN Policies |-> MerkleRoot(PolicyLeaves(policy), PolicyDepth)]
PolicyRoot(policy) == PolicyRoots[policy]

IssuanceLeaves ==
    [i \in DOMAIN Issuances |-> IssuanceLeaf(Issuances[i], PolicyRoot(Issuances[i].policy))]

ActiveCredentialRoot == MerkleRoot(CredentialLeaves, CredentialDepth)
AuthorizedIssuanceRoot == MerkleRoot(IssuanceLeaves, IssuanceDepth)

CredentialPaths ==
    [i \in DOMAIN Credentials |-> MerkleProof(CredentialLeaves, CredentialDepth, i)]
PolicyPaths ==
    [policy \in DOMAIN Policies |->
        [i \in DOMAIN Policies[policy] |-> MerkleProof(PolicyLeaves(policy), PolicyDepth, i)]]
IssuancePaths ==
    [i \in DOMAIN Issuances |-> MerkleProof(IssuanceLeaves, IssuanceDepth, i)]

Nodes(leaves, depth) ==
    UNION {Range(MerkleLevels(leaves, depth)[k]) : k \in 0..depth}

CredentialNodes == Nodes(CredentialLeaves, CredentialDepth)
PolicyNodes == UNION {Nodes(PolicyLeaves(policy), PolicyDepth) : policy \in DOMAIN Policies}
IssuanceNodes == Nodes(IssuanceLeaves, IssuanceDepth)

-----------------------------------------------------------------------------
(* Honest witnesses.                                                       *)

SomeField == CHOOSE f \in Field : TRUE

RequestedIntent(r) ==
    LET issuance == Issuances[r.issuance] IN
    [offered_asset |-> issuance.offeredAsset, offered_amount |-> 1,
     requested_asset |-> [i \in 1..AssetBaseLen |-> 0], requested_amount |-> 0,
     recipient_commitment |->
        BindRecipient(Credentials[r.credential].subject_secret, r.receiver),
     policy_root |-> PolicyRoot(issuance.policy),
     matcher_fee |-> [amount |-> 0, recipient_commitment |-> SomeField],
     nonce |-> 0, expiry |-> r.expiry]

HonestEligibility(r) ==
    LET policy == Issuances[r.issuance].policy IN
    EligibilityInput(RequestedIntent(r), Credentials[r.credential],
        CredentialPaths[r.credential], r.receiver,
        Policies[policy][r.entry], PolicyPaths[policy][r.entry])

HonestProvenance(r) ==
    ProvenanceInput(RequestedIntent(r), Issuances[r.issuance], IssuancePaths[r.issuance])

\* The decision about the same request outside the circuits: the credential
\* authorizes the receiver and covers the expiry, as the Rust type has it, and
\* it is of the class and jurisdiction of the policy entry the request names,
\* for which Rust has no predicate.
Eligible(r) ==
    LET credential == Credentials[r.credential]
        tuple == Policies[Issuances[r.issuance].policy][r.entry]
    IN /\ Authorizes(credential, r.receiver)
       /\ credential.investor_class = tuple.investorClass
       /\ credential.jurisdiction = tuple.jurisdiction
       /\ CoversTradeExpiry(credential, r.expiry)

\* The intent that the signals of an eligibility witness describe.
DescribedIntent(w) ==
    [offered_asset |-> DecodeAssetBase(w.trade.offeredAsset),
     offered_amount |-> w.trade.offeredAmount,
     requested_asset |-> DecodeAssetBase(w.trade.requestedAsset),
     requested_amount |-> w.trade.requestedAmount,
     recipient_commitment |-> BindRecipient(w.subjectSecret, DecodeReceiver(w.receiver)),
     policy_root |-> w.policyRoot,
     matcher_fee |-> [amount |-> w.trade.matcherFeeAmount,
                      recipient_commitment |-> w.trade.matcherFeeRecipientCommitment],
     nonce |-> w.trade.nonce,
     expiry |-> w.trade.expiry]

\* Limbs that encode bytes; only those describe an intent.
IsEncoded(w) ==
    /\ {w.trade.offeredAsset.hi, w.trade.offeredAsset.lo,
        w.trade.requestedAsset.hi, w.trade.requestedAsset.lo} \subseteq Limb
    /\ {w.receiver.limb0, w.receiver.limb1, w.receiver.limb2} \subseteq Limb
    /\ ReceiverLimbsInRange(w.receiver.limb2)

\* Intents the matcher's types can hold.
IsIntent(i) ==
    /\ i.offered_asset \in AssetBaseBytes /\ i.requested_asset \in AssetBaseBytes
    /\ \A n \in {i.offered_amount, i.requested_amount, i.matcher_fee.amount,
                 i.nonce, i.expiry} : n \in U64

-----------------------------------------------------------------------------
(* Signals. Paths have one step per level of their tree.                   *)

Recipients == {BindRecipient(f, r) : f \in Field, r \in OrchardReceiverBytes}

Path(nodes, depth) == [1..depth -> [sibling : nodes, index : Element]]

TradeSignals ==
    [offeredAsset : AssetSignals, offeredAmount : Element,
     requestedAsset : AssetSignals, requestedAmount : Element,
     matcherFeeAmount : Element, matcherFeeRecipientCommitment : Field,
     nonce : Element, expiry : Element]

EligibilityWitness ==
    [subjectSecret : Field, credentialAuthorityCommitment : Field,
     investorClass : Element, jurisdiction : Element,
     credentialExpiry : Element, credentialNonce : Element,
     credentialPath : Path(CredentialNodes, CredentialDepth),
     policyRoot : Range(PolicyRoots),
     allowedInvestorClass : Element, allowedJurisdiction : Element,
     policyPath : Path(PolicyNodes, PolicyDepth),
     receiver : ReceiverSignals, trade : TradeSignals]

ProvenanceWitness ==
    [issuerCommitment : Field, seriesCommitment : Field,
     policyRoot : Range(PolicyRoots), issuanceNonce : Element,
     issuancePath : Path(IssuanceNodes, IssuanceDepth),
     recipientCommitment : Recipients, trade : TradeSignals]

-----------------------------------------------------------------------------
(* Alterations of one signal.                                              *)

\* Every u64, the least element that is wider, and the largest element.
Number == U64 \cup {Span, Modulus - 1}

PathEdits(path, nodes) ==
    {[path EXCEPT ![k].sibling = n] : k \in DOMAIN path, n \in nodes}
    \cup {[path EXCEPT ![k].index = n] : k \in DOMAIN path, n \in Number}

TradeEdits(t) ==
    {[t EXCEPT !.offeredAsset.hi = l] : l \in LimbSignal}
    \cup {[t EXCEPT !.offeredAsset.lo = l] : l \in LimbSignal}
    \cup {[t EXCEPT !.requestedAsset.hi = l] : l \in LimbSignal}
    \cup {[t EXCEPT !.requestedAsset.lo = l] : l \in LimbSignal}
    \cup {[t EXCEPT !.offeredAmount = n] : n \in Number}
    \cup {[t EXCEPT !.requestedAmount = n] : n \in Number}
    \cup {[t EXCEPT !.matcherFeeAmount = n] : n \in Number}
    \cup {[t EXCEPT !.matcherFeeRecipientCommitment = f] : f \in Field}
    \cup {[t EXCEPT !.nonce = n] : n \in Number}
    \cup {[t EXCEPT !.expiry = n] : n \in Number}

EligibilityEdits(w) ==
    {[w EXCEPT !.subjectSecret = f] : f \in Field}
    \cup {[w EXCEPT !.credentialAuthorityCommitment = f] : f \in Field}
    \cup {[w EXCEPT !.investorClass = n] : n \in Number}
    \cup {[w EXCEPT !.jurisdiction = n] : n \in Number}
    \cup {[w EXCEPT !.credentialExpiry = n] : n \in Number}
    \cup {[w EXCEPT !.credentialNonce = n] : n \in Number}
    \cup {[w EXCEPT !.credentialPath = p] : p \in PathEdits(w.credentialPath, CredentialNodes)}
    \cup {[w EXCEPT !.policyRoot = PolicyRoot(k)] : k \in DOMAIN Policies}
    \cup {[w EXCEPT !.allowedInvestorClass = n] : n \in Number}
    \cup {[w EXCEPT !.allowedJurisdiction = n] : n \in Number}
    \cup {[w EXCEPT !.policyPath = p] : p \in PathEdits(w.policyPath, PolicyNodes)}
    \cup {[w EXCEPT !.receiver.limb0 = l] : l \in LimbSignal}
    \cup {[w EXCEPT !.receiver.limb1 = l] : l \in LimbSignal}
    \cup {[w EXCEPT !.receiver.limb2 = l] : l \in LimbSignal}
    \cup {[w EXCEPT !.trade = t] : t \in TradeEdits(w.trade)}

ProvenanceEdits(w) ==
    {[w EXCEPT !.issuerCommitment = f] : f \in Field}
    \cup {[w EXCEPT !.seriesCommitment = f] : f \in Field}
    \cup {[w EXCEPT !.policyRoot = PolicyRoot(k)] : k \in DOMAIN Policies}
    \cup {[w EXCEPT !.issuanceNonce = n] : n \in Number}
    \cup {[w EXCEPT !.issuancePath = p] : p \in PathEdits(w.issuancePath, IssuanceNodes)}
    \cup {[w EXCEPT !.recipientCommitment = BindRecipient(f, r)] : f \in Field, r \in Receivers}
    \cup {[w EXCEPT !.trade = t] : t \in TradeEdits(w.trade)}

-----------------------------------------------------------------------------
Init ==
    /\ request \in Requests
    /\ intent = RequestedIntent(request)
    /\ eligibility = HonestEligibility(request)
    /\ provenance = HonestProvenance(request)
    /\ edits = 0

PresentEligibility(w) ==
    /\ edits < MaxEdits[request]
    /\ eligibility' = w
    /\ edits' = edits + 1
    /\ UNCHANGED <<request, intent, provenance>>

PresentProvenance(w) ==
    /\ edits < MaxEdits[request]
    /\ provenance' = w
    /\ edits' = edits + 1
    /\ UNCHANGED <<request, intent, eligibility>>

\* Another subject's credential, with the path that belongs to it.
BorrowCredential(k) ==
    LET c == Credentials[k] IN
    PresentEligibility(
        [eligibility EXCEPT !.subjectSecret = c.subject_secret,
            !.credentialAuthorityCommitment = c.authority_commitment,
            !.investorClass = c.investor_class, !.jurisdiction = c.jurisdiction,
            !.credentialExpiry = c.credential_expiry, !.credentialNonce = c.nonce,
            !.credentialPath = CredentialPaths[k]])

\* A tuple of some policy, with the path and the root that belong to it.
ChoosePolicy(policy, entry) ==
    LET tuple == Policies[policy][entry] IN
    PresentEligibility(
        [eligibility EXCEPT !.policyRoot = PolicyRoot(policy),
            !.allowedInvestorClass = tuple.investorClass,
            !.allowedJurisdiction = tuple.jurisdiction,
            !.policyPath = PolicyPaths[policy][entry]])

SubstituteReceiver(receiver) ==
    PresentEligibility([eligibility EXCEPT !.receiver = EncodeReceiver(receiver)])

BorrowIssuance(k) ==
    LET i == Issuances[k] IN
    PresentProvenance(
        [provenance EXCEPT !.issuerCommitment = i.issuerCommitment,
            !.seriesCommitment = i.seriesCommitment,
            !.issuanceNonce = i.issuanceNonce, !.issuancePath = IssuancePaths[k]])

\* Both parties go along with the trade that the eligibility signals describe.
Agree ==
    /\ IsEncoded(eligibility)
    /\ IsIntent(DescribedIntent(eligibility))
    /\ intent' = DescribedIntent(eligibility)
    /\ provenance' = [provenance EXCEPT !.trade = eligibility.trade,
                        !.policyRoot = eligibility.policyRoot,
                        !.recipientCommitment = intent'.recipient_commitment]
    /\ UNCHANGED <<request, eligibility, edits>>

Next ==
    \/ \E w \in EligibilityEdits(eligibility) : PresentEligibility(w)
    \/ \E w \in ProvenanceEdits(provenance) : PresentProvenance(w)
    \/ \E k \in DOMAIN Credentials : BorrowCredential(k)
    \/ \E policy \in DOMAIN Policies : \E entry \in DOMAIN Policies[policy] :
          ChoosePolicy(policy, entry)
    \/ \E receiver \in Receivers : SubstituteReceiver(receiver)
    \/ \E k \in DOMAIN Issuances : BorrowIssuance(k)
    \/ Agree

Spec == Init /\ [][Next]_vars

-----------------------------------------------------------------------------
(* Properties.                                                             *)

EligibilityAccepted ==
    AcceptsEligibility(ActiveCredentialRoot, TradeCommitmentV1(intent), eligibility)

ProvenanceAccepted ==
    AcceptsProvenance(AuthorizedIssuanceRoot, TradeCommitmentV1(intent), provenance)

\* Witnesses keep the shape of the circuits' inputs: signals are elements and
\* limbs, and paths have one step per level of their tree.
WitnessesTypeOK ==
    /\ request \in Requests
    /\ IsIntent(intent)
    /\ eligibility \in EligibilityWitness
    /\ provenance \in ProvenanceWitness
    /\ edits \in 0..MaxEdits[request]

\* The circuits accept an honest prover exactly when the request is eligible:
\* the receiver approval and the comparison with the expiry, at its boundary
\* too, are those of the Rust type, and the credential's tuple is the policy
\* entry's. The implementations of the commitments agree, field by field, or
\* nobody would be accepted.
HonestAcceptedIffEligible ==
    edits = 0 =>
        /\ EligibilityAccepted <=> Eligible(request)
        /\ ProvenanceAccepted

\* Completeness: witnesses have the circuits' shape, and the honest ones among them
\* are accepted exactly when the request is eligible.
WitnessesInv ==
    /\ WitnessesTypeOK
    /\ HonestAcceptedIffEligible

\* Whoever is accepted holds an active credential for exactly the subject and
\* the receiver the trade settles to, and it covers the trade's expiry.
EligibilityIsSound ==
    EligibilityAccepted =>
        \E k \in DOMAIN Credentials :
            LET c == Credentials[k] IN
            /\ intent.recipient_commitment
                  = BindRecipient(c.subject_secret, c.approved_receiver)
            /\ CoversTradeExpiry(c, intent.expiry)

\* An accepted provenance witness is about an authorized issuance of the very
\* asset the intent offers, under the policy the intent names.
ProvenanceIsSound ==
    ProvenanceAccepted =>
        \E k \in DOMAIN Issuances :
            /\ Issuances[k].offeredAsset = intent.offered_asset
            /\ PolicyRoot(Issuances[k].policy) = intent.policy_root

\* The two proofs are joined by nothing but the trade commitment, and that is
\* enough: the recipient's class and jurisdiction are permitted by the policy
\* that the issuer chose for the asset traded, not by one the prover chose.
JoinedByCommitment ==
    EligibilityAccepted /\ ProvenanceAccepted =>
        \E k \in DOMAIN Credentials, i \in DOMAIN Issuances :
            LET c == Credentials[k]
                issuance == Issuances[i]
            IN /\ intent.recipient_commitment
                     = BindRecipient(c.subject_secret, c.approved_receiver)
               /\ intent.offered_asset = issuance.offeredAsset
               /\ \E entry \in DOMAIN Policies[issuance.policy] :
                     Policies[issuance.policy][entry]
                        = [investorClass |-> c.investor_class,
                           jurisdiction |-> c.jurisdiction]

\* Whatever satisfies the eligibility constraints describes an intent that
\* exists, with amounts, instants and encodings in range, and the circuit's
\* commitment is the one Rust computes for that intent.
ConstraintsDescribeIntents ==
    EligibilityConstraints(ActiveCredentialRoot, eligibility) =>
        /\ IsEncoded(eligibility)
        /\ IsIntent(DescribedIntent(eligibility))
        /\ EligibilityTrade(eligibility)
              = TradeCommitmentV1(DescribedIntent(eligibility))

=============================================================================
