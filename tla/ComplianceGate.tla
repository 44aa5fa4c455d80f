--------------------------- MODULE ComplianceGate ---------------------------
(***************************************************************************)
(* The combined gate in front of the replay store (docs/architecture.md    *)
(* section 15): what has to hold of roots, proofs and commitment before a  *)
(* trade is marked VERIFIED, while roots rotate, windows and expiries pass *)
(* and the rest of the matcher moves the trade along.                      *)
(*                                                                         *)
(* A gate worker looks at the current roots (validate_structure_at), then  *)
(* at the two proofs and the recomputed commitment, then calls verify; the *)
(* world moves between these steps. The proof interfaces, the window check, *)
(* the commitment check and the store are the repository's. Which order a  *)
(* worker takes is the matcher's, from the comment on verify (replay.rs:   *)
(* 179-183); authorities and the choice of the current root are external,  *)
(* and RootDelivery shows why they may be taken as a RootRegister.         *)
(***************************************************************************)
EXTENDS RootMetadata, FiniteSets

CONSTANTS
    Commitments, TxIds, MaxRetries, None,   \* as in ReplayStore
    Workers,            \* gate workers
    OpaqueProofMaxLen,  \* 16384
    MaxVersion,         \* bound of the versions, per kind of root
    Lifetime,           \* length of every published window
    MaxTime,            \* bound of the clock
    LastAnnouncement,   \* bound of the instants at which roots are announced
    MaxStaleness,       \* how far the clock moves while a worker holds a reading
    Terms               \* what trades may commit to: their own expiry and the
                        \* expiry of the recipient's credential

VARIABLES
    records, reply, verified, submitted, confirmed,     \* of the store
    published, current,     \* of the register of roots
    rotated,                \* when the current root of each kind was adopted
    terms,                  \* what each commitment commits to; never changes
    worker,                 \* what each gate worker is doing
    clock

store == <<records, reply, verified, submitted, confirmed>>
roots == <<published, current, rotated>>
vars == <<records, reply, verified, submitted, confirmed,
          published, current, rotated, terms, worker, clock>>

Instants == 0..MaxTime

Store == INSTANCE ReplayStore

ASSUME ComplianceGateAssumption ==
    /\ OpaqueProofMaxLen \in Nat
    /\ MaxVersion \in [Kinds -> Nat]
    /\ Lifetime \in Nat /\ MaxTime \in Nat /\ MaxStaleness \in Nat
    /\ LastAnnouncement \in Nat
    /\ Terms \subseteq [expiry : 0..MaxTime, credential_expiry : 0..MaxTime]
    /\ MaxRetries \in Nat
    /\ None \notin Commitments \cup TxIds \cup Store!FailureReason

\* A root stands for the trades it supports: those whose asset is authorized
\* under an issuance root, or whose recipient's credential is active.
Root == SUBSET Commitments

Authority == [k \in Kinds |-> IF k = KindIssuer THEN "issuer" ELSE "authority"]
Slots == {<<k, Authority[k]>> : k \in Kinds}

Announcements ==
    {[kind |-> k, id |-> Authority[k], root |-> r, version |-> v,
      valid_from |-> t, expires_at |-> t + Lifetime] :
        k \in Kinds, r \in Root, v \in 1..MaxVersion[KindIssuer] \cup 1..MaxVersion[KindCredential],
        t \in 0..LastAnnouncement}

Register == INSTANCE RootRegister WITH Nothing <- None

CurrentRoot(k) == current[<<k, Authority[k]>>]

-----------------------------------------------------------------------------
(* Proofs. A trade outside Commitments stands for any other one, for which *)
(* a prover has valid proofs under every root.                             *)

Trade == Commitments \cup {None}

OpaqueProofNew(length) ==
    CASE length = 0 -> "Empty"
      [] length > OpaqueProofMaxLen -> "TooLarge"
      [] OTHER -> "Ok"

ProvenancePublicInputs == [authorized_issuance_root : Root, trade_commitment : Trade]

EligibilityPublicInputs == [active_credential_root : Root, trade_commitment : Trade]

\* Containers of every size at the bounds, meant for a statement or for none.
Proof(inputs) ==
    [length : {0, 1, OpaqueProofMaxLen + 1}, parses : BOOLEAN, claim : inputs]

AnyResultIsValid(result) == TRUE    \* mutated form of IsValidResult

IsValidResult(result) == result = "Valid"

\* The statements of the circuits, for the trade of the proof.
Authorized(inputs) ==
    inputs.trade_commitment \in inputs.authorized_issuance_root \cup {None}

Eligible(inputs) ==
    \/ inputs.trade_commitment = None
    \/ /\ inputs.trade_commitment \in inputs.active_credential_root
       /\ LET t == terms[inputs.trade_commitment] IN t.credential_expiry >= t.expiry

\* What an implementation of the traits must do: check the proof against both
\* values it is given.
Verify(inputs, proof, holds) ==
    CASE ~proof.parses -> "ProofMalformed"
      [] proof.claim # inputs -> "PublicInputMismatch"
      [] ~holds -> "ProofRejected"
      [] OTHER -> "Valid"

ProvenanceVerify(authorized_issuance_root, trade_commitment, proof) ==
    LET inputs == [authorized_issuance_root |-> authorized_issuance_root,
                   trade_commitment |-> trade_commitment]
    IN Verify(inputs, proof, Authorized(proof.claim))

EligibilityVerifyAnyRoot(active_credential_root, trade_commitment, proof) ==   \* mutated
    LET inputs == [proof.claim EXCEPT !.trade_commitment = trade_commitment]
    IN Verify(inputs, proof, Eligible(proof.claim))

EligibilityVerify(active_credential_root, trade_commitment, proof) ==
    LET inputs == [active_credential_root |-> active_credential_root,
                   trade_commitment |-> trade_commitment]
    IN Verify(inputs, proof, Eligible(proof.claim))

AnyIntentMatches(k, expiry) == TRUE     \* mutated form of CommitmentMatches

\* verify_trade_commitment of the stored intent: the commitment is ideal.
CommitmentMatches(k, expiry) == terms[k].expiry = expiry

-----------------------------------------------------------------------------
(* The gate.                                                               *)

Idle == [pc |-> "idle", trade |-> None, roots |-> None, at |-> 0]

\* validate_structure_at of both current roots, at one reading of the clock.
LookAtRoots(w, k) ==
    /\ worker[w].pc = "idle"
    /\ Store!At(k, {"CREATED"})
    /\ \A kind \in Kinds :
        CurrentRoot(kind) # None /\ EnsureCurrentAt(CurrentRoot(kind), clock) = "Ok"
    /\ worker' = [worker EXCEPT ![w] =
                    [pc |-> "rooted", trade |-> k, at |-> clock,
                     roots |-> [kind \in Kinds |-> CurrentRoot(kind).root]]]
    /\ UNCHANGED <<store, roots, terms, clock>>

\* Both proofs, about the very commitment the stored intent gives.
CheckProofs(w) ==
    LET k == worker[w].trade IN
    /\ worker[w].pc = "rooted"
    /\ \E proof \in Proof(ProvenancePublicInputs) :
        /\ OpaqueProofNew(proof.length) = "Ok"
        /\ IsValidResult(ProvenanceVerify(worker[w].roots[KindIssuer], k, proof))
    /\ \E proof \in Proof(EligibilityPublicInputs) :
        /\ OpaqueProofNew(proof.length) = "Ok"
        /\ IsValidResult(EligibilityVerify(worker[w].roots[KindCredential], k, proof))
    /\ CommitmentMatches(k, records[k].expiry)
    /\ worker' = [worker EXCEPT ![w].pc = "proven"]
    /\ UNCHANGED <<store, roots, terms, clock>>

\* Readings taken by the rest of the matcher, and by a worker for its call.
Readings == {t \in Instants : t <= clock /\ clock <= t + MaxStaleness}

MarkVerified(w) ==
    /\ worker[w].pc = "proven"
    /\ \E now \in Readings : Store!Verify(worker[w].trade, now)
    /\ worker' = [worker EXCEPT ![w] = Idle]
    /\ UNCHANGED <<roots, terms, clock>>

\* Something was wrong with the evidence, or so the worker found.
Reject(w) ==
    /\ worker[w].pc = "rooted"
    /\ Store!Fail(worker[w].trade, "VerificationRejected")
    /\ worker' = [worker EXCEPT ![w] = Idle]
    /\ UNCHANGED <<roots, terms, clock>>

Crash(w) ==
    /\ worker[w].pc # "idle"
    /\ worker' = [worker EXCEPT ![w] = Idle]
    /\ UNCHANGED <<store, roots, terms, clock>>

-----------------------------------------------------------------------------
(* What goes on around it.                                                 *)

Announce(a) ==
    /\ a.version <= MaxVersion[a.kind]
    /\ a.valid_from = clock
    /\ Register!Publish(a)
    /\ UNCHANGED <<store, rotated, terms, worker, clock>>

\* The matcher follows a rotation, as RootDelivery lets it.
Rotate(a) ==
    /\ a.valid_from <= clock
    /\ clock <= a.expires_at + MaxStaleness
    /\ Register!Adopt(a)
    /\ rotated' = [rotated EXCEPT ![a.kind] = clock]
    /\ UNCHANGED <<store, terms, worker, clock>>

\* The RFQ layer opens a trade; create takes whatever intent comes with it,
\* that of another trade included.
Open(k, intent) ==
    /\ Store!Create(k, intent.expiry)
    /\ UNCHANGED <<roots, terms, worker, clock>>

\* The rest of the matcher settles, fails, retries and sweeps the trade.
Elsewhere(k) ==
    /\ \/ \E now \in Readings :
            \/ Store!AcquireConstruction(k, now)
            \/ \E t \in TxIds : Store!Submit(k, t, now)
            \/ \E t \in TxIds \cup {None} : Store!RetryAfterFailure(k, t, now)
            \/ Store!Expire(k, now)
       \/ Store!Fail(k, "SubmissionFailed")    \* the reason decides nothing here
       \/ Store!Confirm(k)
       \/ Store!Consume(k)
    /\ UNCHANGED <<roots, terms, worker, clock>>

Tick ==
    /\ clock < MaxTime
    /\ \A w \in Workers :
        worker[w].pc # "idle" => clock - worker[w].at < MaxStaleness
    /\ clock' = clock + 1
    /\ UNCHANGED <<store, roots, terms, worker>>

Init ==
    /\ Store!Init
    /\ Register!Init
    /\ rotated = [k \in Kinds |-> 0]
    /\ terms \in [Commitments -> Terms]
    /\ worker = [w \in Workers |-> Idle]
    /\ clock = 0

Next ==
    \/ \E w \in Workers :
        \/ \E k \in Commitments : LookAtRoots(w, k)
        \/ CheckProofs(w)
        \/ MarkVerified(w)
        \/ Reject(w)
        \/ Crash(w)
    \/ \E a \in Announcements : Announce(a) \/ Rotate(a)
    \/ \E k \in Commitments :
        \/ \E intent \in Terms : Open(k, intent)
        \/ Elsewhere(k)
    \/ Tick

Spec == Init /\ [][Next]_vars

-----------------------------------------------------------------------------
(* Properties.                                                             *)

Worker ==
    [pc : {"idle", "rooted", "proven"}, trade : Trade,
     roots : [Kinds -> Root] \cup {None}, at : Instants]

ComplianceGateTypeOK ==
    /\ Store!TypeOK
    /\ published \subseteq Announcements
    /\ current \in [Slots -> Announcements \cup {None}]
    /\ rotated \in [Kinds -> Instants]
    /\ terms \in [Commitments -> Terms]
    /\ worker \in [Workers -> Worker]
    /\ clock \in Instants

\* Which commitments a step marks verified, which it submits.
Verifies(k) == verified'[k] # verified[k]
Submits(k) == submitted'[k] # submitted[k]

\* StructurallyValid carries no time (envelope.rs:236) and roots may never be
\* replaced; still a trade is verified only while, up to the staleness of a
\* reading, signed roots of both kinds that support it have not run out. So a
\* trade whose support was withdrawn is not verified any more once the last
\* root that supported it is over, whether its successor was heard of or not.
\* (That a root is not used before its window is AdoptedInsideItsWindow.)
VerifiedUnderLiveRoots ==
    [][\A k \in Commitments, kind \in Kinds : Verifies(k) =>
          \E a \in published :
            /\ a.kind = kind /\ k \in a.root
            /\ clock <= a.expires_at + MaxStaleness]_vars

\* "Revocation happens by root rotation" (values.rs:207): the rotation that
\* drops a trade's support ends its verification, but for workers that had
\* looked at the roots before it.
RotationRevokes ==
    [][\A k \in Commitments, kind \in Kinds : Verifies(k) =>
          \/ k \in CurrentRoot(kind).root
          \/ clock <= rotated[kind] + MaxStaleness]_vars

\* create takes any intent for a commitment and only the gate compares them
\* (replay.rs:150); from VERIFIED on, and in whatever became of a submission,
\* the expiry all later gates go by is the committed one.
GatedByCommittedExpiry ==
    \A k \in DOMAIN records :
        \/ Store!At(k, {"VERIFIED", "SETTLEMENT_CONSTRUCTED", "SUBMITTED",
                        "CONFIRMED", "CONSUMED"})
        \/ records[k].prior_txid # None
        => records[k].expiry = terms[k].expiry

\* Records stay records, and past the gate they hold the committed terms.
ComplianceGateInv ==
    /\ ComplianceGateTypeOK
    /\ GatedByCommittedExpiry

\* The credential is checked once, before verify, and against the trade's
\* expiry only; still every submission, of any attempt, falls within the life
\* of the recipient's credential.
SubmittedWithinCredential ==
    [][\A k \in Commitments : Submits(k) =>
          clock <= terms[k].credential_expiry + MaxStaleness]_vars

=============================================================================
