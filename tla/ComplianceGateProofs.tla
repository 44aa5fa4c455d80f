------------------------- MODULE ComplianceGateProofs -------------------------
(***************************************************************************)
(* Proofs about ComplianceGate for every number of workers, trades, roots  *)
(* and versions, every lifetime of a window, retry budget and staleness.   *)
(*                                                                         *)
(* What the workers know of the roots does not depend on the store; what   *)
(* they know of their trade depends on it only through what every call     *)
(* keeps (ReplayStoreProofs!StepKeepsGate).                                *)
(***************************************************************************)
EXTENDS ComplianceGate, TLAPS

Thm == INSTANCE ReplayStoreProofs

-----------------------------------------------------------------------------
(* The invariants.                                                         *)

\* What a worker that has looked at the roots knows, whatever the store says:
\* at the instant it looked, a signed root of each kind was inside its window,
\* and that root is still the current one or was replaced since.
HasLooked(g) ==
    /\ g.trade \in Commitments
    /\ g.roots \in [Kinds -> Root]
    /\ g.at <= clock /\ clock <= g.at + MaxStaleness
    /\ \A kind \in Kinds :
        /\ \E a \in published :
              /\ a.kind = kind /\ a.root = g.roots[kind]
              /\ a.valid_from <= g.at /\ g.at <= a.expires_at
        /\ g.roots[kind] = CurrentRoot(kind).root \/ g.at <= rotated[kind]

RootsInv ==
    /\ published \subseteq Announcements
    /\ current \in [Slots -> Announcements \cup {None}]
    /\ \A kind \in Kinds : CurrentRoot(kind) # None =>
          CurrentRoot(kind) \in published /\ CurrentRoot(kind).kind = kind
    /\ rotated \in [Kinds -> Instants]
    /\ terms \in [Commitments -> Terms]
    /\ clock \in Instants
    /\ worker \in [Workers -> Worker]
    /\ \A w \in Workers : worker[w].pc # "idle" => HasLooked(worker[w])

\* The stored expiry is the committed one and the recipient's credential lasts
\* as long.
Covered(k) ==
    /\ records[k].expiry = terms[k].expiry
    /\ terms[k].expiry <= terms[k].credential_expiry

\* A worker that checked the proofs has a trade that both its roots support, and
\* that trade is covered; so is every record past the gate.
EvidenceInv ==
    /\ \A w \in Workers :
        /\ worker[w].pc # "idle" => worker[w].trade \in DOMAIN records
        /\ worker[w].pc = "proven" =>
              /\ \A kind \in Kinds : worker[w].trade \in worker[w].roots[kind]
              /\ Covered(worker[w].trade)
    /\ \A k \in DOMAIN records : Thm!PastGate(records[k]) => Covered(k)

-----------------------------------------------------------------------------
(* Roots and workers.                                                      *)

\* Announcements by their fields.
LEMMA AnnouncementFields ==
  ASSUME NEW a \in Announcements
  PROVE  /\ a.kind \in Kinds /\ a.root \in Root
         /\ a.valid_from \in Nat /\ a.expires_at \in Nat
         /\ Register!SlotOf(a) = <<a.kind, Authority[a.kind]>>
         /\ Register!SlotOf(a) \in Slots
<1>1. PICK k \in Kinds, r \in Root, t \in 0..LastAnnouncement :
        /\ a.kind = k /\ a.id = Authority[k] /\ a.root = r
        /\ a.valid_from = t /\ a.expires_at = t + Lifetime
  BY DEF Announcements
<1>2. a.valid_from \in Nat /\ a.expires_at \in Nat
  BY <1>1, ComplianceGateAssumption
<1>. QED
  BY <1>1, <1>2 DEF Register!SlotOf, Slots

LEMMA IdleWorker == Idle \in Worker /\ Idle.pc = "idle"
  BY ComplianceGateAssumption DEF Idle, Worker, Trade, Instants

LEMMA InitRoots == Init => RootsInv
<1>. SUFFICES ASSUME Init PROVE RootsInv
  OBVIOUS
<1>1. /\ published \subseteq Announcements
      /\ current \in [Slots -> Announcements \cup {None}]
      /\ \A s \in Slots : current[s] = None
  BY DEF Init, Register!Init
<1>2. \A kind \in Kinds : CurrentRoot(kind) = None
  BY <1>1 DEF CurrentRoot, Slots
<1>3. /\ rotated \in [Kinds -> Instants] /\ clock \in Instants
      /\ terms \in [Commitments -> Terms]
  BY ComplianceGateAssumption DEF Init, Instants
<1>4. worker \in [Workers -> Worker] /\ \A w \in Workers : worker[w].pc = "idle"
  BY IdleWorker DEF Init
<1>. QED
  BY <1>1, <1>2, <1>3, <1>4 DEF RootsInv

\* Workers that go on keep what they know while the roots and the clock stand.
LEMMA WorkersKeepRoots ==
  ASSUME RootsInv, UNCHANGED <<roots, terms, clock>>,
         worker' \in [Workers -> Worker],
         \A w \in Workers :
            \/ worker'[w].pc = "idle"
            \/ /\ worker[w].pc # "idle"
               /\ worker'[w].trade = worker[w].trade
               /\ worker'[w].roots = worker[w].roots
               /\ worker'[w].at = worker[w].at
            \/ HasLooked(worker'[w])
  PROVE  RootsInv'
<1>1. \A w \in Workers : worker'[w].pc # "idle" => HasLooked(worker'[w])
  BY DEF RootsInv, HasLooked
<1>2. \A kind \in Kinds : CurrentRoot(kind)' = CurrentRoot(kind)
  BY DEF roots, CurrentRoot
<1>3. \A w \in Workers : worker'[w].pc # "idle" => HasLooked(worker[w])'
  BY <1>1, <1>2 DEF HasLooked, roots
<1>. QED
  BY <1>2, <1>3 DEF RootsInv, roots

\* A worker put aside.
LEMMA RestingKeepsRoots ==
  ASSUME RootsInv, UNCHANGED <<roots, terms, clock>>, NEW w \in Workers,
         worker' = [worker EXCEPT ![w] = Idle]
  PROVE  RootsInv'
<1>1. worker' \in [Workers -> Worker]
  BY IdleWorker DEF RootsInv
<1>2. \A v \in Workers : worker'[v] = worker[v] \/ worker'[v].pc = "idle"
  BY IdleWorker DEF RootsInv
<1>. QED
  BY <1>1, <1>2, WorkersKeepRoots

\* One look at both roots.
LEMMA LookKeepsRoots ==
  ASSUME RootsInv, NEW w \in Workers, NEW k \in Commitments, LookAtRoots(w, k)
  PROVE  RootsInv'
<1>. DEFINE seen == [kind \in Kinds |-> CurrentRoot(kind).root]
            g == [pc |-> "rooted", trade |-> k, at |-> clock, roots |-> seen]
<1>1. /\ worker' = [worker EXCEPT ![w] = g]
      /\ UNCHANGED <<roots, terms, clock>>
  BY DEF LookAtRoots
<1>2. ASSUME NEW kind \in Kinds
      PROVE  LET a == CurrentRoot(kind) IN
             /\ a \in published /\ a \in Announcements /\ a.kind = kind
             /\ a.valid_from <= clock /\ clock <= a.expires_at
  <2>. DEFINE a == CurrentRoot(kind)
  <2>1. a # None /\ EnsureCurrentAt(a, clock) = "Ok"
    BY DEF LookAtRoots
  <2>2. a \in published /\ a.kind = kind /\ a \in Announcements
    BY <2>1 DEF RootsInv
  <2>. HIDE DEF a
  <2>3. a.valid_from \in Nat /\ a.expires_at \in Nat /\ clock \in Nat
    BY <2>2, AnnouncementFields, ComplianceGateAssumption DEF RootsInv, Instants
  <2>4. ~(clock < a.valid_from) /\ ~(clock > a.expires_at)
    BY <2>1 DEF EnsureCurrentAt, Contains
  <2>. QED
    BY <2>2, <2>3, <2>4 DEF a
<1>3. seen \in [Kinds -> Root]
  BY <1>2, AnnouncementFields
<1>4. clock \in Instants /\ clock <= clock /\ clock <= clock + MaxStaleness
  BY ComplianceGateAssumption DEF RootsInv, Instants
<1>5. g \in Worker
  BY <1>3, <1>4 DEF Worker, Trade
<1>6. /\ g.pc = "rooted" /\ g.trade = k /\ g.at = clock /\ g.roots = seen
      /\ \A kind \in Kinds : seen[kind] = CurrentRoot(kind).root
  OBVIOUS
<1>. HIDE DEF g, seen
<1>7. HasLooked(g)
  BY <1>2, <1>3, <1>4, <1>6 DEF HasLooked
<1>8. worker' \in [Workers -> Worker]
  BY <1>1, <1>5 DEF RootsInv
<1>9. \A v \in Workers : worker'[v] = worker[v] \/ HasLooked(worker'[v])
  BY <1>1, <1>7 DEF RootsInv
<1>. QED
  BY <1>1, <1>8, <1>9, WorkersKeepRoots

LEMMA CheckKeepsRoots ==
  ASSUME RootsInv, NEW w \in Workers, CheckProofs(w)
  PROVE  RootsInv'
<1>. DEFINE g == [worker[w] EXCEPT !.pc = "proven"]
<1>1. /\ worker' = [worker EXCEPT ![w] = g] /\ worker[w].pc = "rooted"
      /\ UNCHANGED <<roots, terms, clock>>
  BY DEF CheckProofs
<1>2. worker[w] \in Worker
  BY DEF RootsInv
<1>3. /\ g \in Worker /\ g.trade = worker[w].trade
      /\ g.roots = worker[w].roots /\ g.at = worker[w].at
  BY <1>2 DEF Worker
<1>. HIDE DEF g
<1>4. worker' \in [Workers -> Worker]
  BY <1>1, <1>3 DEF RootsInv
<1>5. \A v \in Workers :
        \/ worker'[v] = worker[v]
        \/ /\ worker[v].pc # "idle" /\ worker'[v].trade = worker[v].trade
           /\ worker'[v].roots = worker[v].roots /\ worker'[v].at = worker[v].at
  BY <1>1, <1>3 DEF RootsInv
<1>. QED
  BY <1>1, <1>4, <1>5, WorkersKeepRoots

\* What was published stays published.
LEMMA AnnounceKeepsRoots ==
  ASSUME RootsInv, NEW a \in Announcements, Announce(a)
  PROVE  RootsInv'
<1>1. /\ published' = published \cup {a}
      /\ UNCHANGED <<current, rotated, terms, worker, clock>>
  BY DEF Announce, Register!Publish
<1>2. \A kind \in Kinds : CurrentRoot(kind)' = CurrentRoot(kind)
  BY <1>1 DEF CurrentRoot
<1>3. ASSUME NEW w \in Workers, worker[w].pc # "idle"
      PROVE  HasLooked(worker[w])'
  BY <1>1, <1>2, <1>3 DEF RootsInv, HasLooked
<1>. QED
  BY <1>1, <1>2, <1>3 DEF RootsInv

\* A rotation is remembered with its instant, which no reading is ahead of.
LEMMA RotateKeepsRoots ==
  ASSUME RootsInv, NEW a \in Announcements, Rotate(a)
  PROVE  RootsInv'
<1>. DEFINE s == Register!SlotOf(a)
<1>1. /\ a \in published /\ current' = [current EXCEPT ![s] = a]
      /\ rotated' = [rotated EXCEPT ![a.kind] = clock]
      /\ UNCHANGED <<published, terms, worker, clock>>
  BY DEF Rotate, Register!Adopt
<1>2. s = <<a.kind, Authority[a.kind]>> /\ s \in Slots /\ a.kind \in Kinds
  BY AnnouncementFields
<1>. HIDE DEF s
<1>3. /\ CurrentRoot(a.kind)' = a
      /\ \A kind \in Kinds \ {a.kind} : CurrentRoot(kind)' = CurrentRoot(kind)
  BY <1>1, <1>2 DEF RootsInv, CurrentRoot
<1>4. current' \in [Slots -> Announcements \cup {None}]
  BY <1>1, <1>2 DEF RootsInv
<1>5. /\ rotated' \in [Kinds -> Instants] /\ rotated'[a.kind] = clock
      /\ \A kind \in Kinds \ {a.kind} : rotated'[kind] = rotated[kind]
  BY <1>1, <1>2 DEF RootsInv
<1>6. ASSUME NEW w \in Workers, worker[w].pc # "idle"
      PROVE  HasLooked(worker[w])'
  <2>1. HasLooked(worker[w])
    BY <1>6 DEF RootsInv
  <2>2. \A kind \in Kinds :
          \/ worker[w].roots[kind] = CurrentRoot(kind)'.root
          \/ worker[w].at <= rotated'[kind]
    BY <1>3, <1>5, <2>1 DEF HasLooked
  <2>. QED
    BY <1>1, <2>1, <2>2 DEF HasLooked
<1>7. \A kind \in Kinds : CurrentRoot(kind)' # None =>
        CurrentRoot(kind)' \in published' /\ CurrentRoot(kind)'.kind = kind
  BY <1>1, <1>3 DEF RootsInv
<1>. QED
  BY <1>1, <1>4, <1>5, <1>6, <1>7 DEF RootsInv

LEMMA TickKeepsRoots ==
  ASSUME RootsInv, Tick
  PROVE  RootsInv'
<1>1. /\ clock < MaxTime /\ clock' = clock + 1
      /\ \A w \in Workers :
            worker[w].pc # "idle" => clock - worker[w].at < MaxStaleness
      /\ UNCHANGED <<published, current, rotated, terms, worker>>
  BY DEF Tick, roots
<1>2. clock' \in Instants
  BY <1>1, ComplianceGateAssumption DEF RootsInv, Instants
<1>3. \A kind \in Kinds : CurrentRoot(kind)' = CurrentRoot(kind)
  BY <1>1 DEF CurrentRoot
<1>4. ASSUME NEW w \in Workers, worker[w].pc # "idle"
      PROVE  HasLooked(worker[w])'
  <2>1. HasLooked(worker[w]) /\ clock - worker[w].at < MaxStaleness
    BY <1>1, <1>4 DEF RootsInv
  <2>2. worker[w].at \in Nat /\ clock \in Nat /\ MaxStaleness \in Nat
    BY ComplianceGateAssumption DEF RootsInv, Worker, Instants
  <2>3. worker[w].at <= clock' /\ clock' <= worker[w].at + MaxStaleness
    BY <1>1, <2>1, <2>2 DEF HasLooked
  <2>. QED
    BY <1>1, <1>3, <2>1, <2>3 DEF HasLooked
<1>. QED
  BY <1>1, <1>2, <1>3, <1>4 DEF RootsInv

\* What the workers know of the roots, whatever happens to the records.
LEMMA NextKeepsRoots ==
  ASSUME RootsInv, [Next]_vars
  PROVE  RootsInv'
<1>1. ASSUME NEW w \in Workers, NEW k \in Commitments, LookAtRoots(w, k)
      PROVE  RootsInv'
  BY <1>1, LookKeepsRoots
<1>2. ASSUME NEW w \in Workers, CheckProofs(w)
      PROVE  RootsInv'
  BY <1>2, CheckKeepsRoots
<1>3. ASSUME NEW w \in Workers, MarkVerified(w) \/ Reject(w) \/ Crash(w)
      PROVE  RootsInv'
  BY <1>3, RestingKeepsRoots DEF MarkVerified, Reject, Crash
<1>4. ASSUME NEW a \in Announcements, Announce(a) \/ Rotate(a)
      PROVE  RootsInv'
  BY <1>4, AnnounceKeepsRoots, RotateKeepsRoots
<1>5. ASSUME UNCHANGED <<roots, terms, worker, clock>>
      PROVE  RootsInv'
  BY <1>5, WorkersKeepRoots DEF RootsInv
<1>6. ASSUME NEW k \in Commitments, (\E intent \in Terms : Open(k, intent)) \/ Elsewhere(k)
      PROVE  RootsInv'
  BY <1>5, <1>6 DEF Open, Elsewhere
<1>7. CASE UNCHANGED vars
  BY <1>5, <1>7 DEF vars, roots
<1>. QED
  BY <1>1, <1>2, <1>3, <1>4, <1>6, <1>7, TickKeepsRoots DEF Next

LEMMA RootsInvariant == Spec => []RootsInv
  BY InitRoots, NextKeepsRoots, PTL DEF Spec

-----------------------------------------------------------------------------
(* The store of the theorems is the store behind the gate.                 *)

\* What the theorems about the store assume of its constants.
LEMMA StoreAssumption == Thm!ReplayStoreAssumption
  BY ComplianceGateAssumption
     DEF Thm!ReplayStoreAssumption, Thm!FailureReason, Store!FailureReason, Instants

\* The calls are the same ones under either name.
LEMMA SameCalls == Store!Next <=> Thm!Next
<1>. USE DEF Store!At, Thm!At, Store!Refusal, Thm!Refusal, Store!Refuse, Thm!Refuse,
             Store!history, Thm!history, Store!RefuseUnlessAt, Thm!RefuseUnlessAt,
             Store!IsExpiredAt, Thm!IsExpiredAt, Store!ExpireIfElapsed,
             Thm!ExpireIfElapsed, Store!Live, Thm!Live, Store!Accept, Thm!Accept
<1>1. \A k, expiry : Store!Create(k, expiry) <=> Thm!Create(k, expiry)
  BY DEF Store!Create, Thm!Create, Store!NewRecord, Thm!NewRecord
<1>2. \A k, now : Store!Verify(k, now) <=> Thm!Verify(k, now)
  BY DEF Store!Verify, Thm!Verify
<1>3. \A k, now : Store!AcquireConstruction(k, now) <=> Thm!AcquireConstruction(k, now)
  BY DEF Store!AcquireConstruction, Thm!AcquireConstruction, Store!Acquirable,
         Thm!Acquirable
<1>4. \A k, txid, now : Store!Submit(k, txid, now) <=> Thm!Submit(k, txid, now)
  BY DEF Store!Submit, Thm!Submit
<1>5. \A k : Store!Confirm(k) <=> Thm!Confirm(k)
  BY DEF Store!Confirm, Thm!Confirm
<1>6. \A k : Store!Consume(k) <=> Thm!Consume(k)
  BY DEF Store!Consume, Thm!Consume
<1>7. \A k, reason : Store!Fail(k, reason) <=> Thm!Fail(k, reason)
  BY DEF Store!Fail, Thm!Fail, Store!Failable, Thm!Failable,
         Store!TxidAfterFailure, Thm!TxidAfterFailure
<1>8. \A k, now : Store!Expire(k, now) <=> Thm!Expire(k, now)
  BY DEF Store!Expire, Thm!Expire, Store!Expirable, Thm!Expirable
<1>9. \A k, acknowledged, now :
        Store!RetryAfterFailure(k, acknowledged, now)
          <=> Thm!RetryAfterFailure(k, acknowledged, now)
  BY DEF Store!RetryAfterFailure, Thm!RetryAfterFailure, Store!Retryable,
         Thm!Retryable, Store!BudgetSpent, Thm!BudgetSpent, Store!Acknowledges,
         Thm!Acknowledges, Store!Retried, Thm!Retried
<1>10. Store!FailureReason = Thm!FailureReason
  BY DEF Store!FailureReason, Thm!FailureReason
<1>. QED
  BY <1>1, <1>2, <1>3, <1>4, <1>5, <1>6, <1>7, <1>8, <1>9, <1>10
     DEF Store!Next, Thm!Next

\* So are its first state and its type.
LEMMA SameStore ==
  /\ Store!Init <=> Thm!Init
  /\ Store!vars = Thm!vars
  /\ Store!TypeOK <=> Thm!TypeOK
<1>1. Store!Init <=> Thm!Init
  BY DEF Store!Init, Thm!Init, Store!NewRecord, Thm!NewRecord
<1>2. Store!vars = Thm!vars
  BY DEF Store!vars, Thm!vars
<1>3. Store!TypeOK <=> Thm!TypeOK
  BY DEF Store!TypeOK, Thm!TypeOK, Store!TradeRecord, Thm!TradeRecord,
         Store!TradeLifecycleState, Thm!TradeLifecycleState, Store!FailureReason,
         Thm!FailureReason, Store!Result, Thm!Result
<1>. QED
  BY <1>1, <1>2, <1>3

\* Every step is one call of the store, or none.
LEMMA StepCallsStore ==
  ASSUME RootsInv, [Next]_vars
  PROVE  Store!Next \/ UNCHANGED store
<1>1. ASSUME NEW w \in Workers, MarkVerified(w) \/ Reject(w)
      PROVE  Store!Next
  <2>1. worker[w].trade \in Commitments
    BY <1>1 DEF MarkVerified, Reject, RootsInv, HasLooked
  <2>. QED
    BY <1>1, <2>1 DEF MarkVerified, Reject, Readings, Store!Next, Store!FailureReason
<1>2. ASSUME NEW w \in Workers,
             (\E k \in Commitments : LookAtRoots(w, k)) \/ CheckProofs(w) \/ Crash(w)
      PROVE  UNCHANGED store
  BY <1>2 DEF LookAtRoots, CheckProofs, Crash
<1>3. ASSUME NEW a \in Announcements, Announce(a) \/ Rotate(a)
      PROVE  UNCHANGED store
  BY <1>3 DEF Announce, Rotate
<1>4. ASSUME NEW k \in Commitments, NEW intent \in Terms, Open(k, intent)
      PROVE  Store!Next
  <2>1. intent.expiry \in Instants
    BY ComplianceGateAssumption DEF Instants
  <2>. QED
    BY <1>4, <2>1 DEF Open, Store!Next
<1>5. ASSUME NEW k \in Commitments, Elsewhere(k)
      PROVE  Store!Next
  BY <1>5 DEF Elsewhere, Readings, Store!Next, Store!FailureReason
<1>6. CASE Tick \/ UNCHANGED vars
  BY <1>6 DEF Tick, vars, store
<1>. QED
  BY <1>1, <1>2, <1>3, <1>4, <1>5, <1>6 DEF Next

\* The gate and all that goes on around it use the store as its specification
\* allows.
LEMMA GateUsesStore == Spec => Thm!Spec
<1>1. Init => Thm!Init
  BY SameStore DEF Init
<1>2. RootsInv /\ [Next]_vars => [Thm!Next]_(Thm!vars)
  BY StepCallsStore, SameCalls DEF Thm!vars, store
<1>. QED
  BY <1>1, <1>2, RootsInvariant, PTL DEF Spec, Thm!Spec

\* So the invariant of the store holds behind the gate,
LEMMA StoreInvariant == Spec => []Thm!IInv
  BY GateUsesStore, StoreAssumption, Thm!InductiveInvariant, PTL
     DEF Thm!InductiveInvariant

\* and its promise too: one launch at a time, at most MaxRetries + 1 of them and
\* one settlement, whatever gate workers, rotations and sweeps do.
THEOREM GateKeepsPromise == Spec => Thm!KeepsPromise
  BY GateUsesStore, StoreAssumption, Thm!Refinement, PTL DEF Thm!Refinement

-----------------------------------------------------------------------------
(* Evidence.                                                               *)

\* What checking both proofs and the commitment shows.
LEMMA CheckedProofsSupport ==
  ASSUME RootsInv, NEW w \in Workers, CheckProofs(w)
  PROVE  /\ \A kind \in Kinds : worker[w].trade \in worker[w].roots[kind]
         /\ Covered(worker[w].trade)
<1>. DEFINE k == worker[w].trade
            g == worker[w].roots
<1>1. k \in Commitments /\ k # None
  BY ComplianceGateAssumption DEF CheckProofs, RootsInv, HasLooked
<1>2. PICK p \in Proof(ProvenancePublicInputs) :
        IsValidResult(ProvenanceVerify(g[KindIssuer], k, p))
  BY DEF CheckProofs
<1>3. PICK e \in Proof(EligibilityPublicInputs) :
        IsValidResult(EligibilityVerify(g[KindCredential], k, e))
  BY DEF CheckProofs
<1>4. /\ p.claim = [authorized_issuance_root |-> g[KindIssuer], trade_commitment |-> k]
      /\ Authorized(p.claim)
  BY <1>2 DEF ProvenanceVerify, Verify, IsValidResult
<1>5. /\ e.claim = [active_credential_root |-> g[KindCredential], trade_commitment |-> k]
      /\ Eligible(e.claim)
  BY <1>3 DEF EligibilityVerify, Verify, IsValidResult
<1>6. CommitmentMatches(k, records[k].expiry)
  BY DEF CheckProofs
<1>7. k \in g[KindIssuer] /\ k \in g[KindCredential]
  BY <1>1, <1>4, <1>5 DEF Authorized, Eligible
<1>8. terms[k].credential_expiry >= terms[k].expiry
  BY <1>1, <1>5 DEF Eligible
<1>9. terms[k].credential_expiry \in Nat /\ terms[k].expiry \in Nat
  BY <1>1, ComplianceGateAssumption DEF RootsInv
<1>10. \A kind \in Kinds : k \in g[kind]
  BY <1>7 DEF Kinds
<1>. QED
  BY <1>6, <1>8, <1>9, <1>10 DEF CommitmentMatches, Covered

\* Records and terms go on covering, and new verifications are of covered trades.
LEMMA StoreStepKeepsEvidence ==
  ASSUME RootsInv, Thm!IInv, EvidenceInv, Store!Next \/ UNCHANGED store,
         terms' = terms,
         \A k \in DOMAIN records : verified'[k] # verified[k] => Covered(k)
  PROVE  /\ \A k \in DOMAIN records : k \in DOMAIN records'
         /\ \A k \in DOMAIN records : Covered(k) => Covered(k)'
         /\ \A k \in DOMAIN records' : Thm!PastGate(records'[k]) => Covered(k)'
<1>1. Thm!KeepsGate
  <2>1. CASE Store!Next
    BY <2>1, SameCalls, StoreAssumption, Thm!StepKeepsGate DEF Thm!StepKeepsGate
  <2>2. CASE UNCHANGED store
    BY <2>2 DEF store, Thm!KeepsGate
  <2>. QED
    BY <2>1, <2>2
<1>2. \A k \in DOMAIN records :
        /\ k \in DOMAIN records' /\ records'[k].expiry = records[k].expiry
        /\ Thm!PastGate(records'[k]) =>
              Thm!PastGate(records[k]) \/ verified'[k] # verified[k]
  BY <1>1 DEF Thm!KeepsGate
<1>3. \A k \in DOMAIN records : Covered(k) => Covered(k)'
  BY <1>2 DEF Covered
<1>4. \A k \in DOMAIN records' \ DOMAIN records : ~Thm!PastGate(records'[k])
  BY <1>1 DEF Thm!KeepsGate
<1>5. \A k \in DOMAIN records : Thm!PastGate(records'[k]) => Covered(k)
  BY <1>2 DEF EvidenceInv
<1>. QED
  BY <1>2, <1>3, <1>4, <1>5

\* Which call a step made, as far as verifications go.
LEMMA OnlyVerifyVerifies ==
  ASSUME NEW k, NEW now,
         \/ \E expiry : Store!Create(k, expiry)
         \/ Store!AcquireConstruction(k, now)
         \/ \E txid : Store!Submit(k, txid, now)
         \/ Store!Confirm(k) \/ Store!Consume(k) \/ Store!Expire(k, now)
         \/ \E reason : Store!Fail(k, reason)
         \/ \E ack : Store!RetryAfterFailure(k, ack, now)
  PROVE  verified' = verified
  BY DEF Store!Create, Store!AcquireConstruction, Store!Submit, Store!Confirm,
         Store!Consume, Store!Expire, Store!Fail, Store!RetryAfterFailure,
         Store!RefuseUnlessAt, Store!Refuse, Store!ExpireIfElapsed, Store!history

\* Only a worker that checked the proofs verifies, and only its own trade.
LEMMA VerifiedByAWorker ==
  ASSUME Thm!IInv, [Next]_vars, NEW k \in Commitments, verified'[k] # verified[k]
  PROVE  \E w \in Workers : MarkVerified(w) /\ worker[w].trade = k
<1>1. ASSUME NEW w \in Workers, MarkVerified(w), worker[w].trade # k
      PROVE  verified'[k] = verified[k]
  <2>1. PICK now : Store!Verify(worker[w].trade, now)
    BY <1>1 DEF MarkVerified
  <2>2. \/ verified' = verified
        \/ verified' = [verified EXCEPT ![worker[w].trade] = @ + 1]
    BY <2>1 DEF Store!Verify, Store!RefuseUnlessAt, Store!Refuse,
                Store!ExpireIfElapsed, Store!history
  <2>. QED
    BY <1>1, <2>2 DEF Thm!IInv, Thm!TypeOK
<1>2. ASSUME NEW c \in Commitments, (\E intent \in Terms : Open(c, intent)) \/ Elsewhere(c)
      PROVE  verified' = verified
  BY <1>2, OnlyVerifyVerifies DEF Open, Elsewhere
<1>3. ASSUME NEW w \in Workers,
             \/ \E c \in Commitments : LookAtRoots(w, c)
             \/ CheckProofs(w) \/ Reject(w) \/ Crash(w)
      PROVE  verified' = verified
  BY <1>3, OnlyVerifyVerifies DEF LookAtRoots, CheckProofs, Reject, Crash, store
<1>4. ASSUME \/ \E a \in Announcements : Announce(a) \/ Rotate(a)
             \/ Tick \/ UNCHANGED vars
      PROVE  verified' = verified
  BY <1>4 DEF Announce, Rotate, Tick, vars, store
<1>. QED
  BY <1>1, <1>2, <1>3, <1>4 DEF Next

LEMMA InitEvidence == Init => EvidenceInv
<1>. SUFFICES ASSUME Init PROVE EvidenceInv
  OBVIOUS
<1>1. \A w \in Workers : worker[w].pc = "idle"
  BY IdleWorker DEF Init
<1>2. DOMAIN records = {}
  BY DEF Init, Store!Init
<1>. QED
  BY <1>1, <1>2 DEF EvidenceInv

\* Every record is one of a commitment.
LEMMA RecordsOfCommitments ==
  ASSUME Thm!IInv
  PROVE  DOMAIN records \subseteq Commitments
  BY DEF Thm!IInv, Thm!TypeOK

\* What the workers know of their trades stays true, whoever moves the records:
\* no call takes an expiry back, and what is committed to never changes.
LEMMA NextKeepsEvidence ==
  ASSUME RootsInv, Thm!IInv, EvidenceInv, [Next]_vars
  PROVE  EvidenceInv'
<1>1. \A k \in DOMAIN records : verified'[k] # verified[k] => Covered(k)
  <2>1. ASSUME NEW k \in DOMAIN records, verified'[k] # verified[k]
        PROVE  Covered(k)
    <3>1. PICK w \in Workers : MarkVerified(w) /\ worker[w].trade = k
      BY <2>1, VerifiedByAWorker, RecordsOfCommitments
    <3>. QED
      BY <3>1 DEF MarkVerified, EvidenceInv
  <2>. QED
    BY <2>1
<1>2. terms' = terms
  BY DEF Next, LookAtRoots, CheckProofs, MarkVerified, Reject, Crash, Announce, Rotate,
         Open, Elsewhere, Tick, vars
<1>3. /\ \A k \in DOMAIN records : k \in DOMAIN records'
      /\ \A k \in DOMAIN records : Covered(k) => Covered(k)'
      /\ \A k \in DOMAIN records' : Thm!PastGate(records'[k]) => Covered(k)'
  BY <1>1, <1>2, StepCallsStore, StoreStepKeepsEvidence
<1>4. ASSUME NEW w \in Workers
      PROVE  \/ worker'[w] = worker[w]
             \/ worker'[w].pc = "idle"
             \/ worker'[w].pc = "rooted" /\ worker'[w].trade \in DOMAIN records
             \/ /\ CheckProofs(w)
                /\ worker'[w] = [worker[w] EXCEPT !.pc = "proven"]
  <2>0. worker \in [Workers -> Worker]
    BY DEF RootsInv
  <2>1. ASSUME NEW v \in Workers, NEW k \in Commitments, LookAtRoots(v, k)
        PROVE  \/ worker'[w] = worker[w]
               \/ worker'[w].pc = "rooted" /\ worker'[w].trade \in DOMAIN records
    BY <2>0, <2>1 DEF LookAtRoots, Store!At
  <2>2. ASSUME NEW v \in Workers, CheckProofs(v)
        PROVE  \/ worker'[w] = worker[w]
               \/ CheckProofs(w) /\ worker'[w] = [worker[w] EXCEPT !.pc = "proven"]
    <3>1. worker' = [worker EXCEPT ![v] = [worker[v] EXCEPT !.pc = "proven"]]
      BY <2>2 DEF CheckProofs
    <3>. QED
      BY <2>0, <2>2, <3>1
  <2>3. ASSUME NEW v \in Workers, MarkVerified(v) \/ Reject(v) \/ Crash(v)
        PROVE  worker'[w] = worker[w] \/ worker'[w].pc = "idle"
    BY <2>0, <2>3, IdleWorker DEF MarkVerified, Reject, Crash
  <2>4. ASSUME \/ \E a \in Announcements : Announce(a) \/ Rotate(a)
               \/ \E k \in Commitments :
                     (\E intent \in Terms : Open(k, intent)) \/ Elsewhere(k)
               \/ Tick \/ UNCHANGED vars
        PROVE  worker'[w] = worker[w]
    BY <2>4 DEF Announce, Rotate, Open, Elsewhere, Tick, vars
  <2>. QED
    BY <2>1, <2>2, <2>3, <2>4 DEF Next
<1>5. ASSUME NEW w \in Workers
      PROVE  /\ worker'[w].pc # "idle" => worker'[w].trade \in DOMAIN records'
             /\ worker'[w].pc = "proven" =>
                   /\ \A kind \in Kinds : worker'[w].trade \in worker'[w].roots[kind]
                   /\ worker'[w].trade \in DOMAIN records
                   /\ Covered(worker'[w].trade)
  <2>1. CASE worker'[w] = worker[w]
    BY <1>3, <2>1 DEF EvidenceInv
  <2>2. CASE \/ worker'[w].pc = "idle"
             \/ worker'[w].pc = "rooted" /\ worker'[w].trade \in DOMAIN records
    BY <1>3, <2>2
  <2>3. CASE CheckProofs(w) /\ worker'[w] = [worker[w] EXCEPT !.pc = "proven"]
    <3>1. /\ worker'[w].trade = worker[w].trade /\ worker'[w].roots = worker[w].roots
          /\ worker[w].pc = "rooted"
      BY <2>3 DEF RootsInv, Worker, CheckProofs
    <3>2. worker[w].trade \in DOMAIN records
      BY <3>1 DEF EvidenceInv
    <3>. QED
      BY <1>3, <2>3, <3>1, <3>2, CheckedProofsSupport
  <2>. QED
    BY <1>4, <2>1, <2>2, <2>3
<1>6. ASSUME NEW w \in Workers, worker'[w].pc = "proven"
      PROVE  Covered(worker[w].trade)'
  <2>. DEFINE k == worker'[w].trade
  <2>1. k \in DOMAIN records /\ Covered(k)
    BY <1>5, <1>6
  <2>2. /\ records'[k].expiry = terms'[k].expiry
        /\ terms'[k].expiry <= terms'[k].credential_expiry
    BY <1>3, <2>1 DEF Covered
  <2>. QED
    BY <2>2 DEF Covered
<1>. QED
  BY <1>3, <1>5, <1>6 DEF EvidenceInv

LEMMA EvidenceInvariant == Spec => []EvidenceInv
  BY InitEvidence, NextKeepsEvidence, RootsInvariant, StoreInvariant, PTL DEF Spec

-----------------------------------------------------------------------------
(* The theorems.                                                           *)

\* Past the gate, and in whatever became of a submission, the stored expiry is
\* the committed one, although create takes any intent.
THEOREM GateHolds == Spec => []ComplianceGateInv
<1>1. ASSUME RootsInv, Thm!IInv, EvidenceInv
      PROVE  ComplianceGateInv
  <2>1. ComplianceGateTypeOK
    BY <1>1, SameStore DEF RootsInv, Thm!IInv, ComplianceGateTypeOK
  <2>2. GatedByCommittedExpiry
    BY <1>1 DEF EvidenceInv, Covered, GatedByCommittedExpiry, Store!At, Thm!PastGate
  <2>. QED
    BY <2>1, <2>2 DEF ComplianceGateInv
<1>. QED
  BY <1>1, RootsInvariant, StoreInvariant, EvidenceInvariant, PTL

\* What a worker that calls verify knows of the roots at that moment.
LEMMA VerifiedTradesAreSupported ==
  ASSUME RootsInv, Thm!IInv, EvidenceInv, [Next]_vars,
         NEW k \in Commitments, NEW kind \in Kinds, Verifies(k)
  PROVE  /\ \E a \in published :
              /\ a.kind = kind /\ k \in a.root
              /\ clock <= a.expires_at + MaxStaleness
         /\ \/ k \in CurrentRoot(kind).root
            \/ clock <= rotated[kind] + MaxStaleness
<1>1. PICK w \in Workers : MarkVerified(w) /\ worker[w].trade = k
  BY VerifiedByAWorker DEF Verifies
<1>. DEFINE g == worker[w]
<1>2. HasLooked(g) /\ k \in g.roots[kind] /\ g.at \in Nat /\ clock \in Nat
  BY <1>1, ComplianceGateAssumption
     DEF MarkVerified, RootsInv, EvidenceInv, Worker, Instants
<1>. HIDE DEF g
<1>3. PICK a \in published : /\ a.kind = kind /\ a.root = g.roots[kind]
                             /\ a.valid_from <= g.at /\ g.at <= a.expires_at
  BY <1>2 DEF HasLooked
<1>4. a.valid_from \in Nat /\ a.expires_at \in Nat
  BY AnnouncementFields DEF RootsInv
<1>5. g.at <= clock /\ clock <= g.at + MaxStaleness
  BY <1>2 DEF HasLooked
<1>6. clock <= a.expires_at + MaxStaleness
  BY <1>2, <1>3, <1>4, <1>5, ComplianceGateAssumption
<1>7. CASE g.roots[kind] = CurrentRoot(kind).root
  BY <1>2, <1>3, <1>6, <1>7
<1>8. CASE g.at <= rotated[kind]
  <2>1. rotated[kind] \in Nat
    BY ComplianceGateAssumption DEF RootsInv, Instants
  <2>2. clock <= rotated[kind] + MaxStaleness
    BY <1>2, <1>5, <1>8, <2>1, ComplianceGateAssumption
  <2>. QED
    BY <1>2, <1>3, <1>6, <2>2
<1>. QED
  BY <1>2, <1>7, <1>8 DEF HasLooked

\* A trade is verified only while signed roots of both kinds support it.
THEOREM OnlyUnderLiveRoots == Spec => VerifiedUnderLiveRoots
<1>1. RootsInv /\ Thm!IInv /\ EvidenceInv /\ [Next]_vars =>
        [\A k \in Commitments, kind \in Kinds : Verifies(k) =>
            \E a \in published :
              /\ a.kind = kind /\ k \in a.root
              /\ clock <= a.expires_at + MaxStaleness]_vars
  BY VerifiedTradesAreSupported
<1>. QED
  BY <1>1, RootsInvariant, StoreInvariant, EvidenceInvariant, PTL
     DEF Spec, VerifiedUnderLiveRoots

\* The rotation that drops a trade ends its verification, but for workers that
\* had looked before.
THEOREM RotationEndsVerification == Spec => RotationRevokes
<1>1. RootsInv /\ Thm!IInv /\ EvidenceInv /\ [Next]_vars =>
        [\A k \in Commitments, kind \in Kinds : Verifies(k) =>
            \/ k \in CurrentRoot(kind).root
            \/ clock <= rotated[kind] + MaxStaleness]_vars
  BY VerifiedTradesAreSupported
<1>. QED
  BY <1>1, RootsInvariant, StoreInvariant, EvidenceInvariant, PTL
     DEF Spec, RotationRevokes

\* Only an accepted submit submits, and only within its gate.
LEMMA SubmittedThroughTheGate ==
  ASSUME RootsInv, Thm!IInv, [Next]_vars, NEW k \in Commitments, Submits(k)
  PROVE  \E now \in Readings : Store!Live(k, {"SETTLEMENT_CONSTRUCTED"}, now)
<1>1. ASSUME NEW c, NEW now,
             \/ \E expiry : Store!Create(c, expiry)
             \/ Store!Verify(c, now) \/ Store!AcquireConstruction(c, now)
             \/ Store!Confirm(c) \/ Store!Consume(c) \/ Store!Expire(c, now)
             \/ \E reason : Store!Fail(c, reason)
             \/ \E ack : Store!RetryAfterFailure(c, ack, now)
      PROVE  submitted' = submitted
  BY <1>1 DEF Store!Create, Store!Verify, Store!AcquireConstruction, Store!Confirm,
              Store!Consume, Store!Expire, Store!Fail, Store!RetryAfterFailure,
              Store!RefuseUnlessAt, Store!Refuse, Store!ExpireIfElapsed, Store!history
<1>2. ASSUME NEW c \in Commitments, NEW t \in TxIds, NEW now \in Readings,
             Store!Submit(c, t, now)
      PROVE  Store!Live(k, {"SETTLEMENT_CONSTRUCTED"}, now)
  <2>1. submitted \in [Commitments -> Nat] /\ submitted'[k] # submitted[k]
    BY DEF Thm!IInv, Thm!TypeOK, Submits
  <2>2. /\ Store!Live(c, {"SETTLEMENT_CONSTRUCTED"}, now)
        /\ submitted' = [submitted EXCEPT ![c] = @ + 1]
    BY <1>2, <2>1 DEF Store!Submit, Store!RefuseUnlessAt, Store!Refuse,
                      Store!ExpireIfElapsed, Store!history
  <2>. QED
    BY <2>1, <2>2
<1>3. ASSUME NEW w \in Workers,
             \/ \E c \in Commitments : LookAtRoots(w, c)
             \/ CheckProofs(w) \/ MarkVerified(w) \/ Reject(w) \/ Crash(w)
      PROVE  submitted' = submitted
  BY <1>1, <1>3 DEF LookAtRoots, CheckProofs, MarkVerified, Reject, Crash, store
<1>4. ASSUME \/ \E a \in Announcements : Announce(a) \/ Rotate(a)
             \/ \E c \in Commitments, intent \in Terms : Open(c, intent)
             \/ Tick \/ UNCHANGED vars
      PROVE  submitted' = submitted
  BY <1>1, <1>4 DEF Announce, Rotate, Open, Tick, vars, store
<1>5. ASSUME NEW c \in Commitments, Elsewhere(c)
      PROVE  \/ submitted' = submitted
             \/ \E t \in TxIds, now \in Readings : Store!Submit(c, t, now)
  BY <1>1, <1>5 DEF Elsewhere
<1>. QED
  BY <1>2, <1>3, <1>4, <1>5 DEF Next, Submits

\* The credential is looked at once, before verify, and against the committed
\* expiry; the gates of the store do the rest.
THEOREM CredentialOutlastsSubmissions == Spec => SubmittedWithinCredential
<1>1. ASSUME RootsInv, Thm!IInv, EvidenceInv, [Next]_vars, NEW k \in Commitments, Submits(k)
      PROVE  clock <= terms[k].credential_expiry + MaxStaleness
  <2>1. PICK now \in Readings : Store!Live(k, {"SETTLEMENT_CONSTRUCTED"}, now)
    BY <1>1, SubmittedThroughTheGate
  <2>2. /\ k \in DOMAIN records /\ records[k].state = "SETTLEMENT_CONSTRUCTED"
        /\ ~(now > records[k].expiry)
    BY <2>1 DEF Store!Live, Store!At, Store!IsExpiredAt
  <2>3. Covered(k)
    BY <1>1, <2>2 DEF EvidenceInv, Thm!PastGate
  <2>4. /\ terms[k].expiry \in Nat /\ terms[k].credential_expiry \in Nat
        /\ now \in Nat /\ clock \in Nat /\ clock <= now + MaxStaleness
        /\ MaxStaleness \in Nat
    BY <1>1, ComplianceGateAssumption DEF RootsInv, Readings, Instants
  <2>. QED
    BY <2>2, <2>3, <2>4 DEF Covered
<1>2. RootsInv /\ Thm!IInv /\ EvidenceInv /\ [Next]_vars =>
        [\A k \in Commitments : Submits(k) =>
            clock <= terms[k].credential_expiry + MaxStaleness]_vars
  BY <1>1
<1>. QED
  BY <1>2, RootsInvariant, StoreInvariant, EvidenceInvariant, PTL
     DEF Spec, SubmittedWithinCredential

=============================================================================
