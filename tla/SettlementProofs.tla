--------------------------- MODULE SettlementProofs ---------------------------
(***************************************************************************)
(* Proofs about Settlement for every number of workers, trades and         *)
(* transactions, every retry budget, clock and staleness.                  *)
(*                                                                         *)
(* First, whatever the workers and watchers do is a behaviour of the       *)
(* store, so the theorems about the store hold in its use. Then the        *)
(* invariant that connects records, workers and chain.                     *)
(***************************************************************************)
EXTENDS Settlement, TLAPS

Thm == INSTANCE ReplayStoreProofs

-----------------------------------------------------------------------------
(* The store of the theorems is the store of Settlement.                   *)

\* What the theorems about the store assume of its constants.
LEMMA StoreAssumption == Thm!ReplayStoreAssumption
  BY SettlementAssumption
     DEF Thm!ReplayStoreAssumption, Thm!FailureReason, Store!FailureReason, Instants

\* The calls are the same ones under either name.
LEMMA SameCalls == Store!Next <=> Thm!Next
<1>. USE DEF Store!At, Thm!At, Store!Refusal, Thm!Refusal, Store!Refuse, Thm!Refuse,
             Store!history, Thm!history, Store!RefuseUnlessAt, Thm!RefuseUnlessAt,
             Store!IsExpiredAt, Thm!IsExpiredAt, Store!ExpireIfElapsed,
             Thm!ExpireIfElapsed, Store!Live, Thm!Live, Store!Accept, Thm!Accept
<1>1. \A k, expiry : Store!Create(k, expiry) <=> Thm!Create(k, expiry)
  BY DEF Store!Create, Thm!Create, Store!NewRecord, Thm!NewRecord
<1>2. \A k, now : Store!Verify(k, now) <=> Thm!Verify(k, now)
  BY DEF Store!Verify, Thm!Verify
<1>3. \A k, now : Store!AcquireConstruction(k, now) <=> Thm!AcquireConstruction(k, now)
  BY DEF Store!AcquireConstruction, Thm!AcquireConstruction, Store!Acquirable,
         Thm!Acquirable
<1>4. \A k, txid, now : Store!Submit(k, txid, now) <=> Thm!Submit(k, txid, now)
  BY DEF Store!Submit, Thm!Submit
<1>5. \A k : Store!Confirm(k) <=> Thm!Confirm(k)
  BY DEF Store!Confirm, Thm!Confirm
<1>6. \A k : Store!Consume(k) <=> Thm!Consume(k)
  BY DEF Store!Consume, Thm!Consume
<1>7. \A k, reason : Store!Fail(k, reason) <=> Thm!Fail(k, reason)
  BY DEF Store!Fail, Thm!Fail, Store!Failable, Thm!Failable,
         Store!TxidAfterFailure, Thm!TxidAfterFailure
<1>8. \A k, now : Store!Expire(k, now) <=> Thm!Expire(k, now)
  BY DEF Store!Expire, Thm!Expire, Store!Expirable, Thm!Expirable
<1>9. \A k, acknowledged, now :
        Store!RetryAfterFailure(k, acknowledged, now)
          <=> Thm!RetryAfterFailure(k, acknowledged, now)
  BY DEF Store!RetryAfterFailure, Thm!RetryAfterFailure, Store!Retryable,
         Thm!Retryable, Store!BudgetSpent, Thm!BudgetSpent, Store!Acknowledges,
         Thm!Acknowledges, Store!Retried, Thm!Retried
<1>10. Store!FailureReason = Thm!FailureReason
  BY DEF Store!FailureReason, Thm!FailureReason
<1>. QED
  BY <1>1, <1>2, <1>3, <1>4, <1>5, <1>6, <1>7, <1>8, <1>9, <1>10
     DEF Store!Next, Thm!Next

\* So are the specification and the invariants that are used below.
LEMMA SameStore ==
  /\ Store!Spec <=> Thm!Spec
  /\ Store!TypeOK <=> Thm!TypeOK
  /\ Store!BookkeepingMatchesState <=> Thm!BookkeepingMatchesState
<1>1. Store!Init <=> Thm!Init
  BY DEF Store!Init, Thm!Init, Store!NewRecord, Thm!NewRecord
<1>2. Store!vars = Thm!vars
  BY DEF Store!vars, Thm!vars
<1>3. [Store!Next]_(Store!vars) <=> [Thm!Next]_(Thm!vars)
  BY <1>2, SameCalls DEF Store!vars, Thm!vars
<1>4. Store!Spec <=> Thm!Spec
  BY <1>1, <1>3, PTL DEF Store!Spec, Thm!Spec
<1>5. Store!TypeOK <=> Thm!TypeOK
  BY DEF Store!TypeOK, Thm!TypeOK, Store!TradeRecord, Thm!TradeRecord,
         Store!TradeLifecycleState, Thm!TradeLifecycleState, Store!FailureReason,
         Thm!FailureReason, Store!Result, Thm!Result
<1>6. Store!BookkeepingMatchesState <=> Thm!BookkeepingMatchesState
  BY DEF Store!BookkeepingMatchesState, Thm!BookkeepingMatchesState
<1>. QED
  BY <1>4, <1>5, <1>6

\* The invariant of the store, under the store's own steps.
LEMMA StoreInvariant == Store!Spec => [](Store!TypeOK /\ Store!BookkeepingMatchesState)
<1>1. Thm!Spec => []Thm!IInv
  BY StoreAssumption, Thm!InductiveInvariant DEF Thm!InductiveInvariant
<1>2. Thm!IInv => Store!TypeOK /\ Store!BookkeepingMatchesState
  BY SameStore DEF Thm!IInv
<1>. QED
  BY <1>1, <1>2, SameStore, PTL

-----------------------------------------------------------------------------
(* The environment by itself.                                              *)

EnvTypeOK ==
    /\ clock \in Instants
    /\ worker \in [Matchers -> Worker]
    /\ chain \in [TxIds -> TxStatus]
    /\ carries \in [TxIds -> Commitments \cup {None}]

\* A worker that is doing something does it for a trade, a candidate is a
\* transaction of the worker's trade, and no reading is ahead of the clock or
\* further behind it than MaxStaleness.
EnvInv ==
    /\ EnvTypeOK
    /\ \A m \in Matchers :
        /\ worker[m].pc # "idle" => worker[m].trade \in Commitments
        /\ worker[m].pc \in {"built", "accepted"} =>
              /\ worker[m].txid \in TxIds
              /\ chain[worker[m].txid] # "unused"
              /\ carries[worker[m].txid] = worker[m].trade
        /\ worker[m].now <= clock
        /\ worker[m].pc \in {"ready", "built"} => clock <= worker[m].now + MaxStaleness
    /\ \A t \in TxIds : chain[t] # "unused" => carries[t] \in Commitments

\* What a worker is doing after a step that puts it aside, or on to pc.
LEMMA WorkerValues ==
  /\ Idle \in Worker /\ Idle.pc = "idle" /\ Idle.now = 0
  /\ \A w \in Worker, pc \in {"idle", "ready", "building", "built", "accepted"} :
        /\ [w EXCEPT !.pc = pc] \in Worker
        /\ [w EXCEPT !.pc = pc].pc = pc
        /\ [w EXCEPT !.pc = pc].trade = w.trade
        /\ [w EXCEPT !.pc = pc].now = w.now
        /\ [w EXCEPT !.pc = pc].txid = w.txid
  BY SettlementAssumption DEF Idle, Worker, Instants

\* All steps but Build, ReadClock and Tick leave a worker's candidate alone or
\* put the worker aside, and no step makes a transaction unused again.
LEMMA MovesKeepEnvInv ==
  ASSUME EnvInv, clock' = clock, carries' = carries,
         chain' \in [TxIds -> TxStatus],
         \A t \in TxIds : chain[t] # "unused" <=> chain'[t] # "unused",
         worker' \in [Matchers -> Worker],
         \A m \in Matchers :
            \/ worker'[m] = worker[m]
            \/ worker'[m].pc = "idle" /\ worker'[m].now = 0
            \/ /\ worker[m].pc = "ready" /\ worker'[m].pc = "building"
               /\ worker'[m].trade = worker[m].trade
               /\ worker'[m].now = worker[m].now
            \/ /\ worker[m].pc = "built" /\ worker'[m].pc = "accepted"
               /\ worker'[m].trade = worker[m].trade
               /\ worker'[m].now = worker[m].now
               /\ worker'[m].txid = worker[m].txid
  PROVE  EnvInv'
<1>1. EnvTypeOK'
  BY DEF EnvInv, EnvTypeOK
<1>2. ASSUME NEW m \in Matchers
      PROVE  /\ worker'[m].pc # "idle" => worker'[m].trade \in Commitments
             /\ worker'[m].pc \in {"built", "accepted"} =>
                   /\ worker'[m].txid \in TxIds
                   /\ chain'[worker'[m].txid] # "unused"
                   /\ carries'[worker'[m].txid] = worker'[m].trade
             /\ worker'[m].now <= clock'
             /\ worker'[m].pc \in {"ready", "built"} =>
                   clock' <= worker'[m].now + MaxStaleness
  BY DEF EnvInv, EnvTypeOK, Instants
<1>3. \A t \in TxIds : chain'[t] # "unused" => carries'[t] \in Commitments
  BY DEF EnvInv
<1>. QED
  BY <1>1, <1>2, <1>3 DEF EnvInv

\* A worker turned to a trade has a fresh reading.
LEMMA ReadClockKeepsEnvInv ==
  ASSUME EnvInv, NEW m \in Matchers, NEW k \in Commitments, ReadClock(m, k)
  PROVE  EnvInv'
<1>. DEFINE w == [pc |-> "ready", trade |-> k, now |-> clock, txid |-> None]
<1>1. w \in Worker /\ w.pc = "ready" /\ w.trade = k /\ w.now = clock
  BY DEF EnvInv, EnvTypeOK, Worker
<1>2. worker' = [worker EXCEPT ![m] = w] /\ UNCHANGED <<clock, chain, carries>>
  BY DEF ReadClock
<1>. HIDE DEF w
<1>. QED
  BY <1>1, <1>2, SettlementAssumption DEF EnvInv, EnvTypeOK, Instants

\* A candidate is made for the builder's trade out of an unused txid, so no
\* other worker has it.
LEMMA BuildKeepsEnvInv ==
  ASSUME EnvInv, NEW m \in Matchers, Build(m)
  PROVE  EnvInv'
<1>1. PICK t \in TxIds :
         /\ worker[m].pc = "building"
         /\ chain[t] = "unused"
         /\ chain' = [chain EXCEPT ![t] = "built"]
         /\ carries' = [carries EXCEPT ![t] = worker[m].trade]
         /\ worker' = [worker EXCEPT ![m].pc = "built", ![m].now = clock, ![m].txid = t]
         /\ clock' = clock
  BY DEF Build
<1>. DEFINE w == worker'[m]
<1>2. /\ worker[m] \in Worker /\ worker[m].trade \in Commitments /\ clock \in Instants
      /\ chain \in [TxIds -> TxStatus] /\ carries \in [TxIds -> Commitments \cup {None}]
      /\ worker \in [Matchers -> Worker]
  BY <1>1 DEF EnvInv, EnvTypeOK
<1>3. /\ w \in Worker /\ w.pc = "built" /\ w.trade = worker[m].trade
      /\ w.now = clock /\ w.txid = t
  BY <1>1, <1>2 DEF Worker
<1>4. worker' = [worker EXCEPT ![m] = w]
  BY <1>1, <1>2
<1>. HIDE DEF w
<1>5. EnvTypeOK'
  <2>1. chain' \in [TxIds -> TxStatus]
    BY <1>1, <1>2 DEF TxStatus
  <2>2. carries' \in [TxIds -> Commitments \cup {None}]
    BY <1>1, <1>2
  <2>3. worker' \in [Matchers -> Worker]
    BY <1>2, <1>3, <1>4
  <2>. QED
    BY <1>1, <1>2, <2>1, <2>2, <2>3 DEF EnvTypeOK
<1>6. ASSUME NEW n \in Matchers
      PROVE  /\ worker'[n].pc # "idle" => worker'[n].trade \in Commitments
             /\ worker'[n].pc \in {"built", "accepted"} =>
                   /\ worker'[n].txid \in TxIds
                   /\ chain'[worker'[n].txid] # "unused"
                   /\ carries'[worker'[n].txid] = worker'[n].trade
             /\ worker'[n].now <= clock'
             /\ worker'[n].pc \in {"ready", "built"} =>
                   clock' <= worker'[n].now + MaxStaleness
  <2>1. CASE n = m
    BY <1>1, <1>2, <1>3, <1>4, <2>1, SettlementAssumption DEF Instants
  <2>2. CASE n # m
    <3>1. worker'[n] = worker[n]
      BY <1>2, <1>4, <2>2
    <3>2. worker[n].pc \in {"built", "accepted"} => worker[n].txid # t
      BY <1>1 DEF EnvInv
    <3>. QED
      BY <1>1, <1>2, <3>1, <3>2 DEF EnvInv
  <2>. QED
    BY <2>1, <2>2
<1>7. \A u \in TxIds : chain'[u] # "unused" => carries'[u] \in Commitments
  BY <1>1, <1>2 DEF EnvInv
<1>. QED
  BY <1>5, <1>6, <1>7 DEF EnvInv

\* The clock waits for readings that have reached the bound.
LEMMA TickKeepsEnvInv ==
  ASSUME EnvInv, Tick
  PROVE  EnvInv'
<1>1. clock' = clock + 1 /\ clock < MaxTime /\ UNCHANGED <<worker, chain, carries>>
  BY DEF Tick
<1>2. EnvTypeOK'
  BY <1>1, SettlementAssumption DEF EnvInv, EnvTypeOK, Instants
<1>3. ASSUME NEW m \in Matchers
      PROVE  /\ worker'[m].now <= clock'
             /\ worker'[m].pc \in {"ready", "built"} =>
                   clock' <= worker'[m].now + MaxStaleness
  <2>1. worker[m].now \in Nat /\ clock \in Nat
    BY SettlementAssumption DEF EnvInv, EnvTypeOK, Worker, Instants
  <2>. QED
    BY <1>1, <2>1, SettlementAssumption DEF EnvInv, Tick
<1>. QED
  BY <1>1, <1>2, <1>3 DEF EnvInv

\* A call that leaves its worker as it is or puts it aside.
LEMMA RestingKeepsEnvInv ==
  ASSUME EnvInv, UNCHANGED <<clock, chain, carries>>, NEW m \in Matchers,
         worker' = [worker EXCEPT ![m] = Idle] \/ worker' = worker
  PROVE  EnvInv'
<1>1. worker' \in [Matchers -> Worker]
  BY WorkerValues DEF EnvInv, EnvTypeOK
<1>2. \A n \in Matchers : worker'[n] = worker[n] \/ worker'[n] = Idle
  BY DEF EnvInv, EnvTypeOK
<1>. QED
  BY <1>1, <1>2, WorkerValues, MovesKeepEnvInv DEF EnvInv, EnvTypeOK

\* A worker that goes on from pc keeps its trade, reading and candidate.
LEMMA ForwardKeepsEnvInv ==
  ASSUME EnvInv, UNCHANGED <<clock, chain, carries>>, NEW m \in Matchers,
         NEW pc, worker' = [worker EXCEPT ![m] = [@ EXCEPT !.pc = pc]],
         \/ worker[m].pc = "ready" /\ pc = "building"
         \/ worker[m].pc = "built" /\ pc = "accepted"
  PROVE  EnvInv'
<1>1. /\ worker[m] \in Worker /\ worker \in [Matchers -> Worker]
      /\ chain \in [TxIds -> TxStatus]
      /\ pc \in {"idle", "ready", "building", "built", "accepted"}
  BY DEF EnvInv, EnvTypeOK
<1>. DEFINE w == [worker[m] EXCEPT !.pc = pc]
<1>2. /\ w \in Worker /\ w.pc = pc /\ w.trade = worker[m].trade
      /\ w.now = worker[m].now /\ w.txid = worker[m].txid
  BY <1>1, WorkerValues
<1>3. worker' = [worker EXCEPT ![m] = w]
  OBVIOUS
<1>. HIDE DEF w
<1>. QED
  BY <1>1, <1>2, <1>3, MovesKeepEnvInv

\* The steps of transactions: none becomes unused, none was.
LEMMA TransactionsKeepEnvInv ==
  ASSUME EnvInv,
         \/ \E m \in Matchers : Broadcast(m)
         \/ \E t \in TxIds : Mine(t) \/ Die(t)
  PROVE  EnvInv'
<1>1. chain \in [TxIds -> TxStatus] /\ worker \in [Matchers -> Worker]
  BY DEF EnvInv, EnvTypeOK
<1>2. CASE \E t \in TxIds : Mine(t) \/ Die(t)
  <2>1. chain' \in [TxIds -> TxStatus]
    BY <1>1, <1>2 DEF Mine, Die, TxStatus
  <2>2. \A t \in TxIds : chain[t] # "unused" <=> chain'[t] # "unused"
    BY <1>1, <1>2 DEF Mine, Die
  <2>3. UNCHANGED <<clock, carries, worker>>
    BY <1>2 DEF Mine, Die
  <2>. QED
    BY <1>1, <2>1, <2>2, <2>3, MovesKeepEnvInv
<1>3. ASSUME NEW m \in Matchers, Broadcast(m)
      PROVE  EnvInv'
  <2>1. /\ chain' = [chain EXCEPT ![worker[m].txid] =
                        IF @ = "built" THEN "mempool" ELSE @]
        /\ worker' = [worker EXCEPT ![m] = Idle]
        /\ UNCHANGED <<clock, carries>>
    BY <1>3 DEF Broadcast
  <2>2. chain' \in [TxIds -> TxStatus]
    BY <1>1, <2>1 DEF TxStatus
  <2>3. \A t \in TxIds : chain[t] # "unused" <=> chain'[t] # "unused"
    BY <1>1, <2>1
  <2>4. worker' \in [Matchers -> Worker]
    BY <1>1, <2>1, WorkerValues
  <2>. QED
    BY <1>1, <2>1, <2>2, <2>3, <2>4, WorkerValues, MovesKeepEnvInv
<1>. QED
  BY <1>2, <1>3

\* Every step keeps the invariant of the environment, whatever the store says.
LEMMA NextKeepsEnvInv ==
  ASSUME EnvInv, [Next]_vars
  PROVE  EnvInv'
<1>1. CASE UNCHANGED vars
  BY <1>1 DEF vars, EnvInv, EnvTypeOK
<1>2. ASSUME NEW m \in Matchers, WorkerStep(m)
      PROVE  EnvInv'
  <2>1. CASE \E k \in Commitments : ReadClock(m, k)
    BY <2>1, ReadClockKeepsEnvInv
  <2>2. CASE VerifyTrade(m) \/ SweepTrade(m) \/ RetryTrade(m)
    BY <2>2, RestingKeepsEnvInv DEF VerifyTrade, SweepTrade, RetryTrade, CallAndRest
  <2>3. CASE Acquire(m) \/ SubmitCandidate(m)
    <3>1. CASE worker' = [worker EXCEPT ![m] = Idle]
      BY <2>3, <3>1, RestingKeepsEnvInv DEF Acquire, SubmitCandidate
    <3>2. CASE Acquire(m) /\ worker' # [worker EXCEPT ![m] = Idle]
      BY <3>2, ForwardKeepsEnvInv DEF Acquire
    <3>3. CASE SubmitCandidate(m) /\ worker' # [worker EXCEPT ![m] = Idle]
      BY <3>3, ForwardKeepsEnvInv DEF SubmitCandidate
    <3>. QED
      BY <2>3, <3>1, <3>2, <3>3
  <2>4. CASE Build(m)
    BY <2>4, BuildKeepsEnvInv
  <2>5. CASE Broadcast(m)
    BY <2>5, TransactionsKeepEnvInv
  <2>6. CASE GiveUp(m) \/ Crash(m)
    BY <2>6, RestingKeepsEnvInv DEF GiveUp, Crash
  <2>. QED
    BY <1>2, <2>1, <2>2, <2>3, <2>4, <2>5, <2>6 DEF WorkerStep
<1>3. ASSUME UNCHANGED env
      PROVE  EnvInv'
  BY <1>3 DEF env, EnvInv, EnvTypeOK
<1>4. CASE \E t \in TxIds : Mine(t) \/ Die(t)
  BY <1>4, TransactionsKeepEnvInv
<1>5. CASE Tick
  BY <1>5, TickKeepsEnvInv
<1>. QED
  BY <1>1, <1>2, <1>3, <1>4, <1>5
     DEF Next, OpenTrade, ConsumeTrade, ReportFailure, ReportMined

\* Workers begin idle and transactions unused.
LEMMA InitEnvInv == Init => EnvInv
  BY WorkerValues, SettlementAssumption
     DEF Init, EnvInv, EnvTypeOK, TxStatus, Instants

\* The invariant of the environment.
LEMMA EnvInvariant == Spec => []EnvInv
  BY InitEnvInv, NextKeepsEnvInv, PTL DEF Spec

-----------------------------------------------------------------------------
(* Settlement uses the store as the store expects to be used.              *)

\* Every step is one call of the store, or none.
LEMMA StepCallsStore ==
  ASSUME EnvInv, [Next]_vars
  PROVE  [Store!Next]_(Store!vars)
<1>. USE DEF Store!vars
<1>1. ASSUME NEW m \in Matchers, WorkerStep(m)
      PROVE  Store!Next \/ UNCHANGED store
  <2>1. worker[m].now \in Instants
    BY DEF EnvInv, EnvTypeOK, Worker
  <2>2. worker[m].pc # "idle" => worker[m].trade \in Commitments
    BY DEF EnvInv
  <2>3. worker[m].pc = "built" => worker[m].txid \in TxIds
    BY DEF EnvInv
  <2>4. CASE VerifyTrade(m) \/ SweepTrade(m)
    BY <2>1, <2>2, <2>4 DEF VerifyTrade, SweepTrade, CallAndRest, Store!Next
  <2>5. CASE RetryTrade(m)
    BY <2>1, <2>2, <2>5 DEF RetryTrade, CallAndRest, Store!Next
  <2>6. CASE Acquire(m)
    BY <2>1, <2>2, <2>6 DEF Acquire, Store!Next
  <2>7. CASE SubmitCandidate(m)
    BY <2>1, <2>2, <2>3, <2>7 DEF SubmitCandidate, Store!Next
  <2>8. CASE GiveUp(m)
    BY <2>2, <2>8 DEF GiveUp, Store!Next, Store!FailureReason
  <2>9. CASE \/ \E k \in Commitments : ReadClock(m, k)
             \/ Build(m) \/ Broadcast(m) \/ Crash(m)
    BY <2>9 DEF ReadClock, Build, Broadcast, Crash
  <2>. QED
    BY <1>1, <2>4, <2>5, <2>6, <2>7, <2>8, <2>9 DEF WorkerStep
<1>2. ASSUME NEW t \in TxIds, ReportMined(t)
      PROVE  Store!Next
  BY <1>2 DEF EnvInv, ReportMined, Store!Next
<1>3. ASSUME NEW k \in Commitments,
             \/ \E expiry \in Instants : OpenTrade(k, expiry)
             \/ ConsumeTrade(k)
             \/ \E reason \in Store!FailureReason : ReportFailure(k, reason)
      PROVE  Store!Next
  BY <1>3 DEF OpenTrade, ConsumeTrade, ReportFailure, Store!Next
<1>4. ASSUME UNCHANGED store \/ UNCHANGED vars
      PROVE  UNCHANGED Store!vars
  BY <1>4 DEF store, vars
<1>. QED
  BY <1>1, <1>2, <1>3, <1>4 DEF Next, Mine, Die, Tick

\* Settlement implements the store's specification, seen through the store's
\* own variables: concurrency, crashes and reports add nothing the store's
\* theorems do not cover.
THEOREM SettlementUsesStore == Spec => Store!Spec
<1>1. Init => Store!Init
  BY DEF Init
<1>. QED
  BY <1>1, StepCallsStore, EnvInvariant, PTL DEF Spec, Store!Spec

\* So the promise of SettlementPromise holds in its use: one launch at a time
\* and at most MaxRetries + 1 of them, whatever workers and watchers do.
THEOREM SettlementKeepsPromise == Spec => Thm!KeepsPromise
  BY SettlementUsesStore, SameStore, StoreAssumption, Thm!Refinement, PTL
     DEF Thm!Refinement

-----------------------------------------------------------------------------
(* Records and chain.                                                      *)

StoreInv == Store!TypeOK /\ Store!BookkeepingMatchesState

\* The store's invariants hold in its use.
LEMMA StoreInvHolds == Spec => []StoreInv
  BY SettlementUsesStore, StoreInvariant, PTL DEF StoreInv

\* A submission that the store accepted is recorded until it is sent out, or
\* can no longer be mined.
AcceptedAreTracked ==
    \A m \in Matchers :
        worker[m].pc = "accepted" /\ chain[worker[m].txid] = "built" =>
            /\ worker[m].trade \in DOMAIN records
            /\ records[worker[m].trade].prior_txid = worker[m].txid

TrackingInv ==
    /\ LiveTransactionsAreTracked
    /\ AcceptedAreTracked
    /\ ConfirmedMeansMined
    /\ ExpiredOnlyAfterExpiry

\* What any call does at most to a record, for all that the chain has to do
\* with it: a txid is dropped only when its transaction is dead, confirmation
\* follows mining, expiry follows the clock, and nothing else vanishes.
Gentle(c) ==
    /\ c \in DOMAIN records'
    /\ records'[c].expiry = records[c].expiry
    /\ \/ records'[c].prior_txid = records[c].prior_txid
       \/ records[c].prior_txid = None
       \/ chain[records[c].prior_txid] = "dead"
    /\ records'[c].state \in {"CONFIRMED", "CONSUMED"} =>
        /\ records'[c].prior_txid = records[c].prior_txid
        /\ \/ records[c].state \in {"CONFIRMED", "CONSUMED"}
           \/ /\ chain[records[c].prior_txid] = "mined"
              /\ carries[records[c].prior_txid] = c
    /\ records'[c].state = "EXPIRED" =>
        records[c].state = "EXPIRED" \/ clock > records[c].expiry

GentleCall ==
    /\ \A c \in DOMAIN records : Gentle(c)
    /\ \A c \in DOMAIN records' \ DOMAIN records : records'[c].state = "CREATED"

\* Records that do not change are treated gently.
LEMMA SameIsGentle ==
  ASSUME records' = records
  PROVE  GentleCall
  BY DEF GentleCall, Gentle

\* A call that replaces the record of one trade need only treat that one so.
LEMMA ReplaceIsGentle ==
  ASSUME NEW k \in DOMAIN records, NEW r, records \in [DOMAIN records -> Store!TradeRecord],
         records' = [records EXCEPT ![k] = r],
         r.expiry = records[k].expiry,
         \/ r.prior_txid = records[k].prior_txid
         \/ records[k].prior_txid = None
         \/ chain[records[k].prior_txid] = "dead",
         r.state \in {"CONFIRMED", "CONSUMED"} =>
            /\ r.prior_txid = records[k].prior_txid
            /\ \/ records[k].state \in {"CONFIRMED", "CONSUMED"}
               \/ /\ chain[records[k].prior_txid] = "mined"
                  /\ carries[records[k].prior_txid] = k,
         r.state = "EXPIRED" => clock > records[k].expiry
  PROVE  GentleCall
<1>1. DOMAIN records' = DOMAIN records /\ records'[k] = r
  OBVIOUS
<1>2. \A c \in DOMAIN records \ {k} : records'[c] = records[c]
  OBVIOUS
<1>3. Gentle(k)
  BY <1>1 DEF Gentle
<1>4. \A c \in DOMAIN records \ {k} : Gentle(c)
  BY <1>1, <1>2 DEF Gentle
<1>. QED
  BY <1>1, <1>3, <1>4 DEF GentleCall

\* The gate closes on a reading that is not ahead of the clock.
LEMMA ElapseIsGentle ==
  ASSUME EnvInv, StoreInv, NEW k, NEW from, NEW now \in Instants, now <= clock,
         Store!ExpireIfElapsed(k, from, now)
  PROVE  GentleCall
<1>. DEFINE r == [records[k] EXCEPT !.state = "EXPIRED"]
<1>1. /\ k \in DOMAIN records /\ records[k] \in Store!TradeRecord
      /\ records \in [DOMAIN records -> Store!TradeRecord]
      /\ records' = [records EXCEPT ![k] = r]
  BY DEF Store!ExpireIfElapsed, Store!At, StoreInv, Store!TypeOK
<1>2. /\ r.expiry = records[k].expiry /\ r.prior_txid = records[k].prior_txid
      /\ r.state = "EXPIRED"
  BY <1>1 DEF Store!TradeRecord
<1>3. clock > records[k].expiry
  BY <1>1, SettlementAssumption
     DEF Store!ExpireIfElapsed, Store!IsExpiredAt, Store!TradeRecord, EnvInv,
         EnvTypeOK, Instants
<1>. HIDE DEF r
<1>. QED
  BY <1>1, <1>2, <1>3, ReplaceIsGentle

\* create adds a record and touches no other.
LEMMA CreateIsGentle ==
  ASSUME NEW k, NEW expiry, Store!Create(k, expiry)
  PROVE  GentleCall
  BY DEF Store!Create, Store!Refuse, Store!NewRecord, GentleCall, Gentle

\* verify, acquire_construction and the sweep leave the txid where it is.
LEMMA ClockedCallsAreGentle ==
  ASSUME EnvInv, StoreInv, NEW k \in Commitments, NEW now \in Instants, now <= clock,
         Store!Verify(k, now) \/ Store!AcquireConstruction(k, now) \/ Store!Expire(k, now)
  PROVE  GentleCall
<1>1. CASE records' = records
  BY <1>1, SameIsGentle
<1>2. CASE \E from : Store!ExpireIfElapsed(k, from, now)
  BY <1>2, ElapseIsGentle
<1>3. CASE /\ Store!At(k, {"CREATED"})
           /\ records' = [records EXCEPT ![k] = [records[k] EXCEPT
                             !.state = "VERIFIED", !.failure_reason = None]]
  <2>. DEFINE r == [records[k] EXCEPT !.state = "VERIFIED", !.failure_reason = None]
  <2>1. /\ k \in DOMAIN records /\ records[k] \in Store!TradeRecord
        /\ records \in [DOMAIN records -> Store!TradeRecord]
    BY <1>3 DEF Store!At, StoreInv, Store!TypeOK
  <2>2. /\ r.expiry = records[k].expiry /\ r.prior_txid = records[k].prior_txid
        /\ r.state = "VERIFIED"
    BY <2>1 DEF Store!TradeRecord
  <2>3. records' = [records EXCEPT ![k] = r]
    BY <1>3
  <2>. HIDE DEF r
  <2>. QED
    BY <2>1, <2>2, <2>3, ReplaceIsGentle
<1>4. CASE /\ Store!At(k, {"VERIFIED"})
           /\ records' = [records EXCEPT ![k] = [records[k] EXCEPT
                             !.state = "SETTLEMENT_CONSTRUCTED"]]
  <2>. DEFINE r == [records[k] EXCEPT !.state = "SETTLEMENT_CONSTRUCTED"]
  <2>1. /\ k \in DOMAIN records /\ records[k] \in Store!TradeRecord
        /\ records \in [DOMAIN records -> Store!TradeRecord]
    BY <1>4 DEF Store!At, StoreInv, Store!TypeOK
  <2>2. /\ r.expiry = records[k].expiry /\ r.prior_txid = records[k].prior_txid
        /\ r.state = "SETTLEMENT_CONSTRUCTED"
    BY <2>1 DEF Store!TradeRecord
  <2>3. records' = [records EXCEPT ![k] = r]
    BY <1>4
  <2>. HIDE DEF r
  <2>. QED
    BY <2>1, <2>2, <2>3, ReplaceIsGentle
<1>5. CASE /\ Store!At(k, {"CREATED", "VERIFIED", "SETTLEMENT_CONSTRUCTED", "FAILED"})
           /\ Store!IsExpiredAt(k, now)
           /\ records' = [records EXCEPT ![k] = [records[k] EXCEPT !.state = "EXPIRED"]]
  <2>1. k \in DOMAIN records /\ records \in [DOMAIN records -> Store!TradeRecord]
    BY <1>5 DEF Store!At, StoreInv, Store!TypeOK
  <2>2. clock > records[k].expiry
    BY <1>5, <2>1, SettlementAssumption
       DEF Store!IsExpiredAt, Store!TradeRecord, EnvInv, EnvTypeOK, Instants
  <2>. QED
    BY <1>5, <2>1, <2>2, ReplaceIsGentle DEF Store!TradeRecord
<1>. QED
  BY <1>1, <1>2, <1>3, <1>4, <1>5
     DEF Store!Verify, Store!AcquireConstruction, Store!Expire, Store!RefuseUnlessAt,
         Store!Refuse, Store!Live, Store!At, Store!Accept, Store!Acquirable,
         Store!Expirable

\* submit fills the txid in where, by the store's invariant, there is none.
LEMMA SubmitIsGentle ==
  ASSUME EnvInv, StoreInv, NEW k \in Commitments, NEW txid \in TxIds,
         NEW now \in Instants, now <= clock, Store!Submit(k, txid, now)
  PROVE  GentleCall
<1>1. CASE records' = records
  BY <1>1, SameIsGentle
<1>2. CASE \E from : Store!ExpireIfElapsed(k, from, now)
  BY <1>2, ElapseIsGentle
<1>3. CASE /\ Store!At(k, {"SETTLEMENT_CONSTRUCTED"})
           /\ records' = [records EXCEPT ![k] = [records[k] EXCEPT
                             !.state = "SUBMITTED", !.prior_txid = txid]]
  <2>1. k \in DOMAIN records /\ records \in [DOMAIN records -> Store!TradeRecord]
    BY <1>3 DEF Store!At, StoreInv, Store!TypeOK
  <2>2. records[k].prior_txid = None
    BY <1>3 DEF Store!At, StoreInv, Store!BookkeepingMatchesState
  <2>. QED
    BY <1>3, <2>1, <2>2, ReplaceIsGentle DEF Store!TradeRecord
<1>. QED
  BY <1>1, <1>2, <1>3
     DEF Store!Submit, Store!RefuseUnlessAt, Store!Refuse, Store!Live, Store!Accept

\* A report of a mined transaction is, the record naming it, about this trade.
LEMMA ConfirmIsGentle ==
  ASSUME StoreInv, LiveTransactionsAreTracked, NEW t \in TxIds, chain[t] = "mined",
         Store!Confirm(carries[t])
  PROVE  GentleCall
<1>. DEFINE k == carries[t]
<1>1. CASE records' = records
  BY <1>1, SameIsGentle
<1>2. CASE records' = [records EXCEPT ![k] = [records[k] EXCEPT !.state = "CONFIRMED"]]
  <2>1. k \in DOMAIN records /\ records[k].prior_txid = t
    BY DEF LiveTransactionsAreTracked
  <2>2. records \in [DOMAIN records -> Store!TradeRecord]
    BY DEF StoreInv, Store!TypeOK
  <2>. QED
    BY <1>2, <2>1, <2>2, ReplaceIsGentle DEF Store!TradeRecord
<1>. QED
  BY <1>1, <1>2
     DEF Store!Confirm, Store!RefuseUnlessAt, Store!Refuse, Store!Accept

\* consume only moves on what was confirmed.
LEMMA ConsumeIsGentle ==
  ASSUME StoreInv, NEW k, Store!Consume(k)
  PROVE  GentleCall
<1>1. CASE records' = records
  BY <1>1, SameIsGentle
<1>2. CASE /\ Store!At(k, {"CONFIRMED"})
           /\ records' = [records EXCEPT ![k] = [records[k] EXCEPT !.state = "CONSUMED"]]
  <2>1. k \in DOMAIN records /\ records \in [DOMAIN records -> Store!TradeRecord]
    BY <1>2 DEF Store!At, StoreInv, Store!TypeOK
  <2>. QED
    BY <1>2, <2>1, ReplaceIsGentle DEF Store!TradeRecord, Store!At
<1>. QED
  BY <1>1, <1>2 DEF Store!Consume, Store!RefuseUnlessAt, Store!Refuse, Store!Accept

\* fail keeps the txid of a submission, and before a submission there is none.
LEMMA FailIsGentle ==
  ASSUME StoreInv, NEW k, NEW reason, Store!Fail(k, reason)
  PROVE  GentleCall
<1>. DEFINE r == [records[k] EXCEPT !.prior_txid = Store!TxidAfterFailure(records[k]),
                                   !.state = "FAILED", !.failure_reason = reason]
<1>1. CASE records' = records
  BY <1>1, SameIsGentle
<1>2. CASE Store!At(k, Store!Failable) /\ records' = [records EXCEPT ![k] = r]
  <2>1. /\ k \in DOMAIN records /\ records[k] \in Store!TradeRecord
        /\ records \in [DOMAIN records -> Store!TradeRecord]
    BY <1>2 DEF Store!At, StoreInv, Store!TypeOK
  <2>2. /\ r.expiry = records[k].expiry /\ r.state = "FAILED"
        /\ r.prior_txid = Store!TxidAfterFailure(records[k])
    BY <2>1 DEF Store!TradeRecord
  <2>3. Store!TxidAfterFailure(records[k]) = records[k].prior_txid
    BY <1>2, <2>1 DEF Store!At, Store!Failable, Store!TxidAfterFailure, StoreInv,
                      Store!BookkeepingMatchesState
  <2>. HIDE DEF r
  <2>. QED
    BY <1>2, <2>1, <2>2, <2>3, ReplaceIsGentle
<1>. QED
  BY <1>1, <1>2 DEF Store!Fail, Store!RefuseUnlessAt, Store!Refuse, Store!Accept

\* A retry drops the txid it names, and it names a dead transaction.
LEMMA RetryIsGentle ==
  ASSUME EnvInv, StoreInv, NEW k, NEW now \in Instants, now <= clock,
         NEW acknowledged \in {None} \cup {t \in TxIds : chain[t] = "dead"},
         Store!RetryAfterFailure(k, acknowledged, now)
  PROVE  GentleCall
<1>. DEFINE r == Store!Retried(records[k])
<1>1. CASE records' = records
  BY <1>1, SameIsGentle
<1>2. CASE \E from : Store!ExpireIfElapsed(k, from, now)
  BY <1>2, ElapseIsGentle
<1>3. CASE /\ Store!At(k, Store!Retryable)
           /\ Store!Acknowledges(records[k], acknowledged)
           /\ records' = [records EXCEPT ![k] = r]
  <2>1. /\ k \in DOMAIN records /\ records[k] \in Store!TradeRecord
        /\ records \in [DOMAIN records -> Store!TradeRecord]
    BY <1>3 DEF Store!At, StoreInv, Store!TypeOK
  <2>2. r.expiry = records[k].expiry /\ r.state = "CREATED"
    BY <2>1 DEF Store!TradeRecord, Store!Retried
  <2>3. records[k].prior_txid = None \/ chain[records[k].prior_txid] = "dead"
    BY <1>3 DEF Store!Acknowledges
  <2>. HIDE DEF r
  <2>. QED
    BY <1>3, <2>1, <2>2, <2>3, ReplaceIsGentle
<1>. QED
  BY <1>1, <1>2, <1>3
     DEF Store!RetryAfterFailure, Store!RefuseUnlessAt, Store!Refuse, Store!Live,
         Store!Accept

\* So every step treats the records gently.
LEMMA StepIsGentle ==
  ASSUME EnvInv, StoreInv, LiveTransactionsAreTracked, [Next]_vars
  PROVE  GentleCall
<1>1. ASSUME UNCHANGED store
      PROVE  GentleCall
  BY <1>1, SameIsGentle DEF store
<1>2. ASSUME NEW m \in Matchers, WorkerStep(m)
      PROVE  GentleCall
  <2>1. worker[m].now \in Instants /\ worker[m].now <= clock
    BY DEF EnvInv, EnvTypeOK, Worker
  <2>2. worker[m].pc # "idle" => worker[m].trade \in Commitments
    BY DEF EnvInv
  <2>3. worker[m].pc = "built" => worker[m].txid \in TxIds
    BY DEF EnvInv
  <2>4. CASE VerifyTrade(m) \/ SweepTrade(m) \/ Acquire(m)
    BY <2>1, <2>2, <2>4, ClockedCallsAreGentle
       DEF VerifyTrade, SweepTrade, Acquire, CallAndRest
  <2>5. CASE RetryTrade(m)
    BY <2>1, <2>5, RetryIsGentle DEF RetryTrade, CallAndRest
  <2>6. CASE SubmitCandidate(m)
    BY <2>1, <2>2, <2>3, <2>6, SubmitIsGentle DEF SubmitCandidate
  <2>7. CASE GiveUp(m)
    BY <2>7, FailIsGentle DEF GiveUp
  <2>8. CASE \/ \E k \in Commitments : ReadClock(m, k)
             \/ Build(m) \/ Broadcast(m) \/ Crash(m)
    BY <1>1, <2>8 DEF ReadClock, Build, Broadcast, Crash
  <2>. QED
    BY <1>2, <2>4, <2>5, <2>6, <2>7, <2>8 DEF WorkerStep
<1>3. ASSUME NEW k \in Commitments,
             \/ \E expiry \in Instants : OpenTrade(k, expiry)
             \/ ConsumeTrade(k)
             \/ \E reason \in Store!FailureReason : ReportFailure(k, reason)
      PROVE  GentleCall
  BY <1>3, CreateIsGentle, ConsumeIsGentle, FailIsGentle
     DEF OpenTrade, ConsumeTrade, ReportFailure
<1>4. ASSUME NEW t \in TxIds, ReportMined(t)
      PROVE  GentleCall
  BY <1>4, ConfirmIsGentle DEF ReportMined
<1>5. CASE UNCHANGED vars \/ (\E t \in TxIds : Mine(t) \/ Die(t)) \/ Tick
  BY <1>1, <1>5 DEF vars, store, Mine, Die, Tick
<1>. QED
  BY <1>2, <1>3, <1>4, <1>5 DEF Next

\* A record goes on naming a transaction that is not dead.
LEMMA GentleKeepsTxid ==
  ASSUME GentleCall, NEW k \in DOMAIN records, NEW t \in TxIds,
         records[k].prior_txid = t, chain[t] # "dead"
  PROVE  k \in DOMAIN records' /\ records'[k].prior_txid = t
  BY SettlementAssumption DEF GentleCall, Gentle

\* Calls that move neither chain nor clock keep what ties records to them.
LEMMA GentleKeepsTracking ==
  ASSUME EnvInv, StoreInv, TrackingInv, GentleCall, UNCHANGED <<clock, chain, carries>>
  PROVE  /\ LiveTransactionsAreTracked'
         /\ ConfirmedMeansMined'
         /\ ExpiredOnlyAfterExpiry'
<1>1. LiveTransactionsAreTracked'
  BY GentleKeepsTxid DEF TrackingInv, LiveTransactionsAreTracked
<1>2. ConfirmedMeansMined'
  BY DEF TrackingInv, ConfirmedMeansMined, GentleCall, Gentle, Store!At
<1>3. ExpiredOnlyAfterExpiry'
  BY DEF TrackingInv, ExpiredOnlyAfterExpiry, GentleCall, Gentle, Store!At
<1>. QED
  BY <1>1, <1>2, <1>3

\* And they keep accepted candidates recorded, unless a worker has a new one.
LEMMA GentleKeepsAccepted ==
  ASSUME EnvInv, StoreInv, TrackingInv, GentleCall, UNCHANGED <<clock, chain, carries>>,
         \A m \in Matchers : worker'[m].pc = "accepted" => worker'[m] = worker[m]
  PROVE  AcceptedAreTracked'
<1>. SUFFICES ASSUME NEW m \in Matchers, worker[m].pc = "accepted",
                     worker'[m] = worker[m], chain[worker[m].txid] = "built"
              PROVE  /\ worker[m].trade \in DOMAIN records'
                     /\ records'[worker[m].trade].prior_txid = worker[m].txid
  BY DEF AcceptedAreTracked
<1>1. worker[m].txid \in TxIds
  BY DEF EnvInv
<1>. QED
  BY <1>1, GentleKeepsTxid DEF TrackingInv, AcceptedAreTracked

\* An accepted submission is on record under the worker's trade.
LEMMA SubmitRecordsTxid ==
  ASSUME StoreInv, NEW k, NEW txid, NEW now, Store!Submit(k, txid, now), Ok
  PROVE  k \in DOMAIN records' /\ records'[k].prior_txid = txid
<1>1. /\ Store!At(k, {"SETTLEMENT_CONSTRUCTED"})
      /\ records' = [records EXCEPT ![k] = [records[k] EXCEPT
                        !.state = "SUBMITTED", !.prior_txid = txid]]
  BY DEF Store!Submit, Store!RefuseUnlessAt, Store!Refuse, Store!Refusal,
         Store!ExpireIfElapsed, Store!Live, Store!Accept, Ok
<1>2. k \in DOMAIN records /\ records[k] \in Store!TradeRecord
  BY <1>1 DEF Store!At, StoreInv, Store!TypeOK
<1>. QED
  BY <1>1, <1>2 DEF Store!TradeRecord

\* What becomes of transactions disturbs no record.
LEMMA TransactionsKeepTracking ==
  ASSUME EnvInv, StoreInv, TrackingInv,
         \/ \E m \in Matchers : Build(m) \/ Broadcast(m)
         \/ \E t \in TxIds : Mine(t) \/ Die(t)
  PROVE  TrackingInv'
<1>. USE DEF Store!At, store
<1>0. /\ chain \in [TxIds -> TxStatus] /\ carries \in [TxIds -> Commitments \cup {None}]
      /\ worker \in [Matchers -> Worker]
  BY DEF EnvInv, EnvTypeOK
<1>1. \A k \in Commitments :
        Store!At(k, {"CONFIRMED", "CONSUMED"}) => records[k].prior_txid \in TxIds
  BY DEF StoreInv, Store!TypeOK, Store!TradeRecord, Store!BookkeepingMatchesState
<1>2. ASSUME NEW m \in Matchers, Build(m)
      PROVE  TrackingInv'
  <2>1. PICK t \in TxIds :
           /\ worker[m].pc = "building"
           /\ chain[t] = "unused"
           /\ chain' = [chain EXCEPT ![t] = "built"]
           /\ carries' = [carries EXCEPT ![t] = worker[m].trade]
           /\ worker' = [worker EXCEPT ![m].pc = "built", ![m].now = clock, ![m].txid = t]
           /\ UNCHANGED <<store, clock>>
    BY <1>2 DEF Build
  <2>2. \A u \in TxIds \ {t} : chain'[u] = chain[u] /\ carries'[u] = carries[u]
    BY <1>0, <2>1
  <2>3. chain'[t] = "built"
    BY <1>0, <2>1
  <2>4. LiveTransactionsAreTracked'
    BY <2>1, <2>2, <2>3 DEF TrackingInv, LiveTransactionsAreTracked
  <2>5. AcceptedAreTracked'
    <3>1. worker'[m].pc # "accepted"
      BY <1>0, <2>1 DEF Worker
    <3>2. \A n \in Matchers \ {m} : worker'[n] = worker[n]
      BY <1>0, <2>1
    <3>3. \A n \in Matchers : worker[n].pc = "accepted" =>
              worker[n].txid \in TxIds \ {t}
      BY <2>1 DEF EnvInv
    <3>4. ASSUME NEW n \in Matchers, worker'[n].pc = "accepted"
          PROVE  /\ worker'[n] = worker[n]
                 /\ chain'[worker[n].txid] = chain[worker[n].txid]
      BY <2>2, <3>1, <3>2, <3>3, <3>4
    <3>. QED
      BY <2>1, <3>4 DEF TrackingInv, AcceptedAreTracked
  <2>6. ConfirmedMeansMined'
    BY <1>1, <2>1, <2>2 DEF TrackingInv, ConfirmedMeansMined
  <2>7. ExpiredOnlyAfterExpiry'
    BY <2>1 DEF TrackingInv, ExpiredOnlyAfterExpiry
  <2>. QED
    BY <2>4, <2>5, <2>6, <2>7 DEF TrackingInv
<1>3. ASSUME NEW m \in Matchers, Broadcast(m)
      PROVE  TrackingInv'
  <2>. DEFINE t == worker[m].txid
  <2>1. /\ worker[m].pc = "accepted"
        /\ chain' = [chain EXCEPT ![t] = IF @ = "built" THEN "mempool" ELSE @]
        /\ worker' = [worker EXCEPT ![m] = Idle]
        /\ UNCHANGED <<store, clock, carries>>
    BY <1>3 DEF Broadcast
  <2>2. t \in TxIds /\ carries[t] = worker[m].trade
    BY <2>1 DEF EnvInv
  <2>. HIDE DEF t
  <2>3. \A u \in TxIds \ {t} : chain'[u] = chain[u]
    BY <1>0, <2>1
  <2>4. chain'[t] = IF chain[t] = "built" THEN "mempool" ELSE chain[t]
    BY <1>0, <2>1, <2>2
  <2>5. LiveTransactionsAreTracked'
    <3>1. chain'[t] \in {"mempool", "mined"} =>
              carries[t] \in DOMAIN records /\ records[carries[t]].prior_txid = t
      BY <2>1, <2>2, <2>4 DEF t, TrackingInv, LiveTransactionsAreTracked, AcceptedAreTracked
    <3>. QED
      BY <2>1, <2>3, <3>1 DEF TrackingInv, LiveTransactionsAreTracked
  <2>6. AcceptedAreTracked'
    <3>1. \A n \in Matchers : worker'[n].pc = "accepted" => worker'[n] = worker[n]
      BY <1>0, <2>1, WorkerValues
    <3>2. \A u \in TxIds : chain'[u] = "built" => chain[u] = "built"
      BY <2>3, <2>4
    <3>3. \A n \in Matchers : worker[n].pc = "accepted" => worker[n].txid \in TxIds
      BY DEF EnvInv
    <3>. QED
      BY <2>1, <3>1, <3>2, <3>3 DEF TrackingInv, AcceptedAreTracked
  <2>7. ConfirmedMeansMined'
    BY <1>1, <2>1, <2>3, <2>4 DEF TrackingInv, ConfirmedMeansMined
  <2>8. ExpiredOnlyAfterExpiry'
    BY <2>1 DEF TrackingInv, ExpiredOnlyAfterExpiry
  <2>. QED
    BY <2>5, <2>6, <2>7, <2>8 DEF TrackingInv
<1>4. ASSUME NEW t \in TxIds, Mine(t) \/ Die(t)
      PROVE  TrackingInv'
  <2>1. UNCHANGED <<store, clock, worker, carries>>
    BY <1>4 DEF Mine, Die
  <2>2. /\ \A u \in TxIds \ {t} : chain'[u] = chain[u]
        /\ chain[t] # "mined" /\ chain'[t] # "built"
        /\ chain'[t] = "mined" => chain[t] = "mempool"
        /\ chain'[t] # "mempool"
    BY <1>0, <1>4 DEF Mine, Die
  <2>3. LiveTransactionsAreTracked'
    BY <2>1, <2>2 DEF TrackingInv, LiveTransactionsAreTracked
  <2>4. AcceptedAreTracked'
    <3>1. \A n \in Matchers : worker[n].pc = "accepted" => worker[n].txid \in TxIds
      BY DEF EnvInv
    <3>. QED
      BY <2>1, <2>2, <3>1 DEF TrackingInv, AcceptedAreTracked
  <2>5. ConfirmedMeansMined'
    BY <1>1, <2>1, <2>2 DEF TrackingInv, ConfirmedMeansMined
  <2>6. ExpiredOnlyAfterExpiry'
    BY <2>1 DEF TrackingInv, ExpiredOnlyAfterExpiry
  <2>. QED
    BY <2>3, <2>4, <2>5, <2>6 DEF TrackingInv
<1>. QED
  BY <1>2, <1>3, <1>4

\* As time passes, what is over stays over.
LEMMA TickKeepsTracking ==
  ASSUME EnvInv, StoreInv, TrackingInv, Tick
  PROVE  TrackingInv'
<1>1. clock' = clock + 1 /\ UNCHANGED <<store, worker, chain, carries>>
  BY DEF Tick
<1>2. ExpiredOnlyAfterExpiry'
  <2>1. \A k \in DOMAIN records : records[k].expiry \in Nat
    BY SettlementAssumption DEF StoreInv, Store!TypeOK, Store!TradeRecord, Instants
  <2>2. clock \in Nat
    BY SettlementAssumption DEF EnvInv, EnvTypeOK, Instants
  <2>. QED
    BY <1>1, <2>1, <2>2 DEF TrackingInv, ExpiredOnlyAfterExpiry, Store!At, store
<1>3. LiveTransactionsAreTracked' /\ AcceptedAreTracked' /\ ConfirmedMeansMined'
  BY <1>1 DEF TrackingInv, LiveTransactionsAreTracked, AcceptedAreTracked,
              ConfirmedMeansMined, Store!At, store
<1>. QED
  BY <1>2, <1>3 DEF TrackingInv

\* Every step keeps records and chain together.
LEMMA NextKeepsTracking ==
  ASSUME EnvInv, StoreInv, TrackingInv, [Next]_vars
  PROVE  TrackingInv'
<1>1. GentleCall
  BY StepIsGentle DEF TrackingInv
<1>2. ASSUME UNCHANGED <<clock, chain, carries>>,
             \A m \in Matchers : worker'[m].pc = "accepted" => worker'[m] = worker[m]
      PROVE  TrackingInv'
  BY <1>1, <1>2, GentleKeepsTracking, GentleKeepsAccepted DEF TrackingInv
<1>3. worker \in [Matchers -> Worker]
  BY DEF EnvInv, EnvTypeOK
<1>4. ASSUME NEW m \in Matchers, worker' = [worker EXCEPT ![m] = Idle]
      PROVE  \A n \in Matchers : worker'[n].pc = "accepted" => worker'[n] = worker[n]
  BY <1>3, <1>4, WorkerValues
<1>5. ASSUME NEW m \in Matchers, WorkerStep(m)
      PROVE  TrackingInv'
  <2>1. CASE \E k \in Commitments : ReadClock(m, k)
    BY <1>2, <1>3, <2>1 DEF ReadClock
  <2>2. CASE \/ VerifyTrade(m) \/ SweepTrade(m) \/ RetryTrade(m)
             \/ GiveUp(m) \/ Crash(m)
    BY <1>2, <1>4, <2>2
       DEF VerifyTrade, SweepTrade, RetryTrade, CallAndRest, GiveUp, Crash
  <2>3. CASE Acquire(m)
    <3>1. CASE worker' = [worker EXCEPT ![m] = Idle]
      BY <1>2, <1>4, <2>3, <3>1 DEF Acquire
    <3>2. CASE worker' = [worker EXCEPT ![m] = [@ EXCEPT !.pc = "building"]]
      <4>1. [worker[m] EXCEPT !.pc = "building"].pc = "building"
        BY <1>3, WorkerValues
      <4>2. \A n \in Matchers : worker'[n].pc = "accepted" => worker'[n] = worker[n]
        BY <1>3, <3>2, <4>1
      <4>. QED
        BY <1>2, <2>3, <4>2 DEF Acquire
    <3>. QED
      BY <2>3, <3>1, <3>2 DEF Acquire
  <2>4. CASE SubmitCandidate(m)
    <3>1. CASE worker' = [worker EXCEPT ![m] = Idle]
      BY <1>2, <1>4, <2>4, <3>1 DEF SubmitCandidate
    <3>2. CASE Ok /\ worker' = [worker EXCEPT ![m] = [@ EXCEPT !.pc = "accepted"]]
      <4>1. /\ LiveTransactionsAreTracked' /\ ConfirmedMeansMined'
            /\ ExpiredOnlyAfterExpiry'
        BY <1>1, <2>4, GentleKeepsTracking DEF SubmitCandidate
      <4>. DEFINE k == worker[m].trade
                  t == worker[m].txid
      <4>2. k \in DOMAIN records' /\ records'[k].prior_txid = t
        BY <2>4, <3>2, SubmitRecordsTxid DEF SubmitCandidate
      <4>3. worker'[m].trade = k /\ worker'[m].txid = t
        <5>1. /\ [worker[m] EXCEPT !.pc = "accepted"].trade = k
              /\ [worker[m] EXCEPT !.pc = "accepted"].txid = t
          BY <1>3, WorkerValues
        <5>. QED
          BY <1>3, <3>2, <5>1
      <4>4. \A n \in Matchers \ {m} : worker'[n] = worker[n]
        BY <1>3, <3>2
      <4>5. \A n \in Matchers \ {m} :
               worker'[n].pc = "accepted" /\ chain'[worker'[n].txid] = "built" =>
                  /\ worker'[n].trade \in DOMAIN records'
                  /\ records'[worker'[n].trade].prior_txid = worker'[n].txid
        <5>. SUFFICES ASSUME NEW n \in Matchers \ {m}, worker[n].pc = "accepted",
                             chain[worker[n].txid] = "built"
                      PROVE  /\ worker[n].trade \in DOMAIN records'
                             /\ records'[worker[n].trade].prior_txid = worker[n].txid
          BY <2>4, <4>4 DEF SubmitCandidate
        <5>1. worker[n].txid \in TxIds
          BY DEF EnvInv
        <5>. QED
          BY <1>1, <5>1, GentleKeepsTxid DEF TrackingInv, AcceptedAreTracked
      <4>6. AcceptedAreTracked'
        BY <4>2, <4>3, <4>5 DEF AcceptedAreTracked
      <4>. QED
        BY <4>1, <4>6 DEF TrackingInv
    <3>. QED
      BY <2>4, <3>1, <3>2 DEF SubmitCandidate
  <2>5. CASE Build(m) \/ Broadcast(m)
    BY <2>5, TransactionsKeepTracking
  <2>. QED
    BY <1>5, <2>1, <2>2, <2>3, <2>4, <2>5 DEF WorkerStep
<1>6. ASSUME UNCHANGED env
      PROVE  TrackingInv'
  BY <1>2, <1>6 DEF env
<1>7. CASE UNCHANGED vars
  BY <1>6, <1>7 DEF vars, env
<1>8. CASE \E t \in TxIds : Mine(t) \/ Die(t)
  BY <1>8, TransactionsKeepTracking
<1>9. CASE Tick
  BY <1>9, TickKeepsTracking
<1>. QED
  BY <1>5, <1>6, <1>7, <1>8, <1>9
     DEF Next, OpenTrade, ConsumeTrade, ReportFailure, ReportMined

\* In the beginning there is nothing to track.
LEMMA InitTracking == Init => TrackingInv
  BY DEF Init, Store!Init, TrackingInv, LiveTransactionsAreTracked,
         AcceptedAreTracked, ConfirmedMeansMined, ExpiredOnlyAfterExpiry, Store!At, Idle

\* The invariant that connects records, workers and chain.
LEMMA TrackingInvariant == Spec => []TrackingInv
  BY InitTracking, NextKeepsTracking, EnvInvariant, StoreInvHolds, PTL DEF Spec

-----------------------------------------------------------------------------
(* What settlement promises.                                               *)

\* Types hold; a confirmed record names a mined transaction of its trade
\* although confirm is not told which one; and every transaction the network
\* may mine is the one its trade's record names.
THEOREM SettlementInvariant == Spec => []SettlementInv
<1>1. EnvInv /\ StoreInv /\ TrackingInv => SettlementInv
  BY DEF SettlementInv, SettlementTypeOK, EnvInv, EnvTypeOK, StoreInv, TrackingInv
<1>. QED
  BY <1>1, EnvInvariant, StoreInvHolds, TrackingInvariant, PTL

\* No trade settles twice, for any number of workers and transactions, however
\* they interleave, crash, retry and fail trades on old news: two mined
\* transactions of a trade would both be the one its record names.
THEOREM OneSettlementPerTrade == Spec => []SettlesAtMostOnce
<1>1. TrackingInv => SettlesAtMostOnce
  BY DEF TrackingInv, LiveTransactionsAreTracked, SettlesAtMostOnce
<1>. QED
  BY <1>1, TrackingInvariant, PTL

\* No stale reading expires a trade before its expiry second is over.
THEOREM NoEarlyExpiry == Spec => []ExpiredOnlyAfterExpiry
  BY TrackingInvariant, PTL DEF TrackingInv

\* A submission is accepted at most MaxStaleness after the committed expiry:
\* the reading it was gated by is no older.
THEOREM NoLateSubmission == Spec => SubmittedInTime
<1>. DEFINE Step == \A k \in Commitments :
                      submitted'[k] # submitted[k] =>
                          clock <= records[k].expiry + MaxStaleness
<1>1. ASSUME EnvInv, StoreInv, [Next]_vars
      PROVE  [Step]_vars
  <2>1. ASSUME submitted' = submitted
        PROVE  Step
    BY <2>1
  <2>2. ASSUME NEW m \in Matchers, SubmitCandidate(m)
        PROVE  Step
    <3>. DEFINE k == worker[m].trade
    <3>1. /\ clock <= worker[m].now + MaxStaleness /\ k \in Commitments
          /\ worker[m].now \in Nat /\ clock \in Nat
      BY <1>1, <2>2, SettlementAssumption
         DEF SubmitCandidate, EnvInv, EnvTypeOK, Worker, Instants
    <3>2. CASE submitted' = submitted
      BY <2>1, <3>2
    <3>3. CASE /\ Store!Live(k, {"SETTLEMENT_CONSTRUCTED"}, worker[m].now)
               /\ submitted' = [submitted EXCEPT ![k] = @ + 1]
      <4>1. worker[m].now <= records[k].expiry /\ records[k].expiry \in Nat
        BY <1>1, <3>1, <3>3, SettlementAssumption
           DEF Store!Live, Store!At, Store!IsExpiredAt, StoreInv, Store!TypeOK,
               Store!TradeRecord, Instants
      <4>2. \A c \in Commitments \ {k} : submitted'[c] = submitted[c]
        BY <1>1, <3>3 DEF StoreInv, Store!TypeOK
      <4>. QED
        BY <3>1, <4>1, <4>2, SettlementAssumption
    <3>. QED
      BY <2>2, <3>2, <3>3
         DEF SubmitCandidate, Store!Submit, Store!RefuseUnlessAt, Store!Refuse,
             Store!ExpireIfElapsed, Store!history
  <2>3. ASSUME NEW k, NEW now,
               \/ \E expiry : Store!Create(k, expiry)
               \/ Store!Verify(k, now) \/ Store!AcquireConstruction(k, now)
               \/ Store!Confirm(k) \/ Store!Consume(k) \/ Store!Expire(k, now)
               \/ \E reason : Store!Fail(k, reason)
               \/ \E ack : Store!RetryAfterFailure(k, ack, now)
        PROVE  submitted' = submitted
    BY <2>3 DEF Store!Create, Store!Verify, Store!AcquireConstruction, Store!Confirm,
                Store!Consume, Store!Expire, Store!Fail, Store!RetryAfterFailure,
                Store!RefuseUnlessAt, Store!Refuse, Store!ExpireIfElapsed,
                Store!history
  <2>4. ASSUME NEW m \in Matchers, WorkerStep(m)
        PROVE  Step
    <3>1. CASE SubmitCandidate(m)
      BY <2>2, <3>1
    <3>2. CASE \/ VerifyTrade(m) \/ SweepTrade(m) \/ RetryTrade(m)
               \/ Acquire(m) \/ GiveUp(m)
      BY <2>1, <2>3, <3>2
         DEF VerifyTrade, SweepTrade, RetryTrade, CallAndRest, Acquire, GiveUp
    <3>3. CASE \/ \E k \in Commitments : ReadClock(m, k)
               \/ Build(m) \/ Broadcast(m) \/ Crash(m)
      BY <2>1, <3>3 DEF ReadClock, Build, Broadcast, Crash, store
    <3>. QED
      BY <2>4, <3>1, <3>2, <3>3 DEF WorkerStep
  <2>5. CASE \/ \E k \in Commitments :
                  \/ \E expiry \in Instants : OpenTrade(k, expiry)
                  \/ ConsumeTrade(k)
                  \/ \E reason \in Store!FailureReason : ReportFailure(k, reason)
             \/ \E t \in TxIds : ReportMined(t)
    BY <2>1, <2>3, <2>5 DEF OpenTrade, ConsumeTrade, ReportFailure, ReportMined
  <2>6. CASE UNCHANGED vars \/ (\E t \in TxIds : Mine(t) \/ Die(t)) \/ Tick
    BY <2>1, <2>6 DEF vars, store, Mine, Die, Tick
  <2>. QED
    BY <1>1, <2>4, <2>5, <2>6 DEF Next
<1>. QED
  BY <1>1, EnvInvariant, StoreInvHolds, PTL DEF Spec, SubmittedInTime

-----------------------------------------------------------------------------
(* As long as failures are current: ~LateFailures.                         *)

\* The states of a record under construction and of one that waits.
Held == {"SETTLEMENT_CONSTRUCTED", "EXPIRED"}
Waiting == {"SUBMITTED", "CONFIRMED", "CONSUMED"}

Constructing(m) == worker[m].pc \in {"building", "built"}

\* Nobody takes the construction state from a worker that builds; expiry may.
ConstructorsHoldTheState ==
    \A m \in Matchers : Constructing(m) => Store!At(worker[m].trade, Held)

\* A settlement for this trade may be mined, now or once it is sent out.
Launched(k) ==
    \/ \E t \in TxIds : chain[t] \in {"mempool", "mined"} /\ carries[t] = k
    \/ \E m \in Matchers :
          /\ worker[m].pc = "accepted" /\ worker[m].trade = k
          /\ chain[worker[m].txid] = "built"

LaunchedAreWaitedFor == \A k : Launched(k) => Store!At(k, Waiting)

CurrentInv == ConstructorsHoldTheState /\ OneConstructor /\ LaunchedAreWaitedFor

\* Where the step leaves a record.
NextAt(k, to) == k \in DOMAIN records' /\ records'[k].state \in to

\* The record neither leaves the construction state but by expiry, nor stops
\* waiting for what was submitted.
Steady(k) ==
    /\ Store!At(k, Held) => NextAt(k, Held)
    /\ Store!At(k, Waiting) => NextAt(k, Waiting)

\* A call that replaces one record is steady for all others.
LEMMA ReplaceIsSteady ==
  ASSUME NEW k, NEW r, records' = [records EXCEPT ![k] = r] \/ records' = records,
         NEW c, c # k
  PROVE  Steady(c)
  BY DEF Steady, Store!At, NextAt

\* fail and submit touch one record, and none when they are refused.
LEMMA FailReplaces ==
  ASSUME NEW k, NEW reason, Store!Fail(k, reason)
  PROVE  \/ records' = records
         \/ Store!At(k, Store!Failable) /\ \E r : records' = [records EXCEPT ![k] = r]
  BY DEF Store!Fail, Store!RefuseUnlessAt, Store!Refuse, Store!Accept

\* All calls but fail and submit are steady, and so is a refused submit.
LEMMA CallsAreSteady ==
  ASSUME StoreInv, NEW k, NEW now, NEW c,
         \/ \E expiry : Store!Create(k, expiry)
         \/ Store!Verify(k, now) \/ Store!AcquireConstruction(k, now)
         \/ (\E txid : Store!Submit(k, txid, now)) /\ ~Ok
         \/ Store!Confirm(k) \/ Store!Consume(k) \/ Store!Expire(k, now)
         \/ \E acknowledged : Store!RetryAfterFailure(k, acknowledged, now)
  PROVE  Steady(c)
<1>1. CASE records' = records
  BY <1>1 DEF Steady, Store!At, NextAt
<1>2. CASE \E expiry : Store!Create(k, expiry)
  BY <1>2 DEF Store!Create, Store!Refuse, Steady, Store!At, NextAt
<1>3. ASSUME NEW r, NEW from, Store!At(k, from), records' = [records EXCEPT ![k] = r],
             \/ from \cap (Held \cup Waiting) = {}
             \/ from \cap Waiting = {} /\ r.state \in Held
             \/ from \cap Held = {} /\ r.state \in Waiting
      PROVE  Steady(c)
  <2>1. DOMAIN records' = DOMAIN records /\ records'[k] = r
    BY <1>3 DEF Store!At
  <2>2. CASE c = k
    BY <1>3, <2>1, <2>2 DEF Steady, Store!At, NextAt
  <2>3. CASE c # k
    BY <1>3, <2>3, ReplaceIsSteady
  <2>. QED
    BY <2>2, <2>3
<1>4. ASSUME NEW S, Store!At(k, S)
      PROVE  records[k] \in Store!TradeRecord
  BY <1>4 DEF Store!At, StoreInv, Store!TypeOK
<1>5. ASSUME NEW from, from \cap Waiting = {}, Store!At(k, from),
             records' = [records EXCEPT ![k] = [records[k] EXCEPT !.state = "EXPIRED"]]
      PROVE  Steady(c)
  <2>. DEFINE r == [records[k] EXCEPT !.state = "EXPIRED"]
  <2>1. r.state \in Held
    BY <1>4, <1>5 DEF Store!TradeRecord, Held, NextAt
  <2>2. records' = [records EXCEPT ![k] = r]
    BY <1>5
  <2>. HIDE DEF r
  <2>. QED
    BY <1>3, <1>5, <2>1, <2>2
<1>6. ASSUME NEW from, from \cap Waiting = {}, Store!ExpireIfElapsed(k, from, now)
      PROVE  Steady(c)
  BY <1>5, <1>6 DEF Store!ExpireIfElapsed
<1>7. CASE Store!Verify(k, now)
  <2>1. {"CREATED"} \cap (Held \cup Waiting) = {}
    BY DEF Held, Waiting, NextAt
  <2>2. CASE \E r : Store!At(k, {"CREATED"}) /\ records' = [records EXCEPT ![k] = r]
    BY <1>3, <2>1, <2>2
  <2>. QED
    BY <1>1, <1>6, <1>7, <2>1, <2>2
       DEF Store!Verify, Store!RefuseUnlessAt, Store!Refuse, Store!Live, Store!Accept
<1>8. CASE Store!AcquireConstruction(k, now)
  <2>1. {"VERIFIED"} \cap (Held \cup Waiting) = {}
    BY DEF Held, Waiting, NextAt
  <2>2. CASE \E r : Store!At(k, {"VERIFIED"}) /\ records' = [records EXCEPT ![k] = r]
    BY <1>3, <2>1, <2>2
  <2>. QED
    BY <1>1, <1>6, <1>8, <2>1, <2>2
       DEF Store!AcquireConstruction, Store!Acquirable, Store!RefuseUnlessAt,
           Store!Refuse, Store!Live, Store!Accept
<1>9. CASE (\E txid : Store!Submit(k, txid, now)) /\ ~Ok
  <2>1. {"SETTLEMENT_CONSTRUCTED"} \cap Waiting = {}
    BY DEF Waiting, NextAt
  <2>. QED
    BY <1>1, <1>6, <1>9, <2>1
       DEF Store!Submit, Store!RefuseUnlessAt, Store!Refuse, Store!Accept, Ok
<1>10. CASE Store!Confirm(k) \/ Store!Consume(k)
  <2>1. ASSUME NEW st \in Waiting, NEW from, from \cap Held = {}, Store!At(k, from),
               records' = [records EXCEPT ![k] = [records[k] EXCEPT !.state = st]]
        PROVE  Steady(c)
    <3>. DEFINE r == [records[k] EXCEPT !.state = st]
    <3>1. r.state \in Waiting
      BY <1>4, <2>1 DEF Store!TradeRecord
    <3>2. records' = [records EXCEPT ![k] = r]
      BY <2>1
    <3>. HIDE DEF r
    <3>. QED
      BY <1>3, <2>1, <3>1, <3>2
  <2>2. {"SUBMITTED"} \cap Held = {} /\ {"CONFIRMED"} \cap Held = {}
    BY DEF Held, NextAt
  <2>. QED
    BY <1>1, <1>10, <2>1, <2>2
       DEF Store!Confirm, Store!Consume, Store!RefuseUnlessAt, Store!Refuse,
           Store!Accept, Waiting, NextAt
<1>11. CASE Store!Expire(k, now)
  <2>1. Store!Expirable \cap Waiting = {}
    BY DEF Store!Expirable, Waiting, NextAt
  <2>. QED
    BY <1>1, <1>5, <1>11, <2>1
       DEF Store!Expire, Store!RefuseUnlessAt, Store!Refuse, Store!Accept
<1>12. CASE \E acknowledged : Store!RetryAfterFailure(k, acknowledged, now)
  <2>1. Store!Retryable \cap (Held \cup Waiting) = {}
    BY DEF Store!Retryable, Held, Waiting, NextAt
  <2>2. CASE \E r : Store!At(k, Store!Retryable) /\ records' = [records EXCEPT ![k] = r]
    BY <1>3, <2>1, <2>2
  <2>. QED
    BY <1>1, <1>6, <1>12, <2>1, <2>2
       DEF Store!RetryAfterFailure, Store!RefuseUnlessAt, Store!Refuse, Store!Live,
           Store!Accept
<1>. QED
  BY <1>2, <1>7, <1>8, <1>9, <1>10, <1>11, <1>12

\* A worker that goes on to build has taken the state and nobody else has it;
\* one that goes on to send out has its submission recorded.
Entitled(m) ==
    /\ worker'[m].pc \in {"building", "built"} =>
          /\ NextAt(worker'[m].trade, Held)
          /\ \A n \in Matchers \ {m} :
                worker'[n].pc \in {"building", "built"} =>
                    worker'[n].trade # worker'[m].trade
    /\ worker'[m].pc = "accepted" => NextAt(worker'[m].trade, Waiting)

\* A call keeps the invariant if it is steady towards what is built and what
\* was launched, and a worker that goes on is entitled to.
LEMMA CallKeepsCurrent ==
  ASSUME CurrentInv, UNCHANGED <<chain, carries>>,
         \A n \in Matchers :
            \/ /\ worker'[n] = worker[n]
               /\ Constructing(n) => Steady(worker[n].trade)
            \/ Entitled(n),
         \A k : Launched(k) => Steady(k)
  PROVE  CurrentInv'
<1>1. ASSUME NEW n \in Matchers, Constructing(n)'
      PROVE  NextAt(worker'[n].trade, Held)
  <2>1. CASE worker'[n] = worker[n] /\ (Constructing(n) => Steady(worker[n].trade))
    BY <1>1, <2>1 DEF CurrentInv, ConstructorsHoldTheState, Constructing, Steady
  <2>2. CASE Entitled(n)
    BY <1>1, <2>2 DEF Entitled, Constructing
  <2>. QED
    BY <2>1, <2>2
<1>2. OneConstructor'
  <2>. SUFFICES ASSUME NEW n \in Matchers, NEW o \in Matchers, Constructing(n)',
                       Constructing(o)', worker'[n].trade = worker'[o].trade
                PROVE  n = o
    BY DEF OneConstructor, Constructing
  <2>1. CASE worker'[n] = worker[n] /\ worker'[o] = worker[o]
    BY <2>1 DEF CurrentInv, OneConstructor, Constructing
  <2>2. CASE Entitled(n) \/ Entitled(o)
    BY <2>2 DEF Entitled, Constructing
  <2>. QED
    BY <2>1, <2>2
<1>3. ASSUME NEW k, Launched(k)'
      PROVE  NextAt(k, Waiting)
  <2>1. CASE Launched(k)
    BY <2>1 DEF CurrentInv, LaunchedAreWaitedFor, Steady
  <2>2. CASE ~Launched(k)
    <3>1. PICK n \in Matchers : /\ worker'[n].pc = "accepted" /\ worker'[n].trade = k
                               /\ chain[worker'[n].txid] = "built"
      BY <1>3, <2>2 DEF Launched
    <3>2. worker'[n] # worker[n]
      BY <2>2, <3>1 DEF Launched
    <3>. QED
      BY <3>1, <3>2 DEF Entitled
  <2>. QED
    BY <2>1, <2>2
<1>4. ConstructorsHoldTheState'
  BY <1>1 DEF ConstructorsHoldTheState, NextAt, Store!At
<1>5. LaunchedAreWaitedFor'
  BY <1>3 DEF LaunchedAreWaitedFor, NextAt, Store!At
<1>. QED
  BY <1>2, <1>4, <1>5 DEF CurrentInv

\* A steady call that puts its worker aside, or sets it to call.
LEMMA RestingKeepsCurrent ==
  ASSUME CurrentInv, UNCHANGED <<chain, carries>>, \A k : Steady(k),
         \A n \in Matchers : worker'[n] = worker[n] \/ worker'[n].pc \in {"idle", "ready"}
  PROVE  CurrentInv'
<1>1. \A n \in Matchers : worker'[n] = worker[n] \/ Entitled(n)
  BY DEF Entitled
<1>. QED
  BY <1>1, CallKeepsCurrent

\* acquire_construction is a compare-and-set: from the state of no constructor.
LEMMA AcquireKeepsCurrent ==
  ASSUME EnvInv, StoreInv, CurrentInv, NEW m \in Matchers, Acquire(m)
  PROVE  CurrentInv'
<1>. DEFINE k == worker[m].trade
<1>1. \A c : Steady(c)
  BY CallsAreSteady DEF Acquire
<1>2. CASE worker' = [worker EXCEPT ![m] = Idle]
  <2>1. \A n \in Matchers : worker'[n] = worker[n] \/ worker'[n].pc \in {"idle", "ready"}
    BY <1>2, WorkerValues DEF EnvInv, EnvTypeOK
  <2>. QED
    BY <1>1, <2>1, RestingKeepsCurrent DEF Acquire
<1>3. CASE Ok /\ worker' = [worker EXCEPT ![m] = [@ EXCEPT !.pc = "building"]]
  <2>1. /\ Store!At(k, {"VERIFIED"})
        /\ records' = [records EXCEPT ![k] = [records[k] EXCEPT
                          !.state = "SETTLEMENT_CONSTRUCTED"]]
    BY <1>3 DEF Acquire, Store!AcquireConstruction, Store!Acquirable, Ok,
                Store!RefuseUnlessAt, Store!Refuse, Store!Refusal,
                Store!ExpireIfElapsed, Store!Live, Store!Accept
  <2>2. NextAt(k, Held)
    <3>1. k \in DOMAIN records /\ records[k] \in Store!TradeRecord
      BY <2>1 DEF Store!At, StoreInv, Store!TypeOK
    <3>. QED
      BY <2>1, <3>1 DEF Store!At, Store!TradeRecord, Held, NextAt
  <2>3. \A n \in Matchers : Constructing(n) => worker[n].trade # k
    BY <2>1 DEF CurrentInv, ConstructorsHoldTheState, Store!At, Held, NextAt
  <2>4. /\ worker \in [Matchers -> Worker]
        /\ [worker[m] EXCEPT !.pc = "building"].trade = k
        /\ [worker[m] EXCEPT !.pc = "building"].pc = "building"
    BY WorkerValues DEF EnvInv, EnvTypeOK
  <2>5. /\ worker'[m].trade = k /\ worker'[m].pc = "building"
        /\ \A n \in Matchers \ {m} : worker'[n] = worker[n]
    BY <1>3, <2>4
  <2>6. Entitled(m)
    BY <2>2, <2>3, <2>5 DEF Entitled, Constructing
  <2>. QED
    BY <1>1, <2>5, <2>6, CallKeepsCurrent DEF Acquire
<1>. QED
  BY <1>2, <1>3 DEF Acquire

\* submit moves the record on from under the one worker that holds it.
LEMMA SubmitKeepsCurrent ==
  ASSUME EnvInv, StoreInv, CurrentInv, NEW m \in Matchers, SubmitCandidate(m)
  PROVE  CurrentInv'
<1>. DEFINE k == worker[m].trade
<1>1. CASE ~Ok
  <2>1. \A c : Steady(c)
    BY <1>1, CallsAreSteady DEF SubmitCandidate
  <2>2. worker' = [worker EXCEPT ![m] = Idle]
    BY <1>1 DEF SubmitCandidate
  <2>3. \A n \in Matchers : worker'[n] = worker[n] \/ worker'[n].pc \in {"idle", "ready"}
    BY <2>2, WorkerValues DEF EnvInv, EnvTypeOK
  <2>. QED
    BY <2>1, <2>3, RestingKeepsCurrent DEF SubmitCandidate
<1>2. CASE Ok
  <2>1. /\ Store!At(k, {"SETTLEMENT_CONSTRUCTED"})
        /\ records' = [records EXCEPT ![k] = [records[k] EXCEPT
                          !.state = "SUBMITTED", !.prior_txid = worker[m].txid]]
    BY <1>2 DEF SubmitCandidate, Store!Submit, Ok, Store!RefuseUnlessAt,
                Store!Refuse, Store!Refusal, Store!ExpireIfElapsed, Store!Live,
                Store!Accept
  <2>2. NextAt(k, Waiting)
    <3>1. k \in DOMAIN records /\ records[k] \in Store!TradeRecord
      BY <2>1 DEF Store!At, StoreInv, Store!TypeOK
    <3>. QED
      BY <2>1, <3>1 DEF Store!At, Store!TradeRecord, Waiting, NextAt
  <2>3. ~Launched(k)
    BY <2>1 DEF CurrentInv, LaunchedAreWaitedFor, Store!At, Waiting, NextAt
  <2>4. /\ worker \in [Matchers -> Worker] /\ worker[m].pc = "built"
        /\ [worker[m] EXCEPT !.pc = "accepted"].trade = k
        /\ [worker[m] EXCEPT !.pc = "accepted"].pc = "accepted"
    BY WorkerValues DEF EnvInv, EnvTypeOK, SubmitCandidate
  <2>5. /\ worker'[m].trade = k /\ worker'[m].pc = "accepted"
        /\ \A n \in Matchers \ {m} : worker'[n] = worker[n]
    BY <1>2, <2>4 DEF SubmitCandidate
  <2>6. Entitled(m)
    BY <2>2, <2>5 DEF Entitled
  <2>7. \A c : c # k => Steady(c)
    BY <2>1, ReplaceIsSteady
  <2>8. \A n \in Matchers \ {m} : Constructing(n) => Steady(worker[n].trade)
    BY <2>4, <2>7 DEF CurrentInv, OneConstructor, Constructing
  <2>. QED
    BY <2>3, <2>5, <2>6, <2>7, <2>8, CallKeepsCurrent DEF SubmitCandidate
<1>. QED
  BY <1>1, <1>2

\* A worker gives up what it holds, and nobody else is building that.
LEMMA GiveUpKeepsCurrent ==
  ASSUME EnvInv, CurrentInv, NEW m \in Matchers, GiveUp(m)
  PROVE  CurrentInv'
<1>. DEFINE k == worker[m].trade
<1>1. /\ worker' = [worker EXCEPT ![m] = Idle] /\ UNCHANGED <<chain, carries>>
      /\ Constructing(m)
  BY DEF GiveUp, Constructing
<1>2. Store!At(k, Held)
  BY <1>1 DEF CurrentInv, ConstructorsHoldTheState, NextAt
<1>3. \A c : c # k => Steady(c)
  BY FailReplaces, ReplaceIsSteady DEF GiveUp
<1>4. ~Launched(k)
  BY <1>2 DEF CurrentInv, LaunchedAreWaitedFor, Store!At, Held, Waiting, NextAt
<1>5. worker \in [Matchers -> Worker]
  BY DEF EnvInv, EnvTypeOK
<1>6. worker'[m] = Idle /\ \A n \in Matchers \ {m} : worker'[n] = worker[n]
  BY <1>1, <1>5
<1>7. Entitled(m)
  BY <1>6, WorkerValues DEF Entitled
<1>8. \A n \in Matchers \ {m} : Constructing(n) => Steady(worker[n].trade)
  BY <1>1, <1>3 DEF CurrentInv, OneConstructor, Constructing
<1>. QED
  BY <1>1, <1>3, <1>4, <1>6, <1>7, <1>8, CallKeepsCurrent

\* A current failure hits no trade that is being built or that may settle.
LEMMA FailureKeepsCurrent ==
  ASSUME EnvInv, TrackingInv, CurrentInv, NEW k \in Commitments,
         NEW reason \in Store!FailureReason, FailureIsCurrent(k, reason),
         Store!Fail(k, reason), UNCHANGED env
  PROVE  CurrentInv'
<1>1. ASSUME NEW n \in Matchers, Constructing(n)
      PROVE  Steady(worker[n].trade)
  <2>1. CASE worker[n].trade # k
    BY <2>1, FailReplaces, ReplaceIsSteady
  <2>2. CASE worker[n].trade = k /\ records' = records
    BY <2>2 DEF Steady, Store!At, NextAt
  <2>3. CASE worker[n].trade = k /\ Store!At(k, Store!Failable)
    <3>1. Store!At(k, {"SETTLEMENT_CONSTRUCTED"})
      BY <1>1, <2>3 DEF CurrentInv, ConstructorsHoldTheState, Held, Store!At,
                        Store!Failable, NextAt
    <3>. QED
      BY <1>1, <2>3, <3>1 DEF FailureIsCurrent, Constructing, Store!At
  <2>. QED
    BY <2>1, <2>2, <2>3, FailReplaces
<1>2. ASSUME NEW c, Launched(c)
      PROVE  Steady(c)
  <2>1. CASE c # k
    BY <2>1, FailReplaces, ReplaceIsSteady
  <2>2. CASE records' = records
    BY <2>2 DEF Steady, Store!At, NextAt
  <2>3. CASE c = k /\ Store!At(k, Store!Failable)
    <3>1. Store!At(k, {"SUBMITTED"})
      BY <1>2, <2>3 DEF CurrentInv, LaunchedAreWaitedFor, Waiting, Store!At,
                        Store!Failable, NextAt
    <3>2. chain[records[k].prior_txid] \in {"built", "mempool", "mined"}
      BY <1>2, <2>3 DEF Launched, TrackingInv, LiveTransactionsAreTracked,
                        AcceptedAreTracked
    <3>. QED
      BY <3>1, <3>2 DEF FailureIsCurrent, Store!At
  <2>. QED
    BY <2>1, <2>2, <2>3, FailReplaces
<1>. QED
  BY <1>1, <1>2, CallKeepsCurrent DEF env

\* What becomes of transactions: what is sent out was accepted before.
LEMMA TransactionsKeepCurrent ==
  ASSUME EnvInv, CurrentInv,
         \/ \E m \in Matchers : Build(m) \/ Broadcast(m)
         \/ \E t \in TxIds : Mine(t) \/ Die(t)
         \/ Tick
  PROVE  CurrentInv'
<1>1. /\ chain \in [TxIds -> TxStatus] /\ carries \in [TxIds -> Commitments \cup {None}]
      /\ worker \in [Matchers -> Worker] /\ records' = records
  BY DEF EnvInv, EnvTypeOK, Build, Broadcast, Mine, Die, Tick, store
<1>2. ASSUME \A n \in Matchers : Constructing(n)' =>
                Constructing(n) /\ worker'[n].trade = worker[n].trade,
             \A k : Launched(k)' => Launched(k)
      PROVE  CurrentInv'
  <2>1. ConstructorsHoldTheState'
    BY <1>1, <1>2 DEF CurrentInv, ConstructorsHoldTheState, Store!At
  <2>2. OneConstructor'
    BY <1>2 DEF CurrentInv, OneConstructor, Constructing
  <2>3. LaunchedAreWaitedFor'
    BY <1>1, <1>2 DEF CurrentInv, LaunchedAreWaitedFor, Store!At
  <2>. QED
    BY <2>1, <2>2, <2>3 DEF CurrentInv
<1>3. ASSUME NEW m \in Matchers, Build(m)
      PROVE  CurrentInv'
  <2>1. PICK t \in TxIds :
           /\ worker[m].pc = "building"
           /\ chain[t] = "unused"
           /\ chain' = [chain EXCEPT ![t] = "built"]
           /\ carries' = [carries EXCEPT ![t] = worker[m].trade]
           /\ worker' = [worker EXCEPT ![m].pc = "built", ![m].now = clock, ![m].txid = t]
    BY <1>3 DEF Build
  <2>2. /\ worker'[m].pc = "built" /\ worker'[m].trade = worker[m].trade
        /\ \A n \in Matchers \ {m} : worker'[n] = worker[n]
    BY <1>1, <2>1 DEF Worker
  <2>3. \A u \in TxIds \ {t} : chain'[u] = chain[u] /\ carries'[u] = carries[u]
    BY <1>1, <2>1
  <2>4. chain'[t] = "built"
    BY <1>1, <2>1
  <2>5. \A n \in Matchers : worker[n].pc = "accepted" => worker[n].txid \in TxIds \ {t}
    BY <2>1 DEF EnvInv
  <2>6. \A n \in Matchers : Constructing(n)' =>
           Constructing(n) /\ worker'[n].trade = worker[n].trade
    BY <2>1, <2>2 DEF Constructing
  <2>7. ASSUME NEW k, Launched(k)'
        PROVE  Launched(k)
    <3>1. CASE \E u \in TxIds : chain'[u] \in {"mempool", "mined"} /\ carries'[u] = k
      BY <2>3, <2>4, <3>1 DEF Launched
    <3>2. CASE \E n \in Matchers : /\ worker'[n].pc = "accepted" /\ worker'[n].trade = k
                                  /\ chain'[worker'[n].txid] = "built"
      <4>1. PICK n \in Matchers : /\ worker'[n].pc = "accepted" /\ worker'[n].trade = k
                                 /\ chain'[worker'[n].txid] = "built"
        BY <3>2
      <4>2. worker'[n] = worker[n]
        BY <2>2, <4>1
      <4>3. chain[worker[n].txid] = "built"
        BY <2>3, <2>5, <4>1, <4>2
      <4>. QED
        BY <4>1, <4>2, <4>3 DEF Launched
    <3>. QED
      BY <2>7, <3>1, <3>2 DEF Launched
  <2>. QED
    BY <1>2, <2>6, <2>7
<1>4. ASSUME NEW m \in Matchers, Broadcast(m)
      PROVE  CurrentInv'
  <2>. DEFINE t == worker[m].txid
  <2>1. /\ worker[m].pc = "accepted"
        /\ chain' = [chain EXCEPT ![t] = IF @ = "built" THEN "mempool" ELSE @]
        /\ worker' = [worker EXCEPT ![m] = Idle]
        /\ carries' = carries
    BY <1>4 DEF Broadcast
  <2>2. t \in TxIds /\ carries[t] = worker[m].trade
    BY <2>1 DEF EnvInv
  <2>3. /\ worker'[m].pc = "idle"
        /\ \A n \in Matchers \ {m} : worker'[n] = worker[n]
    BY <1>1, <2>1, WorkerValues
  <2>4. \A u \in TxIds \ {t} : chain'[u] = chain[u]
    BY <1>1, <2>1
  <2>5. chain'[t] = IF chain[t] = "built" THEN "mempool" ELSE chain[t]
    BY <1>1, <2>1, <2>2
  <2>6. \A n \in Matchers : Constructing(n)' =>
           Constructing(n) /\ worker'[n].trade = worker[n].trade
    BY <2>3 DEF Constructing
  <2>7. \A n \in Matchers : worker[n].pc = "accepted" => worker[n].txid \in TxIds
    BY DEF EnvInv
  <2>8. ASSUME NEW k, Launched(k)'
        PROVE  Launched(k)
    <3>1. ASSUME NEW u \in TxIds, chain'[u] \in {"mempool", "mined"}, carries[u] = k
          PROVE  Launched(k)
      <4>1. CASE chain[u] \in {"mempool", "mined"}
        BY <3>1, <4>1 DEF Launched
      <4>2. CASE chain[u] \notin {"mempool", "mined"}
        <5>1. u = t /\ chain[t] = "built"
          BY <2>4, <2>5, <3>1, <4>2
        <5>. QED
          BY <2>1, <2>2, <3>1, <5>1 DEF Launched
      <4>. QED
        BY <4>1, <4>2
    <3>2. ASSUME NEW n \in Matchers, worker'[n].pc = "accepted", worker'[n].trade = k,
                 chain'[worker'[n].txid] = "built"
          PROVE  Launched(k)
      <4>1. worker'[n] = worker[n]
        BY <2>3, <3>2
      <4>2. chain[worker[n].txid] = "built"
        BY <2>4, <2>5, <2>7, <3>2, <4>1
      <4>. QED
        BY <3>2, <4>1, <4>2 DEF Launched
    <3>. QED
      BY <2>1, <2>8, <3>1, <3>2 DEF Launched
  <2>. QED
    BY <1>2, <2>6, <2>8
<1>5. ASSUME NEW t \in TxIds, Mine(t) \/ Die(t)
      PROVE  CurrentInv'
  <2>1. worker' = worker /\ carries' = carries
    BY <1>5 DEF Mine, Die
  <2>2. /\ \A u \in TxIds \ {t} : chain'[u] = chain[u]
        /\ chain'[t] = "dead" \/ (chain'[t] = "mined" /\ chain[t] = "mempool")
    BY <1>1, <1>5 DEF Mine, Die
  <2>3. \A n \in Matchers : worker[n].pc = "accepted" => worker[n].txid \in TxIds
    BY DEF EnvInv
  <2>4. ASSUME NEW k, Launched(k)'
        PROVE  Launched(k)
    BY <2>1, <2>2, <2>3, <2>4 DEF Launched
  <2>5. \A n \in Matchers : Constructing(n)' =>
           Constructing(n) /\ worker'[n].trade = worker[n].trade
    BY <2>1 DEF Constructing
  <2>. QED
    BY <1>2, <2>4, <2>5
<1>6. CASE Tick
  <2>1. UNCHANGED <<worker, chain, carries>>
    BY <1>6 DEF Tick
  <2>2. \A k : Launched(k)' => Launched(k)
    BY <2>1 DEF Launched
  <2>3. \A n \in Matchers : Constructing(n)' =>
           Constructing(n) /\ worker'[n].trade = worker[n].trade
    BY <2>1 DEF Constructing
  <2>. QED
    BY <1>2, <2>2, <2>3
<1>. QED
  BY <1>3, <1>4, <1>5, <1>6

\* Every step keeps it when failures are current.
LEMMA NextKeepsCurrent ==
  ASSUME ~LateFailures, EnvInv, StoreInv, TrackingInv, CurrentInv, [Next]_vars
  PROVE  CurrentInv'
<1>1. worker \in [Matchers -> Worker]
  BY DEF EnvInv, EnvTypeOK
<1>2. ASSUME \A k : Steady(k), UNCHANGED <<chain, carries>>, NEW m \in Matchers,
             worker' = [worker EXCEPT ![m] = Idle]
      PROVE  CurrentInv'
  <2>1. \A n \in Matchers : worker'[n] = worker[n] \/ worker'[n].pc \in {"idle", "ready"}
    BY <1>1, <1>2, WorkerValues
  <2>. QED
    BY <1>2, <2>1, RestingKeepsCurrent
<1>3. ASSUME records' = records
      PROVE  \A k : Steady(k)
  BY <1>3 DEF Steady, NextAt, Store!At
<1>4. ASSUME NEW m \in Matchers, WorkerStep(m)
      PROVE  CurrentInv'
  <2>1. CASE \E k \in Commitments : ReadClock(m, k)
    <3>1. PICK k \in Commitments : ReadClock(m, k)
      BY <2>1
    <3>. DEFINE w == [pc |-> "ready", trade |-> k, now |-> clock, txid |-> None]
    <3>2. /\ worker' = [worker EXCEPT ![m] = w] /\ w.pc \in {"idle", "ready"}
          /\ UNCHANGED <<chain, carries>> /\ records' = records
      BY <3>1 DEF ReadClock, store
    <3>. HIDE DEF w
    <3>3. \A n \in Matchers :
             worker'[n] = worker[n] \/ worker'[n].pc \in {"idle", "ready"}
      BY <1>1, <3>2
    <3>. QED
      BY <1>3, <3>2, <3>3, RestingKeepsCurrent
  <2>2. CASE VerifyTrade(m) \/ SweepTrade(m) \/ RetryTrade(m)
    <3>1. \A k : Steady(k)
      BY <2>2, CallsAreSteady DEF VerifyTrade, SweepTrade, RetryTrade, CallAndRest
    <3>. QED
      BY <1>2, <2>2, <3>1 DEF VerifyTrade, SweepTrade, RetryTrade, CallAndRest
  <2>3. CASE Crash(m)
    BY <1>2, <1>3, <2>3 DEF Crash, store
  <2>. QED
    BY <1>4, <2>1, <2>2, <2>3, AcquireKeepsCurrent, SubmitKeepsCurrent,
       GiveUpKeepsCurrent, TransactionsKeepCurrent DEF WorkerStep
<1>5. ASSUME NEW k \in Commitments, (\E expiry \in Instants : OpenTrade(k, expiry))
                                      \/ ConsumeTrade(k)
      PROVE  CurrentInv'
  <2>1. \A c : Steady(c)
    BY <1>5, CallsAreSteady DEF OpenTrade, ConsumeTrade
  <2>. QED
    BY <1>5, <2>1, RestingKeepsCurrent DEF OpenTrade, ConsumeTrade, env
<1>6. ASSUME NEW k \in Commitments, NEW reason \in Store!FailureReason,
             ReportFailure(k, reason)
      PROVE  CurrentInv'
  BY <1>6, FailureKeepsCurrent DEF ReportFailure
<1>7. ASSUME NEW t \in TxIds, ReportMined(t)
      PROVE  CurrentInv'
  <2>1. \A c : Steady(c)
    BY <1>7, CallsAreSteady DEF ReportMined
  <2>. QED
    BY <1>7, <2>1, RestingKeepsCurrent DEF ReportMined, env
<1>8. CASE UNCHANGED vars
  BY <1>3, <1>8, RestingKeepsCurrent DEF vars
<1>. QED
  BY <1>4, <1>5, <1>6, <1>7, <1>8, TransactionsKeepCurrent DEF Next

\* In the beginning nobody builds and nothing is launched.
LEMMA InitCurrent == Init => CurrentInv
  BY WorkerValues
     DEF Init, CurrentInv, ConstructorsHoldTheState, OneConstructor,
         LaunchedAreWaitedFor, Launched, Constructing

\* The invariant of settlement under current failures.
LEMMA CurrentInvariant ==
  ASSUME ~LateFailures
  PROVE  Spec => []CurrentInv
  BY InitCurrent, NextKeepsCurrent, EnvInvariant, StoreInvHolds, TrackingInvariant, PTL
     DEF Spec

\* The compare-and-set of acquire_construction is a lock as long as failures
\* are reported while they are true: however many workers race, crash and hold
\* stale readings, no two build for one trade.
THEOREM ConstructorsAreExclusive ==
  ASSUME ~LateFailures
  PROVE  Spec => []OneConstructor
  BY CurrentInvariant, PTL DEF CurrentInv

\* And then no settlement is stranded: the record of a mined transaction still
\* waits for its confirmation or has it, whatever expired or failed meanwhile.
THEOREM NoneStranded ==
  ASSUME ~LateFailures
  PROVE  Spec => []MinedTradesAreNotStranded
<1>1. CurrentInv => MinedTradesAreNotStranded
  BY DEF CurrentInv, LaunchedAreWaitedFor, Launched, Waiting, MinedTradesAreNotStranded
<1>. QED
  BY <1>1, CurrentInvariant, PTL

=============================================================================
