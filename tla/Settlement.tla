------------------------------ MODULE Settlement ------------------------------
(***************************************************************************)
(* The replay store of ReplayStore in use: matcher workers that share it,  *)
(* the clock they read before they call, the chain their transactions go   *)
(* to, and the watchers that report what became of them.                   *)
(*                                                                         *)
(* Of all this only the store is in the repository. The rest is the most   *)
(* general environment that keeps the obligations the store's comments and *)
(* docs/architecture.md section 17 put on callers: a transaction is sent   *)
(* out only after submit accepted it, confirm is called only for a mined   *)
(* transaction, and a prior txid is acknowledged only once that transaction*)
(* can no longer be mined. Workers run concurrently, crash between any two *)
(* steps and call with the reading they took earlier; reports are late and *)
(* repeated.                                                               *)
(***************************************************************************)
EXTENDS Naturals

CONSTANTS
    Commitments, TxIds, MaxRetries, None,   \* as in ReplayStore
    Matchers,       \* worker processes sharing the store
    MaxTime,        \* bound of the clock
    MaxStaleness,   \* how far the clock moves while a worker holds a reading
    LateFailures    \* may fail be called on a decision that is out of date?

VARIABLES
    records, reply, verified, submitted, confirmed,     \* of the store
    clock,          \* real time
    worker,         \* what each matcher worker is doing
    chain,          \* what became of each transaction
    carries         \* the trade each transaction settles

store == <<records, reply, verified, submitted, confirmed>>
env == <<clock, worker, chain, carries>>
vars == <<records, reply, verified, submitted, confirmed, clock, worker, chain, carries>>

Instants == 0..MaxTime

Store == INSTANCE ReplayStore

ASSUME SettlementAssumption ==
    /\ MaxRetries \in Nat
    /\ None \notin TxIds \cup Store!FailureReason
    /\ MaxTime \in Nat
    /\ MaxStaleness \in Nat
    /\ LateFailures \in BOOLEAN

Idle == [pc |-> "idle", trade |-> None, now |-> 0, txid |-> None]

Worker ==
    [pc : {"idle", "ready", "building", "built", "accepted"},
     trade : Commitments \cup {None}, now : Instants, txid : TxIds \cup {None}]

TxStatus == {"unused", "built", "mempool", "mined", "dead"}

Ok == reply' = "Ok"

-----------------------------------------------------------------------------
(* The workers.                                                            *)

\* A worker turns to a trade and reads the clock for its next call.
ReadClock(m, k) ==
    /\ worker[m].pc = "idle"
    /\ worker' = [worker EXCEPT ![m] =
                    [pc |-> "ready", trade |-> k, now |-> clock, txid |-> None]]
    /\ UNCHANGED <<store, clock, chain, carries>>

\* A call of worker m that asks nothing more of m, whatever the answer.
CallAndRest(m, call) ==
    /\ worker[m].pc = "ready"
    /\ call
    /\ worker' = [worker EXCEPT ![m] = Idle]
    /\ UNCHANGED <<clock, chain, carries>>

VerifyTrade(m) ==
    CallAndRest(m, Store!Verify(worker[m].trade, worker[m].now))

SweepTrade(m) ==
    CallAndRest(m, Store!Expire(worker[m].trade, worker[m].now))

\* The reconciliation obligation: a named txid can no longer be mined.
RetryTrade(m) ==
    \E acknowledged \in {None} \cup {t \in TxIds : chain[t] = "dead"} :
        CallAndRest(m, Store!RetryAfterFailure(worker[m].trade, acknowledged,
                                               worker[m].now))

Acquire(m) ==
    /\ worker[m].pc = "ready"
    /\ Store!AcquireConstruction(worker[m].trade, worker[m].now)
    /\ worker' = [worker EXCEPT ![m] = IF Ok THEN [@ EXCEPT !.pc = "building"] ELSE Idle]
    /\ UNCHANGED <<clock, chain, carries>>

\* The worker builds a candidate and reads the clock to submit it.
Build(m) ==
    /\ worker[m].pc = "building"
    /\ \E t \in TxIds :
        /\ chain[t] = "unused"
        /\ chain' = [chain EXCEPT ![t] = "built"]
        /\ carries' = [carries EXCEPT ![t] = worker[m].trade]
        /\ worker' = [worker EXCEPT ![m].pc = "built", ![m].now = clock, ![m].txid = t]
    /\ UNCHANGED <<store, clock>>

SubmitCandidate(m) ==
    /\ worker[m].pc = "built"
    /\ Store!Submit(worker[m].trade, worker[m].txid, worker[m].now)
    /\ worker' = [worker EXCEPT ![m] = IF Ok THEN [@ EXCEPT !.pc = "accepted"] ELSE Idle]
    /\ UNCHANGED <<clock, chain, carries>>

\* Only an accepted submission is sent out.
Broadcast(m) ==
    /\ worker[m].pc = "accepted"
    /\ chain' = [chain EXCEPT ![worker[m].txid] = IF @ = "built" THEN "mempool" ELSE @]
    /\ worker' = [worker EXCEPT ![m] = Idle]
    /\ UNCHANGED <<store, clock, carries>>

\* The holder of the construction state gives it up.
GiveUp(m) ==
    /\ worker[m].pc \in {"building", "built"}
    /\ Store!Fail(worker[m].trade, "ConstructionFailed")
    /\ worker' = [worker EXCEPT ![m] = Idle]
    /\ UNCHANGED <<clock, chain, carries>>

\* A crash loses what the worker knew, its lock and its candidate included.
Crash(m) ==
    /\ worker[m].pc # "idle"
    /\ worker' = [worker EXCEPT ![m] = Idle]
    /\ UNCHANGED <<store, clock, chain, carries>>

-----------------------------------------------------------------------------
(* The issuer of trades, the watchers, the chain and the clock.            *)

OpenTrade(k, expiry) == Store!Create(k, expiry) /\ UNCHANGED env

\* Reports of a mined transaction are late and repeated; confirm is not told
\* which transaction they are about.
ReportMined(t) ==
    /\ chain[t] = "mined"
    /\ Store!Confirm(carries[t])
    /\ UNCHANGED env

ConsumeTrade(k) == Store!Consume(k) /\ UNCHANGED env

\* The decision to fail the trade still describes it.
FailureIsCurrent(k, reason) ==
    CASE reason = "VerificationRejected" -> Store!At(k, {"CREATED"})
      [] reason = "ConstructionFailed" ->
            /\ Store!At(k, {"VERIFIED", "SETTLEMENT_CONSTRUCTED"})
            /\ \A m \in Matchers : worker[m].trade = k =>
                  worker[m].pc \notin {"building", "built"}
      [] OTHER ->
            Store!At(k, {"SUBMITTED"}) /\ chain[records[k].prior_txid] = "dead"

ReportFailure(k, reason) ==
    /\ LateFailures \/ FailureIsCurrent(k, reason)
    /\ Store!Fail(k, reason)
    /\ UNCHANGED env

Mine(t) ==
    /\ chain[t] = "mempool"
    /\ chain' = [chain EXCEPT ![t] = "mined"]
    /\ UNCHANGED <<store, clock, worker, carries>>

\* The transaction can no longer be mined: it expired or was double spent.
Die(t) ==
    /\ chain[t] \in {"built", "mempool"}
    /\ chain' = [chain EXCEPT ![t] = "dead"]
    /\ UNCHANGED <<store, clock, worker, carries>>

Tick ==
    /\ clock < MaxTime
    /\ \A m \in Matchers :
        worker[m].pc \in {"ready", "built"} => clock - worker[m].now < MaxStaleness
    /\ clock' = clock + 1
    /\ UNCHANGED <<store, worker, chain, carries>>

-----------------------------------------------------------------------------
Init ==
    /\ Store!Init
    /\ clock = 0
    /\ worker = [m \in Matchers |-> Idle]
    /\ chain = [t \in TxIds |-> "unused"]
    /\ carries = [t \in TxIds |-> None]

WorkerStep(m) ==
    \/ \E k \in Commitments : ReadClock(m, k)
    \/ VerifyTrade(m)
    \/ SweepTrade(m)
    \/ RetryTrade(m)
    \/ Acquire(m)
    \/ Build(m)
    \/ SubmitCandidate(m)
    \/ Broadcast(m)
    \/ GiveUp(m)
    \/ Crash(m)

Next ==
    \/ \E m \in Matchers : WorkerStep(m)
    \/ \E k \in Commitments :
        \/ \E expiry \in Instants : OpenTrade(k, expiry)
        \/ ConsumeTrade(k)
        \/ \E reason \in Store!FailureReason : ReportFailure(k, reason)
    \/ \E t \in TxIds : ReportMined(t) \/ Mine(t) \/ Die(t)
    \/ Tick

Spec == Init /\ [][Next]_vars

\* The deployment keeps running: workers act, and sweep again and again among
\* what else they do; every transaction is settled or ruled out; watchers
\* report and the clock advances. Nothing in the store provides this.
Fairness ==
    /\ \A m \in Matchers : WF_vars(WorkerStep(m)) /\ SF_vars(SweepTrade(m))
    /\ \A t \in TxIds : WF_vars(Mine(t) \/ Die(t)) /\ WF_vars(ReportMined(t))
    /\ \A k \in Commitments :
        WF_vars(ConsumeTrade(k)) /\ WF_vars(ReportFailure(k, "SubmissionFailed"))
    /\ WF_vars(Tick)

FairSpec == Spec /\ Fairness

-----------------------------------------------------------------------------
(* Properties.                                                             *)

\* The types of the environment and of the store under it.
SettlementTypeOK ==
    /\ Store!TypeOK
    /\ clock \in Instants
    /\ worker \in [Matchers -> Worker]
    /\ chain \in [TxIds -> TxStatus]
    /\ carries \in [TxIds -> Commitments \cup {None}]

\* One trade commitment settles at most once on the chain, however workers,
\* crashes, retries and late failures interleave: the promise of the replay
\* store (docs/architecture.md section 17).
SettlesAtMostOnce ==
    \A t, u \in TxIds :
        chain[t] = "mined" /\ chain[u] = "mined" /\ carries[t] = carries[u] => t = u

\* Although confirm names no txid and reports are late, a confirmed record
\* names a mined transaction that carries its trade.
ConfirmedMeansMined ==
    \A k \in Commitments :
        Store!At(k, {"CONFIRMED", "CONSUMED"}) =>
            /\ chain[records[k].prior_txid] = "mined"
            /\ carries[records[k].prior_txid] = k

\* Every transaction the network may mine is the one its trade's record names:
\* none is out there unknown to the record.
LiveTransactionsAreTracked ==
    \A t \in TxIds :
        chain[t] \in {"mempool", "mined"} =>
            carries[t] \in DOMAIN records /\ records[carries[t]].prior_txid = t

\* What records and chain owe each other: what may be mined is tracked and what is
\* confirmed was mined, and records stay records under every caller.
SettlementInv ==
    /\ SettlementTypeOK
    /\ ConfirmedMeansMined
    /\ LiveTransactionsAreTracked

\* Time passes between verification, construction and submission; still no
\* submission is accepted later than the staleness of a reading after expiry.
SubmittedInTime ==
    [][\A k \in Commitments :
         submitted'[k] # submitted[k] => clock <= records[k].expiry + MaxStaleness]_vars

\* The expiry second itself is usable and a stale reading only lags: no trade
\* is EXPIRED before its expiry second is over.
ExpiredOnlyAfterExpiry ==
    \A k \in Commitments : Store!At(k, {"EXPIRED"}) => clock > records[k].expiry

\* The compare-and-set of acquire_construction keeps constructors apart as
\* long as failures are current: two workers never build for one trade.
OneConstructor ==
    \A m, n \in Matchers :
        /\ worker[m].pc \in {"building", "built"}
        /\ worker[n].pc \in {"building", "built"}
        /\ worker[m].trade = worker[n].trade
        => m = n

\* As long as failures are current no settlement is stranded: the record of
\* a mined transaction is still waiting for it or has acknowledged it.
MinedTradesAreNotStranded ==
    \A t \in TxIds :
        chain[t] = "mined" =>
            Store!At(carries[t], {"SUBMITTED", "CONFIRMED", "CONSUMED"})

\* What the module comment says of expiry: "it does not invalidate an in-flight
\* transaction" (replay.rs:29-30). No EXPIRED record, which nothing can confirm,
\* names a transaction that is in flight or mined.
ExpirySparesInFlight ==
    \A k \in Commitments :
        Store!At(k, {"EXPIRED"}) /\ records[k].prior_txid # None =>
            chain[records[k].prior_txid] \notin {"mempool", "mined"}

\* A mined settlement is eventually acknowledged for good, expired or not.
MinedIsConsumed ==
    \A t \in TxIds, k \in Commitments :
        chain[t] = "mined" /\ carries[t] = k ~> Store!At(k, {"CONSUMED"})

\* No trade is stuck half way, not even behind the construction state of a
\* worker that crashed: it ends consumed or expired. (An expiry at the bound
\* of the clock never elapses in the model.)
EveryTradeEnds ==
    \A k \in Commitments :
        k \in DOMAIN records /\ records[k].expiry < MaxTime
            ~> Store!At(k, {"CONSUMED", "EXPIRED"})

=============================================================================
