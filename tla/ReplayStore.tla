----------------------------- MODULE ReplayStore -----------------------------
(***************************************************************************)
(* The matcher-side replay store of src/crates/protocol/src/replay.rs: one *)
(* lifecycle record per trade commitment, and the nine calls that move it. *)
(*                                                                         *)
(* A call runs to completion under &mut self, so it is one action. Callers *)
(* read the clock before they call, so the times of successive calls are   *)
(* unrelated: every call takes any instant. Refused calls are steps too:   *)
(* they set the reply, and a call refused with ExpiredTrade also moves the *)
(* record to EXPIRED.                                                      *)
(***************************************************************************)
EXTENDS Naturals

CONSTANTS
    Commitments,    \* trade commitments (keys of the store)
    TxIds,          \* settlement transaction identifiers
    Instants,       \* Unix seconds: clock readings and committed expiries
    MaxRetries,     \* with_max_retries
    None            \* Rust's None, for both optional fields

FailureReason ==
    {"VerificationRejected", "ConstructionFailed", "SubmissionFailed",
     "ConfirmationFailed"}

ASSUME ReplayStoreAssumption ==
    /\ Instants \subseteq Nat
    /\ MaxRetries \in Nat
    /\ None \notin TxIds
    /\ None \notin FailureReason

VARIABLES
    records,        \* BTreeMap<TradeCommitment, TradeRecord>
    reply,          \* Ok or the error of the last call
    verified,       \* history: verify calls accepted, per commitment
    submitted,      \* history: submit calls accepted, per commitment
    confirmed       \* history: confirm calls accepted, per commitment

history == <<verified, submitted, confirmed>>
vars == <<records, reply, verified, submitted, confirmed>>

TradeLifecycleState ==
    {"CREATED", "VERIFIED", "SETTLEMENT_CONSTRUCTED", "SUBMITTED",
     "CONFIRMED", "CONSUMED", "EXPIRED", "FAILED"}

\* The stored intent is represented by the one field the store reads, its
\* committed expiry; the commitment field is the record's key.
TradeRecord ==
    [expiry : Instants,
     state : TradeLifecycleState,
     failure_reason : FailureReason \cup {None},
     prior_txid : TxIds \cup {None},
     retry_count : 0..MaxRetries]

Result ==
    {"Ok", "UnknownTrade", "AlreadyConsumed", "InvalidStateTransition",
     "ExpiredTrade", "RetryBudgetExhausted", "UnreconciledPriorSubmission"}

-----------------------------------------------------------------------------
(* What the calls share.                                                   *)

At(k, from) == k \in DOMAIN records /\ records[k].state \in from

IsExpiredAtTheSecond(k, now) == now >= records[k].expiry   \* mutated IsExpiredAt

\* Strictly after the committed second: the expiry second is still usable.
IsExpiredAt(k, now) == now > records[k].expiry

\* record_mut, deny_consumed and reject, in that order.
Refusal(k) ==
    IF k \notin DOMAIN records THEN "UnknownTrade"
    ELSE IF records[k].state = "CONSUMED" THEN "AlreadyConsumed"
    ELSE "InvalidStateTransition"

Refuse(error) == reply' = error /\ UNCHANGED <<records, history>>

RefuseUnlessAt(k, from) == ~At(k, from) /\ Refuse(Refusal(k))

ElapseForgettingTxid(k, from, now) ==    \* mutated form of ExpireIfElapsed
    /\ At(k, from)
    /\ IsExpiredAt(k, now)
    /\ records' = [records EXCEPT ![k].state = "EXPIRED", ![k].prior_txid = None]
    /\ reply' = "ExpiredTrade"
    /\ UNCHANGED history

\* The single expiry gate: the error comes with a change of state.
ExpireIfElapsed(k, from, now) ==
    /\ At(k, from)
    /\ IsExpiredAt(k, now)
    /\ records' = [records EXCEPT ![k].state = "EXPIRED"]
    /\ reply' = "ExpiredTrade"
    /\ UNCHANGED history

\* The gate lets the call through.
Live(k, from, now) == At(k, from) /\ ~IsExpiredAt(k, now)

Accept(k, record) ==
    /\ records' = [records EXCEPT ![k] = record]
    /\ reply' = "Ok"

-----------------------------------------------------------------------------
(* The calls.                                                              *)

NewRecord(expiry) ==
    [expiry |-> expiry, state |-> "CREATED", failure_reason |-> None,
     prior_txid |-> None, retry_count |-> 0]

\* The expiry is not looked at: an expired trade is created like any other.
Create(k, expiry) ==
    \/ k \in DOMAIN records /\ Refuse(Refusal(k))
    \/ /\ k \notin DOMAIN records
       /\ records' = [c \in DOMAIN records \cup {k} |->
                        IF c = k THEN NewRecord(expiry) ELSE records[c]]
       /\ reply' = "Ok"
       /\ UNCHANGED history

Verify(k, now) ==
    \/ RefuseUnlessAt(k, {"CREATED"})
    \/ ExpireIfElapsed(k, {"CREATED"}, now)
    \/ /\ Live(k, {"CREATED"}, now)
       /\ Accept(k, [records[k] EXCEPT !.state = "VERIFIED",
                                       !.failure_reason = None])
       /\ verified' = [verified EXCEPT ![k] = @ + 1]
       /\ UNCHANGED <<submitted, confirmed>>

AcquirableAgain ==              \* mutated form of Acquirable
    {"VERIFIED", "SETTLEMENT_CONSTRUCTED"}

\* What makes the call a compare-and-set lock.
Acquirable == {"VERIFIED"}

AcquireConstruction(k, now) ==
    \/ RefuseUnlessAt(k, Acquirable)
    \/ ExpireIfElapsed(k, Acquirable, now)
    \/ /\ Live(k, Acquirable, now)
       /\ Accept(k, [records[k] EXCEPT !.state = "SETTLEMENT_CONSTRUCTED"])
       /\ UNCHANGED history

SubmitUngated(k, txid, now) ==  \* mutated form of Submit
    \/ RefuseUnlessAt(k, {"SETTLEMENT_CONSTRUCTED"})
    \/ /\ At(k, {"SETTLEMENT_CONSTRUCTED"})
       /\ Accept(k, [records[k] EXCEPT !.state = "SUBMITTED",
                                       !.prior_txid = txid])
       /\ submitted' = [submitted EXCEPT ![k] = @ + 1]
       /\ UNCHANGED <<verified, confirmed>>

Submit(k, txid, now) ==
    \/ RefuseUnlessAt(k, {"SETTLEMENT_CONSTRUCTED"})
    \/ ExpireIfElapsed(k, {"SETTLEMENT_CONSTRUCTED"}, now)
    \/ /\ Live(k, {"SETTLEMENT_CONSTRUCTED"}, now)
       /\ Accept(k, [records[k] EXCEPT !.state = "SUBMITTED",
                                       !.prior_txid = txid])
       /\ submitted' = [submitted EXCEPT ![k] = @ + 1]
       /\ UNCHANGED <<verified, confirmed>>

\* No time and no txid: the caller's word is taken for both.
Confirm(k) ==
    \/ RefuseUnlessAt(k, {"SUBMITTED"})
    \/ /\ At(k, {"SUBMITTED"})
       /\ Accept(k, [records[k] EXCEPT !.state = "CONFIRMED"])
       /\ confirmed' = [confirmed EXCEPT ![k] = @ + 1]
       /\ UNCHANGED <<verified, submitted>>

Consume(k) ==
    \/ RefuseUnlessAt(k, {"CONFIRMED"})
    \/ /\ At(k, {"CONFIRMED"})
       /\ Accept(k, [records[k] EXCEPT !.state = "CONSUMED"])
       /\ UNCHANGED history

FailableAlsoConfirmed ==        \* mutated form of Failable
    {"CREATED", "VERIFIED", "SETTLEMENT_CONSTRUCTED", "SUBMITTED", "CONFIRMED"}

Failable == {"CREATED", "VERIFIED", "SETTLEMENT_CONSTRUCTED", "SUBMITTED"}

TxidForgotten(record) == None   \* mutated form of TxidAfterFailure

\* Only a submission leaves a txid to reconcile.
TxidAfterFailure(record) ==
    IF record.state = "SUBMITTED" THEN record.prior_txid ELSE None

Fail(k, reason) ==
    \/ RefuseUnlessAt(k, Failable)
    \/ /\ At(k, Failable)
       /\ Accept(k, [records[k] EXCEPT
                       !.prior_txid = TxidAfterFailure(records[k]),
                       !.state = "FAILED",
                       !.failure_reason = reason])
       /\ UNCHANGED history

ExpirableAlsoSubmitted ==       \* mutated form of Expirable
    {"CREATED", "VERIFIED", "SETTLEMENT_CONSTRUCTED", "SUBMITTED", "FAILED"}

ExpirableNotFailed ==           \* mutated form of Expirable
    {"CREATED", "VERIFIED", "SETTLEMENT_CONSTRUCTED"}

Expirable == {"CREATED", "VERIFIED", "SETTLEMENT_CONSTRUCTED", "FAILED"}

\* The explicit sweep; unlike the gate, it is refused before the expiry.
Expire(k, now) ==
    \/ RefuseUnlessAt(k, Expirable)
    \/ Live(k, Expirable, now) /\ Refuse("InvalidStateTransition")
    \/ /\ At(k, Expirable)
       /\ IsExpiredAt(k, now)
       /\ Accept(k, [records[k] EXCEPT !.state = "EXPIRED"])
       /\ UNCHANGED history

RetriedKeepingTxid(record) ==   \* mutated form of Retried
    [record EXCEPT !.state = "CREATED", !.failure_reason = None,
                   !.retry_count = @ + 1]

RetriedAsVerified(record) ==    \* mutated form of Retried
    [record EXCEPT !.state = "VERIFIED", !.failure_reason = None,
                   !.prior_txid = None, !.retry_count = @ + 1]

\* The record a controlled retry leaves: nothing of the attempt but its count.
Retried(record) ==
    [record EXCEPT !.state = "CREATED", !.failure_reason = None,
                   !.prior_txid = None, !.retry_count = @ + 1]

SpentPastBudget(record) == record.retry_count > MaxRetries  \* mutated BudgetSpent

BudgetSpent(record) == record.retry_count >= MaxRetries

AnyAcknowledgement(record, acknowledged) == TRUE   \* mutated form of Acknowledges

\* Exact: None acknowledges only that nothing was submitted.
Acknowledges(record, acknowledged) == record.prior_txid = acknowledged

RetryableAlsoExpired == {"FAILED", "EXPIRED"}   \* mutated form of Retryable

Retryable == {"FAILED"}

RetryAfterFailure(k, acknowledged, now) ==
    \/ RefuseUnlessAt(k, Retryable)
    \/ ExpireIfElapsed(k, Retryable, now)
    \/ /\ Live(k, Retryable, now)
       /\ BudgetSpent(records[k])
       /\ Refuse("RetryBudgetExhausted")
    \/ /\ Live(k, Retryable, now)
       /\ ~BudgetSpent(records[k])
       /\ ~Acknowledges(records[k], acknowledged)
       /\ Refuse("UnreconciledPriorSubmission")
    \/ /\ Live(k, Retryable, now)
       /\ ~BudgetSpent(records[k])
       /\ Acknowledges(records[k], acknowledged)
       /\ Accept(k, Retried(records[k]))
       /\ UNCHANGED history

-----------------------------------------------------------------------------
Init ==
    /\ records = [k \in {} |-> NewRecord(0)]
    /\ reply = "Ok"
    /\ verified = [k \in Commitments |-> 0]
    /\ submitted = [k \in Commitments |-> 0]
    /\ confirmed = [k \in Commitments |-> 0]

Next ==
    \E k \in Commitments :
        \/ \E expiry \in Instants : Create(k, expiry)
        \/ \E now \in Instants : Verify(k, now)
        \/ \E now \in Instants : AcquireConstruction(k, now)
        \/ \E txid \in TxIds, now \in Instants : Submit(k, txid, now)
        \/ Confirm(k)
        \/ Consume(k)
        \/ \E reason \in FailureReason : Fail(k, reason)
        \/ \E now \in Instants : Expire(k, now)
        \/ \E acknowledged \in TxIds \cup {None}, now \in Instants :
              RetryAfterFailure(k, acknowledged, now)

Spec == Init /\ [][Next]_vars

-----------------------------------------------------------------------------
(* Properties.                                                             *)

\* Every record is well formed; in particular no sequence of failures and
\* retries takes the u32 retry_count past the configured bound (replay.rs,
\* the RetryBudgetExhausted check before the increment).
TypeOK ==
    /\ DOMAIN records \subseteq Commitments
    /\ records \in [DOMAIN records -> TradeRecord]
    /\ reply \in Result
    /\ verified \in [Commitments -> Nat]
    /\ submitted \in [Commitments -> Nat]
    /\ confirmed \in [Commitments -> Nat]

\* The optional fields always agree with the state. A submitted, confirmed or
\* consumed record names its txid; one that has not been submitted in the
\* current attempt names none (FAILED and EXPIRED may do either). A failed
\* record has a reason, and only a failed or expired one may have one. An
\* expired record that still names a txid also says why that transaction was
\* given up. (So the resets in verify and in fail are never the ones that
\* clear anything.)
BookkeepingMatchesState ==
    \A k \in DOMAIN records :
        LET r == records[k] IN
        /\ r.state \in {"SUBMITTED", "CONFIRMED", "CONSUMED"} => r.prior_txid # None
        /\ r.state \in {"CREATED", "VERIFIED", "SETTLEMENT_CONSTRUCTED"} =>
              r.prior_txid = None
        /\ r.state = "FAILED" => r.failure_reason # None
        /\ r.state \notin {"FAILED", "EXPIRED"} => r.failure_reason = None
        /\ r.state = "EXPIRED" /\ r.prior_txid # None => r.failure_reason # None

\* Over the whole life of a commitment, every submission was preceded by a
\* verification of its own, and there are at most as many of either as there
\* were attempts: the first one and one per controlled retry.
AttemptsWithinBudget ==
    \A k \in DOMAIN records :
        /\ submitted[k] <= verified[k]
        /\ verified[k] <= records[k].retry_count + 1

\* A trade is confirmed at most once, whatever calls are repeated or arrive
\* late, and the record says so from then on: CONSUMED is reached through
\* exactly one confirmation and a confirmed trade never fails or expires.
ConfirmedAtMostOnce ==
    \A k \in Commitments :
        confirmed[k] = IF At(k, {"CONFIRMED", "CONSUMED"}) THEN 1 ELSE 0

\* A refused call leaves every record as it was, except that ExpiredTrade
\* moves records to EXPIRED and touches no other field of them: in particular
\* the evidence of an unreconciled submission survives the expiry gate.
RefusalsLeaveRecordsAlone ==
    [][/\ records' # records => reply' \in {"Ok", "ExpiredTrade"}
       /\ reply' = "ExpiredTrade" =>
            /\ DOMAIN records' = DOMAIN records
            /\ \A k \in DOMAIN records :
                 records'[k] \in {records[k], [records[k] EXCEPT !.state = "EXPIRED"]}
      ]_vars

\* CONSUMED and EXPIRED records are final: no later call of any kind, with
\* whatever clock reading (an earlier one included), changes or replaces them.
TerminalRecordsAreFinal ==
    [][\A k \in DOMAIN records :
         records[k].state \in {"CONSUMED", "EXPIRED"} =>
            k \in DOMAIN records' /\ records'[k] = records[k]]_vars

\* A recorded txid is forgotten only by a retry that names exactly it, on a
\* failed record; no failure, expiry or resubmission drops or replaces it.
TxidForgottenOnlyByAcknowledgement ==
    [][\A k \in DOMAIN records :
         LET txid == records[k].prior_txid IN
         txid # None /\ records'[k].prior_txid # txid =>
            /\ records[k].state = "FAILED"
            /\ \E now \in Instants : RetryAfterFailure(k, txid, now)]_vars

\* What the accessor's comment says of failure_reason, "Reason for the current
\* or last `FAILED` state, if any" (replay.rs:79): a record that has failed
\* once has a last FAILED state, so the field is never empty again. A retry
\* empties it.
LastFailureStaysRecorded ==
    [][\A k \in DOMAIN records :
         records[k].failure_reason # None => records'[k].failure_reason # None]_vars

-----------------------------------------------------------------------------
(* The store keeps the promise of SettlementPromise.                       *)

\* The phase a record stands for; a commitment without a record is idle.
PhaseOf(record) ==
    CASE record.state = "SUBMITTED" -> "inFlight"
      [] record.state \in {"CONFIRMED", "CONSUMED"} -> "settled"
      [] record.state = "EXPIRED" -> "closed"
      [] record.state = "FAILED" /\ record.prior_txid # None -> "abandoned"
      [] OTHER -> "idle"

Phase(k) == IF k \in DOMAIN records THEN PhaseOf(records[k]) ELSE "idle"

Promise == INSTANCE SettlementPromise WITH
    phase <- [k \in Commitments |-> Phase(k)],
    launches <- submitted

\* Every behaviour of the store is, seen through Phase, a behaviour of the
\* abstract promise: one launch at a time, a bounded number of them, none
\* after settlement or closure, and no closing over a transaction in flight.
KeepsPromise == Promise!Spec

=============================================================================
