-------------------------- MODULE ReplayStoreProofs --------------------------
(***************************************************************************)
(* Proofs about ReplayStore for every set of commitments, txids and        *)
(* instants and every retry bound: its invariants, its action properties   *)
(* and that it implements SettlementPromise.                               *)
(***************************************************************************)
EXTENDS ReplayStore, TLAPS

(***************************************************************************)
(* The inductive invariant. AttemptsWithinBudget does not survive a step   *)
(* by itself: that a new verification still fits needs that a CREATED      *)
(* record has one attempt unverified, and that a submission fits needs     *)
(* that a record holding the construction lock has one verification        *)
(* unused. CountersMatchState says so.                                     *)
(***************************************************************************)
CountersMatchState ==
    \A k \in Commitments :
        /\ k \notin DOMAIN records => verified[k] = 0 /\ submitted[k] = 0
        /\ k \in DOMAIN records =>
             /\ submitted[k] <= verified[k]
             /\ verified[k] <= records[k].retry_count + 1
             /\ records[k].state = "CREATED" => verified[k] <= records[k].retry_count
             /\ records[k].state \in {"VERIFIED", "SETTLEMENT_CONSTRUCTED"} =>
                  submitted[k] + 1 <= verified[k]

IInv ==
    /\ TypeOK
    /\ BookkeepingMatchesState
    /\ CountersMatchState
    /\ ConfirmedAtMostOnce

-----------------------------------------------------------------------------
(* What a step of each shape does to the invariant.                        *)

\* The empty store satisfies the invariant.
LEMMA InitIInv == Init => IInv
  BY ReplayStoreAssumption
     DEF Init, IInv, TypeOK, BookkeepingMatchesState, CountersMatchState,
         ConfirmedAtMostOnce, At, Result

\* A refusal without a change of state keeps it.
LEMMA RefuseKeepsIInv ==
  ASSUME IInv, NEW error \in Result, Refuse(error)
  PROVE  IInv'
  BY DEF Refuse, history, IInv, TypeOK, BookkeepingMatchesState,
         CountersMatchState, ConfirmedAtMostOnce, At

\* The answer of a refused call is one of the errors.
LEMMA RefusalIsResult ==
  ASSUME NEW k
  PROVE  Refusal(k) \in Result
  BY DEF Refusal, Result

\* A record replaced by a well-formed one, with counters that match it.
LEMMA ReplaceKeepsIInv ==
  ASSUME IInv,
         NEW k \in DOMAIN records,
         NEW r \in TradeRecord,
         records' = [records EXCEPT ![k] = r],
         reply' \in Result,
         verified' \in [Commitments -> Nat],
         submitted' \in [Commitments -> Nat],
         confirmed' \in [Commitments -> Nat],
         \A c \in Commitments \ {k} :
            /\ verified'[c] = verified[c]
            /\ submitted'[c] = submitted[c]
            /\ confirmed'[c] = confirmed[c],
         r.state \in {"SUBMITTED", "CONFIRMED", "CONSUMED"} => r.prior_txid # None,
         r.state \in {"CREATED", "VERIFIED", "SETTLEMENT_CONSTRUCTED"} =>
            r.prior_txid = None,
         r.state = "FAILED" => r.failure_reason # None,
         r.state \notin {"FAILED", "EXPIRED"} => r.failure_reason = None,
         r.state = "EXPIRED" /\ r.prior_txid # None => r.failure_reason # None,
         submitted'[k] <= verified'[k],
         verified'[k] <= r.retry_count + 1,
         r.state = "CREATED" => verified'[k] <= r.retry_count,
         r.state \in {"VERIFIED", "SETTLEMENT_CONSTRUCTED"} =>
            submitted'[k] + 1 <= verified'[k],
         confirmed'[k] = IF r.state \in {"CONFIRMED", "CONSUMED"} THEN 1 ELSE 0
  PROVE  IInv'
<1>1. DOMAIN records' = DOMAIN records /\ k \in Commitments
  BY DEF IInv, TypeOK
<1>2. records'[k] = r /\ \A c \in DOMAIN records \ {k} : records'[c] = records[c]
  BY DEF IInv, TypeOK
<1>3. TypeOK'
  BY <1>1, <1>2 DEF IInv, TypeOK
<1>4. BookkeepingMatchesState'
  BY <1>1, <1>2 DEF IInv, BookkeepingMatchesState
<1>5. CountersMatchState'
  BY <1>1, <1>2 DEF IInv, CountersMatchState
<1>6. ConfirmedAtMostOnce'
  BY <1>1, <1>2 DEF IInv, ConfirmedAtMostOnce, At
<1>. QED
  BY <1>3, <1>4, <1>5, <1>6 DEF IInv

\* The expiry gate keeps it: no gated state holds a txid without a reason.
LEMMA ElapseKeepsIInv ==
  ASSUME IInv, NEW k \in Commitments, NEW from, NEW now,
         from \subseteq {"CREATED", "VERIFIED", "SETTLEMENT_CONSTRUCTED", "FAILED"},
         ExpireIfElapsed(k, from, now)
  PROVE  IInv'
<1>. DEFINE r == [records[k] EXCEPT !.state = "EXPIRED"]
<1>1. /\ k \in DOMAIN records
      /\ records[k] \in TradeRecord
      /\ records[k].state \in from
  BY DEF ExpireIfElapsed, At, IInv, TypeOK
<1>2. /\ r \in TradeRecord
      /\ r.state = "EXPIRED"
      /\ r.prior_txid = records[k].prior_txid
      /\ r.failure_reason = records[k].failure_reason
      /\ r.retry_count = records[k].retry_count
  BY <1>1 DEF TradeRecord, TradeLifecycleState
<1>3. records' = [records EXCEPT ![k] = r]
  BY DEF ExpireIfElapsed
<1>4. /\ reply' \in Result
      /\ verified' = verified /\ submitted' = submitted /\ confirmed' = confirmed
  BY DEF ExpireIfElapsed, history, Result
<1>5. confirmed[k] = 0
  BY <1>1 DEF IInv, ConfirmedAtMostOnce, At
<1>6. /\ r.prior_txid # None => r.failure_reason # None
      /\ submitted[k] <= verified[k]
      /\ verified[k] <= r.retry_count + 1
  BY <1>1, <1>2 DEF IInv, BookkeepingMatchesState, CountersMatchState
<1>. HIDE DEF r
<1>. QED
  BY <1>1, <1>2, <1>3, <1>4, <1>5, <1>6, ReplaceKeepsIInv DEF IInv, TypeOK

-----------------------------------------------------------------------------
(* One lemma per call.                                                     *)

\* create: a new record starts with nothing verified or submitted.
LEMMA CreateKeepsIInv ==
  ASSUME IInv, NEW k \in Commitments, NEW expiry \in Instants, Create(k, expiry)
  PROVE  IInv'
<1>1. CASE k \in DOMAIN records /\ Refuse(Refusal(k))
  BY <1>1, RefusalIsResult, RefuseKeepsIInv
<1>2. CASE /\ k \notin DOMAIN records
           /\ records' = [c \in DOMAIN records \cup {k} |->
                            IF c = k THEN NewRecord(expiry) ELSE records[c]]
           /\ reply' = "Ok"
           /\ UNCHANGED history
  <2>1. /\ DOMAIN records' = DOMAIN records \cup {k}
        /\ records'[k] = NewRecord(expiry)
        /\ \A c \in DOMAIN records : records'[c] = records[c]
    BY <1>2
  <2>2. /\ NewRecord(expiry) \in TradeRecord
        /\ NewRecord(expiry).state = "CREATED"
        /\ NewRecord(expiry).prior_txid = None
        /\ NewRecord(expiry).failure_reason = None
        /\ NewRecord(expiry).retry_count = 0
    BY ReplayStoreAssumption DEF NewRecord, TradeRecord, TradeLifecycleState
  <2>3. TypeOK'
    BY <1>2, <2>1, <2>2 DEF IInv, TypeOK, Result, history
  <2>4. BookkeepingMatchesState'
    BY <2>1, <2>2 DEF IInv, BookkeepingMatchesState
  <2>5. CountersMatchState'
    BY <1>2, <2>1, <2>2 DEF IInv, TypeOK, CountersMatchState, history
  <2>6. ConfirmedAtMostOnce'
    BY <1>2, <2>1, <2>2 DEF IInv, ConfirmedAtMostOnce, At, history
  <2>. QED
    BY <2>3, <2>4, <2>5, <2>6 DEF IInv
<1>. QED
  BY <1>1, <1>2 DEF Create

\* verify uses up the attempt that a CREATED record has left.
LEMMA VerifyKeepsIInv ==
  ASSUME IInv, NEW k \in Commitments, NEW now \in Instants, Verify(k, now)
  PROVE  IInv'
<1>1. CASE RefuseUnlessAt(k, {"CREATED"})
  BY <1>1, RefusalIsResult, RefuseKeepsIInv DEF RefuseUnlessAt
<1>2. CASE ExpireIfElapsed(k, {"CREATED"}, now)
  BY <1>2, ElapseKeepsIInv
<1>3. CASE /\ Live(k, {"CREATED"}, now)
           /\ Accept(k, [records[k] EXCEPT !.state = "VERIFIED",
                                           !.failure_reason = None])
           /\ verified' = [verified EXCEPT ![k] = @ + 1]
           /\ UNCHANGED <<submitted, confirmed>>
  <2>. DEFINE r == [records[k] EXCEPT !.state = "VERIFIED",
                                     !.failure_reason = None]
  <2>1. /\ k \in DOMAIN records
        /\ records[k] \in TradeRecord
        /\ records[k].state = "CREATED"
    BY <1>3 DEF Live, At, IInv, TypeOK
  <2>2. /\ r \in TradeRecord
        /\ r.state = "VERIFIED"
        /\ r.prior_txid = records[k].prior_txid
        /\ r.failure_reason = None
        /\ r.retry_count = records[k].retry_count
    BY <2>1 DEF TradeRecord, TradeLifecycleState
  <2>3. /\ records' = [records EXCEPT ![k] = r]
        /\ reply' \in Result
    BY <1>3 DEF Accept, Result
  <2>4. BookkeepingMatchesState /\ CountersMatchState /\ ConfirmedAtMostOnce /\ TypeOK
    BY DEF IInv
  <2>5. /\ verified' \in [Commitments -> Nat]
        /\ submitted' \in [Commitments -> Nat]
        /\ confirmed' \in [Commitments -> Nat]
        /\ \A c \in Commitments \ {k} :
             /\ verified'[c] = verified[c]
             /\ submitted'[c] = submitted[c]
             /\ confirmed'[c] = confirmed[c]
    BY <1>3, <2>4 DEF TypeOK, history
  <2>6. /\ submitted'[k] <= verified'[k]
        /\ verified'[k] <= records[k].retry_count + 1
        /\ submitted'[k] + 1 <= verified'[k]
    BY <1>3, <2>1, <2>4 DEF TypeOK, TradeRecord, CountersMatchState, history
  <2>7. confirmed'[k] = 0
    BY <1>3, <2>1, <2>4 DEF TypeOK, ConfirmedAtMostOnce, At, history
  <2>. HIDE DEF r
  <2>. QED
    BY <2>1, <2>2, <2>3, <2>4, <2>5, <2>6, <2>7, ReplaceKeepsIInv, ReplayStoreAssumption
       DEF BookkeepingMatchesState
<1>. QED
  BY <1>1, <1>2, <1>3 DEF Verify

\* acquire_construction moves the unused verification along.
LEMMA AcquireConstructionKeepsIInv ==
  ASSUME IInv, NEW k \in Commitments, NEW now \in Instants, AcquireConstruction(k, now)
  PROVE  IInv'
<1>1. CASE RefuseUnlessAt(k, Acquirable)
  BY <1>1, RefusalIsResult, RefuseKeepsIInv DEF RefuseUnlessAt
<1>2. CASE ExpireIfElapsed(k, Acquirable, now)
  BY <1>2, ElapseKeepsIInv DEF Acquirable
<1>3. CASE /\ Live(k, Acquirable, now)
           /\ Accept(k, [records[k] EXCEPT !.state = "SETTLEMENT_CONSTRUCTED"])
           /\ UNCHANGED history
  <2>. DEFINE r == [records[k] EXCEPT !.state = "SETTLEMENT_CONSTRUCTED"]
  <2>1. /\ k \in DOMAIN records
        /\ records[k] \in TradeRecord
        /\ records[k].state = "VERIFIED"
    BY <1>3 DEF Live, At, Acquirable, IInv, TypeOK
  <2>2. /\ r \in TradeRecord
        /\ r.state = "SETTLEMENT_CONSTRUCTED"
        /\ r.prior_txid = records[k].prior_txid
        /\ r.failure_reason = records[k].failure_reason
        /\ r.retry_count = records[k].retry_count
    BY <2>1 DEF TradeRecord, TradeLifecycleState
  <2>3. /\ records' = [records EXCEPT ![k] = r]
        /\ reply' \in Result
    BY <1>3 DEF Accept, Result
  <2>4. BookkeepingMatchesState /\ CountersMatchState /\ ConfirmedAtMostOnce /\ TypeOK
    BY DEF IInv
  <2>5. /\ verified' \in [Commitments -> Nat]
        /\ submitted' \in [Commitments -> Nat]
        /\ confirmed' \in [Commitments -> Nat]
        /\ \A c \in Commitments \ {k} :
             /\ verified'[c] = verified[c]
             /\ submitted'[c] = submitted[c]
             /\ confirmed'[c] = confirmed[c]
    BY <1>3, <2>4 DEF TypeOK, history
  <2>6. /\ submitted'[k] <= verified'[k]
        /\ verified'[k] <= records[k].retry_count + 1
        /\ submitted'[k] + 1 <= verified'[k]
    BY <1>3, <2>1, <2>4 DEF TypeOK, TradeRecord, CountersMatchState, history
  <2>7. confirmed'[k] = 0
    BY <1>3, <2>1, <2>4 DEF TypeOK, ConfirmedAtMostOnce, At, history
  <2>. HIDE DEF r
  <2>. QED
    BY <2>1, <2>2, <2>3, <2>4, <2>5, <2>6, <2>7, ReplaceKeepsIInv, ReplayStoreAssumption
       DEF BookkeepingMatchesState
<1>. QED
  BY <1>1, <1>2, <1>3 DEF AcquireConstruction

\* submit uses up the verification the record holds.
LEMMA SubmitKeepsIInv ==
  ASSUME IInv, NEW k \in Commitments, NEW txid \in TxIds, NEW now \in Instants, Submit(k, txid, now)
  PROVE  IInv'
<1>1. CASE RefuseUnlessAt(k, {"SETTLEMENT_CONSTRUCTED"})
  BY <1>1, RefusalIsResult, RefuseKeepsIInv DEF RefuseUnlessAt
<1>2. CASE ExpireIfElapsed(k, {"SETTLEMENT_CONSTRUCTED"}, now)
  BY <1>2, ElapseKeepsIInv
<1>3. CASE /\ Live(k, {"SETTLEMENT_CONSTRUCTED"}, now)
           /\ Accept(k, [records[k] EXCEPT !.state = "SUBMITTED",
                                           !.prior_txid = txid])
           /\ submitted' = [submitted EXCEPT ![k] = @ + 1]
           /\ UNCHANGED <<verified, confirmed>>
  <2>. DEFINE r == [records[k] EXCEPT !.state = "SUBMITTED",
                                     !.prior_txid = txid]
  <2>1. /\ k \in DOMAIN records
        /\ records[k] \in TradeRecord
        /\ records[k].state = "SETTLEMENT_CONSTRUCTED"
    BY <1>3 DEF Live, At, IInv, TypeOK
  <2>2. /\ r \in TradeRecord
        /\ r.state = "SUBMITTED"
        /\ r.prior_txid = txid
        /\ r.failure_reason = records[k].failure_reason
        /\ r.retry_count = records[k].retry_count
    BY <2>1 DEF TradeRecord, TradeLifecycleState
  <2>3. /\ records' = [records EXCEPT ![k] = r]
        /\ reply' \in Result
    BY <1>3 DEF Accept, Result
  <2>4. BookkeepingMatchesState /\ CountersMatchState /\ ConfirmedAtMostOnce /\ TypeOK
    BY DEF IInv
  <2>5. /\ verified' \in [Commitments -> Nat]
        /\ submitted' \in [Commitments -> Nat]
        /\ confirmed' \in [Commitments -> Nat]
        /\ \A c \in Commitments \ {k} :
             /\ verified'[c] = verified[c]
             /\ submitted'[c] = submitted[c]
             /\ confirmed'[c] = confirmed[c]
    BY <1>3, <2>4 DEF TypeOK, history
  <2>6. /\ submitted'[k] <= verified'[k]
        /\ verified'[k] <= records[k].retry_count + 1
    BY <1>3, <2>1, <2>4 DEF TypeOK, TradeRecord, CountersMatchState, history
  <2>7. confirmed'[k] = 0
    BY <1>3, <2>1, <2>4 DEF TypeOK, ConfirmedAtMostOnce, At, history
  <2>. HIDE DEF r
  <2>. QED
    BY <2>1, <2>2, <2>3, <2>4, <2>5, <2>6, <2>7, ReplaceKeepsIInv, ReplayStoreAssumption
       DEF BookkeepingMatchesState
<1>. QED
  BY <1>1, <1>2, <1>3 DEF Submit

\* confirm counts the one confirmation: a SUBMITTED record had none.
LEMMA ConfirmKeepsIInv ==
  ASSUME IInv, NEW k \in Commitments, Confirm(k)
  PROVE  IInv'
<1>1. CASE RefuseUnlessAt(k, {"SUBMITTED"})
  BY <1>1, RefusalIsResult, RefuseKeepsIInv DEF RefuseUnlessAt
<1>3. CASE /\ At(k, {"SUBMITTED"})
           /\ Accept(k, [records[k] EXCEPT !.state = "CONFIRMED"])
           /\ confirmed' = [confirmed EXCEPT ![k] = @ + 1]
           /\ UNCHANGED <<verified, submitted>>
  <2>. DEFINE r == [records[k] EXCEPT !.state = "CONFIRMED"]
  <2>1. /\ k \in DOMAIN records
        /\ records[k] \in TradeRecord
        /\ records[k].state = "SUBMITTED"
    BY <1>3 DEF At, IInv, TypeOK
  <2>2. /\ r \in TradeRecord
        /\ r.state = "CONFIRMED"
        /\ r.prior_txid = records[k].prior_txid
        /\ r.failure_reason = records[k].failure_reason
        /\ r.retry_count = records[k].retry_count
    BY <2>1 DEF TradeRecord, TradeLifecycleState
  <2>3. /\ records' = [records EXCEPT ![k] = r]
        /\ reply' \in Result
    BY <1>3 DEF Accept, Result
  <2>4. BookkeepingMatchesState /\ CountersMatchState /\ ConfirmedAtMostOnce /\ TypeOK
    BY DEF IInv
  <2>5. /\ verified' \in [Commitments -> Nat]
        /\ submitted' \in [Commitments -> Nat]
        /\ confirmed' \in [Commitments -> Nat]
        /\ \A c \in Commitments \ {k} :
             /\ verified'[c] = verified[c]
             /\ submitted'[c] = submitted[c]
             /\ confirmed'[c] = confirmed[c]
    BY <1>3, <2>4 DEF TypeOK, history
  <2>6. /\ submitted'[k] <= verified'[k]
        /\ verified'[k] <= records[k].retry_count + 1
    BY <1>3, <2>1, <2>4 DEF TypeOK, TradeRecord, CountersMatchState, history
  <2>7. confirmed'[k] = 1
    BY <1>3, <2>1, <2>4 DEF TypeOK, ConfirmedAtMostOnce, At, history
  <2>. HIDE DEF r
  <2>. QED
    BY <2>1, <2>2, <2>3, <2>4, <2>5, <2>6, <2>7, ReplaceKeepsIInv, ReplayStoreAssumption
       DEF BookkeepingMatchesState
<1>. QED
  BY <1>1, <1>3 DEF Confirm

\* consume keeps the confirmation counted.
LEMMA ConsumeKeepsIInv ==
  ASSUME IInv, NEW k \in Commitments, Consume(k)
  PROVE  IInv'
<1>1. CASE RefuseUnlessAt(k, {"CONFIRMED"})
  BY <1>1, RefusalIsResult, RefuseKeepsIInv DEF RefuseUnlessAt
<1>3. CASE /\ At(k, {"CONFIRMED"})
           /\ Accept(k, [records[k] EXCEPT !.state = "CONSUMED"])
           /\ UNCHANGED history
  <2>. DEFINE r == [records[k] EXCEPT !.state = "CONSUMED"]
  <2>1. /\ k \in DOMAIN records
        /\ records[k] \in TradeRecord
        /\ records[k].state = "CONFIRMED"
    BY <1>3 DEF At, IInv, TypeOK
  <2>2. /\ r \in TradeRecord
        /\ r.state = "CONSUMED"
        /\ r.prior_txid = records[k].prior_txid
        /\ r.failure_reason = records[k].failure_reason
        /\ r.retry_count = records[k].retry_count
    BY <2>1 DEF TradeRecord, TradeLifecycleState
  <2>3. /\ records' = [records EXCEPT ![k] = r]
        /\ reply' \in Result
    BY <1>3 DEF Accept, Result
  <2>4. BookkeepingMatchesState /\ CountersMatchState /\ ConfirmedAtMostOnce /\ TypeOK
    BY DEF IInv
  <2>5. /\ verified' \in [Commitments -> Nat]
        /\ submitted' \in [Commitments -> Nat]
        /\ confirmed' \in [Commitments -> Nat]
        /\ \A c \in Commitments \ {k} :
             /\ verified'[c] = verified[c]
             /\ submitted'[c] = submitted[c]
             /\ confirmed'[c] = confirmed[c]
    BY <1>3, <2>4 DEF TypeOK, history
  <2>6. /\ submitted'[k] <= verified'[k]
        /\ verified'[k] <= records[k].retry_count + 1
    BY <1>3, <2>1, <2>4 DEF TypeOK, TradeRecord, CountersMatchState, history
  <2>7. confirmed'[k] = 1
    BY <1>3, <2>1, <2>4 DEF TypeOK, ConfirmedAtMostOnce, At, history
  <2>. HIDE DEF r
  <2>. QED
    BY <2>1, <2>2, <2>3, <2>4, <2>5, <2>6, <2>7, ReplaceKeepsIInv, ReplayStoreAssumption
       DEF BookkeepingMatchesState
<1>. QED
  BY <1>1, <1>3 DEF Consume

\* fail keeps the txid only of a submission and never of a confirmed record.
LEMMA FailKeepsIInv ==
  ASSUME IInv, NEW k \in Commitments, NEW reason \in FailureReason, Fail(k, reason)
  PROVE  IInv'
<1>1. CASE RefuseUnlessAt(k, Failable)
  BY <1>1, RefusalIsResult, RefuseKeepsIInv DEF RefuseUnlessAt
<1>2. CASE /\ At(k, Failable)
           /\ Accept(k, [records[k] EXCEPT
                           !.prior_txid = TxidAfterFailure(records[k]),
                           !.state = "FAILED",
                           !.failure_reason = reason])
           /\ UNCHANGED history
  <2>. DEFINE r == [records[k] EXCEPT
                      !.prior_txid = TxidAfterFailure(records[k]),
                      !.state = "FAILED",
                      !.failure_reason = reason]
  <2>1. /\ k \in DOMAIN records
        /\ records[k] \in TradeRecord
        /\ records[k].state \in Failable
    BY <1>2 DEF At, IInv, TypeOK
  <2>2. /\ r \in TradeRecord
        /\ r.state = "FAILED"
        /\ r.failure_reason = reason
        /\ reason # None
        /\ r.retry_count = records[k].retry_count
    <3>1. TxidAfterFailure(records[k]) \in TxIds \cup {None}
      BY <2>1 DEF TxidAfterFailure, TradeRecord
    <3>. QED
      BY <2>1, <3>1, ReplayStoreAssumption DEF TradeRecord, TradeLifecycleState
  <2>3. /\ records' = [records EXCEPT ![k] = r]
        /\ reply' \in Result
        /\ verified' = verified /\ submitted' = submitted /\ confirmed' = confirmed
    BY <1>2 DEF Accept, Result, history
  <2>4. BookkeepingMatchesState /\ CountersMatchState /\ ConfirmedAtMostOnce /\ TypeOK
    BY DEF IInv
  <2>5. confirmed[k] = 0
    BY <2>1, <2>4 DEF ConfirmedAtMostOnce, At, Failable
  <2>6. /\ submitted[k] <= verified[k]
        /\ verified[k] <= records[k].retry_count + 1
    BY <2>1, <2>4 DEF CountersMatchState
  <2>. HIDE DEF r
  <2>. QED
    BY <2>1, <2>2, <2>3, <2>4, <2>5, <2>6, ReplaceKeepsIInv, ReplayStoreAssumption
       DEF TypeOK, BookkeepingMatchesState, Failable
<1>. QED
  BY <1>1, <1>2 DEF Fail

\* expire, refused or not.
LEMMA ExpireKeepsIInv ==
  ASSUME IInv, NEW k \in Commitments, NEW now \in Instants, Expire(k, now)
  PROVE  IInv'
<1>1. CASE RefuseUnlessAt(k, Expirable)
  BY <1>1, RefusalIsResult, RefuseKeepsIInv DEF RefuseUnlessAt
<1>2. CASE Live(k, Expirable, now) /\ Refuse("InvalidStateTransition")
  BY <1>2, RefuseKeepsIInv DEF Result
<1>3. CASE /\ At(k, Expirable)
           /\ IsExpiredAt(k, now)
           /\ Accept(k, [records[k] EXCEPT !.state = "EXPIRED"])
           /\ UNCHANGED history
  <2>. DEFINE r == [records[k] EXCEPT !.state = "EXPIRED"]
  <2>1. /\ k \in DOMAIN records
        /\ records[k] \in TradeRecord
        /\ records[k].state \in Expirable
    BY <1>3 DEF At, IInv, TypeOK
  <2>2. /\ r \in TradeRecord
        /\ r.state = "EXPIRED"
        /\ r.prior_txid = records[k].prior_txid
        /\ r.failure_reason = records[k].failure_reason
        /\ r.retry_count = records[k].retry_count
    BY <2>1 DEF TradeRecord, TradeLifecycleState
  <2>3. /\ records' = [records EXCEPT ![k] = r]
        /\ reply' \in Result
        /\ verified' = verified /\ submitted' = submitted /\ confirmed' = confirmed
    BY <1>3 DEF Accept, Result, history
  <2>4. BookkeepingMatchesState /\ CountersMatchState /\ ConfirmedAtMostOnce /\ TypeOK
    BY DEF IInv
  <2>5. confirmed[k] = 0
    BY <2>1, <2>4 DEF ConfirmedAtMostOnce, At, Expirable
  <2>6. /\ submitted[k] <= verified[k]
        /\ verified[k] <= records[k].retry_count + 1
    BY <2>1, <2>4 DEF CountersMatchState
  <2>. HIDE DEF r
  <2>. QED
    BY <2>1, <2>2, <2>3, <2>4, <2>5, <2>6, ReplaceKeepsIInv, ReplayStoreAssumption
       DEF TypeOK, BookkeepingMatchesState, Expirable
<1>. QED
  BY <1>1, <1>2, <1>3 DEF Expire

\* retry_after_failure makes room for one more verification.
LEMMA RetryKeepsIInv ==
  ASSUME IInv, NEW k \in Commitments, NEW acknowledged \in TxIds \cup {None},
         NEW now \in Instants, RetryAfterFailure(k, acknowledged, now)
  PROVE  IInv'
<1>1. CASE RefuseUnlessAt(k, Retryable)
  BY <1>1, RefusalIsResult, RefuseKeepsIInv DEF RefuseUnlessAt
<1>2. CASE ExpireIfElapsed(k, Retryable, now)
  BY <1>2, ElapseKeepsIInv DEF Retryable
<1>3. CASE Refuse("RetryBudgetExhausted") \/ Refuse("UnreconciledPriorSubmission")
  BY <1>3, RefuseKeepsIInv DEF Result
<1>4. CASE /\ Live(k, Retryable, now)
           /\ ~BudgetSpent(records[k])
           /\ Accept(k, Retried(records[k]))
           /\ UNCHANGED history
  <2>. DEFINE r == Retried(records[k])
  <2>1. /\ k \in DOMAIN records
        /\ records[k] \in TradeRecord
        /\ records[k].state = "FAILED"
    BY <1>4 DEF Live, At, Retryable, IInv, TypeOK
  <2>2. /\ r \in TradeRecord
        /\ r.state = "CREATED"
        /\ r.prior_txid = None
        /\ r.failure_reason = None
        /\ r.retry_count = records[k].retry_count + 1
    <3>1. records[k].retry_count + 1 \in 0..MaxRetries
      BY <1>4, <2>1, ReplayStoreAssumption DEF BudgetSpent, TradeRecord
    <3>2. r = [records[k] EXCEPT !.state = "CREATED", !.failure_reason = None,
                                 !.prior_txid = None,
                                 !.retry_count = records[k].retry_count + 1]
      BY <2>1 DEF Retried, TradeRecord
    <3>. HIDE DEF r
    <3>. QED
      BY <2>1, <3>1, <3>2 DEF TradeRecord, TradeLifecycleState
  <2>3. /\ records' = [records EXCEPT ![k] = r]
        /\ reply' \in Result
        /\ verified' = verified /\ submitted' = submitted /\ confirmed' = confirmed
    BY <1>4 DEF Accept, Result, history
  <2>4. BookkeepingMatchesState /\ CountersMatchState /\ ConfirmedAtMostOnce /\ TypeOK
    BY DEF IInv
  <2>5. confirmed[k] = 0
    BY <2>1, <2>4 DEF ConfirmedAtMostOnce, At
  <2>6. /\ submitted[k] <= verified[k]
        /\ verified[k] <= records[k].retry_count + 1
    BY <2>1, <2>4 DEF CountersMatchState
  <2>. HIDE DEF r
  <2>7. verified[k] <= r.retry_count /\ verified[k] <= r.retry_count + 1
    BY <2>1, <2>2, <2>4, <2>6 DEF TypeOK, TradeRecord
  <2>. QED
    BY <2>1, <2>2, <2>3, <2>4, <2>5, <2>6, <2>7, ReplaceKeepsIInv DEF TypeOK
<1>. QED
  BY <1>1, <1>2, <1>3, <1>4 DEF RetryAfterFailure

-----------------------------------------------------------------------------
(* The theorems.                                                           *)

\* Every step keeps the invariant: one lemma per call, and stuttering.
LEMMA NextKeepsIInv == IInv /\ [Next]_vars => IInv'
<1>1. ASSUME IInv, NEW k \in Commitments,
             \/ \E expiry \in Instants : Create(k, expiry)
             \/ \E now \in Instants : Verify(k, now)
             \/ \E now \in Instants : AcquireConstruction(k, now)
             \/ \E txid \in TxIds, now \in Instants : Submit(k, txid, now)
             \/ Confirm(k)
             \/ Consume(k)
             \/ \E reason \in FailureReason : Fail(k, reason)
             \/ \E now \in Instants : Expire(k, now)
             \/ \E acknowledged \in TxIds \cup {None}, now \in Instants :
                   RetryAfterFailure(k, acknowledged, now)
      PROVE  IInv'
  BY <1>1, CreateKeepsIInv, VerifyKeepsIInv, AcquireConstructionKeepsIInv,
     SubmitKeepsIInv, ConfirmKeepsIInv, ConsumeKeepsIInv, FailKeepsIInv,
     ExpireKeepsIInv, RetryKeepsIInv
<1>2. IInv /\ UNCHANGED vars => IInv'
  BY DEF vars, IInv, TypeOK, BookkeepingMatchesState, CountersMatchState,
         ConfirmedAtMostOnce, At
<1>. QED
  BY <1>1, <1>2 DEF Next

\* The inductive invariant holds in every reachable state of the store.
THEOREM InductiveInvariant == Spec => []IInv
  BY InitIInv, NextKeepsIInv, PTL DEF Spec

\* Records stay well formed; retry_count never passes the configured bound,
\* so the unchecked u32 increment in retry_after_failure cannot overflow.
THEOREM TypeCorrect == Spec => []TypeOK
  BY InductiveInvariant, PTL DEF IInv

\* The optional fields of a record always agree with its state.
THEOREM BookkeepingHolds == Spec => []BookkeepingMatchesState
  BY InductiveInvariant, PTL DEF IInv

\* Each submission has a verification of its own and both stay in budget.
THEOREM BudgetHolds == Spec => []AttemptsWithinBudget
<1>1. IInv => AttemptsWithinBudget
  BY DEF IInv, TypeOK, CountersMatchState, AttemptsWithinBudget
<1>. QED
  BY <1>1, InductiveInvariant, PTL

\* No commitment is ever confirmed twice.
THEOREM AtMostOneConfirmation == Spec => []ConfirmedAtMostOnce
  BY InductiveInvariant, PTL DEF IInv

-----------------------------------------------------------------------------
(* Action properties.                                                      *)

\* A call for k either leaves the store alone, or inserts k, or replaces the
\* record of k, and that one only while it is not terminal.
TouchesOnly(k) ==
    \/ records' = records
    \/ /\ k \notin DOMAIN records
       /\ DOMAIN records' = DOMAIN records \cup {k}
       /\ \A c \in DOMAIN records : records'[c] = records[c]
    \/ /\ k \in DOMAIN records
       /\ records[k].state \notin {"CONSUMED", "EXPIRED"}
       /\ DOMAIN records' = DOMAIN records
       /\ \A c \in DOMAIN records \ {k} : records'[c] = records[c]

LEMMA StepTouchesOne ==
  ASSUME IInv, Next
  PROVE  \E k \in Commitments : TouchesOnly(k)
<1>. USE DEF TouchesOnly, Refuse, RefuseUnlessAt, ExpireIfElapsed, Live, At, Accept
<1>1. ASSUME NEW k \in Commitments, NEW expiry \in Instants, Create(k, expiry)
      PROVE  TouchesOnly(k)
  BY <1>1 DEF Create
<1>2. ASSUME NEW k \in Commitments, NEW now \in Instants,
             Verify(k, now) \/ AcquireConstruction(k, now) \/ Expire(k, now)
      PROVE  TouchesOnly(k)
  BY <1>2 DEF Verify, AcquireConstruction, Acquirable, Expire, Expirable
<1>3. ASSUME NEW k \in Commitments, NEW txid \in TxIds, NEW now \in Instants,
             Submit(k, txid, now)
      PROVE  TouchesOnly(k)
  BY <1>3 DEF Submit
<1>4. ASSUME NEW k \in Commitments, Confirm(k) \/ Consume(k)
      PROVE  TouchesOnly(k)
  BY <1>4 DEF Confirm, Consume
<1>5. ASSUME NEW k \in Commitments, NEW reason \in FailureReason, Fail(k, reason)
      PROVE  TouchesOnly(k)
  BY <1>5 DEF Fail, Failable
<1>6. ASSUME NEW k \in Commitments, NEW acknowledged \in TxIds \cup {None},
             NEW now \in Instants, RetryAfterFailure(k, acknowledged, now)
      PROVE  TouchesOnly(k)
  BY <1>6 DEF RetryAfterFailure, Retryable
<1>. HIDE DEF TouchesOnly, Refuse, RefuseUnlessAt, ExpireIfElapsed, Live, At, Accept
<1>. QED
  BY <1>1, <1>2, <1>3, <1>4, <1>5, <1>6 DEF Next

\* CONSUMED and EXPIRED are final, whatever is called and whenever.
THEOREM TerminalIsFinal == Spec => TerminalRecordsAreFinal
<1>. DEFINE Final == \A k \in DOMAIN records :
                        records[k].state \in {"CONSUMED", "EXPIRED"} =>
                           k \in DOMAIN records' /\ records'[k] = records[k]
<1>1. IInv /\ Next => Final
  BY StepTouchesOne DEF TouchesOnly
<1>. QED
  BY <1>1, InductiveInvariant, PTL DEF Spec, TerminalRecordsAreFinal

\* The txid held for k, if any, is kept, or given up by a retry that names it.
KeepsTxid(k) ==
    records[k].prior_txid # None /\ records'[k].prior_txid # records[k].prior_txid =>
        /\ records[k].state = "FAILED"
        /\ \E now \in Instants : RetryAfterFailure(k, records[k].prior_txid, now)

\* Calls other than a retry keep the txid of every record: those that write
\* the field do it where, by the invariant, it is empty.
LEMMA OtherCallsKeepTxid ==
  ASSUME IInv, NEW k \in Commitments, NEW c \in DOMAIN records,
         \/ \E expiry \in Instants : Create(k, expiry)
         \/ \E now \in Instants : Verify(k, now)
         \/ \E now \in Instants : AcquireConstruction(k, now)
         \/ \E txid \in TxIds, now \in Instants : Submit(k, txid, now)
         \/ Confirm(k)
         \/ Consume(k)
         \/ \E reason \in FailureReason : Fail(k, reason)
         \/ \E now \in Instants : Expire(k, now)
  PROVE  records[c].prior_txid # None =>
            records'[c].prior_txid = records[c].prior_txid
<1>. SUFFICES ASSUME records[c].prior_txid # None
              PROVE  records'[c].prior_txid = records[c].prior_txid
  OBVIOUS
<1>0. /\ records[c] \in TradeRecord
      /\ records[c].state \notin {"CREATED", "VERIFIED", "SETTLEMENT_CONSTRUCTED"}
  BY DEF IInv, TypeOK, BookkeepingMatchesState
<1>. USE <1>0 DEF Refuse, RefuseUnlessAt, ExpireIfElapsed, Live, At, Accept, TradeRecord
<1>1. CASE \E expiry \in Instants : Create(k, expiry)
  BY <1>1 DEF Create
<1>2. CASE \E now \in Instants : Verify(k, now)
  BY <1>2 DEF Verify
<1>3. CASE \E now \in Instants : AcquireConstruction(k, now)
  BY <1>3 DEF AcquireConstruction
<1>4. CASE \E txid \in TxIds, now \in Instants : Submit(k, txid, now)
  BY <1>4 DEF Submit
<1>5. CASE Confirm(k) \/ Consume(k)
  BY <1>5 DEF Confirm, Consume
<1>6. CASE \E reason \in FailureReason : Fail(k, reason)
  <2>1. PICK reason \in FailureReason : Fail(k, reason)
    BY <1>6
  <2>2. CASE RefuseUnlessAt(k, Failable)
    BY <2>2
  <2>3. CASE At(k, Failable) /\ c # k
    BY <2>1, <2>3 DEF Fail
  <2>4. CASE At(k, Failable) /\ c = k
    <3>1. TxidAfterFailure(records[k]) = records[k].prior_txid
      BY <2>4 DEF Failable, TxidAfterFailure
    <3>2. records' = [records EXCEPT ![k] =
                        [records[k] EXCEPT !.prior_txid = TxidAfterFailure(records[k]),
                                           !.state = "FAILED",
                                           !.failure_reason = reason]]
      BY <2>1, <2>4 DEF Fail
    <3>. QED
      BY <2>4, <3>1, <3>2
  <2>. QED
    BY <2>1, <2>2, <2>3, <2>4 DEF Fail
<1>7. CASE \E now \in Instants : Expire(k, now)
  BY <1>7 DEF Expire
<1>. QED
  BY <1>1, <1>2, <1>3, <1>4, <1>5, <1>6, <1>7

\* A retry for k keeps the txids of the others and forgets the one of k only
\* when it was named.
LEMMA RetryKeepsTxid ==
  ASSUME IInv, NEW k \in Commitments, NEW acknowledged \in TxIds \cup {None},
         NEW now \in Instants, RetryAfterFailure(k, acknowledged, now),
         NEW c \in DOMAIN records
  PROVE  KeepsTxid(c)
<1>1. CASE c # k
  BY <1>1 DEF RetryAfterFailure, Refuse, RefuseUnlessAt, ExpireIfElapsed, Accept, KeepsTxid
<1>2. CASE c = k /\ records[k].prior_txid = acknowledged /\ records[k].state = "FAILED"
  BY <1>2 DEF KeepsTxid
<1>3. CASE c = k /\ (records[k].prior_txid # acknowledged \/ records[k].state # "FAILED")
  <2>1. records[k] \in TradeRecord
    BY <1>3 DEF IInv, TypeOK
  <2>2. records'[k].prior_txid = records[k].prior_txid
    BY <1>3, <2>1 DEF RetryAfterFailure, Refuse, RefuseUnlessAt, ExpireIfElapsed,
                      Live, At, Retryable, Acknowledges, TradeRecord
  <2>. QED
    BY <1>3, <2>2 DEF KeepsTxid
<1>. QED
  BY <1>1, <1>2, <1>3

\* A recorded txid is forgotten only by a retry that names exactly it.
THEOREM TxidForgottenOnlyByAck == Spec => TxidForgottenOnlyByAcknowledgement
<1>1. IInv /\ Next => \A k \in DOMAIN records : KeepsTxid(k)
  <2>. SUFFICES ASSUME IInv, Next, NEW c \in DOMAIN records
                PROVE  KeepsTxid(c)
    OBVIOUS
  <2>1. CASE \E k \in Commitments, acknowledged \in TxIds \cup {None}, now \in Instants :
                RetryAfterFailure(k, acknowledged, now)
    BY <2>1, RetryKeepsTxid
  <2>2. CASE ~\E k \in Commitments, acknowledged \in TxIds \cup {None}, now \in Instants :
                RetryAfterFailure(k, acknowledged, now)
    <3>1. PICK k \in Commitments :
             \/ \E expiry \in Instants : Create(k, expiry)
             \/ \E now \in Instants : Verify(k, now)
             \/ \E now \in Instants : AcquireConstruction(k, now)
             \/ \E txid \in TxIds, now \in Instants : Submit(k, txid, now)
             \/ Confirm(k)
             \/ Consume(k)
             \/ \E reason \in FailureReason : Fail(k, reason)
             \/ \E now \in Instants : Expire(k, now)
      BY <2>2 DEF Next
    <3>2. records[c].prior_txid # None =>
            records'[c].prior_txid = records[c].prior_txid
      BY <3>1, OtherCallsKeepTxid
    <3>. QED
      BY <3>2 DEF KeepsTxid
  <2>. QED
    BY <2>1, <2>2
<1>2. IInv /\ [Next]_vars =>
        [\A k \in DOMAIN records :
           LET txid == records[k].prior_txid IN
           txid # None /\ records'[k].prior_txid # txid =>
              /\ records[k].state = "FAILED"
              /\ \E now \in Instants : RetryAfterFailure(k, txid, now)]_vars
  BY <1>1 DEF KeepsTxid
<1>. QED
  BY <1>2, InductiveInvariant, PTL DEF Spec, TxidForgottenOnlyByAcknowledgement

\* A step changes no record, or answers Ok, or is a call refused by the gate.
LEMMA StepIsAnswered ==
  ASSUME Next
  PROVE  \/ records' = records
         \/ reply' = "Ok"
         \/ /\ reply' = "ExpiredTrade"
            /\ \E k \in DOMAIN records :
                  records' = [records EXCEPT ![k].state = "EXPIRED"]
<1>. DEFINE Answered == \/ records' = records
                        \/ reply' = "Ok"
                        \/ /\ reply' = "ExpiredTrade"
                           /\ \E k \in DOMAIN records :
                                 records' = [records EXCEPT ![k].state = "EXPIRED"]
<1>. USE DEF Refuse, RefuseUnlessAt, ExpireIfElapsed, At, Accept
<1>1. ASSUME NEW k \in Commitments, NEW expiry \in Instants, Create(k, expiry)
      PROVE  Answered
  BY <1>1 DEF Create
<1>2. ASSUME NEW k \in Commitments, NEW now \in Instants,
             Verify(k, now) \/ AcquireConstruction(k, now) \/ Expire(k, now)
      PROVE  Answered
  BY <1>2 DEF Verify, AcquireConstruction, Expire
<1>3. ASSUME NEW k \in Commitments, NEW txid \in TxIds, NEW now \in Instants,
             Submit(k, txid, now)
      PROVE  Answered
  BY <1>3 DEF Submit
<1>4. ASSUME NEW k \in Commitments, Confirm(k) \/ Consume(k)
      PROVE  Answered
  BY <1>4 DEF Confirm, Consume
<1>5. ASSUME NEW k \in Commitments, NEW reason \in FailureReason, Fail(k, reason)
      PROVE  Answered
  BY <1>5 DEF Fail
<1>6. ASSUME NEW k \in Commitments, NEW acknowledged \in TxIds \cup {None},
             NEW now \in Instants, RetryAfterFailure(k, acknowledged, now)
      PROVE  Answered
  BY <1>6 DEF RetryAfterFailure
<1>. HIDE DEF Answered, Refuse, RefuseUnlessAt, ExpireIfElapsed, At, Accept
<1>7. Answered
  BY <1>1, <1>2, <1>3, <1>4, <1>5, <1>6 DEF Next
<1>. QED
  BY <1>7 DEF Answered

\* A refused call changes nothing, or moves one record to EXPIRED and leaves
\* its other fields, the unreconciled txid included, as they were.
THEOREM RefusalsAreHarmless == Spec => RefusalsLeaveRecordsAlone
<1>. DEFINE Harmless ==
       /\ records' # records => reply' \in {"Ok", "ExpiredTrade"}
       /\ reply' = "ExpiredTrade" =>
            /\ DOMAIN records' = DOMAIN records
            /\ \A k \in DOMAIN records :
                 records'[k] \in {records[k], [records[k] EXCEPT !.state = "EXPIRED"]}
<1>1. IInv /\ Next => Harmless
  <2>. SUFFICES ASSUME IInv, Next
                PROVE  Harmless
    OBVIOUS
  <2>1. CASE records' = records
    BY <2>1
  <2>2. CASE reply' = "Ok"
    BY <2>2
  <2>3. CASE /\ reply' = "ExpiredTrade"
             /\ \E k \in DOMAIN records :
                   records' = [records EXCEPT ![k].state = "EXPIRED"]
    BY <2>3 DEF IInv, TypeOK
  <2>. QED
    BY <2>1, <2>2, <2>3, StepIsAnswered
<1>. QED
  BY <1>1, InductiveInvariant, PTL DEF Spec, RefusalsLeaveRecordsAlone

-----------------------------------------------------------------------------
(* What whoever decides over verify may rely on.                           *)

\* A record that a verification brought forward, or what is left of one that was
\* submitted.
PastGate(r) ==
    \/ r.state \in {"VERIFIED", "SETTLEMENT_CONSTRUCTED", "SUBMITTED", "CONFIRMED",
                    "CONSUMED"}
    \/ r.prior_txid # None

\* The committed expiry of a record never changes, and no record gets past verify
\* but by an accepted call of it.
KeepsGate ==
    /\ \A c \in DOMAIN records :
        /\ c \in DOMAIN records'
        /\ records'[c].expiry = records[c].expiry
        /\ PastGate(records'[c]) => PastGate(records[c]) \/ verified'[c] # verified[c]
    /\ \A c \in DOMAIN records' \ DOMAIN records : ~PastGate(records'[c])

LEMMA SameKeepsGate ==
  ASSUME records' = records
  PROVE  KeepsGate
  BY DEF KeepsGate

\* A call that replaces one record need only treat that one so.
LEMMA ReplaceKeepsGate ==
  ASSUME NEW k \in DOMAIN records, NEW r, records \in [DOMAIN records -> TradeRecord],
         records' = [records EXCEPT ![k] = r],
         r.expiry = records[k].expiry,
         PastGate(r) => PastGate(records[k]) \/ verified'[k] # verified[k]
  PROVE  KeepsGate
<1>1. DOMAIN records' = DOMAIN records /\ records'[k] = r
  OBVIOUS
<1>2. \A c \in DOMAIN records \ {k} : records'[c] = records[c]
  OBVIOUS
<1>. QED
  BY <1>1, <1>2 DEF KeepsGate

\* The record as a call found it.
LEMMA RecordAt ==
  ASSUME IInv, NEW k, k \in DOMAIN records
  PROVE  /\ records \in [DOMAIN records -> TradeRecord]
         /\ records[k] \in TradeRecord
         /\ k \in Commitments
  BY DEF IInv, TypeOK

LEMMA ElapseKeepsGate ==
  ASSUME IInv, NEW k, NEW from, NEW now, ExpireIfElapsed(k, from, now)
  PROVE  KeepsGate
<1>. DEFINE r == [records[k] EXCEPT !.state = "EXPIRED"]
<1>1. k \in DOMAIN records /\ records' = [records EXCEPT ![k] = r]
  BY DEF ExpireIfElapsed, At
<1>2. /\ r.expiry = records[k].expiry
      /\ PastGate(r) => PastGate(records[k])
  BY <1>1, RecordAt DEF TradeRecord, PastGate
<1>. HIDE DEF r
<1>. QED
  BY <1>1, <1>2, RecordAt, ReplaceKeepsGate

LEMMA StepKeepsGate == IInv /\ Next => KeepsGate
<1>. SUFFICES ASSUME IInv, Next
              PROVE  KeepsGate
  OBVIOUS
<1>1. ASSUME NEW k, NEW from, RefuseUnlessAt(k, from) \/ \E error : Refuse(error)
      PROVE  KeepsGate
  BY <1>1, SameKeepsGate DEF RefuseUnlessAt, Refuse
<1>2. ASSUME NEW k, NEW expiry, Create(k, expiry)
      PROVE  KeepsGate
  BY <1>2 DEF Create, Refuse, NewRecord, KeepsGate, PastGate
<1>3. ASSUME NEW k, NEW now, Verify(k, now)
      PROVE  KeepsGate
  <2>1. CASE /\ Live(k, {"CREATED"}, now)
             /\ Accept(k, [records[k] EXCEPT !.state = "VERIFIED", !.failure_reason = None])
             /\ verified' = [verified EXCEPT ![k] = @ + 1]
    <3>. DEFINE r == [records[k] EXCEPT !.state = "VERIFIED", !.failure_reason = None]
    <3>1. k \in DOMAIN records /\ records' = [records EXCEPT ![k] = r]
      BY <2>1 DEF Live, At, Accept
    <3>2. r.expiry = records[k].expiry
      BY <3>1, RecordAt DEF TradeRecord
    <3>3. verified'[k] # verified[k]
      BY <2>1, <3>1 DEF IInv, TypeOK
    <3>. HIDE DEF r
    <3>. QED
      BY <3>1, <3>2, <3>3, RecordAt, ReplaceKeepsGate
  <2>. QED
    BY <1>1, <1>3, <2>1, ElapseKeepsGate DEF Verify
<1>4. ASSUME NEW k, NEW now, AcquireConstruction(k, now)
      PROVE  KeepsGate
  <2>1. CASE /\ Live(k, Acquirable, now)
             /\ Accept(k, [records[k] EXCEPT !.state = "SETTLEMENT_CONSTRUCTED"])
    <3>. DEFINE r == [records[k] EXCEPT !.state = "SETTLEMENT_CONSTRUCTED"]
    <3>1. /\ k \in DOMAIN records /\ records' = [records EXCEPT ![k] = r]
          /\ records[k].state = "VERIFIED"
      BY <2>1 DEF Live, At, Accept, Acquirable
    <3>2. r.expiry = records[k].expiry /\ PastGate(records[k])
      BY <3>1, RecordAt DEF TradeRecord, PastGate
    <3>. HIDE DEF r
    <3>. QED
      BY <3>1, <3>2, RecordAt, ReplaceKeepsGate
  <2>. QED
    BY <1>1, <1>4, <2>1, ElapseKeepsGate DEF AcquireConstruction
<1>5. ASSUME NEW k, NEW txid, NEW now, Submit(k, txid, now)
      PROVE  KeepsGate
  <2>1. CASE /\ Live(k, {"SETTLEMENT_CONSTRUCTED"}, now)
             /\ Accept(k, [records[k] EXCEPT !.state = "SUBMITTED", !.prior_txid = txid])
    <3>. DEFINE r == [records[k] EXCEPT !.state = "SUBMITTED", !.prior_txid = txid]
    <3>1. /\ k \in DOMAIN records /\ records' = [records EXCEPT ![k] = r]
          /\ records[k].state = "SETTLEMENT_CONSTRUCTED"
      BY <2>1 DEF Live, At, Accept
    <3>2. r.expiry = records[k].expiry /\ PastGate(records[k])
      BY <3>1, RecordAt DEF TradeRecord, PastGate
    <3>. HIDE DEF r
    <3>. QED
      BY <3>1, <3>2, RecordAt, ReplaceKeepsGate
  <2>. QED
    BY <1>1, <1>5, <2>1, ElapseKeepsGate DEF Submit
<1>6. ASSUME NEW k, NEW from, NEW to, At(k, {from}),
             Accept(k, [records[k] EXCEPT !.state = to]),
             from \in {"SUBMITTED", "CONFIRMED"}
      PROVE  KeepsGate
  <2>. DEFINE r == [records[k] EXCEPT !.state = to]
  <2>1. k \in DOMAIN records /\ records' = [records EXCEPT ![k] = r]
    BY <1>6 DEF At, Accept
  <2>2. r.expiry = records[k].expiry /\ PastGate(records[k])
    BY <1>6, <2>1, RecordAt DEF At, TradeRecord, PastGate
  <2>. HIDE DEF r
  <2>. QED
    BY <2>1, <2>2, RecordAt, ReplaceKeepsGate
<1>7. ASSUME NEW k, Confirm(k) \/ Consume(k)
      PROVE  KeepsGate
  BY <1>1, <1>6, <1>7 DEF Confirm, Consume
<1>8. ASSUME NEW k, NEW reason, Fail(k, reason)
      PROVE  KeepsGate
  <2>1. CASE At(k, Failable)
    <3>. DEFINE r == [records[k] EXCEPT !.prior_txid = TxidAfterFailure(records[k]),
                                        !.state = "FAILED", !.failure_reason = reason]
    <3>1. k \in DOMAIN records /\ records' = [records EXCEPT ![k] = r]
      BY <1>8, <2>1 DEF Fail, RefuseUnlessAt, At, Accept
    <3>2. /\ r.state = "FAILED" /\ r.expiry = records[k].expiry
          /\ r.prior_txid = TxidAfterFailure(records[k])
      BY <3>1, RecordAt DEF TradeRecord
    <3>. HIDE DEF r
    <3>3. PastGate(r) => PastGate(records[k])
      BY <3>2 DEF PastGate, TxidAfterFailure
    <3>. QED
      BY <3>1, <3>2, <3>3, RecordAt, ReplaceKeepsGate
  <2>. QED
    BY <1>1, <1>8, <2>1 DEF Fail
<1>9. ASSUME NEW k, NEW now, Expire(k, now)
      PROVE  KeepsGate
  <2>1. CASE At(k, Expirable) /\ Accept(k, [records[k] EXCEPT !.state = "EXPIRED"])
    <3>. DEFINE r == [records[k] EXCEPT !.state = "EXPIRED"]
    <3>1. k \in DOMAIN records /\ records' = [records EXCEPT ![k] = r]
      BY <2>1 DEF At, Accept
    <3>2. /\ r.expiry = records[k].expiry
          /\ PastGate(r) => PastGate(records[k])
      BY <3>1, RecordAt DEF TradeRecord, PastGate
    <3>. HIDE DEF r
    <3>. QED
      BY <3>1, <3>2, RecordAt, ReplaceKeepsGate
  <2>. QED
    BY <1>1, <1>9, <2>1 DEF Expire
<1>10. ASSUME NEW k, NEW acknowledged, NEW now, RetryAfterFailure(k, acknowledged, now)
       PROVE  KeepsGate
  <2>1. CASE Live(k, Retryable, now) /\ Accept(k, Retried(records[k]))
    <3>. DEFINE r == Retried(records[k])
    <3>1. k \in DOMAIN records /\ records' = [records EXCEPT ![k] = r]
      BY <2>1 DEF Live, At, Accept
    <3>2. r.expiry = records[k].expiry /\ r.state = "CREATED" /\ r.prior_txid = None
      BY <3>1, RecordAt DEF Retried, TradeRecord
    <3>. HIDE DEF r
    <3>3. ~PastGate(r)
      BY <3>2 DEF PastGate
    <3>. QED
      BY <3>1, <3>2, <3>3, RecordAt, ReplaceKeepsGate
  <2>. QED
    BY <1>1, <1>10, <2>1, ElapseKeepsGate DEF RetryAfterFailure
<1>. QED
  BY <1>2, <1>3, <1>4, <1>5, <1>7, <1>8, <1>9, <1>10 DEF Next

-----------------------------------------------------------------------------
(***************************************************************************)
(* The refinement of SettlementPromise: every step is compared with the    *)
(* abstract one through Phase, on the states the inductive invariant       *)
(* describes.                                                              *)
(***************************************************************************)

AbstractPhase == [k \in Commitments |-> Phase(k)]

\* The empty store is the initial promise: every commitment idle.
LEMMA InitRefines == Init => Promise!Init
  BY DEF Init, Promise!Init, Phase

\* Records and submission counters determine the abstract state.
LEMMA UnchangedRefines ==
  ASSUME UNCHANGED <<records, submitted>>
  PROVE  UNCHANGED Promise!pvars
  BY DEF Promise!pvars, Phase

\* Replacing one record moves the phase of its commitment only.
LEMMA ReplaceMovesPhase ==
  ASSUME IInv, NEW k \in DOMAIN records, NEW r \in TradeRecord,
         records' = [records EXCEPT ![k] = r]
  PROVE  /\ k \in Commitments
         /\ AbstractPhase[k] = PhaseOf(records[k])
         /\ AbstractPhase' = [AbstractPhase EXCEPT ![k] = PhaseOf(r)]
<1>1. DOMAIN records' = DOMAIN records /\ k \in Commitments
  BY DEF IInv, TypeOK
<1>2. Phase(k) = PhaseOf(records[k]) /\ Phase(k)' = PhaseOf(r)
  BY <1>1 DEF Phase
<1>3. \A c \in Commitments \ {k} : Phase(c)' = Phase(c)
  BY <1>1 DEF Phase
<1>. QED
  BY <1>1, <1>2, <1>3 DEF AbstractPhase

\* A replacement within one phase, without a submission, is a stuttering step.
LEMMA SamePhaseRefines ==
  ASSUME IInv, NEW k \in DOMAIN records, NEW r \in TradeRecord,
         records' = [records EXCEPT ![k] = r],
         submitted' = submitted,
         PhaseOf(r) = PhaseOf(records[k])
  PROVE  UNCHANGED Promise!pvars
<1>1. AbstractPhase' = AbstractPhase
  BY ReplaceMovesPhase DEF AbstractPhase
<1>. QED
  BY <1>1 DEF Promise!pvars, AbstractPhase

\* Any other replacement without a submission is a move of the phase.
LEMMA MoveRefines ==
  ASSUME IInv, NEW k \in DOMAIN records, NEW r \in TradeRecord,
         records' = [records EXCEPT ![k] = r],
         submitted' = submitted,
         NEW from, PhaseOf(records[k]) \in from
  PROVE  k \in Commitments /\ Promise!Move(k, from, PhaseOf(r))
  BY ReplaceMovesPhase DEF Promise!Move, AbstractPhase

\* The phase by lifecycle state, and by txid for a failed record.
LEMMA PhaseOfStates ==
  ASSUME NEW r \in TradeRecord
  PROVE  /\ r.state \in {"CREATED", "VERIFIED", "SETTLEMENT_CONSTRUCTED"} =>
              PhaseOf(r) = "idle"
         /\ r.state = "SUBMITTED" => PhaseOf(r) = "inFlight"
         /\ r.state \in {"CONFIRMED", "CONSUMED"} => PhaseOf(r) = "settled"
         /\ r.state = "EXPIRED" => PhaseOf(r) = "closed"
         /\ r.state = "FAILED" /\ r.prior_txid = None => PhaseOf(r) = "idle"
         /\ r.state = "FAILED" /\ r.prior_txid # None => PhaseOf(r) = "abandoned"
  BY DEF PhaseOf

-----------------------------------------------------------------------------
(* One lemma per kind of step.                                             *)

AbstractStep == [Promise!Next]_(Promise!pvars)

\* A refusal that changes no record is a stuttering step.
LEMMA RefuseRefines ==
  ASSUME NEW error, Refuse(error)
  PROVE  AbstractStep
  BY UnchangedRefines DEF Refuse, history, AbstractStep

\* Expiry, by the gate or by the sweep, closes the commitment.
LEMMA ExpiryRefines ==
  ASSUME IInv, NEW k \in Commitments,
         At(k, {"CREATED", "VERIFIED", "SETTLEMENT_CONSTRUCTED", "FAILED"}),
         records' = [records EXCEPT ![k] = [records[k] EXCEPT !.state = "EXPIRED"]],
         submitted' = submitted
  PROVE  AbstractStep
<1>. DEFINE r == [records[k] EXCEPT !.state = "EXPIRED"]
<1>1. /\ k \in DOMAIN records
      /\ records[k] \in TradeRecord
  BY DEF At, IInv, TypeOK
<1>2. r \in TradeRecord /\ PhaseOf(r) = "closed"
  <2>1. r \in TradeRecord /\ r.state = "EXPIRED"
    BY <1>1 DEF TradeRecord, TradeLifecycleState
  <2>. QED
    BY <2>1, PhaseOfStates
<1>3. PhaseOf(records[k]) \in {"idle", "abandoned"}
  BY <1>1, PhaseOfStates DEF At
<1>. HIDE DEF r
<1>4. Promise!Move(k, {"idle", "abandoned"}, "closed")
  BY <1>1, <1>2, <1>3, MoveRefines DEF r
<1>. QED
  BY <1>4 DEF AbstractStep, Promise!Next, Promise!Close

\* A call refused by the expiry gate closes the commitment.
LEMMA GateRefines ==
  ASSUME IInv, NEW k \in Commitments, NEW from, NEW now,
         from \subseteq {"CREATED", "VERIFIED", "SETTLEMENT_CONSTRUCTED", "FAILED"},
         ExpireIfElapsed(k, from, now)
  PROVE  AbstractStep
  BY ExpiryRefines DEF ExpireIfElapsed, At, history

\* An accepted step between two lifecycle states of one phase.
LEMMA WithinPhaseRefines ==
  ASSUME IInv, NEW k \in Commitments, NEW r \in TradeRecord,
         k \in DOMAIN records, Accept(k, r), submitted' = submitted,
         PhaseOf(r) = PhaseOf(records[k])
  PROVE  AbstractStep
  BY SamePhaseRefines DEF Accept, AbstractStep

\* create is invisible: no record and a CREATED record are both idle.
LEMMA CreateRefines ==
  ASSUME IInv, NEW k \in Commitments, NEW expiry \in Instants, Create(k, expiry)
  PROVE  AbstractStep
<1>1. CASE k \in DOMAIN records /\ Refuse(Refusal(k))
  BY <1>1, RefuseRefines
<1>2. CASE /\ k \notin DOMAIN records
           /\ records' = [c \in DOMAIN records \cup {k} |->
                            IF c = k THEN NewRecord(expiry) ELSE records[c]]
           /\ UNCHANGED history
  <2>1. /\ DOMAIN records' = DOMAIN records \cup {k}
        /\ records'[k] = NewRecord(expiry)
        /\ \A c \in DOMAIN records : records'[c] = records[c]
    BY <1>2
  <2>2. PhaseOf(NewRecord(expiry)) = "idle"
    BY DEF PhaseOf, NewRecord
  <2>3. \A c \in Commitments : Phase(c)' = Phase(c)
    BY <1>2, <2>1, <2>2 DEF Phase
  <2>. QED
    BY <1>2, <2>3 DEF AbstractStep, Promise!pvars, history
<1>. QED
  BY <1>1, <1>2 DEF Create

\* verify is invisible unless the gate closes the commitment.
LEMMA VerifyRefines ==
  ASSUME IInv, NEW k \in Commitments, NEW now \in Instants, Verify(k, now)
  PROVE  AbstractStep
<1>1. CASE RefuseUnlessAt(k, {"CREATED"})
  BY <1>1, RefuseRefines DEF RefuseUnlessAt
<1>2. CASE ExpireIfElapsed(k, {"CREATED"}, now)
  BY <1>2, GateRefines
<1>3. CASE /\ Live(k, {"CREATED"}, now)
           /\ Accept(k, [records[k] EXCEPT !.state = "VERIFIED",
                                           !.failure_reason = None])
           /\ submitted' = submitted
  <2>. DEFINE r == [records[k] EXCEPT !.state = "VERIFIED", !.failure_reason = None]
  <2>1. /\ k \in DOMAIN records
        /\ records[k] \in TradeRecord
        /\ records[k].state = "CREATED"
    BY <1>3 DEF Live, At, IInv, TypeOK
  <2>2. r \in TradeRecord /\ r.state = "VERIFIED"
    BY <2>1 DEF TradeRecord, TradeLifecycleState
  <2>. HIDE DEF r
  <2>. QED
    BY <1>3, <2>1, <2>2, PhaseOfStates, WithinPhaseRefines DEF r
<1>. QED
  BY <1>1, <1>2, <1>3 DEF Verify

\* acquire_construction, likewise.
LEMMA AcquireConstructionRefines ==
  ASSUME IInv, NEW k \in Commitments, NEW now \in Instants,
         AcquireConstruction(k, now)
  PROVE  AbstractStep
<1>1. CASE RefuseUnlessAt(k, Acquirable)
  BY <1>1, RefuseRefines DEF RefuseUnlessAt
<1>2. CASE ExpireIfElapsed(k, Acquirable, now)
  BY <1>2, GateRefines DEF Acquirable
<1>3. CASE /\ Live(k, Acquirable, now)
           /\ Accept(k, [records[k] EXCEPT !.state = "SETTLEMENT_CONSTRUCTED"])
           /\ UNCHANGED history
  <2>. DEFINE r == [records[k] EXCEPT !.state = "SETTLEMENT_CONSTRUCTED"]
  <2>1. /\ k \in DOMAIN records
        /\ records[k] \in TradeRecord
        /\ records[k].state = "VERIFIED"
    BY <1>3 DEF Live, At, Acquirable, IInv, TypeOK
  <2>2. r \in TradeRecord /\ r.state = "SETTLEMENT_CONSTRUCTED"
    BY <2>1 DEF TradeRecord, TradeLifecycleState
  <2>3. submitted' = submitted
    BY <1>3 DEF history
  <2>. HIDE DEF r
  <2>. QED
    BY <1>3, <2>1, <2>2, <2>3, PhaseOfStates, WithinPhaseRefines DEF r
<1>. QED
  BY <1>1, <1>2, <1>3 DEF AcquireConstruction

\* The launch. That it is within the abstract budget is what the counters of
\* the inductive invariant are for.
LEMMA SubmitRefines ==
  ASSUME IInv, NEW k \in Commitments, NEW txid \in TxIds, NEW now \in Instants,
         Submit(k, txid, now)
  PROVE  AbstractStep
<1>1. CASE RefuseUnlessAt(k, {"SETTLEMENT_CONSTRUCTED"})
  BY <1>1, RefuseRefines DEF RefuseUnlessAt
<1>2. CASE ExpireIfElapsed(k, {"SETTLEMENT_CONSTRUCTED"}, now)
  BY <1>2, GateRefines
<1>3. CASE /\ Live(k, {"SETTLEMENT_CONSTRUCTED"}, now)
           /\ Accept(k, [records[k] EXCEPT !.state = "SUBMITTED",
                                           !.prior_txid = txid])
           /\ submitted' = [submitted EXCEPT ![k] = @ + 1]
  <2>. DEFINE r == [records[k] EXCEPT !.state = "SUBMITTED", !.prior_txid = txid]
  <2>1. /\ k \in DOMAIN records
        /\ records[k] \in TradeRecord
        /\ records[k].state = "SETTLEMENT_CONSTRUCTED"
    BY <1>3 DEF Live, At, IInv, TypeOK
  <2>2. r \in TradeRecord /\ r.state = "SUBMITTED"
    BY <2>1 DEF TradeRecord, TradeLifecycleState
  <2>3. records' = [records EXCEPT ![k] = r]
    BY <1>3 DEF Accept
  <2>4. submitted[k] <= MaxRetries
    <3>1. /\ submitted[k] + 1 <= verified[k]
          /\ verified[k] <= records[k].retry_count + 1
      BY <2>1 DEF IInv, CountersMatchState
    <3>2. records[k].retry_count \in 0..MaxRetries
      BY <2>1 DEF TradeRecord
    <3>3. submitted[k] \in Nat /\ verified[k] \in Nat /\ MaxRetries \in Nat
      BY ReplayStoreAssumption DEF IInv, TypeOK
    <3>. QED
      BY <3>1, <3>2, <3>3
  <2>. HIDE DEF r
  <2>5. /\ AbstractPhase[k] = "idle"
        /\ AbstractPhase' = [AbstractPhase EXCEPT ![k] = "inFlight"]
    <3>1. PhaseOf(records[k]) = "idle" /\ PhaseOf(r) = "inFlight"
      BY <2>1, <2>2, PhaseOfStates
    <3>2. /\ AbstractPhase[k] = PhaseOf(records[k])
          /\ AbstractPhase' = [AbstractPhase EXCEPT ![k] = PhaseOf(r)]
      BY <2>1, <2>2, <2>3, ReplaceMovesPhase
    <3>. QED
      BY <3>1, <3>2
  <2>6. Promise!Launch(k)
    BY <1>3, <2>4, <2>5 DEF Promise!Launch, AbstractPhase
  <2>. QED
    BY <2>6 DEF AbstractStep, Promise!Next
<1>. QED
  BY <1>1, <1>2, <1>3 DEF Submit

\* confirm settles the transaction in flight.
LEMMA ConfirmRefines ==
  ASSUME IInv, NEW k \in Commitments, Confirm(k)
  PROVE  AbstractStep
<1>1. CASE RefuseUnlessAt(k, {"SUBMITTED"})
  BY <1>1, RefuseRefines DEF RefuseUnlessAt
<1>2. CASE /\ At(k, {"SUBMITTED"})
           /\ Accept(k, [records[k] EXCEPT !.state = "CONFIRMED"])
           /\ submitted' = submitted
  <2>. DEFINE r == [records[k] EXCEPT !.state = "CONFIRMED"]
  <2>1. /\ k \in DOMAIN records
        /\ records[k] \in TradeRecord
        /\ records[k].state = "SUBMITTED"
    BY <1>2 DEF At, IInv, TypeOK
  <2>2. r \in TradeRecord /\ r.state = "CONFIRMED"
    BY <2>1 DEF TradeRecord, TradeLifecycleState
  <2>3. records' = [records EXCEPT ![k] = r]
    BY <1>2 DEF Accept
  <2>. HIDE DEF r
  <2>4. Promise!Move(k, {"inFlight"}, "settled")
    BY <1>2, <2>1, <2>2, <2>3, PhaseOfStates, MoveRefines
  <2>. QED
    BY <2>4 DEF AbstractStep, Promise!Next, Promise!Settle
<1>. QED
  BY <1>1, <1>2 DEF Confirm

\* consume is invisible: the trade is settled from confirm on.
LEMMA ConsumeRefines ==
  ASSUME IInv, NEW k \in Commitments, Consume(k)
  PROVE  AbstractStep
<1>1. CASE RefuseUnlessAt(k, {"CONFIRMED"})
  BY <1>1, RefuseRefines DEF RefuseUnlessAt
<1>2. CASE /\ At(k, {"CONFIRMED"})
           /\ Accept(k, [records[k] EXCEPT !.state = "CONSUMED"])
           /\ UNCHANGED history
  <2>. DEFINE r == [records[k] EXCEPT !.state = "CONSUMED"]
  <2>1. /\ k \in DOMAIN records
        /\ records[k] \in TradeRecord
        /\ records[k].state = "CONFIRMED"
    BY <1>2 DEF At, IInv, TypeOK
  <2>2. r \in TradeRecord /\ r.state = "CONSUMED"
    BY <2>1 DEF TradeRecord, TradeLifecycleState
  <2>3. submitted' = submitted
    BY <1>2 DEF history
  <2>. HIDE DEF r
  <2>. QED
    BY <1>2, <2>1, <2>2, <2>3, PhaseOfStates, WithinPhaseRefines DEF r
<1>. QED
  BY <1>1, <1>2 DEF Consume

\* A failure abandons a transaction in flight and is invisible otherwise.
LEMMA FailRefines ==
  ASSUME IInv, NEW k \in Commitments, NEW reason \in FailureReason, Fail(k, reason)
  PROVE  AbstractStep
<1>1. CASE RefuseUnlessAt(k, Failable)
  BY <1>1, RefuseRefines DEF RefuseUnlessAt
<1>2. CASE /\ At(k, Failable)
           /\ Accept(k, [records[k] EXCEPT
                           !.prior_txid = TxidAfterFailure(records[k]),
                           !.state = "FAILED",
                           !.failure_reason = reason])
           /\ UNCHANGED history
  <2>. DEFINE r == [records[k] EXCEPT
                      !.prior_txid = TxidAfterFailure(records[k]),
                      !.state = "FAILED",
                      !.failure_reason = reason]
  <2>1. /\ k \in DOMAIN records
        /\ records[k] \in TradeRecord
        /\ records[k].state \in Failable
    BY <1>2 DEF At, IInv, TypeOK
  <2>2. TxidAfterFailure(records[k]) \in TxIds \cup {None}
    BY <2>1 DEF TxidAfterFailure, TradeRecord
  <2>3. /\ r \in TradeRecord
        /\ r.state = "FAILED"
        /\ r.prior_txid = TxidAfterFailure(records[k])
    BY <2>1, <2>2 DEF TradeRecord, TradeLifecycleState
  <2>4. records' = [records EXCEPT ![k] = r] /\ submitted' = submitted
    BY <1>2 DEF Accept, history
  <2>. HIDE DEF r
  <2>5. CASE records[k].state = "SUBMITTED"
    <3>1. r.prior_txid # None
      BY <2>1, <2>3, <2>5 DEF TxidAfterFailure, IInv, BookkeepingMatchesState
    <3>2. Promise!Move(k, {"inFlight"}, "abandoned")
      BY <2>1, <2>3, <2>4, <2>5, <3>1, PhaseOfStates, MoveRefines
    <3>. QED
      BY <3>2 DEF AbstractStep, Promise!Next, Promise!Abandon
  <2>6. CASE records[k].state # "SUBMITTED"
    <3>1. PhaseOf(r) = PhaseOf(records[k])
      BY <2>1, <2>3, <2>6, PhaseOfStates DEF TxidAfterFailure, Failable
    <3>. QED
      BY <2>1, <2>3, <2>4, <3>1, SamePhaseRefines DEF AbstractStep
  <2>. QED
    BY <2>5, <2>6
<1>. QED
  BY <1>1, <1>2 DEF Fail

\* The sweep closes the commitment, or is refused.
LEMMA ExpireRefines ==
  ASSUME IInv, NEW k \in Commitments, NEW now \in Instants, Expire(k, now)
  PROVE  AbstractStep
<1>1. CASE RefuseUnlessAt(k, Expirable)
  BY <1>1, RefuseRefines DEF RefuseUnlessAt
<1>2. CASE Refuse("InvalidStateTransition")
  BY <1>2, RefuseRefines
<1>3. CASE /\ At(k, Expirable)
           /\ Accept(k, [records[k] EXCEPT !.state = "EXPIRED"])
           /\ UNCHANGED history
  BY <1>3, ExpiryRefines DEF Expirable, Accept, history
<1>. QED
  BY <1>1, <1>2, <1>3 DEF Expire

\* A retry reconciles an abandoned transaction, if there is one.
LEMMA RetryRefines ==
  ASSUME IInv, NEW k \in Commitments, NEW acknowledged \in TxIds \cup {None},
         NEW now \in Instants, RetryAfterFailure(k, acknowledged, now)
  PROVE  AbstractStep
<1>1. CASE RefuseUnlessAt(k, Retryable)
  BY <1>1, RefuseRefines DEF RefuseUnlessAt
<1>2. CASE ExpireIfElapsed(k, Retryable, now)
  BY <1>2, GateRefines DEF Retryable
<1>3. CASE Refuse("RetryBudgetExhausted") \/ Refuse("UnreconciledPriorSubmission")
  BY <1>3, RefuseRefines
<1>4. CASE /\ Live(k, Retryable, now)
           /\ ~BudgetSpent(records[k])
           /\ Accept(k, Retried(records[k]))
           /\ UNCHANGED history
  <2>. DEFINE r == Retried(records[k])
  <2>1. /\ k \in DOMAIN records
        /\ records[k] \in TradeRecord
        /\ records[k].state = "FAILED"
    BY <1>4 DEF Live, At, Retryable, IInv, TypeOK
  <2>2. r \in TradeRecord /\ r.state = "CREATED"
    <3>1. records[k].retry_count + 1 \in 0..MaxRetries
      BY <1>4, <2>1, ReplayStoreAssumption DEF BudgetSpent, TradeRecord
    <3>2. r = [records[k] EXCEPT !.state = "CREATED", !.failure_reason = None,
                                 !.prior_txid = None,
                                 !.retry_count = records[k].retry_count + 1]
      BY <2>1 DEF Retried, TradeRecord
    <3>. HIDE DEF r
    <3>. QED
      BY <2>1, <3>1, <3>2 DEF TradeRecord, TradeLifecycleState
  <2>3. records' = [records EXCEPT ![k] = r] /\ submitted' = submitted
    BY <1>4 DEF Accept, history
  <2>. HIDE DEF r
  <2>4. CASE records[k].prior_txid = None
    BY <2>1, <2>2, <2>3, <2>4, PhaseOfStates, SamePhaseRefines DEF AbstractStep
  <2>5. CASE records[k].prior_txid # None
    <3>1. submitted[k] <= MaxRetries
      BY <1>4, <2>1, ReplayStoreAssumption
         DEF BudgetSpent, IInv, TypeOK, TradeRecord, CountersMatchState
    <3>2. k \in Commitments /\ Promise!Move(k, {"abandoned"}, "idle")
      BY <2>1, <2>2, <2>3, <2>5, PhaseOfStates, MoveRefines
    <3>. QED
      BY <3>1, <3>2 DEF AbstractStep, Promise!Next, Promise!Reconcile
  <2>. QED
    BY <2>4, <2>5
<1>. QED
  BY <1>1, <1>2, <1>3, <1>4 DEF RetryAfterFailure

-----------------------------------------------------------------------------
(* The theorems.                                                           *)

\* Every step of the store is a step of the promise or stutters.
LEMMA NextRefines == IInv /\ [Next]_vars => AbstractStep
<1>1. ASSUME IInv, NEW k \in Commitments,
             \/ \E expiry \in Instants : Create(k, expiry)
             \/ \E now \in Instants : Verify(k, now)
             \/ \E now \in Instants : AcquireConstruction(k, now)
             \/ \E txid \in TxIds, now \in Instants : Submit(k, txid, now)
             \/ Confirm(k)
             \/ Consume(k)
             \/ \E reason \in FailureReason : Fail(k, reason)
             \/ \E now \in Instants : Expire(k, now)
             \/ \E acknowledged \in TxIds \cup {None}, now \in Instants :
                   RetryAfterFailure(k, acknowledged, now)
      PROVE  AbstractStep
  BY <1>1, CreateRefines, VerifyRefines, AcquireConstructionRefines,
     SubmitRefines, ConfirmRefines, ConsumeRefines, FailRefines,
     ExpireRefines, RetryRefines
<1>2. UNCHANGED vars => AbstractStep
  BY UnchangedRefines DEF vars, AbstractStep
<1>. QED
  BY <1>1, <1>2 DEF Next

\* The store implements SettlementPromise: one launch at a time, at most
\* MaxRetries + 1 of them, nothing after settlement or closure.
THEOREM Refinement == Spec => KeepsPromise
<1>1. IInv /\ [Next]_vars => [Promise!Next]_(Promise!pvars)
  BY NextRefines DEF AbstractStep
<1>. QED
  BY InitRefines, <1>1, InductiveInvariant, PTL DEF Spec, KeepsPromise, Promise!Spec

=============================================================================
