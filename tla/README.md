# ZWA protocol: specifications, model checking and proofs

This directory is a TLA+ development of the ZWA protocol repository, kept beside
its code, in five parts:

- the matcher-side replay store as `crates/protocol/src/replay.rs` implements it,
  alone and composed with the workers, clock, chain and watchers that will use it;
- the commitment engine and the two circuits that recompute its commitments, with
  provers that alter witnesses and exchange parts of them;
- signed-root envelopes on their way from the authorities to the matcher;
- the matcher's gate in front of the store, while roots rotate and windows end;
- the text forms: decimal field elements with the limb arithmetic under them, and
  hexadecimal byte values.

TLC checks all of them on small instances. TLAPS proves for every value of the
constants: the store's safety and its refinement of a small abstract promise; that the
settlement environment uses it as specified and settles a trade at most once; that the
commitments bind, byte strings of any length included; that the circuits accept honest
provers and are sound about credentials, issuances and policies, Merkle membership
included; that signed roots are read back as what was signed, and their delivery
refines a register of rising versions; what the gate promises while roots rotate; and
that texts are read and printed exactly, with every carry and remainder under them.

Paths below are relative to the repository root (`src/` in `PROJECT.json`).

## 1. Inventory

| Component | Code | State it keeps | Operations | Here |
|---|---|---|---|---|
| Replay store | `crates/protocol/src/replay.rs`, `lifecycle.rs`, `TradeExpiry` in `numbers.rs` | one record per trade commitment: intent, lifecycle state, failure reason, prior txid, retry count | `create`, `verify`, `acquire_construction`, `submit`, `confirm`, `consume`, `fail`, `expire`, `retry_after_failure` | modelled, checked, proved |
| Matcher workers, settlement, chain, watchers | none (`matcher/`, `crates/zcash-adapter/` hold a README); obligations in `replay.rs` comments and `docs/architecture.md` sections 15-19 | what a worker is doing, transactions, real time | the calls above, construction, broadcast, crash | modelled as environment, safety proved |
| Root envelopes | `crates/protocol/src/envelope.rs`, `crates/credentials/src/envelope.rs`, `ids.rs` | none (values) | validity windows, versions, payload encoding, structural validation | modelled, checked, proved |
| Proof interfaces | `crates/protocol/src/proof.rs` | none | proof size bounds, public inputs, verifier traits | modelled in the gate, checked, proved |
| Combined gate | none; `docs/architecture.md` section 15, the comment on `verify` (`replay.rs:177-183`) | the roots in use, what a gate worker has looked at | look at roots, check proofs and commitment, call `verify` or `fail` | modelled as environment but for recipient control, proved |
| Credentials | `crates/credentials/src/credential.rs`, `values.rs` | none | leaf, approved receiver, expiry cover, policy codes | modelled, checked, proved |
| Commitment engine | `crates/commitments/src/` | none | limb encodings, staged Poseidon commitments, recomputation | modelled, checked, proved |
| Field elements | `crates/protocol/src/field.rs`, `values.rs` | loop variables | decimal parsing and printing, limb arithmetic, reduction check | parsing and printing modelled, checked, proved |
| Byte encodings | `crates/protocol/src/bytes.rs` | loop variables | `from_slice`, `from_hex`, `to_hex`, receiver layout | modelled, checked, proved |
| Checked arithmetic | `crates/protocol/src/numbers.rs` | none | expiry test, `checked_add_seconds`, `seconds_until`, version minimum | expiry test and version minimum modelled; the two additions have no callers |
| Eligibility circuit | `circuits/eligibility/`, `circuits/shared/zk-origin/` | none (a relation) | ranges, policy tuple, two memberships, expiry comparison, exact trade | modelled, checked, proved |
| Provenance circuit | `circuits/provenance/` | none (a relation) | ranges, membership, exact trade | modelled, checked, proved |
| JS schema, fixtures | `circuits/shared/*.js`, `scripts/` | none | Merkle trees and paths, policy and issuance leaves, circuit inputs; a second implementation of the commitments | trees, leaves and inputs modelled |
| RFQ, frontend | READMEs only | - | - | no code |

How they interact: the RFQ layer agrees an intent; the commitment engine turns
it into the trade commitment that is the public input of both proofs and the
key of the replay store; the matcher authenticates the root envelopes, verifies
the proofs against the recomputed commitment, and only then calls `verify`;
construction, submission and confirmation follow through the store. All state
that changes over time is in the replay store, which is why it comes first. The
other components are pure functions on values; what can go wrong in them is
injectivity, ranges and boundaries, except that roots rotate and envelopes
expire between the moment they are checked and the moment a trade settles, and
that envelopes are delivered by a network.

What is hard here, and where (the full list is `hazards` in `PROJECT.json`):

- callers read the clock before they call, so readings are stale and out of order;
- the construction state is a lock without a holder, and `fail` releases it for anyone;
- `confirm` and `fail` do not say which submission they are about, and reports are
  late and repeated;
- a retry is safe only because it must name the txid it gives up;
- the expiry gate changes the record in the same call that it refuses;
- a worker may crash while it holds the construction state;
- a transaction submitted in time may be mined after the expiry;
- the commitment is staged in four places (Rust, JavaScript, two circuits): a field that
  is missing in all of them breaks the binding without breaking a positive test, and one
  that is exchanged in some of them locks honest provers out;
- an Orchard receiver is 43 bytes in 16-byte limbs, and byte strings are padded before
  they are hashed;
- a circuit gadget reports its verdict in an output that the template must constrain,
  and its comparator is exact only for operands that are range-checked elsewhere;
- the two proofs share nothing but the trade commitment;
- decimal texts are read into limbs whose carries must not be lost at 256 bits;
- a structurally valid envelope does not say when it was checked, so its root may be
  adopted after its window, or over a newer one;
- one identifier may sign both kinds of root, and only the bytes keep them apart;
- revocation is nothing but a rotation of the credential root, and `verify` is told
  neither the roots nor the attempt its evidence was for;
- `create` takes any intent for a commitment, and all expiry gates read that intent.

What makes the store correct: a trade settles at most once, is confirmed only
for what was mined, never starts new work after its expiry, never loses track of
a transaction that may be mined, uses a bounded number of attempts with a
verification each, and always comes to an end. What makes the commitments correct:
they tell all intents, credentials, receivers and byte strings apart. What makes the
circuits correct: they accept an honest prover exactly when the
Rust predicates on the credential hold and its tuple is the policy entry asked for, and
whatever they accept is authorized by a credential for the very subject and receiver, and by an issuance and a policy entry for the very asset.
What makes the roots correct: only what an authority signed for that use comes into
use, inside its window, and never back to an older version; and a trade is verified
and submitted only while roots and credential support it, up to a stated staleness.

## 2. Modules

| Module | Role |
|---|---|
| `SettlementPromise` | abstract specification: what the store promises for a commitment, in five phases and a launch counter |
| `ReplayStore` | the store: one action per call, its properties, the mapping to `SettlementPromise` |
| `MCReplayStore` | symmetry for the runs of `ReplayStore` |
| `ReplayStoreProofs` | inductive invariant, invariants and action properties proved; `ReplayStore` implements `SettlementPromise` |
| `Settlement` | the store composed with workers, clock, chain and watchers |
| `MCSettlement` | symmetry for the runs of `Settlement` |
| `SettlementProofs` | the composition uses the store as specified; its safety |
| `Commitments` | intents, credentials, limb encodings and every staged commitment, over an ideal hash |
| `CommitmentBinding` | a value and a copy that is amended step by step, and the commitments of both |
| `CommitmentsProofs` | encodings and commitments are injective, lemma by lemma along the stages; byte strings of any length |
| `CommitmentBindingProofs` | the invariants of `CommitmentBinding` proved |
| `Circuits` | the constraints of both circuits and their gadgets as predicates; Merkle trees, paths and circuit inputs |
| `Witnesses` | provers, the intent and the matcher's acceptance of both proofs |
| `MCWitnesses` | credentials, policies, issuances and requests for the runs of `Witnesses` |
| `WitnessesProofs` | agreement of the circuits with the Rust commitments and predicates; Merkle membership; completeness and soundness |
| `Numerals` | the number a sequence of digits denotes, and powers |
| `FieldText` | decimal parsing and printing, one step per round of a loop |
| `HexText` | hexadecimal parsing and printing of the byte types, slices, the receiver's layout |
| `TextProofs` | numbers and limbs; verdicts, printed texts and round trips of `FieldText` and `HexText` |
| `RootMetadata` | version and validity window: what is refused, what a window says of an instant |
| `RootEnvelope` | containers, payloads, canonical bytes and the structural check of both kinds of envelope |
| `RootRegister` | abstract specification: authorities announce roots under rising versions, the matcher follows |
| `RootDelivery` | authorities, a network without order and receivers that crash; shown to implement `RootRegister` |
| `RootDeliveryProofs` | canonical bytes are read back; safety of the delivery and its refinement of `RootRegister` |
| `MCRootDelivery` | bytes, byte strings and identifiers for the run of `RootDelivery` |
| `ComplianceGate` | the gate, composed from `ReplayStore`, `RootRegister`, `RootMetadata` and the proof interfaces |
| `ComplianceGateProofs` | the gate uses the store as specified; what its roots, windows and evidence guarantee |
| `MCComplianceGate` | versions and terms for the run of `ComplianceGate` |

### ReplayStore and the code

`records` is the `BTreeMap`; a record has the code's fields except that the
intent is reduced to the one field the store reads, its `expiry`, and the
commitment is the key. `reply` is the `Result` of the last call without the
payloads of the errors. `verified`, `submitted` and `confirmed` are history
variables that count accepted calls; no action reads them, only properties do.

Every call takes `&mut self` and runs to completion, so it is one action. Each
action lists the outcomes of the call in the code's order:

| Code | Model |
|---|---|
| `record_mut(..)?`, `deny_consumed(..)?`, state test and `reject` | `RefuseUnlessAt(k, from)` with the error given by `Refusal` |
| `expire_if_elapsed(record, now)?` | `ExpireIfElapsed(k, from, now)`: changes the state **and** answers `ExpiredTrade` |
| passing both | `Live(k, from, now)` |
| the assignments and `Ok(*record)` | `Accept(k, record)` |
| `state != Verified` / `matches!(state, ..)` | the sets `Acquirable`, `Failable`, `Expirable`, `Retryable` |
| `retry_count >= max_retries`, `prior_txid != acknowledged_txid` | `BudgetSpent`, `Acknowledges` |
| the reset in `fail`, the four assignments in `retry_after_failure` | `TxidAfterFailure`, `Retried` |

Every call takes any instant as `now`, independently of earlier ones: the code
requires nothing of successive readings, and they come from different workers.
`expire` differs from the gate as in the code: before the expiry it is refused.
`create` does not look at the expiry, as in the code. The operators marked
"mutated form of" describe plausible errors in the code, one for each property;
nothing in the specification uses them.

### Settlement and its environment

Only the store is in the repository, so everything else in `Settlement` is an
assumption, and it is kept as weak as the properties allow:

- `Matchers` workers share the store. A worker reads the clock (`ReadClock`),
  later makes one call with that reading, builds a candidate if it acquired the
  construction state, reads the clock again, submits, and broadcasts if `submit`
  answered `Ok`. It may crash between any two of these (`Crash`), which forgets
  its candidate and never releases the construction state.
- A transaction (`chain`) is built, sent to the network, and mined or dead; a
  dead one can no longer be mined. `carries` says which trade it settles.
- Watchers report mined transactions late and again (`ReportMined` calls
  `confirm`, which is not told the txid), and failures (`ReportFailure`).
- A retry names a txid only once that transaction is dead: the reconciliation
  that `retry_after_failure` asks its caller to have done.
- `LateFailures = TRUE` lets anybody call `fail` at any time, for decisions that
  were right about an earlier state of the trade. With `FALSE` a failure still
  describes the trade when the call arrives (`FailureIsCurrent`).

### Commitments, and what is kept of Poseidon

A field element is a term: the image of an integer (`FromU64`), of a limb
(`FromU128`), of a domain tag, or a hash of elements. Two hashes are equal exactly
when their inputs are, so Poseidon is ideal; what remains, and what the properties
are about, is what this code decides: which values go into which hash, in which
order, from which bytes. A limb is the padded byte array that `from_le_bytes` reads;
the numeric value adds nothing, since that reading is one to one. Widths are
constants: `ChunkWidth` for 16 bytes, `ReceiverLen` for 43, `Byte` for `u8`.
`CommitmentBinding` starts from the zero value of each kind and amends any byte,
amount, instant, field element or limb, and may move the original along (`Recommit`).

### Circuits and Witnesses

A circuit is a relation, so its template is a predicate on a witness record, one
conjunct per constraint, in the template's order; `AcceptsEligibility` and
`AcceptsProvenance` take the two public inputs. Signals keep their two natures:

| Circuit | Model |
|---|---|
| a numeric signal | any element `0 .. Modulus - 1`, also those wider than 64 bits |
| a limb signal | a limb, or `WideLimb` for every element that 128 bits cannot hold |
| `Num2Bits(n)` | the signal is below `2^n` (`FitsIn`, `Is128Bits`, `Is88Bits`) |
| `ZKGreaterEqThan(64)` | circomlib's `LessThan` on 65 bits modulo the field, with the `+ 1` that could wrap |
| `ZKMux1`, `IsBinary`, `MerkleProofVerifier` | `LevelHashes`: one hash per level of the path, after `index * (index - 1) = 0` for each level |
| the tag that distinguishes a hash | `Domain(...)`, by the name of the tag |

`Witnesses` starts from a request: a prover's credential, a receiver, an issuance
and a policy entry, an expiry; honest witnesses are made for it with the JavaScript
schema's trees and paths. Provers then alter one signal at a time (to every value of
its small domain, to the least number wider than 64 bits, to the largest element, to
any tree node), or present another subject's credential with its path, another
tuple, another issuance, another receiver. `Agree` moves the intent to whatever the
eligibility signals describe, as counterparties who collude would; so a soundness
property cannot hold merely because the intent stays put. The roots are the matcher's.

### FieldText

`from_decimal_str` and `to_decimal_string` step by step: one action per round of the
digit loop (`mul_add_small`, with its carry chain), the reduction check, one action
per division (`div_rem_small`). `Radix`, `LimbBase`, `LimbCount` and `Modulus` stand
for 10, `2^64`, 4 and the BN254 modulus; bytes are kept in groups of one limb.

### HexText

`from_hex` pair by pair, with the two ways `decode_hex` gives nothing (`OddLength`,
`NotHex`), then `from_slice`, then `to_hex`, and `from_hex` again on what was printed.
`type` chooses between the two Rust types, which have the same code but for the length.
A character is a digit with a case; `Other` is every byte that is no hexadecimal
digit. `Base` stands for 16, so `hi << 4 | lo` is `hi * Base + lo`.

### Root envelopes and their delivery

`RootEnvelope` keeps the signed bytes concrete, since the properties are about them:
`EncodePayload` is the concatenation of `encode_payload`, with the length of the
identifier cut to one byte as `as u8` does. A payload is a record whose `kind` is its
Rust type. Constructors and checks return `"Ok"` or the name of the problem, and the
payloads that exist are those the constructors accept.

In `RootDelivery` an authority signs a payload's canonical bytes with the key of its
identifier (`Publish`). A receiver is offered any payload together with any signature
ever made whose key and bytes match it: a signature made over one payload gets
another one in exactly when both have the same bytes, which is what the properties
would notice. Nothing is consumed by being delivered, so loss, repetition and
reordering are all there. `Receive` is `validate_structure_at` and the
signature check; `Finish` adopts the root if its version is the highest the slot has
seen, as the comment on `RootVersion` leaves it to the matcher (`numbers.rs:38-39`);
between the two the clock and the other receiver move, and a `Crash` forgets what
was held. A slot is a kind and an identifier.

### ComplianceGate

| Gate | Model |
|---|---|
| `validate_structure_at` of both current roots | `LookAtRoots`, which keeps the roots and the instant |
| `ProvenanceVerifier::verify`, `EligibilityVerifier::verify`, `verify_trade_commitment` | `CheckProofs`, both about the commitment of the stored intent |
| `ReplayStore::verify` | `MarkVerified`, with a clock reading of its own |
| a refusal by the gate | `Reject`, which calls `fail` |
| the other calls | `Elsewhere`, by others, at any time, with readings up to `MaxStaleness` old |
| `create` | `Open`, with the right intent or another one |
| signed roots and their rotation | `Announce` and `Rotate`, steps of `RootRegister` |

A root is the set of trades it supports. Dropping a trade from the next root revokes
it. Proof material ranges over containers of every size at the bounds, for every
statement, parsable or not, and for trades outside the model; the verifiers do what
the comments of the traits ask of an implementation: check both public inputs.
`terms` is what a commitment commits to: the trade's expiry and that of the
recipient's credential.

## 3. Runs

| Run | Configuration | What it shows |
|---|---|---|
| `store` | 2 commitments, 2 txids, instants 0..1, retry budget 1, symmetry | `TypeOK`, `BookkeepingMatchesState`, `AttemptsWithinBudget`, `ConfirmedAtMostOnce`, `RefusalsLeaveRecordsAlone`, `TerminalRecordsAreFinal`, `TxidForgottenOnlyByAcknowledgement`, and `KeepsPromise` (refinement) |
| `settlement` | 1 commitment, 3 txids, 2 workers, clock 0..3, staleness 1, late failures | `SettlementInv`, `SettlesAtMostOnce`, `ExpiredOnlyAfterExpiry`, `SubmittedInTime` |
| `settlement_fair` | 1 commitment, 2 txids, 2 workers, clock 0..2, staleness 1, current failures only, fairness, no symmetry | `OneConstructor`, `MinedTradesAreNotStranded`, `MinedIsConsumed`, `EveryTradeEnds` |
| `commitment_binding` | bytes 0..1, chunks of 2, receivers of 5, strings up to 4 (`MaxLen`), 4 amendments (`MaxEdits`) | `BindingInv`, `CommitmentBindsIntent`, `LeafBindsCredential`, `ReceiverIsBound`, `EncodingsRoundTrip` |
| `witnesses` | 4 credentials, 2 policies, 2 issuances; all 64 requests with 1 alteration, 2 of them with 2 (`MaxEdits`) | `WitnessesInv`, `EligibilityIsSound`, `ProvenanceIsSound`, `JoinedByCommitment`, `ConstraintsDescribeIntents` |
| `field_text` | radix 3, three limbs of base 4, modulus 53, all texts up to 5 characters | `FieldTextInv`, `VerdictIsExact`, `PrintedIsCanonical`, `DivisionShrinks` |
| `root_delivery` | bytes 0..2, words of 2 bytes, identifiers of 1 and 2 bytes (and one empty, one too long), 1 root, 4 windows (`Windows`), versions 0..2, clock 0..2, 2 publications, 2 receivers, staleness 1, fairness, no symmetry | `RootDeliveryInv`, `AdoptedInsideItsWindow`, `ImplementsRegister` (refinement), `AnnouncementsGetThrough` |
| `compliance_gate` | 1 trade with 3 possible terms, 1 txid, retry budget 1, 1 gate worker, 1 issuance root and 2 credential roots of every content, windows 1 long, clock 0..3, roots announced until 1 (`LastAnnouncement`), staleness 1 | `ComplianceGateInv`, `VerifiedUnderLiveRoots`, `RotationRevokes`, `SubmittedWithinCredential` |
| `hex_text` | base 3 with one letter, asset of 1 byte, receiver of 1 + 2 bytes, all texts up to 7 characters and slices up to 3 bytes | `HexTextInv`, `PrintedIsFoldedText` |
| `store_last_failure` | expects a violation of `LastFailureStaysRecorded` | finding 1 |
| `settlement_stranded` | expects a violation of `ExpirySparesInFlight` | finding 2 |
| `field_text_padded` | expects a violation of `AcceptedTextIsCanonical` | finding 3 |

Where facts are about one thing they are checked as one invariant, a conjunction of
named parts: `SettlementInv` (`SettlementTypeOK`, `ConfirmedMeansMined`,
`LiveTransactionsAreTracked`), `BindingInv` (`BindingTypeOK`, `BytesAreBound`),
`WitnessesInv` (`WitnessesTypeOK`, `HonestAcceptedIffEligible`), `FieldTextInv`
(`FieldTextTypeOK`, `LimbsHoldPrefix`), `RootDeliveryInv` (`RootDeliveryTypeOK`,
`RootsInUseWereSigned`, `SignedBytesDecode`), `ComplianceGateInv`
(`ComplianceGateTypeOK`, `GatedByCommittedExpiry`), `HexTextInv` (`HexTextTypeOK`,
`HexVerdictIsExact`, `ReceiverSplitsAsText`).

Why the bounds are enough. The store compares txids and commitments only for
equality and instants only with `>`, so two txids (the recorded one and another)
and two instants (an expiry of 0 is met or over, one of 1 is not yet over at both)
reach every outcome of a single call. Calls for different commitments meet only in
the map, hence two of them. A budget of 1 has one retry granted and one refused; that
nothing changes with the default of 3, or any other, is what the proofs show.

In `Settlement` two workers make a lock holder and an
intruder; in `settlement` three txids let both attempts of a budget of 1 have a
candidate and one more be built beside them. `settlement_fair` has one for each of the
two attempts, and a clock that passes the expiries 0 and 1. The run that states lateness (`SubmittedInTime`)
needs the clock to pass the expiry by more than `MaxStaleness` (3 > 0 + 1). All
bounds of these runs are constants of the configurations: `Instants` or `MaxTime`,
`MaxRetries`, `MaxStaleness`, and the number of commitments, txids and workers.
`MaxStaleness` is also enforced in `Tick`: the clock waits for a worker
whose reading has reached that age, which is the definition of the bound.

Chunks of two bytes and a receiver of five keep what matters of 16 and 43: two full
limbs and a narrower one, order within a limb, and padding. In the trees of
`MCWitnesses` two credentials differ only in subject and expiry, receivers are
approved for different subjects, and each policy permits the pairs that the other
permits only crosswise, so that a class from one entry and a jurisdiction from
another is a case that happens. 64-bit numbers are 0..1 there (`Span` 2) in a field of
prime order 11, which is above `4 * Span` as the comparator needs and leaves elements
that are wider than 64 bits; both sides of the expiry boundary occur. Two alterations
are what the interesting deviations take: a signal and the one that should expose it.
In `FieldText` a text of five digits reaches 242, past both the modulus 53 and the
capacity 64 of the limbs, so every verdict occurs, at its boundary too; `LimbBase` is
at least `Radix`, as in the code, so a quotient fits a limb.

In `MCRootDelivery` a byte has three values, so the tags 1 and 2, a zero version and a
length fit it, and the identifier that is too long has a length that is cut to 0 when
the bound is dropped. Two publications and two receivers are what every race takes: an
older and a newer root of one kind, or a root of each kind under one identifier. The
content of a root is copied and never looked at, so one content is enough; identifiers of
two lengths make the one-byte length matter. Windows are of one second,
at two places, of the whole clock, and inverted. In `MCComplianceGate` the clock
passes the end of the first windows by more than `MaxStaleness` (3 > 1 + 1), while the
longest terms can still be verified with a late reading (2), so a gate that does not look
at windows is found out; it passes the end of the shorter terms by more too (2 > 0 + 1); a
rotation can drop the trade and the clock pass that rotation by as much; and one of the
terms outlives its credential, so no valid eligibility proof exists for it. Roots
announced later than `LastAnnouncement` would only repeat this nearer the end of the
clock. Trades share
nothing but the roots there, and gate workers nothing but the record, on which
`Elsewhere` is already the second actor; hence one of each. In `HexText` texts go past
the length of the longer type by one character, which the odd length needs.

Deadlock is checked in the runs of `ReplayStore` and its compositions that go on for
ever. `RootDelivery` and `ComplianceGate` stop when the bounded clock and the bounded
publications are used up; `FieldText` and `HexText` stop when the call has returned.

### Fairness

The store is a passive data structure and provides no progress; it only must not
prevent it. `Fairness` in `Settlement` is therefore a statement about the
deployment: workers act (weak fairness of each worker's steps) and come round to
the sweep again and again whatever else they do (strong fairness of
`SweepTrade`, because a ready worker may prefer another call each time); a
broadcast transaction is mined or ruled out; mined transactions are
reported and trades consumed; an observed submission failure is reported; the
clock advances. Crashes are not prevented: a worker may crash for ever, but then
it also reads the clock for ever, and strong fairness gives the sweep its turn.
`EveryTradeEnds` excludes expiries at `MaxTime`, which the bounded clock never passes.

In `RootDelivery` fairness is a statement about the network and the receivers, and the
code has nothing that would prevent it. `SF(ReceiveNews)`: among whatever else arrives,
an announcement that would supersede what the matcher has gets through now and then;
strong, because it is refused outside its window and while all receivers are busy.
`SF(AdoptNews)`: receivers that hold such an announcement do not crash every time.
`WF(Finish \/ Crash)`: a receiver does not hold an envelope for ever. The clock is not
fair: a second is long enough for any number of deliveries. An announcement may be
delivered too late, so `AnnouncementsGetThrough` promises nothing once the clock has left
the window; but if the clock stays in any second of it, the first and the last included,
the announcement must be adopted. A check that refuses either end breaks the property,
for the windows of one second as for the longest.

## 4. Findings

1. `TradeRecord::failure_reason` is documented as "Reason for the current or
   last `FAILED` state, if any." (`replay.rs:79`), but a controlled retry
   clears it (`replay.rs:405`), so after it the last failure is not recorded.
   `prior_txid` ("Txid of the last submission", `replay.rs:85`) is cleared the
   same way. The counterexample is create, fail, retry.
2. The module comment says that expiry "does not invalidate an in-flight
   transaction" (`replay.rs:29-30`). That holds for `SUBMITTED`, but `fail` moves
   `SUBMITTED` to `FAILED` on the caller's word, and from `FAILED` both `expire`
   and the gate in `retry_after_failure` lead to the terminal `EXPIRED`, whatever
   txid is still recorded. If that transaction is mined after all, `confirm` is
   refused for ever and the settlement is stranded. `MinedTradesAreNotStranded`
   shows that this needs a failure reported while the transaction can still be
   mined: with current failures only, it does not happen.

3. `FieldElement::from_decimal_str` "Parses the canonical unpadded decimal
   representation." (`field.rs:86`), but refuses only empty texts and non-digits
   (`field.rs:95`): texts with leading zeros are accepted and print back without
   them, so one element has many accepted texts. The run shows `00`. What is printed
   is canonical (`PrintedIsCanonical`).
One remark, without a run of its own: `InvalidAssetBase` means that an encoding "was not
exactly 32 bytes" and carries the "Length that was supplied." (`error.rs:13-16`).
`from_hex` also returns it, with half the length of the text, for a text with a character
that is no hexadecimal digit or one character too many (`bytes.rs:56-58`, and `111-113`
for receivers): the message then reads "must be exactly 32 bytes, got 32". No value is
affected; `HexVerdictIsExact` states when the reported length can equal the required one.

## 5. Proofs

### Replay store

The theorems of `ReplayStoreProofs` are about `ReplayStore!Spec` for arbitrary sets of commitments,
txids and instants and any retry bound, under `ReplayStoreAssumption` alone
(instants and the bound are naturals, `None` is neither a txid nor a reason).

The inductive invariant is

    IInv == TypeOK /\ BookkeepingMatchesState /\ CountersMatchState /\ ConfirmedAtMostOnce

`AttemptsWithinBudget` does not survive a step by itself: from a CREATED record
with `verified = retry_count + 1` a verification would break it, and no reachable
state looks like that. `CountersMatchState` adds the missing fact per lifecycle
state: a CREATED record has one verification left in its budget, a VERIFIED or
SETTLEMENT_CONSTRUCTED one has a verification that no submission has used.
`ReplaceKeepsIInv` reduces every accepted call to the record it writes and the
counters it moves; then there is one lemma per call, and `NextKeepsIInv` puts
them together.

| Theorem | Establishes |
|---|---|
| `InductiveInvariant` | `IInv` in every reachable state |
| `TypeCorrect` | `TypeOK`; `retry_count` never passes the bound, so `retry_count += 1` cannot overflow |
| `BookkeepingHolds` | `BookkeepingMatchesState` |
| `BudgetHolds` | `AttemptsWithinBudget` |
| `AtMostOneConfirmation` | `ConfirmedAtMostOnce` |
| `TerminalIsFinal` | `TerminalRecordsAreFinal`, from the fact that a step touches one record and only a non-terminal one |
| `TxidForgottenOnlyByAck` | `TxidForgottenOnlyByAcknowledgement`; the calls that overwrite the field do so where, by the invariant, it is empty |
| `RefusalsAreHarmless` | `RefusalsLeaveRecordsAlone` |
| `Refinement` | `Spec => KeepsPromise`: every step is a step of `SettlementPromise` or stutters; that a launch is within the abstract budget is what the counters are for |

### Commitments

Under `CommitmentsAssumption` (the receiver fits two full limbs and a non-empty narrow
one; policy codes are numbers that fit the integers) and the ideal hash, which is a
definition, `CommitmentsProofs` goes up the stages: constructors and hashes are
injective, an asset and a receiver are determined by their limbs
(`AssetBaseRoundTrip`, `ReceiverRoundTrip`), hence by their commitments, hence the parts,
the metadata and the whole.

Byte strings have any length. `States` is the chain of states that absorbing a string
goes through. Two strings with one commitment have the same last chunk index, hence the
same number of chunks; each state determines the chunk and the state before it, down to
the header; and the header gives the length, which the padding hides. The induction
over the chain is an argument by a least counterexample, from the well-foundedness of
`<` on the naturals: the library's induction theorems take an operator, this form needs
only a set.

`CommitmentBindingProofs` needs one inductive fact, that original and copy stay values
of their kind, and derives the run's invariants from it.

| Theorem | Establishes |
|---|---|
| `TradeCommitmentBinds` | intents with one `TradeCommitmentV1` are equal |
| `CredentialLeafBinds` | credentials with one leaf are equal |
| `LimbsInRangeDescribeReceivers` | the third limb's range check accepts exactly the triples that decode and re-encode to themselves |
| `CanonicalBytesBind` | byte strings of any two lengths with one commitment under one domain are equal |
| `IntentIsBound`, `CredentialIsBound`, `ReceiverBound`, `EncodingsAreLossless` | the invariants `CommitmentBindsIntent`, `LeafBindsCredential`, `ReceiverIsBound`, `EncodingsRoundTrip` |
| `BindingHolds` | `BindingInv`: types, and `BytesAreBound` |

### Circuits

Under `CircuitsAssumption` (numbers are `0 .. Span - 1` with `Span > 1`, the field is
larger than `4 * Span`, and no limb is `WideLimb`), and for `Witnesses` also
`WitnessesAssumption` (the sets a request is taken from are what they are called, and the
trees have room for the leaves):

| Theorem | Establishes |
|---|---|
| `GreaterEqThanIsGreaterEq` | on operands in range the comparator is `>=`, the wrap of `+ 1` and of the subtraction included |
| `CircuitsStageLikeRust` | on the signals of an intent the circuits compute the Rust commitment |
| `SatisfiedConstraintsDescribeIntents` | any satisfying witness describes an intent in the Rust types' ranges, with the Rust commitment; range checks are what this rests on |
| `ConstraintsAlwaysDescribeIntents` | the invariant `ConstraintsDescribeIntents`; it holds of every witness record, so no step of the provers is needed |
| `OnlyApprovedReceiverSettles` | when the proved leaf is a credential's leaf, the trade's recipient, policy tuple and expiry are that credential's |
| `MembershipIsComplete` | the schema's path of a leaf leads to the schema's root, for every depth |
| `MembershipIsSound` | a path whose length is the depth and which leads to the root of a tree starts from one of its leaves, the one its bits point to |
| `ProversInvariant` | witnesses stay witnesses, and one that was not altered is still the honest one |
| `HonestProversAccepted` | `WitnessesInv`: an honest prover is accepted exactly when `authorizes` and `covers_trade_expiry` hold of the credential and its tuple is the policy entry |
| `EligibilitySound`, `ProvenanceSound` | the invariants `EligibilityIsSound`, `ProvenanceIsSound`: what is accepted is authorized by a credential, a policy entry, an issuance |
| `CommitmentJoinsProofs` | `JoinedByCommitment`: two accepted proofs are about one intent |

The inductive invariant of the provers is `ProversInv == WitnessesTypeOK /\ StillHonest`.
That an honest prover is accepted is a statement about a prover who altered nothing;
without `StillHonest` the invariant would not know what such a prover holds. The
soundness theorems need only the types: whatever the provers did, the constraints and
the matcher's roots decide. Depths are arbitrary, so a level of a tree, its size, the
hashes of a path and its cursor are recursive functions, and membership is proved by
induction on the level: a node is the hash of its two children, the hash is injective,
so a path that ends in the root must go through the very nodes that are in the tree.

### Settlement

Under `SettlementAssumption` and the store's assumption:

| Theorem | Establishes |
|---|---|
| `SettlementUsesStore` | every step of the composition is a call of the store or leaves it alone, so all store theorems hold in it |
| `SettlementKeepsPromise` | hence the composition keeps `SettlementPromise` |
| `SettlementInvariant` | `SettlementInv`: a trade is confirmed only if it was mined, and whatever may still be mined is on record |
| `OneSettlementPerTrade` | `SettlesAtMostOnce`, for any number of workers, transactions and watchers, with late failures and crashes |
| `NoEarlyExpiry`, `NoLateSubmission` | `ExpiredOnlyAfterExpiry`, `SubmittedInTime` |
| `ConstructorsAreExclusive`, `NoneStranded` | `OneConstructor`, `MinedTradesAreNotStranded`, with current failures only |

Three invariants build on one another. `EnvInv` is about the workers: a reading is never
ahead of the clock nor older than `MaxStaleness`, and a candidate settles its worker's
trade. `TrackingInv` relates the chain to the records: whatever is in the network or
mined is its trade's `prior_txid`, and so is a submission that was accepted and not sent
out yet. `SettlesAtMostOnce` alone is not inductive: a second transaction may only be
mined if it was sent, it was sent because `submit` accepted it, and `submit` accepts
nothing while the first is recorded. `CurrentInv`, under `~LateFailures`, says that a
trade under construction has the one constructor that acquired it, who still holds the
state. `StepIsGentle` is the lemma that saves most work: what a call may do to a record,
said once for all nine calls.

### Root envelopes

Under `RootDeliveryAssumption` and `RootEnvelopeAssumption` (the kinds' tags and the
greatest length of an identifier fit one byte, and `ToBeBytes` writes different numbers as
different words of one width; `RootDelivery` adds types only):

| Theorem | Establishes |
|---|---|
| `PayloadsReadBack` | two payloads with the same canonical bytes are the same payload, kind included, for every width; the fields in front of the identifier have a fixed width, and its length is written before it |
| `RootDeliverySafe` | `RootDeliveryInv`: `RootsInUseWereSigned`, `SignedBytesDecode` |
| `AdoptionIsTimely` | `AdoptedInsideItsWindow` |
| `DeliveryImplementsRegister` | `ImplementsRegister`: every step is a step of `RootRegister` or a stutter; delivery, repetition and crashes are invisible there |

The inductive invariant `DeliveryInv` adds what a receiver holds between the check and
the adoption: it was signed for its slot, and at the instant it was checked its window
was open.

### Compliance gate

Under `ComplianceGateAssumption` and the assumptions of the parts:

| Theorem | Establishes |
|---|---|
| `GateKeepsPromise` | the gate uses the store as specified, so the store keeps its promise here too |
| `GateHolds` | `ComplianceGateInv`: what passes the gate is gated by the committed expiry |
| `OnlyUnderLiveRoots` | `VerifiedUnderLiveRoots` |
| `RotationEndsVerification` | `RotationRevokes`: once a rotation that drops a trade is older than the staleness bound, the trade is not verified any more |
| `CredentialOutlastsSubmissions` | `SubmittedWithinCredential` |

`RootsInv` says what a worker past `LookAtRoots` knows: the roots it keeps were
announced, its instant lies in their windows, the clock is at most `MaxStaleness` past it,
and each root is still current or was replaced no earlier. `EvidenceInv` says that a worker
past `CheckProofs` has a trade that both its roots support, and that its record and every
record past the gate are covered: they hold the committed expiry, and the recipient's
credential lasts as long. The store's own invariant comes from `ReplayStoreProofs`.

### Texts

Under `FieldTextAssumption` (two digits at least, a limb holds a digit, the modulus fits
the limbs) and `HexTextAssumption` (lengths are positive, the decimal digits are some of
the base's), for texts of every length:

| Theorem | Establishes |
|---|---|
| `FieldTextHolds` | `FieldTextInv`: while a text is read, the limbs hold the number read so far |
| `VerdictHolds` | `VerdictIsExact`: a text is too large, unreduced or accepted as its number is |
| `PrintedHolds` | `PrintedIsCanonical`: what is printed denotes the element, unpadded |
| `DivisionHolds` | `DivisionShrinks`: every round of the printing loop leaves a smaller number |
| `HexTextHolds` | `HexTextInv`: exact verdicts, and a receiver that splits where its text does |
| `HexRoundTrip` | `PrintedIsFoldedText`: to_hex prints the text in lower case, from_hex takes it back |

A number is read from the most significant digit on, so it, the carries and the remainders
are recursive functions over positions. A fact about every position is proved by a least
counterexample (`Climb`), and a recursive function exists because it exists up to each
position (`Rounds`). What the loops establish is an equation for every position:

- `MulAddHolds`: with the `k` most significant limbs, the product so far and the carry that
  comes in from below are the new limbs and what has left the last one; the carries run from
  below, the sum from above, and they meet at position `LimbCount`.
- `DivRemHolds`: the `k` most significant limbs are the divisor times their quotient, and the
  remainder that goes on to the next limb; quotients are limbs since the remainder is small.
- `FirstDifferenceDecides`: the first limb in which two arrays differ decides which number is
  greater, so comparing arrays with `MODULUS_BE` compares numbers (`UnreducedReachesModulus`).

`FieldInv` is the inductive invariant of both loops. Reading adds that the text is all digits.
Printing adds `PrintingInv`: the number left in the limbs, read on through the digits printed
so far in reverse, is the element, and the digit printed last is not zero once nothing is
left. `PrintedIsCanonical` alone says nothing before the end. `HexInv` says of every byte
decoded so far that the pair of digits in its place spells it, and why a text was refused.

Only model-checked: the liveness properties `MinedIsConsumed`, `EveryTradeEnds` and
`AnnouncementsGetThrough`, which need fairness and `ENABLED`, outside the prover's
reach; and the findings, which are counterexamples. Every other property that a passing
run checks is the statement of a theorem.

## 6. Not modelled, and why

- Restart of the process: the store is in memory and has no persistence
  (`replay.rs:3-5` leaves it to the matcher), so a restart is a new store.
- The payloads of errors and their wording, `Display`, accessors.
- Recipient control, the signature scheme and the authorities' keys: the code names them
  as the matcher's duty and has no type or call for them. A signature verifies exactly
  for the key and the bytes it was made with.
- An implementation of the verifier traits: there is none, so `ComplianceGate` takes what
  the trait comments ask for.
- `checked_add_seconds`, `seconds_until` (`numbers.rs:97-116`): nothing but tests calls them.
- The bytes of txids and commitments; they are compared for equality only.
- Poseidon's permutation, the soundness of the proof system and the trusted setup: a
  proof is accepted exactly when its witness satisfies the constraints.
- `Display`, ordering and conversions of the byte and number types, and the newtypes'
  constructors that only delegate.
- The JavaScript copies of the trade and credential commitments; the repository's own
  vectors compare them with the Rust ones.
- Circuits' unused helpers (`ZKLessThan`, `ZKGreaterThan`, nonce validators).

## 7. Plan

Done, in this order: `ReplayStore` and its promise, `Settlement`, `Commitments` with
`CommitmentBinding`, `Circuits` with `Witnesses`, `FieldText`, `RootEnvelope` with
`RootDelivery`, `ComplianceGate`, `HexText`, and the proofs of section 5. What is left:

1. Lemmas that shorten proofs: the two text loops share the step from digits to numbers,
   and the gate and the settlement share the freshness of readings.
2. With a matcher or an adapter in the repository, the external parts of `Settlement`,
   `RootDelivery` and `ComplianceGate` become models of code, and the theorems about them
   are to be proved again.
