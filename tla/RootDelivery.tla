---------------------------- MODULE RootDelivery ----------------------------
(***************************************************************************)
(* Signed-root envelopes on their way from the authorities to the matcher. *)
(*                                                                         *)
(* Authorities build payloads, sign the canonical bytes and send both; one *)
(* identifier may sign roots of either kind with the same key. Delivery    *)
(* has no order: an envelope arrives late, again or never, and what is put *)
(* together at the receiving end may have any fields and any signature     *)
(* ever seen, or none. The receivers of a matcher run validate_structure_at *)
(* and verify the signature, and only later adopt the root, when another   *)
(* receiver may have adopted a newer one.                                  *)
(*                                                                         *)
(* The constructors, the checks and the bytes are the repository's; keys,  *)
(* signatures and the choice of the current version are the matcher's      *)
(* (envelope.rs:8-10 and numbers.rs:38-39 say so) and modelled from there. *)
(***************************************************************************)
EXTENDS RootEnvelope, FiniteSets

CONSTANTS
    Roots,          \* Merkle roots, as byte strings
    Identifiers,    \* byte strings offered as identifiers, unusable ones included
    Windows,        \* pairs of instants offered as windows, inverted ones included
    Receivers,      \* workers that take envelopes in
    MaxVersion,     \* bound of the versions
    MaxPublished,   \* bound of the number of publications
    MaxTime,        \* bound of the clock
    MaxStaleness,   \* how far the clock moves while a receiver holds an envelope
    Nothing

ASSUME RootDeliveryAssumption ==
    /\ Roots \subseteq BytesOf(RootLen)
    /\ Identifiers \subseteq Seq(Byte)
    /\ MaxVersion \in Nat /\ MaxTime \in Nat
    /\ Windows \subseteq (0..MaxTime) \X (0..MaxTime)
    /\ 0..MaxVersion \cup 0..MaxTime \subseteq U64
    /\ MaxPublished \in Nat /\ MaxStaleness \in Nat

VARIABLES
    published,      \* history: what the authorities signed
    held,           \* what each receiver is working on
    current,        \* the root the matcher uses, per kind and authority
    clock

vars == <<published, held, current, clock>>

Instants == 0..MaxTime

\* The fields an envelope may arrive with, well formed or not.
RawPayload ==
    {p \in [kind : Kinds, root : Roots, id : Identifiers, version : 0..MaxVersion,
            valid_from : Instants, expires_at : Instants] :
        <<p.valid_from, p.expires_at>> \in Windows}

\* The fields the constructors accept: no other payload exists, on either side.
Payload ==
    {p \in RawPayload : FirstProblem(<<KeyIdentifierNew(p.id), PayloadNew(p)>>) = "Ok"}

Slots == Kinds \X {p.id : p \in Payload}

\* Every payload with its canonical bytes.
Written == {[payload |-> p, bytes |-> CanonicalBytes(p)] : p \in Payload}

\* Signatures seen so far. Any other material fails at the container or verifies
\* for no payload.
Signatures ==
    {[length |-> 1, key |-> w.payload.id, over |-> w.bytes] :
        w \in {v \in Written : v.payload \in published}}

EnvelopeOf(p, signature) ==
    IF p.kind = KindIssuer THEN IssuerRootEnvelope(p, signature)
    ELSE CredentialRootEnvelope(p, signature)

\* Of all envelopes that can be put together, those whose signature verifies;
\* the matcher knows one key per identifier.
Authentic(signature) ==
    {EnvelopeOf(w.payload, signature) :
        w \in {v \in Written : v.payload.id = signature.key /\ v.bytes = signature.over}}

Register == INSTANCE RootRegister WITH Announcements <- Payload

-----------------------------------------------------------------------------
Publish(p) ==
    /\ Cardinality(published) < MaxPublished
    /\ Register!Publish(p)
    /\ UNCHANGED <<held, clock>>

\* A refused envelope leaves nothing behind.
Receive(r, envelope) ==
    /\ held[r] = Nothing
    /\ OpaqueSignatureNew(envelope.signature.length) = "Ok"
    /\ ValidateStructureAt(envelope, clock) = "Ok"
    /\ held' = [held EXCEPT ![r] = [payload |-> envelope.payload, at |-> clock]]
    /\ UNCHANGED <<published, current, clock>>

\* Versions only rise: a root overtaken by a newer one is dropped.
Supersedes(p) == p.version > Register!VersionOf(current[Register!SlotOf(p)])

Finish(r) ==
    /\ held[r] # Nothing
    /\ LET p == held[r].payload IN
       current' = IF Supersedes(p)
                  THEN [current EXCEPT ![Register!SlotOf(p)] = p] ELSE current
    /\ held' = [held EXCEPT ![r] = Nothing]
    /\ UNCHANGED <<published, clock>>

Crash(r) ==
    /\ held[r] # Nothing
    /\ held' = [held EXCEPT ![r] = Nothing]
    /\ UNCHANGED <<published, current, clock>>

Tick ==
    /\ clock < MaxTime
    /\ \A r \in Receivers : held[r] # Nothing => clock - held[r].at < MaxStaleness
    /\ clock' = clock + 1
    /\ UNCHANGED <<published, held, current>>

Init ==
    /\ Register!Init
    /\ held = [r \in Receivers |-> Nothing]
    /\ clock = 0

Next ==
    \/ \E p \in Payload : Publish(p)
    \/ \E r \in Receivers :
        \/ \E signature \in Signatures :
              \E envelope \in Authentic(signature) : Receive(r, envelope)
        \/ Finish(r)
        \/ Crash(r)
    \/ Tick

Spec == Init /\ [][Next]_vars

\* Among whatever else arrives, an announcement the matcher does not have yet
\* gets through now and then; receivers are done with what they hold in the end,
\* and those that hold such an announcement do not crash every time. The clock
\* need not move: a second is long enough for any number of deliveries.
ReceiveNews ==
    \E r \in Receivers, signature \in Signatures :
        \E envelope \in Authentic(signature) :
            Supersedes(envelope.payload) /\ Receive(r, envelope)

AdoptNews ==
    \E r \in Receivers : held[r] # Nothing /\ Supersedes(held[r].payload) /\ Finish(r)

Fairness ==
    /\ SF_vars(ReceiveNews) /\ SF_vars(AdoptNews)
    /\ \A r \in Receivers : WF_vars(Finish(r) \/ Crash(r))

FairSpec == Spec /\ Fairness

-----------------------------------------------------------------------------
(* Properties.                                                             *)

RootDeliveryTypeOK ==
    /\ published \subseteq RootPayload
    /\ held \in [Receivers -> [payload : RootPayload, at : Instants] \cup {Nothing}]
    /\ current \in [Slots -> RootPayload \cup {Nothing}]
    /\ clock \in Instants

\* No envelope put together from other payloads, signatures or kinds gets in:
\* what the matcher works with was signed by that authority as a root of that
\* kind, with exactly that version and window (envelope.rs:276, the layout).
RootsInUseWereSigned ==
    \A s \in Slots : current[s] # Nothing =>
        current[s] \in published /\ Register!SlotOf(current[s]) = s

\* A root comes into use no earlier than its window and no later than the
\* staleness of the check after it: StructurallyValid does not say when the
\* window was looked at (envelope.rs:236).
AdoptedInsideItsWindow ==
    [][\A s \in Slots : current'[s] # current[s] =>
          /\ current'[s].valid_from <= clock
          /\ clock <= current'[s].expires_at + MaxStaleness]_vars

\* The fields of a canonical payload are read back from its bytes, so that two
\* payloads never share them: the one-byte length tells where the identifier
\* ends.
FromBeBytes(bytes) == CHOOSE n \in U64 : ToBeBytes[n] = bytes

Decode(bytes) ==
    LET start == Len(PayloadMagic) + 1
        word(i) == FromBeBytes(SubSeq(bytes, start + (i - 1) * WordLen + 1, start + i * WordLen))
        head == start + 3 * WordLen + 1
    IN [kind |-> bytes[start], version |-> word(1), valid_from |-> word(2),
        expires_at |-> word(3), id |-> SubSeq(bytes, head + 1, head + bytes[head]),
        root |-> SubSeq(bytes, head + bytes[head] + 1, Len(bytes))]

SignedBytesDecode == \A p \in published : Decode(CanonicalBytes(p)) = p

\* The bytes that are signed determine the payload, so that nothing comes into use
\* that was not signed for that use.
RootDeliveryInv ==
    /\ RootDeliveryTypeOK
    /\ RootsInUseWereSigned
    /\ SignedBytesDecode

\* Under all of this the matcher follows the announcements (RootRegister):
\* only what was announced is adopted, and versions never go back.
ImplementsRegister == Register!Spec

\* The announcement of a version, if there is one.
Announced(s, v) == {p \in published : Register!SlotOf(p) = s /\ p.version = v}

\* In whatever second of its window the clock stays, the first and the last
\* included, an announcement that is delivered again and again is adopted, or a
\* newer one is: neither end of a window, not even of one a second long, is
\* refused. Only a clock that leaves the window may leave it out.
AnnouncementsGetThrough ==
    \A s \in Slots, v \in 1..MaxVersion :
        (\E p \in Announced(s, v) : p.valid_from <= clock /\ clock <= p.expires_at)
            ~> \/ Register!VersionOf(current[s]) >= v
               \/ \E p \in Announced(s, v) : clock > p.expires_at

=============================================================================
