---------------------------- MODULE RootEnvelope ----------------------------
(***************************************************************************)
(* The signed-root envelopes of src/crates/credentials/src/envelope.rs and *)
(* the primitives they share (src/crates/protocol/src/envelope.rs): what a *)
(* constructor refuses, what validate_structure_at says at an instant, and *)
(* the canonical bytes that are signed.                                    *)
(*                                                                         *)
(* The `?` of the source is FirstProblem. A root is the byte string its    *)
(* field element is stored as. u64::to_be_bytes belongs to Rust's library: *)
(* all that is assumed of it is a fixed width and that it loses nothing.   *)
(***************************************************************************)
EXTENDS RootMetadata, Sequences

CONSTANTS
    ByteValues,             \* 256
    U64,                    \* the numbers used as versions and Unix seconds
    ToBeBytes,              \* u64::to_be_bytes, a function on U64
    WordLen,                \* 8
    RootLen,                \* 32
    PayloadMagic,           \* "ZWA1ROOT"
    KeyIdentifierMaxLen,    \* 64
    OpaqueSignatureMaxLen   \* 1024

Byte == 0 .. ByteValues - 1
BytesOf(n) == [1..n -> Byte]

ASSUME RootEnvelopeAssumption ==
    /\ U64 \subseteq Nat
    /\ WordLen \in Nat /\ RootLen \in Nat
    /\ ByteValues \in Nat /\ Kinds \subseteq Byte
    /\ KeyIdentifierMaxLen \in Byte /\ OpaqueSignatureMaxLen \in Nat
    /\ PayloadMagic \in Seq(Byte)
    /\ ToBeBytes \in [U64 -> BytesOf(WordLen)]
    /\ \A m, n \in U64 : ToBeBytes[m] = ToBeBytes[n] => m = n

FirstProblem(results) ==
    LET problems == {i \in DOMAIN results : results[i] # "Ok"}
    IN IF problems = {} THEN "Ok"
       ELSE results[CHOOSE i \in problems : \A j \in problems : i <= j]

-----------------------------------------------------------------------------
(* Containers.                                                             *)

KeyIdentifierNew(bytes) ==
    CASE Len(bytes) = 0 -> "MissingAuthorityIdentifier"
      [] Len(bytes) > KeyIdentifierMaxLen -> "IdentifierTooLong"
      [] OTHER -> "Ok"

KeyIdentifier == UNION {BytesOf(n) : n \in 1..KeyIdentifierMaxLen}

\* Rust keeps the two apart by type only; as bytes they are alike.
IssuerKeyId == KeyIdentifier
AuthorityKeyId == KeyIdentifier

\* The bytes of a signature are never looked at, only counted.
OpaqueSignatureNew(length) ==
    CASE length = 0 -> "SignatureMissing"
      [] length > OpaqueSignatureMaxLen -> "SignatureTooLong"
      [] OTHER -> "Ok"

-----------------------------------------------------------------------------
(* Payloads. The kind of a payload is its Rust type; a payload of either   *)
(* kind carries its metadata inline.                                       *)

\* `as u8` drops the high bits.
IdLen(identifier) == Len(identifier) % ByteValues

EncodeWithoutKind(kind, version, valid_from, expires_at, identifier, root) ==  \* mutated
    PayloadMagic \o ToBeBytes[version] \o ToBeBytes[valid_from]
        \o ToBeBytes[expires_at] \o <<IdLen(identifier)>> \o identifier \o root

EncodeWithoutVersion(kind, version, valid_from, expires_at, identifier, root) ==  \* mutated
    PayloadMagic \o <<kind>> \o ToBeBytes[valid_from]
        \o ToBeBytes[expires_at] \o <<IdLen(identifier)>> \o identifier \o root

\* Every width but the identifier's is fixed.
EncodePayload(kind, version, valid_from, expires_at, identifier, root) ==
    PayloadMagic \o <<kind>> \o ToBeBytes[version] \o ToBeBytes[valid_from]
        \o ToBeBytes[expires_at] \o <<IdLen(identifier)>> \o identifier \o root

IssuerRootPayload ==
    [kind : {KindIssuer}, root : BytesOf(RootLen), id : IssuerKeyId,
     version : U64, valid_from : U64, expires_at : U64]

IssuerRootPayloadNew(p) == RootMetadataNew(p.version, p.valid_from, p.expires_at)

IssuerCanonicalBytes(p) ==
    EncodePayload(KindIssuer, p.version, p.valid_from, p.expires_at, p.id, p.root)

IssuerPayloadValidAt(p, now) == EnsureCurrentAt(p, now)

CredentialRootPayload ==
    [kind : {KindCredential}, root : BytesOf(RootLen), id : AuthorityKeyId,
     version : U64, valid_from : U64, expires_at : U64]

CredentialRootPayloadNew(p) == RootMetadataNew(p.version, p.valid_from, p.expires_at)

CredentialCanonicalBytes(p) ==
    EncodePayload(KindCredential, p.version, p.valid_from, p.expires_at, p.id, p.root)

CredentialPayloadValidAt(p, now) == EnsureCurrentAt(p, now)

\* What the constructors let through.
RootPayload ==
    {p \in IssuerRootPayload \cup CredentialRootPayload :
        RootMetadataNew(p.version, p.valid_from, p.expires_at) = "Ok"}

PayloadNew(p) ==
    IF p.kind = KindIssuer THEN IssuerRootPayloadNew(p) ELSE CredentialRootPayloadNew(p)

CanonicalBytes(p) ==
    IF p.kind = KindIssuer THEN IssuerCanonicalBytes(p) ELSE CredentialCanonicalBytes(p)

-----------------------------------------------------------------------------
(* Envelopes: a payload and whatever came as its signature. Success is     *)
(* StructurallyValid: nobody has looked at the signature, and the result   *)
(* does not remember the instant it was given for.                         *)

IssuerRootEnvelope(p, signature) == [payload |-> p, signature |-> signature]

IssuerEnvelopeValidAt(envelope, now) == IssuerPayloadValidAt(envelope.payload, now)

CredentialRootEnvelope(p, signature) == [payload |-> p, signature |-> signature]

CredentialEnvelopeValidAt(envelope, now) == CredentialPayloadValidAt(envelope.payload, now)

ValidateStructureAt(envelope, now) ==
    IF envelope.payload.kind = KindIssuer
    THEN IssuerEnvelopeValidAt(envelope, now)
    ELSE CredentialEnvelopeValidAt(envelope, now)

=============================================================================
