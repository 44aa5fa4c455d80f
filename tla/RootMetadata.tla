---------------------------- MODULE RootMetadata ----------------------------
(***************************************************************************)
(* The version and the validity window of a signed-root envelope           *)
(* (src/crates/protocol/src/envelope.rs): what the constructors refuse and *)
(* what the window says of an instant. A constructor or a check returns    *)
(* "Ok" or the name of its problem (TimestampProblem, RootEnvelopeProblem). *)
(***************************************************************************)
EXTENDS Naturals

\* The two kinds of payload, by their tag in the signed bytes.
KindIssuer == 1
KindCredential == 2
Kinds == {KindIssuer, KindCredential}

MinVersion == 1

IsValid(version) == version >= MinVersion

ValidityWindowNew(valid_from, expires_at) ==
    IF valid_from > expires_at THEN "WindowInverted" ELSE "Ok"

\* The version is looked at before the window.
RootMetadataNew(version, valid_from, expires_at) ==
    IF ~IsValid(version) THEN "UnsupportedVersion"
    ELSE ValidityWindowNew(valid_from, expires_at)

ContainsBeforeEnd(window, now) ==   \* mutated form of Contains
    CASE now < window.valid_from -> "NotYetValid"
      [] now >= window.expires_at -> "Expired"
      [] OTHER -> "Ok"

ContainsAfterStart(window, now) ==  \* mutated form of Contains
    CASE now <= window.valid_from -> "NotYetValid"
      [] now > window.expires_at -> "Expired"
      [] OTHER -> "Ok"

ContainsWithoutEnd(window, now) ==  \* mutated form of Contains
    IF now < window.valid_from THEN "NotYetValid" ELSE "Ok"

\* Both ends belong to the window.
Contains(window, now) ==
    CASE now < window.valid_from -> "NotYetValid"
      [] now > window.expires_at -> "Expired"
      [] OTHER -> "Ok"

EnsureCurrentAt(metadata, now) == Contains(metadata, now)

=============================================================================
