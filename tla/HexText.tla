------------------------------ MODULE HexText ------------------------------
(***************************************************************************)
(* The fixed-size byte values of src/crates/protocol/src/bytes.rs: an      *)
(* AssetBase or an Orchard receiver is read from hexadecimal text pair by  *)
(* pair, or wrapped from a slice, and printed in lower case. Text is a     *)
(* sequence of bytes, so a character outside ASCII is several of Other.    *)
(* What was printed may be read again. The names differ from FieldText's,  *)
(* so that one module can extend both.                                     *)
(***************************************************************************)
EXTENDS Integers, SequencesExt, Numerals

CONSTANTS
    Base,               \* 16
    DecimalDigits,      \* 10: the digits from here on are letters, in two cases
    AssetBaseLen,       \* 32
    DiversifierLen,     \* 11
    TransmissionKeyLen, \* 32
    MaxHexText          \* bound on the length of texts; slices have up to half of it

ASSUME HexTextAssumption ==
    /\ Base \in Nat \ {0} /\ DecimalDigits \in 1..Base
    /\ {AssetBaseLen, DiversifierLen, TransmissionKeyLen} \subseteq Nat \ {0}
    /\ MaxHexText \in Nat

VARIABLES
    type,       \* which of the two types
    hex,        \* the input of from_hex
    stage,      \* "decoding", "decoded", "accepted", "printed" or "refused"
    at,         \* characters of hex decoded so far
    octets,     \* the bytes decoded so far, or given as a slice; then the value
    got,        \* the length the error reports
    printed     \* what to_hex printed

hexVars == <<type, hex, stage, at, octets, got, printed>>

HexDigit == 0 .. Base - 1
Byte == 0 .. Base * Base - 1

Lower(d) == [digit |-> d, upper |-> FALSE]
Upper(d) == [digit |-> d, upper |-> TRUE]
Other == Lower(Base)
HexChar == {Lower(d) : d \in HexDigit} \cup {Upper(d) : d \in DecimalDigits .. Base - 1}
AnyChar == HexChar \cup {Other}

OrchardReceiverLen == DiversifierLen + TransmissionKeyLen

RequiredLen == [AssetBase |-> AssetBaseLen, Receiver |-> OrchardReceiverLen]

-----------------------------------------------------------------------------
\* The value of a character of HexChar.
Nibble(c) == c.digit

\* The two nibbles of a byte, the high one first.
Nibbles(byte) == <<byte \div Base, byte % Base>>

\* Character i of a text belongs to byte PairOf(i) and is its nibble InPair(i).
PairOf(i) == (i + 1) \div 2
InPair(i) == 2 - (i % 2)

EncodeUpperCase(b) ==           \* mutated form of EncodeHex
    [i \in 1 .. 2 * Len(b) |->
        LET nibble == Nibbles(b[PairOf(i)])[InPair(i)]
        IN IF nibble < DecimalDigits THEN Lower(nibble) ELSE Upper(nibble)]

EncodeHex(b) ==
    [i \in 1 .. 2 * Len(b) |-> Lower(Nibbles(b[PairOf(i)])[InPair(i)])]

Diversifier(b) == SubSeq(b, 1, DiversifierLen)

TransmissionKey(b) == SubSeq(b, DiversifierLen + 1, Len(b))

-----------------------------------------------------------------------------
AnyLength(t) == TRUE            \* mutated form of Paired

Paired(t) == Len(t) % 2 = 0

\* chunks_exact gives whole pairs only.
MorePairs == at + 1 < Len(hex)

PairIsHex == {hex[at + 1], hex[at + 2]} \subseteq HexChar

-----------------------------------------------------------------------------
\* A call of from_hex, or of from_slice.
HexInit ==
    /\ type \in DOMAIN RequiredLen
    /\ \/ /\ hex \in BoundedSeq(AnyChar, MaxHexText)
          /\ stage = "decoding"
          /\ octets = <<>>
       \/ /\ hex = <<>>
          /\ stage = "decoded"
          /\ octets \in BoundedSeq(Byte, MaxHexText \div 2)
    /\ at = 0
    /\ got = 0
    /\ printed = <<>>

RefuseHex(length) ==
    /\ stage' = "refused"
    /\ got' = length
    /\ UNCHANGED <<type, hex, at, octets, printed>>

\* decode_hex gave nothing: from_hex reports half of the length of the text.
OddLength ==
    /\ stage = "decoding"
    /\ ~Paired(hex)
    /\ RefuseHex(Len(hex) \div 2)

NotHex ==
    /\ stage = "decoding"
    /\ Paired(hex) /\ MorePairs
    /\ ~PairIsHex
    /\ RefuseHex(Len(hex) \div 2)

ReadPair ==
    /\ stage = "decoding"
    /\ Paired(hex) /\ MorePairs
    /\ PairIsHex
    /\ octets' = Append(octets, Nibble(hex[at + 1]) * Base + Nibble(hex[at + 2]))
    /\ at' = at + 2
    /\ UNCHANGED <<type, hex, stage, got, printed>>

AllRead ==
    /\ stage = "decoding"
    /\ Paired(hex) /\ ~MorePairs
    /\ stage' = "decoded"
    /\ UNCHANGED <<type, hex, at, octets, got, printed>>

FromSlice ==
    /\ stage = "decoded"
    /\ IF Len(octets) = RequiredLen[type]
       THEN stage' = "accepted" /\ UNCHANGED <<type, hex, at, octets, got, printed>>
       ELSE RefuseHex(Len(octets))

ToHex ==
    /\ stage = "accepted"
    /\ printed' = EncodeHex(octets)
    /\ stage' = "printed"
    /\ UNCHANGED <<type, hex, at, octets, got>>

\* from_hex once more, on what was printed.
ReadBack ==
    /\ stage = "printed"
    /\ hex' = printed
    /\ at' = 0
    /\ octets' = <<>>
    /\ stage' = "decoding"
    /\ UNCHANGED <<type, got, printed>>

HexNext ==
    \/ OddLength \/ NotHex \/ ReadPair \/ AllRead
    \/ FromSlice \/ ToHex \/ ReadBack

HexSpec == HexInit /\ [][HexNext]_hexVars

-----------------------------------------------------------------------------
(* Properties.                                                             *)

\* The number a text or a sequence of bytes denotes.
TextNumber(t) == Number(Base, [i \in 1..Len(t) |-> t[i].digit])
ByteNumber(b) == Number(Base * Base, b)

InLowerCase(t) == [i \in DOMAIN t |-> Lower(t[i].digit)]

\* Nibbles stay nibbles in either case, so that no shifted pair leaves the u8.
HexTextTypeOK ==
    /\ type \in DOMAIN RequiredLen
    /\ hex \in Seq(AnyChar)
    /\ stage \in {"decoding", "decoded", "accepted", "printed", "refused"}
    /\ at \in 0 .. Len(hex)
    /\ octets \in Seq(Byte)
    /\ got \in Nat
    /\ printed \in Seq(HexChar)

\* from_hex accepts exactly the texts of two digits per byte of the type, in
\* whatever mix of cases, as the bytes they denote: nothing is dropped from
\* an odd text, and no text of another length gets through. A refusal that
\* reports the required length is due to something else than the length.
HexVerdictIsExact ==
    LET wellFormed == /\ Len(hex) = 2 * RequiredLen[type]
                      /\ \A i \in DOMAIN hex : hex[i] \in HexChar
    IN /\ stage \in {"accepted", "printed"} /\ hex # <<>> =>
             wellFormed /\ ByteNumber(octets) = TextNumber(hex)
       /\ stage \in {"accepted", "printed"} => Len(octets) = RequiredLen[type]
       /\ stage = "refused" /\ hex # <<>> => ~wellFormed
       /\ stage = "refused" /\ got = RequiredLen[type] =>
             Len(hex) % 2 = 1 \/ \E i \in DOMAIN hex : hex[i] \notin HexChar

\* to_hex prints what any spelling of the value folds to, so that equal values
\* have equal texts, and from_hex takes it back.
PrintedIsFoldedText ==
    /\ stage = "printed" /\ hex # <<>> => printed = InLowerCase(hex)
    /\ printed # <<>> => stage # "refused"

\* A receiver splits where its text does: the diversifier is what the first
\* characters spell and the transmission key what the others spell.
ReceiverSplitsAsText ==
    stage \in {"accepted", "printed"} /\ type = "Receiver" /\ hex # <<>> =>
        /\ ByteNumber(Diversifier(octets)) =
              TextNumber(SubSeq(hex, 1, 2 * DiversifierLen))
        /\ ByteNumber(TransmissionKey(octets)) =
              TextNumber(SubSeq(hex, 2 * DiversifierLen + 1, Len(hex)))

\* Reading: the exact texts are accepted, as the bytes they spell, and a receiver
\* consists of the parts its text consists of.
HexTextInv ==
    /\ HexTextTypeOK
    /\ HexVerdictIsExact
    /\ ReceiverSplitsAsText

=============================================================================
