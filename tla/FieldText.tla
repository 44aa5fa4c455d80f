------------------------------ MODULE FieldText ------------------------------
(***************************************************************************)
(* FieldElement::from_decimal_str and to_decimal_string of                 *)
(* src/crates/protocol/src/field.rs: a text is read digit by digit into    *)
(* limbs, reduced elements only are kept, and an element is printed again  *)
(* by repeated division. One step is one round of a loop. Bytes come in    *)
(* groups the size of a limb, so a big-endian encoding is the sequence of  *)
(* its groups.                                                             *)
(***************************************************************************)
EXTENDS Integers, SequencesExt, Numerals

CONSTANTS
    Radix,          \* 10
    LimbBase,       \* 2^64
    LimbCount,      \* 4
    Modulus,        \* MODULUS_BE as a number
    MaxText         \* bound on the length of texts

ASSUME FieldTextAssumption ==
    /\ Radix \in Nat /\ Radix > 1
    /\ LimbBase \in Nat /\ LimbBase >= Radix
    /\ LimbCount \in Nat \ {0}
    /\ Modulus \in 1 .. Power(LimbBase, LimbCount) - 1
    /\ MaxText \in Nat

VARIABLES
    text,       \* the input
    pc,         \* the loop: "reading", "printing", or the outcome
    pos,        \* digits of text read so far
    limbs,      \* little-endian working value
    bytes,      \* the accepted FieldElement, big-endian
    digits      \* printed so far

vars == <<text, pc, pos, limbs, bytes, digits>>

Digit == 0 .. Radix - 1
Char == Digit \cup {Radix}      \* Radix stands for every character that is no digit
Limbs == [1..LimbCount -> 0 .. LimbBase - 1]
Zero == [i \in 1..LimbCount |-> 0]
Problems == {"NotDecimal", "DecimalOverflow", "NotReduced"}

-----------------------------------------------------------------------------
(* Limb arithmetic.                                                        *)

\* mul_add_small, limb by limb from the least significant; carries[k] enters
\* limb k + 1, and the last one is the overflow.
Carries(x, multiplier, addend) ==
    LET carry[k \in 0..LimbCount] ==
            IF k = 0 THEN addend
            ELSE (x[k] * multiplier + carry[k - 1]) \div LimbBase
    IN carry

MulAddDroppingCarry(x, multiplier, addend) ==   \* mutated form of MulAddSmall
    [k \in 1..LimbCount |->
        (x[k] * multiplier + (IF k = 1 THEN addend ELSE 0)) % LimbBase]

MulAddSmall(x, multiplier, addend) ==
    [k \in 1..LimbCount |->
        (x[k] * multiplier + Carries(x, multiplier, addend)[k - 1]) % LimbBase]

Overflows(x, multiplier, addend) == Carries(x, multiplier, addend)[LimbCount] # 0

\* div_rem_small, from the most significant limb; remainders[r] is left after
\* r rounds, and enters the round of limb LimbCount - r.
Remainders(x, divisor) ==
    LET remainder[r \in 0..LimbCount] ==
            IF r = 0 THEN 0
            ELSE (remainder[r - 1] * LimbBase + x[LimbCount + 1 - r]) % divisor
    IN remainder

QuotientRoundedUp(x, divisor) ==    \* mutated form of Quotient
    [k \in 1..LimbCount |->
        (Remainders(x, divisor)[LimbCount - k] * LimbBase + x[k] + divisor - 1) \div divisor]

Quotient(x, divisor) ==
    [k \in 1..LimbCount |->
        (Remainders(x, divisor)[LimbCount - k] * LimbBase + x[k]) \div divisor]

Remainder(x, divisor) == Remainders(x, divisor)[LimbCount]

LimbsToBe(x) == Reverse(x)

LimbsInByteOrder(b) == b    \* mutated form of BeToLimbs

BeToLimbs(b) == Reverse(b)

ModulusBe ==
    [i \in 1..LimbCount |-> (Modulus \div Power(LimbBase, LimbCount - i)) % LimbBase]

\* Array comparison is lexicographic.
Exceeds(b) ==       \* mutated form of IsUnreduced
    \E i \in 1..LimbCount :
        b[i] > ModulusBe[i] /\ \A j \in 1 .. i - 1 : b[j] = ModulusBe[j]

IsUnreduced(b) ==
    \/ b = ModulusBe
    \/ \E i \in 1..LimbCount :
          b[i] > ModulusBe[i] /\ \A j \in 1 .. i - 1 : b[j] = ModulusBe[j]

-----------------------------------------------------------------------------
Init ==
    /\ text \in BoundedSeq(Char, MaxText)
    /\ pc = "checking"
    /\ pos = 0
    /\ limbs = Zero
    /\ bytes = Zero
    /\ digits = <<>>

Refuse(problem) ==
    /\ pc' = problem
    /\ UNCHANGED <<text, pos, limbs, bytes, digits>>

CheckDigits ==
    /\ pc = "checking"
    /\ IF text = <<>> \/ \E i \in DOMAIN text : text[i] \notin Digit
       THEN Refuse("NotDecimal")
       ELSE /\ pc' = "reading"
            /\ UNCHANGED <<text, pos, limbs, bytes, digits>>

ReadDigit ==
    /\ pc = "reading"
    /\ pos < Len(text)
    /\ IF Overflows(limbs, Radix, text[pos + 1])
       THEN Refuse("DecimalOverflow")
       ELSE /\ limbs' = MulAddSmall(limbs, Radix, text[pos + 1])
            /\ pos' = pos + 1
            /\ UNCHANGED <<text, pc, bytes, digits>>

FromBeBytes ==
    /\ pc = "reading"
    /\ pos = Len(text)
    /\ IF IsUnreduced(LimbsToBe(limbs))
       THEN Refuse("NotReduced")
       ELSE /\ bytes' = LimbsToBe(limbs)
            /\ pc' = "accepted"
            /\ UNCHANGED <<text, pos, limbs, digits>>

\* to_decimal_string starts, with the case of zero.
StartPrinting ==
    /\ pc = "accepted"
    /\ limbs' = BeToLimbs(bytes)
    /\ IF limbs' = Zero
       THEN pc' = "printed" /\ digits' = <<0>>
       ELSE pc' = "printing" /\ digits' = <<>>
    /\ UNCHANGED <<text, pos, bytes>>

PrintDigit ==
    /\ pc = "printing"
    /\ limbs # Zero
    /\ digits' = Append(digits, Remainder(limbs, Radix))
    /\ limbs' = Quotient(limbs, Radix)
    /\ UNCHANGED <<text, pc, pos, bytes>>

ReverseDigits ==
    /\ pc = "printing"
    /\ limbs = Zero
    /\ digits' = Reverse(digits)
    /\ pc' = "printed"
    /\ UNCHANGED <<text, pos, limbs, bytes>>

Next ==
    \/ CheckDigits \/ ReadDigit \/ FromBeBytes
    \/ StartPrinting \/ PrintDigit \/ ReverseDigits

Spec == Init /\ [][Next]_vars

-----------------------------------------------------------------------------
(* Properties.                                                             *)

\* Limbs stay limbs in both loops, so that no product or shifted remainder
\* leaves the 128-bit intermediate.
FieldTextTypeOK ==
    /\ text \in Seq(Char)
    /\ pc \in {"checking", "reading", "accepted", "printing", "printed"} \cup Problems
    /\ pos \in 0 .. Len(text)
    /\ limbs \in Limbs
    /\ bytes \in Limbs
    /\ digits \in Seq(Digit)

\* Between two digits the limbs hold exactly the number read so far: no carry
\* is lost between limbs and nothing has wrapped around the last one.
LimbsHoldPrefix ==
    pc = "reading" =>
        Number(LimbBase, Reverse(limbs)) = Number(Radix, SubSeq(text, 1, pos))

\* The loop invariant: limbs stay limbs and hold the number read so far.
FieldTextInv ==
    /\ FieldTextTypeOK
    /\ LimbsHoldPrefix

\* A digit string is refused for its size only if it does not fit the limbs,
\* as unreduced only if it fits and reaches the modulus, and is accepted as the
\* number it denotes otherwise, with the modulus and its neighbours.
VerdictIsExact ==
    LET number == Number(Radix, text) IN
    /\ pc = "DecimalOverflow" => number >= Power(LimbBase, LimbCount)
    /\ pc = "NotReduced" => number \in Modulus .. Power(LimbBase, LimbCount) - 1
    /\ pc \in {"accepted", "printing", "printed"} =>
          /\ number < Modulus
          /\ Number(LimbBase, bytes) = number

\* What is printed denotes the element and is unpadded, so equal elements have
\* equal texts.
PrintedIsCanonical ==
    pc = "printed" =>
        /\ Number(Radix, digits) = Number(LimbBase, bytes)
        /\ digits[1] = 0 => Len(digits) = 1

\* Every round of the printing loop makes the number smaller, so it ends.
DivisionShrinks ==
    [][pc = "printing" /\ pc' = "printing" =>
          Number(LimbBase, Reverse(limbs')) < Number(LimbBase, Reverse(limbs))]_vars

\* "Parses the canonical unpadded decimal representation" (field.rs:86): an
\* accepted text is the one that is printed back.
AcceptedTextIsCanonical == pc = "printed" => digits = text

=============================================================================
