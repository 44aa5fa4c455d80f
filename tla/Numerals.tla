------------------------------ MODULE Numerals ------------------------------
(***************************************************************************)
(* The number a sequence of digits denotes, most significant first, and    *)
(* powers: what the texts of FieldText and HexText are compared with.      *)
(***************************************************************************)
EXTENDS Naturals, Sequences

\* The numbers met while s is read on from the number first.
Values(first, base, s) ==
    LET value[i \in 0..Len(s)] ==
            IF i = 0 THEN first ELSE value[i - 1] * base + s[i]
    IN value

NumberFrom(first, base, s) == Values(first, base, s)[Len(s)]

Number(base, s) == NumberFrom(0, base, s)

\* base^n: 1 with n zeros after it.
Power(base, n) == NumberFrom(1, base, [i \in 1..n |-> 0])

=============================================================================

