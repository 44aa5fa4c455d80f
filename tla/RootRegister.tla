---------------------------- MODULE RootRegister ----------------------------
(***************************************************************************)
(* What signed-root envelopes are for, without bytes, signatures, windows  *)
(* or a network: authorities announce roots under rising versions, and the *)
(* matcher follows each of them, always to something it really announced   *)
(* and never back.                                                         *)
(***************************************************************************)
EXTENDS Naturals

CONSTANTS
    Slots,          \* a kind of root together with the authority that signs it
    Announcements,  \* what can be announced; each has a kind, an id and a version
    Nothing         \* no root known yet

VARIABLES
    published,      \* everything announced so far
    current         \* what the matcher works with, per slot

rvars == <<published, current>>

SlotOf(a) == <<a.kind, a.id>>

VersionOf(a) == IF a = Nothing THEN 0 ELSE a.version

Init ==
    /\ published = {}
    /\ current = [s \in Slots |-> Nothing]

\* An authority never reuses a version.
Publish(a) ==
    /\ \A b \in published : SlotOf(b) = SlotOf(a) => b.version < a.version
    /\ published' = published \cup {a}
    /\ UNCHANGED current

Adopt(a) ==
    /\ a \in published
    /\ a.version > VersionOf(current[SlotOf(a)])
    /\ current' = [current EXCEPT ![SlotOf(a)] = a]
    /\ UNCHANGED published

Next == \E a \in Announcements : Publish(a) \/ Adopt(a)

Spec == Init /\ [][Next]_rvars

=============================================================================
