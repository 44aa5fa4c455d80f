-------------------------- MODULE MCComplianceGate --------------------------
(* Bounds per kind of root for the TLC runs of ComplianceGate: the         *)
(* issuance root is published once, the credential root is rotated.        *)
EXTENDS ComplianceGate

MCMaxVersion == [k \in Kinds |-> IF k = KindIssuer THEN 1 ELSE 2]

\* Trades within the recipient's credential, to the second, and one past it.
MCTerms == {[expiry |-> 0, credential_expiry |-> 0],
            [expiry |-> 2, credential_expiry |-> 2],
            [expiry |-> 1, credential_expiry |-> 0]}

=============================================================================
