----------------------------- MODULE MCWitnesses -----------------------------
(* Trees for the run of Witnesses:  four credentials, two policies, two      *)
(* issuances under different policies.                                       *)
EXTENDS Witnesses

CONSTANTS f1, f2

ReceiverA == <<0, 0, 0, 0, 1>>
ReceiverB == <<0, 1, 0, 0, 1>>

Credential(secret, class, jurisdiction, expiry, receiver) ==
    [authority_commitment |-> f1, subject_secret |-> secret,
     investor_class |-> class, jurisdiction |-> jurisdiction,
     credential_expiry |-> expiry, nonce |-> 0, approved_receiver |-> receiver]

MCCredentials ==
    <<Credential(f1, 0, 1, 1, ReceiverA), Credential(f2, 0, 1, 0, ReceiverA),
      Credential(f1, 1, 1, 1, ReceiverB), Credential(f2, 1, 0, 1, ReceiverB)>>

Permit(class, jurisdiction) == [investorClass |-> class, jurisdiction |-> jurisdiction]

\* The second policy permits a pair that the first one permits only crosswise.
MCPolicies ==
    <<<<Permit(0, 1), Permit(1, 0)>>, <<Permit(1, 1), Permit(0, 0)>>>>

MCIssuances ==
    <<[issuerCommitment |-> f1, offeredAsset |-> <<0, 0, 0, 1>>,
       seriesCommitment |-> f1, issuanceNonce |-> 0, policy |-> 1],
      [issuerCommitment |-> f1, offeredAsset |-> <<0, 1, 0, 0>>,
       seriesCommitment |-> f2, issuanceNonce |-> 0, policy |-> 2]>>

MCReceivers == {ReceiverA, ReceiverB}

AllRequests ==
    [credential : 1..4, receiver : MCReceivers, issuance : 1..2, entry : 1..2,
     expiry : U64]

\* One request that is eligible, and one whose credential no policy entry fits.
SomeRequests ==
    {[credential |-> 1, receiver |-> ReceiverA, issuance |-> 1, entry |-> 1, expiry |-> 1],
     [credential |-> 3, receiver |-> ReceiverB, issuance |-> 1, entry |-> 1, expiry |-> 0]}

MCMaxEdits == [r \in AllRequests |-> IF r \in SomeRequests THEN 2 ELSE 1]

=============================================================================
