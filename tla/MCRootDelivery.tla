--------------------------- MODULE MCRootDelivery ---------------------------
(* Bytes and byte strings for the TLC runs of RootDelivery: bytes have     *)
(* three values, a u64 two bytes, identifiers at most two.                 *)
EXTENDS RootDelivery

MCU64 == 0..8
MCToBeBytes == [n \in MCU64 |-> <<n \div 3, n % 3>>]
MCMagic == <<2, 0>>
MCRoots == {<<1>>}
MCIdentifiers == {<<>>, <<1>>, <<0, 1>>, <<1, 1, 1>>}

\* Two of one second, one of all three, and an inverted one.
MCWindows == {<<0, 0>>, <<1, 1>>, <<0, 2>>, <<1, 0>>}

=============================================================================
