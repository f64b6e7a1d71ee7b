----------------------------- MODULE MCTrieDiff -----------------------------
(* Model values and small inputs for checking TrieDiff with TLC.          *)
EXTENDS TrieDiff

CONSTANTS a1, a2, a3, a4, s1, s2, s3, i1, i2

\* keccak(address) as 4 binary nibbles: keys sharing prefixes of every
\* length, so that leaves, extensions and branches meet in every pairing.
MCHashedAddress ==
    [a \in Addresses |-> CASE a = a1 -> <<0, 0, 0, 0>>
                           [] a = a2 -> <<0, 1, 1, 0>>
                           [] a = a3 -> <<0, 0, 0, 1>>
                           [] a = a4 -> <<0, 1, 1, 1>>]

MCHashedSlot ==
    [k \in SlotKeys |-> CASE k = s1 -> <<1, 0, 1, 1>>
                          [] k = s2 -> <<1, 0, 0, 0>>
                          [] k = s3 -> <<0, 1, 1, 0>>]

\* Every storage map over SlotKeys, zero meaning no leaf.
StorageMaps == [SlotKeys -> {0} \cup Values]

\* World states: each address absent or holding an account.
MCWorlds == [Addresses -> {None} \cup [info : Infos, storage : StorageMaps]]

=============================================================================
