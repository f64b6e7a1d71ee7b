-------------------------- MODULE TrieDiffRefinement --------------------------
(***************************************************************************)
(* StateDiff.from_tries implements DiffSpec: the accumulator, the outcome  *)
(* and the account recorded last are read off the detailed state, and the *)
(* true values of the two worlds are those the tries were built from.     *)
(***************************************************************************)
EXTENDS TrieDiff

\* The address of the last account leaf the account handler recorded.
LastRecordedAccount ==
    LET recorded == SelectSeq(reports, LAMBDA r : r.sink = AccountSink /\
                               NibbleListToBytes(r.path) \in DOMAIN AddressPreimageStore)
    IN IF recorded = <<>> THEN None
       ELSE AddressPreimageStore[NibbleListToBytes(Last(recorded).path)]

Abstract == INSTANCE DiffSpec WITH
    accountsBefore <- [a \in Addresses |-> AccountIn(preState, a)],
    accountsAfter  <- [a \in Addresses |-> AccountIn(postState, a)],
    slotsBefore    <- [a \in Addresses |-> [k \in SlotKeys |-> SlotIn(preState, a, k)]],
    slotsAfter     <- [a \in Addresses |-> [k \in SlotKeys |-> SlotIn(postState, a, k)]],
    accountDiffs   <- mainTrie,
    storageDiffs   <- storageTries,
    current        <- LastRecordedAccount,
    outcome        <- status

\* Every behaviour of from_tries, run to its end, is a behaviour of
\* DiffSpec: no entry of _main_trie or _storage_tries is ever overwritten,
\* every recorded side is absent or true and the sides differ, the storage
\* walk an account leaf starts records its slots before any other account
\* is recorded, and the call returns or raises.
ImplementsDiffSpec == Abstract!LiveSpec

=============================================================================
