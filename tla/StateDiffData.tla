---------------------------- MODULE StateDiffData ----------------------------
(***************************************************************************)
(* StateDiff.from_data (src/python/mpt/src/mpt/trie_diff.py): the parser  *)
(* of a precomputed ZKPI state diff, data["extra"]["stateDiffs"].  One    *)
(* step is one iteration of the storage loop of a diff entry, or the end  *)
(* of an entry, which records its account pair and moves to the next.     *)
(*                                                                         *)
(* A JSON hex string "0x..." is the sequence <<"0x">> \o payload, so      *)
(* s[2:] is Tail(s): the payload of an integer is its hex digits, that of *)
(* an address, hash or storage key is the single opaque value.            *)
(***************************************************************************)
EXTENDS Integers, Sequences, SequencesExt, TLC

CONSTANTS None

VARIABLES
    data,          \* the list data["extra"]["stateDiffs"]
    entry,         \* index of the diff entry being parsed
    slot,          \* index of the next storage_diff of that entry
    mainTrie,      \* state_diff._main_trie
    storageTries   \* state_diff._storage_tries

dvars == <<data, entry, slot, mainTrie, storageTries>>

\* int(s[2:], 16)
HexToInt(s) == FoldLeft(LAMBDA acc, d : 16 * acc + d, 0, Tail(s))

\* Address.fromhex(s[2:]), Hash32.fromhex(s[2:]), Bytes32.fromhex(s[2:])
FromHex(s) == Tail(s)[1]

\* Account(nonce=..., balance=..., code_hash=..., storage_root=..., code=None)
ParseAccount(j) ==
    [info |-> [nonce |-> HexToInt(j.nonce), balance |-> HexToInt(j.balance),
               code_hash |-> FromHex(j.codeHash)],
     storage_root |-> FromHex(j.storageHash)]

\* pre_account / post_account: parsed when the key is present, else None.
AccountField(diff, key) == IF key \in DOMAIN diff THEN ParseAccount(diff[key]) ELSE None

\* `None if pre_int == 0 else U256(pre_int)`
ZeroToNone(n) == IF n = 0 THEN None ELSE n

Diff == data[entry]
StorageList == IF "storage" \in DOMAIN Diff THEN Diff["storage"] ELSE <<>>

\* Mutant: the inner map created afresh for every storage_diff.
StorageMapOfReset(address) == <<>>

\* `if address not in state_diff._storage_tries: ... = {}`
StorageMapOf(address) == IF address \in DOMAIN storageTries THEN storageTries[address] ELSE <<>>

Init ==
    /\ entry = 1
    /\ slot = 1
    /\ mainTrie = <<>>
    /\ storageTries = <<>>

\* One iteration of `for storage_diff in diff["storage"]`.
ParseStorageDiff ==
    /\ entry <= Len(data)
    /\ slot <= Len(StorageList)
    /\ LET sd == StorageList[slot]
           address == FromHex(Diff["address"])
           pair == <<ZeroToNone(HexToInt(sd.preValue)), ZeroToNone(HexToInt(sd.postValue))>>
       IN storageTries' = (address :> ((FromHex(sd.storageKey) :> pair) @@ StorageMapOf(address)))
                            @@ storageTries
    /\ slot' = slot + 1
    /\ UNCHANGED <<data, entry, mainTrie>>

\* The end of one iteration of `for diff in ...`: the account pair.
ParseAccountDiff ==
    /\ entry <= Len(data)
    /\ slot > Len(StorageList)
    /\ mainTrie' = (FromHex(Diff["address"]) :>
                      <<AccountField(Diff, "preAccount"), AccountField(Diff, "postAccount")>>)
                   @@ mainTrie
    /\ entry' = entry + 1
    /\ slot' = 1
    /\ UNCHANGED <<data, storageTries>>

\* from_data returns state_diff.
Parsed == entry > Len(data)

Next == ParseStorageDiff \/ ParseAccountDiff

=============================================================================
