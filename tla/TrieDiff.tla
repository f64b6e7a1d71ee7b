------------------------------ MODULE TrieDiff ------------------------------
(***************************************************************************)
(* StateDiff.from_tries (src/python/mpt/src/mpt/trie_diff.py): the         *)
(* structural differ of two Merkle Patricia Tries.  The recursion of       *)
(* _compute_diff and the nested calls of the leaf handlers are run on an   *)
(* explicit call stack: the head of `stack` is the call being executed,    *)
(* and a step replaces it by the calls it makes, in program order, so the  *)
(* order of the reports is the order of the Python recursion.  A call is   *)
(* either _compute_diff(left, right, path) or process_leaf_diff(path,      *)
(* left, right), the latter bound to the account handler or to the         *)
(* storage handler of one address.                                         *)
(***************************************************************************)
EXTENDS Integers, Sequences, FiniteSets, SequencesExt, Functions

CONSTANTS
    None,          \* Python None
    Radix,         \* nibbles are 0..Radix-1 (16 in the code)
    KeyNibbles,    \* length of every trie key in nibbles (64 in the code)
    Addresses,     \* account addresses
    SlotKeys,      \* storage keys
    Infos,         \* the (nonce, balance, code_hash) part of an account
    Values,        \* non-zero storage values
    HashedAddress, \* keccak(address), as a nibble list
    HashedSlot,    \* keccak(storage key), as a nibble list
    Worlds,        \* the world states the pre and post state are drawn from
    WitnessMayLackNode, \* whether the witness may lack one node
    WitnessMayBeMalformed, \* whether one branch of the witness may carry a value
    PreimagesMayLack    \* whether the preimage maps may lack one key

Nibbles == 0..(Radix - 1)

ASSUME /\ Radix \in 2..16 /\ KeyNibbles \in 2..64 /\ KeyNibbles % 2 = 0
       /\ HashedAddress \in [Addresses -> [1..KeyNibbles -> Nibbles]]
       /\ HashedSlot \in [SlotKeys -> [1..KeyNibbles -> Nibbles]]
       /\ IsInjective(HashedAddress) /\ IsInjective(HashedSlot)
       /\ WitnessMayLackNode \in BOOLEAN /\ PreimagesMayLack \in BOOLEAN
       /\ WitnessMayBeMalformed \in BOOLEAN

VARIABLES
    preState,      \* the world before the block: address -> account or None
    postState,     \* the world after the block
    nodes,         \* the keys of StateDiff._nodes; the node of a hash is its content
    malformed,     \* hashes the witness maps to a branch carrying a value
    preimageKeys,  \* the packed hashed keys the two preimage maps hold
    stack,         \* pending calls, head first
    mainTrie,      \* StateDiff._main_trie: address -> <<pre, post>>
    storageTries,  \* StateDiff._storage_tries: address -> key -> <<pre, post>>
    status,        \* "running", "done", or "error" once an exception is raised
    reports        \* history of the process_leaf_diff calls: sink and nibble path

vars == <<preState, postState, nodes, malformed, preimageKeys, stack, mainTrie, storageTries, status, reports>>

-----------------------------------------------------------------------------
(* Node values and references (ethereum.cancun.trie).  A reference is      *)
(* None, b"" (EmptyBytes), a 32-byte hash, or an already built node.  The  *)
(* hash of a value x is the record [keccak |-> x], injective like keccak.  *)

EmptyBytes == <<>>
Hash(x) == [keccak |-> x]
EMPTY_TRIE_ROOT == Hash(EmptyBytes)

LeafNode(rest_of_key, value) == [kind |-> "leaf", rest_of_key |-> rest_of_key, value |-> value]
ExtensionNode(key_segment, subnode) == [kind |-> "ext", key_segment |-> key_segment, subnode |-> subnode]
BranchNode(subnodes, value) == [kind |-> "branch", subnodes |-> subnodes, value |-> value]

IsInternalNode(ref) == "kind" \in DOMAIN ref

\* The variant _compute_diff's match statement dispatches on.
Kind(n) == IF n = None THEN "none" ELSE n.kind

\* The value a malformed branch of the witness carries.
BranchValue == <<1>>

\* resolve(node, nodes): absent, an inline node, or a lookup in the store
\* that yields None for a hash the store lacks (dict.get).  The node is
\* never re-hashed: a malformed entry is returned as it is.
Resolve(ref) ==
    CASE ref \in {None, EmptyBytes} -> None
      [] IsInternalNode(ref)        -> ref
      [] ref \in malformed          -> [ref.keccak EXCEPT !.value = BranchValue]
      [] ref \in nodes              -> ref.keccak
      [] OTHER                      -> None

\* check_branch_node (mpt.utils): asserts that the node's value is empty;
\* a node without a value attribute raises as well.
CheckBranchNode(n) == "value" \in DOMAIN n /\ n.value = EmptyBytes

\* nibble_list_to_bytes (mpt.utils): two nibbles per byte, high nibble first.
NibbleListToBytes(s) == [i \in 1..(Len(s) \div 2) |-> 16 * s[2 * i - 1] + s[2 * i]]

\* Python values: the == of an int and a bytes object is False.
PyInt(n) == [int |-> n]
PyBytes(b) == [bytes |-> b]

-----------------------------------------------------------------------------
(* The tries of a world state (ethereum.cancun.trie.patricialize with      *)
(* encode_internal_node); every node below the root is referenced by hash. *)

EncodeInternalNode(n) == IF n = None THEN EmptyBytes ELSE Hash(n)

RECURSIVE Patricialize(_, _)
Patricialize(obj, level) ==
    IF DOMAIN obj = {} THEN None
    ELSE LET key  == CHOOSE k \in DOMAIN obj : TRUE
             rest == {SubSeq(k, level + 1, KeyNibbles) : k \in DOMAIN obj}
             pre  == LongestCommonPrefix(rest)
         IN CASE Cardinality(DOMAIN obj) = 1 ->
                   LeafNode(SubSeq(key, level + 1, KeyNibbles), obj[key])
              [] pre # <<>> ->
                   ExtensionNode(pre, EncodeInternalNode(Patricialize(obj, level + Len(pre))))
              [] OTHER ->
                   BranchNode([i \in Nibbles |->
                       EncodeInternalNode(Patricialize(
                           Restrict(obj, {k \in DOMAIN obj : k[level + 1] = i}), level + 1))],
                       EmptyBytes)

TrieRoot(obj) == IF DOMAIN obj = {} THEN EMPTY_TRIE_ROOT ELSE Hash(Patricialize(obj, 0))

\* Storage values are RLP-encoded big-endian integers; a zero slot has no leaf.
RECURSIVE ToBigEndian(_)
ToBigEndian(v) == IF v = 0 THEN <<>> ELSE ToBigEndian(v \div 256) \o <<v % 256>>

\* RLP of a byte string shorter than 56 bytes: a single byte below 0x80 is
\* its own encoding, any other string is prefixed by 0x80 + its length.
RlpEncodeBytes(b) == IF Len(b) = 1 /\ b[1] < 128 THEN b ELSE <<128 + Len(b)>> \o b
RlpDecodeBytes(e) == IF e[1] < 128 THEN e ELSE SubSeq(e, 2, Len(e))

StorageRoot(storage) ==
    TrieRoot([h \in {HashedSlot[k] : k \in {s \in SlotKeys : storage[s] # 0}} |->
                RlpEncodeBytes(ToBigEndian(storage[CHOOSE s \in SlotKeys : HashedSlot[s] = h]))])

\* Account leaves hold the RLP list of the account; code is left out.
RlpAccount(acct) == <<acct.info, StorageRoot(acct.storage)>>

StateRoot(world) ==
    TrieRoot([h \in {HashedAddress[a] : a \in {x \in Addresses : world[x] # None}} |->
                RlpAccount(world[CHOOSE a \in Addresses : HashedAddress[a] = h])])

RECURSIVE TrieHashes(_)
TrieHashes(ref) ==
    IF ref \in {EmptyBytes, EMPTY_TRIE_ROOT} THEN {}
    ELSE {ref} \cup CASE ref.keccak.kind = "ext"    -> TrieHashes(ref.keccak.subnode)
                      [] ref.keccak.kind = "branch" ->
                            UNION {TrieHashes(ref.keccak.subnodes[i]) : i \in Nibbles}
                      [] OTHER                      -> {}

\* The witness: every node of the account tries and storage tries of both worlds.
NodeStore(worlds) ==
    LET hs == UNION {TrieHashes(StateRoot(w)) : w \in worlds}
              \cup UNION {UNION {TrieHashes(StorageRoot(w[a].storage)) :
                                   a \in {x \in Addresses : w[x] # None}} : w \in worlds}
    IN hs

\* The preimage maps of the transition DB: packed keccak(key) -> key.
AddressPreimages == [b \in {NibbleListToBytes(HashedAddress[a]) : a \in Addresses} |->
                       CHOOSE a \in Addresses : NibbleListToBytes(HashedAddress[a]) = b]
StorageKeyPreimages == [b \in {NibbleListToBytes(HashedSlot[k]) : k \in SlotKeys} |->
                          CHOOSE k \in SlotKeys : NibbleListToBytes(HashedSlot[k]) = b]

\* StateDiff._address_preimages and _storage_key_preimages as the transition
\* DB supplies them: the entries whose key the DB holds.
AddressPreimageStore == Restrict(AddressPreimages, DOMAIN AddressPreimages \cap preimageKeys)
StorageKeyPreimageStore == Restrict(StorageKeyPreimages, DOMAIN StorageKeyPreimages \cap preimageKeys)


-----------------------------------------------------------------------------
(* Calls on the stack.                                                     *)

AccountSink == [handler |-> "account"]
StorageSink(address) == [handler |-> "storage", address |-> address]

ComputeDiff(left, right, path, sink) ==
    [call |-> "compute_diff", left |-> left, right |-> right, path |-> path, sink |-> sink]
ProcessLeafDiff(path, left, right, sink) ==
    [call |-> "process_leaf_diff", left |-> left, right |-> right, path |-> path, sink |-> sink]

\* for i in range(0, 16): the calls Call(i) in ascending nibble order.
NibbleLoop(Call(_)) == [j \in 1..Radix |-> Call(j - 1)]

Top == Head(stack)
L == Resolve(Top.left)
R == Resolve(Top.right)

\* An exception propagates out of from_tries: nothing more runs.
Raise == status' = "error" /\ stack' = <<>>

-----------------------------------------------------------------------------
(* The calls each case of _compute_diff's match makes, in program order.   *)

NoneLeafCalls(l, r, path, sink) == <<ProcessLeafDiff(path \o r.rest_of_key, None, r, sink)>>

NoneExtCalls(l, r, path, sink) == <<ComputeDiff(None, r.subnode, path \o r.key_segment, sink)>>

NoneBranchCalls(l, r, path, sink) ==
    NibbleLoop(LAMBDA i : ComputeDiff(None, r.subnodes[i], path \o <<i>>, sink))

LeafNoneCalls(l, r, path, sink) == <<ProcessLeafDiff(path \o l.rest_of_key, l, None, sink)>>

\* Mutants of the same-key branch: the sides of the report swapped, and
\* the report made without comparing the values.
SameKeyCallsSwapped(l, r, path, sink) ==
    IF l.value # r.value THEN <<ProcessLeafDiff(path \o l.rest_of_key, r, l, sink)>> ELSE <<>>
SameKeyCallsNoValueCheck(l, r, path, sink) == <<ProcessLeafDiff(path \o l.rest_of_key, l, r, sink)>>

\* Same path: one report if the values differ.
SameKeyCalls(l, r, path, sink) ==
    IF l.value # r.value THEN <<ProcessLeafDiff(path \o l.rest_of_key, l, r, sink)>> ELSE <<>>

\* Mutant: of two leaves with different keys, only the new one reported.
ReplacedLeafCallsNoDeletion(l, r, path, sink) == <<ProcessLeafDiff(path \o r.rest_of_key, None, r, sink)>>

\* Different paths: the old leaf deleted, then the new one created.
ReplacedLeafCalls(l, r, path, sink) ==
    <<ProcessLeafDiff(path \o l.rest_of_key, l, None, sink),
      ProcessLeafDiff(path \o r.rest_of_key, None, r, sink)>>

LeafLeafCalls(l, r, path, sink) ==
    IF l.rest_of_key = r.rest_of_key THEN SameKeyCalls(l, r, path, sink)
    ELSE ReplacedLeafCalls(l, r, path, sink)

\* Mutant: the shortened leaf is compared at `path`, without the segment.
ShortenedLeafCallsNoSegment(l, r, path, sink) ==
    <<ComputeDiff(LeafNode(SubSeq(l.rest_of_key, Len(r.key_segment) + 1, Len(l.rest_of_key)), l.value),
                  r.subnode, path, sink)>>

\* The leaf's key starts with the segment: the leaf, shortened by the
\* segment, is compared with the extension's subtree.
ShortenedLeafCalls(l, r, path, sink) ==
    <<ComputeDiff(LeafNode(SubSeq(l.rest_of_key, Len(r.key_segment) + 1, Len(l.rest_of_key)), l.value),
                  r.subnode, path \o r.key_segment, sink)>>

LeafExtCalls(l, r, path, sink) ==
    IF IsPrefix(r.key_segment, l.rest_of_key) THEN ShortenedLeafCalls(l, r, path, sink)
    ELSE <<ProcessLeafDiff(path \o l.rest_of_key, l, None, sink),
           ComputeDiff(None, r.subnode, path \o r.key_segment, sink)>>

LeafBranchCalls(l, r, path, sink) ==
    NibbleLoop(LAMBDA i :
        IF i # l.rest_of_key[1]
        THEN ComputeDiff(None, r.subnodes[i], path \o <<i>>, sink)
        ELSE ComputeDiff(LeafNode(Tail(l.rest_of_key), l.value), r.subnodes[i], path \o <<i>>, sink))

ExtNoneCalls(l, r, path, sink) == <<ComputeDiff(l.subnode, None, path \o l.key_segment, sink)>>

ExtLeafCalls(l, r, path, sink) ==
    IF IsPrefix(l.key_segment, r.rest_of_key)
    THEN <<ComputeDiff(l.subnode,
                       LeafNode(SubSeq(r.rest_of_key, Len(l.key_segment) + 1, Len(r.rest_of_key)), r.value),
                       path \o l.key_segment, sink)>>
    ELSE <<ProcessLeafDiff(path \o r.rest_of_key, None, r, sink),
           ComputeDiff(l.subnode, None, path \o l.key_segment, sink)>>

\* Mutant: without the `right is prefix of left` branch.
ExtExtCallsNoRightPrefix(l, r, path, sink) ==
    LET ls == l.key_segment
        rs == r.key_segment
    IN CASE ls = rs -> <<ComputeDiff(l.subnode, r.subnode, path \o ls, sink)>>
         [] IsPrefix(ls, rs) ->
              <<ComputeDiff(l.subnode, ExtensionNode(SubSeq(rs, Len(ls) + 1, Len(rs)), r.subnode),
                            path \o ls, sink)>>
         [] OTHER -> <<ComputeDiff(l.subnode, None, path \o ls, sink),
                       ComputeDiff(None, r.subnode, path \o rs, sink)>>

ExtExtCalls(l, r, path, sink) ==
    LET ls == l.key_segment
        rs == r.key_segment
    IN CASE ls = rs -> <<ComputeDiff(l.subnode, r.subnode, path \o ls, sink)>>
         [] IsPrefix(rs, ls) ->
              <<ComputeDiff(ExtensionNode(SubSeq(ls, Len(rs) + 1, Len(ls)), l.subnode),
                            r.subnode, path \o rs, sink)>>
         [] IsPrefix(ls, rs) ->
              <<ComputeDiff(l.subnode, ExtensionNode(SubSeq(rs, Len(ls) + 1, Len(rs)), r.subnode),
                            path \o ls, sink)>>
         [] OTHER -> <<ComputeDiff(l.subnode, None, path \o ls, sink),
                       ComputeDiff(None, r.subnode, path \o rs, sink)>>

\* `l_node.key_segment[0] == nibble` compares an int with bytes([i]).
ExtBranchCalls(l, r, path, sink) ==
    NibbleLoop(LAMBDA i :
        IF PyInt(l.key_segment[1]) = PyBytes(<<i>>)
        THEN ComputeDiff(IF Len(l.key_segment) = 1 THEN l.subnode
                         ELSE ExtensionNode(Tail(l.key_segment), l.subnode),
                         r.subnodes[i], path \o <<i>>, sink)
        ELSE ComputeDiff(None, r.subnodes[i], path \o <<i>>, sink))

BranchNoneCalls(l, r, path, sink) ==
    NibbleLoop(LAMBDA i : ComputeDiff(l.subnodes[i], None, path \o <<i>>, sink))

BranchLeafCalls(l, r, path, sink) ==
    NibbleLoop(LAMBDA i :
        IF i # r.rest_of_key[1]
        THEN ComputeDiff(l.subnodes[i], None, path \o <<i>>, sink)
        ELSE ComputeDiff(l.subnodes[i], LeafNode(Tail(r.rest_of_key), r.value), path \o <<i>>, sink))

\* `r_node.key_segment[0] == nibble` compares an int with bytes([i]).
BranchExtCalls(l, r, path, sink) ==
    NibbleLoop(LAMBDA i :
        IF PyInt(r.key_segment[1]) = PyBytes(<<i>>)
        THEN ComputeDiff(l.subnodes[i], r.subnode, path \o <<i>>, sink)
        ELSE ComputeDiff(l.subnodes[i], None, path \o <<i>>, sink))

BranchBranchCalls(l, r, path, sink) ==
    NibbleLoop(LAMBDA i : ComputeDiff(l.subnodes[i], r.subnodes[i], path \o <<i>>, sink))

-----------------------------------------------------------------------------------------------------------------------------------------------------
(* One execution of _compute_diff.  Dispatch(lt, rt) holds when the call   *)
(* on top of the stack has different references whose resolved nodes are  *)
(* of the variants lt and rt; Continue(checked, calls) runs the            *)
(* check_branch_node calls of the case on the nodes in `checked` and then  *)
(* puts the calls the case makes in place of the executed one.             *)

Dispatch(lt, rt) ==
    /\ status = "running"
    /\ stack # <<>>
    /\ Top.call = "compute_diff"
    /\ Top.left # Top.right
    /\ Kind(L) = lt
    /\ Kind(R) = rt

Continue(checked, calls) ==
    /\ IF \A n \in checked : CheckBranchNode(n)
       THEN stack' = calls \o Tail(stack) /\ UNCHANGED status
       ELSE Raise
    /\ UNCHANGED <<preState, postState, nodes, malformed, preimageKeys, mainTrie, storageTries, reports>>

\* `if left == right: return`, the pruning of shared subtrees.
EqualRefs ==
    /\ status = "running"
    /\ stack # <<>>
    /\ Top.call = "compute_diff"
    /\ Top.left = Top.right
    /\ stack' = Tail(stack)
    /\ UNCHANGED <<preState, postState, nodes, malformed, preimageKeys, mainTrie, storageTries, status, reports>>

NoneNone == Dispatch("none", "none") /\ Continue({}, <<>>)
\* Mutant: check_branch_node(r_node) copied into the None/Leaf case.
NoneLeafChecked == Dispatch("none", "leaf") /\ Continue({R}, NoneLeafCalls(L, R, Top.path, Top.sink))
NoneLeaf == Dispatch("none", "leaf") /\ Continue({}, NoneLeafCalls(L, R, Top.path, Top.sink))
NoneExt == Dispatch("none", "ext") /\ Continue({}, NoneExtCalls(L, R, Top.path, Top.sink))
NoneBranch == Dispatch("none", "branch") /\ Continue({R}, NoneBranchCalls(L, R, Top.path, Top.sink))
LeafNone == Dispatch("leaf", "none") /\ Continue({}, LeafNoneCalls(L, R, Top.path, Top.sink))
LeafLeaf == Dispatch("leaf", "leaf") /\ Continue({}, LeafLeafCalls(L, R, Top.path, Top.sink))
LeafExt == Dispatch("leaf", "ext") /\ Continue({}, LeafExtCalls(L, R, Top.path, Top.sink))
LeafBranch == Dispatch("leaf", "branch") /\ Continue({R}, LeafBranchCalls(L, R, Top.path, Top.sink))
ExtNone == Dispatch("ext", "none") /\ Continue({}, ExtNoneCalls(L, R, Top.path, Top.sink))
ExtLeaf == Dispatch("ext", "leaf") /\ Continue({}, ExtLeafCalls(L, R, Top.path, Top.sink))
ExtExt == Dispatch("ext", "ext") /\ Continue({}, ExtExtCalls(L, R, Top.path, Top.sink))
ExtBranch == Dispatch("ext", "branch") /\ Continue({R}, ExtBranchCalls(L, R, Top.path, Top.sink))
BranchNone == Dispatch("branch", "none") /\ Continue({L}, BranchNoneCalls(L, R, Top.path, Top.sink))
\* Both of the next two cases pass r_node, the leaf or the extension, to
\* check_branch_node, and never check the branch l_node.
BranchLeaf == Dispatch("branch", "leaf") /\ Continue({R}, BranchLeafCalls(L, R, Top.path, Top.sink))
BranchExt == Dispatch("branch", "ext") /\ Continue({R}, BranchExtCalls(L, R, Top.path, Top.sink))
\* Mutant: only r_node passed to check_branch_node.
BranchBranchRightOnly == Dispatch("branch", "branch") /\ Continue({R}, BranchBranchCalls(L, R, Top.path, Top.sink))
BranchBranch == Dispatch("branch", "branch") /\ Continue({L, R}, BranchBranchCalls(L, R, Top.path, Top.sink))

-----------------------------------------------------------------------------
(* The leaf handlers.                                                      *)

\* Mutant: the storage root read from the position of the other fields.
AccountFromRlpMisread(value) == [info |-> value[1], storage_root |-> value[1]]

\* Account.from_rlp: the RLP list back into an account record.
AccountFromRlp(value) == [info |-> value[1], storage_root |-> value[2]]

\* U256(int.from_bytes(rlp.decode(value), "big")).
StorageValueFromRlp(value) == FoldLeft(LAMBDA acc, b : 256 * acc + b, 0, RlpDecodeBytes(value))

\* Account.from_rlp(left.value) if left else None
DecodedAccount(leaf) == IF leaf = None THEN None ELSE AccountFromRlp(leaf.value)

\* U256(int.from_bytes(rlp.decode(left.value), "big")) if left else None
DecodedStorageValue(leaf) == IF leaf = None THEN None ELSE StorageValueFromRlp(leaf.value)

StorageRootOf(account) == IF account = None THEN None ELSE account.storage_root

\* Mutant: the two storage roots passed in swapped order.
StorageDiffCallSwapped(left_account, right_account, address) ==
    ComputeDiff(StorageRootOf(right_account), StorageRootOf(left_account),
                EmptyBytes, StorageSink(address))

\* Mutant: the storage walk started at the account's path, not at b"".
StorageDiffCallAccountPath(left_account, right_account, address) ==
    ComputeDiff(StorageRootOf(left_account), StorageRootOf(right_account),
                Top.path, StorageSink(address))

\* self._compute_diff(left_storage_root, right_storage_root, b"",
\*                    partial(self._process_storage_diff, address=address))
StorageDiffCall(left_account, right_account, address) ==
    ComputeDiff(StorageRootOf(left_account), StorageRootOf(right_account),
                EmptyBytes, StorageSink(address))

\* Mutant: a key without preimage skipped, as with dict.get, instead of raising.
PreimageKeyErrorSkipped == stack' = Tail(stack) /\ UNCHANGED <<mainTrie, storageTries, status>>

\* self._address_preimages[path] / self._storage_key_preimages[path] on a
\* path the map lacks raises KeyError.
PreimageKeyError == Raise /\ UNCHANGED <<mainTrie, storageTries>>

\* Mutant: the storage walk queued behind the pending account walk.
CallStorageDiffDeferred(call) == stack' = Tail(stack) \o <<call>>

\* The account handler calls _compute_diff on the storage roots before it
\* returns to the account walk.
CallStorageDiff(call) == stack' = <<call>> \o Tail(stack)

LeafCall(handler) ==
    /\ status = "running"
    /\ stack # <<>>
    /\ Top.call = "process_leaf_diff"
    /\ Top.sink.handler = handler
    /\ reports' = Append(reports, [sink |-> Top.sink, path |-> Top.path])
    /\ UNCHANGED <<preState, postState, nodes, malformed, preimageKeys>>

\* _process_account_diff: record the account pair, then diff the two
\* storage tries with the storage handler bound to the address.
ProcessAccountDiff ==
    /\ LeafCall("account")
    /\ LET key == NibbleListToBytes(Top.path)
           address == AddressPreimageStore[key]
           left_account == DecodedAccount(Top.left)
           right_account == DecodedAccount(Top.right)
       IN IF key \notin DOMAIN AddressPreimageStore
          THEN PreimageKeyError
          ELSE /\ mainTrie' = (address :> <<left_account, right_account>>) @@ mainTrie
               /\ CallStorageDiff(StorageDiffCall(left_account, right_account, address))
               /\ UNCHANGED <<storageTries, status>>

\* Mutant: a fresh slot map for every slot of the address.
StorageTrieOfReset(address) == <<>>

\* `if address not in self._storage_tries: self._storage_tries[address] = {}`
StorageTrieOf(address) == IF address \in DOMAIN storageTries THEN storageTries[address] ELSE <<>>

\* _process_storage_diff: record the slot pair under the bound address.
ProcessStorageDiff ==
    /\ LeafCall("storage")
    /\ LET key == NibbleListToBytes(Top.path)
           address == Top.sink.address
           slot == StorageKeyPreimageStore[key]
           pair == <<DecodedStorageValue(Top.left), DecodedStorageValue(Top.right)>>
       IN IF key \notin DOMAIN StorageKeyPreimageStore
          THEN PreimageKeyError
          ELSE /\ storageTries' = (address :> ((slot :> pair) @@ StorageTrieOf(address))) @@ storageTries
               /\ stack' = Tail(stack)
               /\ UNCHANGED <<mainTrie, status>>

\* from_tries returns once the outermost _compute_diff call has returned.
Return ==
    /\ status = "running"
    /\ stack = <<>>
    /\ status' = "done"
    /\ UNCHANGED <<preState, postState, nodes, malformed, preimageKeys, stack, mainTrie, storageTries, reports>>

\* from_tries(db): an empty accumulator and the walk of the two state roots.
Init ==
    /\ preState \in Worlds
    /\ postState \in Worlds
    /\ LET store == NodeStore({preState, postState})
       IN nodes \in {store} \cup IF WitnessMayLackNode THEN {store \ {h} : h \in store} ELSE {}
    /\ malformed \in {{}} \cup IF WitnessMayBeMalformed
                               THEN {{h} : h \in {x \in nodes : x.keccak.kind = "branch"}} ELSE {}
    /\ LET keys == DOMAIN AddressPreimages \cup DOMAIN StorageKeyPreimages
       IN preimageKeys \in {keys} \cup IF PreimagesMayLack THEN {keys \ {k} : k \in keys} ELSE {}
    /\ stack = <<ComputeDiff(StateRoot(preState), StateRoot(postState), EmptyBytes, AccountSink)>>
    /\ mainTrie = <<>>
    /\ storageTries = <<>>
    /\ status = "running"
    /\ reports = <<>>

\* The diff has returned or raised; nothing changes any more.
Halted == status # "running" /\ UNCHANGED vars

Next ==
    \/ EqualRefs
    \/ NoneNone \/ NoneLeaf \/ NoneExt \/ NoneBranch
    \/ LeafNone \/ LeafLeaf \/ LeafExt \/ LeafBranch
    \/ ExtNone \/ ExtLeaf \/ ExtExt \/ ExtBranch
    \/ BranchNone \/ BranchLeaf \/ BranchExt \/ BranchBranch
    \/ ProcessAccountDiff \/ ProcessStorageDiff
    \/ Return
    \/ Halted

Spec == Init /\ [][Next]_vars

\* from_tries runs on one thread with no suspension point: while it has not
\* returned or raised, its next step is always enabled and taken.
FairSpec == Spec /\ WF_vars(Next)

-----------------------------------------------------------------------------
(* Properties.                                                             *)

\* The account and slot values a world holds; None where absent or zero.
AccountIn(world, a) ==
    IF world[a] = None THEN None
    ELSE [info |-> world[a].info, storage_root |-> StorageRoot(world[a].storage)]
SlotIn(world, a, k) ==
    IF world[a] = None \/ world[a].storage[k] = 0 THEN None ELSE world[a].storage[k]

Pairs(S) == (S \cup {None}) \X (S \cup {None})

TypeOK ==
    /\ status \in {"running", "done", "error"}
    /\ malformed \subseteq nodes
    /\ preimageKeys \subseteq DOMAIN AddressPreimages \cup DOMAIN StorageKeyPreimages
    /\ \A i \in DOMAIN stack :
          /\ stack[i].call \in {"compute_diff", "process_leaf_diff"}
          /\ stack[i].path \in Seq(Nibbles)
    /\ DOMAIN mainTrie \subseteq Addresses
    /\ \A a \in DOMAIN mainTrie :
          mainTrie[a] \in Pairs([info : Infos, storage_root : {EMPTY_TRIE_ROOT} \cup nodes])
    /\ DOMAIN storageTries \subseteq Addresses
    /\ \A a \in DOMAIN storageTries :
          /\ DOMAIN storageTries[a] \subseteq SlotKeys
          /\ \A k \in DOMAIN storageTries[a] : storageTries[a][k] \in Pairs(Values)
    /\ reports \in Seq([sink : {AccountSink} \cup {StorageSink(a) : a \in Addresses},
                        path : Seq(Nibbles)])

\* Every key handed to a leaf handler is a whole trie key: the nibble path
\* accumulated through extensions, branches and shortened nodes has exactly
\* KeyNibbles nibbles, so nibble_list_to_bytes packs it to a 32-byte hash.
KeyWidth == \A i \in DOMAIN reports : Len(reports[i].path) = KeyNibbles

\* On a complete, well-formed witness from_tries raises no exception.
DiffSucceeds == status # "error"

\* A hash the walk must resolve and the witness lacks stops the diff with
\* an error (spec: MissingNode); it is never read as an absent subtree.
\* The root of the empty trie is no node of any witness and is exempt.
IsMissing(ref) ==
    IF ref \in {None, EmptyBytes, EMPTY_TRIE_ROOT} THEN FALSE
    ELSE ~IsInternalNode(ref) /\ ref \notin nodes
MissingNodeRaises ==
    [][ /\ status = "running" /\ stack # <<>>
        /\ Top.call = "compute_diff" /\ Top.left # Top.right
        /\ IsMissing(Top.left) \/ IsMissing(Top.right)
        => status' = "error" ]_vars

\* On a complete witness with every preimage, from_tries raises only on a
\* Branch/Leaf or Branch/Extension step, where check_branch_node is given
\* the leaf or the extension (lines 364, 392).  No other case raises, nor
\* the storage walk of a created or deleted account, whose EMPTY_TRIE_ROOT
\* side resolves to None.
RaisesOnlyOnBranchCollapse ==
    [][ status = "running" /\ status' = "error" =>
          /\ Top.call = "compute_diff"
          /\ Kind(L) = "branch" /\ Kind(R) \in {"leaf", "ext"} ]_vars

\* A step of _compute_diff that resolves a branch carrying a value, on
\* either side and in whichever of the sixteen cases, raises (spec: a
\* non-empty branch value is a structural error); the witness's malformed
\* node is never walked as if it were well formed.
HasBranchValue(n) == n # None /\ n.kind = "branch" /\ n.value # EmptyBytes
MalformedBranchRaises ==
    [][ /\ status = "running" /\ stack # <<>>
        /\ Top.call = "compute_diff" /\ Top.left # Top.right
        /\ HasBranchValue(L) \/ HasBranchValue(R)
        => status' = "error" ]_vars

\* A diff is never returned without an entry whose key has no preimage:
\* when from_tries returns, the preimage maps hold the packed key of every
\* account and every slot whose value differs (spec: MissingPreimage is
\* fatal).  The handlers' map lookups raise KeyError; a walk that skipped a
\* changed leaf, or a lookup that tolerated the gap, would return a diff
\* silently lacking that key.
PreimageGapRaises ==
    status = "done" =>
        \A a \in Addresses :
            /\ AccountIn(preState, a) # AccountIn(postState, a) =>
                  NibbleListToBytes(HashedAddress[a]) \in preimageKeys
            /\ \A k \in SlotKeys :
                  SlotIn(preState, a, k) # SlotIn(postState, a, k) =>
                      NibbleListToBytes(HashedSlot[k]) \in preimageKeys

\* When from_tries returns, every account and every slot whose value differs
\* between the two worlds has an entry.
Completeness ==
    status = "done" =>
        \A a \in Addresses :
            /\ AccountIn(preState, a) # AccountIn(postState, a) => a \in DOMAIN mainTrie
            /\ \A k \in SlotKeys :
                  SlotIn(preState, a, k) # SlotIn(postState, a, k) =>
                      a \in DOMAIN storageTries /\ k \in DOMAIN storageTries[a]

\* No entry records the same value before and after, and every entry holds
\* exactly the values of the two worlds.
Soundness ==
    /\ \A a \in DOMAIN mainTrie :
          mainTrie[a] = <<AccountIn(preState, a), AccountIn(postState, a)>>
          /\ mainTrie[a][1] # mainTrie[a][2]
    /\ \A a \in DOMAIN storageTries : \A k \in DOMAIN storageTries[a] :
          storageTries[a][k] = <<SlotIn(preState, a, k), SlotIn(postState, a, k)>>
          /\ storageTries[a][k][1] # storageTries[a][k][2]

=============================================================================
