# TLA+ model of the MPT state differ

This directory models `src/python/mpt/src/mpt/trie_diff.py`. That file holds
`StateDiff.from_tries`, which walks two Merkle Patricia Tries (the world state
before and after a block) at the same time. It records, for every account and
every storage slot that changed, the pair (pre, post), with `None` for absent.

## 1. Inventory

### Components and their state

| Component | Code | State it keeps | Operations |
|---|---|---|---|
| Node store and preimages | `StateDiff._nodes`, `_address_preimages`, `_storage_key_preimages` (lines 40-42) | read-only maps: hash to node, hashed key to address or storage key | lookups only |
| Resolver | `resolve` (481-492) | none | turns None / `b""` / 32-byte hash / node / inline list into a node or None; a hash missing from the store gives None (`dict.get`) |
| Trie Walker | `_compute_diff` (119-430) | the Python call stack: (left ref, right ref, nibble path, leaf handler) per frame | equal-reference pruning (126), then a `match` on the 16 pairs of (None, Leaf, Extension, Branch); each case recurses and/or calls the leaf handler |
| Account handler | `_process_account_diff` (432-451) | writes `_main_trie` | preimage lookup (KeyError if absent), `Account.from_rlp`, record the pair, then re-enter the walker on the two storage roots with the storage handler bound to the address |
| Storage handler | `_process_storage_diff` (453-478) | writes `_storage_tries[address]` | preimage lookup, RLP and big-endian decoding to U256, record the pair |
| Accumulator and entry | `StateDiff`, `from_tries` (26-42, 107-117) | `_main_trie`, `_storage_tries` | created empty, filled by the walk, returned |
| JSON parser | `from_json`, `from_data` (44-105) | its own `_main_trie`, `_storage_tries` | parses a precomputed ZKPI diff: per entry, the storage loop, then the account pair; hex strings to integers, zero to None |
| External | `ethereum.cancun.trie`, `ethereum_rlp`, `mpt.utils` | none | trie node types, RLP, `check_branch_node`, `nibble_list_to_bytes` |

### How they interact

Everything is one synchronous recursion. `from_tries` calls the walker on the
two state roots with the account handler. The walker calls the handler for
each differing leaf. The account handler records the pair and calls the walker
again on the two storage roots, with a storage handler bound to that address.
That nested walk finishes before the outer walk continues. All inputs are
read-only; only the two accumulator maps are written. The first exception stops
the whole diff and nothing is returned.

`from_data` builds a `StateDiff` of the same shape from JSON. It shares no
state with `from_tries`. The two meet through the spec's round-trip property:
a diff computed from tries, written in the stateDiffs schema, must parse back
to the same maps.

### What is hard

There is no concurrency. What is hard is the shape of the input:

- The two tries encode their key sets in different shapes. Leaves, extensions
  and branches meet in every combination.
- The walker must realign them by stripping key prefixes, building shortened
  nodes and re-entering.
- It must never lose a nibble of the path.
- It must never report a key twice, never miss one, and never report an
  unchanged one.
- The witness may be incomplete.

Tests rarely build the shape pairs that matter. An extension facing a branch
appears only when an insertion splits an extension at its first nibble. A
branch collapsing into a leaf appears only when a deletion leaves a single key.

### Properties that make each component correct

- **Walker and accumulator, against the abstract specification `DiffSpec`.**
  The property is *ImplementsDiffSpec*:
  - no entry is ever overwritten;
  - every recorded side is absent or the true value, and the two sides differ;
  - the slots of an account are recorded before the next account;
  - the call ends.
- **Walker, over the whole diff:**
  - *Completeness*: every key whose value differs has an entry.
  - *Soundness*: every entry holds exactly the two worlds' values.
  - *KeyWidth*: every reported path is a whole key.
  - *DiffSucceeds*: a complete, well-formed witness never raises.
  - *RaisesOnlyOnBranchCollapse*: on a complete witness, the only steps that
    raise are Branch/Leaf and Branch/Extension.
  - *MissingNodeRaises*: a missing hash is fatal, not an empty subtree.
- **Handlers:**
  - *PreimageGapRaises*: a missing preimage never yields a returned diff that lacks a changed key.
  - *TypeOK*: recorded values are decoded accounts and U256 integers.
- **JSON parser with from_tries:**
  - *RoundTripExact*: a returned diff, serialized and parsed back, is unchanged.

The hazards these properties are aimed at are listed, each at its line, under
`hazards` in `PROJECT.json`.

## 2. Modules

| Module | Models | Kind |
|---|---|---|
| `TrieDiff` | `from_tries`, `_compute_diff`, `resolve`, both leaf handlers | detailed specification |
| `DiffSpec` | what the accumulator promises, without tries | abstract specification |
| `TrieDiffRefinement` | the refinement mapping from `TrieDiff` to `DiffSpec` | refinement |
| `StateDiffData` | `from_data` | detailed specification |
| `RoundTrip` | `from_tries`, then the stateDiffs schema, then `from_data` | composition |
| `MCTrieDiff`, `MCTrieDiffRefinement`, `MCRoundTrip` | model values and inputs for TLC | model |

### `TrieDiff.tla`

The recursion runs on an explicit call stack (`stack`). The head is the call
being executed. A step replaces it by the calls it makes, in the order the
Python code makes them. So the order of reports, and the point at which the
account handler's storage walk runs, match the code exactly. There are two
kinds of frame:

- `ComputeDiff(left, right, path, sink)`
- `ProcessLeafDiff(path, left, right, sink)`

The sink is the account handler or the storage handler of one address.

| Code | Model |
|---|---|
| `if left == right: return` | `EqualRefs` |
| `case (X, Y)` of the match | one action per pair: `NoneNone` ... `BranchBranch`. Each is `Dispatch(X, Y)` plus `Continue(checked, XYCalls(...))`: the case's `check_branch_node` calls on `checked`, then its recursive calls and handler calls |
| `for i in range(0, 16)` | `NibbleLoop`, in ascending nibble order |
| `l_node.key_segment[0] == nibble` | `PyInt(..) = PyBytes(<<i>>)`: Python int against bytes, always FALSE |
| `resolve` | `Resolve` |
| `check_branch_node` (spec) | `CheckBranchNode`: the node must have an empty `value` |
| `_process_account_diff` | `ProcessAccountDiff`; `CallStorageDiff` runs the nested walk before the account walk resumes |
| `_process_storage_diff` | `ProcessStorageDiff` |
| `self._..._preimages[path]` | `AddressPreimageStore`, `StorageKeyPreimageStore`; a missing key is `PreimageKeyError` |
| exception | `Raise`: `status = "error"`, stack cleared |
| `from_tries` | `Init` and `Return` |

`reports` is a history variable: one entry per handler call, holding the
handler and the nibble path.

**Inputs.** `Init` draws the pre and post world from `Worlds`. A world maps
each address to None or to an account: an `info` (nonce, balance and code
hash) plus a storage map. Both tries are built from the worlds with
`Patricialize`, which follows `ethereum.cancun.trie.patricialize`:

- every child is referenced by hash;
- a hash is `[keccak |-> node]`, injective like keccak;
- the empty trie's root `EMPTY_TRIE_ROOT` is a hash of no stored node.

The witness has two parts:

- **Nodes.** `nodes` is the set of hashes in the witness: every node of the
  account and storage tries of both worlds. Because a hash is its content,
  looking one up returns the node. With `WitnessMayLackNode`, one node may be
  missing. With `WitnessMayBeMalformed`, the hashes in `malformed` (at most
  one branch) resolve to that branch carrying a value: `resolve` returns
  `nodes[hash]` and never re-hashes it, so a witness entry need not match its
  hash.
- **Preimages.** `preimageKeys` is the set of packed hashed keys the preimage
  maps hold. With `PreimagesMayLack`, one key may be missing.

**Data abstractions:**

- Nibbles are `0..Radix-1`, and keys are `KeyNibbles` nibbles long.
- RLP is modelled for what the code decodes: accounts are a two-field list,
  and storage values are big-endian bytes with the RLP short-string prefix for
  bytes of 0x80 and above.
- Preimage maps are keyed by the packed bytes of the hashed key
  (`NibbleListToBytes`).

### `DiffSpec.tla` and `TrieDiffRefinement.tla`

`DiffSpec` has the two worlds as read-only inputs and four variables of state:

- `accountDiffs` and `storageDiffs`, the accumulator;
- `current`, the account recorded last;
- `outcome`, which is running, done or error.

It has four actions:

- `RecordAccount(a)` adds an entry for an address that has none.
- `RecordSlot(k)` adds a slot entry under `current`.
- `Finish` ends the call by returning.
- `Fail` ends the call by raising.

Each side of an entry is None or the true value, and the two sides differ.
`LiveSpec` adds that the call ends.

`TrieDiffRefinement` maps the state of `TrieDiff` onto it with
`INSTANCE DiffSpec WITH`:

- the accumulator maps to itself;
- `outcome` is `status`;
- the true values come from the worlds;
- `current` is the address of the last account report whose preimage the DB
  holds.

Every step of `TrieDiff` is then one `DiffSpec` step or a stutter. Handler
steps are the record actions. `Return` is `Finish`, and every raise is
`Fail`.

`DiffSpec` deliberately promises neither completeness nor exact
sides: from_tries keeps neither promise (section 3).

### `StateDiffData.tla` and `RoundTrip.tla`

`StateDiffData` models `from_data` with two actions and two loop indices:

- `ParseStorageDiff` is one iteration of the storage loop.
- `ParseAccountDiff` ends an entry, recording its account pair.

A JSON hex string is `<<"0x">> \o payload`, so `s[2:]` is `Tail(s)`:

- an integer's payload is its hex digits, and `int(s, 16)` is a fold;
- an address, hash or storage key is one opaque value, and `fromhex` takes it
  out.

`RoundTrip` composes `TrieDiff` and an instance of `StateDiffData` in three
phases:

1. `from_tries` runs.
2. Once it has returned, `Serialize` writes its result in the stateDiffs
   schema. The schema writes an absent account as an omitted key and an
   absent value as `0x0`.
3. `from_data` parses the result.

### MC modules

`MCTrieDiff` defines the model values, `keccak(address)` and `keccak(slot)`
as 4-nibble binary keys, and the world sets:

- The account keys 0000, 0110, 0001 and 0111 share prefixes of every length.
  Across the pairs of worlds, every variant pair of the match occurs,
  including all three Extension/Extension prefix relations.
- The slot keys 1011 and 1000 share two nibbles, so storage tries have
  leaves, extensions and branches.

`MCTrieDiffRefinement` adds nothing but the refinement. `MCRoundTrip` gives
accounts an integer nonce and balance (200, two hex digits).

## 3. Runs

| Run | cfg | Expect | Checks | What it shows |
|---|---|---|---|---|
| accounts | `MCTrieDiffRefinement_accounts.cfg` | pass | TypeOK, KeyWidth, ImplementsDiffSpec | All 6561 pairs of worlds on 4 addresses (69k states). Paths are whole keys and from_tries implements DiffSpec, even on the shapes where it misses or invents entries. |
| storage | `MCTrieDiffRefinement_storage.cfg` | pass | Completeness, Soundness, ImplementsDiffSpec, RaisesOnlyOnBranchCollapse | 10^4 pairs of worlds on 2 addresses × 2 slots × values {1, 200} (118k states). The nested walk records true slot values, each once, before the next account. On these tries no extension meets a branch, and there the walker is exact: every changed account and slot has an entry, and every entry holds the two worlds' values, which differ. This covers the same-key leaves met after a shortened leaf, where an inline node faces a hash of equal content. The walk raises only on a Branch/Leaf or Branch/Extension step (lines 364 and 392). It never raises in another case, nor in the storage walk of a created or deleted account, whose `EMPTY_TRIE_ROOT` side resolves to None. |
| slots | `MCTrieDiffRefinement_slots.cfg` | pass | KeyWidth, ImplementsDiffSpec | 2 addresses × 3 slots × value {1} (75k states). Storage tries now have branches at two levels, and an extension facing a branch inside a storage trie. Every storage path reaching the handler is a whole key, because the walk restarts at `b""`, and the refinement still holds. |
| malformed | `MCTrieDiff_malformed.cfg` | pass | MalformedBranchRaises | The 4-address input (4k states) with any one branch of the witness carrying a value. Every step that resolves it raises. Branch/Leaf and Branch/Extension never check the left branch, but they raise anyway on the check of the right node. |
| preimages | `MCTrieDiff_preimages.cfg` | pass | PreimageGapRaises | The storage input with a DB that may lack any one preimage (23k states). A gap for a changed key always stops the diff. |
| round_trip | `MCRoundTrip.cfg` | pass | RoundTripExact | The storage input (149k states). from_data reads back exactly what from_tries returned. |
| branch_leaf_crash | `MCTrieDiff_branch_leaf_crash.cfg` | violation | DiffSucceeds | Deleting one of two accounts below a branch raises: Branch/Leaf validates the leaf (line 364). |
| ext_branch_missed | `MCTrieDiff_ext_branch_missed.cfg` | violation | Completeness | With an extension facing a branch, the extension is never descended (line 327), so a deletion is missed. |
| ext_branch_spurious | `MCTrieDiff_ext_branch_spurious.cfg` | violation | Soundness | The same case reports an unchanged account as created. |
| missing_node | `MCTrieDiff_missing_node.cfg` | violation | MissingNodeRaises | A hash missing from the witness is read as an empty subtree, and the diff succeeds with entries missing (line 489). |

Each property of a passing run has a mutant in `PROJECT.json`. A mutant is a
plausible bug in the mapped definition, and it makes TLC report the property
violated under the run's own cfg:

- **Walker:**
  - the shortened leaf compared without the extension's segment;
  - the right-is-prefix-of-left case of Extension/Extension dropped;
  - the sides of a same-key report swapped (`SameKeyCalls`);
  - same-key leaves reported without comparing values (`SameKeyCalls`,
    Soundness);
  - of two leaves with different keys, only the new one reported
    (`ReplacedLeafCalls`, Completeness);
  - Branch/Branch checking only `r_node` (MalformedBranchRaises).
- **Handlers:**
  - the account's storage root read from the wrong position;
  - `check_branch_node(r_node)` copied into the None/Leaf case
    (RaisesOnlyOnBranchCollapse);
  - the storage roots passed in swapped order;
  - the storage walk queued behind the account walk instead of run at once;
  - a missing preimage skipped as with `dict.get`;
  - the storage walk started at the account's path, not at `b""` (KeyWidth,
    slots run);
  - a fresh slot map for every slot of an address (`StorageTrieOf`, slots
    run).
- **Parser:** `from_data` creating the inner storage map afresh for every
  entry.

`PreimageGapRaises` runs on the storage input only. On the 4-address input it
fails through the Extension/Branch bug (a changed key never reached needs no
preimage), which `ext_branch_missed` already shows.

### Bounds

**Radix 2 against 16.** This loses nothing. A branch's unused slots are `b""`,
and every case treats them as absent subtrees: the pair is either equal
(pruned) or resolves to (None, None).

**Four-nibble keys.** These give tries up to four levels deep. That is enough
for each node variant to face each other variant at an inner level, with
prefixes of lengths 1 to 3.

**Four addresses.** With the keys above, these produce every shape pair.
Across the passing runs, TLC's coverage shows all 16 cases firing.

**Two slots on two addresses.** These are the smallest storage input where:

- one address has several slot entries, which the round-trip and ordering
  mutants need;
- two accounts with storage are reported in one walk.

**Three slots** (the slots run). The third key, `<<0,1,1,0>>`, differs from
the other two at the first nibble. So storage roots are branches with an
extension below them, and the two-slot shapes meet the three-slot shapes:
extension against branch, and branch against branch, inside a storage trie.

**Values 1 and 200.** These cover both RLP short-string forms.

### Fairness

`from_tries` runs on one thread with no suspension point. While it has not
returned or raised, its next step is always enabled and it is taken. So
`FairSpec` assumes `WF_vars(Next)`, and `ImplementsDiffSpec` checks that
the call ends. Once it has ended, `Halted` stutters. That is a real stop, not a
deadlock.

## 4. Not modelled, and why

- **`from_json`.** Only the file read around `from_data`.
- **Inline nodes.** These are RLP lists under 32 bytes embedded in their
  parent. The model hashes every child. With 64-nibble keyed hashes, a leaf
  short enough to be inlined needs keys sharing about 60 nibbles, so inputs
  of TLC's size cannot produce one faithfully. Inline and hashed references
  also behave alike in every case except a missing hash.
- **The in-place `r_node.key_segment = ...` (line 400).** It is unreachable:
  line 392 raises first, and line 398 is never true. So it is not a hazard
  of the current code.
- **Malformed witnesses other than a missing node or preimage, or a branch
  carrying a value.** This covers bad RLP, a node of the wrong variant under
  a hash, and `case _`. `case _` cannot be reached: `Kind` has four values,
  and all 16 pairs are cases.
- **Spec property 6 (determinism).** It holds by construction, because
  `Next` is deterministic while the call runs. The report order is not the
  key order: Leaf/Leaf reports the left key first, whichever is smaller.
- **Duplicate stateDiffs entries for one address.** The ZKPI producer is
  outside the repository. This is listed as a hazard.

## 5. Plan

Done so far:

1. **Sitting 1.** `TrieDiff` with the walker and both handlers, and the four
   findings.
2. **Sitting 2.** Incomplete preimage maps, the abstract `DiffSpec` with its
   refinement and termination, and `from_data` with the round-trip
   composition. The three invariants the refinement subsumes were folded
   into it.
3. **Sitting 3.** The malformed-branch fault model and `MalformedBranchRaises`.
   Completeness and Soundness checked as passing properties on the storage
   input.
4. **Sitting 4.** The three-slot storage input with key width and the
   refinement. The Leaf/Leaf and Leaf/Extension cases were split into their
   branches (`SameKeyCalls`, `ReplacedLeafCalls`, `ShortenedLeafCalls`), so
   each mutant restates only the branch it changes.

Next, in order of importance:

1. **Radix 3.** This would only re-confirm the argument under Bounds:
   unused branch slots are `b""` and are treated as absent subtrees.
2. **Hazard 103.** It stays without a property: the spec says nothing about
   duplicate entries, so there is no claim to check. Line 400 is not a
   hazard of the current code, because it cannot be reached. A fix of line 392
   or 398 would make it reachable: `r_node` is the object stored in
   `_nodes`, so the truncation would change the witness for every later
   lookup. The model would then need `nodes` as a map from hash to node.
