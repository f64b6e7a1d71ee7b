------------------------------ MODULE RoundTrip ------------------------------
(***************************************************************************)
(* The two constructors of StateDiff composed: from_tries computes a diff, *)
(* the diff is written in the ZKPI stateDiffs schema, and from_data reads *)
(* it back (spec, testable property 8).                                   *)
(***************************************************************************)
EXTENDS TrieDiff

VARIABLES
    json,          \* the serialized diff, None until from_tries has returned
    entry, slot,   \* the loop indices of from_data
    parsedMain,    \* from_data's _main_trie
    parsedStorage  \* from_data's _storage_tries

dataVars == <<json, entry, slot, parsedMain, parsedStorage>>

Data == INSTANCE StateDiffData WITH
    data <- json, mainTrie <- parsedMain, storageTries <- parsedStorage

(* The stateDiffs schema: hex strings for integers, addresses, hashes and *)
(* storage keys, an absent account omitted, an absent slot value "0x0".    *)

RECURSIVE HexDigits(_)
HexDigits(n) == IF n < 16 THEN <<n>> ELSE HexDigits(n \div 16) \o <<n % 16>>

HexInt(n) == <<"0x">> \o HexDigits(n)
HexOpaque(x) == <<"0x", x>>

JsonAccount(acct) ==
    [nonce |-> HexInt(acct.info.nonce), balance |-> HexInt(acct.info.balance),
     codeHash |-> HexOpaque(acct.info.code_hash), storageHash |-> HexOpaque(acct.storage_root)]

ValueOrZero(v) == IF v = None THEN 0 ELSE v

JsonStorage(a) ==
    LET keys == SetToSeq(DOMAIN storageTries[a])
    IN [i \in DOMAIN keys |->
          [storageKey |-> HexOpaque(keys[i]),
           preValue |-> HexInt(ValueOrZero(storageTries[a][keys[i]][1])),
           postValue |-> HexInt(ValueOrZero(storageTries[a][keys[i]][2]))]]

JsonDiff(a) ==
    LET fields == {"address"}
                  \cup (IF mainTrie[a][1] # None THEN {"preAccount"} ELSE {})
                  \cup (IF mainTrie[a][2] # None THEN {"postAccount"} ELSE {})
                  \cup (IF a \in DOMAIN storageTries THEN {"storage"} ELSE {})
    IN [f \in fields |-> CASE f = "address"     -> HexOpaque(a)
                           [] f = "preAccount"  -> JsonAccount(mainTrie[a][1])
                           [] f = "postAccount" -> JsonAccount(mainTrie[a][2])
                           [] f = "storage"     -> JsonStorage(a)]

StateDiffs == LET addrs == SetToSeq(DOMAIN mainTrie) IN [i \in DOMAIN addrs |-> JsonDiff(addrs[i])]

RoundTripInit == Init /\ json = None /\ Data!Init

\* from_tries runs; from_data waits for its result.
ComputeFromTries == Next /\ UNCHANGED dataVars

\* The returned diff is written out.
Serialize ==
    /\ status = "done"
    /\ json = None
    /\ json' = StateDiffs
    /\ UNCHANGED <<vars, entry, slot, parsedMain, parsedStorage>>

ParseFromData ==
    /\ json # None
    /\ Data!Next
    /\ UNCHANGED vars

RoundTripNext == ComputeFromTries \/ Serialize \/ ParseFromData

RoundTripSpec == RoundTripInit /\ [][RoundTripNext]_<<vars, dataVars>>

\* A diff from_tries returns, written in the stateDiffs schema and read
\* back by from_data, gives the same _main_trie and _storage_tries: no slot
\* map is lost between storage entries of one address, an absent side and
\* a zero value both read back as None, and every parsed account equals
\* the one Account.from_rlp decoded.
RoundTripExact ==
    json # None /\ Data!Parsed =>
        /\ parsedMain = mainTrie
        /\ parsedStorage = storageTries

=============================================================================
