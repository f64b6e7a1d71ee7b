\* Storage tries on three slots: branches at several levels, and an
\* extension facing a branch inside a storage trie.
CONSTANTS
    None = None
    a1 = a1  a2 = a2  a3 = a3  a4 = a4  s1 = s1  s2 = s2  s3 = s3  i1 = i1  i2 = i2
    Radix = 2
    KeyNibbles = 4
    Addresses = {a1, a2}
    SlotKeys = {s1, s2, s3}
    Infos = {i1}
    Values = {1}
    HashedAddress <- MCHashedAddress
    HashedSlot <- MCHashedSlot
    Worlds <- MCWorlds
    WitnessMayLackNode = FALSE
    WitnessMayBeMalformed = FALSE
    PreimagesMayLack = FALSE

SPECIFICATION FairSpec
INVARIANT KeyWidth
PROPERTY ImplementsDiffSpec
