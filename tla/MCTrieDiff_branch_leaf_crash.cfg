\* The account trie: deleting one of two accounts collapses a branch into a leaf.
CONSTANTS
    None = None
    a1 = a1  a2 = a2  a3 = a3  a4 = a4  s1 = s1  s2 = s2  s3 = s3  i1 = i1  i2 = i2
    Radix = 2
    KeyNibbles = 4
    Addresses = {a1, a2, a3, a4}
    SlotKeys = {}
    Infos = {i1, i2}
    Values = {1}
    HashedAddress <- MCHashedAddress
    HashedSlot <- MCHashedSlot
    Worlds <- MCWorlds
    WitnessMayLackNode = FALSE
    WitnessMayBeMalformed = FALSE
    PreimagesMayLack = FALSE

SPECIFICATION Spec
INVARIANT DiffSucceeds
