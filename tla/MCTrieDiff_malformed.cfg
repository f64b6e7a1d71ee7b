\* Account tries on four addresses, and a witness that may map one branch
\* hash to a branch carrying a value.
CONSTANTS
    None = None
    a1 = a1  a2 = a2  a3 = a3  a4 = a4  s1 = s1  s2 = s2  s3 = s3  i1 = i1  i2 = i2
    Radix = 2
    KeyNibbles = 4
    Addresses = {a1, a2, a3, a4}
    SlotKeys = {}
    Infos = {i1}
    Values = {1}
    HashedAddress <- MCHashedAddress
    HashedSlot <- MCHashedSlot
    Worlds <- MCWorlds
    WitnessMayLackNode = FALSE
    WitnessMayBeMalformed = TRUE
    PreimagesMayLack = FALSE

SPECIFICATION Spec
PROPERTY MalformedBranchRaises
