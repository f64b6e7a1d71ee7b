\* from_tries, the stateDiffs schema and from_data, on accounts with storage.
CONSTANTS
    None = None
    a1 = a1  a2 = a2  a3 = a3  a4 = a4  s1 = s1  s2 = s2  s3 = s3  i1 = i1  i2 = i2
    Radix = 2
    KeyNibbles = 4
    Addresses = {a1, a2}
    SlotKeys = {s1, s2}
    Infos <- MCInfos
    Values = {1, 200}
    HashedAddress <- MCHashedAddress
    HashedSlot <- MCHashedSlot
    Worlds <- MCWorlds
    WitnessMayLackNode = FALSE
    WitnessMayBeMalformed = FALSE
    PreimagesMayLack = FALSE

SPECIFICATION RoundTripSpec
INVARIANT RoundTripExact
