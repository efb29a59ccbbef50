\* Three launches of the program on one data directory, at any times.
SPECIFICATION LaunchSpec
CONSTANTS
    Launch = {l1, l2, l3}
    Secret = {adminToken, accessKey, proxyToken}
    AdminToken = adminToken
    ProxyToken = proxyToken
    AccessKey = accessKey
    Legacy <- MCLegacy
    Former = Former
    Passphrase = Passphrase
    NoKey = NoKey
    Missing = Missing
    Torn = Torn
SYMMETRY LaunchSymmetry
INVARIANTS
    KeyFileOpensDatabase
    LockedOutByChoice
PROPERTIES
    SealedBySameKey
\* Every launch ends, and then nothing happens.
CHECK_DEADLOCK FALSE
