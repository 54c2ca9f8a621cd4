SPECIFICATION Spec
CONSTANTS
    Lines <- MCLines
    MaxInput = 3
    TrimSpace <- MCTrimSpace
    ToLower <- MCToLower
    Ints <- MCInts
    BigInts <- MCBigInts
    Floats <- MCFloats
    URLs <- MCURLs
    IPs <- MCIPs
    JSONs <- MCJSONs
    Long34 <- MCLong34
    Addresses <- MCAddresses
    Nil = Nil
    Def = Def
PROPERTY ReadJSONReturns
CHECK_DEADLOCK FALSE
