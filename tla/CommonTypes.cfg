SPECIFICATION Spec
CONSTANTS
    Base = 2
    HashLength = 2
    AddressLength = 1
    AddressPrefix = 53
    NeutAddressLength = 34
    Versions <- MCVersions
    Lengths <- MCLengths
    Payloads <- MCPayloads
    HexTexts <- MCHexTexts
    Bad = Bad
    None = None
    Other = Other
    Null = Null
INVARIANTS
    TypeOK
    ConversionKeepsValue
    AcceptedTextIsCanonical
    MixedcaseAgrees
    AcceptedHexIsCanonical
    HexAddressConvertsExactly
