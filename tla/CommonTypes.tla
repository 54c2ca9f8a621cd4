---------------------------- MODULE CommonTypes ----------------------------
(***************************************************************************)
(* The fixed-size byte types of common/types.go, Hash and Address, and the *)
(* decoders that fill them from text, JSON, GraphQL and database values.   *)
(*                                                                         *)
(* A byte is a digit of a small base, a hash and an address are functions  *)
(* from positions to bytes, and a NeuralChain address string is the record *)
(* of what base58.CheckDecode tells apart in it: how long the string is,   *)
(* whether its checksum holds, its version byte and its payload.  The      *)
(* receivers a, h and ma are the values the decoders are called on, so a   *)
(* decoder is seen to run on a receiver that already holds a value.  The   *)
(* variable call remembers the last call, for the properties to speak of   *)
(* what a decoder was given together with what it left and returned.       *)
(***************************************************************************)
EXTENDS Naturals, Sequences, FiniteSets, SequencesExt

CONSTANTS
    Base,               \* a byte is a digit in 0..Base-1 (256 in the code)
    HashLength,         \* bytes of a Hash (32 in the code)
    AddressLength,      \* bytes of an Address (20 in the code)
    AddressPrefix,      \* the version byte of a NeuralChain address (53)
    Versions,           \* the version bytes the input strings carry
    NeutAddressLength,  \* characters of an address string (34)
    Lengths,            \* the lengths the input strings have
    Payloads,           \* the payloads the input strings carry
    HexTexts,           \* the hex strings the decoders are given
    Bad,                \* two characters that are not a pair of hex digits
    None,               \* no single digit stands before the pairs
    Other,              \* an input of a type the decoder does not take
    Null                \* the JSON value null

ASSUME /\ Base \in Nat \ {0, 1}
       /\ Payloads \subseteq Seq(0 .. Base - 1)
       /\ HexTexts \subseteq [prefix : BOOLEAN, lead : (0 .. Base - 1) \cup {Bad, None},
                              pairs : Seq((0 .. Base - 1) \cup {Bad})]
       /\ HashLength \in Nat /\ AddressLength \in Nat
       /\ 0 < AddressLength /\ AddressLength < HashLength
       /\ AddressPrefix \in Versions
       /\ NeutAddressLength \in Lengths

VARIABLES
    a,      \* the Address a decoder is called on
    h,      \* the Hash a decoder is called on
    ma,     \* the MixedcaseAddress: addr and the original string
    err,    \* what the last call returned
    call    \* the last call: the decoder and what it was given

vars == <<a, h, ma, err, call>>

-----------------------------------------------------------------------------
(* Bytes *)

Byte == 0 .. Base - 1

Bytes(n) == [1..n -> Byte]

\* The byte slices handed to the decoders: one byte longer than the longest
\* receiver at most, so that cropping happens.
Slices == UNION {Bytes(n) : n \in 0 .. HashLength + 1}

Zeros(n) == [i \in 1..n |-> 0]

\* big.Int.SetBytes: the number a big-endian byte slice stands for.
Big(b) == FoldLeft(LAMBDA acc, d : acc * Base + d, 0, b)

\* SetBytes as a fault that crops the wrong end would leave it.
SetBytesCropRight(recv, b) ==
    LET n == Len(recv)
        c == IF Len(b) > n THEN SubSeq(b, 1, n) ELSE b
    IN  [i \in 1..n |-> IF i > n - Len(c) THEN c[i - (n - Len(c))] ELSE recv[i]]

\* Hash.SetBytes and Address.SetBytes: b loses its leading bytes when it is
\* longer than the receiver, and is copied over the receiver's last bytes.
\* The receiver's leading bytes stay what they were.
SetBytes(recv, b) ==
    LET n == Len(recv)
        c == IF Len(b) > n THEN SubSeq(b, Len(b) - n + 1, Len(b)) ELSE b
    IN  [i \in 1..n |-> IF i > n - Len(c) THEN c[i - (n - Len(c))] ELSE recv[i]]

BytesToHash(b) == SetBytes(Zeros(HashLength), b)

BytesToAddress(b) == SetBytes(Zeros(AddressLength), b)

\* Address.Hash: the address left-padded with zeros.
AddressHash(addr) == BytesToHash(addr)

-----------------------------------------------------------------------------
(* Address strings *)

Errors == {"nil", "ErrWrongLengthOfAddress", "ErrChecksum", "ErrPrefixMismatch",
           "UnmarshalTypeError", "ScanType", "ScanLength", "UnexpectedType",
           "ErrMissingPrefix", "ErrOddLength", "ErrLength", "ErrSyntax"}

\* What an input string is to the decoder.  Base58 is positional: a string
\* that starts with the address prefix has NeutAddressLength characters
\* exactly when its payload has AddressLength bytes.
NeutStrings ==
    {s \in [length : Lengths, checksum : BOOLEAN, version : Versions,
            payload : Payloads] :
        s.version = AddressPrefix =>
            (s.length = NeutAddressLength <=> Len(s.payload) = AddressLength)}

\* base58.CheckDecode
CheckDecode(s) ==
    [result |-> s.payload, version |-> s.version,
     err |-> IF s.checksum THEN "nil" ELSE "ErrChecksum"]

\* base58.CheckEncode of an address under the address prefix
CheckEncode(b, version) ==
    [length |-> NeutAddressLength, checksum |-> TRUE, version |-> version, payload |-> b]

Rejected(e) == [addr |-> Zeros(AddressLength), err |-> e]

\* The check as a fault that forgets the length test would leave it.
CheckWithoutLength(s) ==
    LET d == CheckDecode(s)
    IN  IF d.err # "nil" THEN Rejected(d.err)
        ELSE IF d.version # AddressPrefix THEN Rejected("ErrPrefixMismatch")
        ELSE [addr |-> BytesToAddress(d.result), err |-> "nil"]

\* The check as a fault that forgets the prefix test would leave it.
CheckWithoutPrefix(s) ==
    LET d == CheckDecode(s)
    IN  IF s.length # NeutAddressLength THEN Rejected("ErrWrongLengthOfAddress")
        ELSE IF d.err # "nil" THEN Rejected(d.err)
        ELSE [addr |-> BytesToAddress(d.result), err |-> "nil"]

NeutAddressStringToAddressCheck(s) ==
    LET d == CheckDecode(s)
    IN  IF s.length # NeutAddressLength THEN Rejected("ErrWrongLengthOfAddress")
        ELSE IF d.err # "nil" THEN Rejected(d.err)
        ELSE IF d.version # AddressPrefix THEN Rejected("ErrPrefixMismatch")
        ELSE [addr |-> BytesToAddress(d.result), err |-> "nil"]

AddressToNeutAddressString(addr) == CheckEncode(addr, AddressPrefix)

\* MixedcaseAddress.ValidChecksum
ValidChecksum(m) == m.original = AddressToNeutAddressString(m.addr)

NewMixedcaseAddress(addr) ==
    [addr |-> addr, original |-> AddressToNeutAddressString(addr)]

\* Address.String and Address.MarshalText
AddressMarshalText(addr) == AddressToNeutAddressString(addr)

UnprefixedAddressMarshalText(addr) == AddressToNeutAddressString(addr)

\* MixedcaseAddress.String: the original with the verdict on its checksum.
MixedcaseString(m) == [original |-> m.original, ok |-> ValidChecksum(m)]

-----------------------------------------------------------------------------
(* Hex strings *)

\* What a hex string is to the decoders (the records of HexTexts): whether
\* it starts with 0x, the single digit in front when the number of digits is
\* odd, and the pairs of digits, each of them a byte or not hex at all.
Digits(t) == 2 * Len(t.pairs) + IF t.lead = None THEN 0 ELSE 1

\* hex.DecodeString as Hex2Bytes uses it: the bytes before the first error.
Decoded(p) ==
    SubSeq(p, 1, Min({i \in DOMAIN p : p[i] = Bad} \cup {Len(p) + 1}) - 1)

\* FromHex: the prefix is optional and an odd string gets a 0 in front.
FromHex(t) == Decoded(IF t.lead = None THEN t.pairs ELSE <<t.lead>> \o t.pairs)

isHex(t) == t.lead = None /\ Bad \notin ToSet(t.pairs)

\* hexutil.Encode
Encode(b) == [prefix |-> TRUE, lead |-> None, pairs |-> b]

\* big.Int.Bytes: the shortest slice that stands for n.
RECURSIVE BigBytes(_)
BigBytes(n) == IF n = 0 THEN <<>> ELSE Append(BigBytes(n \div Base), n % Base)

HexToHash(t) == BytesToHash(FromHex(t))

BigToHash(n) == BytesToHash(BigBytes(n))

HexToAddress(t) == BytesToAddress(FromHex(t))

BigToAddress(n) == BytesToAddress(BigBytes(n))

\* IsHexAddress as a fault that counts the pairs alone would leave it.
IsHexAddressByPairs(t) == Len(t.pairs) = AddressLength

IsHexAddress(t) == Digits(t) = 2 * AddressLength /\ isHex(t)

\* Hash.Hex and Hash.String
HashHex(hash) == Encode(hash)

\* UnprefixedHash.MarshalText
UnprefixedHashMarshalText(hash) == [Encode(hash) EXCEPT !.prefix = FALSE]

\* Address.Hex: the digits of the address; which of the letters the
\* checksum puts in capitals is left out.
AddressHex(addr) == Encode(addr)

InList(addr, list) == \E i \in DOMAIN list : AddressHex(addr) = AddressHex(list[i])

\* cmd/convert: an address in the old hex form into its address string.
addressToNeutAddress(t) == AddressToNeutAddressString(HexToAddress(t))

\* main of cmd/convert.  oldAddress is the list the flag of that name
\* gives, empty without it.  keyfile is None without an input path, else
\* what ReadFile and json.Unmarshal make of the file: whether it can be
\* read, whether it is JSON, and the string under "address" (None when
\* there is no string).  stat is what os.Stat says of the output path and
\* writable whether MkdirAll and WriteFile succeed.  The old addresses are
\* printed in their new form before the key file is looked at; every Fatalf
\* ends the run with no file written.
main(oldAddress, keyfile, stat, writable) ==
    LET printed == [i \in DOMAIN oldAddress |-> addressToNeutAddress(oldAddress[i])]
        fatal   == \/ stat # "IsNotExist"
                   \/ ~keyfile.readable
                   \/ ~keyfile.json
                   \/ keyfile.address = None
                   \/ ~writable
        ends(exit, written) == [printed |-> printed, exit |-> exit, written |-> written]
    IN  CASE keyfile = None           -> ends("ok", None)
          [] keyfile # None /\ fatal  -> ends("fatal", None)
          [] keyfile # None /\ ~fatal ->
                ends("ok", [keyfile EXCEPT !.address = addressToNeutAddress(@)])

\* hexutil.UnmarshalFixedText and UnmarshalFixedUnprefixedText into n
\* bytes: the text is checked as a whole before a byte is written.
UnmarshalFixed(t, n, wantPrefix) ==
    IF Digits(t) > 0 /\ ~t.prefix /\ wantPrefix THEN "ErrMissingPrefix"
    ELSE IF t.lead # None THEN "ErrOddLength"
    ELSE IF Len(t.pairs) # n THEN "ErrLength"
    ELSE IF Bad \in ToSet(t.pairs) THEN "ErrSyntax"
    ELSE "nil"

-----------------------------------------------------------------------------
(* Decoders of Address *)

Called(op, input) == call' = [op |-> op, input |-> input]

\* Address.UnmarshalText: the result of the check is stored whatever the
\* check said, so a refused string leaves the zero address.
UnmarshalTextInto(s) ==
    LET res == NeutAddressStringToAddressCheck(s)
    IN  /\ a' = SetBytes(a, res.addr)
        /\ err' = res.err
        /\ UNCHANGED <<h, ma>>

AddressUnmarshalText(s) ==
    /\ UnmarshalTextInto(s)
    /\ Called("Address.UnmarshalText", s)

\* Address.UnmarshalJSON: anything but a quoted string is a type error.
AddressUnmarshalJSON(input) ==
    /\ \/ /\ input = Other
          /\ err' = "UnmarshalTypeError"
          /\ UNCHANGED <<a, h, ma>>
       \/ /\ input \in NeutStrings
          /\ UnmarshalTextInto(input)
    /\ Called("Address.UnmarshalJSON", input)

\* Address.UnmarshalGraphQL: the string case declares an err of its own, so
\* the err the method returns is set by the default case only.
AddressUnmarshalGraphQL(input) ==
    /\ \/ /\ input \in NeutStrings
          /\ LET res == NeutAddressStringToAddressCheck(input)
             IN  a' = IF res.err = "nil" THEN SetBytes(a, res.addr) ELSE a
          /\ err' = "nil"
          /\ UNCHANGED <<h, ma>>
       \/ /\ input = Other
          /\ err' = "UnexpectedType"
          /\ UNCHANGED <<a, h, ma>>
    /\ Called("Address.UnmarshalGraphQL", input)

\* Scan as a fault that forgets the length test would leave it.
AddressScanAnyLength(src) ==
    /\ \/ /\ src = Other
          /\ err' = "ScanType"
          /\ UNCHANGED <<a, h, ma>>
       \/ /\ src \in Slices
          /\ a' = src
          /\ err' = "nil"
          /\ UNCHANGED <<h, ma>>
    /\ Called("Address.Scan", src)

\* Address.Scan
AddressScan(src) ==
    /\ \/ /\ src = Other
          /\ err' = "ScanType"
          /\ UNCHANGED <<a, h, ma>>
       \/ /\ src \in Slices /\ Len(src) # AddressLength
          /\ err' = "ScanLength"
          /\ UNCHANGED <<a, h, ma>>
       \/ /\ src \in Slices /\ Len(src) = AddressLength
          /\ a' = src
          /\ err' = "nil"
          /\ UNCHANGED <<h, ma>>
    /\ Called("Address.Scan", src)

\* UnprefixedAddress.UnmarshalText
UnprefixedUnmarshalText(s) ==
    LET res == NeutAddressStringToAddressCheck(s)
    IN  /\ a' = res.addr
        /\ err' = res.err
        /\ UNCHANGED <<h, ma>>
        /\ Called("UnprefixedAddress.UnmarshalText", s)

\* The four characters of null as the check sees them: a string of the
\* wrong length.
NullText == [length |-> 4, checksum |-> FALSE, version |-> 0, payload |-> <<>>]

\* MixedcaseAddress.UnmarshalJSON: json.Unmarshal stores the string in
\* original, or fails and nothing is touched; the address is copied whatever
\* the check said.  json.Unmarshal takes null without an error and leaves
\* original as it is; the check then refuses the text of null, and the
\* address is zeroed next to the original of an earlier call.
MixedcaseUnmarshalJSON(input) ==
    /\ \/ /\ input = Other
          /\ err' = "UnmarshalTypeError"
          /\ UNCHANGED <<a, h, ma>>
       \/ /\ input = Null
          /\ LET res == NeutAddressStringToAddressCheck(NullText)
             IN  /\ ma' = [ma EXCEPT !.addr = res.addr]
                 /\ err' = res.err
          /\ UNCHANGED <<a, h>>
       \/ /\ input \in NeutStrings
          /\ LET res == NeutAddressStringToAddressCheck(input)
             IN  /\ ma' = [addr |-> res.addr, original |-> input]
                 /\ err' = res.err
          /\ UNCHANGED <<a, h>>
    /\ Called("MixedcaseAddress.UnmarshalJSON", input)

\* NewMixedcaseAddressFromString: a refused string gives no address at all.
NewMixedcaseAddressFromString(s) ==
    LET res == NeutAddressStringToAddressCheck(s)
    IN  /\ ma' = IF res.err = "nil" THEN [addr |-> res.addr, original |-> s] ELSE ma
        /\ err' = res.err
        /\ UNCHANGED <<a, h>>
        /\ Called("NewMixedcaseAddressFromString", s)

-----------------------------------------------------------------------------
(* Decoders of Hash *)

\* The strict decoder as a fault that decodes the way HexToHash does would
\* leave it.
StrictIntoLenient(t, wantPrefix) ==
    /\ h' = HexToHash(t)
    /\ err' = "nil"
    /\ UNCHANGED <<a, ma>>

\* The receiver is written when the whole text has passed, and only then.
StrictInto(t, wantPrefix) ==
    /\ err' = UnmarshalFixed(t, HashLength, wantPrefix)
    /\ h' = IF err' = "nil" THEN t.pairs ELSE h
    /\ UNCHANGED <<a, ma>>

\* Hash.UnmarshalText
HashUnmarshalText(t) == StrictInto(t, TRUE) /\ Called("Hash.UnmarshalText", t)

\* Hash.UnmarshalJSON: anything but a quoted string is a type error.
HashUnmarshalJSON(input) ==
    /\ \/ input = Other /\ err' = "UnmarshalTypeError" /\ UNCHANGED <<a, h, ma>>
       \/ input \in HexTexts /\ StrictInto(input, TRUE)
    /\ Called("Hash.UnmarshalJSON", input)

\* UnprefixedHash.UnmarshalText
UnprefixedHashUnmarshalText(t) ==
    StrictInto(t, FALSE) /\ Called("UnprefixedHash.UnmarshalText", t)

\* Hash.Scan
HashScan(src) ==
    /\ \/ /\ src = Other
          /\ err' = "ScanType"
          /\ UNCHANGED <<a, h, ma>>
       \/ /\ src \in Slices /\ Len(src) # HashLength
          /\ err' = "ScanLength"
          /\ UNCHANGED <<a, h, ma>>
       \/ /\ src \in Slices /\ Len(src) = HashLength
          /\ h' = src
          /\ err' = "nil"
          /\ UNCHANGED <<a, ma>>
    /\ Called("Hash.Scan", src)

\* Hash.UnmarshalGraphQL: a string is taken for the bytes its hex digits
\* give (HexToHash), anything else is refused.
HashUnmarshalGraphQL(input) ==
    /\ \/ /\ input \in HexTexts
          /\ h' = HexToHash(input)
          /\ err' = "nil"
          /\ UNCHANGED <<a, ma>>
       \/ /\ input = Other
          /\ err' = "UnexpectedType"
          /\ UNCHANGED <<a, h, ma>>
    /\ Called("Hash.UnmarshalGraphQL", input)

-----------------------------------------------------------------------------

Decoders ==
    {"Address.UnmarshalText", "Address.UnmarshalJSON", "Address.UnmarshalGraphQL",
     "Address.Scan", "UnprefixedAddress.UnmarshalText",
     "MixedcaseAddress.UnmarshalJSON", "NewMixedcaseAddressFromString",
     "Hash.Scan", "Hash.UnmarshalGraphQL", "Hash.UnmarshalText",
     "Hash.UnmarshalJSON", "UnprefixedHash.UnmarshalText"}

\* The decoders that are given bytes and those that are given hex strings;
\* the others are given address strings.
ByteDecoders == {"Address.Scan", "Hash.Scan"}

HexDecoders == {"Hash.UnmarshalGraphQL", "Hash.UnmarshalText", "Hash.UnmarshalJSON",
                "UnprefixedHash.UnmarshalText"}

InputsOf(op) ==
    CASE op \in ByteDecoders -> Slices
      [] op \in HexDecoders -> HexTexts
      [] OTHER -> NeutStrings

Init ==
    /\ a = Zeros(AddressLength)
    /\ h = Zeros(HashLength)
    /\ ma = NewMixedcaseAddress(Zeros(AddressLength))
    /\ err = "nil"
    /\ call = [op |-> "none", input |-> Other]

Next ==
    \/ \E s \in NeutStrings : AddressUnmarshalText(s)
    \/ \E x \in NeutStrings \cup {Other} : AddressUnmarshalJSON(x)
    \/ \E x \in NeutStrings \cup {Other} : AddressUnmarshalGraphQL(x)
    \/ \E src \in Slices \cup {Other} : AddressScan(src)
    \/ \E s \in NeutStrings : UnprefixedUnmarshalText(s)
    \/ \E x \in NeutStrings \cup {Other, Null} : MixedcaseUnmarshalJSON(x)
    \/ \E s \in NeutStrings : NewMixedcaseAddressFromString(s)
    \/ \E src \in Slices \cup {Other} : HashScan(src)
    \/ \E x \in HexTexts \cup {Other} : HashUnmarshalGraphQL(x) \/ HashUnmarshalJSON(x)
    \/ \E t \in HexTexts : HashUnmarshalText(t) \/ UnprefixedHashUnmarshalText(t)

Spec == Init /\ [][Next]_vars

-----------------------------------------------------------------------------
(* Properties *)

\* Every receiver keeps its size and its bytes, and the original of the
\* mixed-case address is a string that was given to it.
TypeOK ==
    /\ a \in Bytes(AddressLength)
    /\ h \in Bytes(HashLength)
    /\ ma \in [addr : Bytes(AddressLength), original : NeutStrings]
    /\ err \in Errors
    /\ call.op \in Decoders \cup {"none"}
    /\ call.input \in InputsOf(call.op) \cup {Other, Null}

\* BytesToHash, BytesToAddress and Address.Hash keep the number a slice
\* stands for, up to the size of the receiver: what SetBytes crops is the
\* slice's high end, and what it pads with is zeros on the left.  So the
\* hash that Hash.UnmarshalGraphQL leaves is the number it was given.
ConversionKeepsValue ==
    /\ \A b \in Slices :
          /\ Big(BytesToHash(b)) = Big(b) % Base ^ HashLength
          /\ Big(BytesToAddress(b)) = Big(b) % Base ^ AddressLength
          /\ BigToHash(Big(b)) = BytesToHash(b)
          /\ BigToAddress(Big(b)) = BytesToAddress(b)
    /\ Big(AddressHash(a)) = Big(a)
    /\ call.op = "Hash.UnmarshalGraphQL" /\ err = "nil"
          => Big(h) = Big(FromHex(call.input)) % Base ^ HashLength

\* A string that a text decoder (UnmarshalText, UnmarshalJSON, the
\* unprefixed UnmarshalText) accepts is the one AddressToNeutAddressString
\* writes for the address now in the receiver: no accepted string stands
\* for a padded or cropped payload, or for an address of another chain.
TextDecoders ==
    {"Address.UnmarshalText", "Address.UnmarshalJSON", "UnprefixedAddress.UnmarshalText"}

AcceptedTextIsCanonical ==
    call.op \in TextDecoders /\ err = "nil"
        => call.input = IF call.op = "UnprefixedAddress.UnmarshalText"
                           THEN UnprefixedAddressMarshalText(a)
                           ELSE AddressMarshalText(a)

\* A hex string that a strict decoder of Hash (UnmarshalText, UnmarshalJSON,
\* the unprefixed UnmarshalText) accepts spells the hash now in the
\* receiver digit by digit: the lenient HexToHash reads the same hash from
\* it, and with its prefix it is the string Hash.Hex writes back.
AcceptedHexIsCanonical ==
    call.op \in HexDecoders \ {"Hash.UnmarshalGraphQL"} /\ err = "nil" =>
        /\ HexToHash(call.input) = h
        /\ call.input \in {HashHex(h), UnprefixedHashMarshalText(h)}
        /\ call.op # "UnprefixedHash.UnmarshalText" => call.input = HashHex(h)

\* An old address that IsHexAddress passes is converted without loss:
\* HexToAddress neither pads, crops nor stops early on it, and the address
\* string main of cmd/convert prints for it, and the one in the key file it
\* writes, read back as the same bytes.  What Address.Hex writes for the
\* receiver is such an address.
HexAddressConvertsExactly ==
    /\ \A t \in HexTexts \cup {AddressHex(a)} :
          IsHexAddress(t) =>
              LET old == [readable |-> TRUE, json |-> TRUE, address |-> t]
                  run == main(<<t>>, old, "IsNotExist", TRUE)
                  same == [addr |-> t.pairs, err |-> "nil"]
              IN  /\ AddressHex(HexToAddress(t)).pairs = t.pairs
                  /\ NeutAddressStringToAddressCheck(run.printed[1]) = same
                  /\ NeutAddressStringToAddressCheck(run.written.address) = same
    /\ IsHexAddress(AddressHex(a))

\* ValidChecksum says of a MixedcaseAddress exactly that its original string
\* is one the check accepts and that its address is the one the string
\* stands for, whatever sequence of UnmarshalJSON calls filled it.
MixedcaseAgrees ==
    MixedcaseString(ma).ok <=>
        NeutAddressStringToAddressCheck(ma.original) = [addr |-> ma.addr, err |-> "nil"]

\* Address.UnmarshalGraphQL reports a string the check refuses, as
\* UnmarshalJSON does (TestAddressUnmarshalJSON expects an error for each).
GraphQLReportsRefusal ==
    /\ call.op = "Address.UnmarshalGraphQL"
    /\ call.input \in NeutStrings
    /\ NeutAddressStringToAddressCheck(call.input).err # "nil"
    => err # "nil"

=============================================================================
