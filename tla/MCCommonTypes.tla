--------------------------- MODULE MCCommonTypes ---------------------------
(***************************************************************************)
(* CommonTypes for TLC: bits for bytes, an address of one and a hash of    *)
(* two of them, two version bytes, two string lengths and a hex string of  *)
(* every kind the decoders tell apart.                                     *)
(***************************************************************************)
EXTENDS CommonTypes

MCVersions == {AddressPrefix, 0}

MCLengths == {NeutAddressLength - 1, NeutAddressLength}

\* A payload that is too short, the two of an address, one that is too long.
MCPayloads == {<<>>, <<0>>, <<1>>, <<1, 0>>}

Hex(prefix, lead, pairs) == [prefix |-> prefix, lead |-> lead, pairs |-> pairs]

\* Two hashes in full, one of them without 0x; an address in full; strings
\* that are too long, odd, not hex, empty, and 0x alone.
MCHexTexts ==
    {Hex(TRUE, None, <<1, 0>>), Hex(FALSE, None, <<1, 1>>), Hex(TRUE, None, <<1>>),
     Hex(TRUE, None, <<1, 0, 1>>), Hex(TRUE, 1, <<0>>), Hex(FALSE, 1, <<0, 1>>),
     Hex(TRUE, None, <<1, Bad>>), Hex(FALSE, None, <<Bad>>), Hex(FALSE, Bad, <<1>>),
     Hex(FALSE, None, <<>>), Hex(TRUE, None, <<>>)}

=============================================================================
