------------------------------ MODULE MCWizard ------------------------------
(***************************************************************************)
(* The wizard's readers over a small alphabet of lines: one line of every  *)
(* class a reader tells apart.                                             *)
(***************************************************************************)
EXTENDS Wizard

\* An empty line, a blank one, yes in capitals, no, an integer, a big
\* integer in hexadecimal, a float, an IP address, an address that passes
\* the check, a text of 34 characters that fails it, a text no parser but
\* url.Parse takes, a text url.Parse refuses, and a JSON object.
MCLines ==
    {"", " ", "YES", "n", "7", "0x1F", "2.5", "10.0.0.1",
     "NeutAddress", "NeutAddrezz", "abc", ":bad", "{}"}

MCTrimSpace(l) == IF l = " " THEN "" ELSE l

MCToLower(t) == IF t = "YES" THEN "yes" ELSE t

MCInts      == {"7"}
MCBigInts   == {"7", "0x1F"}
MCFloats    == {"7", "2.5"}
MCURLs      == MCLines \ {" ", ":bad"}
MCIPs       == {"10.0.0.1"}
MCJSONs     == {"7", "2.5", "{}"}
MCLong34    == {"NeutAddress", "NeutAddrezz"}
MCAddresses == {"NeutAddress"}

=============================================================================
