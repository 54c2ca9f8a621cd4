------------------------------- MODULE Wizard -------------------------------
(***************************************************************************)
(* The console readers of the puppeth wizard, src/cmd/puppeth/wizard.go.   *)
(*                                                                         *)
(* The wizard asks its questions one after the other on a single           *)
(* goroutine and reads every answer from one buffered reader over stdin.   *)
(* Each reader is a loop: it takes a line, returns a value when the line   *)
(* suits it and asks again when it does not; a failed read ends the        *)
(* process through log.Crit.  A step of this module is one turn of such a  *)
(* loop.  What a line says is abstracted to the classes the readers tell   *)
(* apart: the library parsers (strconv, big, url, net, json) and the       *)
(* address check are the sets of texts they accept.                        *)
(***************************************************************************)
EXTENDS Naturals, Sequences, FiniteSets, SequencesExt

CONSTANTS
    Lines,          \* the lines a user may type (without the newline)
    MaxInput,       \* bound: lines typed before stdin is closed
    TrimSpace(_),   \* strings.TrimSpace
    ToLower(_),     \* strings.ToLower
    Ints,           \* texts strconv.Atoi parses
    BigInts,        \* texts big.Int.SetString(text, 0) parses
    Floats,         \* texts strconv.ParseFloat parses
    URLs,           \* texts url.Parse parses
    IPs,            \* texts net.ParseIP parses
    JSONs,          \* texts that are one JSON value
    Long34,         \* texts of 34 characters
    Addresses,      \* texts the address check accepts
    Nil,            \* the nil pointer
    Def             \* a default value handed in by the caller

ASSUME /\ MaxInput \in Nat
       /\ Ints \subseteq BigInts /\ Ints \subseteq Floats
       /\ Addresses \subseteq Long34
       /\ "" \in URLs
       /\ "" \notin Ints \cup BigInts \cup Floats \cup IPs \cup JSONs \cup Long34

VARIABLES
    in,         \* w.in: the lines of stdin not yet read
    active,     \* the reader whose loop is running, or None
    caller,     \* the readMandatory... wrapper that called it, or None
    def,        \* the default the reader was called with
    result,     \* what the last call returned
    exited,     \* log.Crit has ended the process
    called,     \* history: the reader the wizard called last
    given       \* history: stdin when that call was made

vars == <<in, active, caller, def, result, exited, called, given>>

None     == "none"
NoResult == "unreturned"

Wrappers == {"readMandatoryAddress", "readMandatoryBigInt"}

\* The readers, each with the defaults its callers may hand it.
Defaults ==
    [read |-> {Nil}, readString |-> {Nil}, readDefaultString |-> {Def},
     readDefaultYesNo |-> {"true", "false"}, readURL |-> {Nil},
     readInt |-> {Nil}, readDefaultInt |-> {Def},
     readDefaultBigInt |-> {Def, Nil}, readDefaultFloat |-> {Def},
     readPassword |-> {Nil}, readAddress |-> {Nil},
     readDefaultAddress |-> {Def}, readJSON |-> {Nil},
     readIPAddress |-> {Nil}, readMandatoryAddress |-> {Nil},
     readMandatoryBigInt |-> {Nil}]

Readers == DOMAIN Defaults

Idle == active = None /\ caller = None

-----------------------------------------------------------------------------
(* The ways a turn of a loop ends.                                         *)

LineReaders == {"read", "readString", "readDefaultString", "readDefaultYesNo",
                "readURL", "readInt", "readDefaultInt", "readDefaultBigInt",
                "readDefaultFloat", "readPassword", "readAddress",
                "readDefaultAddress", "readIPAddress"}

ReadFailsLogged ==
    /\ active \in LineReaders /\ ~exited /\ in = <<>>
    /\ UNCHANGED vars

\* err != nil after ReadString or ReadPassword: log.Crit exits the process.
ReadFails ==
    /\ active \in LineReaders /\ ~exited /\ in = <<>>
    /\ exited' = TRUE
    /\ UNCHANGED <<in, active, caller, def, result, called, given>>

\* `continue`: the line is gone and the loop asks again.
Retry ==
    /\ in' = Tail(in)
    /\ UNCHANGED <<active, caller, def, result, exited, called, given>>

\* `return v`: the line is gone and the caller has its value.
Return(v) ==
    /\ in' = Tail(in)
    /\ result' = v
    /\ active' = None
    /\ UNCHANGED <<caller, def, exited, called, given>>

\* A turn of reader r's loop that has read a line.
Turn(r) == active = r /\ ~exited /\ in # <<>>

Line == Head(in)
Text == TrimSpace(Head(in))

-----------------------------------------------------------------------------
(* The readers.                                                            *)

read ==
    /\ Turn("read")
    /\ Return(Text)

readString ==
    /\ Turn("readString")
    /\ \/ Text # "" /\ Return(Text)
       \/ Text = "" /\ Retry

readDefaultString ==
    /\ Turn("readDefaultString")
    /\ \/ Text # "" /\ Return(Text)
       \/ Text = "" /\ Return(def)

readDefaultYesNoText ==
    /\ Turn("readDefaultYesNo")
    /\ \/ Text = "" /\ Return(def)
       \/ ToLower(Text) \in {"y", "yes", "n", "no"} /\ Return(ToLower(Text))
       \/ ToLower(Text) \notin {"", "y", "yes", "n", "no"} /\ Retry

readDefaultYesNo ==
    /\ Turn("readDefaultYesNo")
    /\ \/ ToLower(Text) = "" /\ Return(def)
       \/ ToLower(Text) \in {"y", "yes"} /\ Return("true")
       \/ ToLower(Text) \in {"n", "no"} /\ Return("false")
       \/ ToLower(Text) \notin {"", "y", "yes", "n", "no"} /\ Retry

readURL ==
    /\ Turn("readURL")
    /\ \/ Text \notin URLs /\ Retry
       \/ Text \in URLs /\ Return(Text)

readInt ==
    /\ Turn("readInt")
    /\ \/ Text = "" /\ Retry
       \/ Text # "" /\ Text \notin Ints /\ Retry
       \/ Text \in Ints /\ Return(Text)

\* The three readers of a number with a default differ in the parser only.
ReadDefaultNumber(parsed) ==
    \/ Text = "" /\ Return(def)
    \/ Text # "" /\ Text \notin parsed /\ Retry
    \/ Text \in parsed /\ Return(Text)

readDefaultInt == Turn("readDefaultInt") /\ ReadDefaultNumber(Ints)

readDefaultBigInt == Turn("readDefaultBigInt") /\ ReadDefaultNumber(BigInts)

readDefaultFloat == Turn("readDefaultFloat") /\ ReadDefaultNumber(Floats)

\* terminal.ReadPassword: the line as typed, not trimmed.
readPassword ==
    /\ Turn("readPassword")
    /\ Return(Line)

\* What readAddress and readDefaultAddress do with a line that is not empty.
ReadAddressText ==
    \/ Text # "" /\ Text \notin Long34 /\ Retry
    \/ Text \in Long34 \ Addresses /\ Retry
    \/ Text \in Long34 \cap Addresses /\ Return(Text)

readAddressCrit ==
    /\ Turn("readAddress")
    /\ \/ Text = "" /\ Return(Nil)
       \/ Text \in Addresses /\ Return(Text)
       \/ /\ Text # "" /\ Text \notin Addresses
          /\ exited' = TRUE
          /\ UNCHANGED <<in, active, caller, def, result, called, given>>

readAddress ==
    /\ Turn("readAddress")
    /\ \/ Text = "" /\ Return(Nil)
       \/ ReadAddressText

readDefaultAddress ==
    /\ Turn("readDefaultAddress")
    /\ \/ Text = "" /\ Return(def)
       \/ ReadAddressText

\* json.Decoder.Decode skips white space, so an empty line is read over; an
\* error of any kind, the end of stdin included, is logged and the loop
\* goes on.
readJSON ==
    \/ active = "readJSON" /\ in = <<>> /\ UNCHANGED vars
    \/ Turn("readJSON") /\ Text \notin JSONs /\ Retry
    \/ Turn("readJSON") /\ Text \in JSONs /\ Return(Text)

readIPAddress ==
    /\ Turn("readIPAddress")
    /\ \/ Text = "" /\ Return("")
       \/ Text # "" /\ Text \notin IPs /\ Retry
       \/ Text \in IPs /\ Return(Text)

MandatoryOnce(w, r) ==
    /\ caller = w /\ active = None /\ ~exited
    /\ \/ /\ result = NoResult
          /\ active' = r
          /\ def' = Nil
          /\ UNCHANGED <<in, caller, result, exited, called, given>>
       \/ /\ result # NoResult
          /\ caller' = None
          /\ UNCHANGED <<in, active, def, result, exited, called, given>>

\* A wrapper calls its reader with nil until the answer is not nil.
Mandatory(w, r) ==
    /\ caller = w /\ active = None /\ ~exited
    /\ \/ /\ result \in {NoResult, Nil}
          /\ active' = r
          /\ def' = Nil
          /\ UNCHANGED <<in, caller, result, exited, called, given>>
       \/ /\ result \notin {NoResult, Nil}
          /\ caller' = None
          /\ UNCHANGED <<in, active, def, result, exited, called, given>>

readMandatoryAddress == Mandatory("readMandatoryAddress", "readAddress")

readMandatoryBigInt == Mandatory("readMandatoryBigInt", "readDefaultBigInt")

-----------------------------------------------------------------------------
\* The wizard, idle between two questions, calls reader r with default d.
Call(r, d) ==
    /\ Idle /\ ~exited
    /\ IF r \in Wrappers
          THEN caller' = r /\ UNCHANGED <<active, def>>
          ELSE active' = r /\ def' = d /\ UNCHANGED caller
    /\ result' = NoResult
    /\ called' = r
    /\ given' = in
    /\ UNCHANGED <<in, exited>>

\* makeWizard: a buffered reader over stdin, nothing read yet.
Init ==
    /\ in \in BoundedSeq(Lines, MaxInput)
    /\ active = None /\ caller = None
    /\ def = Nil
    /\ result = NoResult
    /\ exited = FALSE
    /\ called = None
    /\ given = in

Step ==
    \/ ReadFails
    \/ read \/ readString \/ readDefaultString \/ readDefaultYesNo
    \/ readURL \/ readInt \/ readDefaultInt \/ readDefaultBigInt
    \/ readDefaultFloat \/ readPassword \/ readAddress
    \/ readDefaultAddress \/ readJSON \/ readIPAddress
    \/ readMandatoryAddress \/ readMandatoryBigInt

Next == Step \/ \E r \in Readers : \E d \in Defaults[r] : Call(r, d)

\* The wizard runs on one goroutine that nothing preempts for good, and a
\* read of stdin returns when a line is typed or stdin is closed.
Fairness == WF_vars(Step)

Spec == Init /\ [][Next]_vars /\ Fairness

-----------------------------------------------------------------------------
(* What the readers promise, as their comments state it.                   *)

Empty == {l \in Lines : TrimSpace(l) = ""}

Saying(texts) == {l \in Lines : TrimSpace(l) \in texts}

\* The lines each reader takes for an answer.
Accepts ==
    [read |-> Lines, readString |-> Lines \ Empty, readDefaultString |-> Lines,
     readDefaultYesNo |->
         Empty \cup {l \in Lines : ToLower(TrimSpace(l)) \in {"y", "yes", "n", "no"}},
     readURL |-> Saying(URLs), readInt |-> Saying(Ints),
     readDefaultInt |-> Empty \cup Saying(Ints),
     readDefaultBigInt |-> Empty \cup Saying(BigInts),
     readDefaultFloat |-> Empty \cup Saying(Floats),
     readPassword |-> Lines, readAddress |-> Empty \cup Saying(Addresses),
     readDefaultAddress |-> Empty \cup Saying(Addresses),
     readJSON |-> Saying(JSONs), readIPAddress |-> Empty \cup Saying(IPs),
     readMandatoryAddress |-> Saying(Addresses),
     readMandatoryBigInt |-> Saying(BigInts)]

\* The value reader r, called with default d, makes of the line l it takes.
Answer(r, d, l) ==
    CASE r = "readPassword" -> l
      [] r \in {"readURL", "readIPAddress", "read"} -> TrimSpace(l)
      [] r = "readDefaultYesNo" ->
            IF l \in Empty THEN d
            ELSE IF ToLower(TrimSpace(l)) \in {"y", "yes"} THEN "true" ELSE "false"
      [] r = "readAddress" -> IF l \in Empty THEN Nil ELSE TrimSpace(l)
      [] OTHER -> IF l \in Empty THEN d ELSE TrimSpace(l)

Returned == Idle /\ called # None

\* The number of lines the last call has taken from stdin.
Taken == Len(given) - Len(in)

\* The type invariant; a reader returns a value of its result type.
TypeOK ==
    /\ in \in BoundedSeq(Lines, MaxInput)
    /\ given \in BoundedSeq(Lines, MaxInput)
    /\ active \in (Readers \ Wrappers) \cup {None}
    /\ caller \in Wrappers \cup {None}
    /\ called \in Readers \cup {None}
    /\ def \in {Nil, Def, "true", "false"}
    /\ exited \in BOOLEAN
    /\ result \in
         IF called = "readDefaultYesNo" THEN {NoResult, "true", "false"}
         ELSE {NoResult, Nil, Def} \cup Lines \cup {TrimSpace(l) : l \in Lines}

\* A reader answers with the first line it can accept, takes no line after
\* it and loses none before it: when a call has returned, the lines gone from
\* stdin are the ones the reader refused followed by the one it took, what
\* is left is for the next question, and the value is that line's (the
\* loops of readString ... readIPAddress and of the readMandatory wrappers).
FirstAcceptableLineWins ==
    Returned =>
        /\ Taken >= 1
        /\ in = SubSeq(given, Taken + 1, Len(given))
        /\ \A i \in 1..(Taken - 1) : given[i] \notin Accepts[called]
        /\ given[Taken] \in Accepts[called]
        /\ result = Answer(called, def, given[Taken])

\* The wizard gives up only when stdin has ended: log.Crit is reached from
\* a failed read alone, never from an answer a reader refuses, so every
\* line typed before the end was read and none of them was acceptable.
ExitOnlyAtEndOfInput ==
    exited =>
        /\ in = <<>>
        /\ \A i \in 1..Len(given) : given[i] \notin Accepts[called]

\* Every call of a reader comes to an end: it returns or, when stdin ends
\* first, the process exits (each turn of a loop takes a line or fails).
\* The one exception is readJSON at the end of stdin, which logs the error of
\* Decode and asks again for ever.
EveryReadEnds ==
    ~Idle ~> (Idle \/ exited \/ (active = "readJSON" /\ in = <<>>))

\* readJSON reads a raw JSON message and returns it (its comment), or, as
\* read and every loop built on it do, ends the process when stdin has
\* ended: a call of readJSON does not go on for ever.
ReadJSONReturns ==
    active = "readJSON" ~> (Idle \/ exited)

=============================================================================
