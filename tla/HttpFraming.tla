----------------------------- MODULE HttpFraming -----------------------------
(***************************************************************************)
(* The framing of requests: http_protocol_t.request_complete of            *)
(* stdlib/http/protocol.cp, called by receive_one_locked of                *)
(* stdlib/http/server.cp after each chunk, on the bytes received so far.   *)
(*                                                                         *)
(* A message is a request line, headers, an empty line and a body, of      *)
(* which a client sends a prefix, perhaps all, before it stops.  Each line *)
(* and each byte of the body counts for one unit of length.  A size_t is a *)
(* number up to SizeMax, and its decimal digits are kept; a name or any    *)
(* other value is only what the code distinguishes in it.                  *)
(***************************************************************************)
EXTENDS Integers, Sequences, SequencesExt

CONSTANTS SizeMax,     \* (size_t)-1
          Base,        \* 10
          Capacity,    \* CPLUS_HTTP_SERVER_REQUEST_CAPACITY - 1
          IoChunk,     \* CPLUS_HTTP_SERVER_IO_CHUNK
          Digits,      \* the digits that occur in values, all below Base
          MaxDigits,   \* bound: digits of a value
          MaxHeaders,  \* bound: headers of a message
          MaxSent      \* bound: how much a client sends

ASSUME HttpFramingAssumption ==
    /\ {SizeMax, Base, Capacity, IoChunk, MaxHeaders, MaxSent} \subseteq Nat \ {0}
    /\ MaxDigits \in Nat
    /\ Digits \subseteq 0..(Base - 1)
    /\ Capacity <= SizeMax

VARIABLES message, \* what the client sends
          closed,  \* TRUE once the client has closed its end
          length,  \* request_length: how much of it has been received
          framing  \* what the server has made of it

vars == <<message, closed, length, framing>>

NotANumber == <<-1>>
Values == (UNION {[1..n -> Digits] : n \in 0..MaxDigits}) \cup {NotANumber}
Headers == [name : {"content-length"}, value : Values]
           \cup [name : {"transfer-encoding"}, value : {<<>>, NotANumber}]
           \cup [name : {"other", "no colon"}, value : {NotANumber}]
Messages == [valid_line : BOOLEAN,
             headers : UNION {[1..n -> Headers] : n \in 0..MaxHeaders},
             sent : 0..MaxSent]

TypeOK ==
    /\ message \in Messages
    /\ closed \in BOOLEAN
    /\ length \in 0..Capacity
    /\ framing \in {"NEED_MORE", "COMPLETE", "INVALID", "UNSUPPORTED", "TOO_LARGE", "CLOSED",
                   "BROKEN"}

\* The request line, the headers and the empty line.
HeaderEnd(m) == 2 + Len(m.headers)

-------------------------------------------------------------------------------
\* The protocol helpers.

Invalid == -1

\* Variant: the last digit is not counted in the overflow test.
ParseWrapping(digits) ==
    LET step(value, digit) ==
            IF value = Invalid \/ digit \notin 0..(Base - 1) \/ value > SizeMax \div Base
            THEN Invalid ELSE (value * Base + digit) % (SizeMax + 1)
    IN  IF digits = <<>> THEN Invalid ELSE FoldLeft(step, 0, digits)

\* parse_decimal: the value, or Invalid when there is none in a size_t.
parse_decimal(digits) ==
    LET step(value, digit) ==
            IF value = Invalid \/ digit \notin 0..(Base - 1)
               \/ value > (SizeMax - digit) \div Base
            THEN Invalid ELSE value * Base + digit
    IN  IF digits = <<>> THEN Invalid ELSE FoldLeft(step, 0, digits)

\* parse_headers, one header after the other.
ParseHeader(parsed, header) ==
    LET value == parse_decimal(header.value)
    IN  IF parsed.invalid THEN parsed
        ELSE CASE header.name = "content-length" ->
                     IF value = Invalid \/ (parsed.has_length /\ value # parsed.content_length)
                     THEN [parsed EXCEPT !.invalid = TRUE]
                     ELSE [parsed EXCEPT !.has_length = TRUE, !.content_length = value]
               [] header.name = "transfer-encoding" /\ header.value # <<>> ->
                     [parsed EXCEPT !.chunked = TRUE]
               [] header.name = "no colon" -> [parsed EXCEPT !.invalid = TRUE]
               [] OTHER -> parsed

ParsedHeaders(headers) ==
    FoldLeft(ParseHeader,
             [invalid |-> FALSE, has_length |-> FALSE, content_length |-> 0, chunked |-> FALSE],
             headers)

\* request_complete on the first n units of m.
request_complete(m, n, capacity) ==
    LET parsed == ParsedHeaders(m.headers)
        end == HeaderEnd(m)
    IN  IF n < end THEN "NEED_MORE"
        ELSE IF ~m.valid_line \/ parsed.invalid THEN "INVALID"
        ELSE IF parsed.chunked THEN "UNSUPPORTED"
        ELSE IF end > capacity \/ parsed.content_length > capacity - end THEN "TOO_LARGE"
        ELSE IF n >= end + parsed.content_length THEN "COMPLETE"
        ELSE "NEED_MORE"

-------------------------------------------------------------------------------
\* receive_one_locked, until the request is finished or the connection closed.

Init ==
    /\ message \in Messages
    /\ closed = FALSE
    /\ length = 0
    /\ framing = "NEED_MORE"

\* free_space.
Room == Capacity - length

Receive(n) ==
    /\ framing = "NEED_MORE"
    /\ n <= Room /\ n <= IoChunk /\ length + n <= message.sent
    /\ length' = length + n
    /\ framing' = request_complete(message, length', Capacity)
    /\ UNCHANGED <<message, closed>>

\* Variant: a full buffer is read into once more, with a chunk of no bytes.
NoRoomUnseen == FALSE /\ UNCHANGED vars

\* A buffer that is full before the request is complete.
NoRoom ==
    /\ framing = "NEED_MORE"
    /\ Room = 0
    /\ framing' = "TOO_LARGE"
    /\ UNCHANGED <<message, closed, length>>

\* The client has sent what it had to send and closes its end.
ClientCloses ==
    /\ ~closed
    /\ length = message.sent
    /\ closed' = TRUE
    /\ UNCHANGED <<message, length, framing>>

EndOfStream ==
    /\ framing = "NEED_MORE"
    /\ closed /\ Room > 0
    /\ framing' = "CLOSED"
    /\ UNCHANGED <<message, closed, length>>

\* A socket error, other than that nothing has come, releases the exchange too.
ReceiveFails ==
    /\ framing = "NEED_MORE"
    /\ Room > 0
    /\ framing' = "BROKEN"
    /\ UNCHANGED <<message, closed, length>>

Next ==
    \/ \E n \in 1..IoChunk : Receive(n)
    \/ NoRoom
    \/ ClientCloses
    \/ EndOfStream
    \/ ReceiveFails

Spec == Init /\ [][Next]_vars

\* The head visits the connection again and again, and bytes that were sent
\* arrive; a client need not close its end.
FairSpec ==
    /\ Spec
    /\ WF_vars(\E n \in 1..IoChunk : Receive(n))
    /\ WF_vars(NoRoom)
    /\ WF_vars(EndOfStream)

-------------------------------------------------------------------------------
\* Properties.

\* The number a string of digits means, however large.
Meaning(digits) == FoldLeft(LAMBDA value, digit : value * Base + digit, 0, digits)

LengthHeaders(m) == {i \in DOMAIN m.headers : m.headers[i].name = "content-length"}
Proper(m) ==
    /\ m.valid_line
    /\ \A i \in DOMAIN m.headers : m.headers[i].name # "no colon"
    /\ \A i \in LengthHeaders(m) : /\ m.headers[i].value \notin {<<>>, NotANumber}
                                   /\ Meaning(m.headers[i].value) <= SizeMax
    /\ \A i, j \in LengthHeaders(m) : Meaning(m.headers[i].value) = Meaning(m.headers[j].value)
Declared(m) ==
    IF LengthHeaders(m) = {} THEN 0
    ELSE Meaning(m.headers[CHOOSE i \in LengthHeaders(m) : TRUE].value)
Chunked(m) == \E i \in DOMAIN m.headers :
                /\ m.headers[i].name = "transfer-encoding"
                /\ m.headers[i].value # <<>>

\* What a message is, looked at as a whole and without a size_t.
Meant(m) ==
    IF m.sent < Capacity /\ m.sent < HeaderEnd(m) THEN "CLOSED"
    ELSE IF HeaderEnd(m) > Capacity THEN "TOO_LARGE"
    ELSE IF ~Proper(m) THEN "INVALID"
    ELSE IF Chunked(m) THEN "UNSUPPORTED"
    ELSE IF HeaderEnd(m) + Declared(m) > Capacity THEN "TOO_LARGE"
    ELSE IF m.sent < HeaderEnd(m) + Declared(m) THEN "CLOSED"
    ELSE "COMPLETE"

\* A request goes to the router with its whole body, which fits the buffer.
CompleteMeansWholeBody ==
    framing = "COMPLETE" => HeaderEnd(message) + Declared(message) <= length

\* However a message is cut into chunks, what the server makes of it is what the
\* message is as a whole, unless the connection broke first; and nothing is handed
\* on before it is all there.
FramingIgnoresChunks ==
    /\ framing \notin {"NEED_MORE", "BROKEN"} => framing = Meant(message)
    /\ CompleteMeansWholeBody

\* A message that is all there, that cannot be served, or whose client has closed
\* its end does not wait for more.
FramingIsDecided ==
    (Meant(message) # "CLOSED" \/ closed) ~> (framing # "NEED_MORE")

\* HTTP.SPEC.md: duplicate or malformed content lengths are rejected.
DuplicateLengthsAreRejected ==
    (\E i, j \in LengthHeaders(message) : i # j) => framing # "COMPLETE"
===============================================================================
