-------------------------------- MODULE HttpText --------------------------------
(***************************************************************************)
(* The text that src/http/request_parser.cpp, response_parser.cpp and       *)
(* chunked_stream_decoder.cpp read, and the helpers they share.             *)
(*                                                                         *)
(* A message is a sequence of symbols, each counted as one byte.  CR and LF *)
(* are symbols of their own, so that a read may end between them; so are    *)
(* the digits, ";" and one control character.  A symbol may also be a piece *)
(* of a line whose letters no parser tells apart:                           *)
(*   getLine    GET / HTTP/1.1        okLine       HTTP/1.1 200 OK          *)
(*   emptyLine  HTTP/1.1 204 Empty    length       Content-Length:          *)
(*   host       Host: a               hostless     Host:                    *)
(*   chunked    Transfer-Encoding: chunked                                  *)
(*   gzip       Transfer-Encoding: gzip                                     *)
(*   expect     Expect: a             field        X-A: a                   *)
(*   close      Connection: close     keep         Connection: keep-alive   *)
(*   names      Connection: X-A, Content-Length                             *)
(*   forwarded  the three X-Forwarded fields                                *)
(***************************************************************************)
EXTENDS Naturals, Sequences

CONSTANTS
    SizeMax,      \* the largest std::size_t
    MaxHeader,    \* max_header_size of both parsers
    MaxBody,      \* their max_body_size, and the decoder's max_decoded_body_size
    MaxLine       \* max_line_size of the decoder

\* The constructors of the parsers throw otherwise.
ASSUME SizeAssumption ==
    /\ SizeMax \in Nat /\ MaxHeader \in Nat /\ MaxBody \in Nat /\ MaxLine \in Nat
    /\ MaxHeader + MaxBody <= SizeMax

MaxMessage == MaxHeader + MaxBody     \* max_message_size_
Statuses == {"NeedMoreData", "MessageComplete", "Error"}

Digits == {"0", "1", "2", "3", "4", "5", "6", "7", "8", "9", "f"}
FieldStarts == {"host", "hostless", "length", "chunked", "gzip", "expect", "field",
                "close", "keep", "names", "forwarded"}
StatusLines == {"okLine", "emptyLine"}
Controls == {"CR", "LF", "ctl"}
Symbols == Digits \cup FieldStarts \cup StatusLines \cup Controls \cup {"getLine", ";"}

CRLF == <<"CR", "LF">>

\* std::string::find: the first position from `from` on at which text contains
\* pattern; 0 stands for npos.
Find(text, pattern, from) ==
    LET length == Len(pattern)
        hits == {i \in from..(Len(text) - length + 1) :
                   SubSeq(text, i, i + length - 1) = pattern}
    IN  IF hits = {} THEN 0 ELSE CHOOSE i \in hits : \A j \in hits : i <= j

\* is_header_value_character, is_field_value_character: no control character.
Printable(text) == \A i \in DOMAIN text : text[i] \notin Controls

\* A field name of token characters followed by a colon, which the symbols of
\* FieldStarts bring along.
Named(line) ==
    \E i \in DOMAIN line : /\ line[i] \in FieldStarts
                           /\ \A j \in 1..(i - 1) : line[j] \in Digits

\* The name as far as the parsers compare it; digits before it make another name.
FieldName(line) ==
    CASE line[1] \in {"host", "hostless"} -> "Host"
      [] line[1] = "length" -> "Content-Length"
      [] line[1] \in {"chunked", "gzip"} -> "Transfer-Encoding"
      [] line[1] = "expect" -> "Expect"
      [] line[1] \in {"close", "keep", "names"} -> "Connection"
      [] line[1] = "forwarded" -> "Forwarded"
      [] OTHER -> "Other"

WellFormedField(line) == Named(line) /\ Printable(line)

\* The lines between position from and the blank line whose predecessor ends at
\* position last: from their first position to their text.
FieldLines(text, from, last) ==
    LET ends == {i \in from..last : SubSeq(text, i, i + 1) = CRLF}
        starts == IF last < from THEN {} ELSE {from} \cup {i + 2 : i \in ends \ {last}}
    IN  [i \in starts |-> SubSeq(text, i, Find(text, CRLF, i) - 1)]

NoSize == SizeMax + 1   \* std::nullopt of the two conversions

DigitValue(digit) ==
    CASE digit = "0" -> 0 [] digit = "1" -> 1 [] digit = "2" -> 2 [] digit = "3" -> 3
      [] digit = "4" -> 4 [] digit = "5" -> 5 [] digit = "6" -> 6 [] digit = "7" -> 7
      [] digit = "8" -> 8 [] digit = "9" -> 9 [] digit = "f" -> 15

\* parse_decimal_size, parse_hex_size and the loop of finish_size_line: every
\* step tests whether the next digit still fits.
ParsedSize(text, base) ==
    LET value[i \in 0..Len(text)] ==
          LET before == value[i - 1]
          IN  IF i = 0 THEN 0
              ELSE IF \/ text[i] \notin Digits
                      \/ before = NoSize
                      \/ DigitValue(text[i]) >= base
                      \/ before > (SizeMax - DigitValue(text[i])) \div base
              THEN NoSize
              ELSE before * base + DigitValue(text[i])
    IN  IF text = <<>> THEN NoSize ELSE value[Len(text)]

DecimalSize(text) == ParsedSize(text, 10)
HexSize(text) == ParsedSize(text, 16)
================================================================================
