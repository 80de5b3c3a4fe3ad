---------------------------- MODULE MessageRewriter ----------------------------
(***************************************************************************)
(* src/http/message_rewriter.cpp: the heads that the proxies send on.  Both   *)
(* drop the fields that concern one hop only, those a Connection field names  *)
(* among them, and write the framing of the body anew.  `fields' is the       *)
(* sequence of the parser's headers().                                         *)
(***************************************************************************)
EXTENDS HttpText, SequencesExt

\* headers(): the lines in the order of their positions, as a sequence.
InOrder(lines) ==
    LET before(i) == Cardinality({j \in DOMAIN lines : j < i})
    IN  [n \in 1..Cardinality(DOMAIN lines) |->
           lines[CHOOSE i \in DOMAIN lines : before(i) = n - 1]]

HopByHop == {"Connection", "Transfer-Encoding"}

\* hop_by_hop_headers: the symbol `names' stands for a list of two names.
NamedByConnection(fields) ==
    IF \E i \in DOMAIN fields : fields[i][1] = "names" THEN {"Other", "Content-Length"} ELSE {}

Without(fields, names) ==
    InOrder(RestrictValues(fields, LAMBDA field : FieldName(field) \notin HopByHop \cup names))

\* header_value: the first field of that name, or nothing.
FirstNamed(fields, name) ==
    LET first == SelectInSeq(fields, LAMBDA field : FieldName(field) = name)
    IN  IF first = 0 THEN <<>> ELSE <<fields[first]>>

\* rewrite_request_head_for_upstream, and the head of rewrite_request_for_upstream.
RewrittenRequestFields(fields) ==
    Without(fields, NamedByConnection(fields) \cup {"Host", "Content-Length", "Forwarded"})
    \o FirstNamed(fields, "Host") \o FirstNamed(fields, "Content-Length")
    \o <<<<"forwarded">>, <<"close">>>>

\* std::to_string of a size, as the parsers read it.
Decimal(size) ==
    LET digit(n) == CHOOSE d \in Digits : DigitValue(d) = n
        text[n \in 0..size] ==
          IF n < 10 THEN <<digit(n)>> ELSE Append(text[n \div 10], digit(n % 10))
    IN  text[size]

\* The fields of a response without its framing.
ResponseFields(fields) == Without(fields, NamedByConnection(fields) \cup {"Content-Length"})

ConnectionField(closes) == IF closes THEN <<"close">> ELSE <<"keep">>

\* Slip: the framing of a body that is passed on as it is, is dropped.
UnframedHeadFields(fields, mode, length, closes) ==
    ResponseFields(fields)
    \o (CASE mode = "ContentLength" -> <<<<"length">> \o Decimal(length)>>
          [] mode = "NoBody" -> FirstNamed(fields, "Content-Length")
          [] OTHER -> <<>>)
    \o <<ConnectionField(closes)>>

\* rewrite_response_head_for_client: the body follows as the upstream sends it.
RewrittenHeadFields(fields, mode, length, closes) ==
    ResponseFields(fields)
    \o (CASE mode = "ContentLength" -> <<<<"length">> \o Decimal(length)>>
          [] mode = "Chunked" -> <<<<"chunked">>>>
          [] mode = "NoBody" -> FirstNamed(fields, "Content-Length")
          [] OTHER -> <<>>)
    \o <<ConnectionField(closes)>>

\* rewrite_response_for_client: the body is known and follows decoded.
RewrittenResponseFields(fields, mode, bodyLength, closes) ==
    ResponseFields(fields)
    \o (IF mode # "NoBody" THEN <<<<"length">> \o Decimal(bodyLength)>>
        ELSE FirstNamed(fields, "Content-Length"))
    \o <<ConnectionField(closes)>>
================================================================================
