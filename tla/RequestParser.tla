------------------------------ MODULE RequestParser ------------------------------
(***************************************************************************)
(* RequestParser of src/http/request_parser.cpp: the parser is a record and  *)
(* consume an operator from a parser and the bytes of one recv to the parser *)
(* it leaves behind.  The sixteen ParseErrors are kept apart only as far as  *)
(* its callers do: Invalid is answered with 400, TooLarge with 413.          *)
(***************************************************************************)
EXTENDS HttpText

RequestParsers == [status: Statuses, error: {"None", "Invalid", "TooLarge"},
                   buffer: Seq(Symbols), fieldsStart: 0..MaxMessage + 2,
                   headersParsed: BOOLEAN, headerBytes: 0..MaxMessage,
                   contentLength: 0..SizeMax]

\* fieldsStart = 0 is request_line_parsed_ = false.
NewRequestParser ==
    [status |-> "NeedMoreData", error |-> "None", buffer |-> <<>>, fieldsStart |-> 0,
     headersParsed |-> FALSE, headerBytes |-> 0, contentLength |-> 0]

RequestError(p, error) == [p EXCEPT !.status = "Error", !.error = error]

\* parse_request_line: a method of token characters, a target, HTTP/1.1.
ValidRequestLine(line) ==
    /\ line # <<>>
    /\ line[Len(line)] = "getLine"
    /\ \A i \in 1..(Len(line) - 1) : line[i] \in Digits

\* parse_header_fields and validate_message_headers, but for the limit.
LengthsOf(fields) ==
    {DecimalSize(Tail(fields[i])) :
       i \in {k \in DOMAIN fields : FieldName(fields[k]) = "Content-Length"}}

ValidRequestFields(fields) ==
    /\ \A i \in DOMAIN fields :
         /\ WellFormedField(fields[i])
         /\ FieldName(fields[i]) \notin {"Transfer-Encoding", "Expect"}
         /\ fields[i] # <<"hostless">>
    /\ NoSize \notin LengthsOf(fields)
    /\ \A m, n \in LengthsOf(fields) : m = n
    /\ \E i \in DOMAIN fields :
         {k \in DOMAIN fields : FieldName(fields[k]) = "Host"} = {i}

ContentLengthOf(fields) ==
    IF LengthsOf(fields) = {} THEN 0 ELSE CHOOSE n \in LengthsOf(fields) : TRUE

ParseRequestLine(p) ==
    LET end == Find(p.buffer, CRLF, 1)
    IN  IF p.fieldsStart # 0 THEN p
        ELSE IF end = 0
        THEN IF Len(p.buffer) >= MaxHeader THEN RequestError(p, "TooLarge") ELSE p
        ELSE IF ValidRequestLine(SubSeq(p.buffer, 1, end - 1))
        THEN [p EXCEPT !.fieldsStart = end + 2]
        ELSE RequestError(p, "Invalid")

ParseFields(p) ==
    LET end == Find(p.buffer, CRLF \o CRLF, 1)
        fields == FieldLines(p.buffer, p.fieldsStart, end)
        t == [p EXCEPT !.headerBytes = end + 3]
        length == ContentLengthOf(fields)
    IN  IF end = 0
        THEN IF Len(p.buffer) >= MaxHeader THEN RequestError(p, "TooLarge") ELSE p
        ELSE IF t.headerBytes > MaxHeader THEN RequestError(t, "TooLarge")
        ELSE IF ~ValidRequestFields(fields) THEN RequestError(t, "Invalid")
        ELSE IF length > MaxBody THEN RequestError([t EXCEPT !.contentLength = length], "TooLarge")
        ELSE [t EXCEPT !.contentLength = length, !.headersParsed = TRUE]

\* Slip: bytes behind the message are left for the next request.
TakeRequestBodyLeniently(p) ==
    IF Len(p.buffer) < p.headerBytes + p.contentLength THEN p
    ELSE [p EXCEPT !.status = "MessageComplete"]

\* The last part of consume: the body is complete, or more than complete.
TakeRequestBody(p) ==
    LET messageBytes == p.headerBytes + p.contentLength
    IN  IF Len(p.buffer) < messageBytes THEN p
        ELSE IF Len(p.buffer) > messageBytes THEN RequestError(p, "Invalid")
        ELSE [p EXCEPT !.status = "MessageComplete"]

RequestRoom(p, chunk) == Len(chunk) <= MaxMessage - Len(p.buffer)

ConsumeRequest(p, chunk) ==
    LET appended == [p EXCEPT !.buffer = @ \o chunk]
        lined == ParseRequestLine(appended)
        headed == IF lined.status = "NeedMoreData" /\ lined.fieldsStart # 0 /\ ~lined.headersParsed
                  THEN ParseFields(lined) ELSE lined
    IN  IF p.status # "NeedMoreData" THEN p
        ELSE IF ~RequestRoom(p, chunk) THEN RequestError(p, "TooLarge")
        ELSE IF headed.status = "NeedMoreData" /\ headed.headersParsed
        THEN TakeRequestBody(headed) ELSE headed
================================================================================
