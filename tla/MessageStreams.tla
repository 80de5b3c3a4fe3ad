----------------------------- MODULE MessageStreams -----------------------------
(***************************************************************************)
(* One HTTP message on a connection, received in pieces of any length, read  *)
(* at once by the two proxies of the repository.                             *)
(*                                                                         *)
(* proxy_session.cpp gives every recv to a RequestParser or a ResponseParser *)
(* and waits for the whole message.  reliable_proxy_server.cpp collects only *)
(* the head, parses it in one call, and follows the body itself, by a count  *)
(* or by a ChunkedStreamDecoder.  The parsers are composed here over the     *)
(* same bytes and the same recv boundaries.                                  *)
(***************************************************************************)
EXTENDS RequestParser, ResponseParser, ChunkedStreamDecoder, MessageRewriter

CONSTANTS
    Requests,      \* byte streams a client may send
    Responses,     \* byte streams an upstream may send
    RecvSizes      \* how many bytes one recv may return, next to all there are

ASSUME StreamAssumption ==
    /\ Requests \subseteq Seq(Symbols) /\ Responses \subseteq Seq(Symbols)
    /\ RecvSizes \subseteq Nat

VARIABLES
    message,       \* [kind, bytes, method] of the stream under way
    read,          \* number of its bytes received
    eof,           \* recv has returned 0
    request,       \* ProxySession::request_parser_
    response,      \* ProxySession::response_parser_
    requestHead,   \* ReliableSession's reading of a request
    responseHead   \* ReliableSession's reading of a response

vars == <<message, read, eof, request, response, requestHead, responseHead>>

Messages == [kind: {"request"}, bytes: Requests, method: {"GET"}]
            \cup [kind: {"response"}, bytes: Responses, method: {"GET", "HEAD"}]

Phases == {"Head", "Body", "Complete", "Rejected"}

\* request_head_bytes_, request_body_expected_ - request_body_received_, and the
\* length of the message as far as it is accepted.
RequestReceivers == [phase: Phases, head: Seq(Symbols), left: 0..MaxBody, taken: Nat]
NewRequestReceiver == [phase |-> "Head", head |-> <<>>, left |-> 0, taken |-> 0]

ResponseReceivers == [phase: Phases, head: Seq(Symbols), mode: BodyModes, left: 0..MaxBody,
                      received: 0..MaxBody, decoder: Decoders, taken: Nat]
NewResponseReceiver == [phase |-> "Head", head |-> <<>>, mode |-> "NoBody", left |-> 0,
                        received |-> 0, decoder |-> NewDecoder, taken |-> 0]

Rejected(r) == [r EXCEPT !.phase = "Rejected"]

--------------------------------------------------------------------------------
(* ReliableSession: a request *)

\* finish_request_head
FinishRequestHead(r, head, extra) ==
    LET p == ConsumeRequest(NewRequestParser, head)
    IN  IF \/ p.status = "Error" \/ p.headerBytes = 0
           \/ Len(extra) > p.contentLength
        THEN Rejected(r)
        ELSE [r EXCEPT !.head = head, !.left = p.contentLength - Len(extra),
                       !.taken = Len(head) + Len(extra),
                       !.phase = IF Len(extra) = p.contentLength THEN "Complete" ELSE "Body"]

\* accept_request_bytes
AcceptRequestBytes(r, bytes) ==
    LET whole == r.head \o bytes
        end == Find(whole, CRLF \o CRLF, 1) + 3
    IN  IF r.phase = "Head"
        THEN IF end = 3
             THEN IF Len(whole) > MaxHeader THEN Rejected(r) ELSE [r EXCEPT !.head = whole]
             ELSE IF end > MaxHeader THEN Rejected(r)
             ELSE FinishRequestHead(r, SubSeq(whole, 1, end), SubSeq(whole, end + 1, Len(whole)))
        ELSE IF Len(bytes) > r.left THEN Rejected(r)
        ELSE [r EXCEPT !.left = @ - Len(bytes), !.taken = @ + Len(bytes),
                       !.phase = IF Len(bytes) = r.left THEN "Complete" ELSE "Body"]

\* read_client asks recv for no more than the rest of the body: what is behind it
\* stays in the socket, for the next request of the connection.
ReadRequest(r, bytes) ==
    LET capacity == IF r.phase = "Body" /\ r.left < Len(bytes) THEN r.left ELSE Len(bytes)
    IN  IF r.phase \in {"Head", "Body"} THEN AcceptRequestBytes(r, SubSeq(bytes, 1, capacity))
        ELSE r

--------------------------------------------------------------------------------
(* ReliableSession: a response *)

\* append_response_body
AppendResponseBody(r, bytes) ==
    LET t == [r EXCEPT !.taken = @ + Len(bytes)]
        decoder == Decode(r.decoder, bytes)
    IN  CASE r.mode = "ContentLength" ->
               IF Len(bytes) > r.left THEN Rejected(r)
               ELSE [t EXCEPT !.left = @ - Len(bytes),
                              !.phase = IF Len(bytes) = r.left THEN "Complete" ELSE "Body"]
          [] r.mode = "Chunked" ->
               IF decoder.state = "Error" THEN Rejected(r)
               ELSE [t EXCEPT !.decoder = decoder,
                              !.phase = IF decoder.state = "Complete" THEN "Complete" ELSE "Body"]
          [] OTHER ->
               IF Len(bytes) > MaxBody - r.received THEN Rejected(r)
               ELSE [t EXCEPT !.received = @ + Len(bytes), !.phase = "Body"]

\* finish_response_head
FinishResponseHead(r, head, extra) ==
    LET p == ConsumeResponse(NewResponseParser(message.method), head)
        t == [r EXCEPT !.head = head, !.mode = p.mode, !.taken = Len(head),
                       !.left = IF p.mode = "ContentLength" THEN p.contentLength ELSE 0]
    IN  IF p.status = "Error" \/ p.headerBytes = 0 THEN Rejected(r)
        ELSE IF p.mode = "NoBody" \/ (p.mode = "ContentLength" /\ p.contentLength = 0)
        THEN IF extra # <<>> THEN Rejected(t) ELSE [t EXCEPT !.phase = "Complete"]
        ELSE IF extra = <<>> THEN [t EXCEPT !.phase = "Body"]
        ELSE AppendResponseBody(t, extra)

\* accept_response_bytes
AcceptResponseBytes(r, bytes) ==
    LET whole == r.head \o bytes
        end == Find(whole, CRLF \o CRLF, 1) + 3
    IN  IF r.phase = "Head"
        THEN IF end = 3
             THEN IF Len(whole) > MaxHeader THEN Rejected(r) ELSE [r EXCEPT !.head = whole]
             ELSE IF end > MaxHeader THEN Rejected(r)
             ELSE FinishResponseHead(r, SubSeq(whole, 1, end), SubSeq(whole, end + 1, Len(whole)))
        ELSE AppendResponseBody(r, bytes)

\* read_upstream asks recv for no more than the announced rest of the body.
ReadResponse(r, bytes) ==
    LET capacity == IF r.phase = "Body" /\ r.mode = "ContentLength" /\ r.left < Len(bytes)
                    THEN r.left ELSE Len(bytes)
    IN  IF r.phase \in {"Head", "Body"} THEN AcceptResponseBytes(r, SubSeq(bytes, 1, capacity))
        ELSE r

\* read_upstream at the end of the connection.
ResponseEof(r) ==
    CASE r.phase \notin {"Head", "Body"} -> r
      [] r.phase = "Body" /\ r.mode = "CloseDelimited" -> [r EXCEPT !.phase = "Complete"]
      [] OTHER -> Rejected(r)

--------------------------------------------------------------------------------
(* The specification *)

Init ==
    /\ message \in Messages
    /\ read = 0
    /\ eof = FALSE
    /\ request = NewRequestParser
    /\ response = NewResponseParser(message.method)
    /\ requestHead = NewRequestReceiver
    /\ responseHead = NewResponseReceiver

Length == Len(message.bytes)
Piece(n) == SubSeq(message.bytes, read + 1, read + n)

\* One recv of read_client: n bytes of a request.
ReceiveRequest(n) ==
    /\ message.kind = "request" /\ read + n <= Length
    /\ read' = read + n
    /\ request' = ConsumeRequest(request, Piece(n))
    /\ requestHead' = ReadRequest(requestHead, Piece(n))
    /\ UNCHANGED <<message, eof, response, responseHead>>

\* One recv of read_upstream: n bytes of a response.
ReceiveResponse(n) ==
    /\ message.kind = "response" /\ read + n <= Length
    /\ read' = read + n
    /\ response' = ConsumeResponse(response, Piece(n))
    /\ responseHead' = ReadResponse(responseHead, Piece(n))
    /\ UNCHANGED <<message, eof, request, requestHead>>

\* The upstream closes behind what it has sent; a client that does so in the
\* middle of a request is hung up on.
UpstreamCloses ==
    /\ message.kind = "response" /\ ~eof
    /\ eof' = TRUE
    /\ response' = NotifyEof(response)
    /\ responseHead' = ResponseEof(responseHead)
    /\ UNCHANGED <<message, read, request, requestHead>>

\* A parser that has decided is not read for any more.
Undecided ==
    IF message.kind = "request"
    THEN request.status = "NeedMoreData" \/ requestHead.phase \in {"Head", "Body"}
    ELSE response.status = "NeedMoreData" \/ responseHead.phase \in {"Head", "Body"}

Next ==
    /\ Undecided /\ ~eof
    /\ \/ \E n \in RecvSizes \cup {Length - read} : n > 0 /\ ReceiveRequest(n)
       \/ \E n \in RecvSizes \cup {Length - read} : n > 0 /\ ReceiveResponse(n)
       \/ UpstreamCloses

Spec == Init /\ [][Next]_vars

--------------------------------------------------------------------------------
(* What the bytes of a message are, whatever recv boundaries they come with *)

Received == SubSeq(message.bytes, 1, read)
Prefix(n) == SubSeq(message.bytes, 1, n)

\* The length of the head with its blank line, 0 if there is none.
HeadLength(bytes) ==
    LET end == Find(bytes, CRLF \o CRLF, 1) IN IF end = 0 THEN 0 ELSE end + 3

FirstLine(bytes) == SubSeq(bytes, 1, Find(bytes, CRLF, 1) - 1)
FieldsOf(bytes) == FieldLines(bytes, Find(bytes, CRLF, 1) + 2, HeadLength(bytes) - 3)

\* A number in exact arithmetic: of no width, so that what wraps is not equal.
ExactSize(text, base) ==
    LET value[i \in 0..Len(text)] ==
          IF i = 0 THEN 0 ELSE value[i - 1] * base + DigitValue(text[i])
    IN  value[Len(text)]

ExactLength(fields, length) ==
    \A i \in DOMAIN fields :
      FieldName(fields[i]) = "Content-Length" => ExactSize(Tail(fields[i]), 10) = length

IsRequest(bytes) ==
    LET fields == FieldsOf(bytes)
    IN  /\ HeadLength(bytes) \in 1..MaxHeader
        /\ ValidRequestLine(FirstLine(bytes))
        /\ ValidRequestFields(fields)
        /\ ContentLengthOf(fields) <= MaxBody
        /\ ExactLength(fields, ContentLengthOf(fields))
        /\ Len(bytes) = HeadLength(bytes) + ContentLengthOf(fields)

\* The chunked bodies: chunks of 1 to room bytes of data, then trailers.  The
\* longest size line and the longest run of trailers are parameters.
LineTo(bytes, from, end) == SubSeq(bytes, from, end - 1)

SizeText(line) ==
    IF \E i \in DOMAIN line : line[i] = ";"
    THEN SubSeq(line, 1, Find(line, <<";">>, 1) - 1) ELSE line

IsSizeLine(line) ==
    /\ Printable(line)
    /\ SizeText(line) # <<>>
    /\ \A i \in DOMAIN SizeText(line) : SizeText(line)[i] \in Digits

\* trailerEnd[i]: the length of the body whose trailers go on at position i;
\* chunkEnd[i][room]: of the body whose next chunk begins at position i.
ChunkedLength(bytes, start, longestLine) ==
    LET trailerEnd[i \in 1..(Len(bytes) + 1)] ==
          LET end == Find(bytes, CRLF, i)
          IN  IF end = 0 THEN 0
              ELSE IF end = i THEN end + 1
              ELSE IF ValidTrailer(LineTo(bytes, i, end)) THEN trailerEnd[end + 2] ELSE 0
        chunkEnd[i \in 1..(Len(bytes) + 1)] ==
          [room \in 0..MaxBody |->
             LET end == Find(bytes, CRLF, i)
                 line == LineTo(bytes, i, end)
                 size == ExactSize(SizeText(line), 16)
                 next == end + 2 + size
             IN  IF end = 0 \/ Len(line) > longestLine \/ ~IsSizeLine(line) THEN 0
                 ELSE IF size = 0
                 THEN LET last == trailerEnd[end + 2]
                      IN  IF last = 0 \/ last - (end + 1) > MaxHeader THEN 0 ELSE last
                 ELSE IF size > room \/ next + 1 > Len(bytes) THEN 0
                 ELSE IF SubSeq(bytes, next, next + 1) # CRLF THEN 0
                 ELSE chunkEnd[next + 2][room - size]]
    IN  chunkEnd[start][MaxBody]

ResponseMode(bytes) == ModeOf(message.method, FirstLine(bytes), FieldsOf(bytes))

\* The head of an acceptable response.
HasResponseHead(bytes) ==
    /\ HeadLength(bytes) \in 1..MaxHeader
    /\ ValidStatusLine(FirstLine(bytes))
    /\ ValidResponseFields(FieldsOf(bytes))
    /\ ResponseMode(bytes) = "ContentLength" =>
         /\ ResponseLength(FieldsOf(bytes)) <= MaxBody
         /\ ExactLength(FieldsOf(bytes), ResponseLength(FieldsOf(bytes)))

\* Exactly these bytes are a response that ends by itself, with size lines of at
\* most longestLine bytes.
IsResponse(bytes, longestLine) ==
    /\ HasResponseHead(bytes)
    /\ CASE ResponseMode(bytes) = "NoBody" -> Len(bytes) = HeadLength(bytes)
         [] ResponseMode(bytes) = "ContentLength" ->
              Len(bytes) = HeadLength(bytes) + ResponseLength(FieldsOf(bytes))
         [] ResponseMode(bytes) = "Chunked" ->
              ChunkedLength(bytes, HeadLength(bytes) + 1, longestLine) = Len(bytes)
         [] OTHER -> FALSE

\* These bytes and the end of the connection are a response.
IsClosedResponse(bytes) ==
    /\ HasResponseHead(bytes)
    /\ ResponseMode(bytes) = "CloseDelimited"
    /\ Len(bytes) - HeadLength(bytes) <= MaxBody

--------------------------------------------------------------------------------
(* Properties *)

\* The parsers and receivers keep their shape, never buffer more than a message
\* of the greatest length, and no count of the decoder wraps.
TypeOK ==
    /\ message \in Messages /\ read \in 0..Length /\ eof \in BOOLEAN
    /\ request \in RequestParsers /\ Len(request.buffer) <= MaxMessage
    /\ response \in ResponseParsers /\ Len(response.buffer) <= MaxMessage
    /\ requestHead \in RequestReceivers /\ Len(requestHead.head) <= MaxHeader
    /\ responseHead \in ResponseReceivers /\ Len(responseHead.head) <= MaxHeader
    /\ Len(responseHead.decoder.line) <= MaxLine

\* What RequestParser says depends on the bytes and not on how recv cut them: it
\* is complete exactly on a whole request, and rejects no beginning of one
\* unless this recv went beyond its end.
RequestVerdict ==
    message.kind = "request" =>
        /\ request.status = "MessageComplete" => IsRequest(Received)
        /\ request.status = "NeedMoreData" => ~IsRequest(Received)
        /\ request.status = "Error" => \A n \in read..Length : ~IsRequest(Prefix(n))

\* The same of ResponseParser, whose message may be followed by bytes it does
\* not take, and of notify_eof.  Two limits look at what one recv brought: a size
\* line must stay below max_header_size if it is cut, and a message with its
\* framing below max_message_size.
ResponseVerdict ==
    message.kind = "response" =>
        /\ response.status = "MessageComplete" =>
             \/ IsResponse(Prefix(response.messageBytes), MaxMessage)
             \/ (eof /\ response.messageBytes = read /\ IsClosedResponse(Received))
        /\ response.status = "NeedMoreData" => \A n \in 0..read : ~IsResponse(Prefix(n), MaxHeader)
        /\ response.status = "Error" =>
             /\ \A n \in read..(IF eof THEN read ELSE Length) :
                  IsResponse(Prefix(n), MaxHeader - 2) => n > MaxMessage
             /\ eof => ~IsClosedResponse(Received)

\* The whole lines behind the head, by the positions they begin at.
BodyLines(bytes) ==
    {i \in (HeadLength(bytes) + 1)..Len(bytes) : bytes[i - 1] = "LF" /\ Find(bytes, CRLF, i) # 0}

BodyLine(bytes, i) == LineTo(bytes, i, Find(bytes, CRLF, i))

LongSizeLine(bytes, longest) ==
    \E i \in BodyLines(bytes) :
      IsSizeLine(BodyLine(bytes, i)) /\ Len(BodyLine(bytes, i)) > longest

LongTrailer(bytes, longest) ==
    \E i \in BodyLines(bytes) :
      ValidTrailer(BodyLine(bytes, i)) /\ Len(BodyLine(bytes, i)) > longest

\* More than MaxHeader bytes behind the line of the last chunk.
LongTrailers(bytes) ==
    \E i \in BodyLines(bytes) :
      /\ IsSizeLine(BodyLine(bytes, i)) /\ ExactSize(SizeText(BodyLine(bytes, i)), 16) = 0
      /\ Len(bytes) - (Find(bytes, CRLF, i) + 1) > MaxHeader

\* The two proxies never disagree on where a message ends.  Whatever the buffering
\* one takes for a request is one for the streaming one, of the same length, and
\* what that accepts is a request whatever recv brought it; the buffering one then
\* refuses it only for bytes that came behind it.  A pipelined request is hence an
\* error of the one proxy, and of the other only if it shares the recv of the
\* head: once a head is accepted nothing behind the body is even read, and a
\* request is refused only if nothing could have completed it.
SameRequests ==
    message.kind = "request" =>
        /\ request.status = "MessageComplete" =>
             requestHead.phase = "Complete" /\ requestHead.taken = read
        /\ requestHead.phase = "Complete" =>
             /\ IsRequest(Prefix(requestHead.taken))
             /\ \/ request.status = "MessageComplete"
                \/ request.status = "Error" /\ requestHead.taken < read
        /\ requestHead.phase = "Rejected" =>
             /\ requestHead.taken = 0
             /\ \A n \in read..Length : ~IsRequest(Prefix(n))

\* While one has a response whole, the other neither waits for more of it nor takes
\* it to be of another length.  One rejects what the other accepts only for the
\* reasons it has alone.  The streaming one limits every line of a chunked body and
\* refuses bytes behind it in the same recv.  The buffering one limits the whole
\* message, the trailers together and a size line that is cut, and looks for control
\* characters in chunk extensions and in the values of trailers.
SameResponses ==
    message.kind = "response" =>
        /\ response.status = "MessageComplete" =>
             \/ /\ responseHead.phase = "Complete"
                /\ response.messageBytes = responseHead.taken
             \/ /\ responseHead.phase = "Rejected"
                /\ \/ RemainingBytes(response) > 0
                   \/ LongSizeLine(Received, MaxLine)
                   \/ LongTrailer(Received, MaxLine)
        /\ responseHead.phase = "Complete" =>
             \/ response.status = "MessageComplete"
             \/ /\ response.status = "Error"
                /\ \/ \E i \in 1..read : message.bytes[i] = "ctl"
                   \/ read > MaxMessage
                   \/ LongTrailers(Prefix(responseHead.taken))
                   \/ LongSizeLine(Received, MaxHeader - 2)

SameFraming == SameRequests /\ SameResponses

\* What a proxy sends on is framed as what it has read: the same host and body
\* length for the upstream; for the client the body mode of a body passed on as it
\* came, and the length of one that was decoded first.  A Connection field cannot
\* take the framing away by naming it, and nothing it names is passed on.
HeadersOf(head) == InOrder(FieldsOf(head))

PassedOn(fields, sent) ==
    \A i \in DOMAIN sent :
      FieldName(sent[i]) \in NamedByConnection(fields) => FieldName(sent[i]) = "Content-Length"

RequestPassedOn(head) ==
    LET fields == HeadersOf(head)
        sent == RewrittenRequestFields(fields)
    IN  /\ ValidRequestFields(sent)
        /\ ContentLengthOf(sent) = ContentLengthOf(fields)
        /\ FieldsNamed(sent, "Host") = FieldsNamed(fields, "Host")
        /\ PassedOn(fields, sent)

ResponsePassedOn(head, sent, mode, length) ==
    /\ ValidResponseFields(sent)
    /\ ModeOf(message.method, FirstLine(head), sent) = mode
    /\ mode = "ContentLength" => ResponseLength(sent) = length
    /\ mode = "NoBody" => FieldsNamed(sent, "Content-Length")
                            \subseteq FieldsNamed(HeadersOf(head), "Content-Length")
    /\ PassedOn(HeadersOf(head), sent)

FramingKept ==
    /\ requestHead.phase \in {"Body", "Complete"} => RequestPassedOn(requestHead.head)
    /\ responseHead.phase \in {"Body", "Complete"} =>
         LET head == responseHead.head
             length == IF responseHead.mode = "ContentLength"
                       THEN ResponseLength(HeadersOf(head)) ELSE 0
         IN  \A closes \in BOOLEAN :
               ResponsePassedOn(head,
                 RewrittenHeadFields(HeadersOf(head), responseHead.mode, length, closes),
                 responseHead.mode, length)
    /\ response.status = "MessageComplete" =>
         LET head == SubSeq(response.buffer, 1, response.headerBytes)
             length == Len(ResponseBody(response))
         IN  \A closes \in BOOLEAN :
               ResponsePassedOn(head,
                 RewrittenResponseFields(HeadersOf(head), response.mode, length, closes),
                 IF response.mode = "NoBody" THEN "NoBody" ELSE "ContentLength", length)
================================================================================
