------------------------- MODULE MessageStreams_proofs -------------------------
(***************************************************************************)
(* Proofs about MessageStreams, for any streams of bytes, recv boundaries  *)
(* and limits: the verdicts of RequestParser and of ResponseParser, chunked *)
(* bodies and the end of the connection included, depend on the bytes      *)
(* alone; ReliableSession takes the same bytes for a request, whatever     *)
(* follows them, and with its ChunkedStreamDecoder it ends a response      *)
(* where the legacy proxy does; and what MessageRewriter sends on has the  *)
(* framing that was read.                                                  *)
(***************************************************************************)
EXTENDS MessageText_proofs

--------------------------------------------------------------------------------
(* The head of a request *)

RequestLength(t) == ContentLengthOf(FieldsOf(t))
Total(t) == HeadLength(t) + RequestLength(t)

HasRequestHead(t) ==
    /\ HeadLength(t) \in 1..MaxHeader
    /\ ValidRequestLine(FirstLine(t))
    /\ ValidRequestFields(FieldsOf(t))
    /\ RequestLength(t) <= MaxBody

\* Nothing that begins so is a request.
Hopeless(t) == \A u \in Texts : Begins(t, u) => ~IsRequest(u)

LEMMA HeadTypes ==
    ASSUME NEW t \in Texts, HasRequestHead(t)
    PROVE  /\ HeadLength(t) \in 1..MaxHeader /\ HeadLength(t) <= Len(t)
           /\ RequestLength(t) \in 0..MaxBody
           /\ Total(t) \in 1..MaxMessage
<1>1. HeadLength(t) \in 1..MaxHeader /\ MaxHeader \in Nat /\ MaxBody \in Nat
      /\ RequestLength(t) <= MaxBody /\ ValidRequestFields(FieldsOf(t))
  BY SizeAssumption DEF HasRequestHead
<1>2. HeadLength(t) # 0
  BY <1>1
<1>3. \A i \in DOMAIN FieldsOf(t) : FieldsOf(t)[i] \in Texts
  BY <1>2, FieldsAreTexts
<1>4. RequestLength(t) \in Nat
  BY <1>1, <1>3, LengthType DEF RequestLength
<1>5. HeadLength(t) <= Len(t)
  BY <1>2, HeadLengthIs
<1> QED BY <1>1, <1>4, <1>5 DEF Total, MaxMessage

LEMMA RequestIs ==
    ASSUME NEW t \in Texts
    PROVE  IsRequest(t) <=> HasRequestHead(t) /\ Len(t) = Total(t)
<1>1. IsRequest(t) => HasRequestHead(t) /\ Len(t) = Total(t)
  BY DEF IsRequest, HasRequestHead, Total, RequestLength
<1>2. ASSUME HasRequestHead(t), Len(t) = Total(t)
      PROVE  IsRequest(t)
  <2>1. HeadLength(t) # 0 /\ ValidRequestFields(FieldsOf(t))
    BY <1>2 DEF HasRequestHead
  <2>2. \A i \in DOMAIN FieldsOf(t) : FieldsOf(t)[i] \in Texts
    BY <2>1, FieldsAreTexts
  <2>3. ExactLength(FieldsOf(t), ContentLengthOf(FieldsOf(t)))
    BY <2>1, <2>2, LengthIsExact
  <2> QED BY <1>2, <2>3 DEF IsRequest, HasRequestHead, Total, RequestLength
<1> QED BY <1>1, <1>2

\* A head stays as it is whatever follows it.
LEMMA HeadStays ==
    ASSUME NEW t \in Texts, NEW u \in Texts, Begins(t, u), HeadLength(t) # 0
    PROVE  /\ HasRequestHead(u) <=> HasRequestHead(t)
           /\ HeadLength(u) = HeadLength(t) /\ RequestLength(u) = RequestLength(t)
           /\ Total(u) = Total(t)
  BY SameHead DEF HasRequestHead, RequestLength, Total

LEMMA HopelessStays ==
    ASSUME NEW t \in Texts, NEW u \in Texts, Begins(t, u), Hopeless(t)
    PROVE  Hopeless(u)
  BY BeginsOn DEF Hopeless

--------------------------------------------------------------------------------
(* Why a beginning is rejected *)

\* The head does not end within max_header_size.
LEMMA NoHeadHopeless ==
    ASSUME NEW t \in Texts, HeadLength(t) = 0, Len(t) >= MaxHeader
    PROVE  Hopeless(t)
<1>1. SUFFICES ASSUME NEW u \in Texts, Begins(t, u), IsRequest(u)
               PROVE  FALSE
  BY DEF Hopeless
<1> DEFINE e == Find(u, CRLF \o CRLF, 1)
<1>2. HeadLength(u) \in 1..MaxHeader /\ MaxHeader \in Nat /\ Len(t) \in Nat
  BY <1>1, SizeAssumption, TextType DEF IsRequest
<1>3. HeadLength(u) = e + 3 /\ FirstHeadEnd(u, e)
  BY <1>2, HeadLengthIs
<1>4. e \in Nat /\ e + 3 <= Len(t)
  BY <1>2, <1>3, FindHead
<1>5. FirstHeadEnd(t, e)
  BY <1>1, <1>3, <1>4, HeadGoesOn
<1>6. Find(t, CRLF \o CRLF, 1) = e
  BY <1>5, HeadAt
<1>7. e # 0
  BY <1>5 DEF FirstHeadEnd
<1> QED BY <1>6, <1>7, HeadLengthIs

\* Nor does its first line.
LEMMA NoLineNoHead ==
    ASSUME NEW t \in Texts, Find(t, CRLF, 1) = 0
    PROVE  HeadLength(t) = 0
<1>1. SUFFICES ASSUME HeadLength(t) # 0 PROVE FALSE
  OBVIOUS
<1> DEFINE e == Find(t, CRLF \o CRLF, 1)
<1>2. FirstHeadEnd(t, e)
  BY <1>1, HeadLengthIs
<1> HIDE DEF e
<1>3. 1 \in 1..e
  BY <1>2 DEF FirstHeadEnd
<1> QED BY <1>2, <1>3, HeadHasLine

\* The first line is not a request line.
LEMMA BadLineHopeless ==
    ASSUME NEW t \in Texts, Find(t, CRLF, 1) # 0, ~ValidRequestLine(FirstLine(t))
    PROVE  Hopeless(t)
<1>1. SUFFICES ASSUME NEW u \in Texts, Begins(t, u), IsRequest(u)
               PROVE  FALSE
  BY DEF Hopeless
<1> DEFINE f == Find(t, CRLF, 1)
<1>2. FirstLineEnd(t, 1, f) /\ f \in Nat
  <2>1. 1 \in Nat \ {0}
    OBVIOUS
  <2> QED BY <2>1, FindLine
<1>3. Find(u, CRLF, 1) = f
  <2>1. 1 \in Nat \ {0}
    OBVIOUS
  <2> QED BY <1>1, <1>2, <2>1, LineGoesOn, LineAt
<1>4. SubSeq(t, 1, f - 1) = SubSeq(u, 1, f - 1)
  <2>1. f - 1 \in Nat /\ f - 1 <= Len(t) /\ 1 \in Nat \ {0} /\ Len(t) \in Nat
    BY <1>2, TextType DEF FirstLineEnd
  <2> QED BY <1>1, <2>1, CutCommon
<1>5. FirstLine(u) = FirstLine(t)
  BY <1>3, <1>4 DEF FirstLine
<1> QED BY <1>1, <1>5 DEF IsRequest

\* The head is there and it is not acceptable.
LEMMA BadHeadHopeless ==
    ASSUME NEW t \in Texts, HeadLength(t) # 0, ~HasRequestHead(t)
    PROVE  Hopeless(t)
  BY HeadStays, RequestIs DEF Hopeless

\* More has come than the request is long.
LEMMA TooMuchHopeless ==
    ASSUME NEW t \in Texts, HasRequestHead(t), Len(t) > Total(t)
    PROVE  Hopeless(t)
<1>1. SUFFICES ASSUME NEW u \in Texts, Begins(t, u), IsRequest(u)
               PROVE  FALSE
  BY DEF Hopeless
<1>2. HeadLength(t) # 0 /\ Total(t) \in Nat
  BY HeadTypes
<1>3. Total(u) = Total(t) /\ Len(u) = Total(u)
  BY <1>1, <1>2, HeadStays, RequestIs
<1> QED BY <1>1, <1>2, <1>3, TextType DEF Begins

LEMMA TooLongHopeless ==
    ASSUME NEW t \in Texts, Len(t) > MaxMessage
    PROVE  Hopeless(t)
<1>1. SUFFICES ASSUME NEW u \in Texts, Begins(t, u), IsRequest(u)
               PROVE  FALSE
  BY DEF Hopeless
<1>2. Len(u) \in 1..MaxMessage
  BY <1>1, RequestIs, HeadTypes
<1> QED BY <1>1, <1>2, TextType, SizeAssumption DEF Begins, MaxMessage

--------------------------------------------------------------------------------
(* RequestParser *)

ParserRecords == [status: Statuses, error: {"None", "Invalid", "TooLarge"}, buffer: Texts,
                  fieldsStart: Nat, headersParsed: BOOLEAN, headerBytes: Nat, contentLength: Nat]

\* The first line of t is a request line, and its fields begin at start.
LineRead(t, start) ==
    /\ Find(t, CRLF, 1) # 0 /\ start = Find(t, CRLF, 1) + 2
    /\ ValidRequestLine(FirstLine(t))

HeadRead(p, t) ==
    /\ HasRequestHead(t)
    /\ p.headerBytes = HeadLength(t) /\ p.contentLength = RequestLength(t)

\* What the parser knows of a text of which it has not decided.
Waits(p, t) ==
    /\ p.status = "NeedMoreData" /\ p.buffer = t
    /\ p.fieldsStart # 0 => LineRead(t, p.fieldsStart)
    /\ ~p.headersParsed => HeadLength(t) = 0
    /\ p.headersParsed => HeadRead(p, t) /\ Len(t) < Total(t) /\ p.fieldsStart # 0

\* The parser has read t.
Reads(p, t) ==
    /\ p \in ParserRecords
    /\ \/ Waits(p, t) /\ Len(t) <= MaxMessage
       \/ p.status = "MessageComplete" /\ HeadRead(p, t) /\ Len(t) = Total(t)
       \/ p.status = "Error" /\ Hopeless(t)

LEMMA NewParserReads == Reads(NewRequestParser, <<>>)
<1>1. NewRequestParser \in ParserRecords
  BY EmptyText DEF NewRequestParser, ParserRecords, Statuses
<1> QED BY <1>1, EmptyText, SizeAssumption DEF Reads, Waits, NewRequestParser, MaxMessage

\* The parser between the steps of consume: the first line is not read, the head
\* is not read, or the head is.
Lines(p, t) ==
    /\ p \in ParserRecords
    /\ \/ /\ p.status = "NeedMoreData" /\ p.buffer = t
          /\ p.fieldsStart # 0 => LineRead(t, p.fieldsStart)
          /\ p.fieldsStart = 0 => HeadLength(t) = 0
          /\ p.headersParsed => HeadRead(p, t) /\ p.fieldsStart # 0
       \/ p.status = "Error" /\ Hopeless(t)

Heads(p, t) ==
    /\ p \in ParserRecords
    /\ \/ /\ p.status = "NeedMoreData" /\ p.buffer = t
          /\ p.fieldsStart # 0 => LineRead(t, p.fieldsStart)
          /\ ~p.headersParsed => HeadLength(t) = 0
          /\ p.headersParsed => HeadRead(p, t) /\ p.fieldsStart # 0
       \/ p.status = "Error" /\ Hopeless(t)

LEMMA ErrorReads ==
    ASSUME NEW p \in ParserRecords, NEW error \in {"Invalid", "TooLarge"}
    PROVE  RequestError(p, error) \in ParserRecords /\ RequestError(p, error).status = "Error"
  BY DEF RequestError, ParserRecords, Statuses

LEMMA LineReadStays ==
    ASSUME NEW t \in Texts, NEW u \in Texts, Begins(t, u), NEW start, LineRead(t, start)
    PROVE  LineRead(u, start)
<1> DEFINE f == Find(t, CRLF, 1)
<1>0. 1 \in Nat \ {0}
  OBVIOUS
<1>1. f # 0 /\ f \in Nat /\ FirstLineEnd(t, 1, f)
  BY <1>0, FindLine DEF LineRead
<1>2. Find(u, CRLF, 1) = f
  BY <1>0, <1>1, LineGoesOn, LineAt
<1>3. SubSeq(t, 1, f - 1) = SubSeq(u, 1, f - 1)
  <2>1. f - 1 \in Nat /\ f - 1 <= Len(t) /\ Len(t) \in Nat
    BY <1>1, TextType DEF FirstLineEnd
  <2> QED BY <1>0, <2>1, CutCommon
<1>4. FirstLine(u) = FirstLine(t)
  BY <1>2, <1>3 DEF FirstLine
<1> QED BY <1>2, <1>4 DEF LineRead

LEMMA LineStep ==
    ASSUME NEW p \in ParserRecords, NEW t \in Texts, p.buffer = t, p.status = "NeedMoreData",
           p.fieldsStart # 0 => LineRead(t, p.fieldsStart),
           p.headersParsed => HeadRead(p, t) /\ p.fieldsStart # 0
    PROVE  Lines(ParseRequestLine(p), t)
<1> DEFINE f == Find(t, CRLF, 1)
           next == ParseRequestLine(p)
<1> SUFFICES Lines(next, t)
  OBVIOUS
<1>1. CASE p.fieldsStart # 0
  <2>1. next = p
    BY <1>1 DEF ParseRequestLine
  <2> QED BY <1>1, <2>1 DEF Lines
<1>2. CASE p.fieldsStart = 0 /\ f = 0 /\ Len(t) >= MaxHeader
  <2>1. next = RequestError(p, "TooLarge")
    BY <1>2 DEF ParseRequestLine
  <2>2. Hopeless(t)
    BY <1>2, NoLineNoHead, NoHeadHopeless
  <2> QED BY <2>1, <2>2, ErrorReads DEF Lines
<1>3. CASE p.fieldsStart = 0 /\ f = 0 /\ ~(Len(t) >= MaxHeader)
  <2>1. next = p
    BY <1>3 DEF ParseRequestLine
  <2>2. HeadLength(t) = 0
    BY <1>3, NoLineNoHead
  <2> QED BY <1>3, <2>1, <2>2 DEF Lines
<1>4. CASE p.fieldsStart = 0 /\ f # 0 /\ ValidRequestLine(FirstLine(t))
  <2>1. next = [p EXCEPT !.fieldsStart = f + 2]
    BY <1>4 DEF ParseRequestLine, FirstLine
  <2>2. f \in Nat
    <3>1. 1 \in Nat \ {0}
      OBVIOUS
    <3> QED BY <3>1, FindLine
  <2> HIDE DEF f
  <2>3. /\ next \in ParserRecords /\ next.status = "NeedMoreData" /\ next.buffer = t
        /\ next.fieldsStart = f + 2 /\ next.headersParsed = FALSE /\ f + 2 # 0
    BY <1>4, <2>1, <2>2 DEF ParserRecords
  <2>4. LineRead(t, f + 2)
    BY <1>4 DEF LineRead, f
  <2> HIDE DEF next
  <2> QED BY <2>3, <2>4 DEF Lines
<1>5. CASE p.fieldsStart = 0 /\ f # 0 /\ ~ValidRequestLine(FirstLine(t))
  <2>1. next = RequestError(p, "Invalid")
    BY <1>5 DEF ParseRequestLine, FirstLine
  <2>2. Hopeless(t)
    BY <1>5, BadLineHopeless
  <2> QED BY <2>1, <2>2, ErrorReads DEF Lines
<1> QED BY <1>1, <1>2, <1>3, <1>4, <1>5

LEMMA FieldsStep ==
    ASSUME NEW p \in ParserRecords, NEW t \in Texts, p.buffer = t, p.status = "NeedMoreData",
           LineRead(t, p.fieldsStart), p.fieldsStart # 0, ~p.headersParsed
    PROVE  Heads(ParseFields(p), t)
<1> DEFINE e == Find(t, CRLF \o CRLF, 1)
           fields == FieldLines(t, p.fieldsStart, e)
           length == ContentLengthOf(fields)
           next == ParseFields(p)
           headed == [p EXCEPT !.headerBytes = e + 3]
<1> SUFFICES Heads(next, t)
  OBVIOUS
<1>1. e \in Nat /\ (e = 0 <=> HeadLength(t) = 0) /\ (e # 0 => HeadLength(t) = e + 3)
  BY FindHead, HeadLengthIs
<1>2. headed \in ParserRecords /\ headed.headerBytes = e + 3
  <2> HIDE DEF e
  <2> QED BY <1>1 DEF ParserRecords
<1>3. e # 0 => fields = FieldsOf(t) /\ length = RequestLength(t)
  <2>1. e # 0 => HeadLength(t) - 3 = e
    BY <1>1
  <2> QED BY <2>1 DEF LineRead, FieldsOf, RequestLength
<1>4. next = IF e = 0
             THEN IF Len(t) >= MaxHeader THEN RequestError(p, "TooLarge") ELSE p
             ELSE IF e + 3 > MaxHeader THEN RequestError(headed, "TooLarge")
             ELSE IF ~ValidRequestFields(fields) THEN RequestError(headed, "Invalid")
             ELSE IF length > MaxBody
             THEN RequestError([headed EXCEPT !.contentLength = length], "TooLarge")
             ELSE [headed EXCEPT !.contentLength = length, !.headersParsed = TRUE]
  <2>1. next = IF e = 0
             THEN IF Len(t) >= MaxHeader THEN RequestError(p, "TooLarge") ELSE p
             ELSE IF headed.headerBytes > MaxHeader THEN RequestError(headed, "TooLarge")
             ELSE IF ~ValidRequestFields(fields) THEN RequestError(headed, "Invalid")
             ELSE IF length > MaxBody
             THEN RequestError([headed EXCEPT !.contentLength = length], "TooLarge")
             ELSE [headed EXCEPT !.contentLength = length, !.headersParsed = TRUE]
    BY Zenon DEF ParseFields
  <2> QED BY <1>2, <2>1, Zenon
<1> HIDE DEF e, fields, length, next, headed
<1>5. CASE e = 0 /\ Len(t) >= MaxHeader
  BY <1>1, <1>4, <1>5, NoHeadHopeless, ErrorReads DEF Heads
<1>6. CASE e = 0 /\ ~(Len(t) >= MaxHeader)
  BY <1>1, <1>4, <1>6 DEF Heads
<1>7. CASE e # 0 /\ e + 3 > MaxHeader
  <2>1. ~HasRequestHead(t)
    BY <1>1, <1>7, SizeAssumption DEF HasRequestHead
  <2> QED BY <1>1, <1>2, <1>4, <1>7, <2>1, BadHeadHopeless, ErrorReads DEF Heads
<1>8. CASE e # 0 /\ ~(e + 3 > MaxHeader) /\ ~ValidRequestFields(fields)
  <2>1. ~HasRequestHead(t)
    BY <1>3, <1>8 DEF HasRequestHead
  <2> QED BY <1>1, <1>2, <1>4, <1>8, <2>1, BadHeadHopeless, ErrorReads DEF Heads
<1>9. CASE e # 0 /\ ~(e + 3 > MaxHeader) /\ ValidRequestFields(fields)
  <2>1. HeadLength(t) \in 1..MaxHeader /\ HeadLength(t) = e + 3 /\ length = RequestLength(t)
        /\ fields = FieldsOf(t)
    BY <1>1, <1>3, <1>9, SizeAssumption
  <2>2. length \in Nat
    <3>1. \A i \in DOMAIN fields : fields[i] \in Texts
      BY <2>1, FieldsAreTexts
    <3> QED BY <1>9, <3>1, LengthType DEF length
  <2>3. CASE length > MaxBody
    <3>1. ~HasRequestHead(t)
      BY <2>1, <2>2, <2>3, SizeAssumption DEF HasRequestHead
    <3>2. [headed EXCEPT !.contentLength = length] \in ParserRecords
      BY <1>2, <2>2 DEF ParserRecords
    <3>3. next = RequestError([headed EXCEPT !.contentLength = length], "TooLarge")
      BY <1>4, <1>9, <2>3
    <3>4. Hopeless(t)
      BY <1>1, <1>9, <3>1, BadHeadHopeless
    <3> QED BY <3>2, <3>3, <3>4, ErrorReads DEF Heads
  <2>4. CASE ~(length > MaxBody)
    <3>1. next = [headed EXCEPT !.contentLength = length, !.headersParsed = TRUE]
      BY <1>4, <1>9, <2>4
    <3>2. HasRequestHead(t)
      BY <1>9, <2>1, <2>2, <2>4, SizeAssumption DEF HasRequestHead, LineRead
    <3>3. /\ next \in ParserRecords /\ next.headersParsed /\ next.headerBytes = HeadLength(t)
          /\ next.contentLength = RequestLength(t) /\ next.status = "NeedMoreData"
          /\ next.buffer = t /\ next.fieldsStart = p.fieldsStart
      BY <1>2, <2>1, <2>2, <3>1 DEF ParserRecords, headed
    <3> QED BY <3>2, <3>3 DEF Heads, HeadRead
  <2> QED BY <2>3, <2>4
<1> QED BY <1>5, <1>6, <1>7, <1>8, <1>9

LEMMA BodyStep ==
    ASSUME NEW p, NEW t \in Texts, Heads(p, t), p.status = "NeedMoreData", p.headersParsed,
           Len(t) <= MaxMessage
    PROVE  Reads(TakeRequestBody(p), t)
<1> DEFINE next == TakeRequestBody(p)
<1>1. /\ p \in ParserRecords /\ p.buffer = t /\ HeadRead(p, t) /\ p.fieldsStart # 0
      /\ LineRead(t, p.fieldsStart)
  BY DEF Heads
<1>2. HasRequestHead(t) /\ p.headerBytes + p.contentLength = Total(t)
  BY <1>1 DEF HeadRead, Total
<1>3. Len(t) \in Nat /\ Total(t) \in Nat
  BY <1>2, TextType, HeadTypes
<1>4. CASE Len(t) < Total(t)
  <2>1. next = p
    BY <1>1, <1>2, <1>4 DEF TakeRequestBody
  <2> QED BY <1>1, <1>4, <2>1 DEF Reads, Waits
<1>5. CASE Len(t) > Total(t)
  <2>1. next = RequestError(p, "Invalid")
    BY <1>1, <1>2, <1>3, <1>5 DEF TakeRequestBody
  <2> QED BY <1>1, <1>2, <1>5, <2>1, TooMuchHopeless, ErrorReads DEF Reads
<1>6. CASE Len(t) = Total(t)
  <2>1. next = [p EXCEPT !.status = "MessageComplete"]
    BY <1>1, <1>2, <1>3, <1>6 DEF TakeRequestBody
  <2>2. next \in ParserRecords /\ next.status = "MessageComplete"
        /\ next.headerBytes = p.headerBytes /\ next.contentLength = p.contentLength
    BY <1>1, <2>1 DEF ParserRecords, Statuses
  <2> QED BY <1>1, <1>6, <2>2 DEF Reads, HeadRead
<1> QED BY <1>3, <1>4, <1>5, <1>6

\* consume: the parser has read what it had and the chunk, wherever it is cut.
LEMMA ConsumeReads ==
    ASSUME NEW p, NEW t \in Texts, NEW chunk \in Texts, Reads(p, t),
           p.status # "MessageComplete"
    PROVE  Reads(ConsumeRequest(p, chunk), t \o chunk)
<1> DEFINE u == t \o chunk
           appended == [p EXCEPT !.buffer = @ \o chunk]
           lined == ParseRequestLine(appended)
           headed == IF lined.status = "NeedMoreData" /\ lined.fieldsStart # 0
                        /\ ~lined.headersParsed
                     THEN ParseFields(lined) ELSE lined
           next == ConsumeRequest(p, chunk)
<1>1. u \in Texts /\ Len(u) = Len(t) + Len(chunk) /\ Begins(t, u)
      /\ Len(t) \in Nat /\ Len(chunk) \in Nat
  BY Joined, TextType
<1>2. p \in ParserRecords /\ MaxMessage \in Nat
  BY SizeAssumption DEF Reads, MaxMessage
<1>3. next = IF p.status # "NeedMoreData" THEN p
             ELSE IF ~RequestRoom(p, chunk) THEN RequestError(p, "TooLarge")
             ELSE IF headed.status = "NeedMoreData" /\ headed.headersParsed
             THEN TakeRequestBody(headed) ELSE headed
  BY Zenon DEF ConsumeRequest
<1>4. CASE p.status # "NeedMoreData"
  <2>1. p.status = "Error" /\ Hopeless(t)
    BY <1>4 DEF Reads, Waits
  <2>2. Hopeless(u)
    BY <1>1, <2>1, HopelessStays
  <2> HIDE DEF u, next
  <2> QED BY <1>2, <1>3, <1>4, <2>1, <2>2 DEF Reads, u, next
<1>5. CASE p.status = "NeedMoreData"
  <2>1. Waits(p, t) /\ Len(t) <= MaxMessage
    BY <1>5 DEF Reads
  <2>2. CASE ~RequestRoom(p, chunk)
    <3>1. Len(u) > MaxMessage
      BY <1>1, <1>2, <2>1, <2>2 DEF RequestRoom, Waits
    <3>2. Hopeless(u)
      BY <1>1, <3>1, TooLongHopeless
    <3> HIDE DEF u, next
    <3> QED BY <1>2, <1>3, <1>5, <2>2, <3>2, ErrorReads DEF Reads, u, next
  <2>3. CASE RequestRoom(p, chunk)
    <3>1. Len(u) <= MaxMessage
      BY <1>1, <1>2, <2>1, <2>3 DEF RequestRoom, Waits
    <3>2. /\ appended \in ParserRecords /\ appended.buffer = u /\ appended.status = "NeedMoreData"
          /\ appended.fieldsStart = p.fieldsStart /\ appended.headersParsed = p.headersParsed
          /\ appended.headerBytes = p.headerBytes /\ appended.contentLength = p.contentLength
      <4>1. p.buffer = t
        BY <2>1 DEF Waits
      <4>2. appended = [p EXCEPT !.buffer = u]
        BY <4>1
      <4> HIDE DEF u, appended
      <4> QED BY <1>1, <1>2, <1>5, <4>2 DEF ParserRecords
    <3> HIDE DEF u, appended
    <3>3. p.fieldsStart # 0 => LineRead(u, p.fieldsStart)
      BY <1>1, <2>1, LineReadStays DEF Waits
    <3>4. p.headersParsed => HeadRead(p, u) /\ p.fieldsStart # 0
      <4>1. p.headersParsed => HeadRead(p, t) /\ p.fieldsStart # 0
        BY <2>1 DEF Waits
      <4>2. HasRequestHead(t) => HeadLength(t) # 0
        BY HeadTypes
      <4> QED BY <1>1, <4>1, <4>2, HeadStays DEF HeadRead
    <3>5. Lines(lined, u)
      <4>1. appended.headersParsed => HeadRead(appended, u) /\ appended.fieldsStart # 0
        BY <3>2, <3>4 DEF HeadRead
      <4> QED BY <1>1, <3>2, <3>3, <4>1, LineStep
    <3> HIDE DEF lined
    <3>6. Heads(headed, u)
      <4>1. CASE lined.status = "NeedMoreData" /\ lined.fieldsStart # 0 /\ ~lined.headersParsed
        <5>1. lined \in ParserRecords /\ lined.buffer = u /\ LineRead(u, lined.fieldsStart)
          BY <3>5, <4>1 DEF Lines
        <5> QED BY <1>1, <4>1, <5>1, FieldsStep
      <4>2. CASE ~(lined.status = "NeedMoreData" /\ lined.fieldsStart # 0 /\ ~lined.headersParsed)
        <5>1. headed = lined
          BY <4>2
        <5>2. lined \in ParserRecords
          BY <3>5 DEF Lines
        <5>3. lined.headersParsed \in BOOLEAN
          BY <5>2 DEF ParserRecords
        <5> HIDE DEF headed
        <5> QED BY <3>5, <4>2, <5>1, <5>2, <5>3 DEF Lines, Heads
      <4> QED BY <4>1, <4>2
    <3> HIDE DEF headed
    <3>7. next = IF headed.status = "NeedMoreData" /\ headed.headersParsed
                 THEN TakeRequestBody(headed) ELSE headed
      BY <1>3, <1>5, <2>3
    <3> HIDE DEF next
    <3>8. CASE headed.status = "NeedMoreData" /\ headed.headersParsed
      <4>1. Reads(TakeRequestBody(headed), u)
        BY <1>1, <3>1, <3>6, <3>8, BodyStep
      <4> QED BY <3>7, <3>8, <4>1 DEF next, u
    <3>9. CASE ~(headed.status = "NeedMoreData" /\ headed.headersParsed)
      <4>1. Reads(headed, u)
        BY <3>1, <3>6, <3>9 DEF Heads, Reads, Waits
      <4> QED BY <3>7, <3>9, <4>1 DEF next, u
    <3> QED BY <3>8, <3>9
  <2> QED BY <2>2, <2>3
<1> QED BY <1>4, <1>5

--------------------------------------------------------------------------------
(* The reading of ReliableSession *)

LEMMA WholeCut ==
    ASSUME NEW t \in Texts
    PROVE  SubSeq(t, 1, Len(t)) = t
<1> DEFINE n == Len(t)
           u == SubSeq(t, 1, n)
<1>1. n \in Nat /\ 1 \in Nat \ {0} /\ n <= Len(t)
  BY TextType
<1>2. /\ u \in Texts /\ Len(u) = IF 1 <= n THEN (n - 1) + 1 ELSE 0
      /\ \A i \in 1..((n - 1) + 1) : u[i] = t[(1 + i) - 1]
  <2> HIDE DEF n
  <2> QED BY <1>1, Cut
<1>3. Len(u) = n /\ \A i \in 1..n : u[i] = t[i]
  <2> HIDE DEF u
  <2>1. Len(u) = n
    BY <1>1, <1>2
  <2>2. ASSUME NEW i \in 1..n
        PROVE  u[i] = t[i]
    BY <1>1, <1>2
  <2> QED BY <2>1, <2>2
<1> HIDE DEF u
<1>4. u = t
  BY <1>2, <1>3, CutEqual
<1> QED BY <1>4 DEF u

ReceiverRecords == [phase: Phases, head: Texts, left: Nat, taken: Nat]

\* What has been taken of t, of which more may have come than is taken.
Taking(r, t) ==
    /\ HasRequestHead(t)
    /\ \/ r.phase = "Body" /\ Len(t) < Total(t) /\ r.left = Total(t) - Len(t)
            /\ r.taken = Len(t)
       \/ r.phase = "Complete" /\ Len(t) >= Total(t) /\ r.taken = Total(t)

Receives(r, t) ==
    /\ r \in ReceiverRecords
    /\ \/ r.phase = "Head" /\ r.head = t /\ HeadLength(t) = 0 /\ r.taken = 0
       \/ r.phase \in {"Body", "Complete"} /\ Taking(r, t)
       \/ r.phase = "Rejected" /\ Hopeless(t) /\ r.taken = 0

LEMMA NewReceiverReceives == Receives(NewRequestReceiver, <<>>)
  BY EmptyText DEF Receives, NewRequestReceiver, ReceiverRecords, Phases

LEMMA RejectedType ==
    ASSUME NEW r \in ReceiverRecords
    PROVE  /\ Rejected(r) \in ReceiverRecords /\ Rejected(r).phase = "Rejected"
           /\ Rejected(r).taken = r.taken
  BY DEF Rejected, ReceiverRecords, Phases

\* A head that is cut off behind its blank line is read as a whole message is.
LEMMA HeadParsed ==
    ASSUME NEW t \in Texts, HeadLength(t) = Len(t), Len(t) # 0
    PROVE  LET p == ConsumeRequest(NewRequestParser, t)
           IN  \/ p.status = "Error" /\ Hopeless(t)
               \/ p.status # "Error" /\ HeadRead(p, t) /\ p.headerBytes # 0
<1> DEFINE p == ConsumeRequest(NewRequestParser, t)
<1>1. <<>> \o t = t
  <2>1. t \in Seq(Symbols)
    BY DEF Texts
  <2> QED BY <2>1, ConcatEmptySeq
<1>2. NewRequestParser.status = "NeedMoreData"
  BY DEF NewRequestParser
<1>3. Reads(p, t)
  <2>1. <<>> \in Texts
    BY EmptyText
  <2>2. Reads(ConsumeRequest(NewRequestParser, t), <<>> \o t)
    BY <1>2, <2>1, NewParserReads, ConsumeReads
  <2> QED BY <1>1, <2>2
<1> HIDE DEF p
<1>4. p.status # "Error" => HeadRead(p, t)
  BY <1>3 DEF Reads, Waits, ParserRecords
<1>5. HeadRead(p, t) => p.headerBytes # 0
  BY HeadTypes DEF HeadRead
<1>6. p.status = "Error" => Hopeless(t)
  BY <1>3 DEF Reads, Waits
<1> QED BY <1>4, <1>5, <1>6 DEF p

LEMMA HeadFinished ==
    ASSUME NEW r \in ReceiverRecords, r.taken = 0, NEW t \in Texts, HeadLength(t) # 0
    PROVE  Receives(FinishRequestHead(r, SubSeq(t, 1, HeadLength(t)),
                                      SubSeq(t, HeadLength(t) + 1, Len(t))), t)
<1> DEFINE n == HeadLength(t)
           head == SubSeq(t, 1, n)
           extra == SubSeq(t, n + 1, Len(t))
           p == ConsumeRequest(NewRequestParser, head)
           next == FinishRequestHead(r, head, extra)
<1> SUFFICES Receives(next, t)
  OBVIOUS
<1>1. n \in Nat /\ n # 0 /\ n <= Len(t) /\ Len(t) \in Nat /\ FirstHeadEnd(t, n - 3)
      /\ n - 3 \in Nat
  BY HeadLengthIs, FindHead, TextType
<1>2. head \in Texts /\ Len(head) = n /\ \A i \in 1..n : head[i] = t[i]
  <2>1. /\ head \in Texts /\ Len(head) = IF 1 <= n THEN (n - 1) + 1 ELSE 0
        /\ \A i \in 1..((n - 1) + 1) : head[i] = t[(1 + i) - 1]
    <3>1. 1 \in Nat \ {0}
      OBVIOUS
    <3> HIDE DEF n
    <3> QED BY <1>1, <3>1, Cut
  <2> HIDE DEF head, n
  <2> QED BY <1>1, <2>1
<1>3. extra \in Texts /\ Len(extra) = Len(t) - n
  <2> HIDE DEF n
  <2>1. /\ extra \in Texts
        /\ Len(extra) = IF n + 1 <= Len(t) THEN (Len(t) - (n + 1)) + 1 ELSE 0
    <3>1. n + 1 \in Nat \ {0} /\ Len(t) <= Len(t)
      BY <1>1
    <3> QED BY <1>1, <3>1, Cut
  <2> HIDE DEF extra
  <2> QED BY <1>1, <2>1
<1>4. next = IF \/ p.status = "Error" \/ p.headerBytes = 0
                \/ Len(extra) > p.contentLength
             THEN Rejected(r)
             ELSE [r EXCEPT !.head = head, !.left = p.contentLength - Len(extra),
                            !.taken = Len(head) + Len(extra),
                            !.phase = IF Len(extra) = p.contentLength
                                      THEN "Complete" ELSE "Body"]
  BY Zenon DEF FinishRequestHead
<1> HIDE DEF head, extra, next, n
<1>5. Begins(head, t)
  BY <1>1, <1>2 DEF Begins
<1>6. HeadLength(head) = n
  <2>1. FirstHeadEnd(head, n - 3)
    BY <1>1, <1>2, <1>5, HeadGoesOn
  <2>2. Find(head, CRLF \o CRLF, 1) = n - 3
    BY <1>2, <2>1, HeadAt
  <2>3. n - 3 # 0
    BY <2>1 DEF FirstHeadEnd
  <2> QED BY <1>1, <1>2, <2>2, <2>3, HeadLengthIs
<1>7. \/ p.status = "Error" /\ Hopeless(head)
      \/ p.status # "Error" /\ HeadRead(p, head) /\ p.headerBytes # 0
  BY <1>1, <1>2, <1>6, HeadParsed
<1> HIDE DEF p
<1>8. CASE p.status = "Error"
  <2>1. Hopeless(t)
    BY <1>2, <1>5, <1>7, <1>8, HopelessStays
  <2> QED BY <1>4, <1>8, <2>1, RejectedType DEF Receives
<1>9. CASE p.status # "Error"
  <2>1. HeadRead(p, head) /\ p.headerBytes # 0
    BY <1>7, <1>9
  <2>2. HeadLength(head) # 0
    BY <1>1, <1>6
  <2>3. HasRequestHead(t) /\ Total(t) = n + p.contentLength /\ p.contentLength \in Nat
    <3>1. HasRequestHead(t) /\ RequestLength(t) = p.contentLength /\ HeadLength(t) = n
      BY <1>2, <1>5, <1>6, <2>1, <2>2, HeadStays DEF HeadRead, n
    <3> QED BY <3>1, HeadTypes DEF Total
  <2>4. CASE Len(extra) > p.contentLength
    <3>1. Len(t) > Total(t)
      BY <1>1, <1>3, <2>3, <2>4
    <3>2. Hopeless(t)
      BY <2>3, <3>1, TooMuchHopeless
    <3> QED BY <1>4, <2>4, <3>2, RejectedType DEF Receives
  <2>5. CASE ~(Len(extra) > p.contentLength)
    <3>1. next = [r EXCEPT !.head = head, !.left = p.contentLength - Len(extra),
                           !.taken = Len(head) + Len(extra),
                           !.phase = IF Len(extra) = p.contentLength
                                     THEN "Complete" ELSE "Body"]
      BY <1>4, <1>9, <2>1, <2>5
    <3>2. p.contentLength - Len(extra) = Total(t) - Len(t) /\ Total(t) - Len(t) \in Nat
          /\ Len(head) + Len(extra) = Len(t)
          /\ (Len(extra) = p.contentLength <=> Len(t) = Total(t))
      BY <1>1, <1>2, <1>3, <2>3, <2>5
    <3>3. /\ next \in ReceiverRecords /\ next.left = Total(t) - Len(t) /\ next.taken = Len(t)
          /\ next.phase = IF Len(t) = Total(t) THEN "Complete" ELSE "Body"
      <4> DEFINE left == p.contentLength - Len(extra)
                 taken == Len(head) + Len(extra)
                 phase == IF Len(extra) = p.contentLength THEN "Complete" ELSE "Body"
      <4>1. left \in Nat /\ taken \in Nat /\ phase \in Phases
        BY <1>1, <3>2 DEF Phases
      <4>2. left = Total(t) - Len(t) /\ phase = (IF Len(t) = Total(t) THEN "Complete" ELSE "Body")
            /\ taken = Len(t)
        BY <3>2
      <4>3. next = [r EXCEPT !.head = head, !.left = left, !.taken = taken, !.phase = phase]
        BY <3>1
      <4> HIDE DEF left, taken, phase
      <4>4. next \in ReceiverRecords /\ next.left = left /\ next.phase = phase
            /\ next.taken = taken
        BY <1>2, <4>1, <4>3 DEF ReceiverRecords
      <4> QED BY <4>2, <4>4
    <3> QED BY <1>1, <2>3, <3>2, <3>3 DEF Receives, Taking
  <2> QED BY <2>4, <2>5
<1> QED BY <1>8, <1>9

LEMMA ReadReceives ==
    ASSUME NEW r, NEW t \in Texts, NEW bytes \in Texts, Receives(r, t)
    PROVE  Receives(ReadRequest(r, bytes), t \o bytes)
<1> DEFINE u == t \o bytes
           next == ReadRequest(r, bytes)
<1> SUFFICES Receives(next, u)
  OBVIOUS
<1>1. u \in Texts /\ Len(u) = Len(t) + Len(bytes) /\ Begins(t, u)
      /\ Len(t) \in Nat /\ Len(bytes) \in Nat
  BY Joined, TextType
<1>2. r \in ReceiverRecords
  BY DEF Receives
<1> DEFINE capacity == IF r.phase = "Body" /\ r.left < Len(bytes) THEN r.left ELSE Len(bytes)
           some == SubSeq(bytes, 1, capacity)
<1>0. next = IF r.phase \in {"Head", "Body"} THEN AcceptRequestBytes(r, some) ELSE r
  BY Zenon DEF ReadRequest
<1>3. CASE r.phase = "Rejected"
  <2>1. next = r
    BY <1>0, <1>3
  <2>2. Hopeless(u)
    BY <1>1, <1>3, HopelessStays DEF Receives
  <2> HIDE DEF u, next
  <2> QED BY <1>2, <1>3, <2>1, <2>2 DEF Receives
<1>4. CASE r.phase = "Head"
  <2> DEFINE end == Find(u, CRLF \o CRLF, 1) + 3
  <2>1. r.head = t /\ r.taken = 0
    BY <1>4 DEF Receives
  <2>0. some = bytes
    BY <1>4, WholeCut
  <2>2. next = IF end = 3
               THEN IF Len(u) > MaxHeader THEN Rejected(r) ELSE [r EXCEPT !.head = u]
               ELSE IF end > MaxHeader THEN Rejected(r)
               ELSE FinishRequestHead(r, SubSeq(u, 1, end), SubSeq(u, end + 1, Len(u)))
    BY <1>0, <1>4, <2>0, <2>1 DEF AcceptRequestBytes
  <2>3. (end = 3 <=> HeadLength(u) = 0) /\ (end # 3 => end = HeadLength(u)) /\ end \in Nat
    <3>1. u \in Texts
      BY <1>1
    <3> HIDE DEF u
    <3> QED BY <3>1, HeadLengthIs, FindHead
  <2> HIDE DEF u, end, next
  <2>4. CASE end = 3 /\ Len(u) > MaxHeader
    <3>1. Hopeless(u)
      BY <1>1, <2>3, <2>4, NoHeadHopeless, SizeAssumption
    <3> QED BY <1>2, <2>1, <2>2, <2>4, <3>1, RejectedType DEF Receives
  <2>5. CASE end = 3 /\ ~(Len(u) > MaxHeader)
    <3>1. next = [r EXCEPT !.head = u]
      BY <2>2, <2>5
    <3>2. next \in ReceiverRecords /\ next.head = u /\ next.phase = "Head" /\ next.taken = 0
      BY <1>1, <1>2, <1>4, <2>1, <3>1 DEF ReceiverRecords
    <3> QED BY <2>3, <2>5, <3>2 DEF Receives
  <2>6. CASE end # 3 /\ end > MaxHeader
    <3>1. HeadLength(u) # 0 /\ ~HasRequestHead(u)
      BY <2>3, <2>6, SizeAssumption DEF HasRequestHead
    <3>2. Hopeless(u)
      BY <1>1, <3>1, BadHeadHopeless
    <3> QED BY <1>2, <2>1, <2>2, <2>6, <3>2, RejectedType DEF Receives
  <2>7. CASE end # 3 /\ ~(end > MaxHeader)
    <3>1. next = FinishRequestHead(r, SubSeq(u, 1, HeadLength(u)),
                                   SubSeq(u, HeadLength(u) + 1, Len(u)))
      BY <2>2, <2>3, <2>7
    <3> QED BY <1>1, <1>2, <2>1, <2>3, <2>7, <3>1, HeadFinished
  <2> QED BY <2>4, <2>5, <2>6, <2>7
<1>5. CASE r.phase = "Body"
  <2>1. HasRequestHead(t) /\ Len(t) < Total(t) /\ r.left = Total(t) - Len(t) /\ r.taken = Len(t)
    BY <1>5 DEF Receives, Taking
  <2>2. HasRequestHead(u) /\ Total(u) = Total(t) /\ Total(t) \in Nat
    BY <1>1, <2>1, HeadTypes, HeadStays
  <2>3. /\ capacity = (IF r.left < Len(bytes) THEN r.left ELSE Len(bytes))
        /\ capacity \in Nat /\ capacity <= Len(bytes) /\ capacity <= r.left
    BY <1>1, <1>5, <2>1, <2>2
  <2>4. Len(some) = capacity
    <3>1. 1 \in Nat \ {0}
      OBVIOUS
    <3>2. Len(some) = IF 1 <= capacity THEN (capacity - 1) + 1 ELSE 0
      <4> HIDE DEF capacity
      <4> QED BY <2>3, <3>1, Cut
    <3> HIDE DEF capacity, some
    <3> QED BY <2>3, <3>2
  <2> HIDE DEF some
  <2>5. next = IF Len(some) > r.left THEN Rejected(r)
               ELSE [r EXCEPT !.left = @ - Len(some), !.taken = @ + Len(some),
                              !.phase = IF Len(some) = r.left THEN "Complete" ELSE "Body"]
    BY <1>0, <1>5 DEF AcceptRequestBytes
  <2> HIDE DEF u, next, capacity
  <2>6. next = [r EXCEPT !.left = r.left - capacity, !.taken = r.taken + capacity,
                         !.phase = IF capacity = r.left THEN "Complete" ELSE "Body"]
    <3>1. ~(Len(some) > r.left)
      BY <1>1, <2>1, <2>2, <2>3, <2>4
    <3> QED BY <2>4, <2>5, <3>1
  <2> DEFINE left == r.left - capacity
             taken == r.taken + capacity
             phase == IF capacity = r.left THEN "Complete" ELSE "Body"
  <2>7. left \in Nat /\ taken \in Nat /\ phase \in Phases
    BY <1>1, <2>1, <2>2, <2>3 DEF Phases
  <2>8. next = [r EXCEPT !.left = left, !.taken = taken, !.phase = phase]
    BY <2>6
  <2>9. \/ phase = "Body" /\ Len(u) < Total(u) /\ left = Total(u) - Len(u) /\ taken = Len(u)
        \/ phase = "Complete" /\ Len(u) >= Total(u) /\ taken = Total(u)
    BY <1>1, <2>1, <2>2, <2>3
  <2> HIDE DEF left, taken, phase
  <2>10. next \in ReceiverRecords /\ next.left = left /\ next.taken = taken /\ next.phase = phase
    BY <1>2, <2>7, <2>8 DEF ReceiverRecords
  <2> QED BY <2>2, <2>9, <2>10 DEF Receives, Taking
<1>6. CASE r.phase = "Complete"
  <2>1. next = r
    BY <1>0, <1>6
  <2>2. HasRequestHead(t) /\ Len(t) >= Total(t) /\ r.taken = Total(t)
    BY <1>6 DEF Receives, Taking
  <2>3. HasRequestHead(u) /\ Total(u) = Total(t) /\ Total(t) \in Nat
    BY <1>1, <2>2, HeadTypes, HeadStays
  <2> HIDE DEF u, next
  <2>4. Len(u) >= Total(u)
    BY <1>1, <2>2, <2>3
  <2> QED BY <1>2, <1>6, <2>1, <2>2, <2>3, <2>4 DEF Receives, Taking
<1> QED BY <1>2, <1>3, <1>4, <1>5, <1>6 DEF ReceiverRecords, Phases

--------------------------------------------------------------------------------
(* The specification *)

\* Both have read what has been received of a request.
RequestsRead ==
    /\ message \in Messages
    /\ message.kind = "request" =>
         /\ read \in 0..Length
         /\ Reads(request, Received)
         /\ Receives(requestHead, Received)

LEMMA MessageType ==
    ASSUME message \in Messages
    PROVE  message.kind = "request" => message.bytes \in Texts /\ Length \in Nat
  BY StreamAssumption, TextType DEF Messages, Texts, Length

LEMMA ReadBegins == Init => RequestsRead
<1> SUFFICES ASSUME Init PROVE RequestsRead
  OBVIOUS
<1>1. message \in Messages /\ read = 0 /\ request = NewRequestParser
      /\ requestHead = NewRequestReceiver
  BY DEF Init
<1>2. ASSUME message.kind = "request"
      PROVE  read \in 0..Length /\ Received = <<>>
  <2>1. message.bytes \in Texts /\ Length \in Nat /\ Length = Len(message.bytes)
    BY <1>1, <1>2, MessageType DEF Length
  <2>2. SubSeq(message.bytes, 1, 0) \in Texts /\ Len(SubSeq(message.bytes, 1, 0)) = 0
    <3>1. 1 \in Nat \ {0} /\ 0 \in Nat /\ 0 <= Len(message.bytes) /\ ~(1 <= 0)
      BY <2>1
    <3> QED BY <2>1, <3>1, Cut
  <2> QED BY <1>1, <2>1, <2>2, EmptyText DEF Received
<1> QED BY <1>1, <1>2, NewParserReads, NewReceiverReceives DEF RequestsRead

\* The parser has a request whole where the session has, or would have, and the
\* session goes on where the parser refuses what is behind it.
LEMMA CompleteIsRequest ==
    ASSUME NEW t \in Texts, NEW p, NEW r, Reads(p, t), Receives(r, t)
    PROVE  /\ p.status = "MessageComplete" => r.phase = "Complete" /\ r.taken = Len(t)
           /\ r.phase = "Complete" => \/ p.status = "MessageComplete"
                                      \/ p.status = "Error" /\ r.taken < Len(t)
<1>1. HasRequestHead(t) => HeadLength(t) # 0 /\ Total(t) \in Nat
  BY HeadTypes
<1>2. Hopeless(t) => ~(HasRequestHead(t) /\ Len(t) = Total(t))
  BY RequestIs, BeginsItself DEF Hopeless
<1>3. p.status \in Statuses /\ p.headersParsed \in BOOLEAN /\ r.phase \in Phases
      /\ Len(t) \in Nat
  BY TextType DEF Reads, Receives, ParserRecords, ReceiverRecords
<1>4. ASSUME p.status = "MessageComplete"
      PROVE  r.phase = "Complete" /\ r.taken = Len(t)
  <2>1. HasRequestHead(t) /\ Len(t) = Total(t)
    BY <1>4 DEF Reads, Waits, HeadRead
  <2> QED BY <1>1, <1>2, <1>3, <2>1 DEF Receives, Taking
<1>5. ASSUME r.phase = "Complete"
      PROVE  \/ p.status = "MessageComplete"
             \/ p.status = "Error" /\ r.taken < Len(t)
  <2>1. HasRequestHead(t) /\ Len(t) >= Total(t) /\ r.taken = Total(t)
    BY <1>5 DEF Receives, Taking
  <2>2. ~Waits(p, t)
    BY <1>1, <1>3, <2>1 DEF Waits
  <2>3. p.status = "Error" => Hopeless(t)
    BY <2>2 DEF Reads
  <2>4. p.status \in {"MessageComplete", "Error"}
    BY <2>2 DEF Reads
  <2> QED BY <1>1, <1>2, <1>3, <2>1, <2>3, <2>4
<1> QED BY <1>4, <1>5

\* What the session has accepted is a request, whatever has come behind it.
LEMMA TakenIsRequest ==
    ASSUME NEW t \in Texts, HasRequestHead(t), NEW u \in Texts, Begins(u, t),
           Len(u) = Total(t)
    PROVE  IsRequest(u)
<1> DEFINE e == Find(t, CRLF \o CRLF, 1)
<1>1. HeadLength(t) # 0 /\ HeadLength(t) <= Total(t) /\ Total(t) \in Nat
  <2>1. RequestLength(t) \in Nat /\ HeadLength(t) \in Nat /\ HeadLength(t) # 0
    BY HeadTypes
  <2> QED BY <2>1 DEF Total
<1>2. FirstHeadEnd(t, e) /\ HeadLength(t) = e + 3 /\ e \in Nat
  BY <1>1, HeadLengthIs, FindHead
<1> HIDE DEF e
<1>3. FirstHeadEnd(u, e)
  BY <1>1, <1>2, HeadGoesOn
<1>4. Find(u, CRLF \o CRLF, 1) = e
  BY <1>3, HeadAt
<1>5. e # 0
  BY <1>3 DEF FirstHeadEnd
<1>6. HeadLength(u) # 0
  BY <1>4, <1>5, HeadLengthIs
<1>7. HasRequestHead(u) /\ Total(u) = Total(t)
  BY <1>6, HeadStays
<1> QED BY <1>7, RequestIs

LEMMA ReadGoesOn ==
    ASSUME RequestsRead, Undecided, NEW n \in Nat, ReceiveRequest(n)
    PROVE  RequestsRead'
<1>1. /\ message \in Messages /\ message.kind = "request" /\ read \in 0..Length
      /\ Reads(request, Received) /\ Receives(requestHead, Received)
      /\ message' = message /\ read' = read + n /\ read + n <= Length
      /\ request' = ConsumeRequest(request, Piece(n))
      /\ requestHead' = ReadRequest(requestHead, Piece(n))
  BY DEF RequestsRead, ReceiveRequest
<1>2. message.bytes \in Texts /\ Length \in Nat /\ Length = Len(message.bytes)
  BY <1>1, MessageType DEF Length
<1>3. Received \in Texts /\ Piece(n) \in Texts
  <2>1. 1 \in Nat \ {0} /\ read + 1 \in Nat \ {0} /\ read \in Nat /\ read + n \in Nat
        /\ read <= Len(message.bytes) /\ read + n <= Len(message.bytes)
    BY <1>1, <1>2
  <2> QED BY <1>2, <2>1, Cut DEF Received, Piece
<1>4. Received' = Received \o Piece(n)
  <2>1. read \in Nat /\ read + n \in Nat /\ read <= read + n /\ read + n <= Len(message.bytes)
    BY <1>1, <1>2
  <2>2. SubSeq(message.bytes, 1, read) \o SubSeq(message.bytes, read + 1, read + n)
          = SubSeq(message.bytes, 1, read + n)
    BY <1>2, <2>1, CutJoined
  <2> QED BY <1>1, <2>2 DEF Received, Piece
<1>5. Length' = Length
  BY <1>1 DEF Length
<1>6. request.status # "MessageComplete"
  <2>1. request.status = "NeedMoreData" \/ requestHead.phase \in {"Head", "Body"}
    BY <1>1 DEF Undecided
  <2> QED BY <1>1, <1>3, <2>1, CompleteIsRequest
<1>7. Reads(request', Received')
  BY <1>1, <1>3, <1>4, <1>6, ConsumeReads
<1>8. Receives(requestHead', Received')
  BY <1>1, <1>3, <1>4, ReadReceives
<1>9. read' \in 0..Length'
  BY <1>1, <1>2, <1>5
<1> QED BY <1>1, <1>7, <1>8, <1>9 DEF RequestsRead

LEMMA ReadKept == RequestsRead /\ [Next]_vars => RequestsRead'
<1> SUFFICES ASSUME RequestsRead, [Next]_vars PROVE RequestsRead'
  OBVIOUS
<1>1. ASSUME NEW n \in RecvSizes \cup {Length - read}, n > 0, ReceiveRequest(n), Undecided
      PROVE  RequestsRead'
  <2>1. message \in Messages /\ message.kind = "request" /\ read \in 0..Length
    BY <1>1 DEF RequestsRead, ReceiveRequest
  <2>2. n \in Nat
    BY <1>1, <2>1, MessageType, StreamAssumption
  <2> QED BY <1>1, <2>2, ReadGoesOn
<1>2. ASSUME NEW n \in RecvSizes \cup {Length - read}, ReceiveResponse(n)
      PROVE  RequestsRead'
  BY <1>2 DEF RequestsRead, ReceiveResponse
<1>3. ASSUME UpstreamCloses
      PROVE  RequestsRead'
  BY <1>3 DEF RequestsRead, UpstreamCloses
<1>4. ASSUME UNCHANGED vars
      PROVE  RequestsRead'
  BY <1>4 DEF RequestsRead, vars, Length, Received
<1> QED BY <1>1, <1>2, <1>3, <1>4 DEF Next

LEMMA PrefixIs ==
    ASSUME message.bytes \in Texts, NEW n \in 0..Length
    PROVE  /\ Prefix(n) \in Texts /\ Len(Prefix(n)) = n
           /\ \A i \in 1..n : Prefix(n)[i] = message.bytes[i]
<1>1. 1 \in Nat \ {0} /\ n \in Nat /\ n <= Len(message.bytes)
  BY TextType DEF Length
<1>2. /\ Prefix(n) \in Texts /\ Len(Prefix(n)) = IF 1 <= n THEN (n - 1) + 1 ELSE 0
      /\ \A i \in 1..((n - 1) + 1) : Prefix(n)[i] = message.bytes[(1 + i) - 1]
  BY <1>1, Cut DEF Prefix
<1> QED BY <1>1, <1>2

LEMMA PrefixBegins ==
    ASSUME message.bytes \in Texts, NEW n \in 0..Length, NEW m \in 0..n
    PROVE  Begins(Prefix(m), Prefix(n))
<1>1. m \in 0..Length /\ m <= n
  BY TextType DEF Length
<1> QED BY <1>1, PrefixIs DEF Begins

LEMMA VerdictFollows == RequestsRead => RequestVerdict
<1> SUFFICES ASSUME RequestsRead, message.kind = "request"
             PROVE  /\ request.status = "MessageComplete" => IsRequest(Received)
                    /\ request.status = "NeedMoreData" => ~IsRequest(Received)
                    /\ request.status = "Error" => \A n \in read..Length : ~IsRequest(Prefix(n))
  BY DEF RequestVerdict
<1>1. /\ message \in Messages /\ read \in 0..Length /\ Reads(request, Received)
      /\ message.bytes \in Texts /\ Length \in Nat /\ Length = Len(message.bytes)
  BY MessageType DEF RequestsRead, Length
<1>2. /\ Received \in Texts /\ Len(Received) = read
      /\ \A i \in 1..read : Received[i] = message.bytes[i]
  <2>1. 1 \in Nat \ {0} /\ read \in Nat /\ read <= Len(message.bytes)
    BY <1>1
  <2>2. /\ Received \in Texts /\ Len(Received) = IF 1 <= read THEN (read - 1) + 1 ELSE 0
        /\ \A i \in 1..((read - 1) + 1) : Received[i] = message.bytes[(1 + i) - 1]
    BY <1>1, <2>1, Cut DEF Received
  <2> QED BY <2>1, <2>2
<1>3. request.status = "MessageComplete" => IsRequest(Received)
  BY <1>1, <1>2, RequestIs DEF Reads, Waits, HeadRead
<1>4. request.status = "NeedMoreData" => ~IsRequest(Received)
  <2>1. HasRequestHead(Received) => HeadLength(Received) # 0 /\ Total(Received) \in Nat
    BY <1>2, HeadTypes
  <2> QED BY <1>1, <1>2, <2>1, RequestIs, TextType DEF Reads, Waits, ParserRecords
<1>5. ASSUME request.status = "Error", NEW n \in read..Length
      PROVE  ~IsRequest(Prefix(n))
  <2>1. 1 \in Nat \ {0} /\ n \in Nat /\ n <= Len(message.bytes) /\ read \in Nat
    BY <1>1
  <2>2. /\ Prefix(n) \in Texts /\ Len(Prefix(n)) = IF 1 <= n THEN (n - 1) + 1 ELSE 0
        /\ \A i \in 1..((n - 1) + 1) : Prefix(n)[i] = message.bytes[(1 + i) - 1]
    BY <1>1, <2>1, Cut DEF Prefix
  <2>3. Begins(Received, Prefix(n))
    BY <1>2, <2>1, <2>2 DEF Begins
  <2>4. Hopeless(Received)
    BY <1>1, <1>5 DEF Reads, Waits
  <2> QED BY <2>2, <2>3, <2>4 DEF Hopeless
<1> QED BY <1>3, <1>4, <1>5

LEMMA SameRequestsFollows == RequestsRead => SameRequests
<1> SUFFICES ASSUME RequestsRead, message.kind = "request"
             PROVE  /\ request.status = "MessageComplete" =>
                         requestHead.phase = "Complete" /\ requestHead.taken = read
                    /\ requestHead.phase = "Complete" =>
                         /\ IsRequest(Prefix(requestHead.taken))
                         /\ \/ request.status = "MessageComplete"
                            \/ request.status = "Error" /\ requestHead.taken < read
                    /\ requestHead.phase = "Rejected" =>
                         /\ requestHead.taken = 0
                         /\ \A n \in read..Length : ~IsRequest(Prefix(n))
  BY DEF SameRequests
<1>1. /\ message \in Messages /\ read \in 0..Length
      /\ Reads(request, Received) /\ Receives(requestHead, Received)
      /\ message.bytes \in Texts /\ Length \in Nat /\ Length = Len(message.bytes)
  BY MessageType DEF RequestsRead, Length
<1>2. Received = Prefix(read) /\ Received \in Texts /\ Len(Received) = read
  <2>1. Received = Prefix(read)
    BY DEF Received, Prefix
  <2> QED BY <1>1, <2>1, PrefixIs
<1>3. /\ request.status = "MessageComplete" =>
           requestHead.phase = "Complete" /\ requestHead.taken = read
      /\ requestHead.phase = "Complete" =>
           \/ request.status = "MessageComplete"
           \/ request.status = "Error" /\ requestHead.taken < read
  BY <1>1, <1>2, CompleteIsRequest
<1>4. ASSUME requestHead.phase = "Complete"
      PROVE  IsRequest(Prefix(requestHead.taken))
  <2>1. /\ HasRequestHead(Received) /\ read >= Total(Received)
        /\ requestHead.taken = Total(Received)
    BY <1>1, <1>2, <1>4 DEF Receives, Taking
  <2>2. Total(Received) \in 0..read
    BY <1>1, <1>2, <2>1, HeadTypes
  <2>3. Total(Received) \in 0..Length
    BY <1>1, <2>2
  <2>4. /\ Prefix(Total(Received)) \in Texts
        /\ Len(Prefix(Total(Received))) = Total(Received)
        /\ Begins(Prefix(Total(Received)), Received)
    BY <1>1, <1>2, <2>2, <2>3, PrefixIs, PrefixBegins
  <2> QED BY <1>2, <2>1, <2>4, TakenIsRequest
<1>5. ASSUME requestHead.phase = "Rejected"
      PROVE  requestHead.taken = 0 /\ \A n \in read..Length : ~IsRequest(Prefix(n))
  <2>1. Hopeless(Received) /\ requestHead.taken = 0
    BY <1>1, <1>5 DEF Receives
  <2>2. ASSUME NEW n \in read..Length
        PROVE  ~IsRequest(Prefix(n))
    <3>1. n \in 0..Length /\ read \in 0..n
      BY <1>1
    <3>2. Prefix(n) \in Texts /\ Begins(Received, Prefix(n))
      BY <1>1, <1>2, <3>1, PrefixIs, PrefixBegins
    <3> QED BY <2>1, <3>2 DEF Hopeless
  <2> QED BY <2>1, <2>2
<1> QED BY <1>3, <1>4, <1>5

\* RequestParser completes exactly on a whole request, wherever recv has cut it
\* (consume, request_parser.cpp), and rejects no beginning of one.
THEOREM RequestsDecided == Spec => []RequestVerdict
  BY ReadBegins, ReadKept, VerdictFollows, PTL DEF Spec

\* The parser that waits for the whole message and the session that streams it take
\* the same bytes for a request (read_client, finish_request_head,
\* accept_request_bytes): the session accepts nothing else and refuses nothing
\* that could have become one, and the parser refuses what the session accepts
\* only for what came behind it.
THEOREM RequestsAgree == Spec => []SameRequests
  BY ReadBegins, ReadKept, SameRequestsFollows, PTL DEF Spec

--------------------------------------------------------------------------------
(* The head of a response *)

LEMMA ModeCases ==
    ASSUME NEW method, NEW line, NEW fields
    PROVE  /\ ModeOf(method, line, fields) \in BodyModes
           /\ ModeOf(method, line, fields) = "ContentLength" =>
                FieldsNamed(fields, "Content-Length") # {}
<1> DEFINE mode == ModeOf(method, line, fields)
           none == WithoutBody(method, line)
           codings == FieldsNamed(fields, "Transfer-Encoding")
           lengths == FieldsNamed(fields, "Content-Length")
<1>1. mode = IF none THEN "NoBody"
             ELSE IF codings # {} THEN "Chunked"
             ELSE IF lengths # {} THEN "ContentLength"
             ELSE "CloseDelimited"
  BY Zenon DEF ModeOf
<1> HIDE DEF mode, none, codings, lengths
<1>2. mode \in BodyModes /\ (mode = "ContentLength" => lengths # {})
  BY <1>1 DEF BodyModes
<1> QED BY <1>2 DEF mode, lengths

\* What parse_decimal_size makes of every Content-Length is its exact value.
LEMMA ResponseLengthIs ==
    ASSUME NEW fields, ValidResponseFields(fields), \A i \in DOMAIN fields : fields[i] \in Texts,
           FieldsNamed(fields, "Content-Length") # {}
    PROVE  ResponseLength(fields) \in Nat /\ ExactLength(fields, ResponseLength(fields))
<1> DEFINE named == FieldsNamed(fields, "Content-Length")
           lengths == {DecimalSize(Tail(f)) : f \in named}
<1>1. /\ \A i \in DOMAIN fields : WellFormedField(fields[i])
      /\ NoSize \notin lengths
      /\ \A m, n \in lengths : m = n
  BY DEF ValidResponseFields
<1>2. \A f \in named : \E i \in DOMAIN fields : f = fields[i]
  BY DEF FieldsNamed
<1>3. \A i \in DOMAIN fields : FieldName(fields[i]) = "Content-Length" => fields[i] \in named
  BY DEF FieldsNamed
<1>4. ASSUME NEW f \in named
      PROVE  /\ DecimalSize(Tail(f)) \in Nat
             /\ DecimalSize(Tail(f)) = ExactSize(Tail(f), 10)
  <2>1. PICK i \in DOMAIN fields : f = fields[i]
    BY <1>2
  <2>2. Len(Tail(f)) \in Nat
    BY <1>1, <2>1, ValueType
  <2>3. 10 \in Nat
    OBVIOUS
  <2>4. ParsedSize(Tail(f), 10) # NoSize
    BY <1>1 DEF DecimalSize
  <2> QED BY <2>2, <2>3, <2>4, ParsedIsExact DEF DecimalSize
<1>5. ResponseLength(fields) = CHOOSE n \in lengths : TRUE
  BY DEF ResponseLength
<1>6. ResponseLength(fields) \in lengths
  <2>1. lengths # {}
    OBVIOUS
  <2> HIDE DEF lengths
  <2> QED BY <1>5, <2>1
<1> HIDE DEF named
<1>7. ResponseLength(fields) \in Nat
  BY <1>4, <1>6
<1>8. ASSUME NEW i \in DOMAIN fields, FieldName(fields[i]) = "Content-Length"
      PROVE  ExactSize(Tail(fields[i]), 10) = ResponseLength(fields)
  <2>1. fields[i] \in named
    BY <1>3, <1>8
  <2>2. DecimalSize(Tail(fields[i])) = ResponseLength(fields)
    BY <1>1, <1>6, <2>1
  <2> QED BY <1>4, <2>1, <2>2
<1> QED BY <1>7, <1>8 DEF ExactLength

ModeIn(method, t) == ModeOf(method, FirstLine(t), FieldsOf(t))
LengthIn(t) == ResponseLength(FieldsOf(t))

ResponseHead(method, t) ==
    /\ HeadLength(t) \in 1..MaxHeader
    /\ ValidStatusLine(FirstLine(t))
    /\ ValidResponseFields(FieldsOf(t))
    /\ ModeIn(method, t) = "ContentLength" => LengthIn(t) <= MaxBody

\* Where a response with this head ends: 0 if it does not by itself.
MessageEnd(method, t, longestLine) ==
    IF ModeIn(method, t) = "NoBody" THEN HeadLength(t)
    ELSE IF ModeIn(method, t) = "ContentLength" THEN HeadLength(t) + LengthIn(t)
    ELSE IF ModeIn(method, t) = "Chunked"
    THEN ChunkedLength(t, HeadLength(t) + 1, longestLine)
    ELSE 0

Response(method, t, longestLine) ==
    ResponseHead(method, t) /\ MessageEnd(method, t, longestLine) = Len(t)

ClosedResponse(method, t) ==
    /\ ResponseHead(method, t)
    /\ ModeIn(method, t) = "CloseDelimited"
    /\ Len(t) - HeadLength(t) <= MaxBody

LEMMA ResponseHeadTypes ==
    ASSUME NEW method, NEW t \in Texts, ResponseHead(method, t)
    PROVE  /\ HeadLength(t) \in 1..MaxHeader /\ HeadLength(t) <= Len(t)
           /\ ModeIn(method, t) \in BodyModes
           /\ ModeIn(method, t) = "ContentLength" =>
                LengthIn(t) \in 0..MaxBody /\ ExactLength(FieldsOf(t), LengthIn(t))
<1>1. HeadLength(t) \in 1..MaxHeader /\ MaxHeader \in Nat /\ MaxBody \in Nat
      /\ ValidResponseFields(FieldsOf(t))
  BY SizeAssumption DEF ResponseHead
<1>2. HeadLength(t) # 0
  BY <1>1
<1>3. HeadLength(t) <= Len(t)
  BY <1>2, HeadLengthIs
<1>4. \A i \in DOMAIN FieldsOf(t) : FieldsOf(t)[i] \in Texts
  BY <1>2, FieldsAreTexts
<1>5. ModeIn(method, t) \in BodyModes
      /\ (ModeIn(method, t) = "ContentLength" => FieldsNamed(FieldsOf(t), "Content-Length") # {})
  BY ModeCases DEF ModeIn
<1>6. ASSUME ModeIn(method, t) = "ContentLength"
      PROVE  LengthIn(t) \in 0..MaxBody /\ ExactLength(FieldsOf(t), LengthIn(t))
  <2>1. LengthIn(t) \in Nat /\ ExactLength(FieldsOf(t), LengthIn(t))
    BY <1>1, <1>4, <1>5, <1>6, ResponseLengthIs DEF LengthIn
  <2>2. LengthIn(t) <= MaxBody
    BY <1>6 DEF ResponseHead
  <2> QED BY <1>1, <2>1, <2>2
<1> QED BY <1>1, <1>3, <1>5, <1>6

LEMMA ResponseIs ==
    ASSUME NEW t \in Texts, NEW longestLine
    PROVE  /\ IsResponse(t, longestLine) <=> Response(message.method, t, longestLine)
           /\ IsClosedResponse(t) <=> ClosedResponse(message.method, t)
<1> DEFINE mode == ModeIn(message.method, t)
<1>1. HasResponseHead(t) <=> ResponseHead(message.method, t)
  <2>1. HasResponseHead(t) => ResponseHead(message.method, t)
    BY DEF HasResponseHead, ResponseHead, ResponseMode, ModeIn, LengthIn
  <2>2. ResponseHead(message.method, t) => HasResponseHead(t)
    <3>1. ResponseHead(message.method, t) =>
            (mode = "ContentLength" => ExactLength(FieldsOf(t), LengthIn(t)))
      BY ResponseHeadTypes
    <3> QED BY <3>1 DEF HasResponseHead, ResponseHead, ResponseMode, ModeIn, LengthIn
  <2> QED BY <2>1, <2>2
<1>2. ResponseMode(t) = mode
  BY DEF ResponseMode, ModeIn
<1>3. IsResponse(t, longestLine) <=>
        /\ HasResponseHead(t)
        /\ CASE mode = "NoBody" -> Len(t) = HeadLength(t)
             [] mode = "ContentLength" -> Len(t) = HeadLength(t) + LengthIn(t)
             [] mode = "Chunked" -> ChunkedLength(t, HeadLength(t) + 1, longestLine) = Len(t)
             [] OTHER -> FALSE
  BY <1>2, Zenon DEF IsResponse, LengthIn
<1>4. ResponseHead(message.method, t) => mode \in BodyModes /\ Len(t) # 0
  BY ResponseHeadTypes, TextType
<1>5. MessageEnd(message.method, t, longestLine) =
        IF mode = "NoBody" THEN HeadLength(t)
        ELSE IF mode = "ContentLength" THEN HeadLength(t) + LengthIn(t)
        ELSE IF mode = "Chunked" THEN ChunkedLength(t, HeadLength(t) + 1, longestLine)
        ELSE 0
  BY DEF MessageEnd
<1>6. IsClosedResponse(t) <=> ClosedResponse(message.method, t)
  BY <1>1, <1>2 DEF IsClosedResponse, ClosedResponse
<1> HIDE DEF mode
<1> DEFINE ends == CASE mode = "NoBody" -> Len(t) = HeadLength(t)
             [] mode = "ContentLength" -> Len(t) = HeadLength(t) + LengthIn(t)
             [] mode = "Chunked" -> ChunkedLength(t, HeadLength(t) + 1, longestLine) = Len(t)
             [] OTHER -> FALSE
<1>7. CASE mode = "NoBody"
  <2>1. ends <=> Len(t) = HeadLength(t)
    BY <1>7
  <2> QED BY <1>1, <1>3, <1>5, <1>6, <1>7, <2>1 DEF Response
<1>8. CASE mode = "ContentLength"
  <2>1. ends <=> Len(t) = HeadLength(t) + LengthIn(t)
    BY <1>8
  <2> QED BY <1>1, <1>3, <1>5, <1>6, <1>8, <2>1 DEF Response
<1>9. CASE mode = "Chunked"
  <2>1. ends <=> ChunkedLength(t, HeadLength(t) + 1, longestLine) = Len(t)
    BY <1>9
  <2> QED BY <1>1, <1>3, <1>5, <1>6, <1>9, <2>1 DEF Response
<1>10. CASE mode \notin {"NoBody", "ContentLength", "Chunked"}
  <2>1. ~ends
    BY <1>10
  <2> QED BY <1>1, <1>3, <1>4, <1>5, <1>6, <1>10, <2>1 DEF Response
<1> QED BY <1>7, <1>8, <1>9, <1>10

LEMMA ResponseHeadStays ==
    ASSUME NEW method, NEW t \in Texts, NEW u \in Texts, Begins(t, u), HeadLength(t) # 0
    PROVE  /\ ResponseHead(method, u) <=> ResponseHead(method, t)
           /\ HeadLength(u) = HeadLength(t) /\ LengthIn(u) = LengthIn(t)
           /\ ModeIn(method, u) = ModeIn(method, t)
  BY SameHead DEF ResponseHead, LengthIn, ModeIn

LEMMA EndStays ==
    ASSUME NEW method, NEW t \in Texts, NEW u \in Texts, Begins(t, u), NEW longestLine,
           ResponseHead(method, t)
    PROVE  LET end == MessageEnd(method, t, longestLine)
               fin == MessageEnd(method, u, longestLine)
           IN  /\ end # 0 => fin = end
               /\ fin # 0 /\ fin <= Len(t) => end = fin
<1>1. HeadLength(t) \in 1..MaxHeader /\ HeadLength(t) <= Len(t) /\ Len(t) \in Nat
      /\ MaxHeader \in Nat
  BY ResponseHeadTypes, TextType, SizeAssumption
<1>2. /\ HeadLength(u) = HeadLength(t) /\ LengthIn(u) = LengthIn(t)
      /\ ModeIn(method, u) = ModeIn(method, t)
  BY <1>1, ResponseHeadStays
<1> DEFINE c == ChunkedLength(t, HeadLength(t) + 1, longestLine)
           d == ChunkedLength(u, HeadLength(t) + 1, longestLine)
<1>3. (c # 0 => d = c) /\ (d # 0 /\ d <= Len(t) => c = d)
  <2>1. HeadLength(t) + 1 \in 1..(Len(t) + 1)
    BY <1>1
  <2> QED BY <2>1, LengthKept
<1> QED BY <1>2, <1>3 DEF MessageEnd

HasChunks(method, t) == ResponseHead(method, t) /\ ModeIn(method, t) = "Chunked"

\* No response has been received yet, whatever its lines may be, and a decoder has
\* not come to its end either.
Early(method, t) ==
    /\ \A b \in Texts, longestLine \in Int : Begins(b, t) => ~Response(method, b, longestLine)
    /\ HasChunks(method, t) => Unfinished(t, HeadLength(t) + 1, HeadLength(t), Len(t))

\* A decoder comes to the end of these bytes only where it may.
Decodable(method, u) ==
    HasChunks(method, u) =>
      \A k \in HeadLength(u)..Len(u) :
        After(u, HeadLength(u) + 1, k).state = "Complete" => Excused(u, k) \/ Len(u) > MaxMessage

\* The end of a body of a known length is not among these bytes.
Countable(method, u) ==
    /\ ResponseHead(method, u) /\ ModeIn(method, u) \in {"NoBody", "ContentLength"}
    /\ MessageEnd(method, u, 0) <= Len(u)
    => Len(u) > MaxMessage

\* Nothing that begins so is a response of an acceptable length, nor is it one for
\* a decoder or a count.
DoomedAt(method, u) ==
    /\ Response(method, u, MaxHeader - 2) => Len(u) > MaxMessage
    /\ ~ClosedResponse(method, u)
    /\ Decodable(method, u)
    /\ Countable(method, u)

Doomed(method, t) == \A u \in Texts : Begins(t, u) => DoomedAt(method, u)

LEMMA DoomedStays ==
    ASSUME NEW method, NEW t \in Texts, NEW u \in Texts, Begins(t, u), Doomed(method, t)
    PROVE  Doomed(method, u)
  BY BeginsOn DEF Doomed

LEMMA EndsBeforeHead ==
    ASSUME NEW method, NEW b \in Texts, NEW t \in Texts, Begins(b, t), NEW longestLine,
           Response(method, b, longestLine)
    PROVE  /\ HeadLength(t) # 0 /\ ResponseHead(method, t)
           /\ MessageEnd(method, t, longestLine) = Len(b) /\ Len(b) # 0
<1>1. ResponseHead(method, b) /\ MessageEnd(method, b, longestLine) = Len(b)
  BY DEF Response
<1>2. HeadLength(b) # 0 /\ Len(b) # 0
  BY <1>1, ResponseHeadTypes, TextType
<1> QED BY <1>1, <1>2, EndStays, ResponseHeadStays

LEMMA NoHeadEarly ==
    ASSUME NEW method, NEW t \in Texts, HeadLength(t) = 0
    PROVE  Early(method, t)
<1>1. ~ResponseHead(method, t)
  BY ResponseHeadTypes
<1> QED BY <1>1, EndsBeforeHead DEF Early, HasChunks

LEMMA EndlessEarly ==
    ASSUME NEW method, NEW t \in Texts,
           \A longestLine \in Int : \/ MessageEnd(method, t, longestLine) = 0
                                    \/ MessageEnd(method, t, longestLine) > Len(t),
           HasChunks(method, t) => Unfinished(t, HeadLength(t) + 1, HeadLength(t), Len(t))
    PROVE  Early(method, t)
<1> SUFFICES ASSUME NEW b \in Texts, NEW longestLine \in Int, Begins(b, t),
                    Response(method, b, longestLine)
             PROVE  FALSE
  BY DEF Early
<1>1. MessageEnd(method, t, longestLine) = Len(b) /\ Len(b) # 0
  BY EndsBeforeHead
<1>2. Len(b) \in Nat /\ Len(t) \in Nat /\ Len(b) <= Len(t)
  BY TextType DEF Begins
<1> QED BY <1>1, <1>2

--------------------------------------------------------------------------------
(* Why a beginning of a response is rejected *)

\* Nothing that begins so has the head of an acceptable response.
Headless(method, t) == \A u \in Texts : Begins(t, u) => ~ResponseHead(method, u)

LEMMA HeadlessDoomed ==
    ASSUME NEW method, NEW t, Headless(method, t)
    PROVE  Doomed(method, t)
  BY DEF Headless, Doomed, DoomedAt, Response, ClosedResponse, Decodable, Countable, HasChunks

LEMMA HeadlessStays ==
    ASSUME NEW method, NEW t \in Texts, NEW u \in Texts, Begins(t, u), Headless(method, t)
    PROVE  Headless(method, u)
  BY BeginsOn DEF Headless

LEMMA NoHeadAtAll ==
    ASSUME NEW method, NEW t \in Texts, HeadLength(t) = 0, Len(t) >= MaxHeader
    PROVE  Headless(method, t)
<1> SUFFICES ASSUME NEW u \in Texts, Begins(t, u), ResponseHead(method, u)
             PROVE  FALSE
  BY DEF Headless
<1> DEFINE e == Find(u, CRLF \o CRLF, 1)
<1>2. HeadLength(u) \in 1..MaxHeader /\ MaxHeader \in Nat /\ Len(t) \in Nat
  BY SizeAssumption, TextType DEF ResponseHead
<1>3. HeadLength(u) = e + 3 /\ FirstHeadEnd(u, e)
  BY <1>2, HeadLengthIs
<1>4. e \in Nat /\ e + 3 <= Len(t)
  BY <1>2, <1>3, FindHead
<1>5. FirstHeadEnd(t, e)
  BY <1>3, <1>4, HeadGoesOn
<1>6. Find(t, CRLF \o CRLF, 1) = e
  BY <1>5, HeadAt
<1>7. e # 0
  BY <1>5 DEF FirstHeadEnd
<1> QED BY <1>6, <1>7, HeadLengthIs

\* A first line stays what it is.
LEMMA FirstLineStays ==
    ASSUME NEW t \in Texts, NEW u \in Texts, Begins(t, u), Find(t, CRLF, 1) # 0
    PROVE  Find(u, CRLF, 1) = Find(t, CRLF, 1) /\ FirstLine(u) = FirstLine(t)
<1>1. 1 \in Nat \ {0}
  OBVIOUS
<1>2. Find(u, CRLF, 1) = Find(t, CRLF, 1) /\ LineOf(u, 1) = LineOf(t, 1)
  BY <1>1, LineKept
<1> QED BY <1>2 DEF LineOf, LineTo, FirstLine

LEMMA BadStatusNoHead ==
    ASSUME NEW method, NEW t \in Texts, Find(t, CRLF, 1) # 0, ~ValidStatusLine(FirstLine(t))
    PROVE  Headless(method, t)
  BY FirstLineStays DEF Headless, ResponseHead

LEMMA BadResponseNoHead ==
    ASSUME NEW method, NEW t \in Texts, HeadLength(t) # 0, ~ResponseHead(method, t)
    PROVE  Headless(method, t)
  BY ResponseHeadStays DEF Headless

LEMMA TooLongDoomed ==
    ASSUME NEW method, NEW t \in Texts, Len(t) > MaxMessage
    PROVE  Doomed(method, t)
<1> SUFFICES ASSUME NEW u \in Texts, Begins(t, u)
             PROVE  Len(u) > MaxMessage /\ ~ClosedResponse(method, u)
  BY DEF Doomed, DoomedAt, Decodable, Countable
<1>1. Len(u) \in Nat /\ Len(t) \in Nat /\ Len(t) <= Len(u) /\ MaxHeader \in Nat /\ MaxBody \in Nat
      /\ MaxMessage = MaxHeader + MaxBody
  BY TextType, SizeAssumption DEF Begins, MaxMessage
<1>2. ASSUME ClosedResponse(method, u)
      PROVE  FALSE
  <2>1. HeadLength(u) \in 1..MaxHeader /\ Len(u) - HeadLength(u) <= MaxBody
    BY <1>2 DEF ClosedResponse, ResponseHead
  <2> QED BY <1>1, <2>1
<1> QED BY <1>1, <1>2

LEMMA OverlongDoomed ==
    ASSUME NEW method, NEW t \in Texts, HeadLength(t) # 0, ModeIn(method, t) = "CloseDelimited",
           Len(t) - HeadLength(t) > MaxBody
    PROVE  Doomed(method, t)
<1> SUFFICES ASSUME NEW u \in Texts, Begins(t, u), ResponseHead(method, u)
             PROVE  /\ MessageEnd(method, u, MaxHeader - 2) # Len(u)
                    /\ ~(Len(u) - HeadLength(u) <= MaxBody)
                    /\ ModeIn(method, u) = "CloseDelimited"
  BY DEF Doomed, DoomedAt, Response, ClosedResponse, Decodable, Countable, HasChunks
<1>1. HeadLength(u) = HeadLength(t) /\ ModeIn(method, u) = "CloseDelimited"
  BY ResponseHeadStays
<1>2. HeadLength(u) \in 1..MaxHeader /\ HeadLength(u) <= Len(u)
  BY ResponseHeadTypes
<1>3. Len(u) \in Nat /\ Len(t) \in Nat /\ Len(t) <= Len(u) /\ MaxBody \in Nat /\ MaxHeader \in Nat
  BY TextType, SizeAssumption DEF Begins
<1>4. MessageEnd(method, u, MaxHeader - 2) = 0
  BY <1>1 DEF MessageEnd
<1> QED BY <1>1, <1>2, <1>3, <1>4

LEMMA ChunksDoomed ==
    ASSUME NEW method, NEW t \in Texts, HeadLength(t) # 0, ModeIn(method, t) = "Chunked",
           \A u \in Texts : Begins(t, u) => ChunkedLength(u, HeadLength(t) + 1, MaxHeader - 2) = 0,
           Unaccepted(t, HeadLength(t) + 1)
    PROVE  Doomed(method, t)
<1> SUFFICES ASSUME NEW u \in Texts, Begins(t, u), ResponseHead(method, u)
             PROVE  /\ MessageEnd(method, u, MaxHeader - 2) # Len(u)
                    /\ ModeIn(method, u) = "Chunked" /\ Decodable(method, u)
  BY DEF Doomed, DoomedAt, Response, ClosedResponse, Decodable, Countable, HasChunks
<1>1. HeadLength(u) = HeadLength(t) /\ ModeIn(method, u) = "Chunked"
  BY ResponseHeadStays
<1>2. HeadLength(u) \in 1..MaxHeader /\ HeadLength(u) <= Len(u) /\ Len(u) \in Nat /\ MaxHeader \in Nat
  BY ResponseHeadTypes, TextType, SizeAssumption
<1>3. MessageEnd(method, u, MaxHeader - 2) = 0
  BY <1>1 DEF MessageEnd
<1>4. Decodable(method, u)
  <2>1. (HeadLength(t) + 1) - 1 = HeadLength(t)
    BY <1>1, <1>2
  <2> QED BY <1>1, <2>1 DEF Decodable, Unaccepted
<1> QED BY <1>1, <1>2, <1>3, <1>4

--------------------------------------------------------------------------------
(* parse_chunked_body *)

ResponseRecords == [method: {"GET", "HEAD"}, status: Statuses, buffer: Texts, fieldsStart: Nat,
                    headersParsed: BOOLEAN, headerBytes: Nat, mode: BodyModes, contentLength: Nat,
                    messageBytes: Nat, chunkState: ChunkStates, position: Nat, trailersStart: Nat,
                    chunkSize: Nat, body: Texts]

Room(p) == MaxBody - Len(p.body)

\* Trailers that go on at position i and began at start end here, 0 if they do not
\* or are too long.
TrailersFrom(u, i, start) ==
    LET last == TrailerEnd(u, i) IN IF last = 0 \/ last - (start - 1) > MaxHeader THEN 0 ELSE last

\* Where the body ends in u for a parser in the state of p.
Rest(p, u, longestLine) ==
    IF p.chunkState = "SizeLine" THEN BodyEnd(u, longestLine, p.position, Room(p))
    ELSE IF p.chunkState = "Data"
    THEN IF ~ChunkEnds(u, p.position + p.chunkSize) THEN 0
         ELSE BodyEnd(u, longestLine, p.position + p.chunkSize + 2, Room(p) - p.chunkSize)
    ELSE TrailersFrom(u, p.position, p.trailersStart)

\* The rest is the rest of the body that begins at start, unless a line before has
\* been longer than longestLine.
Tracks(p, t, start) ==
    \A u \in Texts, longestLine \in Int :
      Begins(t, u) =>
        \/ ChunkedLength(u, start, longestLine) = Rest(p, u, longestLine)
        \/ ChunkedLength(u, start, longestLine) = 0 /\ longestLine # MaxMessage

Places(p, t) ==
    /\ p.position \in 1..(Len(t) + 1) /\ Len(p.body) <= MaxBody
    /\ p.chunkState = "Data" => p.chunkSize \in 1..Room(p)
    /\ p.chunkState = "Trailers" => p.trailersStart \in 1..p.position

Follows(p, t, start) ==
    /\ p.status = "NeedMoreData" /\ p.buffer = t
    /\ Places(p, t) /\ Tracks(p, t, start)

Refused(t, start) ==
    \A u \in Texts : Begins(t, u) => ChunkedLength(u, start, MaxHeader - 2) = 0

Ended(p, t, start) ==
    /\ p.messageBytes \in 1..Len(t) /\ ChunkedLength(t, start, MaxMessage) = p.messageBytes
    /\ Len(p.body) <= MaxBody

\* More bytes are needed.
Stuck(p, t) == \A longestLine \in Int : Rest(p, t, longestLine) = 0

\* A round of the loop leaves p behind, of which this is true.
Goes(p, t, start) ==
    /\ p \in ResponseRecords
    /\ \/ Follows(p, t, start)
       \/ p.status = "Error" /\ Refused(t, start)
       \/ p.status = "MessageComplete" /\ Ended(p, t, start)

SameFrame(p, q) ==
    /\ q.method = p.method /\ q.buffer = p.buffer /\ q.fieldsStart = p.fieldsStart
    /\ q.headersParsed = p.headersParsed /\ q.headerBytes = p.headerBytes
    /\ q.mode = p.mode /\ q.contentLength = p.contentLength

\* What a round does to p: it waits for more, or decides, or leads on.
Round(p, q, t, start) ==
    /\ Goes(q, t, start) /\ SameFrame(p, q)
    /\ \/ q = p /\ Stuck(p, t)
       \/ q.status # "NeedMoreData"
       \/ q.position > p.position

LEMMA RefusedRound ==
    ASSUME NEW p \in ResponseRecords, NEW t \in Texts, NEW start, Tracks(p, t, start),
           \A u \in Texts : Begins(t, u) => Rest(p, u, MaxHeader - 2) = 0
    PROVE  Round(p, ResponseError(p), t, start)
<1> DEFINE q == ResponseError(p)
<1>1. MaxHeader - 2 \in Int
  BY SizeAssumption
<1>2. Refused(t, start)
  BY <1>1 DEF Refused, Tracks
<1>3. q \in ResponseRecords /\ q.status = "Error" /\ SameFrame(p, q)
  BY DEF ResponseRecords, ResponseError, SameFrame, Statuses
<1> HIDE DEF q
<1>4. Goes(q, t, start) /\ q.status # "NeedMoreData"
  BY <1>2, <1>3 DEF Goes
<1>5. Round(p, q, t, start)
  BY <1>3, <1>4 DEF Round
<1> QED BY <1>5 DEF q

\* A size line that is there.
LEMMA SizeLineRest ==
    ASSUME NEW t \in Texts, NEW u \in Texts, Begins(t, u), NEW i \in 1..(Len(t) + 1),
           NEW room \in 0..MaxBody, NEW longestLine, Find(t, CRLF, i) # 0
    PROVE  LET line == LineOf(t, i)
               size == SizeOf(line)
               end == Find(t, CRLF, i)
               rest == BodyEnd(u, longestLine, i, room)
           IN  /\ end \in i..(Len(t) - 1) /\ size \in Nat
               /\ line = SubSeq(t, i, end - 1) /\ Len(line) <= Len(t)
               /\ size = NoSize \/ size > room => rest = 0
               /\ Len(line) > longestLine => rest = 0
               /\ size = 0 /\ ~(Len(line) > longestLine) => rest = BodyWithTrailers(u, end)
               /\ size \in 1..room /\ ~(Len(line) > longestLine) =>
                    rest = IF ~ChunkEnds(u, end + 2 + size) THEN 0
                           ELSE BodyEnd(u, longestLine, end + 2 + size + 2, room - size)
<1> DEFINE line == LineOf(t, i)
           size == SizeOf(line)
           end == Find(t, CRLF, i)
           rest == BodyEnd(u, longestLine, i, room)
<1>0. /\ Len(t) \in Nat /\ Len(u) \in Nat /\ Len(t) <= Len(u) /\ i \in Nat \ {0}
      /\ i \in 1..(Len(u) + 1) /\ MaxBody \in Nat /\ SizeMax \in Nat /\ MaxBody <= SizeMax
      /\ NoSize = SizeMax + 1
  <2>1. Len(t) \in Nat /\ Len(u) \in Nat /\ Len(t) <= Len(u)
    BY TextType DEF Begins
  <2>2. MaxBody \in Nat /\ SizeMax \in Nat /\ MaxHeader \in Nat /\ MaxHeader + MaxBody <= SizeMax
    BY SizeAssumption
  <2> QED BY <2>1, <2>2 DEF NoSize
<1>1. end \in i..(Len(t) - 1) /\ line \in Texts /\ Len(line) = end - i
  BY <1>0, LineOfType
<1>2. line = SubSeq(t, i, end - 1)
  BY DEF LineOf, LineTo
<1>3. Find(u, CRLF, i) = end /\ LineOf(u, i) = line
  BY <1>0, LineKept
<1>4. /\ size \in Nat
      /\ size # NoSize => IsSizeLine(line) /\ size = ExactSize(SizeText(line), 16)
      /\ size = NoSize /\ IsSizeLine(line) => ExactSize(SizeText(line), 16) > SizeMax
  BY <1>1, SizeLineRead
<1>5. SizeAt(u, i) = ExactSize(SizeText(line), 16)
  BY <1>3 DEF SizeAt
<1>6. SizeLineAt(u, longestLine, i) <=> ~(Len(line) > longestLine) /\ IsSizeLine(line)
  BY <1>3 DEF SizeLineAt
<1>7. DataEnd(u, i) = end + 2 + SizeAt(u, i)
  BY <1>3 DEF DataEnd
<1>8. rest = IF ~SizeLineAt(u, longestLine, i) THEN 0
             ELSE IF SizeAt(u, i) = 0 THEN BodyWithTrailers(u, end)
             ELSE IF SizeAt(u, i) > room \/ ~ChunkEnds(u, DataEnd(u, i)) THEN 0
             ELSE BodyEnd(u, longestLine, DataEnd(u, i) + 2, room - SizeAt(u, i))
  <2>1. rest = IF ~SizeLineAt(u, longestLine, i) THEN 0
             ELSE IF SizeAt(u, i) = 0 THEN BodyWithTrailers(u, Find(u, CRLF, i))
             ELSE IF SizeAt(u, i) > room \/ ~ChunkEnds(u, DataEnd(u, i)) THEN 0
             ELSE BodyEnd(u, longestLine, DataEnd(u, i) + 2, room - SizeAt(u, i))
    BY <1>0, BodyEndIs
  <2> QED BY <1>3, <2>1
<1>9. IsSizeLine(line) => SizeAt(u, i) \in Nat
  BY <1>1, <1>5, SizeLineType
<1> SUFFICES   /\ end \in i..(Len(t) - 1) /\ size \in Nat
               /\ line = SubSeq(t, i, end - 1) /\ Len(line) <= Len(t)
               /\ size = NoSize \/ size > room => rest = 0
               /\ Len(line) > longestLine => rest = 0
               /\ size = 0 /\ ~(Len(line) > longestLine) => rest = BodyWithTrailers(u, end)
               /\ size \in 1..room /\ ~(Len(line) > longestLine) =>
                    rest = IF ~ChunkEnds(u, end + 2 + size) THEN 0
                           ELSE BodyEnd(u, longestLine, end + 2 + size + 2, room - size)
  OBVIOUS
<1> DEFINE exact == SizeAt(u, i)
<1> HIDE DEF line, size, end, rest, exact
<1>10. /\ size = NoSize /\ IsSizeLine(line) => exact > SizeMax
       /\ size # NoSize => IsSizeLine(line) /\ size = exact
  BY <1>4, <1>5 DEF exact
<1>11. ASSUME size = NoSize \/ size > room
       PROVE  rest = 0
  <2>1. CASE ~IsSizeLine(line)
    BY <1>6, <1>8, <2>1
  <2>2. CASE IsSizeLine(line)
    <3>1. exact > room /\ exact # 0
      BY <1>0, <1>4, <1>9, <1>10, <1>11, <2>2 DEF exact
    <3> QED BY <1>8, <3>1 DEF exact
  <2> QED BY <2>1, <2>2
<1>12. ASSUME Len(line) > longestLine
       PROVE  rest = 0
  BY <1>6, <1>8, <1>12
<1>13. ASSUME size = 0, ~(Len(line) > longestLine)
       PROVE  rest = BodyWithTrailers(u, end)
  <2>1. size # NoSize
    BY <1>0, <1>13
  <2> QED BY <1>6, <1>8, <1>10, <1>13, <2>1 DEF exact
<1>14. ASSUME size \in 1..room, ~(Len(line) > longestLine)
       PROVE  rest = IF ~ChunkEnds(u, end + 2 + size) THEN 0
                     ELSE BodyEnd(u, longestLine, end + 2 + size + 2, room - size)
  <2>1. size # NoSize /\ size # 0 /\ ~(size > room)
    BY <1>0, <1>14
  <2>2. SizeLineAt(u, longestLine, i) /\ SizeAt(u, i) = size /\ DataEnd(u, i) = end + 2 + size
    BY <1>6, <1>7, <1>10, <1>14, <2>1 DEF exact
  <2> QED BY <1>8, <2>1, <2>2
<1>15. Len(line) <= Len(t)
  BY <1>0, <1>1
<1> QED BY <1>1, <1>2, <1>4, <1>11, <1>12, <1>13, <1>14, <1>15

--------------------------------------------------------------------------------
(* One round: a size line, a chunk, a trailer *)

\* A round of a parser that follows t; what it is given is the same in all three.
Rounds(p, t, start) ==
    /\ p \in ResponseRecords /\ t \in Texts /\ Len(t) <= MaxMessage /\ Follows(p, t, start)

LEMMA RoundTypes ==
    ASSUME NEW p, NEW t, NEW start, Rounds(p, t, start)
    PROVE  /\ p \in ResponseRecords /\ t \in Texts /\ Len(t) \in Nat /\ Len(t) <= MaxMessage
           /\ p.buffer = t /\ p.status = "NeedMoreData" /\ Tracks(p, t, start)
           /\ p.position \in 1..(Len(t) + 1) /\ p.position \in Nat \ {0}
           /\ p.body \in Texts /\ Len(p.body) \in Nat /\ Room(p) \in 0..MaxBody
           /\ p.chunkState = "Data" => p.chunkSize \in 1..Room(p)
           /\ p.chunkState = "Trailers" => p.trailersStart \in 1..p.position
           /\ MaxBody \in Nat /\ MaxHeader \in Nat /\ MaxMessage \in Nat
<1>1. /\ p \in ResponseRecords /\ t \in Texts /\ Len(t) <= MaxMessage
      /\ p.buffer = t /\ p.status = "NeedMoreData" /\ Tracks(p, t, start) /\ Places(p, t)
  BY DEF Rounds, Follows
<1>2. p.body \in Texts
  BY <1>1 DEF ResponseRecords
<1>3. Len(t) \in Nat /\ Len(p.body) \in Nat
  BY <1>1, <1>2, TextType
<1>4. MaxBody \in Nat /\ MaxHeader \in Nat /\ MaxMessage \in Nat
  BY SizeAssumption DEF MaxMessage
<1>5. Room(p) \in 0..MaxBody
  BY <1>1, <1>3, <1>4 DEF Places, Room
<1> QED BY <1>1, <1>2, <1>3, <1>4, <1>5 DEF Places

LEMMA StuckRound ==
    ASSUME NEW p, NEW t, NEW start, Rounds(p, t, start), Stuck(p, t)
    PROVE  Round(p, p, t, start)
  BY DEF Round, Goes, Rounds, SameFrame

\* What leads on follows the text at a later place.
LEMMA OnRound ==
    ASSUME NEW p, NEW t, NEW start, Rounds(p, t, start), NEW q \in ResponseRecords,
           SameFrame(p, q), q.status = "NeedMoreData", Places(q, t), q.position > p.position,
           \A u \in Texts, longestLine \in Int :
             Begins(t, u) =>
               \/ Rest(q, u, longestLine) = Rest(p, u, longestLine)
               \/ Rest(p, u, longestLine) = 0 /\ longestLine # MaxMessage
    PROVE  Round(p, q, t, start)
<1>1. Tracks(q, t, start)
  BY DEF Rounds, Follows, Tracks
<1>2. q.buffer = t
  BY DEF Rounds, Follows, SameFrame
<1> QED BY <1>1, <1>2 DEF Round, Goes, Follows

LEMMA SizeRound ==
    ASSUME NEW p, NEW t, NEW start, Rounds(p, t, start), p.chunkState = "SizeLine"
    PROVE  Round(p, ReadSizeLine(p), t, start)
<1> DEFINE i == p.position
           end == Find(t, CRLF, i)
           line == LineOf(t, i)
           size == SizeOf(line)
           room == Room(p)
           next == ReadSizeLine(p)
<1>0. /\ p \in ResponseRecords /\ t \in Texts /\ Len(t) \in Nat /\ Len(t) <= MaxMessage
      /\ p.buffer = t /\ p.status = "NeedMoreData" /\ Tracks(p, t, start)
      /\ i \in 1..(Len(t) + 1) /\ i \in Nat \ {0} /\ p.body \in Texts /\ Len(p.body) \in Nat
      /\ room \in 0..MaxBody /\ MaxBody \in Nat /\ MaxHeader \in Nat /\ MaxMessage \in Nat
  BY RoundTypes
<1>1. \A u \in Texts, longestLine \in Int :
        Rest(p, u, longestLine) = BodyEnd(u, longestLine, i, room)
  BY DEF Rest
<1>2. next = IF end = 0
             THEN IF Len(t) - (i - 1) >= MaxHeader THEN ResponseError(p) ELSE p
             ELSE IF size = NoSize THEN ResponseError(p)
             ELSE IF size = 0
             THEN [p EXCEPT !.chunkState = "Trailers", !.position = end + 2, !.trailersStart = end + 2]
             ELSE IF size > room THEN ResponseError(p)
             ELSE [p EXCEPT !.chunkState = "Data", !.position = end + 2, !.chunkSize = size]
  BY <1>0, Zenon DEF ReadSizeLine, LineOf, LineTo, Room
<1>3. ASSUME NEW u \in Texts, Begins(t, u), end # 0, NEW longestLine
      PROVE  /\ end \in i..(Len(t) - 1) /\ size \in Nat /\ Len(line) <= Len(t)
             /\ size = NoSize \/ size > room => BodyEnd(u, longestLine, i, room) = 0
             /\ Len(line) > longestLine => BodyEnd(u, longestLine, i, room) = 0
             /\ size = 0 /\ ~(Len(line) > longestLine) =>
                  BodyEnd(u, longestLine, i, room) = BodyWithTrailers(u, end)
             /\ size \in 1..room /\ ~(Len(line) > longestLine) =>
                  BodyEnd(u, longestLine, i, room) =
                    IF ~ChunkEnds(u, end + 2 + size) THEN 0
                    ELSE BodyEnd(u, longestLine, end + 2 + size + 2, room - size)
  <2>1. t \in Texts /\ i \in 1..(Len(t) + 1) /\ room \in 0..MaxBody /\ Find(t, CRLF, i) # 0
    BY <1>0, <1>3
  <2> HIDE DEF i, room
  <2> QED BY <1>3, <2>1, SizeLineRest
<1>4. end # 0 => end \in i..(Len(t) - 1) /\ size \in Nat /\ Len(line) <= Len(t) /\ Len(line) \in Nat
  <2>1. Begins(t, t)
    BY <1>0, BeginsItself
  <2>2. end # 0 => Len(line) \in Nat
    <3>1. end # 0 => line \in Texts
      BY <1>0, LineOfType
    <3> QED BY <3>1, TextType
  <2> QED BY <1>0, <1>3, <2>1, <2>2
<1> SUFFICES Round(p, next, t, start)
  OBVIOUS
<1> HIDE DEF i, end, line, size, room, next
<1>5. CASE end = 0 /\ Len(t) - (i - 1) >= MaxHeader
  <2>1. ASSUME NEW u \in Texts, Begins(t, u)
        PROVE  Rest(p, u, MaxHeader - 2) = 0
    <3>1. Len(u) \in Nat /\ Len(t) <= Len(u) /\ i \in 1..(Len(u) + 1) /\ MaxHeader - 2 \in Int
      BY <1>0, <2>1, TextType DEF Begins
    <3>2. ~SizeLineAt(u, MaxHeader - 2, i)
      <4>1. SUFFICES ASSUME SizeLineAt(u, MaxHeader - 2, i) PROVE FALSE
        OBVIOUS
      <4> DEFINE fin == Find(u, CRLF, i)
      <4>2. fin # 0 /\ ~(Len(LineOf(u, i)) > MaxHeader - 2)
        BY <4>1 DEF SizeLineAt
      <4>3. ~(fin < Len(t))
        BY <1>0, <1>5, <2>1, <4>2, LineKept DEF end
      <4>4. fin \in i..(Len(u) - 1) /\ Len(LineOf(u, i)) = fin - i
        BY <1>0, <4>2, LineOfType
      <4> HIDE DEF fin
      <4> QED BY <1>0, <1>5, <3>1, <4>2, <4>3, <4>4
    <3>3. BodyEnd(u, MaxHeader - 2, i, room) = 0
      BY <1>0, <3>1, <3>2, BodyEndIs
    <3> QED BY <1>1, <3>1, <3>3
  <2>2. next = ResponseError(p)
    BY <1>2, <1>5
  <2> QED BY <1>0, <2>1, <2>2, RefusedRound
<1>6. CASE end = 0 /\ ~(Len(t) - (i - 1) >= MaxHeader)
  <2>1. \A longestLine \in Int : Rest(p, t, longestLine) = 0
    <3>1. \A longestLine \in Int : ~SizeLineAt(t, longestLine, i)
      BY <1>6 DEF SizeLineAt, end
    <3> QED BY <1>0, <1>1, <3>1, BodyEndIs
  <2>2. next = p
    BY <1>2, <1>6
  <2> QED BY <2>1, <2>2, StuckRound DEF Stuck
<1>7. CASE end # 0 /\ (size = NoSize \/ (size # 0 /\ size > room))
  <2>1. next = ResponseError(p)
    BY <1>2, <1>7
  <2>2. ASSUME NEW u \in Texts, Begins(t, u)
        PROVE  Rest(p, u, MaxHeader - 2) = 0
    <3>1. MaxHeader - 2 \in Int
      BY <1>0
    <3>2. BodyEnd(u, MaxHeader - 2, i, room) = 0
      BY <1>3, <1>7, <2>2
    <3> QED BY <1>1, <3>1, <3>2
  <2> QED BY <1>0, <2>1, <2>2, RefusedRound
<1>8. CASE end # 0 /\ size # NoSize /\ size = 0
  <2>1. next = [p EXCEPT !.chunkState = "Trailers", !.position = end + 2, !.trailersStart = end + 2]
    BY <1>2, <1>8
  <2>2. /\ next \in ResponseRecords /\ SameFrame(p, next) /\ next.status = "NeedMoreData"
        /\ next.chunkState = "Trailers" /\ next.position = end + 2 /\ next.trailersStart = end + 2
        /\ next.body = p.body
    <3>1. end + 2 \in Nat
      BY <1>0, <1>4, <1>8
    <3> QED BY <1>0, <2>1, <3>1 DEF ResponseRecords, SameFrame, ChunkStates
  <2>3. Places(next, t) /\ next.position > p.position
    <3>1. Len(p.body) <= MaxBody
      BY <1>0 DEF room, Room
    <3>2. end + 2 \in 1..(Len(t) + 1) /\ end + 2 > i /\ end + 2 \in 1..(end + 2)
      BY <1>0, <1>4, <1>8
    <3> QED BY <2>2, <3>1, <3>2 DEF Places, i
  <2>4. ASSUME NEW u \in Texts, NEW longestLine \in Int, Begins(t, u)
        PROVE  \/ Rest(next, u, longestLine) = Rest(p, u, longestLine)
               \/ Rest(p, u, longestLine) = 0 /\ longestLine # MaxMessage
    <3>1. CASE Len(line) > longestLine
      <4>1. Rest(p, u, longestLine) = 0
        BY <1>1, <1>3, <1>8, <2>4, <3>1
      <4>2. longestLine # MaxMessage
        BY <1>0, <1>4, <1>8, <3>1
      <4> QED BY <4>1, <4>2
    <3>2. CASE ~(Len(line) > longestLine)
      <4>1. Rest(p, u, longestLine) = BodyWithTrailers(u, end)
        BY <1>1, <1>3, <1>8, <2>4, <3>2
      <4>2. Rest(next, u, longestLine) = TrailersFrom(u, end + 2, end + 2)
        BY <2>2 DEF Rest
      <4>3. (end + 2) - 1 = end + 1
        BY <1>0, <1>4, <1>8
      <4> QED BY <4>1, <4>2, <4>3 DEF BodyWithTrailers, TrailersFrom
    <3> QED BY <3>1, <3>2
  <2> QED BY <2>2, <2>3, <2>4, OnRound
<1>9. CASE end # 0 /\ size # NoSize /\ size # 0 /\ ~(size > room)
  <2>1. next = [p EXCEPT !.chunkState = "Data", !.position = end + 2, !.chunkSize = size]
    BY <1>2, <1>9
  <2>2. /\ next \in ResponseRecords /\ SameFrame(p, next) /\ next.status = "NeedMoreData"
        /\ next.chunkState = "Data" /\ next.position = end + 2 /\ next.chunkSize = size
        /\ next.body = p.body
    <3>1. end + 2 \in Nat /\ size \in Nat
      BY <1>0, <1>4, <1>9
    <3> QED BY <1>0, <2>1, <3>1 DEF ResponseRecords, SameFrame, ChunkStates
  <2>3. size \in 1..room /\ Room(next) = room
    <3>1. size \in Nat
      BY <1>4, <1>9
    <3> QED BY <1>0, <1>9, <2>2, <3>1 DEF room, Room
  <2>4. Places(next, t) /\ next.position > p.position
    <3>1. Len(p.body) <= MaxBody
      BY <1>0 DEF room, Room
    <3>2. end + 2 \in 1..(Len(t) + 1) /\ end + 2 > i
      BY <1>0, <1>4, <1>9
    <3> QED BY <2>2, <2>3, <3>1, <3>2 DEF Places, i
  <2>5. ASSUME NEW u \in Texts, NEW longestLine \in Int, Begins(t, u)
        PROVE  \/ Rest(next, u, longestLine) = Rest(p, u, longestLine)
               \/ Rest(p, u, longestLine) = 0 /\ longestLine # MaxMessage
    <3>1. CASE Len(line) > longestLine
      <4>1. Rest(p, u, longestLine) = 0
        BY <1>1, <1>3, <1>9, <2>5, <3>1
      <4>2. longestLine # MaxMessage
        BY <1>0, <1>4, <1>9, <3>1
      <4> QED BY <4>1, <4>2
    <3>2. CASE ~(Len(line) > longestLine)
      <4>1. Rest(p, u, longestLine) =
              IF ~ChunkEnds(u, end + 2 + size) THEN 0
              ELSE BodyEnd(u, longestLine, end + 2 + size + 2, room - size)
        BY <1>1, <1>3, <1>9, <2>3, <2>5, <3>2
      <4>2. Rest(next, u, longestLine) =
              IF ~ChunkEnds(u, end + 2 + size) THEN 0
              ELSE BodyEnd(u, longestLine, end + 2 + size + 2, room - size)
        BY <2>2, <2>3 DEF Rest
      <4> QED BY <4>1, <4>2
    <3> QED BY <3>1, <3>2
  <2> QED BY <2>2, <2>4, <2>5, OnRound
<1> QED BY <1>5, <1>6, <1>7, <1>8, <1>9

LEMMA DataRound ==
    ASSUME NEW p, NEW t, NEW start, Rounds(p, t, start), p.chunkState = "Data"
    PROVE  Round(p, ReadChunkData(p), t, start)
<1> DEFINE i == p.position
           size == p.chunkSize
           end == i + size
           room == Room(p)
           data == SubSeq(t, i, end - 1)
           next == ReadChunkData(p)
<1>0. /\ p \in ResponseRecords /\ t \in Texts /\ Len(t) \in Nat /\ Len(t) <= MaxMessage
      /\ p.buffer = t /\ p.status = "NeedMoreData" /\ Tracks(p, t, start)
      /\ i \in 1..(Len(t) + 1) /\ i \in Nat \ {0} /\ p.body \in Texts /\ Len(p.body) \in Nat
      /\ room \in 0..MaxBody /\ MaxBody \in Nat /\ MaxHeader \in Nat /\ MaxMessage \in Nat
      /\ size \in 1..room
  BY RoundTypes
<1>1. \A u \in Texts, longestLine \in Int :
        Rest(p, u, longestLine) = IF ~ChunkEnds(u, end) THEN 0
                                  ELSE BodyEnd(u, longestLine, end + 2, room - size)
  BY DEF Rest
<1>2. next = IF Len(t) < end + 1 THEN p
             ELSE IF SubSeq(t, end, end + 1) # CRLF THEN ResponseError(p)
             ELSE [p EXCEPT !.body = @ \o data, !.position = end + 2, !.chunkState = "SizeLine"]
  BY <1>0, Zenon DEF ReadChunkData
<1>3. end \in Nat \ {0} /\ end + 1 \in Nat /\ end - 1 \in Nat /\ end > i /\ end - 1 >= i
      /\ (end - 1) - i + 1 = size
  <2>1. i \in Nat \ {0} /\ size \in Nat \ {0} /\ end = i + size
    BY <1>0
  <2> HIDE DEF i, size, end
  <2> QED BY <2>1
<1> SUFFICES Round(p, next, t, start)
  OBVIOUS
<1>4. p.body \in Texts /\ room = MaxBody - Len(p.body) /\ p.chunkSize = size /\ p.position = i
  BY <1>0 DEF Room
<1> HIDE DEF i, size, end, room, next
<1>5. CASE Len(t) < end + 1
  <2>1. ~ChunkEnds(t, end)
    BY <1>0, <1>3, <1>5 DEF ChunkEnds
  <2>2. next = p
    BY <1>2, <1>5
  <2> QED BY <1>0, <1>1, <2>1, <2>2, StuckRound DEF Stuck
<1>6. ASSUME ~(Len(t) < end + 1), NEW u \in Texts, Begins(t, u)
      PROVE  ChunkEnds(u, end) <=> SubSeq(t, end, end + 1) = CRLF
  <2>1. SubSeq(t, end, end + 1) = SubSeq(u, end, end + 1)
    <3>1. end + 1 <= Len(t)
      BY <1>0, <1>3, <1>6
    <3> QED BY <1>0, <1>3, <1>6, <3>1, CutCommon
  <2>2. ~(end + 1 > Len(u))
    BY <1>0, <1>3, <1>6, TextType DEF Begins
  <2> QED BY <2>1, <2>2 DEF ChunkEnds
<1>7. CASE ~(Len(t) < end + 1) /\ SubSeq(t, end, end + 1) # CRLF
  <2>1. next = ResponseError(p)
    BY <1>2, <1>7
  <2>2. ASSUME NEW u \in Texts, Begins(t, u)
        PROVE  Rest(p, u, MaxHeader - 2) = 0
    <3>1. MaxHeader - 2 \in Int
      BY <1>0
    <3> QED BY <1>1, <1>6, <1>7, <2>2, <3>1
  <2> QED BY <1>0, <2>1, <2>2, RefusedRound
<1>8. CASE ~(Len(t) < end + 1) /\ SubSeq(t, end, end + 1) = CRLF
  <2>1. next = [p EXCEPT !.body = @ \o data, !.position = end + 2, !.chunkState = "SizeLine"]
    BY <1>2, <1>8
  <2>2. data \in Texts /\ Len(data) = size
    <3>1. end - 1 <= Len(t)
      BY <1>0, <1>3, <1>8
    <3>2. data \in Texts /\ Len(data) = IF i <= end - 1 THEN ((end - 1) - i) + 1 ELSE 0
      BY <1>0, <1>3, <3>1, Cut
    <3> HIDE DEF data
    <3> QED BY <1>0, <1>3, <3>2
  <2> DEFINE body == p.body \o data
  <2> HIDE DEF data
  <2>3. body \in Texts /\ Len(body) = Len(p.body) + size
    BY <1>0, <2>2, Joined
  <2>30. next = [p EXCEPT !.body = body, !.position = end + 2, !.chunkState = "SizeLine"]
    BY <2>1
  <2> HIDE DEF body
  <2>4. /\ next \in ResponseRecords /\ SameFrame(p, next) /\ next.status = "NeedMoreData"
        /\ next.chunkState = "SizeLine" /\ next.position = end + 2 /\ next.body = body
    <3>1. end + 2 \in Nat
      BY <1>3
    <3> QED BY <1>0, <2>3, <2>30, <3>1 DEF ResponseRecords, SameFrame, ChunkStates
  <2>5. Room(next) = room - size /\ Len(body) <= MaxBody
    <3>1. Len(p.body) \in Nat /\ MaxBody \in Nat /\ size \in Nat /\ size <= room
          /\ room = MaxBody - Len(p.body)
      BY <1>0, <1>4
    <3>2. Len(body) <= MaxBody /\ MaxBody - Len(body) = room - size
      BY <2>3, <3>1
    <3>3. Room(next) = MaxBody - Len(body)
      BY <2>4 DEF Room
    <3> QED BY <3>2, <3>3
  <2>6. Places(next, t) /\ next.position > p.position
    <3>1. end + 2 \in 1..(Len(t) + 1) /\ end + 2 > i
      BY <1>0, <1>3, <1>8
    <3> QED BY <1>4, <2>4, <2>5, <3>1 DEF Places
  <2>7. ASSUME NEW u \in Texts, NEW longestLine \in Int, Begins(t, u)
        PROVE  Rest(next, u, longestLine) = Rest(p, u, longestLine)
    <3>1. Rest(p, u, longestLine) = BodyEnd(u, longestLine, end + 2, room - size)
      BY <1>1, <1>6, <1>8, <2>7
    <3>2. Rest(next, u, longestLine) = BodyEnd(u, longestLine, end + 2, room - size)
      BY <2>4, <2>5 DEF Rest
    <3> QED BY <3>1, <3>2
  <2> QED BY <2>4, <2>6, <2>7, OnRound
<1> QED BY <1>5, <1>7, <1>8

LEMMA TrailerRound ==
    ASSUME NEW p, NEW t, NEW start, Rounds(p, t, start), p.chunkState = "Trailers"
    PROVE  Round(p, ReadTrailer(p), t, start)
<1> DEFINE i == p.position
           from == p.trailersStart
           end == Find(t, CRLF, i)
           line == LineOf(t, i)
           next == ReadTrailer(p)
<1>0. /\ p \in ResponseRecords /\ t \in Texts /\ Len(t) \in Nat /\ Len(t) <= MaxMessage
      /\ p.buffer = t /\ p.status = "NeedMoreData" /\ Tracks(p, t, start)
      /\ i \in 1..(Len(t) + 1) /\ i \in Nat \ {0}
      /\ MaxBody \in Nat /\ MaxHeader \in Nat /\ MaxMessage \in Nat
      /\ from \in 1..i /\ Len(p.body) <= MaxBody
  BY RoundTypes DEF Rounds, Follows, Places
<1>1. \A u \in Texts, longestLine \in Int :
        Rest(p, u, longestLine) = TrailersFrom(u, i, from)
  BY DEF Rest
<1>2. next = IF end = 0
             THEN IF Len(t) - (from - 1) >= MaxHeader THEN ResponseError(p) ELSE p
             ELSE IF end + 2 - from > MaxHeader THEN ResponseError(p)
             ELSE IF end = i THEN Completed(p, end + 1)
             ELSE IF ValidTrailer(line) THEN [p EXCEPT !.position = end + 2]
             ELSE ResponseError(p)
  BY <1>0, Zenon DEF ReadTrailer, LineOf, LineTo
<1>3. end # 0 => end \in i..(Len(t) - 1)
  BY <1>0, LineOfType
<1>4. ASSUME NEW u \in Texts, Begins(t, u)
      PROVE  /\ Len(u) \in Nat /\ Len(t) <= Len(u) /\ i \in 1..(Len(u) + 1)
             /\ (end # 0 => Find(u, CRLF, i) = end /\ LineOf(u, i) = line)
             /\ (Find(u, CRLF, i) # 0 => end = Find(u, CRLF, i) \/ Find(u, CRLF, i) >= Len(t))
             /\ TrailerEnd(u, i) = IF Find(u, CRLF, i) = 0 THEN 0
                                   ELSE IF Find(u, CRLF, i) = i THEN Find(u, CRLF, i) + 1
                                   ELSE IF ValidTrailer(LineOf(u, i))
                                   THEN TrailerEnd(u, Find(u, CRLF, i) + 2)
                                   ELSE 0
             /\ (TrailerEnd(u, i) = 0 \/ TrailerEnd(u, i) \in (i + 1)..Len(u))
             /\ (TrailerEnd(u, i) # 0 =>
                   Find(u, CRLF, i) # 0 /\ TrailerEnd(u, i) >= Find(u, CRLF, i) + 1)
  <2> DEFINE fin == Find(u, CRLF, i)
             last == TrailerEnd(u, i)
  <2>1. Len(u) \in Nat /\ Len(t) <= Len(u) /\ i \in 1..(Len(u) + 1)
    BY <1>0, <1>4, TextType DEF Begins
  <2>2. end # 0 => fin = end /\ LineOf(u, i) = line
    BY <1>0, <1>4, LineKept
  <2>3. fin # 0 /\ fin < Len(t) => end = fin
    BY <1>0, <1>4, LineKept
  <2>4. fin # 0 => fin \in i..(Len(u) - 1)
    BY <1>0, LineOfType
  <2>5. /\ last = IF fin = 0 THEN 0
                  ELSE IF fin = i THEN fin + 1
                  ELSE IF ValidTrailer(LineOf(u, i)) THEN TrailerEnd(u, fin + 2)
                  ELSE 0
        /\ (last = 0 \/ last \in (i + 1)..Len(u))
    BY <2>1, TrailerEndIs DEF LineOf
  <2>6. fin # 0 => TrailerEnd(u, fin + 2) = 0 \/ TrailerEnd(u, fin + 2) \in ((fin + 2) + 1)..Len(u)
    <3>1. fin # 0 => fin + 2 \in 1..(Len(u) + 1)
      BY <1>0, <2>1, <2>4
    <3> QED BY <3>1, TrailerEndIs
  <2> HIDE DEF fin, i, end, line, last
  <2>7. fin # 0 => end = fin \/ fin >= Len(t)
    BY <1>0, <2>1, <2>3, <2>4
  <2>8. last # 0 => fin # 0 /\ last >= fin + 1
    BY <1>0, <2>1, <2>4, <2>5, <2>6
  <2> QED BY <2>1, <2>2, <2>5, <2>7, <2>8 DEF fin, last
<1> SUFFICES Round(p, next, t, start)
  OBVIOUS
<1>40. p.trailersStart = from /\ p.position = i
  OBVIOUS
<1> HIDE DEF i, from, end, line, next
<1>5. ASSUME next = ResponseError(p),
             \A u \in Texts : Begins(t, u) =>
               TrailerEnd(u, i) = 0 \/ TrailerEnd(u, i) - (from - 1) > MaxHeader
      PROVE  Round(p, next, t, start)
  <2>1. MaxHeader - 2 \in Int
    BY <1>0
  <2>2. \A u \in Texts : Begins(t, u) => Rest(p, u, MaxHeader - 2) = 0
    BY <1>1, <1>5, <2>1 DEF TrailersFrom
  <2> QED BY <1>0, <1>5, <2>2, RefusedRound
<1>6. CASE end = 0 /\ Len(t) - (from - 1) >= MaxHeader
  <2>1. ASSUME NEW u \in Texts, Begins(t, u)
        PROVE  TrailerEnd(u, i) = 0 \/ TrailerEnd(u, i) - (from - 1) > MaxHeader
    <3>1. TrailerEnd(u, i) # 0 => Find(u, CRLF, i) >= Len(t) /\ TrailerEnd(u, i) >= Find(u, CRLF, i) + 1
      BY <1>4, <1>6, <2>1
    <3>2. Find(u, CRLF, i) \in Nat /\ TrailerEnd(u, i) \in Nat
      <4>1. TrailerEnd(u, i) = 0 \/ TrailerEnd(u, i) \in (i + 1)..Len(u)
        BY <1>4, <2>1
      <4> QED BY <1>0, <4>1, FindLine
    <3> QED BY <1>0, <1>6, <3>1, <3>2
  <2> QED BY <1>2, <1>5, <1>6, <2>1
<1>7. CASE end = 0 /\ ~(Len(t) - (from - 1) >= MaxHeader)
  <2>1. Begins(t, t)
    BY <1>0, BeginsItself
  <2>2. TrailerEnd(t, i) = 0
    BY <1>0, <1>4, <1>7, <2>1 DEF end
  <2>3. next = p
    BY <1>2, <1>7
  <2> QED BY <1>0, <1>1, <2>2, <2>3, StuckRound DEF Stuck, TrailersFrom
<1>8. CASE end # 0 /\ end + 2 - from > MaxHeader
  <2>1. ASSUME NEW u \in Texts, Begins(t, u)
        PROVE  TrailerEnd(u, i) = 0 \/ TrailerEnd(u, i) - (from - 1) > MaxHeader
    <3>1. TrailerEnd(u, i) # 0 => TrailerEnd(u, i) >= end + 1
      BY <1>4, <1>8, <2>1
    <3>2. TrailerEnd(u, i) = 0 \/ TrailerEnd(u, i) \in (i + 1)..Len(u)
      BY <1>4, <2>1
    <3> QED BY <1>0, <1>3, <1>8, <3>1, <3>2
  <2> QED BY <1>2, <1>5, <1>8, <2>1
<1>9. CASE end # 0 /\ ~(end + 2 - from > MaxHeader) /\ end = i
  <2>1. next = Completed(p, end + 1)
    BY <1>2, <1>9
  <2>2. next \in ResponseRecords /\ SameFrame(p, next) /\ next.status = "MessageComplete"
        /\ next.messageBytes = end + 1 /\ next.body = p.body
    <3>1. end + 1 \in Nat
      BY <1>0, <1>3, <1>9
    <3> QED BY <1>0, <2>1, <3>1 DEF ResponseRecords, SameFrame, Completed, Statuses
  <2>3. ChunkedLength(t, start, MaxMessage) = end + 1
    <3>1. Begins(t, t)
      BY <1>0, BeginsItself
    <3>2. TrailerEnd(t, i) = end + 1
      <4>1. Find(t, CRLF, i) = end
        BY DEF end
      <4> QED BY <1>0, <1>4, <1>9, <3>1, <4>1
    <3>3. end + 1 # 0 /\ ~((end + 1) - (from - 1) > MaxHeader)
      BY <1>0, <1>3, <1>9
    <3>4. MaxMessage \in Int
      BY <1>0
    <3>5. Rest(p, t, MaxMessage) = end + 1
      BY <1>0, <1>1, <3>2, <3>3, <3>4 DEF TrailersFrom
    <3> QED BY <1>0, <3>1, <3>4, <3>5 DEF Tracks
  <2>4. Ended(next, t, start)
    <3>1. end + 1 \in 1..Len(t)
      BY <1>0, <1>3, <1>9
    <3> QED BY <1>0, <2>2, <2>3, <3>1 DEF Ended
  <2> QED BY <2>2, <2>4 DEF Round, Goes
<1>10. CASE end # 0 /\ ~(end + 2 - from > MaxHeader) /\ end # i /\ ValidTrailer(line)
  <2>1. next = [p EXCEPT !.position = end + 2]
    BY <1>2, <1>10
  <2>2. /\ next \in ResponseRecords /\ SameFrame(p, next) /\ next.status = "NeedMoreData"
        /\ next.chunkState = "Trailers" /\ next.position = end + 2 /\ next.trailersStart = from
        /\ next.body = p.body
    <3>1. end + 2 \in Nat
      BY <1>0, <1>3, <1>10
    <3> QED BY <1>0, <1>40, <2>1, <3>1 DEF ResponseRecords, SameFrame
  <2>3. Places(next, t) /\ next.position > p.position
    <3>1. end + 2 \in 1..(Len(t) + 1) /\ end + 2 > i /\ from \in 1..(end + 2)
      BY <1>0, <1>3, <1>10
    <3> QED BY <1>0, <1>40, <2>2, <3>1 DEF Places
  <2>4. ASSUME NEW u \in Texts, NEW longestLine \in Int, Begins(t, u)
        PROVE  Rest(next, u, longestLine) = Rest(p, u, longestLine)
    <3>1. TrailerEnd(u, i) = TrailerEnd(u, end + 2)
      <4>1. Find(u, CRLF, i) = end /\ LineOf(u, i) = line
        BY <1>4, <1>10, <2>4
      <4> QED BY <1>4, <1>10, <2>4, <4>1
    <3>2. Rest(next, u, longestLine) = TrailersFrom(u, end + 2, from)
      BY <2>2 DEF Rest
    <3> QED BY <1>1, <3>1, <3>2 DEF TrailersFrom
  <2> QED BY <2>2, <2>3, <2>4, OnRound
<1>11. CASE end # 0 /\ ~(end + 2 - from > MaxHeader) /\ end # i /\ ~ValidTrailer(line)
  <2>1. ASSUME NEW u \in Texts, Begins(t, u)
        PROVE  TrailerEnd(u, i) = 0
    <3>1. Find(u, CRLF, i) = end /\ LineOf(u, i) = line
      BY <1>4, <1>11, <2>1
    <3> QED BY <1>4, <1>11, <2>1, <3>1
  <2> QED BY <1>2, <1>5, <1>11, <2>1
<1> QED BY <1>6, <1>7, <1>8, <1>9, <1>10, <1>11

\* One round of the loop.
LEMMA OneRound ==
    ASSUME NEW p, NEW t \in Texts, NEW start, Len(t) <= MaxMessage, Goes(p, t, start)
    PROVE  LET q == ChunkRound(p)
           IN  /\ Goes(q, t, start) /\ SameFrame(p, q)
               /\ \/ q = p /\ Stuck(p, t)
                  \/ q.status # "NeedMoreData"
                  \/ q.position > p.position
<1> DEFINE q == ChunkRound(p)
<1> SUFFICES Round(p, q, t, start)
  BY DEF Round
<1>1. CASE p.status # "NeedMoreData"
  <2>1. q = p
    BY <1>1, Zenon DEF ChunkRound
  <2> HIDE DEF q
  <2> QED BY <1>1, <2>1 DEF Round, SameFrame
<1>2. CASE p.status = "NeedMoreData"
  <2>1. Rounds(p, t, start) /\ p \in ResponseRecords
    BY <1>2 DEF Goes, Rounds
  <2>2. p.chunkState \in {"SizeLine", "Data", "Trailers"}
    BY <2>1 DEF ResponseRecords, ChunkStates
  <2>3. CASE p.chunkState = "SizeLine"
    <3>1. q = ReadSizeLine(p)
      BY <1>2, <2>3, Zenon DEF ChunkRound
    <3> QED BY <2>1, <2>3, <3>1, SizeRound
  <2>4. CASE p.chunkState = "Data"
    <3>1. q = ReadChunkData(p)
      <4>1. p.chunkState # "SizeLine" /\ p.chunkState # "Trailers"
        BY <2>4
      <4> QED BY <1>2, <2>4, <4>1, Zenon DEF ChunkRound
    <3> QED BY <2>1, <2>4, <3>1, DataRound
  <2>5. CASE p.chunkState = "Trailers"
    <3>1. q = ReadTrailer(p)
      <4>1. p.chunkState # "SizeLine" /\ p.chunkState # "Data"
        BY <2>5
      <4> QED BY <1>2, <2>5, <4>1, Zenon DEF ChunkRound
    <3> QED BY <2>1, <2>5, <3>1, TrailerRound
  <2> QED BY <2>2, <2>3, <2>4, <2>5
<1> QED BY <1>1, <1>2

LEMMA ErrorRecord ==
    ASSUME NEW p \in ResponseRecords
    PROVE  /\ ResponseError(p) \in ResponseRecords /\ ResponseError(p).status = "Error"
           /\ ResponseError(p).method = p.method /\ ResponseError(p).buffer = p.buffer
  BY DEF ResponseError, ResponseRecords, Statuses

LEMMA CompletedRecord ==
    ASSUME NEW p \in ResponseRecords, NEW n \in Nat
    PROVE  /\ Completed(p, n) \in ResponseRecords /\ Completed(p, n).status = "MessageComplete"
           /\ Completed(p, n).method = p.method /\ Completed(p, n).messageBytes = n
           /\ Completed(p, n).buffer = p.buffer
  BY DEF Completed, ResponseRecords, Statuses

--------------------------------------------------------------------------------
(* The decoder next to the parser *)

\* The decoder has read what the parser has taken, and is where it is.
Matches(p, t, start) ==
    /\ HeadLength(t) # 0 /\ start = HeadLength(t) + 1 /\ p.position >= start
    /\ Unfinished(t, start, start - 1, p.position - 1)
    /\ p.chunkState # "Data" => t[p.position - 1] = "LF"
    /\ p.chunkState = "Trailers" => LastChunk(t, p.trailersStart)
    /\ LET e == After(t, start, p.position - 1)
       IN  \/ e.state = "Error" /\ LongLine(t)
           \/ p.chunkState = "SizeLine" /\ Fresh(e, "SizeLine", Len(p.body))
           \/ /\ p.chunkState = "Data" /\ Fresh(e, "Data", Len(p.body) + p.chunkSize)
              /\ e.remaining = p.chunkSize
           \/ p.chunkState = "Trailers" /\ Fresh(e, "TrailerLine", Len(p.body))

Matched(p, t, start) ==
    /\ p.status = "NeedMoreData" => Matches(p, t, start)
    /\ p.status = "MessageComplete" => EndsAt(t, start, p.messageBytes)
    /\ p.status = "Error" => Unaccepted(t, start)

\* A round that changes nothing has read all there is.
MatchedRound(p, q, t, start) ==
    Matched(q, t, start) /\ (q = p => Unfinished(t, start, start - 1, Len(t)))

LEMMA MatchTypes ==
    ASSUME NEW p, NEW t, NEW start, Rounds(p, t, start), Matches(p, t, start)
    PROVE  /\ BodyAt(t, start) /\ start \in Nat \ {0} /\ HeadLength(t) # 0
           /\ HeadLength(t) \in Nat /\ start = HeadLength(t) + 1
           /\ p.position \in start..(Len(t) + 1)
           /\ p.position - 1 \in (start - 1)..Len(t)
           /\ Unfinished(t, start, start - 1, p.position - 1)
<1>1. /\ t \in Texts /\ Len(t) \in Nat /\ p.position \in 1..(Len(t) + 1) /\ HeadLength(t) # 0
      /\ HeadLength(t) \in Nat /\ HeadLength(t) <= Len(t) /\ start = HeadLength(t) + 1
      /\ p.position >= start
  BY RoundTypes, HeadLengthIs DEF Matches
<1>2. start \in Nat \ {0} /\ start <= Len(t) + 1 /\ p.position \in start..(Len(t) + 1)
      /\ p.position - 1 \in (start - 1)..Len(t)
  BY <1>1
<1> QED BY <1>1, <1>2 DEF BodyAt, Matches

\* A line at which the parser is, in a longer text.
LEMMA LineBehind ==
    ASSUME NEW p, NEW t, NEW start, Rounds(p, t, start), Matches(p, t, start),
           p.chunkState # "Data", NEW u \in Texts, Begins(t, u), Find(u, CRLF, p.position) # 0
    PROVE  p.position \in BodyLines(u)
<1> DEFINE i == p.position
<1>1. /\ i \in start..(Len(t) + 1) /\ start = HeadLength(t) + 1 /\ HeadLength(t) # 0
      /\ HeadLength(t) \in Nat /\ t[i - 1] = "LF" /\ t \in Texts
  BY MatchTypes, RoundTypes DEF Matches
<1>2. HeadLength(u) = HeadLength(t) /\ Len(t) \in Nat /\ Len(u) \in Nat
  BY <1>1, SameHead, TextType
<1>3. i - 1 \in 1..Len(t) /\ i \in Nat \ {0}
  BY <1>1, <1>2
<1>4. u[i - 1] = "LF"
  BY <1>1, <1>3 DEF Begins
<1>5. Find(u, CRLF, i) \in i..(Len(u) - 1)
  BY <1>3, LineOfType
<1>6. i \in (HeadLength(u) + 1)..Len(u)
  BY <1>1, <1>2, <1>5
<1> QED BY <1>4, <1>6 DEF BodyLines

\* A decoder that has given up stays so.
LEMMA GivenUp ==
    ASSUME NEW p, NEW t, NEW start, Rounds(p, t, start), Matches(p, t, start),
           After(t, start, p.position - 1).state = "Error"
    PROVE  /\ \A n \in (p.position - 1)..Len(t) : After(t, start, n).state = "Error"
           /\ Unfinished(t, start, start - 1, Len(t))
           /\ Unaccepted(t, start)
<1> DEFINE a == p.position - 1
<1>1. /\ BodyAt(t, start) /\ start \in Nat \ {0} /\ a \in (start - 1)..Len(t) /\ t \in Texts
      /\ Len(t) \in Nat /\ Unfinished(t, start, start - 1, a)
  BY MatchTypes, RoundTypes
<1> HIDE DEF a
<1>2. ASSUME NEW u \in Texts, Begins(t, u)
      PROVE  /\ \A n \in a..Len(u) : After(u, start, n).state = "Error"
             /\ Unfinished(u, start, start - 1, Len(u))
  <2>1. BodyAt(u, start) /\ Unfinished(u, start, start - 1, a) /\ a \in (start - 1)..Len(u)
        /\ Len(u) \in Nat
    BY <1>1, <1>2, BodyOn, UnfinishedOn, TextType DEF Begins
  <2>2. After(u, start, a).state = "Error"
    <3>1. a \in Nat /\ a <= Len(t)
      BY <1>1
    <3>2. After(t, start, a) = After(u, start, a)
      BY <1>1, <1>2, <3>1, AfterCommon
    <3> QED BY <3>2 DEF a
  <2>3. \A n \in (a + 1)..Len(u) : After(u, start, n).state = "Error"
    BY <2>1, <2>2, Absorbed
  <2>4. \A n \in a..Len(u) : n = a \/ n \in (a + 1)..Len(u)
    BY <1>1, <2>1
  <2>5. \A n \in a..Len(u) : After(u, start, n).state = "Error"
    BY <2>2, <2>3, <2>4
  <2>6. Unfinished(u, start, a, Len(u))
    BY <2>5 DEF Unfinished
  <2> QED BY <1>1, <2>1, <2>5, <2>6, UnfinishedJoins
<1>3. Begins(t, t)
  BY <1>1, BeginsItself
<1> QED BY <1>1, <1>2, <1>3 DEF Unaccepted, Unfinished, a

LEMMA LateEnd ==
    ASSUME NEW p, NEW t, NEW start, Rounds(p, t, start), Matches(p, t, start),
           NEW u \in Texts, Begins(t, u), NEW k \in (start - 1)..Len(u),
           After(u, start, k).state = "Complete"
    PROVE  /\ BodyAt(u, start) /\ k \in (p.position - 1)..Len(u)
           /\ p.position \in start..(Len(u) + 1)
           /\ After(u, start, p.position - 1) = After(t, start, p.position - 1)
<1> DEFINE a == p.position - 1
<1>1. /\ BodyAt(t, start) /\ start \in Nat \ {0} /\ p.position \in start..(Len(t) + 1)
      /\ a \in (start - 1)..Len(t) /\ Unfinished(t, start, start - 1, a) /\ t \in Texts
      /\ Len(t) \in Nat /\ Len(u) \in Nat /\ Len(t) <= Len(u)
  BY MatchTypes, RoundTypes, TextType DEF Begins
<1>2. BodyAt(u, start) /\ p.position \in start..(Len(u) + 1)
  BY <1>1, BodyOn
<1>3. After(t, start, a) = After(u, start, a)
  <2>1. a \in Nat /\ a <= Len(t)
    BY <1>1
  <2> QED BY <1>1, <2>1, AfterCommon
<1>4. Unfinished(u, start, start - 1, a)
  BY <1>1, UnfinishedOn
<1> HIDE DEF a
<1>5. k \in a..Len(u)
  <2>1. k \notin (start - 1)..a
    BY <1>4 DEF Unfinished
  <2> QED BY <1>1, <2>1
<1> QED BY <1>2, <1>3, <1>5 DEF a

\* The size line of the parser, which rejects what the decoder rejects too.
LEMMA SizeUnaccepted ==
    ASSUME NEW p, NEW t, NEW start, Rounds(p, t, start), Matches(p, t, start),
           p.chunkState = "SizeLine", Fresh(After(t, start, p.position - 1), "SizeLine", Len(p.body)),
           \/ Find(t, CRLF, p.position) = 0 /\ Len(t) - (p.position - 1) >= MaxHeader
           \/ /\ Find(t, CRLF, p.position) # 0
              /\ \/ SizeOf(LineOf(t, p.position)) = NoSize
                 \/ SizeOf(LineOf(t, p.position)) > Room(p)
    PROVE  Unaccepted(t, start)
<1> SUFFICES ASSUME NEW u \in Texts, Begins(t, u), NEW k \in (start - 1)..Len(u),
                    After(u, start, k).state = "Complete", ~Excused(u, k)
             PROVE  FALSE
  BY DEF Unaccepted
<1> DEFINE i == p.position
           end == Find(u, CRLF, i)
           line == LineOf(u, i)
           size == HexSize(SizeText(line))
<1>1. /\ BodyAt(u, start) /\ k \in (i - 1)..Len(u) /\ i \in start..(Len(u) + 1)
      /\ Fresh(After(u, start, i - 1), "SizeLine", Len(p.body))
  BY LateEnd
<1>2. /\ end # 0 /\ end \in i..(Len(u) - 1) /\ end + 1 <= k
      /\ ~Broken(u, i, end - 1) /\ ~(size > MaxBody - Len(p.body))
  BY <1>1, SizeLinePassed
<1>3. /\ t \in Texts /\ Len(t) \in Nat /\ Len(u) \in Nat /\ Len(t) <= Len(u) /\ i \in Nat \ {0}
      /\ MaxBody \in Nat /\ MaxHeader \in Nat /\ SizeMax \in Nat /\ MaxBody <= SizeMax
      /\ Room(p) \in 0..MaxBody /\ Room(p) = MaxBody - Len(p.body) /\ Len(p.body) \in Nat
  <2>1. MaxBody \in Nat /\ MaxHeader \in Nat /\ SizeMax \in Nat /\ MaxHeader + MaxBody <= SizeMax
    BY SizeAssumption
  <2>2. MaxBody <= SizeMax
    BY <2>1
  <2> QED BY <2>1, <2>2, RoundTypes, TextType DEF Begins, Room
<1>4. line \in Texts /\ Len(line) = end - i
  BY <1>2, <1>3, LineOfType
<1>5. Printable(line)
  BY <1>2, <1>3, LinePrints DEF Excused
<1>6. size \in Nat /\ SizeOf(line) = size
  BY <1>4, <1>5, HexType, PrintedSize
<1> HIDE DEF end, line, size, i
<1>7. size # NoSize /\ ~(size > Room(p))
  BY <1>2, <1>3, <1>6 DEF NoSize
<1>8. CASE Find(t, CRLF, i) # 0
  <2>1. LineOf(t, i) = line
    BY <1>3, <1>8, LineKept DEF line
  <2> QED BY <1>3, <1>6, <1>7, <1>8, <2>1 DEF i
<1>9. CASE Find(t, CRLF, i) = 0 /\ Len(t) - (i - 1) >= MaxHeader
  <2>1. ~(end < Len(t))
    BY <1>2, <1>3, <1>9, LineKept DEF end
  <2>2. Len(line) > MaxHeader - 2
    BY <1>2, <1>3, <1>4, <1>9, <2>1
  <2>3. i \in BodyLines(u)
    BY <1>2, LineBehind DEF end, i
  <2>4. IsSizeLine(line)
    BY <1>4, <1>6, <1>7, SizeLineRead
  <2>5. LongSizeLine(u, MaxHeader - 2)
    BY <2>2, <2>3, <2>4, BodyLineIs DEF LongSizeLine, line
  <2> QED BY <2>5 DEF Excused
<1> QED BY <1>8, <1>9 DEF i

\* A line that the parser takes, the decoder takes with it.
LEMMA LineTaken ==
    ASSUME NEW p, NEW t, NEW start, Rounds(p, t, start), Matches(p, t, start),
           p.chunkState # "Data", NEW end, end = Find(t, CRLF, p.position), end # 0
    PROVE  /\ end \in p.position..(Len(t) - 1) /\ p.position \in start..Len(t)
           /\ (end + 2) - 1 = end + 1 /\ end + 2 >= start /\ end + 2 # p.position
           /\ t[end + 1] = "LF" /\ p.position \in BodyLines(t)
           /\ LineOf(t, p.position) \in Texts /\ Len(LineOf(t, p.position)) = end - p.position
           /\ Unfinished(t, start, start - 1, end)
           /\ After(t, start, p.position - 1).state = "Error" =>
                After(t, start, end + 1).state = "Error"
<1> DEFINE i == p.position
           e == After(t, start, i - 1)
<1>1. /\ BodyAt(t, start) /\ start \in Nat \ {0} /\ i \in start..(Len(t) + 1)
      /\ Unfinished(t, start, start - 1, i - 1) /\ t \in Texts /\ Len(t) \in Nat /\ i \in Nat \ {0}
  BY MatchTypes, RoundTypes
<1>2. /\ end \in i..(Len(t) - 1) /\ LineEnd(t, end)
      /\ LineOf(t, i) \in Texts /\ Len(LineOf(t, i)) = end - i
  BY <1>1, LineOfType
<1>3. i \in BodyLines(t)
  BY <1>1, LineBehind, BeginsItself
<1> HIDE DEF i
<1>4. /\ i \in start..Len(t) /\ (end + 2) - 1 = end + 1 /\ end + 2 >= start /\ end + 2 # i
      /\ end + 1 \in (i - 1)..Len(t)
  BY <1>1, <1>2
<1>5. e.state = "Error" => /\ \A n \in (i - 1)..Len(t) : After(t, start, n).state = "Error"
                           /\ Unfinished(t, start, start - 1, Len(t))
  BY GivenUp DEF i
<1>6. Unfinished(t, start, start - 1, end)
  <2>1. CASE e.state = "Error"
    <3>1. \A n \in (start - 1)..end : n \in (start - 1)..Len(t)
      BY <1>1, <1>2
    <3> QED BY <1>5, <2>1, <3>1 DEF Unfinished
  <2>2. ASSUME NEW state \in LineStates, NEW decoded, Fresh(e, state, decoded)
        PROVE  Unfinished(t, start, start - 1, end)
    <3>1. Unfinished(t, start, i - 1, end)
      BY <1>1, <1>4, <2>2, LineDecoded DEF i
    <3>2. start - 1 \in Int /\ i - 1 \in Int /\ end \in Int
      BY <1>1, <1>2
    <3> QED BY <1>1, <3>1, <3>2, UnfinishedJoins
  <2>3. "SizeLine" \in LineStates /\ "TrailerLine" \in LineStates
    BY DEF LineStates
  <2> QED BY <2>1, <2>2, <2>3 DEF Matches, i
<1> QED BY <1>2, <1>3, <1>4, <1>5, <1>6 DEF LineEnd, i

\* A line that is not there yet leaves the body unfinished.
LEMMA LineMissing ==
    ASSUME NEW p, NEW t, NEW start, Rounds(p, t, start), Matches(p, t, start),
           p.chunkState # "Data", Find(t, CRLF, p.position) = 0
    PROVE  Unfinished(t, start, start - 1, Len(t))
<1> DEFINE i == p.position
           e == After(t, start, i - 1)
<1>1. /\ BodyAt(t, start) /\ start \in Nat \ {0} /\ i \in start..(Len(t) + 1)
      /\ Unfinished(t, start, start - 1, i - 1) /\ Len(t) \in Nat
  BY MatchTypes, RoundTypes
<1>2. e.state = "Error" => Unfinished(t, start, start - 1, Len(t))
  BY GivenUp
<1> HIDE DEF i
<1>3. ASSUME NEW state \in LineStates, NEW decoded, Fresh(e, state, decoded)
      PROVE  Unfinished(t, start, start - 1, Len(t))
  <2>1. Unfinished(t, start, i - 1, Len(t))
    BY <1>1, <1>3, LineWaited DEF i
  <2>2. start - 1 \in Int /\ i - 1 \in Int /\ Len(t) \in Int
    BY <1>1
  <2> QED BY <1>1, <2>1, <2>2, UnfinishedJoins
<1>4. "SizeLine" \in LineStates /\ "TrailerLine" \in LineStates
  BY DEF LineStates
<1> QED BY <1>2, <1>3, <1>4 DEF Matches, i

\* One byte more.
LEMMA UnfinishedNext ==
    ASSUME NEW t, NEW start \in Nat, NEW n \in Nat, Unfinished(t, start, start - 1, n),
           After(t, start, n + 1).state # "Complete"
    PROVE  Unfinished(t, start, start - 1, n + 1)
<1>1. \A k \in (start - 1)..(n + 1) : k = n + 1 \/ k \in (start - 1)..n
  OBVIOUS
<1> QED BY <1>1 DEF Unfinished

\* A size line that the parser takes.
LEMMA SizeAccepted ==
    ASSUME NEW p, NEW t, NEW start, Rounds(p, t, start), Matches(p, t, start),
           p.chunkState = "SizeLine", NEW end, end = Find(t, CRLF, p.position), end # 0,
           NEW size, size = SizeOf(LineOf(t, p.position)), size # NoSize, ~(size > Room(p))
    PROVE  /\ size \in Nat
           /\ size = 0 => LastChunk(t, end + 2)
           /\ \/ After(t, start, end + 1).state = "Error" /\ LongLine(t)
              \/ size = 0 /\ Fresh(After(t, start, end + 1), "TrailerLine", Len(p.body))
              \/ /\ size # 0 /\ Fresh(After(t, start, end + 1), "Data", Len(p.body) + size)
                 /\ After(t, start, end + 1).remaining = size
<1> DEFINE i == p.position
           line == LineOf(t, i)
           decoded == Len(p.body)
           e == After(t, start, i - 1)
           f == After(t, start, end + 1)
           hex == HexSize(SizeText(line))
<1>1. /\ end \in i..(Len(t) - 1) /\ i \in start..Len(t) /\ i \in BodyLines(t)
      /\ line \in Texts /\ Len(line) = end - i
      /\ e.state = "Error" => f.state = "Error"
  BY LineTaken
<1>2. /\ BodyAt(t, start) /\ t \in Texts /\ Room(p) = MaxBody - decoded /\ i \in Nat \ {0}
      /\ Len(t) \in Nat
  BY MatchTypes, RoundTypes DEF Room
<1>3. (e.state = "Error" /\ LongLine(t)) \/ Fresh(e, "SizeLine", decoded)
  BY DEF Matches
<1>4. IsSizeLine(line) /\ size = ExactSize(SizeText(line), 16) /\ size \in Nat
  BY <1>1, SizeLineRead
<1>5. Printable(line)
  BY <1>4 DEF IsSizeLine
<1>6. hex = size
  BY <1>1, <1>5, PrintedSize
<1>7. ~Broken(t, i, end - 1)
  BY <1>2, <1>5, LinePrints
<1>8. Len(line) > MaxLine => LongLine(t)
  BY <1>1, <1>4, BodyLineIs DEF LongLine, LongSizeLine
<1>9. size = 0 => LastChunk(t, end + 2)
  BY <1>1, <1>4, BodyLineIs DEF LastChunk
<1>10. CASE e.state = "Error" /\ LongLine(t)
  BY <1>1, <1>4, <1>9, <1>10
<1>11. CASE Fresh(e, "SizeLine", decoded)
  <2>1. \/ /\ f.state = "Error"
           /\ Broken(t, i, end - 1) \/ Len(line) > MaxLine \/ hex > MaxBody - decoded
        \/ hex = 0 /\ Fresh(f, "TrailerLine", decoded)
        \/ hex # 0 /\ Fresh(f, "Data", decoded + hex) /\ f.remaining = hex
    <3> HIDE DEF i, decoded
    <3>1. Find(t, CRLF, i) # 0 /\ Find(t, CRLF, i) = end
      BY DEF i
    <3>2. BodyAt(t, start) /\ i \in start..Len(t) /\ Fresh(After(t, start, i - 1), "SizeLine", decoded)
      BY <1>1, <1>2, <1>11
    <3>3. LET end2 == Find(t, CRLF, i)
               line2 == LineOf(t, i)
               size2 == HexSize(SizeText(line2))
               e2 == After(t, start, end2 + 1)
           IN  \/ /\ e2.state = "Error"
                  /\ Broken(t, i, end2 - 1) \/ Len(line2) > MaxLine \/ size2 > MaxBody - decoded
               \/ /\ ~Broken(t, i, end2 - 1) /\ ~(size2 > MaxBody - decoded)
                  /\ size2 = 0 /\ Fresh(e2, "TrailerLine", decoded)
               \/ /\ ~Broken(t, i, end2 - 1) /\ ~(size2 > MaxBody - decoded)
                  /\ size2 # 0 /\ Fresh(e2, "Data", decoded + size2) /\ e2.remaining = size2
      BY <3>1, <3>2, SizeLineDecoded
    <3> QED BY <3>1, <3>3
  <2> HIDE DEF f, hex, line, decoded, i, e
  <2>2. ~(hex > MaxBody - decoded)
    BY <1>2, <1>6 DEF decoded
  <2>3. \/ f.state = "Error" /\ LongLine(t)
        \/ size = 0 /\ Fresh(f, "TrailerLine", decoded)
        \/ size # 0 /\ Fresh(f, "Data", decoded + size) /\ f.remaining = size
    BY <1>6, <1>7, <1>8, <2>1, <2>2
  <2> QED BY <1>4, <1>9, <2>3 DEF f, decoded
<1> QED BY <1>3, <1>10, <1>11

LEMMA SizeMatches ==
    ASSUME NEW p, NEW t, NEW start, Rounds(p, t, start), Matches(p, t, start),
           p.chunkState = "SizeLine"
    PROVE  MatchedRound(p, ReadSizeLine(p), t, start)
<1> DEFINE i == p.position
           end == Find(t, CRLF, i)
           size == SizeOf(LineOf(t, i))
           e == After(t, start, i - 1)
           f == After(t, start, end + 1)
           next == ReadSizeLine(p)
<1>0. /\ p \in ResponseRecords /\ p.buffer = t /\ p.status = "NeedMoreData"
      /\ start \in Nat \ {0} /\ HeadLength(t) # 0 /\ start = HeadLength(t) + 1
  BY RoundTypes, MatchTypes
<1>1. next = IF end = 0
             THEN IF Len(t) - (i - 1) >= MaxHeader THEN ResponseError(p) ELSE p
             ELSE IF size = NoSize THEN ResponseError(p)
             ELSE IF size = 0
             THEN [p EXCEPT !.chunkState = "Trailers", !.position = end + 2, !.trailersStart = end + 2]
             ELSE IF size > Room(p) THEN ResponseError(p)
             ELSE [p EXCEPT !.chunkState = "Data", !.position = end + 2, !.chunkSize = size]
  BY <1>0, Zenon DEF ReadSizeLine, LineOf, LineTo, Room
<1>2. (e.state = "Error" /\ LongLine(t)) \/ Fresh(e, "SizeLine", Len(p.body))
  BY DEF Matches
<1>3. ResponseError(p).status = "Error" /\ ResponseError(p) # p
  BY <1>0, ErrorRecord
<1>4. end # 0 => /\ (end + 2) - 1 = end + 1 /\ end + 2 >= start /\ end + 2 # i
                 /\ t[end + 1] = "LF" /\ end \in Nat
                 /\ Unfinished(t, start, start - 1, end)
  <2>1. i \in Nat
    BY RoundTypes
  <2> QED BY <2>1, LineTaken
<1>5. end # 0 /\ size # NoSize /\ ~(size > Room(p)) =>
        /\ size = 0 => LastChunk(t, end + 2)
        /\ \/ f.state = "Error" /\ LongLine(t)
           \/ size = 0 /\ Fresh(f, "TrailerLine", Len(p.body))
           \/ size # 0 /\ Fresh(f, "Data", Len(p.body) + size) /\ f.remaining = size
  BY SizeAccepted
<1>6. ASSUME Fresh(e, "SizeLine", Len(p.body)),
             \/ end = 0 /\ Len(t) - (i - 1) >= MaxHeader
             \/ end # 0 /\ (size = NoSize \/ size > Room(p))
      PROVE  Unaccepted(t, start)
  BY <1>6, SizeUnaccepted
<1>7. e.state = "Error" => Unaccepted(t, start)
  BY GivenUp
<1>8. end = 0 => Unfinished(t, start, start - 1, Len(t))
  BY LineMissing
<1>9. Room(p) \in Nat
  BY RoundTypes DEF Room
<1> SUFFICES MatchedRound(p, next, t, start)
  OBVIOUS
<1> HIDE DEF next, i, end, size, e, f
<1>10. CASE end = 0 /\ Len(t) - (i - 1) >= MaxHeader
  <2>1. next = ResponseError(p)
    BY <1>1, <1>10
  <2>2. Unaccepted(t, start)
    BY <1>2, <1>6, <1>7, <1>10
  <2> QED BY <1>3, <2>1, <2>2 DEF MatchedRound, Matched
<1>11. CASE end = 0 /\ ~(Len(t) - (i - 1) >= MaxHeader)
  <2>1. next = p
    BY <1>1, <1>11
  <2> QED BY <1>0, <1>8, <1>11, <2>1 DEF MatchedRound, Matched
<1>12. CASE end # 0 /\ (size = NoSize \/ (size # 0 /\ size > Room(p)))
  <2>1. next = ResponseError(p)
    BY <1>1, <1>12
  <2>2. Unaccepted(t, start)
    BY <1>2, <1>6, <1>7, <1>12
  <2> QED BY <1>3, <2>1, <2>2 DEF MatchedRound, Matched
<1>13. CASE end # 0 /\ size # NoSize /\ size = 0
  <2>1. next = [p EXCEPT !.chunkState = "Trailers", !.position = end + 2, !.trailersStart = end + 2]
    BY <1>1, <1>13
  <2>2. /\ next.chunkState = "Trailers" /\ next.position = end + 2 /\ next.trailersStart = end + 2
        /\ next.body = p.body /\ next.status = "NeedMoreData"
    BY <1>0, <2>1 DEF ResponseRecords
  <2>3. ~(size > Room(p))
    BY <1>9, <1>13
  <2>4. /\ LastChunk(t, end + 2)
        /\ (f.state = "Error" /\ LongLine(t)) \/ Fresh(f, "TrailerLine", Len(p.body))
    BY <1>5, <1>13, <2>3
  <2>5. f.state # "Complete"
    BY <2>4 DEF Fresh
  <2>6. Unfinished(t, start, start - 1, end + 1)
    BY <1>0, <1>4, <1>13, <2>5, UnfinishedNext DEF f
  <2>7. next.position - 1 = end + 1 /\ next.position >= start /\ next # p
    BY <1>4, <1>13, <2>2 DEF i
  <2>8. After(t, start, next.position - 1) = f
    BY <2>7 DEF f
  <2>9. Matches(next, t, start)
    BY <1>0, <1>4, <1>13, <2>2, <2>4, <2>6, <2>7, <2>8 DEF Matches
  <2> QED BY <2>2, <2>7, <2>9 DEF MatchedRound, Matched
<1>14. CASE end # 0 /\ size # NoSize /\ size # 0 /\ ~(size > Room(p))
  <2>1. next = [p EXCEPT !.chunkState = "Data", !.position = end + 2, !.chunkSize = size]
    BY <1>1, <1>14
  <2>2. /\ next.chunkState = "Data" /\ next.position = end + 2 /\ next.chunkSize = size
        /\ next.body = p.body /\ next.status = "NeedMoreData"
    BY <1>0, <2>1 DEF ResponseRecords
  <2>4. \/ f.state = "Error" /\ LongLine(t)
        \/ Fresh(f, "Data", Len(p.body) + size) /\ f.remaining = size
    BY <1>5, <1>14
  <2>5. f.state # "Complete"
    BY <2>4 DEF Fresh
  <2>6. Unfinished(t, start, start - 1, end + 1)
    BY <1>0, <1>4, <1>14, <2>5, UnfinishedNext DEF f
  <2>7. next.position - 1 = end + 1 /\ next.position >= start /\ next # p
    BY <1>4, <1>14, <2>2 DEF i
  <2>8. After(t, start, next.position - 1) = f
    BY <2>7 DEF f
  <2>9. Matches(next, t, start)
    BY <1>0, <1>4, <1>14, <2>2, <2>4, <2>6, <2>7, <2>8 DEF Matches
  <2> QED BY <2>2, <2>7, <2>9 DEF MatchedRound, Matched
<1> QED BY <1>10, <1>11, <1>12, <1>13, <1>14

\* Something else than a line end behind the data is what the decoder rejects too.
LEMMA DataUnaccepted ==
    ASSUME NEW p, NEW t, NEW start, Rounds(p, t, start), Matches(p, t, start),
           p.chunkState = "Data", NEW end, end = p.position + p.chunkSize,
           Fresh(After(t, start, p.position - 1), "Data", Len(p.body) + p.chunkSize),
           After(t, start, p.position - 1).remaining = p.chunkSize,
           end + 1 <= Len(t), ~LineEnd(t, end)
    PROVE  Unaccepted(t, start)
<1> SUFFICES ASSUME NEW u \in Texts, Begins(t, u), NEW k \in (start - 1)..Len(u),
                    After(u, start, k).state = "Complete"
             PROVE  FALSE
  BY DEF Unaccepted
<1> DEFINE i == p.position
           size == p.chunkSize
           decoded == Len(p.body) + size
<1>1. /\ BodyAt(u, start) /\ k \in (i - 1)..Len(u) /\ i \in start..(Len(u) + 1)
      /\ After(u, start, i - 1) = After(t, start, i - 1)
  BY LateEnd
<1>2. /\ t \in Texts /\ Len(t) \in Nat /\ Len(u) \in Nat /\ Len(t) <= Len(u) /\ i \in Nat \ {0}
      /\ size \in Nat \ {0} /\ start \in Nat \ {0} /\ start <= i
  <2>1. i \in Nat \ {0} /\ size \in 1..Room(p) /\ Room(p) \in 0..MaxBody /\ MaxBody \in Nat
    BY RoundTypes
  <2>2. size \in Nat \ {0}
    BY <2>1
  <2>3. start \in Nat \ {0} /\ i \in start..(Len(t) + 1)
    BY MatchTypes
  <2> QED BY <2>1, <2>2, <2>3, RoundTypes, TextType DEF Begins
<1>3. end = i + size
  OBVIOUS
<1>4. Fresh(After(u, start, i - 1), "Data", decoded) /\ After(u, start, i - 1).remaining = size
  BY <1>1
<1> HIDE DEF i, size, decoded
<1>5. end \in Nat /\ end + 1 \in (start - 1)..Len(u) /\ end + 1 <= Len(u) /\ end \in 1..Len(t)
      /\ end + 1 \in 1..Len(t)
  BY <1>2, <1>3
<1>6. ~LineEnd(u, end)
  BY <1>5 DEF LineEnd, Begins
<1>7. Unfinished(u, start, i - 1, IF end <= Len(u) THEN end ELSE Len(u))
      /\ (end + 1 <= Len(u) => After(u, start, end + 1).state = "Error" \/ LineEnd(u, end))
  <2>1. Unfinished(u, start, i - 1, IF i + size <= Len(u) THEN i + size ELSE Len(u))
        /\ (i + size + 1 <= Len(u) =>
              After(u, start, i + size + 1).state = "Error" \/ LineEnd(u, i + size))
    BY <1>1, <1>2, <1>4, DataDecoded
  <2> QED BY <1>3, <2>1
<1>8. end <= Len(u)
  BY <1>2, <1>5
<1>9. Unfinished(u, start, i - 1, end) /\ After(u, start, end + 1).state = "Error"
  BY <1>5, <1>6, <1>7, <1>8
<1>10. \A m \in ((end + 1) + 1)..Len(u) : After(u, start, m).state = "Error"
  BY <1>1, <1>5, <1>9, Absorbed
<1>11. k \in (i - 1)..end \/ k = end + 1 \/ k \in ((end + 1) + 1)..Len(u)
  BY <1>1, <1>2, <1>5
<1> QED BY <1>9, <1>10, <1>11 DEF Unfinished

LEMMA DataMatches ==
    ASSUME NEW p, NEW t, NEW start, Rounds(p, t, start), Matches(p, t, start),
           p.chunkState = "Data"
    PROVE  MatchedRound(p, ReadChunkData(p), t, start)
<1> DEFINE i == p.position
           size == p.chunkSize
           end == i + size
           decoded == Len(p.body) + size
           data == SubSeq(t, i, end - 1)
           e == After(t, start, i - 1)
           f == After(t, start, end + 1)
           next == ReadChunkData(p)
<1>0. /\ p \in ResponseRecords /\ p.buffer = t /\ p.status = "NeedMoreData" /\ t \in Texts
      /\ start \in Nat \ {0} /\ HeadLength(t) # 0 /\ start = HeadLength(t) + 1 /\ Len(t) \in Nat
      /\ BodyAt(t, start) /\ i \in start..(Len(t) + 1) /\ i \in Nat \ {0}
      /\ Unfinished(t, start, start - 1, i - 1) /\ p.body \in Texts
  BY RoundTypes, MatchTypes
<1>1. size \in Nat \ {0}
  <2>1. size \in 1..Room(p) /\ Room(p) \in 0..MaxBody /\ MaxBody \in Nat
    BY RoundTypes
  <2> QED BY <2>1
<1>2. next = IF Len(t) < end + 1 THEN p
             ELSE IF SubSeq(t, end, end + 1) # CRLF THEN ResponseError(p)
             ELSE [p EXCEPT !.body = @ \o data, !.position = end + 2, !.chunkState = "SizeLine"]
  BY <1>0, Zenon DEF ReadChunkData
<1>3. \/ e.state = "Error" /\ LongLine(t)
      \/ Fresh(e, "Data", decoded) /\ e.remaining = size
  BY DEF Matches
<1>4. ResponseError(p).status = "Error" /\ ResponseError(p) # p
  BY <1>0, ErrorRecord
<1>5. e.state = "Error" => /\ \A n \in (i - 1)..Len(t) : After(t, start, n).state = "Error"
                           /\ Unfinished(t, start, start - 1, Len(t))
                           /\ Unaccepted(t, start)
  BY GivenUp
<1>6. ASSUME Fresh(e, "Data", decoded) /\ e.remaining = size
      PROVE  /\ Unfinished(t, start, i - 1, IF end <= Len(t) THEN end ELSE Len(t))
             /\ end + 1 <= Len(t) /\ LineEnd(t, end) => Fresh(f, "SizeLine", decoded)
             /\ end + 1 <= Len(t) /\ ~LineEnd(t, end) => Unaccepted(t, start)
  <2>1. end + 1 <= Len(t) /\ ~LineEnd(t, end) => Unaccepted(t, start)
    BY <1>6, DataUnaccepted
  <2> HIDE DEF i, size, decoded
  <2>2. /\ Unfinished(t, start, i - 1, IF end <= Len(t) THEN end ELSE Len(t))
        /\ end + 1 <= Len(t) /\ LineEnd(t, end) => Fresh(After(t, start, end + 1), "SizeLine", decoded)
    BY <1>0, <1>1, <1>6, DataDecoded
  <2> QED BY <2>1, <2>2
<1> SUFFICES MatchedRound(p, next, t, start)
  OBVIOUS
<1> HIDE DEF next, e, f
<1>7. end \in Nat \ {0} /\ end > i /\ end - 1 >= i /\ end - 1 \in Nat
      /\ (end - 1) - i + 1 = size /\ (end + 2) - 1 = end + 1 /\ end + 2 >= start /\ end + 2 # i
      /\ start - 1 \in Int /\ i - 1 \in Int /\ Len(t) \in Int /\ end \in Int
  <2>1. i \in Nat \ {0} /\ size \in Nat \ {0} /\ start \in Nat \ {0} /\ start <= i /\ Len(t) \in Nat
    BY <1>0, <1>1
  <2>2. end = i + size
    OBVIOUS
  <2> HIDE DEF i, size, end
  <2> QED BY <2>1, <2>2
<1>8. CASE Len(t) < end + 1
  <2>1. next = p
    BY <1>2, <1>8
  <2>2. Unfinished(t, start, start - 1, Len(t))
    <3>1. CASE e.state = "Error"
      BY <1>5, <3>1
    <3>2. CASE Fresh(e, "Data", decoded) /\ e.remaining = size
      <4>1. (IF end <= Len(t) THEN end ELSE Len(t)) = Len(t)
        <5> HIDE DEF end
        <5> QED BY <1>0, <1>7, <1>8
      <4>2. Unfinished(t, start, i - 1, Len(t))
        BY <1>6, <3>2, <4>1
      <4> HIDE DEF i
      <4> QED BY <1>0, <1>7, <4>2, UnfinishedJoins
    <3> QED BY <1>3, <3>1, <3>2
  <2> QED BY <1>0, <2>1, <2>2 DEF MatchedRound, Matched
<1>9. CASE ~(Len(t) < end + 1)
  <2> HIDE DEF end
  <2>1. end + 1 <= Len(t) /\ end \in 1..(Len(t) - 1) /\ end <= Len(t) /\ end + 1 \in (i - 1)..Len(t)
        /\ end - 1 <= Len(t)
    <3> HIDE DEF i
    <3> QED BY <1>0, <1>7, <1>9
  <2>2. SubSeq(t, end, end + 1) = CRLF <=> LineEnd(t, end)
    BY <1>0, <2>1, CutIsLineEnd
  <2>3. CASE ~LineEnd(t, end)
    <3>1. next = ResponseError(p)
      BY <1>2, <1>9, <2>2, <2>3
    <3>2. Unaccepted(t, start)
      BY <1>3, <1>5, <1>6, <2>1, <2>3
    <3> QED BY <1>4, <3>1, <3>2 DEF MatchedRound, Matched
  <2>4. CASE LineEnd(t, end)
    <3>1. next = [p EXCEPT !.body = @ \o data, !.position = end + 2, !.chunkState = "SizeLine"]
      BY <1>2, <1>9, <2>2, <2>4
    <3>2. data \in Texts /\ Len(data) = size
      <4>1. data \in Texts /\ Len(data) = IF i <= end - 1 THEN ((end - 1) - i) + 1 ELSE 0
        BY <1>0, <1>7, <2>1, Cut
      <4> HIDE DEF data, i, size
      <4> QED BY <1>0, <1>7, <4>1
    <3> DEFINE body == p.body \o data
    <3> HIDE DEF data
    <3>3. Len(body) = decoded
      BY <1>0, <3>2, Joined
    <3>4. next = [p EXCEPT !.body = body, !.position = end + 2, !.chunkState = "SizeLine"]
      BY <3>1
    <3> HIDE DEF body
    <3>5. /\ next.chunkState = "SizeLine" /\ next.position = end + 2
          /\ next.body = body /\ next.status = "NeedMoreData"
      BY <1>0, <3>4 DEF ResponseRecords
    <3>6. (f.state = "Error" /\ LongLine(t)) \/ Fresh(f, "SizeLine", decoded)
      <4>1. e.state = "Error" => f.state = "Error"
        BY <1>5, <2>1 DEF f
      <4> QED BY <1>3, <1>6, <2>1, <2>4, <4>1
    <3>7. f.state # "Complete"
      BY <3>6 DEF Fresh
    <3>8. Unfinished(t, start, start - 1, end)
      <4>1. CASE e.state = "Error"
        <5>1. \A n \in (start - 1)..end : n \in (start - 1)..Len(t)
          BY <1>0, <1>7, <2>1
        <5> QED BY <1>5, <4>1, <5>1 DEF Unfinished
      <4>2. CASE Fresh(e, "Data", decoded) /\ e.remaining = size
        <5>1. Unfinished(t, start, i - 1, end)
          BY <1>6, <4>2, <2>1
        <5> HIDE DEF i
        <5> QED BY <1>0, <1>7, <5>1, UnfinishedJoins
      <4> QED BY <1>3, <4>1, <4>2
    <3>9. Unfinished(t, start, start - 1, end + 1)
      BY <1>0, <1>7, <3>7, <3>8, UnfinishedNext DEF f
    <3>10. next.position - 1 = end + 1 /\ next.position >= start /\ next # p
      BY <1>7, <3>5
    <3>11. After(t, start, next.position - 1) = f /\ t[next.position - 1] = "LF"
      BY <2>4, <3>10 DEF f, LineEnd
    <3> HIDE DEF decoded
    <3>12. Matches(next, t, start)
      BY <1>0, <3>3, <3>5, <3>6, <3>9, <3>10, <3>11 DEF Matches
    <3> QED BY <3>5, <3>10, <3>12 DEF MatchedRound, Matched
  <2> QED BY <2>3, <2>4
<1> QED BY <1>8, <1>9

\* What the parser rejects of the trailers, the decoder rejects too, or it is of
\* what only the parser looks at.
LEMMA TrailerUnaccepted ==
    ASSUME NEW p, NEW t, NEW start, Rounds(p, t, start), Matches(p, t, start),
           p.chunkState = "Trailers",
           Fresh(After(t, start, p.position - 1), "TrailerLine", Len(p.body)),
           NEW end, end = Find(t, CRLF, p.position),
           \/ end = 0 /\ Len(t) - (p.trailersStart - 1) >= MaxHeader
           \/ end # 0 /\ end + 2 - p.trailersStart > MaxHeader
           \/ end # 0 /\ end # p.position /\ ~ValidTrailer(LineOf(t, p.position))
    PROVE  Unaccepted(t, start)
<1> SUFFICES ASSUME NEW u \in Texts, Begins(t, u), NEW k \in (start - 1)..Len(u),
                    After(u, start, k).state = "Complete", ~Excused(u, k)
             PROVE  FALSE
  BY DEF Unaccepted
<1> DEFINE i == p.position
           from == p.trailersStart
           fin == Find(u, CRLF, i)
           line == LineOf(u, i)
           decoded == Len(p.body)
<1>1. /\ BodyAt(u, start) /\ k \in (i - 1)..Len(u) /\ i \in start..(Len(u) + 1)
      /\ Fresh(After(u, start, i - 1), "TrailerLine", decoded)
  BY LateEnd
<1>2. /\ t \in Texts /\ Len(t) \in Nat /\ Len(u) \in Nat /\ Len(t) <= Len(u) /\ i \in Nat \ {0}
      /\ from \in 1..i /\ MaxHeader \in Nat /\ HeadLength(t) # 0
  BY RoundTypes, MatchTypes, TextType DEF Begins
<1>3. LastChunk(t, from)
  BY DEF Matches
<1>4. /\ fin # 0 /\ fin \in i..(Len(u) - 1) /\ fin + 1 <= k
      /\ ~Broken(u, i, fin - 1) /\ (line = <<>> \/ TrailerNamed(line))
  <2> HIDE DEF i, decoded
  <2> QED BY <1>1, TrailerPassed
<1>5. line \in Texts /\ Len(line) = fin - i
  BY <1>2, <1>4, LineOfType
<1>6. Printable(line)
  BY <1>2, <1>4, LinePrints DEF Excused
<1> HIDE DEF fin, line, decoded
<1>7. ~(k - (from - 1) > MaxHeader)
  <2>1. from \in Nat /\ k \in (from - 1)..Len(u)
    <3> HIDE DEF i, from
    <3> QED BY <1>1, <1>2
  <2> HIDE DEF from
  <2>2. k - (from - 1) > MaxHeader => LongTrailers(SubSeq(u, 1, k))
    BY <1>2, <1>3, <2>1, LastChunkLong
  <2> QED BY <2>2 DEF Excused
<1>8. CASE end = 0 /\ Len(t) - (from - 1) >= MaxHeader
  <2>1. ~(fin < Len(t))
    BY <1>2, <1>4, <1>8, LineKept DEF fin
  <2> HIDE DEF i, from
  <2> QED BY <1>1, <1>2, <1>4, <1>7, <1>8, <2>1
<1>9. end # 0 => fin = end /\ LineOf(t, i) = line
  BY <1>2, LineKept DEF fin, line
<1>10. CASE end # 0 /\ end + 2 - from > MaxHeader
  <2> HIDE DEF i, from
  <2> QED BY <1>1, <1>2, <1>4, <1>7, <1>9, <1>10
<1>11. CASE end # 0 /\ end # i /\ ~ValidTrailer(LineOf(t, i))
  <2>1. line # <<>>
    <3>1. Len(line) # 0
      <4> HIDE DEF i
      <4> QED BY <1>2, <1>4, <1>5, <1>9, <1>11
    <3> QED BY <3>1, EmptyText
  <2>2. ValidTrailer(line)
    BY <1>4, <1>6, <2>1 DEF ValidTrailer, TrailerNamed, WellFormedField
  <2> QED BY <1>9, <1>11, <2>2
<1> QED BY <1>8, <1>10, <1>11

\* A trailer that the parser takes, or the blank line behind the last.
LEMMA TrailerAccepted ==
    ASSUME NEW p, NEW t, NEW start, Rounds(p, t, start), Matches(p, t, start),
           p.chunkState = "Trailers", NEW end, end = Find(t, CRLF, p.position), end # 0
    PROVE  /\ end = p.position =>
                \/ After(t, start, end + 1).state = "Error" /\ LongLine(t)
                \/ After(t, start, end + 1).state = "Complete"
           /\ end # p.position /\ ValidTrailer(LineOf(t, p.position)) =>
                \/ After(t, start, end + 1).state = "Error" /\ LongLine(t)
                \/ Fresh(After(t, start, end + 1), "TrailerLine", Len(p.body))
<1> DEFINE i == p.position
           line == LineOf(t, i)
           decoded == Len(p.body)
           e == After(t, start, i - 1)
           f == After(t, start, end + 1)
<1>1. /\ end \in i..(Len(t) - 1) /\ i \in start..Len(t) /\ i \in BodyLines(t)
      /\ line \in Texts /\ Len(line) = end - i
      /\ e.state = "Error" => f.state = "Error"
  BY LineTaken
<1>2. /\ BodyAt(t, start) /\ t \in Texts /\ i \in Nat \ {0} /\ Len(t) \in Nat
  BY MatchTypes, RoundTypes
<1>3. (e.state = "Error" /\ LongLine(t)) \/ Fresh(e, "TrailerLine", decoded)
  BY DEF Matches
<1>4. CASE e.state = "Error" /\ LongLine(t)
  BY <1>1, <1>4
<1>5. CASE Fresh(e, "TrailerLine", decoded)
  <2>1. \/ /\ f.state = "Error"
           /\ \/ Broken(t, i, end - 1) \/ Len(line) > MaxLine
              \/ line # <<>> /\ ~TrailerNamed(line)
        \/ ~Broken(t, i, end - 1) /\ line = <<>> /\ f.state = "Complete"
        \/ /\ ~Broken(t, i, end - 1) /\ line # <<>> /\ TrailerNamed(line)
           /\ Fresh(f, "TrailerLine", decoded)
    <3> HIDE DEF i, decoded
    <3>1. Find(t, CRLF, i) # 0 /\ Find(t, CRLF, i) = end
      BY DEF i
    <3>2. BodyAt(t, start) /\ i \in start..Len(t) /\ Fresh(After(t, start, i - 1), "TrailerLine", decoded)
      BY <1>1, <1>2, <1>5
    <3>3. LET end2 == Find(t, CRLF, i)
              line2 == LineOf(t, i)
              e2 == After(t, start, end2 + 1)
          IN  \/ /\ e2.state = "Error"
                 /\ \/ Broken(t, i, end2 - 1) \/ Len(line2) > MaxLine
                    \/ line2 # <<>> /\ ~TrailerNamed(line2)
              \/ ~Broken(t, i, end2 - 1) /\ line2 = <<>> /\ e2.state = "Complete"
              \/ /\ ~Broken(t, i, end2 - 1) /\ line2 # <<>> /\ TrailerNamed(line2)
                 /\ Fresh(e2, "TrailerLine", decoded)
      BY <3>1, <3>2, TrailerDecoded
    <3> QED BY <3>1, <3>3
  <2> HIDE DEF f, line, decoded, i, e
  <2>2. CASE end = i
    <3>1. line = <<>> /\ Len(line) = 0 /\ ~Broken(t, i, end - 1)
      <4>1. Len(line) = 0
        BY <1>1, <1>2, <2>2
      <4>2. \A j \in i..(end - 1) : FALSE
        BY <1>1, <1>2, <2>2
      <4> QED BY <1>1, <4>1, <4>2, EmptyText DEF Broken
    <3>2. ~(Len(line) > MaxLine)
      BY <3>1, SizeAssumption
    <3> QED BY <2>1, <2>2, <3>1, <3>2 DEF f, i
  <2>3. CASE end # i /\ ValidTrailer(line)
    <3>1. line # <<>>
      <4>1. Len(line) # 0
        BY <1>1, <1>2, <2>3
      <4> QED BY <4>1, EmptyText
    <3>2. TrailerNamed(line) /\ Printable(line)
      BY <2>3 DEF ValidTrailer, TrailerNamed, WellFormedField
    <3>3. ~Broken(t, i, end - 1)
      <4>1. Find(t, CRLF, i) = end
        BY DEF i
      <4> QED BY <1>2, <3>2, <4>1, LinePrints DEF line
    <3>4. Len(line) > MaxLine => LongLine(t)
      BY <1>1, <2>3, BodyLineIs DEF LongLine, LongTrailer, line
    <3>5. (f.state = "Error" /\ LongLine(t)) \/ Fresh(f, "TrailerLine", decoded)
      BY <2>1, <3>1, <3>2, <3>3, <3>4
    <3> QED BY <2>3, <3>5 DEF f, i, decoded
  <2>4. ~(end = i) /\ ~ValidTrailer(line) => end # p.position /\ ~ValidTrailer(LineOf(t, p.position))
    BY DEF i, line
  <2> QED BY <2>2, <2>3, <2>4 DEF i, line
<1> QED BY <1>3, <1>4, <1>5

LEMMA TrailerMatches ==
    ASSUME NEW p, NEW t, NEW start, Rounds(p, t, start), Matches(p, t, start),
           p.chunkState = "Trailers"
    PROVE  MatchedRound(p, ReadTrailer(p), t, start)
<1> DEFINE i == p.position
           from == p.trailersStart
           end == Find(t, CRLF, i)
           line == LineOf(t, i)
           e == After(t, start, i - 1)
           f == After(t, start, end + 1)
           next == ReadTrailer(p)
<1>0. /\ p \in ResponseRecords /\ p.buffer = t /\ p.status = "NeedMoreData"
      /\ start \in Nat \ {0} /\ HeadLength(t) # 0 /\ start = HeadLength(t) + 1
      /\ LastChunk(t, from)
  BY RoundTypes, MatchTypes DEF Matches
<1>1. next = IF end = 0
             THEN IF Len(t) - (from - 1) >= MaxHeader THEN ResponseError(p) ELSE p
             ELSE IF end + 2 - from > MaxHeader THEN ResponseError(p)
             ELSE IF end = i THEN Completed(p, end + 1)
             ELSE IF ValidTrailer(line) THEN [p EXCEPT !.position = end + 2]
             ELSE ResponseError(p)
  BY <1>0, Zenon DEF ReadTrailer, LineOf, LineTo
<1>2. (e.state = "Error" /\ LongLine(t)) \/ Fresh(e, "TrailerLine", Len(p.body))
  BY DEF Matches
<1>3. ResponseError(p).status = "Error" /\ ResponseError(p) # p
  BY <1>0, ErrorRecord
<1>4. end # 0 => /\ (end + 2) - 1 = end + 1 /\ end + 2 >= start /\ end + 2 # i
                 /\ t[end + 1] = "LF" /\ end \in Nat /\ (end + 1) - 1 = end
                 /\ Unfinished(t, start, start - 1, end)
  <2>1. i \in Nat /\ Len(t) \in Nat
    BY RoundTypes
  <2>2. end # 0 => end \in i..(Len(t) - 1)
    BY LineTaken
  <2>3. end # 0 => end \in Nat /\ (end + 1) - 1 = end
    <3> HIDE DEF end, i
    <3> QED BY <2>1, <2>2
  <2> QED BY <2>1, <2>3, LineTaken
<1>5. /\ end # 0 /\ end = i => (f.state = "Error" /\ LongLine(t)) \/ f.state = "Complete"
      /\ end # 0 /\ end # i /\ ValidTrailer(line) =>
           (f.state = "Error" /\ LongLine(t)) \/ Fresh(f, "TrailerLine", Len(p.body))
  BY TrailerAccepted
<1>6. ASSUME Fresh(e, "TrailerLine", Len(p.body)),
             \/ end = 0 /\ Len(t) - (from - 1) >= MaxHeader
             \/ end # 0 /\ end + 2 - from > MaxHeader
             \/ end # 0 /\ end # i /\ ~ValidTrailer(line)
      PROVE  Unaccepted(t, start)
  BY <1>6, TrailerUnaccepted
<1>7. e.state = "Error" => Unaccepted(t, start)
  BY GivenUp
<1>8. end = 0 => Unfinished(t, start, start - 1, Len(t))
  BY LineMissing
<1> SUFFICES MatchedRound(p, next, t, start)
  OBVIOUS
<1> HIDE DEF next, i, from, end, line, e, f
<1>9. CASE next = ResponseError(p) /\ Unaccepted(t, start)
  BY <1>3, <1>9 DEF MatchedRound, Matched
<1>10. CASE end = 0
  <2>1. CASE Len(t) - (from - 1) >= MaxHeader
    BY <1>1, <1>2, <1>6, <1>7, <1>9, <1>10, <2>1
  <2>2. CASE ~(Len(t) - (from - 1) >= MaxHeader)
    <3>1. next = p
      BY <1>1, <1>10, <2>2
    <3> QED BY <1>0, <1>8, <1>10, <3>1 DEF MatchedRound, Matched
  <2> QED BY <2>1, <2>2
<1>11. CASE end # 0 /\ (end + 2 - from > MaxHeader \/ (end # i /\ ~ValidTrailer(line)))
  <2>1. next = ResponseError(p)
    BY <1>1, <1>11
  <2> QED BY <1>2, <1>6, <1>7, <1>9, <1>11, <2>1
<1>12. CASE end # 0 /\ ~(end + 2 - from > MaxHeader) /\ end = i
  <2>1. next = Completed(p, end + 1)
    BY <1>1, <1>12
  <2>2. next.status = "MessageComplete" /\ next.messageBytes = end + 1 /\ next # p
    <3>1. end + 1 \in Nat
      BY <1>4, <1>12
    <3> HIDE DEF end
    <3>2. next.status = "MessageComplete" /\ next.messageBytes = end + 1
      BY <1>0, <2>1, <3>1, CompletedRecord
    <3> QED BY <1>0, <3>2
  <2>3. EndsAt(t, start, end + 1)
    BY <1>4, <1>5, <1>12 DEF EndsAt, f
  <2> QED BY <2>2, <2>3 DEF MatchedRound, Matched
<1>13. CASE end # 0 /\ ~(end + 2 - from > MaxHeader) /\ end # i /\ ValidTrailer(line)
  <2>1. next = [p EXCEPT !.position = end + 2]
    BY <1>1, <1>13
  <2>2. /\ next.chunkState = "Trailers" /\ next.position = end + 2 /\ next.trailersStart = from
        /\ next.body = p.body /\ next.status = "NeedMoreData"
    BY <1>0, <2>1 DEF ResponseRecords, from
  <2>4. (f.state = "Error" /\ LongLine(t)) \/ Fresh(f, "TrailerLine", Len(p.body))
    BY <1>5, <1>13
  <2>5. f.state # "Complete"
    BY <2>4 DEF Fresh
  <2>6. Unfinished(t, start, start - 1, end + 1)
    BY <1>0, <1>4, <1>13, <2>5, UnfinishedNext DEF f
  <2>7. next.position - 1 = end + 1 /\ next.position >= start /\ next # p
    BY <1>4, <1>13, <2>2 DEF i
  <2>8. After(t, start, next.position - 1) = f
    BY <2>7 DEF f
  <2>9. Matches(next, t, start)
    BY <1>0, <1>4, <1>13, <2>2, <2>4, <2>6, <2>7, <2>8 DEF Matches
  <2> QED BY <2>2, <2>7, <2>9 DEF MatchedRound, Matched
<1> QED BY <1>10, <1>11, <1>12, <1>13

LEMMA RoundMatched ==
    ASSUME NEW p, NEW t \in Texts, NEW start, Len(t) <= MaxMessage, Goes(p, t, start),
           Matched(p, t, start)
    PROVE  LET q == ChunkRound(p)
           IN  /\ Matched(q, t, start)
               /\ q = p /\ p.status = "NeedMoreData" => Unfinished(t, start, start - 1, Len(t))
<1> DEFINE q == ChunkRound(p)
<1>1. CASE p.status # "NeedMoreData"
  <2>1. q = p
    BY <1>1, Zenon DEF ChunkRound
  <2> HIDE DEF q
  <2> QED BY <1>1, <2>1 DEF q
<1>2. CASE p.status = "NeedMoreData"
  <2>1. Rounds(p, t, start) /\ p \in ResponseRecords /\ Matches(p, t, start)
    BY <1>2 DEF Goes, Rounds, Matched
  <2>2. p.chunkState \in {"SizeLine", "Data", "Trailers"}
    BY <2>1 DEF ResponseRecords, ChunkStates
  <2>3. CASE p.chunkState = "SizeLine"
    <3>1. q = ReadSizeLine(p)
      BY <1>2, <2>3, Zenon DEF ChunkRound
    <3> QED BY <2>1, <2>3, <3>1, SizeMatches DEF MatchedRound
  <2>4. CASE p.chunkState = "Data"
    <3>1. q = ReadChunkData(p)
      <4>1. p.chunkState # "SizeLine" /\ p.chunkState # "Trailers"
        BY <2>4
      <4> QED BY <1>2, <2>4, <4>1, Zenon DEF ChunkRound
    <3> QED BY <2>1, <2>4, <3>1, DataMatches DEF MatchedRound
  <2>5. CASE p.chunkState = "Trailers"
    <3>1. q = ReadTrailer(p)
      <4>1. p.chunkState # "SizeLine" /\ p.chunkState # "Data"
        BY <2>5
      <4> QED BY <1>2, <2>5, <4>1, Zenon DEF ChunkRound
    <3> QED BY <2>1, <2>5, <3>1, TrailerMatches DEF MatchedRound
  <2> QED BY <2>2, <2>3, <2>4, <2>5
<1> QED BY <1>1, <1>2

\* The parser goes on matching the text when more of it comes.
LEMMA MatchesOn ==
    ASSUME NEW p, NEW t, NEW start, Rounds(p, t, start), Matches(p, t, start),
           NEW u \in Texts, Begins(t, u), NEW q,
           q.chunkState = p.chunkState, q.position = p.position, q.body = p.body,
           q.trailersStart = p.trailersStart, q.chunkSize = p.chunkSize
    PROVE  Matches(q, u, start)
<1> DEFINE a == p.position - 1
<1>1. /\ BodyAt(t, start) /\ start \in Nat \ {0} /\ p.position \in start..(Len(t) + 1)
      /\ a \in (start - 1)..Len(t) /\ Unfinished(t, start, start - 1, a) /\ t \in Texts
      /\ Len(t) \in Nat /\ HeadLength(t) # 0 /\ start = HeadLength(t) + 1 /\ HeadLength(t) \in Nat
  BY MatchTypes, RoundTypes
<1>2. HeadLength(u) = HeadLength(t)
  BY <1>1, SameHead
<1> HIDE DEF a
<1>3. a \in Nat /\ a <= Len(t) /\ a \in Int /\ a \in 1..Len(t)
  BY <1>1
<1>4. After(u, start, a) = After(t, start, a) /\ Unfinished(u, start, start - 1, a) /\ u[a] = t[a]
  BY <1>1, <1>3, AfterCommon, UnfinishedOn DEF Begins
<1>5. /\ LongLine(t) => LongLine(u)
      /\ LastChunk(t, p.trailersStart) => LastChunk(u, p.trailersStart)
  BY <1>1, LongLineStays
<1> QED BY <1>1, <1>2, <1>4, <1>5 DEF Matches, a

--------------------------------------------------------------------------------
(* The loop: as many rounds as the buffer has bytes *)

\* v[k] is the parser behind k rounds.
RoundsOf(v, p, n) == v[0] = p /\ \A k \in 1..n : v[k] = ChunkRound(v[k - 1])

LEMMA RoundsExist ==
    ASSUME NEW p, NEW n \in Nat
    PROVE  \E v : RoundsOf(v, p, n)
<1> DEFINE unsolved == {k \in Nat : ~\E v : RoundsOf(v, p, k)}
<1>1. SUFFICES ASSUME unsolved # {} PROVE FALSE
  <2>1. n \notin unsolved => \E v : RoundsOf(v, p, n)
    OBVIOUS
  <2> QED BY <2>1
<1>2. PICK k \in unsolved : \A m \in unsolved : k <= m
  BY <1>1, Smallest
<1>3. k # 0
  <2> DEFINE v == [i \in 0..0 |-> p]
  <2>1. RoundsOf(v, p, 0)
    BY DEF RoundsOf
  <2> QED BY <1>2, <2>1
<1>4. PICK v : RoundsOf(v, p, k - 1)
  <2>1. k - 1 \in Nat /\ ~(k <= k - 1)
    BY <1>2, <1>3
  <2> QED BY <1>2, <2>1
<1> DEFINE w == [i \in 0..k |-> IF i = k THEN ChunkRound(v[k - 1]) ELSE v[i]]
<1>5. w[0] = p
  BY <1>2, <1>3, <1>4 DEF RoundsOf
<1>6. ASSUME NEW i \in 1..k
      PROVE  w[i] = ChunkRound(w[i - 1])
  <2>1. w[i - 1] = v[i - 1]
    BY <1>2
  <2>2. i # k => i \in 1..(k - 1) /\ w[i] = v[i]
    BY <1>2
  <2>3. i = k => w[i] = ChunkRound(v[i - 1])
    BY <1>2
  <2> HIDE DEF w
  <2> QED BY <1>4, <2>1, <2>2, <2>3 DEF RoundsOf
<1> HIDE DEF w
<1>7. RoundsOf(w, p, k)
  BY <1>5, <1>6 DEF RoundsOf
<1> QED BY <1>2, <1>7

\* What the recursion of the fold says of f.
Folds(f, p, n) ==
    f = [s \in SUBSET (1..n) |-> IF s = {} THEN p ELSE ChunkRound(f[s \ {Max(s)}])]

LEMMA FoldExists ==
    ASSUME NEW p, NEW n \in Nat
    PROVE  \E f : Folds(f, p, n)
<1>1. PICK v : RoundsOf(v, p, n)
  BY RoundsExist
<1> DEFINE f == [s \in SUBSET (1..n) |-> v[Cardinality(s)]]
<1>2. ASSUME NEW s \in SUBSET (1..n)
      PROVE  f[s] = IF s = {} THEN p ELSE ChunkRound(f[s \ {Max(s)}])
  <2>1. IsFiniteSet(1..n) /\ Cardinality(1..n) = n
    <3>1. 1 \in Int /\ n \in Int /\ (IF 1 > n THEN 0 ELSE n - 1 + 1) = n
      OBVIOUS
    <3> QED BY <3>1, FS_Interval
  <2>2. IsFiniteSet(s) /\ Cardinality(s) <= n /\ Cardinality(s) \in Nat
    BY <2>1, FS_Subset, FS_CardinalityType
  <2>3. CASE s = {}
    BY <1>1, <2>3, FS_EmptySet DEF RoundsOf
  <2>4. CASE s # {}
    <3> DEFINE rest == s \ {Max(s)}
    <3>1. Max(s) \in s
      BY <2>4, MaxOfInterval
    <3>2. Cardinality(rest) = Cardinality(s) - 1
      BY <2>2, <3>1, FS_RemoveElement
    <3>3. Cardinality(s) # 0
      BY <2>2, <2>4, FS_EmptySet
    <3>4. Cardinality(s) \in 1..n
      BY <2>2, <3>3
    <3>5. f[s] = v[Cardinality(s)] /\ f[rest] = v[Cardinality(rest)]
      OBVIOUS
    <3> HIDE DEF f, rest
    <3>6. f[s] = ChunkRound(f[rest])
      BY <1>1, <3>2, <3>4, <3>5 DEF RoundsOf
    <3> QED BY <2>4, <3>6 DEF rest
  <2> QED BY <2>3, <2>4
<1>3. f = [s \in SUBSET (1..n) |-> f[s]]
  OBVIOUS
<1> HIDE DEF f
<1>4. Folds(f, p, n)
  BY <1>2, <1>3 DEF Folds
<1> QED BY <1>4

\* The loop does the rounds in their order.
LEMMA LoopIs ==
    ASSUME NEW p, p.buffer \in Texts
    PROVE  \E v : RoundsOf(v, p, Len(p.buffer)) /\ ParseChunkedBody(p) = v[Len(p.buffer)]
<1> DEFINE t == p.buffer
           n == Len(t)
           fold == CHOOSE f : f = [s \in SUBSET (DOMAIN t) |->
                                    IF s = {} THEN p ELSE ChunkRound(f[s \ {Max(s)}])]
<1>1. n \in Nat /\ DOMAIN t = 1..n
  BY TextType
<1>2. ParseChunkedBody(p) = fold[DOMAIN t]
  BY Zenon DEF ParseChunkedBody, FoldLeft, MapThenFoldSet
<1> HIDE DEF n
<1>3. \A f : Folds(f, p, n) <=> f = [s \in SUBSET (DOMAIN t) |->
                                    IF s = {} THEN p ELSE ChunkRound(f[s \ {Max(s)}])]
  BY <1>1 DEF Folds
<1>4. Folds(fold, p, n)
  <2>1. \E f : f = [s \in SUBSET (DOMAIN t) |->
                     IF s = {} THEN p ELSE ChunkRound(f[s \ {Max(s)}])]
    BY <1>1, <1>3, FoldExists
  <2>2. fold = [s \in SUBSET (DOMAIN t) |->
                 IF s = {} THEN p ELSE ChunkRound(fold[s \ {Max(s)}])]
    BY <2>1, Zenon
  <2> QED BY <1>3, <2>2
<1> HIDE DEF fold, t
<1> DEFINE v == [k \in 0..n |-> fold[1..k]]
<1>5. ASSUME NEW s \in SUBSET (1..n)
      PROVE  fold[s] = IF s = {} THEN p ELSE ChunkRound(fold[s \ {Max(s)}])
  BY <1>4 DEF Folds
<1>6. v[0] = p
  <2>1. v[0] = fold[1..0]
    BY <1>1
  <2>2. 1..0 = {} /\ 1..0 \in SUBSET (1..n)
    OBVIOUS
  <2> HIDE DEF v
  <2> QED BY <1>5, <2>1, <2>2
<1>7. ASSUME NEW k \in 1..n
      PROVE  v[k] = ChunkRound(v[k - 1])
  <2>1. 1..k \in SUBSET (1..n) /\ 1..k # {}
    BY <1>1
  <2>2. Max(1..k) = k
    <3>1. Max(1..k) \in 1..k /\ \A y \in 1..k : Max(1..k) >= y
      BY <1>1, <2>1, MaxOfInterval
    <3> DEFINE m == Max(1..k)
    <3> HIDE DEF m
    <3>2. m \in 1..k /\ m >= k
      BY <1>1, <3>1 DEF m
    <3>3. m = k
      BY <1>1, <3>2
    <3> QED BY <3>3 DEF m
  <2>3. (1..k) \ {k} = 1..(k - 1)
    BY <1>1
  <2>4. v[k] = fold[1..k] /\ v[k - 1] = fold[1..(k - 1)]
    BY <1>1
  <2> HIDE DEF v
  <2> QED BY <1>5, <2>1, <2>2, <2>3, <2>4
<1>8. v[n] = fold[1..n]
  BY <1>1
<1> HIDE DEF v
<1>9. RoundsOf(v, p, n)
  BY <1>6, <1>7 DEF RoundsOf
<1> QED BY <1>1, <1>2, <1>8, <1>9 DEF n, t

\* Behind k rounds the parser has decided, or can go no further, or has taken
\* at least k bytes.
Behind(q, p, t, start, k) ==
    /\ Goes(q, t, start) /\ SameFrame(p, q) /\ Matched(q, t, start)
    /\ q.status = "NeedMoreData" => q.position >= p.position
    /\ \/ ChunkRound(q) = q /\ Stuck(q, t)
       \/ q.status # "NeedMoreData"
       \/ q.position >= p.position + k

LEMMA LoopGoes ==
    ASSUME NEW p, NEW t, NEW start, Rounds(p, t, start), p.position >= 2, Matches(p, t, start)
    PROVE  LET q == ParseChunkedBody(p)
           IN  /\ Goes(q, t, start) /\ SameFrame(p, q) /\ Matched(q, t, start)
               /\ q.status = "NeedMoreData" =>
                    Stuck(q, t) /\ q.position >= 2 /\ Unfinished(t, start, start - 1, Len(t))
<1>0. /\ Len(t) \in Nat /\ p \in ResponseRecords /\ p.buffer = t /\ t \in Texts
      /\ Len(t) <= MaxMessage /\ p.position \in Nat /\ Goes(p, t, start) /\ Matched(p, t, start)
  BY RoundTypes DEF Goes, Rounds, Matched
<1>1. PICK v : RoundsOf(v, p, Len(t)) /\ ParseChunkedBody(p) = v[Len(t)]
  BY <1>0, LoopIs
<1> DEFINE n == Len(t)
           early == {k \in Nat : k <= n /\ ~Behind(v[k], p, t, start, k)}
<1>2. early = {}
  <2>1. SUFFICES ASSUME early # {} PROVE FALSE
    OBVIOUS
  <2>2. PICK k \in early : \A m \in early : k <= m
    BY <2>1, Smallest
  <2>3. k # 0
    <3>1. Behind(p, p, t, start, 0)
      BY <1>0 DEF Behind, SameFrame
    <3>2. v[0] = p
      BY <1>1 DEF RoundsOf
    <3> QED BY <2>2, <3>1, <3>2
  <2> DEFINE a == v[k - 1]
             b == ChunkRound(a)
  <2>4. k - 1 \in Nat /\ k - 1 <= n /\ ~(k <= k - 1) /\ k \in 1..n
    BY <1>0, <2>2, <2>3
  <2>5. v[k] = b
    BY <1>1, <2>4 DEF RoundsOf
  <2>6. Behind(a, p, t, start, k - 1)
    BY <2>2, <2>4
  <2> HIDE DEF a
  <2>7. /\ Goes(b, t, start) /\ SameFrame(a, b)
        /\ \/ b = a /\ Stuck(a, t)
           \/ b.status # "NeedMoreData"
           \/ b.position > a.position
    BY <1>0, <2>6, OneRound DEF Behind
  <2>70. Matched(b, t, start)
    BY <1>0, <2>6, RoundMatched DEF Behind
  <2>8. SameFrame(p, b)
    BY <2>6, <2>7 DEF Behind, SameFrame
  <2>9. a.status # "NeedMoreData" => b = a
    BY Zenon DEF ChunkRound
  <2> HIDE DEF b
  <2>10. a.position \in Nat /\ b.position \in Nat /\ p.position \in Nat
    BY <1>0, <2>6, <2>7 DEF Behind, Goes, ResponseRecords
  <2>11. Behind(b, p, t, start, k)
    <3>1. CASE ChunkRound(a) = a /\ Stuck(a, t)
      <4>1. b = a
        BY <3>1 DEF b
      <4> QED BY <2>6, <3>1, <4>1 DEF Behind
    <3>2. CASE a.status # "NeedMoreData"
      <4>1. b = a
        BY <2>9, <3>2
      <4> QED BY <2>6, <3>2, <4>1 DEF Behind
    <3>3. CASE a.status = "NeedMoreData" /\ ~(ChunkRound(a) = a /\ Stuck(a, t))
      <4>1. a.position >= p.position + (k - 1) /\ a.position >= p.position
        BY <2>6, <3>3 DEF Behind
      <4>2. b.status # "NeedMoreData" \/ b.position > a.position
        BY <2>7, <3>3 DEF b
      <4>3. b.position > a.position => b.position >= p.position + k /\ b.position >= p.position
        BY <2>4, <2>10, <4>1
      <4> QED BY <2>7, <2>70, <2>8, <4>2, <4>3 DEF Behind
    <3> QED BY <3>1, <3>2, <3>3
  <2> QED BY <2>2, <2>5, <2>11
<1> DEFINE q == v[n]
<1>3. Behind(q, p, t, start, n)
  BY <1>0, <1>2
<1> HIDE DEF q, early
<1>4. ASSUME q.status = "NeedMoreData"
      PROVE  Stuck(q, t) /\ q.position >= 2 /\ Unfinished(t, start, start - 1, Len(t))
  <2>1. Follows(q, t, start)
    BY <1>3, <1>4 DEF Behind, Goes
  <2>2. q.position \in Nat /\ q.position <= n + 1
    BY <1>0, <1>3, <2>1 DEF Follows, Places, Behind, Goes, ResponseRecords
  <2>3. q.position >= p.position /\ p.position >= 2
    BY <1>3, <1>4 DEF Behind
  <2>4. ~(q.position >= p.position + n)
    BY <1>0, <2>2, <2>3
  <2>5. ChunkRound(q) = q /\ Stuck(q, t) /\ Goes(q, t, start) /\ Matched(q, t, start)
    BY <1>3, <1>4, <2>4 DEF Behind
  <2>6. Unfinished(t, start, start - 1, Len(t))
    BY <1>0, <1>4, <2>5, RoundMatched
  <2>7. q.position >= 2
    BY <1>0, <2>2, <2>3
  <2> QED BY <2>5, <2>6, <2>7
<1> QED BY <1>1, <1>3, <1>4 DEF Behind, q

\* A parser that waits goes on waiting, however many rounds there are.
LEMMA LoopIdle ==
    ASSUME NEW p, p.buffer \in Texts, ChunkRound(p) = p
    PROVE  ParseChunkedBody(p) = p
<1> DEFINE n == Len(p.buffer)
<1>1. PICK v : RoundsOf(v, p, n) /\ ParseChunkedBody(p) = v[n]
  BY LoopIs
<1>2. n \in Nat
  BY TextType
<1> HIDE DEF n
<1> DEFINE moved == {k \in Nat : k <= n /\ v[k] # p}
<1>3. moved = {}
  <2>1. SUFFICES ASSUME moved # {} PROVE FALSE
    OBVIOUS
  <2>2. PICK k \in moved : \A m \in moved : k <= m
    BY <2>1, Smallest
  <2>3. k # 0
    BY <1>1, <2>2 DEF RoundsOf
  <2>4. k - 1 \in Nat /\ k - 1 <= n /\ ~(k <= k - 1) /\ k \in 1..n
    BY <1>2, <2>2, <2>3
  <2>5. v[k - 1] = p
    BY <2>2, <2>4
  <2>6. v[k] = ChunkRound(v[k - 1])
    BY <1>1, <2>4 DEF RoundsOf
  <2> QED BY <2>2, <2>5, <2>6
<1> QED BY <1>1, <1>2, <1>3

--------------------------------------------------------------------------------
(* ResponseParser *)

\* The first line of t is a status line, and the fields begin at start.
StatusRead(t, start) ==
    /\ Find(t, CRLF, 1) # 0 /\ start = Find(t, CRLF, 1) + 2
    /\ ValidStatusLine(FirstLine(t))

\* What the parser has made of a head it has read.
HeadKnown(p, t) ==
    /\ ResponseHead(p.method, t)
    /\ p.headerBytes = HeadLength(t) /\ p.mode = ModeIn(p.method, t)
    /\ p.mode = "ContentLength" => p.contentLength = LengthIn(t)
    /\ p.mode = "Chunked" => /\ Follows(p, t, HeadLength(t) + 1) /\ p.position >= 2
                             /\ Matches(p, t, HeadLength(t) + 1)

Knows(p, t) ==
    /\ p.status = "NeedMoreData" /\ p.buffer = t
    /\ p.fieldsStart # 0 => StatusRead(t, p.fieldsStart)
    /\ p.headersParsed => HeadKnown(p, t) /\ p.fieldsStart # 0
    /\ ~p.headersParsed => p.chunkState = "SizeLine" /\ p.body = <<>>

\* Of a text of which it has not decided.
Awaits(p, t) ==
    /\ Knows(p, t) /\ Len(t) <= MaxMessage /\ Early(p.method, t)
    /\ ~p.headersParsed => HeadLength(t) = 0

\* A beginning of t is the response, and a decoder comes to its end there.
Answered(p, t) ==
    /\ \E b \in Texts : Begins(b, t) /\ Len(b) = p.messageBytes /\ Response(p.method, b, MaxMessage)
    /\ HasChunks(p.method, t) => EndsAt(t, HeadLength(t) + 1, p.messageBytes)

\* The parser has read t.
Judges(p, t) ==
    /\ p \in ResponseRecords
    /\ \/ Awaits(p, t)
       \/ p.status = "MessageComplete" /\ Answered(p, t)
       \/ p.status = "Error" /\ Doomed(p.method, t)

\* The parser between the steps of consume.
StatusLined(p, t) ==
    /\ p \in ResponseRecords
    /\ \/ Knows(p, t) /\ (p.fieldsStart = 0 => HeadLength(t) = 0)
       \/ p.status = "Error" /\ Headless(p.method, t)

ResponseHeaded(p, t) ==
    /\ p \in ResponseRecords
    /\ \/ Knows(p, t) /\ (~p.headersParsed => HeadLength(t) = 0)
       \/ p.status = "Error" /\ Headless(p.method, t)

\* Where the message ends in t, it is a response by itself.
LEMMA EndsHere ==
    ASSUME NEW method, NEW t \in Texts, ResponseHead(method, t), NEW longestLine,
           NEW m, m = MessageEnd(method, t, longestLine), m # 0, m <= Len(t)
    PROVE  \E b \in Texts : Begins(b, t) /\ Len(b) = m /\ Response(method, b, longestLine)
<1> DEFINE b == SubSeq(t, 1, m)
           n == HeadLength(t)
<1>1. /\ n \in 1..MaxHeader /\ n <= Len(t) /\ ModeIn(method, t) \in BodyModes
      /\ ModeIn(method, t) = "ContentLength" => LengthIn(t) \in 0..MaxBody
      /\ Len(t) \in Nat /\ MaxHeader \in Nat /\ MaxBody \in Nat
  BY ResponseHeadTypes, TextType, SizeAssumption
<1>2. m \in Nat /\ n <= m
  <2>1. n + 1 \in 1..(Len(t) + 1)
    BY <1>1
  <2> DEFINE c == ChunkedLength(t, n + 1, longestLine)
  <2>2. c = 0 \/ c \in ((n + 1) + 1)..Len(t)
    BY <2>1, BeginsItself, LengthKept
  <2>3. m = IF ModeIn(method, t) = "NoBody" THEN n
            ELSE IF ModeIn(method, t) = "ContentLength" THEN n + LengthIn(t)
            ELSE IF ModeIn(method, t) = "Chunked" THEN c
            ELSE 0
    BY DEF MessageEnd
  <2> HIDE DEF c, n
  <2> QED BY <1>1, <2>2, <2>3
<1>3. b \in Texts /\ Len(b) = m /\ Begins(b, t)
  <2>1. 1 \in Nat \ {0} /\ m <= Len(t) /\ m \in Nat
    BY <1>2
  <2>2. /\ b \in Texts /\ Len(b) = IF 1 <= m THEN (m - 1) + 1 ELSE 0
        /\ \A i \in 1..((m - 1) + 1) : b[i] = t[(1 + i) - 1]
    BY <2>1, Cut
  <2> HIDE DEF b
  <2>3. Len(b) = m
    BY <1>2, <2>2
  <2> QED BY <1>1, <1>2, <2>2, <2>3 DEF Begins
<1> HIDE DEF b
<1>4. HeadLength(b) = n
  <2> DEFINE e == Find(t, CRLF \o CRLF, 1)
  <2>1. n = e + 3 /\ FirstHeadEnd(t, e) /\ e \in Nat
    BY <1>1, HeadLengthIs, FindHead
  <2> HIDE DEF e, n
  <2>2. FirstHeadEnd(b, e)
    BY <1>2, <1>3, <2>1, HeadGoesOn
  <2>3. Find(b, CRLF \o CRLF, 1) = e /\ e # 0
    BY <1>3, <2>2, HeadAt DEF FirstHeadEnd
  <2> QED BY <1>3, <2>1, <2>3, HeadLengthIs
<1>5. ResponseHead(method, b)
  <2>1. HeadLength(b) # 0
    BY <1>1, <1>4
  <2> QED BY <1>3, <2>1, ResponseHeadStays
<1>6. MessageEnd(method, b, longestLine) = m
  <2>1. MessageEnd(method, t, longestLine) <= Len(b)
    BY <1>2, <1>3
  <2> QED BY <1>3, <1>5, <2>1, EndStays
<1> QED BY <1>3, <1>5, <1>6 DEF Response

LEMMA EarlyCounts ==
    ASSUME NEW method, NEW t \in Texts, Early(method, t)
    PROVE  Countable(method, t)
<1> SUFFICES ASSUME ResponseHead(method, t), ModeIn(method, t) \in {"NoBody", "ContentLength"},
                    MessageEnd(method, t, 0) <= Len(t)
             PROVE  FALSE
  BY DEF Countable
<1>1. MessageEnd(method, t, 0) # 0
  <2>1. /\ HeadLength(t) \in 1..MaxHeader
        /\ ModeIn(method, t) = "ContentLength" => LengthIn(t) \in 0..MaxBody
    BY ResponseHeadTypes
  <2>2. MaxHeader \in Nat /\ MaxBody \in Nat
    BY SizeAssumption
  <2> QED BY <2>1, <2>2 DEF MessageEnd
<1>2. PICK b \in Texts : Begins(b, t) /\ Response(method, b, 0)
  BY <1>1, EndsHere
<1> QED BY <1>2 DEF Early

LEMMA NewResponseJudges ==
    ASSUME NEW method \in {"GET", "HEAD"}
    PROVE  Judges(NewResponseParser(method), <<>>) /\ NewResponseParser(method).method = method
<1> DEFINE p == NewResponseParser(method)
<1>1. /\ p \in ResponseRecords /\ p.method = method /\ p.status = "NeedMoreData"
      /\ p.buffer = <<>> /\ p.fieldsStart = 0 /\ ~p.headersParsed /\ p.chunkState = "SizeLine"
      /\ p.body = <<>>
  BY EmptyText DEF NewResponseParser, ResponseRecords, Statuses, BodyModes, ChunkStates
<1> HIDE DEF p
<1>2. Early(method, <<>>) /\ Len(<<>>) <= MaxMessage
  BY EmptyText, NoHeadEarly, SizeAssumption DEF MaxMessage
<1> QED BY <1>1, <1>2, EmptyText DEF Judges, Awaits, Knows, p

\* The parser goes on following the text when more of it comes.
LEMMA FollowsOn ==
    ASSUME NEW t \in Texts, NEW u \in Texts, Begins(t, u), NEW start, NEW p, NEW q,
           Follows(p, t, start), q.status = p.status, q.buffer = u, q.chunkState = p.chunkState,
           q.position = p.position, q.trailersStart = p.trailersStart,
           q.chunkSize = p.chunkSize, q.body = p.body
    PROVE  Follows(q, u, start)
<1>1. Places(q, u)
  <2>1. Places(p, t)
    BY DEF Follows
  <2>2. Len(t) \in Nat /\ Len(u) \in Nat /\ Len(t) <= Len(u)
    BY TextType DEF Begins
  <2> QED BY <2>1, <2>2 DEF Places, Room
<1>2. \A w, longestLine : Rest(q, w, longestLine) = Rest(p, w, longestLine)
  BY DEF Rest, Room
<1>3. Tracks(q, u, start)
  <2>1. Tracks(p, t, start)
    BY DEF Follows
  <2> QED BY <1>2, <2>1, BeginsOn DEF Tracks
<1> QED BY <1>1, <1>3 DEF Follows

LEMMA KnowsOn ==
    ASSUME NEW t \in Texts, NEW u \in Texts, Begins(t, u), NEW p \in ResponseRecords, Knows(p, t),
           Len(t) <= MaxMessage
    PROVE  LET q == [p EXCEPT !.buffer = u]
           IN  q \in ResponseRecords /\ Knows(q, u) /\ q.method = p.method
<1> DEFINE q == [p EXCEPT !.buffer = u]
<1>1. /\ q \in ResponseRecords /\ q.method = p.method /\ q.status = p.status /\ q.buffer = u
      /\ q.fieldsStart = p.fieldsStart /\ q.headersParsed = p.headersParsed
      /\ q.headerBytes = p.headerBytes /\ q.mode = p.mode /\ q.contentLength = p.contentLength
      /\ q.chunkState = p.chunkState /\ q.position = p.position /\ q.chunkSize = p.chunkSize
      /\ q.trailersStart = p.trailersStart /\ q.body = p.body
  BY DEF ResponseRecords
<1> HIDE DEF q
<1>2. p.fieldsStart # 0 => StatusRead(u, p.fieldsStart)
  BY FirstLineStays DEF Knows, StatusRead
<1>3. ASSUME p.headersParsed
      PROVE  HeadKnown(q, u)
  <2>1. HeadKnown(p, t)
    BY <1>3 DEF Knows
  <2>2. HeadLength(t) # 0
    BY <2>1, ResponseHeadTypes DEF HeadKnown
  <2>3. /\ ResponseHead(p.method, u) /\ HeadLength(u) = HeadLength(t)
        /\ LengthIn(u) = LengthIn(t) /\ ModeIn(p.method, u) = ModeIn(p.method, t)
    BY <2>1, <2>2, ResponseHeadStays DEF HeadKnown
  <2>4. p.mode = "Chunked" => Follows(q, u, HeadLength(u) + 1)
    BY <1>1, <2>1, <2>3, FollowsOn DEF HeadKnown
  <2>5. p.mode = "Chunked" => Matches(q, u, HeadLength(u) + 1)
    <3>1. p.mode = "Chunked" => /\ Rounds(p, t, HeadLength(t) + 1)
                                /\ Matches(p, t, HeadLength(t) + 1)
      BY <2>1 DEF HeadKnown, Rounds
    <3> QED BY <1>1, <2>3, <3>1, MatchesOn
  <2> QED BY <1>1, <2>1, <2>3, <2>4, <2>5 DEF HeadKnown
<1>4. Knows(q, u)
  BY <1>1, <1>2, <1>3 DEF Knows
<1> QED BY <1>1, <1>4 DEF q

LEMMA StatusStep ==
    ASSUME NEW p \in ResponseRecords, NEW t \in Texts, Knows(p, t)
    PROVE  StatusLined(ParseStatusLine(p), t) /\ ParseStatusLine(p).method = p.method
<1> DEFINE f == Find(t, CRLF, 1)
           next == ParseStatusLine(p)
<1>0. p.buffer = t
  BY DEF Knows
<1>1. next = IF p.fieldsStart # 0 THEN p
             ELSE IF f = 0
             THEN IF Len(t) >= MaxHeader THEN ResponseError(p) ELSE p
             ELSE IF ValidStatusLine(FirstLine(t))
             THEN [p EXCEPT !.fieldsStart = f + 2]
             ELSE ResponseError(p)
  BY <1>0, Zenon DEF ParseStatusLine, FirstLine
<1> SUFFICES StatusLined(next, t) /\ next.method = p.method
  OBVIOUS
<1> HIDE DEF next
<1>2. CASE p.fieldsStart # 0
  BY <1>1, <1>2 DEF StatusLined
<1>3. CASE p.fieldsStart = 0 /\ f = 0 /\ Len(t) >= MaxHeader
  <2>1. Headless(p.method, t)
    BY <1>3, NoLineNoHead, NoHeadAtAll
  <2> QED BY <1>1, <1>3, <2>1, ErrorRecord DEF StatusLined
<1>4. CASE p.fieldsStart = 0 /\ f = 0 /\ ~(Len(t) >= MaxHeader)
  <2>1. HeadLength(t) = 0
    BY <1>4, NoLineNoHead
  <2> QED BY <1>1, <1>4, <2>1 DEF StatusLined
<1>5. CASE p.fieldsStart = 0 /\ f # 0 /\ ValidStatusLine(FirstLine(t))
  <2>1. next = [p EXCEPT !.fieldsStart = f + 2]
    BY <1>1, <1>5
  <2>2. f \in Nat
    <3>1. 1 \in Nat \ {0}
      OBVIOUS
    <3> QED BY <3>1, FindLine
  <2>3. StatusRead(t, f + 2)
    BY <1>5 DEF StatusRead
  <2> HIDE DEF f
  <2>4. /\ next \in ResponseRecords /\ next.method = p.method /\ next.status = p.status
        /\ next.buffer = t /\ next.fieldsStart = f + 2 /\ next.headersParsed = p.headersParsed
        /\ next.chunkState = p.chunkState /\ next.body = p.body /\ f + 2 # 0
    BY <1>0, <2>1, <2>2 DEF ResponseRecords
  <2>5. ~p.headersParsed /\ p.status = "NeedMoreData" /\ p.chunkState = "SizeLine" /\ p.body = <<>>
    BY <1>5 DEF Knows, ResponseRecords
  <2> QED BY <2>3, <2>4, <2>5 DEF StatusLined, Knows
<1>6. CASE p.fieldsStart = 0 /\ f # 0 /\ ~ValidStatusLine(FirstLine(t))
  <2>1. Headless(p.method, t)
    BY <1>6, BadStatusNoHead
  <2> QED BY <1>1, <1>6, <2>1, ErrorRecord DEF StatusLined
<1> QED BY <1>2, <1>3, <1>4, <1>5, <1>6

\* Behind the head both are at the first size line.
LEMMA MatchesFirst ==
    ASSUME NEW p, NEW t \in Texts, HeadLength(t) # 0, p.chunkState = "SizeLine",
           p.position = HeadLength(t) + 1, Len(p.body) = 0
    PROVE  Matches(p, t, HeadLength(t) + 1)
<1> DEFINE n == HeadLength(t)
           e == Find(t, CRLF \o CRLF, 1)
<1>1. n = e + 3 /\ FirstHeadEnd(t, e) /\ e \in Nat /\ n <= Len(t) /\ Len(t) \in Nat
  BY HeadLengthIs, FindHead, TextType
<1>2. t[(e + 2) + 1] = "LF"
  BY <1>1 DEF FirstHeadEnd, HeadEnd, LineEnd
<1> HIDE DEF e, n
<1>3. n \in Nat /\ n + 1 \in Nat \ {0} /\ n + 1 <= Len(t) + 1 /\ (n + 1) - 1 = n
      /\ (e + 2) + 1 = n /\ n + 1 >= n + 1
  BY <1>1
<1>4. After(t, n + 1, n) = NewDecoder
  BY <1>3, AfterStep
<1>5. Fresh(NewDecoder, "SizeLine", 0) /\ NewDecoder.state # "Complete"
  BY NewDecoderIs DEF Fresh
<1>6. Unfinished(t, n + 1, n, n)
  <2>1. \A k \in n..n : k = n
    BY <1>3
  <2> QED BY <1>4, <1>5, <2>1 DEF Unfinished
<1> QED BY <1>2, <1>3, <1>4, <1>5, <1>6 DEF Matches, n

LEMMA ResponseFieldsStep ==
    ASSUME NEW p \in ResponseRecords, NEW t \in Texts, Knows(p, t), p.fieldsStart # 0,
           ~p.headersParsed
    PROVE  ResponseHeaded(ParseResponseFields(p), t) /\ ParseResponseFields(p).method = p.method
<1> DEFINE e == Find(t, CRLF \o CRLF, 1)
           headed == [p EXCEPT !.headerBytes = e + 3]
           mode == ModeIn(p.method, t)
           length == IF mode = "ContentLength" THEN LengthIn(t) ELSE 0
           next == ParseResponseFields(p)
<1>0. /\ p.buffer = t /\ p.status = "NeedMoreData" /\ StatusRead(t, p.fieldsStart)
      /\ p.chunkState = "SizeLine" /\ p.body = <<>> /\ MaxHeader \in Nat /\ MaxBody \in Nat
  BY SizeAssumption DEF Knows
<1>1. next = IF e = 0
             THEN IF Len(t) >= MaxHeader THEN ResponseError(p) ELSE p
             ELSE IF headed.headerBytes > MaxHeader THEN ResponseError(headed)
             ELSE SelectBodyMode(headed, FieldLines(t, p.fieldsStart, e))
  BY <1>0, Zenon DEF ParseResponseFields
<1>2. e \in Nat /\ (e = 0 <=> HeadLength(t) = 0) /\ (e # 0 => HeadLength(t) = e + 3)
  BY HeadLengthIs, FindHead
<1>3. e # 0 => FieldLines(t, p.fieldsStart, e) = FieldsOf(t)
  <2>1. e # 0 => HeadLength(t) - 3 = e
    BY <1>2
  <2>2. p.fieldsStart = Find(t, CRLF, 1) + 2
    BY <1>0 DEF StatusRead
  <2> QED BY <2>1, <2>2 DEF FieldsOf
<1>4. /\ headed \in ResponseRecords /\ headed.method = p.method /\ headed.headerBytes = e + 3
      /\ headed.buffer = t /\ headed.fieldsStart = p.fieldsStart /\ headed.status = "NeedMoreData"
      /\ headed.chunkState = "SizeLine" /\ headed.body = <<>>
  <2>1. e + 3 \in Nat
    BY <1>2
  <2> HIDE DEF e
  <2> QED BY <1>0, <2>1 DEF ResponseRecords
<1>5. SubSeq(t, 1, p.fieldsStart - 3) = FirstLine(t)
  <2> DEFINE f == Find(t, CRLF, 1)
  <2>1. f \in Nat
    <3>1. 1 \in Nat \ {0}
      OBVIOUS
    <3> QED BY <3>1, FindLine
  <2>2. p.fieldsStart = f + 2
    BY <1>0 DEF StatusRead
  <2> HIDE DEF f
  <2>3. p.fieldsStart - 3 = f - 1
    BY <2>1, <2>2
  <2> QED BY <2>3 DEF FirstLine, f
<1> HIDE DEF headed
<1>6. SelectBodyMode(headed, FieldsOf(t)) =
        IF ~ValidResponseFields(FieldsOf(t)) \/ length > MaxBody THEN ResponseError(headed)
        ELSE [headed EXCEPT !.headersParsed = TRUE, !.mode = mode, !.contentLength = length,
                            !.position = IF mode = "Chunked" THEN headed.headerBytes + 1 ELSE 0]
  BY <1>4, <1>5, Zenon DEF SelectBodyMode, ModeIn, LengthIn
<1>7. ASSUME e # 0, ValidResponseFields(FieldsOf(t))
       PROVE  length \in Nat
  <2>1. ASSUME mode = "ContentLength"
        PROVE  LengthIn(t) \in Nat
    <3>1. FieldsNamed(FieldsOf(t), "Content-Length") # {}
      BY <2>1, ModeCases DEF ModeIn
    <3>2. \A i \in DOMAIN FieldsOf(t) : FieldsOf(t)[i] \in Texts
      BY <1>2, <1>7, FieldsAreTexts
    <3> QED BY <1>7, <3>1, <3>2, ResponseLengthIs DEF LengthIn
  <2> QED BY <2>1
<1> SUFFICES ResponseHeaded(next, t) /\ next.method = p.method
  OBVIOUS
<1> HIDE DEF next, e, mode, length
<1>8. CASE e = 0 /\ Len(t) >= MaxHeader
  <2>1. Headless(p.method, t)
    BY <1>2, <1>8, NoHeadAtAll
  <2> QED BY <1>1, <1>8, <2>1, ErrorRecord DEF ResponseHeaded
<1>9. CASE e = 0 /\ ~(Len(t) >= MaxHeader)
  <2>1. next = p /\ HeadLength(t) = 0
    BY <1>1, <1>2, <1>9
  <2> QED BY <2>1 DEF ResponseHeaded
<1>10. CASE e # 0 /\ e + 3 > MaxHeader
  <2>1. ~ResponseHead(p.method, t)
    BY <1>0, <1>2, <1>10 DEF ResponseHead
  <2>2. Headless(p.method, t)
    BY <1>2, <1>10, <2>1, BadResponseNoHead
  <2>3. next = ResponseError(headed)
    BY <1>1, <1>4, <1>10
  <2> QED BY <1>4, <2>2, <2>3, ErrorRecord DEF ResponseHeaded
<1>11. CASE e # 0 /\ ~(e + 3 > MaxHeader) /\ (~ValidResponseFields(FieldsOf(t)) \/ length > MaxBody)
  <2>1. ~ResponseHead(p.method, t)
    <3>1. ASSUME ValidResponseFields(FieldsOf(t))
          PROVE  mode = "ContentLength" /\ ~(LengthIn(t) <= MaxBody)
      <4>1. length \in Nat /\ length > MaxBody
        BY <1>11, <1>7, <3>1
      <4>2. length = IF mode = "ContentLength" THEN LengthIn(t) ELSE 0
        BY DEF length
      <4> QED BY <1>0, <4>1, <4>2
    <3> QED BY <3>1 DEF ResponseHead, mode
  <2>2. Headless(p.method, t)
    BY <1>2, <1>11, <2>1, BadResponseNoHead
  <2>3. next = ResponseError(headed)
    BY <1>1, <1>3, <1>4, <1>6, <1>11
  <2> QED BY <1>4, <2>2, <2>3, ErrorRecord DEF ResponseHeaded
<1>12. CASE e # 0 /\ ~(e + 3 > MaxHeader) /\ ValidResponseFields(FieldsOf(t)) /\ ~(length > MaxBody)
  <2> DEFINE position == IF mode = "Chunked" THEN headed.headerBytes + 1 ELSE 0
  <2>1. next = [headed EXCEPT !.headersParsed = TRUE, !.mode = mode, !.contentLength = length,
                              !.position = position]
    BY <1>1, <1>3, <1>4, <1>6, <1>12
  <2>2. ResponseHead(p.method, t)
    <3>1. HeadLength(t) \in 1..MaxHeader
      BY <1>0, <1>2, <1>12
    <3>2. ModeIn(p.method, t) = "ContentLength" => LengthIn(t) <= MaxBody
      <4>1. length \in Nat /\ ~(length > MaxBody)
        BY <1>12, <1>7
      <4>2. length = IF mode = "ContentLength" THEN LengthIn(t) ELSE 0
        BY DEF length
      <4> QED BY <1>0, <4>1, <4>2 DEF mode
    <3>3. ValidStatusLine(FirstLine(t))
      BY <1>0 DEF StatusRead
    <3> QED BY <1>12, <3>1, <3>2, <3>3 DEF ResponseHead
  <2>3. mode \in BodyModes /\ length \in Nat /\ position \in Nat
    <3>1. mode \in BodyModes /\ (mode = "ContentLength" => LengthIn(t) \in 0..MaxBody)
      BY <2>2, ResponseHeadTypes DEF mode
    <3>2. headed.headerBytes + 1 \in Nat
      BY <1>2, <1>4
    <3> QED BY <1>0, <3>1, <3>2 DEF length
  <2> HIDE DEF position
  <2>4. /\ next \in ResponseRecords /\ next.method = p.method /\ next.status = "NeedMoreData"
        /\ next.buffer = t /\ next.fieldsStart = p.fieldsStart /\ next.headersParsed
        /\ next.headerBytes = e + 3 /\ next.mode = mode /\ next.contentLength = length
        /\ next.position = position /\ next.chunkState = "SizeLine" /\ next.body = <<>>
    BY <1>4, <2>1, <2>3 DEF ResponseRecords
  <2>5. ASSUME mode = "Chunked"
        PROVE  /\ Follows(next, t, HeadLength(t) + 1) /\ next.position >= 2
               /\ Matches(next, t, HeadLength(t) + 1)
    <3>1. /\ next.position = HeadLength(t) + 1 /\ HeadLength(t) \in Nat /\ HeadLength(t) # 0
          /\ HeadLength(t) <= Len(t) /\ Len(t) \in Nat
      BY <1>2, <1>4, <1>12, <2>4, <2>5, HeadLengthIs, TextType DEF position
    <3>2. Room(next) = MaxBody /\ Len(next.body) <= MaxBody
      BY <1>0, <2>4, EmptyText DEF Room
    <3>3. Places(next, t)
      BY <2>4, <3>1, <3>2 DEF Places
    <3>4. Tracks(next, t, HeadLength(t) + 1)
      <4>1. ASSUME NEW u, NEW longestLine
            PROVE  ChunkedLength(u, HeadLength(t) + 1, longestLine) = Rest(next, u, longestLine)
        BY <2>4, <3>1, <3>2, ChunkedLengthIs DEF Rest
      <4> QED BY <4>1 DEF Tracks
    <3>5. Matches(next, t, HeadLength(t) + 1)
      BY <2>4, <3>1, EmptyText, MatchesFirst
    <3> QED BY <2>4, <3>1, <3>3, <3>4, <3>5 DEF Follows
  <2>6. HeadKnown(next, t)
    BY <1>2, <1>12, <2>2, <2>4, <2>5 DEF HeadKnown, mode, length
  <2>7. Knows(next, t)
    BY <1>0, <2>4, <2>6 DEF Knows
  <2> QED BY <2>4, <2>7 DEF ResponseHeaded
<1> QED BY <1>8, <1>9, <1>10, <1>11, <1>12

LEMMA ResponseBodyStep ==
    ASSUME NEW p \in ResponseRecords, NEW t \in Texts, Knows(p, t), p.headersParsed,
           Len(t) <= MaxMessage
    PROVE  /\ Judges(ParseBody(p), t) /\ ParseBody(p).method = p.method
           /\ ParseBody(p).buffer = t
<1> DEFINE next == ParseBody(p)
           method == p.method
           n == HeadLength(t)
<1>1. /\ HeadKnown(p, t) /\ p.buffer = t /\ p.fieldsStart # 0 /\ p.status = "NeedMoreData"
      /\ p.fieldsStart # 0 => StatusRead(t, p.fieldsStart)
  BY DEF Knows
<1>2. /\ ResponseHead(method, t) /\ p.headerBytes = n /\ p.mode = ModeIn(method, t)
      /\ p.mode = "ContentLength" => p.contentLength = LengthIn(t)
      /\ p.mode = "Chunked" => Follows(p, t, n + 1) /\ p.position >= 2 /\ Matches(p, t, n + 1)
  BY <1>1 DEF HeadKnown
<1>3. /\ n \in 1..MaxHeader /\ n <= Len(t) /\ p.mode \in BodyModes /\ Len(t) \in Nat
      /\ p.mode = "ContentLength" => LengthIn(t) \in 0..MaxBody
      /\ MaxHeader \in Nat /\ MaxBody \in Nat
  BY <1>2, ResponseHeadTypes, TextType, SizeAssumption
<1>4. \A longestLine :
        MessageEnd(method, t, longestLine) =
          IF p.mode = "NoBody" THEN n
          ELSE IF p.mode = "ContentLength" THEN n + LengthIn(t)
          ELSE IF p.mode = "Chunked" THEN ChunkedLength(t, n + 1, longestLine)
          ELSE 0
  BY <1>2 DEF MessageEnd
<1>5. ASSUME NEW m \in Nat, m # 0, m <= Len(t), MessageEnd(method, t, MaxMessage) = m,
             next = Completed(p, m), HasChunks(method, t) => EndsAt(t, n + 1, m)
      PROVE  Judges(next, t) /\ next.method = method /\ next.buffer = t
  <2>1. \E b \in Texts : Begins(b, t) /\ Len(b) = m /\ Response(method, b, MaxMessage)
    BY <1>2, <1>5, EndsHere
  <2>2. next \in ResponseRecords /\ next.status = "MessageComplete" /\ next.method = method
        /\ next.messageBytes = m /\ next.buffer = t
    <3>1. /\ Completed(p, m) \in ResponseRecords /\ Completed(p, m).status = "MessageComplete"
          /\ Completed(p, m).method = p.method /\ Completed(p, m).messageBytes = m
          /\ Completed(p, m).buffer = p.buffer
      BY <1>5, CompletedRecord
    <3>2. next = Completed(p, m) /\ p.buffer = t
      BY <1>1, <1>5
    <3> HIDE DEF next
    <3> QED BY <3>1, <3>2
  <2> QED BY <1>5, <2>1, <2>2 DEF Judges, Answered
<1>6. ASSUME next = p, \A longestLine \in Int : \/ MessageEnd(method, t, longestLine) = 0
                                                 \/ MessageEnd(method, t, longestLine) > Len(t),
             ~HasChunks(method, t)
      PROVE  Judges(next, t) /\ next.method = method /\ next.buffer = t
  <2>1. Early(method, t)
    BY <1>6, EndlessEarly
  <2> QED BY <1>1, <1>2, <1>6, <2>1 DEF Judges, Awaits
<1>60. HasChunks(method, t) => p.mode = "Chunked"
  BY <1>2 DEF HasChunks
<1> SUFFICES Judges(next, t) /\ next.method = method /\ next.buffer = t
  OBVIOUS
<1> HIDE DEF n, method
<1>7. CASE p.mode = "NoBody"
  <2>1. next = Completed(p, n)
    BY <1>2, <1>7 DEF ParseBody
  <2> HIDE DEF next
  <2> QED BY <1>3, <1>4, <1>5, <1>60, <1>7, <2>1
<1>8. CASE p.mode = "ContentLength"
  <2> DEFINE m == n + LengthIn(t)
  <2>1. next = IF Len(t) >= m THEN Completed(p, m) ELSE p
    BY <1>1, <1>2, <1>8 DEF ParseBody
  <2>2. m \in Nat /\ m # 0
    BY <1>3, <1>8
  <2>3. \A longestLine : MessageEnd(method, t, longestLine) = m
    BY <1>4, <1>8
  <2> HIDE DEF next, m
  <2>4. CASE Len(t) >= m
    BY <1>3, <1>5, <1>60, <1>8, <2>1, <2>2, <2>3, <2>4
  <2>5. CASE ~(Len(t) >= m)
    BY <1>3, <1>6, <1>60, <1>8, <2>1, <2>2, <2>3, <2>5
  <2> QED BY <2>4, <2>5
<1>9. CASE p.mode = "CloseDelimited"
  <2>1. next = IF Len(t) - n > MaxBody THEN ResponseError(p) ELSE p
    BY <1>1, <1>2, <1>9 DEF ParseBody
  <2> HIDE DEF next
  <2>2. CASE Len(t) - n > MaxBody
    <3>1. Doomed(method, t)
      <4>1. HeadLength(t) # 0 /\ ModeIn(method, t) = "CloseDelimited"
            /\ Len(t) - HeadLength(t) > MaxBody
        BY <1>2, <1>3, <1>9, <2>2 DEF n
      <4> QED BY <4>1, OverlongDoomed
    <3> QED BY <1>1, <2>1, <2>2, <3>1, ErrorRecord DEF Judges, method
  <2>3. CASE ~(Len(t) - n > MaxBody)
    <3>1. \A longestLine : MessageEnd(method, t, longestLine) = 0
      BY <1>4, <1>9
    <3> QED BY <1>6, <1>60, <1>9, <2>1, <2>3, <3>1
  <2> QED BY <2>2, <2>3
<1>10. CASE p.mode = "Chunked"
  <2>1. next = ParseChunkedBody(p)
    BY <1>10 DEF ParseBody
  <2>2. Rounds(p, t, n + 1) /\ p.position >= 2 /\ Matches(p, t, n + 1)
    BY <1>2, <1>10 DEF Rounds
  <2>3. /\ Goes(next, t, n + 1) /\ SameFrame(p, next) /\ Matched(next, t, n + 1)
        /\ next.status = "NeedMoreData" =>
             Stuck(next, t) /\ next.position >= 2 /\ Unfinished(t, n + 1, (n + 1) - 1, Len(t))
    BY <2>1, <2>2, LoopGoes
  <2> HIDE DEF next
  <2>4. next \in ResponseRecords /\ next.method = method /\ next.buffer = t
    BY <1>1, <2>3 DEF Goes, SameFrame, method
  <2>40. (n + 1) - 1 = n /\ n = HeadLength(t)
    BY <1>3 DEF n
  <2>5. CASE Follows(next, t, n + 1)
    <3>1. next.status = "NeedMoreData" /\ next.buffer = t /\ Tracks(next, t, n + 1)
      BY <2>5 DEF Follows
    <3>2. \A longestLine \in Int : MessageEnd(method, t, longestLine) = 0
      <4>1. ASSUME NEW longestLine \in Int
            PROVE  ChunkedLength(t, n + 1, longestLine) = 0
        BY <2>3, <3>1, BeginsItself DEF Tracks, Stuck
      <4> QED BY <1>4, <1>10, <4>1
    <3>3. Early(method, t)
      <4>1. Unfinished(t, HeadLength(t) + 1, HeadLength(t), Len(t))
        BY <2>3, <2>40, <3>1
      <4> QED BY <3>2, <4>1, EndlessEarly
    <3>4. HeadKnown(next, t)
      BY <1>2, <1>10, <2>3, <2>5, <3>1 DEF HeadKnown, SameFrame, Matched, n, method
    <3>5. Knows(next, t) /\ next.headersParsed
      BY <1>1, <2>3, <3>1, <3>4 DEF Knows, SameFrame
    <3> QED BY <2>4, <3>3, <3>5 DEF Judges, Awaits
  <2>6. CASE next.status = "Error" /\ Refused(t, n + 1)
    <3>1. Doomed(method, t)
      <4>1. n # 0 /\ n = HeadLength(t) /\ ModeIn(method, t) = "Chunked"
        BY <1>2, <1>3, <1>10 DEF n
      <4>2. Unaccepted(t, HeadLength(t) + 1)
        BY <2>3, <2>6, <2>40 DEF Matched
      <4> QED BY <2>6, <4>1, <4>2, ChunksDoomed DEF Refused
    <3> QED BY <2>4, <2>6, <3>1 DEF Judges
  <2>7. CASE next.status = "MessageComplete" /\ Ended(next, t, n + 1)
    <3> DEFINE m == next.messageBytes
    <3>1. m \in 1..Len(t) /\ ChunkedLength(t, n + 1, MaxMessage) = m
      BY <2>7 DEF Ended
    <3>2. m # 0 /\ m <= Len(t) /\ m = MessageEnd(method, t, MaxMessage)
      BY <1>3, <1>4, <1>10, <3>1
    <3>3. \E b \in Texts : Begins(b, t) /\ Len(b) = m /\ Response(method, b, MaxMessage)
      BY <1>2, <3>2, EndsHere
    <3>4. EndsAt(t, HeadLength(t) + 1, m)
      BY <2>3, <2>7, <2>40 DEF Matched
    <3> QED BY <2>4, <2>7, <3>3, <3>4 DEF Judges, Answered
  <2> QED BY <2>3, <2>5, <2>6, <2>7 DEF Goes
<1> QED BY <1>3, <1>7, <1>8, <1>9, <1>10 DEF BodyModes

--------------------------------------------------------------------------------
(* consume and notify_eof *)

LEMMA EndsOn ==
    ASSUME NEW t \in Texts, NEW u \in Texts, Begins(t, u), HeadLength(t) # 0,
           HeadLength(t) <= Len(t), NEW m \in Nat, m <= Len(t), EndsAt(t, HeadLength(t) + 1, m)
    PROVE  EndsAt(u, HeadLength(t) + 1, m)
<1> DEFINE start == HeadLength(t) + 1
<1>1. Len(t) \in Nat /\ HeadLength(t) \in Nat
  BY HeadLengthIs, TextType
<1>2. start \in Nat \ {0} /\ start <= Len(t) + 1 /\ BodyAt(t, start)
  BY <1>1 DEF BodyAt
<1> HIDE DEF start
<1>3. After(u, start, m) = After(t, start, m)
  BY <1>2, AfterCommon
<1>4. Unfinished(u, start, start - 1, m - 1)
  <2>1. m - 1 \in Int /\ m - 1 <= Len(t)
    BY <1>1
  <2> QED BY <1>2, <2>1, UnfinishedOn DEF EndsAt, start
<1>5. LongLine(t) => LongLine(u)
  BY LongLineStays
<1> QED BY <1>3, <1>4, <1>5 DEF EndsAt, start

LEMMA AnsweredStays ==
    ASSUME NEW t \in Texts, NEW u \in Texts, Begins(t, u), NEW p, Answered(p, t)
    PROVE  Answered(p, u)
<1>1. PICK b \in Texts : /\ Begins(b, t) /\ Len(b) = p.messageBytes
                         /\ Response(p.method, b, MaxMessage)
  BY DEF Answered
<1>2. HeadLength(t) # 0 /\ ResponseHead(p.method, t)
  BY <1>1, EndsBeforeHead
<1>3. HeadLength(u) = HeadLength(t) /\ (HasChunks(p.method, u) <=> HasChunks(p.method, t))
  BY <1>2, ResponseHeadStays DEF HasChunks
<1>4. HeadLength(t) <= Len(b) /\ Len(b) <= Len(t) /\ Len(b) \in Nat /\ HeadLength(t) \in Nat
  <2>1. ResponseHead(p.method, b)
    BY <1>1 DEF Response
  <2>2. HeadLength(b) <= Len(b) /\ HeadLength(b) \in 1..MaxHeader /\ MaxHeader \in Nat
    BY <2>1, ResponseHeadTypes, SizeAssumption
  <2>20. HeadLength(b) # 0
    BY <2>2
  <2>3. HeadLength(t) = HeadLength(b)
    BY <1>1, <2>20, ResponseHeadStays
  <2> QED BY <1>1, <2>2, <2>3, TextType DEF Begins
<1>5. HasChunks(p.method, u) => EndsAt(u, HeadLength(u) + 1, p.messageBytes)
  <2>1. HasChunks(p.method, u) => EndsAt(t, HeadLength(t) + 1, Len(b))
    BY <1>1, <1>3 DEF Answered
  <2>2. HeadLength(t) <= Len(t)
    BY <1>2, HeadLengthIs
  <2> QED BY <1>1, <1>2, <1>3, <1>4, <2>1, <2>2, EndsOn
<1>6. \E c \in Texts : /\ Begins(c, u) /\ Len(c) = p.messageBytes
                      /\ Response(p.method, c, MaxMessage)
  BY <1>1, BeginsOn
<1> QED BY <1>5, <1>6 DEF Answered

\* consume between the check of the limit and the body.
LEMMA ConsumeSteps ==
    ASSUME NEW p, NEW t \in Texts, NEW chunk \in Texts, Judges(p, t), p.status = "NeedMoreData",
           ~(Len(chunk) > MaxMessage - Len(p.buffer))
    PROVE  \E h : /\ ResponseHeaded(h, t \o chunk) /\ h.method = p.method
                  /\ ConsumeResponse(p, chunk)
                       = IF h.status = "NeedMoreData" /\ h.headersParsed THEN ParseBody(h) ELSE h
<1> DEFINE u == t \o chunk
           appended == [p EXCEPT !.buffer = @ \o chunk]
           lined == ParseStatusLine(appended)
           headed == IF lined.status = "NeedMoreData" /\ lined.fieldsStart # 0 /\ ~lined.headersParsed
                     THEN ParseResponseFields(lined) ELSE lined
           next == ConsumeResponse(p, chunk)
<1>1. u \in Texts /\ Begins(t, u)
  BY Joined
<1>2. p \in ResponseRecords /\ Knows(p, t) /\ p.buffer = t /\ Len(t) <= MaxMessage
  BY DEF Judges, Awaits, Knows
<1>3. next = IF p.status # "NeedMoreData" THEN p
             ELSE IF Len(chunk) > MaxMessage - Len(p.buffer) THEN ResponseError(p)
             ELSE IF headed.status = "NeedMoreData" /\ headed.headersParsed
             THEN ParseBody(headed) ELSE headed
  BY Zenon DEF ConsumeResponse
<1>4. next = IF headed.status = "NeedMoreData" /\ headed.headersParsed
             THEN ParseBody(headed) ELSE headed
  BY <1>3
<1>5. appended \in ResponseRecords /\ Knows(appended, u) /\ appended.method = p.method
  <2>1. appended = [p EXCEPT !.buffer = u]
    BY <1>2
  <2> HIDE DEF u, appended
  <2> QED BY <1>1, <1>2, <2>1, KnowsOn
<1> HIDE DEF u, appended
<1>6. StatusLined(lined, u) /\ lined.method = p.method
  BY <1>1, <1>5, StatusStep
<1> HIDE DEF lined
<1>7. ResponseHeaded(headed, u) /\ headed.method = p.method
  <2>1. CASE lined.status = "NeedMoreData" /\ lined.fieldsStart # 0 /\ ~lined.headersParsed
    <3>1. lined \in ResponseRecords /\ Knows(lined, u)
      BY <1>6, <2>1 DEF StatusLined
    <3> QED BY <1>1, <1>6, <2>1, <3>1, ResponseFieldsStep
  <2>2. CASE ~(lined.status = "NeedMoreData" /\ lined.fieldsStart # 0 /\ ~lined.headersParsed)
    <3>1. headed = lined
      BY <2>2
    <3>2. lined \in ResponseRecords /\ lined.headersParsed \in BOOLEAN
      BY <1>6 DEF StatusLined, ResponseRecords
    <3> HIDE DEF headed
    <3> QED BY <1>6, <2>2, <3>1, <3>2 DEF StatusLined, ResponseHeaded, Knows
  <2> QED BY <2>1, <2>2
<1> HIDE DEF headed, next
<1> QED BY <1>4, <1>7 DEF next, u

\* consume: the parser has read what it had and the chunk, wherever it is cut.
LEMMA ConsumeJudges ==
    ASSUME NEW p, NEW t \in Texts, NEW chunk \in Texts, Judges(p, t)
    PROVE  /\ Judges(ConsumeResponse(p, chunk), t \o chunk)
           /\ ConsumeResponse(p, chunk).method = p.method
           /\ /\ p.status = "NeedMoreData"
              /\ ConsumeResponse(p, chunk).status = "MessageComplete"
              => ConsumeResponse(p, chunk).buffer = t \o chunk
<1> DEFINE u == t \o chunk
           next == ConsumeResponse(p, chunk)
<1>1. u \in Texts /\ Len(u) = Len(t) + Len(chunk) /\ Begins(t, u)
      /\ Len(t) \in Nat /\ Len(chunk) \in Nat
  BY Joined, TextType
<1>2. p \in ResponseRecords /\ MaxMessage \in Nat
  BY SizeAssumption DEF Judges, MaxMessage
<1>3. /\ p.status # "NeedMoreData" => next = p
      /\ p.status = "NeedMoreData" /\ Len(chunk) > MaxMessage - Len(p.buffer) => next = ResponseError(p)
  BY Zenon DEF ConsumeResponse
<1> SUFFICES /\ Judges(next, u) /\ next.method = p.method
             /\ p.status = "NeedMoreData" /\ next.status = "MessageComplete" => next.buffer = u
  OBVIOUS
<1>4. CASE p.status # "NeedMoreData"
  <2> HIDE DEF u
  <2>1. \/ p.status = "MessageComplete" /\ Answered(p, u)
        \/ p.status = "Error" /\ Doomed(p.method, u)
    BY <1>1, <1>4, AnsweredStays, DoomedStays DEF Judges, Awaits, Knows
  <2>2. next = p
    BY <1>3, <1>4
  <2> QED BY <1>2, <1>4, <2>1, <2>2 DEF Judges
<1>5. CASE p.status = "NeedMoreData"
  <2>1. Knows(p, t) /\ p.buffer = t /\ Len(t) <= MaxMessage
    BY <1>5 DEF Judges, Awaits, Knows
  <2>2. CASE Len(chunk) > MaxMessage - Len(p.buffer)
    <3>1. Len(u) > MaxMessage
      BY <1>1, <1>2, <2>1, <2>2
    <3>2. Doomed(p.method, u)
      BY <1>1, <3>1, TooLongDoomed
    <3>3. next = ResponseError(p)
      BY <1>3, <1>5, <2>2
    <3> HIDE DEF u, next
    <3> QED BY <1>2, <3>2, <3>3, ErrorRecord DEF Judges
  <2>3. CASE ~(Len(chunk) > MaxMessage - Len(p.buffer))
    <3>1. Len(u) <= MaxMessage
      BY <1>1, <1>2, <2>1, <2>3
    <3>2. PICK headed :
            /\ ResponseHeaded(headed, u) /\ headed.method = p.method
            /\ next = IF headed.status = "NeedMoreData" /\ headed.headersParsed
                      THEN ParseBody(headed) ELSE headed
      BY <1>5, <2>3, ConsumeSteps
    <3> HIDE DEF u, next
    <3>3. CASE headed.status = "NeedMoreData" /\ headed.headersParsed
      <4>1. headed \in ResponseRecords /\ Knows(headed, u)
        BY <3>2, <3>3 DEF ResponseHeaded
      <4>2. next = ParseBody(headed)
        BY <3>2, <3>3
      <4> QED BY <1>1, <3>1, <3>2, <3>3, <4>1, <4>2, ResponseBodyStep
    <3>4. CASE ~(headed.status = "NeedMoreData" /\ headed.headersParsed)
      <4>1. next = headed
        BY <3>2, <3>4
      <4>2. Judges(headed, u)
        <5>1. CASE headed.status = "NeedMoreData"
          <6>1. Knows(headed, u) /\ ~headed.headersParsed /\ HeadLength(u) = 0
            BY <3>2, <3>4, <5>1 DEF ResponseHeaded
          <6>2. Early(headed.method, u)
            BY <1>1, <6>1, NoHeadEarly
          <6> QED BY <3>1, <3>2, <6>1, <6>2 DEF ResponseHeaded, Judges, Awaits
        <5>2. CASE headed.status # "NeedMoreData"
          BY <3>2, <5>2, HeadlessDoomed DEF ResponseHeaded, Judges, Knows
        <5> QED BY <5>1, <5>2
      <4>3. headed.status # "MessageComplete"
        BY <3>2 DEF ResponseHeaded, Knows
      <4> QED BY <3>2, <4>1, <4>2, <4>3
    <3> QED BY <3>3, <3>4
  <2> QED BY <2>2, <2>3
<1> QED BY <1>4, <1>5

\* The parser has read t and the end of the connection.
JudgesClosed(p, t) ==
    \/ p.status = "MessageComplete" /\ Answered(p, t)
    \/ p.status = "MessageComplete" /\ p.messageBytes = Len(t) /\ ClosedResponse(p.method, t)
    \/ p.status = "Error" /\ DoomedAt(p.method, t)

LEMMA EofJudges ==
    ASSUME NEW p, NEW t \in Texts, Judges(p, t)
    PROVE  JudgesClosed(NotifyEof(p), t) /\ NotifyEof(p).method = p.method
<1> DEFINE next == NotifyEof(p)
<1>0. p \in ResponseRecords /\ Begins(t, t) /\ Len(t) \in Nat
  BY BeginsItself, TextType DEF Judges
<1>1. next = IF p.status # "NeedMoreData" THEN p
             ELSE IF ~p.headersParsed \/ p.mode # "CloseDelimited" THEN ResponseError(p)
             ELSE IF Len(p.buffer) - p.headerBytes > MaxBody THEN ResponseError(p)
             ELSE Completed(p, Len(p.buffer))
  BY Zenon DEF NotifyEof
<1> SUFFICES JudgesClosed(next, t) /\ next.method = p.method
  OBVIOUS
<1> HIDE DEF next
<1>2. CASE p.status # "NeedMoreData"
  <2>1. \/ p.status = "MessageComplete" /\ Answered(p, t)
        \/ p.status = "Error" /\ Doomed(p.method, t)
    BY <1>2 DEF Judges, Awaits, Knows
  <2>2. next = p
    BY <1>1, <1>2
  <2> QED BY <1>0, <2>1, <2>2 DEF JudgesClosed, Doomed
<1>3. CASE p.status = "NeedMoreData"
  <2>1. /\ p.buffer = t /\ Early(p.method, t) /\ (~p.headersParsed => HeadLength(t) = 0)
        /\ p.headersParsed => HeadKnown(p, t)
    BY <1>3 DEF Judges, Awaits, Knows
  <2>2. ~Response(p.method, t, MaxHeader - 2)
    <3>1. MaxHeader - 2 \in Int
      BY SizeAssumption
    <3> QED BY <1>0, <2>1, <3>1 DEF Early
  <2>3. /\ ResponseHead(p.method, t) => HeadLength(t) # 0
        /\ p.headersParsed => /\ ResponseHead(p.method, t) /\ p.headerBytes = HeadLength(t)
                              /\ p.mode = ModeIn(p.method, t)
    BY <2>1, ResponseHeadTypes DEF HeadKnown
  <2>4. CASE ~p.headersParsed \/ p.mode # "CloseDelimited" \/ ~(Len(t) - HeadLength(t) <= MaxBody)
    <3>1. ~ClosedResponse(p.method, t)
      BY <2>1, <2>3, <2>4 DEF ClosedResponse
    <3>2. next = ResponseError(p)
      <4>1. p.headersParsed => HeadLength(t) \in Nat /\ MaxBody \in Nat
        BY HeadLengthIs, SizeAssumption
      <4> QED BY <1>0, <1>1, <1>3, <2>1, <2>3, <2>4, <4>1
    <3>3. Decodable(p.method, t)
      BY <2>1 DEF Early, Unfinished, Decodable
    <3>4. Countable(p.method, t)
      BY <2>1, EarlyCounts
    <3> QED BY <1>0, <2>2, <3>1, <3>2, <3>3, <3>4, ErrorRecord DEF JudgesClosed, DoomedAt
  <2>5. CASE p.headersParsed /\ p.mode = "CloseDelimited" /\ Len(t) - HeadLength(t) <= MaxBody
    <3>1. ClosedResponse(p.method, t)
      BY <2>3, <2>5 DEF ClosedResponse
    <3>2. next = Completed(p, Len(t))
      <4>1. HeadLength(t) \in Nat /\ MaxBody \in Nat
        BY HeadLengthIs, SizeAssumption
      <4> QED BY <1>0, <1>1, <1>3, <2>1, <2>3, <2>5, <4>1
    <3> QED BY <1>0, <3>1, <3>2, CompletedRecord DEF JudgesClosed
  <2>6. p.headersParsed \in BOOLEAN
    BY <1>0 DEF ResponseRecords
  <2> QED BY <2>4, <2>5, <2>6
<1> QED BY <1>2, <1>3

--------------------------------------------------------------------------------
(* What has been received of a response *)

\* ResponseParser has read what has been received of a response.
ResponsesRead ==
    /\ message \in Messages
    /\ message.kind = "response" =>
         /\ read \in 0..Length
         /\ response.method = message.method
         /\ ~eof => Judges(response, Received)
         /\ eof => JudgesClosed(response, Received)

LEMMA ResponseType ==
    ASSUME message \in Messages
    PROVE  message.kind = "response" => /\ message.bytes \in Texts /\ message.method \in {"GET", "HEAD"}
                                        /\ Length \in Nat /\ Length = Len(message.bytes)
  BY StreamAssumption, TextType DEF Messages, Texts, Length

\* What begins a prefix is one.
LEMMA BeginningIsPrefix ==
    ASSUME message.bytes \in Texts, NEW n \in 0..Length, NEW b \in Texts, Begins(b, Prefix(n))
    PROVE  Len(b) \in 0..n /\ b = Prefix(Len(b))
<1>1. Len(b) \in Nat /\ Len(b) <= n /\ n \in Nat /\ Length \in Nat
  BY PrefixIs, TextType DEF Begins, Length
<1>2. Len(b) \in 0..n /\ Len(b) \in 0..Length
  BY <1>1
<1>3. \A i \in 1..Len(b) : b[i] = message.bytes[i]
  BY <1>1, PrefixIs DEF Begins
<1>4. /\ Prefix(Len(b)) \in Texts /\ Len(Prefix(Len(b))) = Len(b)
      /\ \A i \in 1..Len(b) : Prefix(Len(b))[i] = message.bytes[i]
  BY <1>2, PrefixIs
<1> QED BY <1>2, <1>3, <1>4, CutEqual

LEMMA ResponseReadBegins == Init => ResponsesRead
<1> SUFFICES ASSUME Init PROVE ResponsesRead
  OBVIOUS
<1>1. message \in Messages /\ read = 0 /\ eof = FALSE
      /\ response = NewResponseParser(message.method)
  BY DEF Init
<1>2. ASSUME message.kind = "response"
      PROVE  /\ read \in 0..Length /\ response.method = message.method
             /\ Judges(response, Received)
  <2>1. message.bytes \in Texts /\ message.method \in {"GET", "HEAD"} /\ Length \in Nat
    BY <1>1, <1>2, ResponseType
  <2>2. Prefix(0) = <<>>
    <3>1. 0 \in 0..Length
      BY <2>1
    <3> QED BY <2>1, <3>1, PrefixIs, EmptyText
  <2>3. Received = <<>>
    BY <1>1, <2>2 DEF Received, Prefix
  <2> QED BY <1>1, <2>1, <2>3, NewResponseJudges
<1> QED BY <1>1, <1>2 DEF ResponsesRead

LEMMA ResponseGoesOn ==
    ASSUME ResponsesRead, ~eof, NEW n \in Nat, ReceiveResponse(n)
    PROVE  ResponsesRead'
<1>1. /\ message \in Messages /\ message.kind = "response" /\ read \in 0..Length
      /\ response.method = message.method /\ Judges(response, Received)
      /\ message' = message /\ read' = read + n /\ read + n <= Length /\ eof' = eof
      /\ response' = ConsumeResponse(response, Piece(n))
  BY DEF ResponsesRead, ReceiveResponse
<1>2. message.bytes \in Texts /\ Length \in Nat /\ Length = Len(message.bytes)
  BY <1>1, ResponseType
<1>3. Received \in Texts /\ Piece(n) \in Texts
  <2>1. 1 \in Nat \ {0} /\ read + 1 \in Nat \ {0} /\ read \in Nat /\ read + n \in Nat
        /\ read <= Len(message.bytes) /\ read + n <= Len(message.bytes)
    BY <1>1, <1>2
  <2> QED BY <1>2, <2>1, Cut DEF Received, Piece
<1>4. Received' = Received \o Piece(n)
  <2>1. read \in Nat /\ read + n \in Nat /\ read <= read + n /\ read + n <= Len(message.bytes)
    BY <1>1, <1>2
  <2>2. SubSeq(message.bytes, 1, read) \o SubSeq(message.bytes, read + 1, read + n)
          = SubSeq(message.bytes, 1, read + n)
    BY <1>2, <2>1, CutJoined
  <2> QED BY <1>1, <2>2 DEF Received, Piece
<1>5. Judges(response', Received') /\ response'.method = message.method
  BY <1>1, <1>3, <1>4, ConsumeJudges
<1>6. Length' = Length /\ read' \in 0..Length
  BY <1>1, <1>2 DEF Length
<1> QED BY <1>1, <1>5, <1>6 DEF ResponsesRead

LEMMA ResponseReadKept == ResponsesRead /\ [Next]_vars => ResponsesRead'
<1> SUFFICES ASSUME ResponsesRead, [Next]_vars PROVE ResponsesRead'
  OBVIOUS
<1>1. ASSUME NEW n \in RecvSizes \cup {Length - read}, n > 0, ReceiveResponse(n), ~eof
      PROVE  ResponsesRead'
  <2>1. message \in Messages /\ message.kind = "response" /\ read \in 0..Length
    BY <1>1 DEF ResponsesRead, ReceiveResponse
  <2>2. n \in Nat
    BY <1>1, <2>1, ResponseType, StreamAssumption
  <2> QED BY <1>1, <2>2, ResponseGoesOn
<1>2. ASSUME NEW n \in RecvSizes \cup {Length - read}, ReceiveRequest(n)
      PROVE  ResponsesRead'
  BY <1>2 DEF ResponsesRead, ReceiveRequest
<1>3. ASSUME UpstreamCloses
      PROVE  ResponsesRead'
  <2>1. /\ message \in Messages /\ message.kind = "response" /\ read \in 0..Length /\ ~eof
        /\ response.method = message.method /\ Judges(response, Received)
        /\ message' = message /\ read' = read /\ eof' = TRUE
        /\ response' = NotifyEof(response)
    BY <1>3 DEF ResponsesRead, UpstreamCloses
  <2>2. Received \in Texts
    BY <2>1, ResponseType, PrefixIs DEF Received, Prefix
  <2>3. Received' = Received /\ Length' = Length
    BY <2>1 DEF Received, Length
  <2>4. JudgesClosed(response', Received') /\ response'.method = message.method
    BY <2>1, <2>2, <2>3, EofJudges
  <2> QED BY <2>1, <2>3, <2>4 DEF ResponsesRead
<1>4. ASSUME UNCHANGED vars
      PROVE  ResponsesRead'
  BY <1>4 DEF ResponsesRead, vars, Length, Received
<1> QED BY <1>1, <1>2, <1>3, <1>4 DEF Next

LEMMA ResponseVerdictFollows == ResponsesRead => ResponseVerdict
<1> SUFFICES ASSUME ResponsesRead, message.kind = "response"
             PROVE  /\ response.status = "MessageComplete" =>
                         \/ IsResponse(Prefix(response.messageBytes), MaxMessage)
                         \/ (eof /\ response.messageBytes = read /\ IsClosedResponse(Received))
                    /\ response.status = "NeedMoreData" =>
                         \A n \in 0..read : ~IsResponse(Prefix(n), MaxHeader)
                    /\ response.status = "Error" =>
                         /\ \A n \in read..(IF eof THEN read ELSE Length) :
                              IsResponse(Prefix(n), MaxHeader - 2) => n > MaxMessage
                         /\ eof => ~IsClosedResponse(Received)
  BY DEF ResponseVerdict
<1>1. /\ message \in Messages /\ read \in 0..Length /\ message.bytes \in Texts /\ Length \in Nat
      /\ response.method = message.method
      /\ ~eof => Judges(response, Received)
      /\ eof => JudgesClosed(response, Received)
  BY ResponseType DEF ResponsesRead
<1>2. Received = Prefix(read) /\ Received \in Texts /\ Len(Received) = read
  BY <1>1, PrefixIs DEF Received, Prefix
<1>3. MaxHeader \in Int /\ MaxHeader - 2 \in Int
  BY SizeAssumption
<1>4. ASSUME Answered(response, Received)
      PROVE  IsResponse(Prefix(response.messageBytes), MaxMessage)
  <2>1. PICK b \in Texts : /\ Begins(b, Received) /\ Len(b) = response.messageBytes
                           /\ Response(message.method, b, MaxMessage)
    BY <1>1, <1>4 DEF Answered
  <2>2. b = Prefix(response.messageBytes)
    BY <1>1, <1>2, <2>1, BeginningIsPrefix
  <2> QED BY <2>1, <2>2, ResponseIs
<1>5. ASSUME response.status = "MessageComplete"
      PROVE  \/ IsResponse(Prefix(response.messageBytes), MaxMessage)
             \/ (eof /\ response.messageBytes = read /\ IsClosedResponse(Received))
  <2>1. CASE ~eof
    BY <1>1, <1>4, <1>5, <2>1 DEF Judges, Awaits, Knows
  <2>2. CASE eof
    BY <1>1, <1>2, <1>4, <1>5, <2>2, ResponseIs DEF JudgesClosed
  <2> QED BY <2>1, <2>2
<1>6. ASSUME response.status = "NeedMoreData", NEW n \in 0..read
      PROVE  ~IsResponse(Prefix(n), MaxHeader)
  <2>1. ~eof /\ Early(message.method, Received)
    BY <1>1, <1>6 DEF Judges, JudgesClosed, Awaits, Knows
  <2>2. n \in 0..Length
    BY <1>1
  <2>3. Prefix(n) \in Texts /\ Begins(Prefix(n), Received)
    BY <1>1, <1>2, <2>2, PrefixIs, PrefixBegins
  <2>4. ~Response(message.method, Prefix(n), MaxHeader)
    BY <1>3, <2>1, <2>3 DEF Early
  <2> QED BY <2>3, <2>4, ResponseIs
<1>7. ASSUME response.status = "Error", NEW n \in read..(IF eof THEN read ELSE Length)
      PROVE  IsResponse(Prefix(n), MaxHeader - 2) => n > MaxMessage
  <2>1. n \in 0..Length /\ read \in 0..n
    BY <1>1
  <2>2. Prefix(n) \in Texts /\ Len(Prefix(n)) = n /\ Begins(Received, Prefix(n))
    BY <1>1, <1>2, <2>1, PrefixIs, PrefixBegins
  <2>3. DoomedAt(message.method, Prefix(n))
    <3>1. CASE ~eof
      <4>1. Doomed(message.method, Received)
        BY <1>1, <1>7, <3>1 DEF Judges, Awaits, Knows
      <4> QED BY <2>2, <4>1 DEF Doomed
    <3>2. CASE eof
      <4>1. n = read
        BY <1>1, <3>2
      <4> QED BY <1>1, <1>2, <1>7, <3>2, <4>1 DEF JudgesClosed
    <3> QED BY <3>1, <3>2
  <2> QED BY <2>2, <2>3, ResponseIs DEF DoomedAt
<1>8. ASSUME response.status = "Error", eof
      PROVE  ~IsClosedResponse(Received)
  BY <1>1, <1>2, <1>8, ResponseIs DEF JudgesClosed, DoomedAt
<1> QED BY <1>5, <1>6, <1>7, <1>8

\* ResponseParser completes exactly where a response ends, wherever recv has cut
\* it, and rejects no beginning of one within the limits (consume, notify_eof,
\* response_parser.cpp).
THEOREM ResponsesDecided == Spec => []ResponseVerdict
  BY ResponseReadBegins, ResponseReadKept, ResponseVerdictFollows, PTL DEF Spec

--------------------------------------------------------------------------------
(* A head that is parsed alone *)

\* What select_body_mode has found out about a head stays with the parser.
HeadKept(p, q) ==
    q.headerBytes = p.headerBytes /\ q.mode = p.mode /\ q.contentLength = p.contentLength

LEMMA HeadIsParsed ==
    ASSUME NEW method \in {"GET", "HEAD"}, NEW t \in Texts, Len(t) <= MaxHeader
    PROVE  \E h : /\ ResponseHeaded(h, t) /\ h.method = method
                  /\ ConsumeResponse(NewResponseParser(method), t)
                       = IF h.status = "NeedMoreData" /\ h.headersParsed THEN ParseBody(h) ELSE h
<1> DEFINE p == NewResponseParser(method)
<1>1. /\ <<>> \o t = t /\ <<>> \in Texts /\ Len(<<>>) = 0 /\ Len(t) \in Nat
  <2>1. t \in Seq(Symbols)
    BY DEF Texts
  <2>2. <<>> \o t = t
    BY <2>1, ConcatEmptySeq
  <2> QED BY <2>2, EmptyText, TextType
<1>2. Judges(p, <<>>) /\ p.method = method /\ p.status = "NeedMoreData" /\ p.buffer = <<>>
  BY NewResponseJudges DEF NewResponseParser
<1>3. ~(Len(t) > MaxMessage - Len(p.buffer))
  <2>1. Len(p.buffer) = 0 /\ MaxMessage \in Nat /\ Len(t) <= MaxMessage
    BY <1>1, <1>2, SizeAssumption DEF MaxMessage
  <2> QED BY <1>1, <2>1
<1> HIDE DEF p
<1>4. \E h : /\ ResponseHeaded(h, <<>> \o t) /\ h.method = p.method
             /\ ConsumeResponse(p, t)
                  = IF h.status = "NeedMoreData" /\ h.headersParsed THEN ParseBody(h) ELSE h
  BY <1>1, <1>2, <1>3, ConsumeSteps
<1> QED BY <1>1, <1>2, <1>4 DEF p

\* Behind the head alone there is nothing of a chunked body to go on with.
LEMMA ChunksWait ==
    ASSUME NEW p, NEW t, NEW start, Rounds(p, t, start), Matches(p, t, start),
           HeadLength(t) = Len(t), Len(t) <= MaxHeader
    PROVE  ParseChunkedBody(p) = p
<1>1. /\ p.buffer = t /\ t \in Texts /\ p.status = "NeedMoreData" /\ Len(t) \in Nat
      /\ p.position \in Nat /\ p.chunkState = "Data" => p.chunkSize \in 1..Room(p)
      /\ Room(p) \in 0..MaxBody /\ MaxBody \in Nat /\ p \in ResponseRecords
  BY RoundTypes
<1>2. /\ p.position \in start..(Len(t) + 1) /\ start = HeadLength(t) + 1 /\ HeadLength(t) # 0
  BY MatchTypes
<1>3. p.position = Len(t) + 1 /\ Len(t) # 0 /\ MaxHeader \in Nat
  BY <1>1, <1>2, SizeAssumption
<1>4. CASE p.chunkState = "SizeLine"
  <2> DEFINE end == Find(t, CRLF, p.position)
  <2>1. end = 0
    <3>1. p.position \in Nat \ {0}
      BY <1>1, <1>3
    <3>2. end # 0 => FirstLineEnd(t, p.position, end)
      BY <1>1, <3>1, FindLine
    <3> HIDE DEF end
    <3>3. end # 0 => end \in p.position..(Len(t) - 1)
      BY <3>2 DEF FirstLineEnd
    <3> QED BY <1>1, <1>3, <3>3
  <2>2. ~(Len(t) - (p.position - 1) >= MaxHeader)
    BY <1>1, <1>3
  <2>3. ReadSizeLine(p) = p
    <3> HIDE DEF end
    <3>1. ReadSizeLine(p) = IF end = 0
            THEN IF Len(t) - (p.position - 1) >= MaxHeader THEN ResponseError(p) ELSE p
            ELSE ReadSizeLine(p)
      BY <1>1, Zenon DEF ReadSizeLine, end
    <3> QED BY <2>1, <2>2, <3>1
  <2>4. ChunkRound(p) = p
    BY <1>1, <1>4, <2>3 DEF ChunkRound
  <2> QED BY <1>1, <2>4, LoopIdle
<1>5. CASE p.chunkState = "Data"
  <2>1. Len(t) < p.position + p.chunkSize + 1
    BY <1>1, <1>3, <1>5
  <2>2. ReadChunkData(p) = p
    BY <1>1, <2>1 DEF ReadChunkData
  <2>3. ChunkRound(p) = p
    BY <1>1, <1>5, <2>2 DEF ChunkRound
  <2> QED BY <1>1, <2>3, LoopIdle
<1>6. CASE p.chunkState = "Trailers"
  <2>1. LastChunk(t, p.trailersStart)
    BY <1>6 DEF Matches
  <2>2. PICK i \in BodyLines(t) : TRUE
    BY <2>1 DEF LastChunk
  <2>3. i \in (Len(t) + 1)..Len(t)
    BY <2>2 DEF BodyLines
  <2> QED BY <1>1, <2>3
<1> QED BY <1>1, <1>4, <1>5, <1>6 DEF ResponseRecords, ChunkStates

LEMMA HeadUnchanged ==
    ASSUME NEW p \in ResponseRecords, NEW t \in Texts, Knows(p, t), p.headersParsed,
           HeadLength(t) = Len(t), Len(t) <= MaxHeader
    PROVE  HeadKept(p, ParseBody(p)) /\ ParseBody(p).status # "Error"
<1>1. HeadKnown(p, t) /\ p.buffer = t /\ p.status = "NeedMoreData"
  BY DEF Knows
<1>2. /\ ResponseHead(p.method, t) /\ p.headerBytes = HeadLength(t) /\ p.mode = ModeIn(p.method, t)
      /\ p.mode \in BodyModes /\ Len(t) \in Nat /\ MaxBody \in Nat
  BY <1>1, ResponseHeadTypes, TextType, SizeAssumption DEF HeadKnown
<1>3. \A n : HeadKept(p, Completed(p, n)) /\ Completed(p, n).status # "Error"
  BY DEF HeadKept, Completed, ResponseRecords
<1>4. HeadKept(p, p) /\ p.status # "Error"
  BY <1>1 DEF HeadKept
<1>5. CASE p.mode = "NoBody"
  BY <1>3, <1>5 DEF ParseBody
<1>6. CASE p.mode = "ContentLength"
  BY <1>3, <1>4, <1>6 DEF ParseBody
<1>7. CASE p.mode = "Chunked"
  <2>1. Rounds(p, t, HeadLength(t) + 1) /\ Matches(p, t, HeadLength(t) + 1)
    <3>1. Len(t) <= MaxMessage
      BY <1>2, SizeAssumption DEF MaxMessage
    <3> QED BY <1>1, <1>7, <3>1 DEF HeadKnown, Rounds
  <2>2. ParseChunkedBody(p) = p
    BY <2>1, ChunksWait
  <2> QED BY <1>4, <1>7, <2>2 DEF ParseBody
<1>8. CASE p.mode = "CloseDelimited"
  <2>1. ~(Len(p.buffer) - p.headerBytes > MaxBody)
    BY <1>1, <1>2
  <2> QED BY <1>4, <1>8, <2>1 DEF ParseBody
<1> QED BY <1>2, <1>5, <1>6, <1>7, <1>8 DEF BodyModes

\* The parser finds out about a head alone what it finds out about the whole
\* response, and rejects it only where no response begins so.
LEMMA HeadAlone ==
    ASSUME NEW method \in {"GET", "HEAD"}, NEW t \in Texts, HeadLength(t) = Len(t), Len(t) # 0,
           Len(t) <= MaxHeader
    PROVE  LET q == ConsumeResponse(NewResponseParser(method), t)
           IN  \/ q.status = "Error" /\ Headless(method, t)
               \/ /\ q.status # "Error" /\ q.headerBytes # 0 /\ ResponseHead(method, t)
                  /\ q.mode = ModeIn(method, t)
                  /\ q.mode = "ContentLength" => q.contentLength = LengthIn(t)
<1> DEFINE q == ConsumeResponse(NewResponseParser(method), t)
<1>1. PICK h : /\ ResponseHeaded(h, t) /\ h.method = method
               /\ q = IF h.status = "NeedMoreData" /\ h.headersParsed THEN ParseBody(h) ELSE h
  BY HeadIsParsed
<1> HIDE DEF q
<1>2. CASE h.status = "Error"
  <2>1. Headless(method, t)
    BY <1>1, <1>2 DEF ResponseHeaded, Knows
  <2> QED BY <1>1, <1>2, <2>1 DEF q
<1>3. CASE h.status # "Error"
  <2>1. h \in ResponseRecords /\ Knows(h, t) /\ h.headersParsed
    BY <1>1, <1>3 DEF ResponseHeaded, ResponseRecords
  <2>2. q = ParseBody(h)
    BY <1>1, <2>1 DEF Knows
  <2>3. HeadKept(h, q) /\ q.status # "Error"
    BY <2>1, <2>2, HeadUnchanged
  <2>4. /\ ResponseHead(method, t) /\ h.headerBytes = HeadLength(t) /\ h.mode = ModeIn(method, t)
        /\ h.mode = "ContentLength" => h.contentLength = LengthIn(t)
    BY <1>1, <2>1 DEF Knows, HeadKnown
  <2> QED BY <2>3, <2>4 DEF HeadKept, q
<1> QED BY <1>2, <1>3

--------------------------------------------------------------------------------
(* ReliableSession: a response, as far as it has come *)

ListenerRecords == [phase: Phases, head: Texts, mode: BodyModes, left: Nat, received: Nat,
                    decoder: DecoderRecords, taken: Nat]

\* More of the body is to come.
Hearing(method, r, t) ==
    /\ ResponseHead(method, t) /\ r.mode = ModeIn(method, t) /\ r.mode # "NoBody"
    /\ r.taken = Len(t)
    /\ r.mode = "ContentLength" => r.left = MessageEnd(method, t, 0) - Len(t) /\ r.left # 0
    /\ r.mode = "Chunked" => /\ r.decoder = After(t, HeadLength(t) + 1, Len(t))
                             /\ r.decoder.state \notin {"Complete", "Error"}
    /\ r.mode = "CloseDelimited" => r.received = Len(t) - HeadLength(t) /\ r.received <= MaxBody

\* The response is whole, and more may have come behind it.
Heard(method, r, t) ==
    /\ ResponseHead(method, t) /\ ModeIn(method, t) # "CloseDelimited"
    /\ r.taken \in HeadLength(t)..Len(t)
    /\ ModeIn(method, t) \in {"NoBody", "ContentLength"} => r.taken = MessageEnd(method, t, 0)
    /\ ModeIn(method, t) = "Chunked" => After(t, HeadLength(t) + 1, r.taken).state = "Complete"

\* It is none, or goes on behind its end in the recv that has brought the end.
Unheard(method, t) ==
    \/ Headless(method, t)
    \/ /\ ResponseHead(method, t)
       /\ ModeIn(method, t) \in {"NoBody", "ContentLength"} => Len(t) > MessageEnd(method, t, 0)
       /\ ModeIn(method, t) = "Chunked" => After(t, HeadLength(t) + 1, Len(t)).state = "Error"
       /\ ModeIn(method, t) = "CloseDelimited" => Len(t) - HeadLength(t) > MaxBody

Listens(method, r, t) ==
    /\ r \in ListenerRecords
    /\ \/ /\ r.phase = "Head" /\ r.head = t /\ HeadLength(t) = 0
          /\ r.decoder = NewDecoder /\ r.received = 0
       \/ r.phase = "Body" /\ Hearing(method, r, t)
       \/ r.phase = "Complete" /\ Heard(method, r, t)
       \/ r.phase = "Rejected" /\ Unheard(method, t)

LEMMA NewListens == \A method : Listens(method, NewResponseReceiver, <<>>)
  BY EmptyText, NewDecoderIs DEF Listens, NewResponseReceiver, ListenerRecords, Phases, BodyModes

LEMMA RejectedListener ==
    ASSUME NEW r \in ListenerRecords
    PROVE  Rejected(r) \in ListenerRecords /\ Rejected(r).phase = "Rejected"
  BY DEF Rejected, ListenerRecords, Phases

\* Where a body of a known length ends.
LEMMA CountedEnd ==
    ASSUME NEW method, NEW t \in Texts, ResponseHead(method, t)
    PROVE  /\ HeadLength(t) \in 1..MaxHeader /\ HeadLength(t) <= Len(t) /\ Len(t) \in Nat
           /\ MaxHeader \in Nat /\ MaxBody \in Nat /\ ModeIn(method, t) \in BodyModes
           /\ ModeIn(method, t) = "NoBody" => MessageEnd(method, t, 0) = HeadLength(t)
           /\ ModeIn(method, t) = "ContentLength" =>
                /\ MessageEnd(method, t, 0) = HeadLength(t) + LengthIn(t)
                /\ LengthIn(t) \in 0..MaxBody
           /\ ModeIn(method, t) \in {"NoBody", "ContentLength"} =>
                MessageEnd(method, t, 0) \in Nat /\ MessageEnd(method, t, 0) # 0
           /\ BodyAt(t, HeadLength(t) + 1) /\ (HeadLength(t) + 1) - 1 = HeadLength(t)
           /\ HeadLength(t) \in Nat
<1>1. /\ HeadLength(t) \in 1..MaxHeader /\ HeadLength(t) <= Len(t)
      /\ ModeIn(method, t) \in BodyModes
      /\ ModeIn(method, t) = "ContentLength" => LengthIn(t) \in 0..MaxBody
  BY ResponseHeadTypes
<1>2. MaxHeader \in Nat /\ MaxBody \in Nat /\ Len(t) \in Nat
  BY SizeAssumption, TextType
<1>3. /\ ModeIn(method, t) = "NoBody" => MessageEnd(method, t, 0) = HeadLength(t)
      /\ ModeIn(method, t) = "ContentLength" =>
           MessageEnd(method, t, 0) = HeadLength(t) + LengthIn(t)
  BY DEF MessageEnd
<1>4. HeadLength(t) \in Nat /\ HeadLength(t) # 0
  BY <1>1, <1>2
<1>5. BodyAt(t, HeadLength(t) + 1) /\ (HeadLength(t) + 1) - 1 = HeadLength(t)
  BY <1>1, <1>2, <1>4 DEF BodyAt
<1>6. ModeIn(method, t) \in {"NoBody", "ContentLength"} =>
        MessageEnd(method, t, 0) \in Nat /\ MessageEnd(method, t, 0) # 0
  BY <1>1, <1>2, <1>3, <1>4
<1> QED BY <1>1, <1>2, <1>3, <1>4, <1>5, <1>6

\* What is decided stays decided when more is received.
LEMMA EndKept ==
    ASSUME NEW method, NEW t \in Texts, NEW u \in Texts, Begins(t, u), ResponseHead(method, t)
    PROVE  /\ ResponseHead(method, u) /\ HeadLength(u) = HeadLength(t)
           /\ ModeIn(method, u) = ModeIn(method, t) /\ LengthIn(u) = LengthIn(t)
           /\ ModeIn(method, t) \in {"NoBody", "ContentLength"} =>
                MessageEnd(method, u, 0) = MessageEnd(method, t, 0)
           /\ Len(t) <= Len(u) /\ Len(u) \in Nat /\ Len(t) \in Nat
<1>1. HeadLength(t) # 0
  BY ResponseHeadTypes
<1>2. /\ ResponseHead(method, u) /\ HeadLength(u) = HeadLength(t)
      /\ ModeIn(method, u) = ModeIn(method, t) /\ LengthIn(u) = LengthIn(t)
  BY <1>1, ResponseHeadStays
<1>3. Len(t) <= Len(u) /\ Len(u) \in Nat /\ Len(t) \in Nat
  BY TextType DEF Begins
<1> QED BY <1>2, <1>3 DEF MessageEnd

LEMMA HeardStays ==
    ASSUME NEW method, NEW r, NEW t \in Texts, NEW u \in Texts, Begins(t, u), Heard(method, r, t)
    PROVE  Heard(method, r, u)
<1>1. ResponseHead(method, t) /\ r.taken \in HeadLength(t)..Len(t)
  BY DEF Heard
<1>2. /\ ResponseHead(method, u) /\ HeadLength(u) = HeadLength(t)
      /\ ModeIn(method, u) = ModeIn(method, t)
      /\ ModeIn(method, t) \in {"NoBody", "ContentLength"} =>
           MessageEnd(method, u, 0) = MessageEnd(method, t, 0)
      /\ Len(t) <= Len(u) /\ Len(u) \in Nat /\ Len(t) \in Nat
  BY <1>1, EndKept
<1>3. HeadLength(t) \in Nat /\ BodyAt(t, HeadLength(t) + 1)
  BY <1>1, CountedEnd
<1>4. r.taken \in HeadLength(u)..Len(u) /\ r.taken \in Nat /\ r.taken <= Len(t)
  BY <1>1, <1>2, <1>3
<1>5. After(u, HeadLength(u) + 1, r.taken) = After(t, HeadLength(t) + 1, r.taken)
  BY <1>2, <1>3, <1>4, AfterCommon DEF BodyAt
<1> QED BY <1>2, <1>4, <1>5 DEF Heard

LEMMA UnheardStays ==
    ASSUME NEW method, NEW t \in Texts, NEW u \in Texts, Begins(t, u), Unheard(method, t)
    PROVE  Unheard(method, u)
<1>1. CASE Headless(method, t)
  BY <1>1, HeadlessStays DEF Unheard
<1>2. CASE ~Headless(method, t)
  <2>1. /\ ResponseHead(method, t)
        /\ ModeIn(method, t) \in {"NoBody", "ContentLength"} => Len(t) > MessageEnd(method, t, 0)
        /\ ModeIn(method, t) = "Chunked" => After(t, HeadLength(t) + 1, Len(t)).state = "Error"
        /\ ModeIn(method, t) = "CloseDelimited" => Len(t) - HeadLength(t) > MaxBody
    BY <1>2 DEF Unheard
  <2>2. /\ ResponseHead(method, u) /\ HeadLength(u) = HeadLength(t)
        /\ ModeIn(method, u) = ModeIn(method, t)
        /\ ModeIn(method, t) \in {"NoBody", "ContentLength"} =>
             MessageEnd(method, u, 0) = MessageEnd(method, t, 0)
        /\ Len(t) <= Len(u) /\ Len(u) \in Nat /\ Len(t) \in Nat
    BY <2>1, EndKept
  <2>3. /\ HeadLength(t) \in Nat /\ BodyAt(t, HeadLength(t) + 1) /\ MaxBody \in Nat
        /\ (HeadLength(t) + 1) - 1 = HeadLength(t) /\ HeadLength(t) <= Len(t)
        /\ ModeIn(method, t) \in {"NoBody", "ContentLength"} => MessageEnd(method, t, 0) \in Nat
    BY <2>1, CountedEnd
  <2>4. ModeIn(method, t) \in {"NoBody", "ContentLength"} => Len(u) > MessageEnd(method, u, 0)
    BY <2>1, <2>2, <2>3
  <2>5. ModeIn(method, t) = "CloseDelimited" => Len(u) - HeadLength(u) > MaxBody
    BY <2>1, <2>2, <2>3
  <2>6. ASSUME ModeIn(method, t) = "Chunked"
        PROVE  After(u, HeadLength(u) + 1, Len(u)).state = "Error"
    <3> DEFINE start == HeadLength(t) + 1
    <3>1. After(u, start, Len(t)) = After(t, start, Len(t)) /\ BodyAt(u, start)
      <4>1. start \in Nat \ {0} /\ Len(t) <= Len(t)
        BY <2>2, <2>3 DEF BodyAt
      <4> HIDE DEF start
      <4>2. BodyAt(t, start)
        BY <2>3 DEF start
      <4> QED BY <2>2, <4>1, <4>2, AfterCommon, BodyOn
    <3>2. Len(t) \in (start - 1)..Len(u) /\ (Len(u) = Len(t) \/ Len(u) \in (Len(t) + 1)..Len(u))
      BY <2>2, <2>3
    <3>3. After(u, start, Len(t)).state = "Error"
      BY <2>1, <2>6, <3>1
    <3>4. \A m \in (Len(t) + 1)..Len(u) : After(u, start, m).state = "Error"
      <4> HIDE DEF start
      <4> QED BY <3>1, <3>2, <3>3, Absorbed
    <3>5. After(u, start, Len(u)).state = "Error"
      <4> HIDE DEF start
      <4> QED BY <3>2, <3>3, <3>4
    <3> QED BY <2>2, <3>5
  <2> QED BY <2>2, <2>4, <2>5, <2>6 DEF Unheard
<1> QED BY <1>1, <1>2

\* append_response_body: the receiver goes on in the body by a count or a decoder.
LEMMA BodyAppended ==
    ASSUME NEW method, NEW r \in ListenerRecords, NEW t \in Texts, NEW bytes \in Texts,
           Hearing(method, r, t)
    PROVE  Listens(method, AppendResponseBody(r, bytes), t \o bytes)
<1> DEFINE u == t \o bytes
           n == Len(bytes)
           next == AppendResponseBody(r, bytes)
           decoder == Decode(r.decoder, bytes)
<1>1. u \in Texts /\ Len(u) = Len(t) + n /\ Begins(t, u) /\ n \in Nat
  BY Joined, TextType
<1>2. ResponseHead(method, t) /\ r.mode = ModeIn(method, t) /\ r.taken = Len(t) /\ r.mode # "NoBody"
  BY DEF Hearing
<1>3. /\ HeadLength(t) \in 1..MaxHeader /\ HeadLength(t) <= Len(t) /\ Len(t) \in Nat
      /\ MaxBody \in Nat /\ r.mode \in BodyModes /\ HeadLength(t) \in Nat
      /\ r.mode = "ContentLength" => MessageEnd(method, t, 0) \in Nat
      /\ BodyAt(t, HeadLength(t) + 1)
  BY <1>2, CountedEnd
<1>4. /\ ResponseHead(method, u) /\ HeadLength(u) = HeadLength(t)
      /\ ModeIn(method, u) = r.mode
      /\ r.mode = "ContentLength" => MessageEnd(method, u, 0) = MessageEnd(method, t, 0)
  BY <1>1, <1>2, EndKept
<1> SUFFICES Listens(method, next, u)
  OBVIOUS
<1>5. CASE r.mode = "ContentLength"
  <2>1. next = IF n > r.left THEN Rejected(r)
               ELSE [r EXCEPT !.taken = r.taken + n, !.left = r.left - n,
                              !.phase = IF n = r.left THEN "Complete" ELSE "Body"]
    BY <1>5 DEF AppendResponseBody, ListenerRecords
  <2>2. r.left = MessageEnd(method, t, 0) - Len(t) /\ r.left \in Nat
    BY <1>5 DEF Hearing, ListenerRecords
  <2> HIDE DEF u, next, n
  <2>3. CASE n > r.left
    <3>1. Len(u) > MessageEnd(method, u, 0)
      BY <1>1, <1>3, <1>4, <1>5, <2>2, <2>3
    <3>2. Unheard(method, u)
      BY <1>4, <1>5, <3>1 DEF Unheard
    <3> QED BY <2>1, <2>3, <3>2, RejectedListener DEF Listens
  <2>4. CASE ~(n > r.left)
    <3> DEFINE left == r.left - n
               taken == r.taken + n
               phase == IF n = r.left THEN "Complete" ELSE "Body"
    <3>1. /\ left \in Nat /\ taken = Len(u) /\ taken \in Nat /\ phase \in Phases
          /\ left = MessageEnd(method, u, 0) - Len(u)
          /\ n = r.left => Len(u) = MessageEnd(method, u, 0)
          /\ n # r.left => left # 0
      BY <1>1, <1>2, <1>3, <1>4, <1>5, <2>2, <2>4 DEF Phases
    <3>2. next = [r EXCEPT !.taken = taken, !.left = left, !.phase = phase]
      BY <2>1, <2>4
    <3>3. phase = IF n = r.left THEN "Complete" ELSE "Body"
      OBVIOUS
    <3> HIDE DEF left, taken, phase
    <3>4. /\ next \in ListenerRecords /\ next.taken = taken /\ next.left = left
          /\ next.phase = phase /\ next.mode = r.mode
      BY <3>1, <3>2 DEF ListenerRecords
    <3>5. CASE n = r.left
      <4>1. Heard(method, next, u)
        <5>1. Len(u) \in HeadLength(u)..Len(u)
          BY <1>1, <1>3, <1>4
        <5> QED BY <1>4, <1>5, <3>1, <3>4, <3>5, <5>1 DEF Heard
      <4> QED BY <3>3, <3>4, <3>5, <4>1 DEF Listens
    <3>6. CASE n # r.left
      <4>1. Hearing(method, next, u)
        BY <1>4, <1>5, <3>1, <3>4, <3>6 DEF Hearing
      <4> QED BY <3>3, <3>4, <3>6, <4>1 DEF Listens
    <3> QED BY <3>5, <3>6
  <2> QED BY <2>3, <2>4
<1>6. CASE r.mode = "Chunked"
  <2>1. next = IF decoder.state = "Error" THEN Rejected(r)
               ELSE [r EXCEPT !.taken = r.taken + n, !.decoder = decoder,
                              !.phase = IF decoder.state = "Complete" THEN "Complete" ELSE "Body"]
    BY <1>6 DEF AppendResponseBody, ListenerRecords
  <2>2. decoder = After(u, HeadLength(t) + 1, Len(u))
    <3>1. r.decoder = After(t, HeadLength(t) + 1, Len(t))
      BY <1>6 DEF Hearing
    <3>2. HeadLength(t) + 1 \in Nat \ {0} /\ HeadLength(t) + 1 <= Len(t) + 1
      BY <1>3
    <3> QED BY <3>1, <3>2, DecodeOn
  <2>3. decoder \in DecoderRecords
    <3>1. /\ HeadLength(t) + 1 \in Nat \ {0} /\ HeadLength(t) + 1 <= Len(u) + 1
          /\ Len(u) \in ((HeadLength(t) + 1) - 1)..Len(u)
      BY <1>1, <1>3
    <3> HIDE DEF decoder, u
    <3> QED BY <1>1, <2>2, <3>1, AfterType
  <2> HIDE DEF u, next, n, decoder
  <2>4. CASE decoder.state = "Error"
    <3>1. Unheard(method, u)
      BY <1>4, <1>6, <2>2, <2>4 DEF Unheard
    <3> QED BY <2>1, <2>4, <3>1, RejectedListener DEF Listens
  <2>5. CASE decoder.state # "Error"
    <3> DEFINE taken == r.taken + n
               phase == IF decoder.state = "Complete" THEN "Complete" ELSE "Body"
    <3>1. taken = Len(u) /\ taken \in Nat /\ phase \in Phases
          /\ Len(u) \in HeadLength(u)..Len(u)
      BY <1>1, <1>2, <1>3, <1>4 DEF Phases
    <3>2. next = [r EXCEPT !.taken = taken, !.decoder = decoder, !.phase = phase]
      BY <2>1, <2>5
    <3>3. phase = IF decoder.state = "Complete" THEN "Complete" ELSE "Body"
      OBVIOUS
    <3> HIDE DEF taken, phase
    <3>4. /\ next \in ListenerRecords /\ next.taken = taken /\ next.decoder = decoder
          /\ next.phase = phase /\ next.mode = r.mode
      BY <2>3, <3>1, <3>2 DEF ListenerRecords
    <3>5. CASE decoder.state = "Complete"
      <4>1. Heard(method, next, u)
        BY <1>4, <1>6, <2>2, <3>1, <3>4, <3>5 DEF Heard
      <4> QED BY <3>3, <3>4, <3>5, <4>1 DEF Listens
    <3>6. CASE decoder.state # "Complete"
      <4>1. Hearing(method, next, u)
        BY <1>4, <1>6, <2>2, <2>5, <3>1, <3>4, <3>6 DEF Hearing
      <4> QED BY <3>3, <3>4, <3>6, <4>1 DEF Listens
    <3> QED BY <3>5, <3>6
  <2> QED BY <2>4, <2>5
<1>7. CASE r.mode = "CloseDelimited"
  <2>1. next = IF n > MaxBody - r.received THEN Rejected(r)
               ELSE [r EXCEPT !.taken = r.taken + n, !.received = r.received + n, !.phase = "Body"]
    BY <1>7 DEF AppendResponseBody, ListenerRecords
  <2>2. r.received = Len(t) - HeadLength(t) /\ r.received \in Nat
    BY <1>7 DEF Hearing, ListenerRecords
  <2> HIDE DEF u, next, n
  <2>3. CASE n > MaxBody - r.received
    <3>1. Len(u) - HeadLength(u) > MaxBody
      BY <1>1, <1>3, <1>4, <2>2, <2>3
    <3>2. Unheard(method, u)
      BY <1>4, <1>7, <3>1 DEF Unheard
    <3> QED BY <2>1, <2>3, <3>2, RejectedListener DEF Listens
  <2>4. CASE ~(n > MaxBody - r.received)
    <3> DEFINE taken == r.taken + n
               received == r.received + n
    <3>1. /\ taken = Len(u) /\ taken \in Nat /\ received \in Nat /\ "Body" \in Phases
          /\ received = Len(u) - HeadLength(u) /\ received <= MaxBody
      BY <1>1, <1>2, <1>3, <1>4, <2>2, <2>4 DEF Phases
    <3>2. next = [r EXCEPT !.taken = taken, !.received = received, !.phase = "Body"]
      BY <2>1, <2>4
    <3> HIDE DEF taken, received
    <3>3. /\ next \in ListenerRecords /\ next.taken = taken /\ next.received = received
          /\ next.phase = "Body" /\ next.mode = r.mode
      BY <3>1, <3>2 DEF ListenerRecords
    <3>4. Hearing(method, next, u)
      BY <1>4, <1>7, <3>1, <3>3 DEF Hearing
    <3> QED BY <3>3, <3>4 DEF Listens
  <2> QED BY <2>3, <2>4
<1> QED BY <1>2, <1>3, <1>5, <1>6, <1>7 DEF BodyModes

\* A text is its head and what is behind it.
LEMMA HeadCut ==
    ASSUME NEW t \in Texts, HeadLength(t) # 0
    PROVE  LET n == HeadLength(t)
               head == SubSeq(t, 1, n)
               extra == SubSeq(t, n + 1, Len(t))
           IN  /\ head \in Texts /\ Len(head) = n /\ HeadLength(head) = n /\ Begins(head, t)
               /\ extra \in Texts /\ head \o extra = t
<1> DEFINE n == HeadLength(t)
           head == SubSeq(t, 1, n)
           extra == SubSeq(t, n + 1, Len(t))
<1>1. n \in Nat /\ n # 0 /\ n <= Len(t) /\ Len(t) \in Nat /\ FirstHeadEnd(t, n - 3)
      /\ n - 3 \in Nat
  BY HeadLengthIs, FindHead, TextType
<1>2. head \in Texts /\ Len(head) = n /\ \A i \in 1..n : head[i] = t[i]
  <2>1. /\ head \in Texts /\ Len(head) = IF 1 <= n THEN (n - 1) + 1 ELSE 0
        /\ \A i \in 1..((n - 1) + 1) : head[i] = t[(1 + i) - 1]
    <3>1. 1 \in Nat \ {0}
      OBVIOUS
    <3> HIDE DEF n
    <3> QED BY <1>1, <3>1, Cut
  <2> HIDE DEF head, n
  <2> QED BY <1>1, <2>1
<1>3. extra \in Texts
  <2> HIDE DEF n
  <2>1. n + 1 \in Nat \ {0} /\ Len(t) <= Len(t)
    BY <1>1
  <2> QED BY <1>1, <2>1, Cut
<1>4. head \o extra = t
  <2>1. SubSeq(t, 1, n) \o SubSeq(t, n + 1, Len(t)) = SubSeq(t, 1, Len(t))
    <3>1. Len(t) <= Len(t)
      BY <1>1
    <3> HIDE DEF n, head, extra
    <3> QED BY <1>1, <3>1, CutJoined
  <2> QED BY <2>1, WholeCut
<1> HIDE DEF head, extra, n
<1>5. Begins(head, t)
  BY <1>1, <1>2 DEF Begins
<1>6. HeadLength(head) = n
  <2>1. FirstHeadEnd(head, n - 3)
    BY <1>1, <1>2, <1>5, HeadGoesOn
  <2>2. Find(head, CRLF \o CRLF, 1) = n - 3
    BY <1>2, <2>1, HeadAt
  <2>3. n - 3 # 0
    BY <2>1 DEF FirstHeadEnd
  <2> QED BY <1>1, <1>2, <2>2, <2>3, HeadLengthIs
<1> QED BY <1>2, <1>3, <1>4, <1>5, <1>6 DEF head, extra, n

\* finish_response_head: the head is read, and the body behind it.
LEMMA ResponseHeadFinished ==
    ASSUME message.method \in {"GET", "HEAD"}, NEW r \in ListenerRecords,
           r.decoder = NewDecoder, r.received = 0,
           NEW t \in Texts, HeadLength(t) # 0, HeadLength(t) <= MaxHeader,
           NEW head, head = SubSeq(t, 1, HeadLength(t)),
           NEW extra, extra = SubSeq(t, HeadLength(t) + 1, Len(t))
    PROVE  Listens(message.method, FinishResponseHead(r, head, extra), t)
<1> DEFINE method == message.method
           p == ConsumeResponse(NewResponseParser(method), head)
           left == IF p.mode = "ContentLength" THEN p.contentLength ELSE 0
           w == [r EXCEPT !.head = head, !.mode = p.mode, !.taken = Len(head), !.left = left]
           next == FinishResponseHead(r, head, extra)
<1>1. /\ head \in Texts /\ Len(head) = HeadLength(t) /\ HeadLength(head) = HeadLength(t)
      /\ Begins(head, t) /\ extra \in Texts /\ head \o extra = t
  BY HeadCut
<1>2. next = IF p.status = "Error" \/ p.headerBytes = 0 THEN Rejected(r)
             ELSE IF p.mode = "NoBody" \/ (p.mode = "ContentLength" /\ p.contentLength = 0)
             THEN IF extra # <<>> THEN Rejected(w) ELSE [w EXCEPT !.phase = "Complete"]
             ELSE IF extra = <<>> THEN [w EXCEPT !.phase = "Body"]
             ELSE AppendResponseBody(w, extra)
  BY Zenon DEF FinishResponseHead
<1>3. \/ p.status = "Error" /\ Headless(method, head)
      \/ /\ p.status # "Error" /\ p.headerBytes # 0 /\ ResponseHead(method, head)
         /\ p.mode = ModeIn(method, head)
         /\ p.mode = "ContentLength" => p.contentLength = LengthIn(head)
  <2>1. HeadLength(head) = Len(head) /\ Len(head) # 0 /\ Len(head) <= MaxHeader
    BY <1>1
  <2> QED BY <1>1, <2>1, HeadAlone
<1> SUFFICES Listens(method, next, t)
  OBVIOUS
<1> HIDE DEF next, p
<1>4. CASE p.status = "Error"
  <2>1. Unheard(method, t)
    BY <1>1, <1>3, <1>4, HeadlessStays DEF Unheard
  <2> QED BY <1>2, <1>4, <2>1, RejectedListener DEF Listens
<1>5. CASE p.status # "Error"
  <2>1. /\ p.headerBytes # 0 /\ ResponseHead(method, head) /\ p.mode = ModeIn(method, head)
        /\ p.mode = "ContentLength" => p.contentLength = LengthIn(head)
    BY <1>3, <1>5
  <2>2. next = IF p.mode = "NoBody" \/ (p.mode = "ContentLength" /\ p.contentLength = 0)
               THEN IF extra # <<>> THEN Rejected(w) ELSE [w EXCEPT !.phase = "Complete"]
               ELSE IF extra = <<>> THEN [w EXCEPT !.phase = "Body"]
               ELSE AppendResponseBody(w, extra)
    BY <1>2, <1>5, <2>1
  <2>3. /\ HeadLength(head) \in 1..MaxHeader /\ Len(head) \in Nat /\ HeadLength(head) \in Nat
        /\ MaxHeader \in Nat /\ MaxBody \in Nat /\ p.mode \in BodyModes
        /\ p.mode = "NoBody" => MessageEnd(method, head, 0) = HeadLength(head)
        /\ p.mode = "ContentLength" =>
             /\ MessageEnd(method, head, 0) = HeadLength(head) + p.contentLength
             /\ p.contentLength \in 0..MaxBody
        /\ BodyAt(head, HeadLength(head) + 1) /\ (HeadLength(head) + 1) - 1 = HeadLength(head)
    BY <1>1, <2>1, CountedEnd
  <2>4. /\ left \in Nat
        /\ p.mode = "ContentLength" => left = p.contentLength
    BY <2>3
  <2> HIDE DEF left
  <2>5. /\ w \in ListenerRecords /\ w.mode = p.mode /\ w.taken = Len(head) /\ w.left = left
        /\ w.decoder = NewDecoder /\ w.received = 0
    <3> HIDE DEF w, p
    <3>1. /\ head \in Texts /\ Len(head) \in Nat /\ left \in Nat /\ p.mode \in BodyModes
      BY <1>1, <2>3, <2>4
    <3> DEFINE mode == p.mode
               taken == Len(head)
    <3>2. w = [r EXCEPT !.head = head, !.mode = mode, !.taken = taken, !.left = left]
      BY DEF w
    <3>3. mode \in BodyModes /\ taken \in Nat
      BY <3>1
    <3>4. mode = p.mode /\ taken = Len(head)
      OBVIOUS
    <3> HIDE DEF mode, taken
    <3>5. /\ w \in ListenerRecords /\ w.mode = mode /\ w.taken = taken /\ w.left = left
          /\ w.decoder = r.decoder /\ w.received = r.received
      BY <3>1, <3>2, <3>3 DEF ListenerRecords
    <3> QED BY <3>4, <3>5
  <2> DEFINE over == [w EXCEPT !.phase = "Complete"]
             on == [w EXCEPT !.phase = "Body"]
  <2>6. /\ over \in ListenerRecords /\ over.phase = "Complete" /\ over.taken = w.taken
        /\ on \in ListenerRecords /\ on.phase = "Body" /\ on.mode = w.mode /\ on.taken = w.taken
        /\ on.left = w.left /\ on.decoder = w.decoder /\ on.received = w.received
    BY <2>5 DEF ListenerRecords, Phases
  <2> HIDE DEF w, over, on
  <2>7. extra = <<>> => t = head
    <3>1. head \in Seq(Symbols)
      BY <1>1 DEF Texts
    <3>2. head \o <<>> = head
      BY <3>1, ConcatEmptySeq
    <3> QED BY <1>1, <3>2
  <2>8. CASE p.mode = "NoBody" \/ (p.mode = "ContentLength" /\ p.contentLength = 0)
    <3>1. MessageEnd(method, head, 0) = Len(head) /\ ModeIn(method, head) = p.mode
      BY <1>1, <2>1, <2>3, <2>8
    <3>2. CASE extra = <<>>
      <4>1. Len(head) \in HeadLength(head)..Len(head)
        BY <1>1, <2>3
      <4>2. Heard(method, over, head)
        BY <2>1, <2>5, <2>6, <2>8, <3>1, <4>1 DEF Heard
      <4>3. next = over
        BY <2>2, <2>8, <3>2 DEF over
      <4> QED BY <2>6, <2>7, <3>2, <4>2, <4>3 DEF Listens
    <3>3. CASE extra # <<>>
      <4>1. Len(t) > Len(head) /\ Len(extra) \in Nat
        <5>1. Len(extra) \in Nat /\ Len(extra) # 0
          BY <1>1, <3>3, TextType, EmptyText
        <5>2. Len(t) = Len(head) + Len(extra)
          <6>1. head \in Texts /\ extra \in Texts /\ t = head \o extra
            BY <1>1
          <6> QED BY ONLY <6>1, Joined
        <5>3. Len(head) \in Nat
          BY <2>3
        <5> QED BY ONLY <5>1, <5>2, <5>3
      <4>2. /\ ResponseHead(method, t) /\ ModeIn(method, t) = p.mode
            /\ MessageEnd(method, t, 0) = Len(head)
        <5>1. /\ ResponseHead(method, t) /\ ModeIn(method, t) = ModeIn(method, head)
              /\ ModeIn(method, head) \in {"NoBody", "ContentLength"} =>
                   MessageEnd(method, t, 0) = MessageEnd(method, head, 0)
          <6> HIDE DEF method
          <6> QED BY <1>1, <2>1, EndKept
        <5> QED BY <2>1, <2>8, <3>1, <5>1
      <4>3. Unheard(method, t)
        BY <2>8, <4>1, <4>2 DEF Unheard
      <4>4. next = Rejected(w)
        BY <2>2, <2>8, <3>3
      <4> QED BY <2>5, <4>3, <4>4, RejectedListener DEF Listens
    <3> QED BY <3>2, <3>3
  <2>9. CASE ~(p.mode = "NoBody" \/ (p.mode = "ContentLength" /\ p.contentLength = 0))
    <3>1. After(head, HeadLength(head) + 1, Len(head)) = NewDecoder
      <4>1. HeadLength(head) + 1 \in Nat \ {0} /\ HeadLength(head) + 1 <= Len(head) + 1
            /\ (HeadLength(head) + 1) - 1 = Len(head)
        BY <1>1, <2>3
      <4> DEFINE start == HeadLength(head) + 1
      <4>2. start \in Nat \ {0} /\ start <= Len(head) + 1 /\ start - 1 = Len(head)
        BY <4>1
      <4> HIDE DEF start
      <4>3. After(head, start, start - 1) = NewDecoder
        BY <1>1, <4>2, AfterStep
      <4> QED BY <4>2, <4>3 DEF start
    <3>2. NewDecoder.state = "SizeLine"
      BY DEF NewDecoder
    <3>3. p.mode = "ContentLength" =>
            left = MessageEnd(method, head, 0) - Len(head) /\ left # 0
      <4>1. HeadLength(head) \in Nat /\ Len(head) = HeadLength(head)
        BY <1>1, <2>3
      <4>2. p.mode = "ContentLength" =>
              /\ MessageEnd(method, head, 0) = HeadLength(head) + p.contentLength
              /\ p.contentLength \in Nat /\ left = p.contentLength /\ p.contentLength # 0
        BY <2>3, <2>4, <2>9
      <4> DEFINE end == MessageEnd(method, head, 0)
      <4>3. ASSUME p.mode = "ContentLength"
            PROVE  left = end - Len(head) /\ left # 0
        <5>1. /\ end = HeadLength(head) + p.contentLength /\ p.contentLength \in Nat
              /\ left = p.contentLength /\ p.contentLength # 0
          BY <4>2, <4>3
        <5> HIDE DEF end
        <5> QED BY ONLY <4>1, <5>1
      <4> QED BY <4>3
    <3>4. Len(head) - HeadLength(head) = 0 /\ 0 <= MaxBody
      BY <1>1, <2>3
    <3>5. Hearing(method, w, head)
      BY <2>1, <2>5, <2>9, <3>1, <3>2, <3>3, <3>4 DEF Hearing
    <3>6. CASE extra = <<>>
      <4>1. Hearing(method, on, head)
        BY <2>6, <3>5 DEF Hearing
      <4>2. next = on
        BY <2>2, <2>9, <3>6 DEF on
      <4> QED BY <2>6, <2>7, <3>6, <4>1, <4>2 DEF Listens
    <3>7. CASE extra # <<>>
      <4>1. next = AppendResponseBody(w, extra)
        BY <2>2, <2>9, <3>7
      <4>2. Listens(method, AppendResponseBody(w, extra), head \o extra)
        BY <1>1, <2>5, <3>5, BodyAppended
      <4> QED BY <1>1, <4>1, <4>2
    <3> QED BY <3>6, <3>7
  <2> QED BY <2>8, <2>9
<1> QED BY <1>4, <1>5

LEMMA JoinedBegins ==
    ASSUME NEW t \in Texts, NEW a \in Texts, NEW b \in Texts, Begins(a, b)
    PROVE  Begins(t \o a, t \o b)
<1>1. Len(t) \in Nat /\ Len(a) \in Nat /\ Len(b) \in Nat /\ Len(a) <= Len(b)
      /\ \A i \in 1..Len(a) : a[i] = b[i]
  BY TextType DEF Begins
<1>2. Len(t \o a) = Len(t) + Len(a) /\ Len(t \o b) = Len(t) + Len(b)
  BY Joined
<1>3. ASSUME NEW i \in 1..(Len(t) + Len(a))
      PROVE  (t \o a)[i] = (t \o b)[i]
  <2> DEFINE S == Symbols
  <2>1. t \in Seq(S) /\ a \in Seq(S) /\ b \in Seq(S)
    BY DEF Texts
  <2> HIDE DEF S
  <2>2. (t \o a)[i] = IF i <= Len(t) THEN t[i] ELSE a[i - Len(t)]
    BY <1>1, <2>1
  <2>3. (t \o b)[i] = IF i <= Len(t) THEN t[i] ELSE b[i - Len(t)]
    <3>1. i \in 1..(Len(t) + Len(b))
      BY <1>1
    <3> QED BY <1>1, <2>1, <3>1
  <2>4. i <= Len(t) \/ i - Len(t) \in 1..Len(a)
    BY <1>1
  <2> QED BY <1>1, <2>2, <2>3, <2>4
<1> QED BY <1>1, <1>2, <1>3 DEF Begins

\* read_upstream, which asks for no more than the rest of a counted body.
LEMMA ReadListens ==
    ASSUME message.method \in {"GET", "HEAD"}, NEW r, NEW t \in Texts, NEW bytes \in Texts,
           Listens(message.method, r, t)
    PROVE  Listens(message.method, ReadResponse(r, bytes), t \o bytes)
<1> DEFINE method == message.method
           u == t \o bytes
           capacity == IF r.phase = "Body" /\ r.mode = "ContentLength" /\ r.left < Len(bytes)
                       THEN r.left ELSE Len(bytes)
           some == SubSeq(bytes, 1, capacity)
           next == ReadResponse(r, bytes)
<1>1. /\ u \in Texts /\ Len(u) = Len(t) + Len(bytes) /\ Begins(t, u)
      /\ Len(t) \in Nat /\ Len(bytes) \in Nat /\ r \in ListenerRecords
  BY Joined, TextType DEF Listens
<1>2. next = IF r.phase \in {"Head", "Body"} THEN AcceptResponseBytes(r, some) ELSE r
  BY Zenon DEF ReadResponse
<1>3. capacity = Len(bytes) => some = bytes
  BY WholeCut
<1> SUFFICES Listens(method, next, u)
  OBVIOUS
<1>4. CASE r.phase = "Rejected"
  <2>1. Unheard(method, t) /\ next = r
    BY <1>2, <1>4 DEF Listens
  <2> HIDE DEF u, next
  <2>2. Unheard(method, u)
    BY <1>1, <2>1, UnheardStays
  <2> QED BY <1>1, <1>4, <2>1, <2>2 DEF Listens
<1>5. CASE r.phase = "Complete"
  <2>1. Heard(method, r, t) /\ next = r
    BY <1>2, <1>5 DEF Listens
  <2> HIDE DEF u, next
  <2>2. Heard(method, r, u)
    BY <1>1, <2>1, HeardStays
  <2> QED BY <1>1, <1>5, <2>1, <2>2 DEF Listens
<1>6. CASE r.phase = "Head"
  <2> DEFINE end == Find(u, CRLF \o CRLF, 1) + 3
  <2>1. r.head = t /\ r.decoder = NewDecoder /\ r.received = 0
    BY <1>6 DEF Listens
  <2>2. next = AcceptResponseBytes(r, bytes)
    BY <1>2, <1>3, <1>6
  <2>3. next = IF end = 3
               THEN IF Len(u) > MaxHeader THEN Rejected(r) ELSE [r EXCEPT !.head = u]
               ELSE IF end > MaxHeader THEN Rejected(r)
               ELSE FinishResponseHead(r, SubSeq(u, 1, end), SubSeq(u, end + 1, Len(u)))
    BY <1>6, <2>1, <2>2 DEF AcceptResponseBytes
  <2>4. (end = 3 <=> HeadLength(u) = 0) /\ (end # 3 => end = HeadLength(u)) /\ end \in Nat
    <3>1. u \in Texts
      BY <1>1
    <3> HIDE DEF u
    <3> QED BY <3>1, HeadLengthIs, FindHead
  <2>5. MaxHeader \in Nat /\ Len(u) \in Nat
    BY <1>1, SizeAssumption
  <2> HIDE DEF u, end, next
  <2>6. CASE end = 3 /\ Len(u) > MaxHeader
    <3>1. Headless(method, u)
      <4>1. HeadLength(u) = 0 /\ Len(u) >= MaxHeader
        BY <2>4, <2>5, <2>6
      <4> QED BY <1>1, <4>1, NoHeadAtAll
    <3> QED BY <1>1, <2>3, <2>6, <3>1, RejectedListener DEF Listens, Unheard
  <2>7. CASE end = 3 /\ ~(Len(u) > MaxHeader)
    <3>1. next = [r EXCEPT !.head = u]
      BY <2>3, <2>7
    <3>2. next \in ListenerRecords /\ next.head = u /\ next.phase = "Head"
          /\ next.decoder = NewDecoder /\ next.received = 0
      BY <1>1, <1>6, <2>1, <3>1 DEF ListenerRecords
    <3> QED BY <2>4, <2>7, <3>2 DEF Listens
  <2>8. CASE end # 3 /\ end > MaxHeader
    <3>1. HeadLength(u) # 0 /\ ~ResponseHead(method, u)
      BY <2>4, <2>5, <2>8 DEF ResponseHead
    <3>2. Unheard(method, u)
      BY <1>1, <3>1, BadResponseNoHead DEF Unheard
    <3> QED BY <1>1, <2>3, <2>8, <3>2, RejectedListener DEF Listens
  <2>9. CASE end # 3 /\ ~(end > MaxHeader)
    <3>1. next = FinishResponseHead(r, SubSeq(u, 1, HeadLength(u)),
                                   SubSeq(u, HeadLength(u) + 1, Len(u)))
      BY <2>3, <2>4, <2>9
    <3>2. HeadLength(u) # 0 /\ HeadLength(u) <= MaxHeader
      BY <2>4, <2>5, <2>9
    <3> HIDE DEF method
    <3>3. Listens(message.method, FinishResponseHead(r, SubSeq(u, 1, HeadLength(u)),
                                   SubSeq(u, HeadLength(u) + 1, Len(u))), u)
      BY <1>1, <2>1, <3>2, ResponseHeadFinished
    <3> QED BY <3>1, <3>3 DEF method
  <2> QED BY <2>6, <2>7, <2>8, <2>9
<1>7. CASE r.phase = "Body"
  <2>1. Hearing(method, r, t) /\ r.left \in Nat
    BY <1>7 DEF Listens, ListenerRecords
  <2>2. next = AppendResponseBody(r, some)
    BY <1>2, <1>7 DEF AcceptResponseBytes
  <2>3. CASE capacity = Len(bytes)
    <3>1. Listens(method, AppendResponseBody(r, bytes), t \o bytes)
      BY <1>1, <2>1, BodyAppended
    <3> QED BY <1>3, <2>2, <2>3, <3>1
  <2>4. CASE capacity # Len(bytes)
    <3>1. r.mode = "ContentLength" /\ r.left < Len(bytes) /\ capacity = r.left
      BY <2>4
    <3>2. some \in Texts /\ Len(some) = r.left /\ Begins(some, bytes)
      <4>1. 1 \in Nat \ {0} /\ r.left <= Len(bytes)
        BY <1>1, <2>1, <3>1
      <4>2. /\ some \in Texts /\ Len(some) = IF 1 <= r.left THEN (r.left - 1) + 1 ELSE 0
            /\ \A i \in 1..((r.left - 1) + 1) : some[i] = bytes[(1 + i) - 1]
        BY <2>1, <3>1, <4>1, Cut
      <4> HIDE DEF some, capacity
      <4>3. Len(some) = r.left /\ Len(some) <= Len(bytes)
        BY <1>1, <2>1, <4>1, <4>2
      <4>4. ASSUME NEW i \in 1..Len(some)
            PROVE  some[i] = bytes[i]
        BY <2>1, <4>2, <4>3
      <4> QED BY <4>2, <4>3, <4>4 DEF Begins
    <3> HIDE DEF some, capacity
    <3>3. Listens(method, next, t \o some)
      BY <1>1, <2>1, <2>2, <3>2, BodyAppended
    <3>4. next.phase = "Complete"
      <4>1. next = [r EXCEPT !.taken = r.taken + Len(some), !.left = r.left - Len(some),
                             !.phase = "Complete"]
        BY <1>1, <2>1, <2>2, <3>1, <3>2 DEF AppendResponseBody, ListenerRecords
      <4> HIDE DEF next
      <4> QED BY <1>1, <4>1 DEF ListenerRecords
    <3>5. t \o some \in Texts /\ Begins(t \o some, u)
      BY <1>1, <3>2, Joined, JoinedBegins
    <3> HIDE DEF next, u
    <3>6. Heard(method, next, t \o some) /\ next \in ListenerRecords
      BY <3>3, <3>4 DEF Listens
    <3>7. Heard(method, next, u)
      BY <1>1, <3>5, <3>6, HeardStays
    <3> QED BY <3>4, <3>6, <3>7 DEF Listens
  <2> QED BY <2>3, <2>4
<1> QED BY <1>1, <1>4, <1>5, <1>6, <1>7 DEF ListenerRecords, Phases

--------------------------------------------------------------------------------
(* Where a response ends, for both *)

LEMMA AnsweredIs ==
    ASSUME NEW p, NEW t \in Texts, Answered(p, t)
    PROVE  /\ ResponseHead(p.method, t) /\ ModeIn(p.method, t) # "CloseDelimited"
           /\ p.messageBytes \in HeadLength(t)..Len(t)
           /\ ModeIn(p.method, t) \in {"NoBody", "ContentLength"} =>
                p.messageBytes = MessageEnd(p.method, t, 0)
           /\ ModeIn(p.method, t) = "Chunked" =>
                EndsAt(t, HeadLength(t) + 1, p.messageBytes)
<1> DEFINE method == p.method
           m == p.messageBytes
<1>1. PICK b \in Texts : Begins(b, t) /\ Len(b) = m /\ Response(method, b, MaxMessage)
  BY DEF Answered
<1>2. /\ ResponseHead(method, t) /\ MessageEnd(method, t, MaxMessage) = m /\ m # 0
  BY <1>1, EndsBeforeHead
<1>3. ModeIn(method, t) # "CloseDelimited"
  BY <1>2 DEF MessageEnd
<1>4. ModeIn(method, t) \in {"NoBody", "ContentLength"} => m = MessageEnd(method, t, 0)
  BY <1>2 DEF MessageEnd
<1>5. ModeIn(method, t) = "Chunked" => EndsAt(t, HeadLength(t) + 1, m)
  BY <1>2 DEF Answered, HasChunks
<1>6. m \in HeadLength(t)..Len(t)
  <2>1. ResponseHead(method, b)
    BY <1>1 DEF Response
  <2>2. HeadLength(b) <= Len(b) /\ HeadLength(b) \in Nat /\ HeadLength(b) = HeadLength(t)
        /\ Len(b) <= Len(t) /\ Len(b) \in Nat /\ Len(t) \in Nat
    BY <1>1, <2>1, CountedEnd, EndKept
  <2> QED BY <1>1, <2>2
<1> QED BY <1>2, <1>3, <1>4, <1>5, <1>6

\* What the parser has whole the receiver has too, or it has rejected it for a
\* reason of its own.
LEMMA BothWhole ==
    ASSUME NEW p, NEW r, NEW t \in Texts, Answered(p, t), Listens(p.method, r, t)
    PROVE  \/ r.phase = "Complete" /\ p.messageBytes = r.taken
           \/ r.phase = "Rejected" /\ (Len(t) > p.messageBytes \/ LongLine(t))
<1> DEFINE method == p.method
           m == p.messageBytes
           n == HeadLength(t)
           mode == ModeIn(method, t)
<1>1. /\ ResponseHead(method, t) /\ mode # "CloseDelimited" /\ m \in n..Len(t)
      /\ mode \in {"NoBody", "ContentLength"} => m = MessageEnd(method, t, 0)
      /\ mode = "Chunked" => EndsAt(t, n + 1, m)
  BY AnsweredIs
<1>2. /\ n \in 1..MaxHeader /\ Len(t) \in Nat /\ mode \in BodyModes /\ n \in Nat /\ n # 0
      /\ MaxHeader \in Nat /\ BodyAt(t, n + 1) /\ (n + 1) - 1 = n
  BY <1>1, CountedEnd, SizeAssumption
<1>3. m \in Nat /\ m <= Len(t) /\ n <= m
  BY <1>1, <1>2
<1>4. r.phase # "Head"
  BY <1>2 DEF Listens
<1>5. ~Headless(method, t)
  BY <1>1, BeginsItself DEF Headless
<1>6. r \in ListenerRecords
  BY DEF Listens
<1>7. CASE mode \in {"NoBody", "ContentLength"}
  <2>1. m = MessageEnd(method, t, 0)
    BY <1>1, <1>7
  <2>2. r.phase # "Body"
    <3>1. SUFFICES ASSUME r.phase = "Body" PROVE FALSE
      OBVIOUS
    <3>2. r.mode = mode /\ r.mode # "NoBody"
          /\ (r.mode = "ContentLength" => r.left = MessageEnd(method, t, 0) - Len(t) /\ r.left # 0)
      BY <3>1 DEF Listens, Hearing
    <3>3. r.left = m - Len(t) /\ r.left # 0 /\ r.left \in Nat
      BY <1>6, <1>7, <2>1, <3>2 DEF ListenerRecords
    <3> HIDE DEF m, n, mode, method
    <3> QED BY <1>2, <1>3, <3>3
  <2>3. r.phase = "Complete" => r.taken = m
    BY <1>7, <2>1 DEF Listens, Heard
  <2>4. r.phase = "Rejected" => Len(t) > m
    BY <1>5, <1>7, <2>1 DEF Listens, Unheard
  <2> QED BY <1>4, <1>6, <2>2, <2>3, <2>4 DEF ListenerRecords, Phases
<1>8. CASE mode = "Chunked"
  <2> DEFINE start == n + 1
  <2>1. /\ Unfinished(t, start, start - 1, m - 1)
        /\ \/ After(t, start, m).state = "Complete"
           \/ After(t, start, m).state = "Error" /\ LongLine(t)
    BY <1>1, <1>8 DEF EndsAt
  <2>2. /\ BodyAt(t, start) /\ start - 1 = n
        /\ r.phase = "Body" => After(t, start, Len(t)).state \notin {"Complete", "Error"}
        /\ r.phase = "Complete" => /\ r.taken \in n..Len(t)
                                   /\ After(t, start, r.taken).state = "Complete"
        /\ r.phase = "Rejected" => After(t, start, Len(t)).state = "Error"
    <3>1. BodyAt(t, start) /\ start - 1 = n
      BY <1>2
    <3>2. r.phase = "Body" => After(t, start, Len(t)).state \notin {"Complete", "Error"}
      BY <1>8 DEF Listens, Hearing
    <3>3. r.phase = "Complete" => /\ r.taken \in n..Len(t)
                                  /\ After(t, start, r.taken).state = "Complete"
      BY <1>8 DEF Listens, Heard
    <3>4. r.phase = "Rejected" => After(t, start, Len(t)).state = "Error"
      BY <1>5, <1>8 DEF Listens, Unheard
    <3> QED BY <3>1, <3>2, <3>3, <3>4
  <2> HIDE DEF start, n, m, mode, method
  <2>3. m \in (start - 1)..Len(t) /\ (m = Len(t) \/ Len(t) \in (m + 1)..Len(t))
    BY <1>2, <1>3, <2>2
  <2>4. \A k \in (m + 1)..Len(t) : After(t, start, k).state = "Error"
    BY <2>1, <2>2, <2>3, Absorbed
  <2>5. After(t, start, Len(t)).state \in {"Complete", "Error"}
    BY <2>1, <2>3, <2>4
  <2>6. ASSUME r.phase = "Complete"
        PROVE  r.taken = m
    <3> DEFINE k == r.taken
    <3>1. k \in n..Len(t) /\ After(t, start, k).state = "Complete" /\ k \in Nat
      BY <1>2, <2>2, <2>6
    <3> HIDE DEF k
    <3>2. ~(k \in (m + 1)..Len(t))
      BY <2>4, <3>1
    <3>3. ~(k \in (start - 1)..(m - 1))
      BY <2>1, <3>1 DEF Unfinished
    <3>4. k = m
      BY <1>2, <1>3, <2>2, <3>1, <3>2, <3>3
    <3> QED BY <3>4 DEF k
  <2>7. ASSUME r.phase = "Rejected"
        PROVE  Len(t) > m \/ LongLine(t)
    <3>1. CASE m = Len(t)
      BY <2>1, <2>2, <2>7, <3>1
    <3>2. CASE m # Len(t)
      BY <1>2, <1>3, <3>2
    <3> QED BY <3>1, <3>2
  <2> QED BY <1>4, <1>6, <2>2, <2>5, <2>6, <2>7 DEF ListenerRecords, Phases, m
<1> QED BY <1>1, <1>2, <1>7, <1>8 DEF BodyModes

\* What the receiver has whole the parser has too, or it has rejected it for a
\* reason of its own.
LEMMA HeardJudged ==
    ASSUME NEW p, NEW r, NEW t \in Texts, Judges(p, t), Listens(p.method, r, t),
           r.phase = "Complete"
    PROVE  \/ p.status = "MessageComplete"
           \/ /\ p.status = "Error"
              /\ Excused(t, r.taken) \/ Len(t) > MaxMessage
<1> DEFINE method == p.method
           n == HeadLength(t)
           mode == ModeIn(method, t)
           taken == r.taken
<1>1. /\ ResponseHead(method, t) /\ mode # "CloseDelimited" /\ taken \in n..Len(t)
      /\ mode \in {"NoBody", "ContentLength"} => taken = MessageEnd(method, t, 0)
      /\ mode = "Chunked" => After(t, n + 1, taken).state = "Complete"
  BY DEF Listens, Heard
<1>2. /\ Len(t) \in Nat /\ mode \in BodyModes /\ n \in Nat
      /\ mode \in {"NoBody", "ContentLength"} => MessageEnd(method, t, 0) # 0
  BY <1>1, CountedEnd
<1>3. taken \in Nat /\ taken <= Len(t)
  BY <1>1, <1>2
<1>4. p.status # "NeedMoreData"
  <2>1. SUFFICES ASSUME p.status = "NeedMoreData" PROVE FALSE
    OBVIOUS
  <2>2. Early(method, t)
    BY <2>1 DEF Judges, Awaits
  <2>3. CASE mode \in {"NoBody", "ContentLength"}
    <3>1. taken = MessageEnd(method, t, 0) /\ taken # 0
      BY <1>1, <1>2, <2>3
    <3>2. PICK b \in Texts : Begins(b, t) /\ Response(method, b, 0)
      BY <1>1, <1>3, <3>1, EndsHere
    <3> QED BY <2>2, <3>2 DEF Early
  <2>4. CASE mode = "Chunked"
    <3>1. Unfinished(t, n + 1, n, Len(t))
      BY <1>1, <2>2, <2>4 DEF Early, HasChunks
    <3> QED BY <1>1, <2>4, <3>1 DEF Unfinished
  <2> QED BY <1>1, <1>2, <2>3, <2>4 DEF BodyModes
<1>5. ASSUME p.status = "Error"
      PROVE  Excused(t, taken) \/ Len(t) > MaxMessage
  <2>1. DoomedAt(method, t)
    BY <1>5, BeginsItself DEF Judges, Awaits, Knows, Doomed
  <2>2. CASE mode \in {"NoBody", "ContentLength"}
    <3>1. MessageEnd(method, t, 0) <= Len(t)
      BY <1>1, <1>3, <2>2
    <3> QED BY <1>1, <2>1, <2>2, <3>1 DEF DoomedAt, Countable
  <2>3. CASE mode = "Chunked"
    BY <1>1, <2>1, <2>3 DEF DoomedAt, Decodable, HasChunks
  <2> QED BY <1>1, <1>2, <2>2, <2>3 DEF BodyModes
<1>6. p.status \in Statuses
  BY DEF Judges, ResponseRecords
<1> QED BY <1>4, <1>5, <1>6 DEF Statuses

\* With the end of the connection a response is whole for both or for neither.
LEMMA BothClosed ==
    ASSUME NEW p, NEW r, NEW t \in Texts, Judges(p, t), Listens(p.method, r, t),
           p.status # "MessageComplete", p.status = "NeedMoreData" \/ r.phase \in {"Head", "Body"}
    PROVE  LET q == NotifyEof(p)
               s == ResponseEof(r)
           IN  /\ q.status = "MessageComplete" => s.phase = "Complete" /\ q.messageBytes = s.taken
               /\ s.phase = "Complete" => q.status = "MessageComplete"
<1> DEFINE method == p.method
           q == NotifyEof(p)
           s == ResponseEof(r)
<1>1. JudgesClosed(q, t) /\ q.method = method
  BY EofJudges
<1>2. /\ r \in ListenerRecords /\ p \in ResponseRecords /\ r.phase # "Complete"
      /\ p.status \in {"NeedMoreData", "Error"}
  BY HeardJudged DEF Judges, Listens, ResponseRecords, Statuses
<1>3. q.status = "MessageComplete" => ~Answered(q, t)
  <2>1. SUFFICES ASSUME q.status = "MessageComplete", Answered(q, t)
                 PROVE  FALSE
    OBVIOUS
  <2>2. p.status = "NeedMoreData"
    BY <1>2, <2>1 DEF NotifyEof
  <2>3. Early(method, t)
    BY <2>2 DEF Judges, Awaits
  <2> HIDE DEF q
  <2>4. PICK b \in Texts : Begins(b, t) /\ Response(method, b, MaxMessage)
    BY <1>1, <2>1 DEF Answered
  <2>5. MaxMessage \in Int
    BY SizeAssumption DEF MaxMessage
  <2> QED BY <2>3, <2>4, <2>5 DEF Early
<1>4. CASE r.phase = "Body" /\ r.mode = "CloseDelimited"
  <2>1. s = [r EXCEPT !.phase = "Complete"]
    BY <1>4 DEF ResponseEof
  <2>2. s.phase = "Complete" /\ s.taken = r.taken
    BY <1>2, <2>1 DEF ListenerRecords
  <2>3. /\ ResponseHead(method, t) /\ ModeIn(method, t) = "CloseDelimited" /\ r.taken = Len(t)
        /\ Len(t) - HeadLength(t) <= MaxBody
    BY <1>4 DEF Listens, Hearing
  <2>4. ClosedResponse(method, t)
    BY <2>3 DEF ClosedResponse
  <2> HIDE DEF q, s
  <2>5. q.status = "MessageComplete" /\ q.messageBytes = Len(t)
    BY <1>1, <1>3, <2>4 DEF JudgesClosed, DoomedAt
  <2> QED BY <2>2, <2>3, <2>5 DEF q, s
<1>5. CASE ~(r.phase = "Body" /\ r.mode = "CloseDelimited")
  <2>1. s = IF r.phase \notin {"Head", "Body"} THEN r ELSE Rejected(r)
    BY <1>5, Zenon DEF ResponseEof
  <2>2. s.phase = "Rejected"
    BY <1>2, <2>1, RejectedListener DEF ListenerRecords, Phases
  <2>3. ~ClosedResponse(method, t)
    <3>1. SUFFICES ASSUME ClosedResponse(method, t) PROVE FALSE
      OBVIOUS
    <3>2. /\ ResponseHead(method, t) /\ ModeIn(method, t) = "CloseDelimited"
          /\ Len(t) - HeadLength(t) <= MaxBody
      BY <3>1 DEF ClosedResponse
    <3>3. HeadLength(t) # 0 /\ HeadLength(t) \in Nat /\ Len(t) \in Nat /\ MaxBody \in Nat
          /\ ~Headless(method, t)
      BY <3>2, CountedEnd, BeginsItself DEF Headless
    <3>4. r.phase # "Head" /\ r.phase # "Body"
      BY <1>5, <3>2, <3>3 DEF Listens, Hearing
    <3>5. Unheard(method, t)
      BY <3>4, <1>2 DEF Listens
    <3>6. Len(t) - HeadLength(t) > MaxBody
      BY <3>2, <3>3, <3>5 DEF Unheard
    <3> QED BY <3>2, <3>3, <3>6
  <2> HIDE DEF q, s
  <2>4. q.status # "MessageComplete"
    BY <1>1, <1>3, <2>3 DEF JudgesClosed
  <2> QED BY <2>2, <2>4 DEF q, s
<1> QED BY <1>4, <1>5

--------------------------------------------------------------------------------
(* Both readings of a response *)

\* ReliableSession has heard what has been received of a response, and a parser
\* that is complete has its last recv in the buffer.  Once the connection has ended
\* nothing changes any more.
ResponsesHeard ==
    message.kind = "response" =>
        /\ ~eof => /\ Listens(message.method, responseHead, Received)
                   /\ response.status = "MessageComplete" => response.buffer = Received
        /\ eof => SameResponses

LEMMA ReceivedType ==
    ASSUME message \in Messages, message.kind = "response", read \in 0..Length
    PROVE  /\ Received \in Texts /\ Len(Received) = read /\ read \in Nat
           /\ message.bytes \in Texts /\ message.method \in {"GET", "HEAD"}
           /\ \A i \in 1..read : Received[i] = message.bytes[i]
           /\ \A k \in 0..read : SubSeq(Received, 1, k) = Prefix(k)
<1>1. /\ message.bytes \in Texts /\ message.method \in {"GET", "HEAD"} /\ Length \in Nat
      /\ Length = Len(message.bytes) /\ read \in Nat
  BY ResponseType
<1>2. Received = Prefix(read)
  BY DEF Received, Prefix
<1>3. /\ Received \in Texts /\ Len(Received) = read
      /\ \A i \in 1..read : Received[i] = message.bytes[i]
  BY <1>1, <1>2, PrefixIs
<1>4. ASSUME NEW k \in 0..read
      PROVE  SubSeq(Received, 1, k) = Prefix(k)
  <2>1. Begins(Received, message.bytes)
    BY <1>1, <1>3 DEF Begins
  <2>2. k \in Nat /\ 1 \in Nat \ {0} /\ k <= Len(Received)
    BY <1>1, <1>3
  <2>3. SubSeq(Received, 1, k) = SubSeq(message.bytes, 1, k)
    BY <1>1, <1>3, <2>1, <2>2, CutCommon
  <2> QED BY <2>3 DEF Prefix
<1> QED BY <1>1, <1>3, <1>4

\* As long as the connection is open.
LEMMA OpenAgrees ==
    ASSUME message \in Messages, message.kind = "response", read \in 0..Length,
           response.method = message.method, Judges(response, Received),
           Listens(message.method, responseHead, Received),
           response.status = "MessageComplete" => response.buffer = Received
    PROVE  SameResponses
<1> DEFINE t == Received
           taken == responseHead.taken
           m == response.messageBytes
<1>1. /\ t \in Texts /\ Len(t) = read /\ read \in Nat
      /\ \A i \in 1..read : t[i] = message.bytes[i]
      /\ \A k \in 0..read : SubSeq(t, 1, k) = Prefix(k)
  BY ReceivedType
<1> SUFFICES /\ response.status = "MessageComplete" =>
                  \/ responseHead.phase = "Complete" /\ m = taken
                  \/ /\ responseHead.phase = "Rejected"
                     /\ \/ RemainingBytes(response) > 0
                        \/ LongSizeLine(t, MaxLine)
                        \/ LongTrailer(t, MaxLine)
             /\ responseHead.phase = "Complete" =>
                  \/ response.status = "MessageComplete"
                  \/ /\ response.status = "Error"
                     /\ \/ \E i \in 1..read : message.bytes[i] = "ctl"
                        \/ read > MaxMessage
                        \/ LongTrailers(Prefix(taken))
                        \/ LongSizeLine(t, MaxHeader - 2)
  BY DEF SameResponses
<1> HIDE DEF t, taken, m
<1>2. ASSUME response.status = "MessageComplete"
      PROVE  \/ responseHead.phase = "Complete" /\ m = taken
             \/ /\ responseHead.phase = "Rejected"
                /\ \/ RemainingBytes(response) > 0
                   \/ LongSizeLine(t, MaxLine)
                   \/ LongTrailer(t, MaxLine)
  <2>1. Answered(response, t)
    BY <1>2 DEF Judges, Awaits, Knows, t
  <2>2. \/ responseHead.phase = "Complete" /\ m = taken
        \/ responseHead.phase = "Rejected" /\ (Len(t) > m \/ LongLine(t))
    BY <1>1, <2>1, BothWhole DEF t, taken, m
  <2>3. m \in Nat
    <3>1. ResponseHead(message.method, t) /\ m \in HeadLength(t)..Len(t)
      BY <1>1, <2>1, AnsweredIs DEF m
    <3>2. HeadLength(t) \in Nat
      BY <1>1, <3>1, CountedEnd
    <3> QED BY <1>1, <3>1, <3>2
  <2>4. RemainingBytes(response) = Len(t) - m
    BY <1>2 DEF RemainingBytes, t, m
  <2>5. Len(t) > m => RemainingBytes(response) > 0
    BY <1>1, <2>3, <2>4
  <2> QED BY <2>2, <2>5 DEF LongLine
<1>3. ASSUME responseHead.phase = "Complete"
      PROVE  \/ response.status = "MessageComplete"
             \/ /\ response.status = "Error"
                /\ \/ \E i \in 1..read : message.bytes[i] = "ctl"
                   \/ read > MaxMessage
                   \/ LongTrailers(Prefix(taken))
                   \/ LongSizeLine(t, MaxHeader - 2)
  <2>1. \/ response.status = "MessageComplete"
        \/ response.status = "Error" /\ (Excused(t, taken) \/ Len(t) > MaxMessage)
    BY <1>1, <1>3, HeardJudged DEF t, taken
  <2>2. taken \in 0..read
    <3>1. ResponseHead(message.method, t) /\ taken \in HeadLength(t)..Len(t)
      BY <1>3 DEF Listens, Heard, t, taken
    <3>2. HeadLength(t) \in Nat
      BY <1>1, <3>1, CountedEnd
    <3> QED BY <1>1, <3>1, <3>2
  <2>3. SubSeq(t, 1, taken) = Prefix(taken)
    BY <1>1, <2>2
  <2>4. (\E i \in 1..Len(t) : t[i] = "ctl") => \E i \in 1..read : message.bytes[i] = "ctl"
    BY <1>1
  <2> QED BY <1>1, <2>1, <2>3, <2>4 DEF Excused
<1> QED BY <1>2, <1>3

LEMMA HeardBegins == Init => ResponsesHeard
<1> SUFFICES ASSUME Init, message.kind = "response" PROVE ResponsesHeard
  BY DEF ResponsesHeard
<1>1. /\ message \in Messages /\ read = 0 /\ eof = FALSE
      /\ response = NewResponseParser(message.method) /\ responseHead = NewResponseReceiver
  BY DEF Init
<1>2. ResponsesRead
  BY ResponseReadBegins
<1>3. read \in 0..Length /\ response.method = message.method /\ Judges(response, Received)
  BY <1>1, <1>2 DEF ResponsesRead
<1>4. Received = <<>>
  BY <1>1, <1>3, ReceivedType, EmptyText
<1>5. Listens(message.method, responseHead, Received)
  BY <1>1, <1>4, NewListens
<1>6. response.status # "MessageComplete"
  BY <1>1 DEF NewResponseParser
<1> QED BY <1>1, <1>5, <1>6 DEF ResponsesHeard

LEMMA SameResponsesFollows == ResponsesRead /\ ResponsesHeard => SameResponses
<1> SUFFICES ASSUME ResponsesRead, ResponsesHeard, message.kind = "response", ~eof
             PROVE  SameResponses
  BY DEF ResponsesHeard, SameResponses
<1>1. /\ message \in Messages /\ read \in 0..Length /\ response.method = message.method
      /\ Judges(response, Received) /\ Listens(message.method, responseHead, Received)
      /\ response.status = "MessageComplete" => response.buffer = Received
  BY DEF ResponsesRead, ResponsesHeard
<1> QED BY <1>1, OpenAgrees

\* One of the two still waits while there is anything to receive, so the parser is
\* not complete.
LEMMA NotYetComplete ==
    ASSUME message.kind = "response", SameResponses, Undecided
    PROVE  /\ response.status # "MessageComplete"
           /\ response.status = "NeedMoreData" \/ responseHead.phase \in {"Head", "Body"}
  BY DEF SameResponses, Undecided

LEMMA HeardGoesOn ==
    ASSUME ResponsesRead, ResponsesHeard, Undecided, ~eof, NEW n \in Nat, ReceiveResponse(n)
    PROVE  ResponsesHeard'
<1>1. /\ message \in Messages /\ message.kind = "response" /\ read \in 0..Length
      /\ response.method = message.method /\ Judges(response, Received)
      /\ Listens(message.method, responseHead, Received)
      /\ message' = message /\ read' = read + n /\ read + n <= Length /\ eof' = eof
      /\ response' = ConsumeResponse(response, Piece(n))
      /\ responseHead' = ReadResponse(responseHead, Piece(n))
  BY DEF ResponsesRead, ResponsesHeard, ReceiveResponse
<1>2. message.bytes \in Texts /\ Length \in Nat /\ Length = Len(message.bytes)
  BY <1>1, ResponseType
<1>3. Received \in Texts /\ Piece(n) \in Texts
  <2>1. read + 1 \in Nat \ {0} /\ read \in Nat /\ read + n \in Nat
        /\ read + n <= Len(message.bytes)
    BY <1>1, <1>2
  <2> QED BY <1>1, <1>2, <2>1, Cut, ReceivedType DEF Piece
<1>4. Received' = Received \o Piece(n)
  <2>1. read \in Nat /\ read + n \in Nat /\ read <= read + n /\ read + n <= Len(message.bytes)
    BY <1>1, <1>2
  <2>2. SubSeq(message.bytes, 1, read) \o SubSeq(message.bytes, read + 1, read + n)
          = SubSeq(message.bytes, 1, read + n)
    BY <1>2, <2>1, CutJoined
  <2> QED BY <1>1, <2>2 DEF Received, Piece
<1>5. Listens(message.method, responseHead', Received')
  <2>1. message.method \in {"GET", "HEAD"}
    BY <1>1, ResponseType
  <2> QED BY <1>1, <1>3, <1>4, <2>1, ReadListens
<1>6. response'.status = "MessageComplete" => response'.buffer = Received'
  <2>1. response.status # "MessageComplete"
    BY <1>1, SameResponsesFollows, NotYetComplete
  <2>2. CASE response.status = "NeedMoreData"
    BY <1>1, <1>3, <1>4, <2>2, ConsumeJudges
  <2>3. CASE response.status # "NeedMoreData"
    BY <1>1, <2>1, <2>3 DEF ConsumeResponse
  <2> QED BY <2>2, <2>3
<1> QED BY <1>1, <1>5, <1>6 DEF ResponsesHeard

LEMMA HeardClosed ==
    ASSUME ResponsesRead, ResponsesHeard, Undecided, UpstreamCloses
    PROVE  ResponsesHeard'
<1>1. /\ message \in Messages /\ message.kind = "response" /\ read \in 0..Length /\ ~eof
      /\ response.method = message.method /\ Judges(response, Received)
      /\ Listens(message.method, responseHead, Received)
      /\ message' = message /\ eof' = TRUE
      /\ response' = NotifyEof(response) /\ responseHead' = ResponseEof(responseHead)
  BY DEF ResponsesRead, ResponsesHeard, UpstreamCloses
<1>2. Received \in Texts
  BY <1>1, ReceivedType
<1>3. /\ response.status # "MessageComplete"
      /\ response.status = "NeedMoreData" \/ responseHead.phase \in {"Head", "Body"}
  BY <1>1, SameResponsesFollows, NotYetComplete
<1>4. /\ response'.status = "MessageComplete" =>
           responseHead'.phase = "Complete" /\ response'.messageBytes = responseHead'.taken
      /\ responseHead'.phase = "Complete" => response'.status = "MessageComplete"
  BY <1>1, <1>2, <1>3, BothClosed
<1>5. SameResponses'
  BY <1>4 DEF SameResponses
<1> QED BY <1>1, <1>5 DEF ResponsesHeard

LEMMA HeardKept == ResponsesRead /\ ResponsesHeard /\ [Next]_vars => ResponsesHeard'
<1> SUFFICES ASSUME ResponsesRead, ResponsesHeard, [Next]_vars PROVE ResponsesHeard'
  OBVIOUS
<1>1. ASSUME NEW n \in RecvSizes \cup {Length - read}, n > 0, ReceiveResponse(n), Undecided, ~eof
      PROVE  ResponsesHeard'
  <2>1. message \in Messages /\ message.kind = "response" /\ read \in 0..Length
    BY <1>1 DEF ResponsesRead, ReceiveResponse
  <2>2. n \in Nat
    BY <1>1, <2>1, ResponseType, StreamAssumption
  <2> QED BY <1>1, <2>2, HeardGoesOn
<1>2. ASSUME NEW n \in RecvSizes \cup {Length - read}, ReceiveRequest(n)
      PROVE  ResponsesHeard'
  BY <1>2 DEF ResponsesHeard, ReceiveRequest, SameResponses
<1>3. ASSUME UpstreamCloses, Undecided
      PROVE  ResponsesHeard'
  BY <1>3, HeardClosed
<1>4. ASSUME UNCHANGED vars
      PROVE  ResponsesHeard'
  <2>1. SameResponses' <=> SameResponses
    BY <1>4 DEF SameResponses, vars, Received, Prefix
  <2>2. Received' = Received
    BY <1>4 DEF vars, Received
  <2> QED BY <1>4, <2>1, <2>2 DEF ResponsesHeard, vars
<1> QED BY <1>1, <1>2, <1>3, <1>4 DEF Next

LEMMA SameFramingFollows == RequestsRead /\ ResponsesRead /\ ResponsesHeard => SameFraming
  BY SameRequestsFollows, SameResponsesFollows DEF SameFraming

\* The two proxies take the same bytes for a message: the buffering one, which
\* gives every recv to RequestParser and ResponseParser, and the streaming one,
\* which parses the head alone and counts or decodes the body itself
\* (accept_request_bytes, accept_response_bytes, append_response_body,
\* reliable_proxy_server.cpp).  What one has whole the other does not wait for any
\* more and takes to be of the same length, and it rejects a response only for a
\* limit of its own, and a request only if that is the buffering one and more has
\* come behind it.
THEOREM FramingAgrees == Spec => []SameFraming
<1>1. Init => RequestsRead /\ ResponsesRead /\ ResponsesHeard
  BY ReadBegins, ResponseReadBegins, HeardBegins
<1>2. RequestsRead /\ ResponsesRead /\ ResponsesHeard /\ [Next]_vars
        => RequestsRead' /\ ResponsesRead' /\ ResponsesHeard'
  BY ReadKept, ResponseReadKept, HeardKept
<1>3. RequestsRead /\ ResponsesRead /\ ResponsesHeard => SameFraming
  BY SameFramingFollows
<1> QED BY <1>1, <1>2, <1>3, PTL DEF Spec

--------------------------------------------------------------------------------
(* Fields in the order of their positions *)

Below(S, i) == {j \in S : j < i}

\* Counting what is below leads from the places in a set of numbers to its elements.
LEMMA PlacesOf ==
    ASSUME NEW S \in SUBSET Nat, IsFiniteSet(S)
    PROVE  LET size == Cardinality(S)
               at(n) == CHOOSE i \in S : Cardinality(Below(S, i)) = n - 1
           IN  /\ size \in Nat
               /\ \A n \in 1..size : at(n) \in S
               /\ \A i \in S : \E n \in 1..size : at(n) = i
               /\ \A m, n \in 1..size : at(m) = at(n) => m = n
<1> DEFINE size == Cardinality(S)
           at(n) == CHOOSE i \in S : Cardinality(Below(S, i)) = n - 1
           rank == [i \in S |-> Cardinality(Below(S, i)) + 1]
<1>1. size \in Nat
  BY FS_CardinalityType
<1>2. ASSUME NEW i \in S
      PROVE  Cardinality(Below(S, i)) \in Nat /\ Cardinality(Below(S, i)) < size
  <2>1. Below(S, i) \in SUBSET S /\ i \notin Below(S, i)
    BY DEF Below
  <2>2. /\ IsFiniteSet(Below(S, i)) /\ Cardinality(Below(S, i)) <= size
        /\ Cardinality(S) = Cardinality(Below(S, i)) => S = Below(S, i)
    BY <2>1, FS_Subset
  <2>3. Cardinality(Below(S, i)) \in Nat
    BY <2>2, FS_CardinalityType
  <2> QED BY <1>1, <2>1, <2>2, <2>3
<1>3. ASSUME NEW i \in S, NEW j \in S, i < j
      PROVE  Cardinality(Below(S, i)) < Cardinality(Below(S, j))
  <2>1. Below(S, i) \in SUBSET Below(S, j) /\ i \in Below(S, j) /\ i \notin Below(S, i)
    <3>1. i \in Nat /\ j \in Nat
      OBVIOUS
    <3>2. ASSUME NEW k \in S, k < i PROVE k < j
      <4>1. k \in Nat
        OBVIOUS
      <4> QED BY <1>3, <3>1, <3>2, <4>1
    <3>3. ~(i < i)
      BY <3>1
    <3> QED BY <1>3, <3>2, <3>3, Zenon DEF Below
  <2>2. Below(S, j) \in SUBSET S
    BY DEF Below
  <2>3. IsFiniteSet(Below(S, j))
    BY <2>2, FS_Subset
  <2>4. /\ Cardinality(Below(S, i)) <= Cardinality(Below(S, j))
        /\ Cardinality(Below(S, j)) = Cardinality(Below(S, i)) => Below(S, j) = Below(S, i)
    BY <2>1, <2>3, FS_Subset
  <2> QED BY <1>2, <2>1, <2>4
<1>4. ASSUME NEW i \in S, NEW j \in S, Cardinality(Below(S, i)) = Cardinality(Below(S, j))
      PROVE  i = j
  <2>1. i \in Nat /\ j \in Nat
    OBVIOUS
  <2>2. ~(i < j) /\ ~(j < i)
    <3>1. Cardinality(Below(S, i)) \in Nat
      BY <1>2
    <3> QED BY <1>3, <1>4, <3>1
  <2> QED BY <2>1, <2>2
<1>5. rank \in Injection(S, 1..size)
  <2>1. \A i \in S : rank[i] \in 1..size
    BY <1>1, <1>2
  <2>2. \A i, j \in S : rank[i] = rank[j] => i = j
    BY <1>2, <1>4
  <2> HIDE DEF size
  <2>3. rank \in [S -> 1..size]
    BY <2>1
  <2> HIDE DEF rank
  <2> QED BY <2>2, <2>3 DEF Injection, IsInjective
<1>6. rank \in Surjection(S, 1..size)
  <2>1. IsFiniteSet(1..size) /\ Cardinality(1..size) = size
    BY <1>1, FS_Interval
  <2> HIDE DEF rank
  <2> QED BY <1>5, <2>1, FS_Injection
<1>7. ASSUME NEW n \in 1..size
      PROVE  at(n) \in S /\ Cardinality(Below(S, at(n))) = n - 1
  <2>1. PICK i \in S : rank[i] = n
    <3> HIDE DEF rank, size
    <3> QED BY <1>6 DEF Surjection
  <2>2. Cardinality(Below(S, i)) = n - 1
    BY <1>1, <1>2, <2>1
  <2> QED BY <2>2
<1>8. ASSUME NEW i \in S
      PROVE  \E n \in 1..size : at(n) = i
  <2> DEFINE n == Cardinality(Below(S, i)) + 1
  <2>1. n \in 1..size /\ n - 1 = Cardinality(Below(S, i))
    BY <1>1, <1>2
  <2>2. at(n) \in S /\ Cardinality(Below(S, at(n))) = n - 1
    BY <1>7, <2>1
  <2> HIDE DEF at, n
  <2>3. at(n) = i
    BY <1>4, <2>1, <2>2
  <2> QED BY <2>1, <2>3
<1>9. ASSUME NEW m \in 1..size, NEW n \in 1..size, at(m) = at(n)
      PROVE  m = n
  <2>1. m - 1 = Cardinality(Below(S, at(m))) /\ n - 1 = Cardinality(Below(S, at(n)))
    BY <1>7
  <2> HIDE DEF at
  <2>2. m - 1 = n - 1
    BY <1>9, <2>1
  <2> QED BY <1>1, <2>2
<1> HIDE DEF at, size
<1>10. /\ size \in Nat
       /\ \A n \in 1..size : at(n) \in S
       /\ \A i \in S : \E n \in 1..size : at(n) = i
       /\ \A m, n \in 1..size : at(m) = at(n) => m = n
  BY <1>1, <1>7, <1>8, <1>9
<1> QED BY <1>10 DEF at, size

\* headers(): every line once.
LEMMA InOrderIs ==
    ASSUME NEW lines, DOMAIN lines \in SUBSET Nat, IsFiniteSet(DOMAIN lines)
    PROVE  LET size == Cardinality(DOMAIN lines)
           IN  /\ size \in Nat /\ DOMAIN InOrder(lines) = 1..size
               /\ \E at \in [1..size -> DOMAIN lines] :
                    /\ InOrder(lines) = [n \in 1..size |-> lines[at[n]]]
                    /\ \A i \in DOMAIN lines : \E n \in 1..size : at[n] = i
                    /\ \A m, n \in 1..size : at[m] = at[n] => m = n
<1> DEFINE S == DOMAIN lines
           size == Cardinality(S)
           place(n) == CHOOSE i \in S : Cardinality(Below(S, i)) = n - 1
           at == [n \in 1..size |-> place(n)]
<1>1. /\ size \in Nat
      /\ \A n \in 1..size : place(n) \in S
      /\ \A i \in S : \E n \in 1..size : place(n) = i
      /\ \A m, n \in 1..size : place(m) = place(n) => m = n
  BY PlacesOf
<1>2. InOrder(lines) = [n \in 1..size |-> lines[place(n)]]
  BY Zenon DEF InOrder, Below
<1> HIDE DEF place, size
<1>3. InOrder(lines) = [n \in 1..size |-> lines[at[n]]]
  BY <1>2
<1>4. at \in [1..size -> S]
  BY <1>1
<1>5. /\ \A i \in S : \E n \in 1..size : at[n] = i
      /\ \A m, n \in 1..size : at[m] = at[n] => m = n
  BY <1>1
<1>6. DOMAIN InOrder(lines) = 1..size
  BY <1>3
<1> HIDE DEF at
<1>7. \E a \in [1..size -> S] :
        /\ InOrder(lines) = [n \in 1..size |-> lines[a[n]]]
        /\ \A i \in S : \E n \in 1..size : a[n] = i
        /\ \A m, n \in 1..size : a[m] = a[n] => m = n
  BY <1>3, <1>4, <1>5
<1> QED BY <1>1, <1>6, <1>7 DEF size

--------------------------------------------------------------------------------
(* What to_string writes *)

DigitOf(n) == CHOOSE d \in Digits : DigitValue(d) = n

LEMMA DigitIs ==
    ASSUME NEW n \in 0..9
    PROVE  DigitOf(n) \in Digits /\ DigitValue(DigitOf(n)) = n
<1>1. \E d \in Digits : DigitValue(d) = n
  <2>1. /\ DigitValue("0") = 0 /\ DigitValue("1") = 1 /\ DigitValue("2") = 2 /\ DigitValue("3") = 3
        /\ DigitValue("4") = 4 /\ DigitValue("5") = 5 /\ DigitValue("6") = 6 /\ DigitValue("7") = 7
        /\ DigitValue("8") = 8 /\ DigitValue("9") = 9
    BY DEF DigitValue
  <2>2. n = 0 \/ n = 1 \/ n = 2 \/ n = 3 \/ n = 4 \/ n = 5 \/ n = 6 \/ n = 7 \/ n = 8 \/ n = 9
    OBVIOUS
  <2> QED BY <2>1, <2>2, Zenon DEF Digits
<1> QED BY <1>1 DEF DigitOf

\* What the recursion of Decimal says of place n.
DecimalStep(f, n) ==
    IF n < 10 THEN <<DigitOf(n)>> ELSE Append(f[n \div 10], DigitOf(n % 10))

LEMMA DividedByTen ==
    ASSUME NEW n \in Nat, ~(n < 10)
    PROVE  /\ n \div 10 \in Nat /\ n % 10 \in 0..9 /\ n \div 10 < n
           /\ (n \div 10) * 10 + (n % 10) = n
  OBVIOUS

LEMMA DecimalExists ==
    ASSUME NEW size \in Nat
    PROVE  \E f : f = [n \in 0..size |-> DecimalStep(f, n)]
<1> DEFINE Solves(f, k) == f = [n \in 0..k |-> DecimalStep(f, n)]
           unsolved == {k \in Nat : ~\E f : Solves(f, k)}
<1>1. unsolved = {}
  <2>1. SUFFICES ASSUME unsolved # {} PROVE FALSE
    OBVIOUS
  <2>2. PICK k \in unsolved : \A m \in unsolved : k <= m
    BY <2>1, Smallest
  <2>3. \E f : \A n \in 0..(k - 1) : f[n] = DecimalStep(f, n)
    <3>1. CASE k = 0
      BY <3>1
    <3>2. CASE k # 0
      <4>1. k - 1 \in Nat /\ ~(k <= k - 1)
        BY <2>2, <3>2
      <4>2. PICK f : Solves(f, k - 1)
        BY <2>2, <4>1
      <4>3. \A n \in 0..(k - 1) : f[n] = DecimalStep(f, n)
        BY <4>2
      <4> QED BY <4>3
    <3> QED BY <3>1, <3>2
  <2>4. PICK f : \A n \in 0..(k - 1) : f[n] = DecimalStep(f, n)
    BY <2>3
  <2> DEFINE g == [n \in 0..k |-> IF n = k THEN DecimalStep(f, k) ELSE f[n]]
  <2>5. ASSUME NEW n \in 0..k
        PROVE  g[n] = DecimalStep(g, n)
    <3>1. g[n] = DecimalStep(f, n)
      BY <2>2, <2>4
    <3>2. ~(n < 10) => g[n \div 10] = f[n \div 10]
      <4>1. ~(n < 10) => n \div 10 \in Nat /\ n \div 10 < n /\ n \in Nat
        BY <2>2, DividedByTen
      <4>2. ~(n < 10) => n \div 10 \in 0..k /\ n \div 10 # k
        BY <2>2, <4>1
      <4> QED BY <4>2
    <3> HIDE DEF g
    <3> QED BY <3>1, <3>2 DEF DecimalStep
  <2>6. Solves(g, k)
    <3>1. g = [n \in 0..k |-> g[n]]
      OBVIOUS
    <3> HIDE DEF g
    <3>2. [n \in 0..k |-> g[n]] = [n \in 0..k |-> DecimalStep(g, n)]
      BY <2>5
    <3> QED BY <3>1, <3>2
  <2> QED BY <2>2, <2>6
<1>2. PICK f : Solves(f, size)
  BY <1>1
<1> QED BY <1>2

\* One digit more.
LEMMA ParsedAppend ==
    ASSUME NEW text \in Texts, NEW digit \in Digits, NEW base \in Nat, text # <<>>,
           ParsedSize(text, base) # NoSize,
           ~(DigitValue(digit) >= base),
           ~(ParsedSize(text, base) > (SizeMax - DigitValue(digit)) \div base)
    PROVE  ParsedSize(Append(text, digit), base)
             = ParsedSize(text, base) * base + DigitValue(digit)
<1> DEFINE w == Append(text, digit)
           k == Len(text)
<1>1. k \in Nat /\ k # 0
  BY TextType, EmptyText
<1>2. w \in Texts /\ Len(w) = k + 1 /\ (\A i \in 1..k : w[i] = text[i]) /\ w[k + 1] = digit
  <2> DEFINE S == Symbols
  <2>1. text \in Seq(S) /\ digit \in S
    BY DEF Texts, Symbols
  <2> HIDE DEF S
  <2>2. Append(text, digit) \in Seq(S) /\ Len(Append(text, digit)) = Len(text) + 1
        /\ (\A i \in 1..Len(text) : Append(text, digit)[i] = text[i])
        /\ Append(text, digit)[Len(text) + 1] = digit
    BY <2>1, AppendProperties
  <2> QED BY <2>2 DEF Texts, S
<1> HIDE DEF w, k
<1>3. PICK v \in [0..(k + 1) -> Nat] : Parses(v, w, base, k + 1)
  <2>1. k + 1 \in Nat
    BY <1>1
  <2> QED BY <2>1, ParsedExists
<1>4. w # <<>>
  BY <1>1, <1>2, EmptyText
<1>5. ParsedSize(w, base) = v[k + 1]
  BY <1>1, <1>2, <1>3, <1>4, ParsedValue
<1> DEFINE u == [i \in 0..k |-> v[i]]
<1>6. u \in [0..k -> Nat] /\ Parses(u, text, base, k)
  <2>1. ASSUME NEW i \in 0..k
        PROVE  u[i] = ParsedStep(u, text, base, i)
    <3>1. u[i] = ParsedStep(v, w, base, i)
      BY <1>1, <1>3 DEF Parses
    <3>2. i # 0 => w[i] = text[i] /\ u[i - 1] = v[i - 1]
      BY <1>1, <1>2
    <3> HIDE DEF u
    <3> QED BY <3>1, <3>2 DEF ParsedStep
  <2>2. u \in [0..k -> Nat]
    BY <1>1, <1>3
  <2> HIDE DEF u
  <2> QED BY <2>1, <2>2 DEF Parses
<1>7. ParsedSize(text, base) = u[k]
  <2> HIDE DEF u
  <2> QED BY <1>1, <1>6, ParsedValue DEF k
<1>8. v[k] = ParsedSize(text, base)
  BY <1>1, <1>7
<1>9. v[k + 1] = ParsedStep(v, w, base, k + 1)
  BY <1>1, <1>3 DEF Parses
<1>10. k + 1 # 0 /\ (k + 1) - 1 = k
  BY <1>1
<1>11. v[k + 1] = ParsedSize(text, base) * base + DigitValue(digit)
  BY <1>2, <1>8, <1>9, <1>10 DEF ParsedStep
<1> QED BY <1>5, <1>11 DEF w

LEMMA DigitText ==
    ASSUME NEW d \in Digits
    PROVE  <<d>> \in Texts /\ Len(<<d>>) = 1 /\ <<d>>[1] = d /\ <<d>> # <<>>
<1>1. d \in Symbols
  BY DEF Symbols
<1> QED BY <1>1 DEF Texts

\* A single digit.
LEMMA ParsedDigit ==
    ASSUME NEW n \in 0..9, n <= SizeMax
    PROVE  ParsedSize(<<DigitOf(n)>>, 10) = n
<1> DEFINE d == DigitOf(n)
           v == [i \in 0..1 |-> IF i = 0 THEN 0 ELSE n]
           text == <<d>>
<1>1. d \in Digits /\ DigitValue(d) = n
  BY DigitIs
<1>2. Len(text) = 1 /\ text[1] = d /\ text # <<>>
  BY <1>1, DigitText
<1>3. SizeMax \in Nat /\ NoSize = SizeMax + 1 /\ n \in Nat /\ 0 # NoSize /\ 10 \in Nat
  BY SizeAssumption DEF NoSize
<1>4. v \in [0..1 -> Nat] /\ v[0] = 0 /\ v[1] = n
  BY <1>3
<1>5. ~(0 > (SizeMax - n) \div 10) /\ ~(n >= 10)
  BY <1>3
<1> HIDE DEF v, d, text
<1>6. v[1] = ParsedStep(v, text, 10, 1)
  <2>1. ParsedStep(v, text, 10, 1) = v[0] * 10 + n
    <3>1. 1 # 0 /\ 1 - 1 = 0
      OBVIOUS
    <3>2. ~\/ text[1] \notin Digits
           \/ v[1 - 1] = NoSize
           \/ DigitValue(text[1]) >= 10
           \/ v[1 - 1] > (SizeMax - DigitValue(text[1])) \div 10
      BY <1>1, <1>2, <1>3, <1>4, <1>5, <3>1
    <3>3. DigitValue(text[1]) = n
      BY <1>1, <1>2
    <3> QED BY <3>1, <3>2, <3>3 DEF ParsedStep
  <2> QED BY <1>3, <1>4, <2>1
<1>7. v[0] = ParsedStep(v, text, 10, 0)
  BY <1>4 DEF ParsedStep
<1>8. Parses(v, text, 10, 1)
  <2>1. \A i \in 0..1 : i = 0 \/ i = 1
    OBVIOUS
  <2> QED BY <1>6, <1>7, <2>1 DEF Parses
<1>9. ParsedSize(text, 10) = v[1]
  BY <1>2, <1>3, <1>4, <1>8, ParsedValue
<1> QED BY <1>4, <1>9 DEF text, d

DigitsOnly(text) ==
    text \in Texts /\ text # <<>> /\ \A i \in 1..Len(text) : text[i] \in Digits

\* What to_string writes is read back as the same number.
LEMMA DecimalIs ==
    ASSUME NEW size \in Nat, size <= SizeMax
    PROVE  DigitsOnly(Decimal(size)) /\ DecimalSize(Decimal(size)) = size
<1> DEFINE Solves(f) == f = [n \in 0..size |-> DecimalStep(f, n)]
           f == CHOOSE g : Solves(g)
<1>1. Solves(f)
  <2>1. \E g : Solves(g)
    BY DecimalExists
  <2> QED BY <2>1, Zenon
<1>2. Decimal(size) = f[size]
  BY Zenon DEF Decimal, DecimalStep, DigitOf
<1> HIDE DEF f
<1>3. \A n \in 0..size : f[n] = DecimalStep(f, n)
  BY <1>1
<1> HIDE DEF Solves
<1> DEFINE ReadsBack(n) == DigitsOnly(f[n]) /\ ParsedSize(f[n], 10) = n
           unread == {n \in Nat : n <= size /\ ~ReadsBack(n)}
<1>4. unread = {}
  <2>1. SUFFICES ASSUME unread # {} PROVE FALSE
    OBVIOUS
  <2>2. PICK n \in unread : \A m \in unread : n <= m
    BY <2>1, Smallest
  <2>3. n \in 0..size /\ n \in Nat /\ n <= SizeMax /\ SizeMax \in Nat /\ NoSize = SizeMax + 1
    BY <2>2, SizeAssumption DEF NoSize
  <2>4. f[n] = DecimalStep(f, n)
    BY <1>3, <2>3
  <2>5. CASE n < 10
    <3>1. n \in 0..9
      BY <2>3, <2>5
    <3>2. f[n] = <<DigitOf(n)>>
      BY <2>4, <2>5 DEF DecimalStep
    <3>3. ParsedSize(f[n], 10) = n
      BY <2>3, <3>1, <3>2, ParsedDigit
    <3>4. DigitsOnly(<<DigitOf(n)>>)
      BY <3>1, DigitIs, DigitText DEF DigitsOnly
    <3> QED BY <2>2, <3>2, <3>3, <3>4
  <2>6. CASE ~(n < 10)
    <3> DEFINE q == n \div 10
               d == DigitOf(n % 10)
    <3>1. q \in Nat /\ n % 10 \in 0..9 /\ q < n /\ q * 10 + (n % 10) = n
      BY <2>3, <2>6, DividedByTen
    <3>2. f[n] = Append(f[q], d)
      BY <2>4, <2>6 DEF DecimalStep
    <3>3. d \in Digits /\ DigitValue(d) = n % 10
      BY <3>1, DigitIs
    <3> HIDE DEF q, d
    <3>4. DigitsOnly(f[q]) /\ ParsedSize(f[q], 10) = q
      <4>1. q <= size /\ ~(n <= q)
        BY <2>3, <3>1
      <4> QED BY <2>2, <3>1, <4>1
    <3>5. q # NoSize /\ ~(n % 10 >= 10) /\ ~(q > (SizeMax - (n % 10)) \div 10)
      <4> DEFINE r == n % 10
      <4>1. r \in 0..9 /\ q * 10 + r = n
        BY <3>1
      <4> HIDE DEF r
      <4>2. q # NoSize /\ ~(r >= 10) /\ ~(q > (SizeMax - r) \div 10)
        BY ONLY <2>3, <3>1, <4>1, q \in Nat
      <4> QED BY <4>2 DEF r
    <3>6. ParsedSize(Append(f[q], d), 10) = q * 10 + (n % 10)
      <4>1. 10 \in Nat
        OBVIOUS
      <4> QED BY <3>3, <3>4, <3>5, <4>1, ParsedAppend DEF DigitsOnly
    <3>7. DigitsOnly(Append(f[q], d))
      <4> DEFINE S == Symbols
      <4>1. f[q] \in Seq(S) /\ d \in S
        BY <3>3, <3>4 DEF DigitsOnly, Texts, Symbols
      <4> HIDE DEF S
      <4> DEFINE w == Append(f[q], d)
      <4>2. /\ w \in Seq(S) /\ w # <<>> /\ Len(w) = Len(f[q]) + 1
            /\ \A i \in 1..Len(f[q]) : w[i] = f[q][i]
            /\ w[Len(f[q]) + 1] = d
        BY <4>1, AppendProperties
      <4>3. Len(f[q]) \in Nat
        BY <4>1, LenProperties
      <4> HIDE DEF w
      <4>4. \A i \in 1..Len(w) : w[i] \in Digits
        BY <3>3, <3>4, <4>2, <4>3 DEF DigitsOnly
      <4>5. DigitsOnly(w)
        BY <4>2, <4>4 DEF DigitsOnly, Texts, S
      <4> QED BY <4>5 DEF w
    <3> QED BY <2>2, <3>1, <3>2, <3>6, <3>7
  <2> QED BY <2>5, <2>6
<1>5. ReadsBack(size)
  <2>1. size <= size
    OBVIOUS
  <2> QED BY <1>4, <2>1
<1> QED BY <1>2, <1>5 DEF DecimalSize

--------------------------------------------------------------------------------
(* Lists of fields *)

FieldLists == Seq(Texts)
Elements(fields) == {fields[i] : i \in DOMAIN fields}

\* Exactly one field has this name.
Once(fields, name) ==
    \E i \in DOMAIN fields : {k \in DOMAIN fields : FieldName(fields[k]) = name} = {i}

LEMMA FieldListType ==
    ASSUME NEW s \in FieldLists
    PROVE  /\ Len(s) \in Nat /\ DOMAIN s = 1..Len(s) /\ IsFiniteSet(DOMAIN s)
           /\ DOMAIN s \in SUBSET Nat /\ \A i \in DOMAIN s : s[i] \in Texts
<1> DEFINE T == Texts
<1> HIDE DEF T
<1>1. s \in Seq(T)
  BY DEF FieldLists, T
<1>2. Len(s) \in Nat /\ s \in [1..Len(s) -> T] /\ DOMAIN s = 1..Len(s)
  BY <1>1, LenProperties
<1>3. IsFiniteSet(1..Len(s))
  BY <1>2, FS_Interval
<1> QED BY <1>2, <1>3 DEF T

LEMMA NamedAre ==
    ASSUME NEW fields, NEW name
    PROVE  FieldsNamed(fields, name) = {x \in Elements(fields) : FieldName(x) = name}
  BY DEF FieldsNamed, Elements

LEMMA LengthsAre ==
    ASSUME NEW fields
    PROVE  LengthsOf(fields) = {DecimalSize(Tail(x)) : x \in FieldsNamed(fields, "Content-Length")}
  BY DEF FieldsNamed, LengthsOf

LEMMA JoinedFields ==
    ASSUME NEW s \in FieldLists, NEW t \in FieldLists
    PROVE  /\ s \o t \in FieldLists
           /\ Elements(s \o t) = Elements(s) \cup Elements(t)
           /\ \A name : /\ Once(s, name) /\ (\A x \in Elements(t) : FieldName(x) # name)
                             => Once(s \o t, name)
                        /\ Once(t, name) /\ (\A x \in Elements(s) : FieldName(x) # name)
                             => Once(s \o t, name)
<1> DEFINE T == Texts
           w == s \o t
           m == Len(s)
           n == Len(t)
<1> HIDE DEF T
<1>1. s \in Seq(T) /\ t \in Seq(T)
  BY DEF FieldLists, T
<1>2. /\ w \in Seq(T) /\ Len(w) = m + n
      /\ \A i \in 1..(m + n) : w[i] = IF i <= m THEN s[i] ELSE t[i - m]
  BY <1>1, ConcatProperties
<1>3. /\ m \in Nat /\ DOMAIN s = 1..m /\ n \in Nat /\ DOMAIN t = 1..n /\ DOMAIN w = 1..(m + n)
  BY <1>1, <1>2, LenProperties
<1> HIDE DEF w, m, n
<1>4. /\ \A i \in 1..m : i \in DOMAIN w /\ w[i] = s[i]
      /\ \A i \in 1..n : m + i \in DOMAIN w /\ w[m + i] = t[i]
  <2>1. ASSUME NEW i \in 1..m PROVE i \in DOMAIN w /\ w[i] = s[i]
    BY <1>2, <1>3
  <2>2. ASSUME NEW i \in 1..n PROVE m + i \in DOMAIN w /\ w[m + i] = t[i]
    <3>1. m + i \in 1..(m + n) /\ ~(m + i <= m) /\ (m + i) - m = i
      BY <1>3
    <3> QED BY <1>2, <1>3, <3>1
  <2> QED BY <2>1, <2>2
<1>5. ASSUME NEW i \in DOMAIN w
      PROVE  i \in 1..m \/ \E k \in 1..n : i = m + k
  <2>1. i \in 1..m \/ (i - m \in 1..n /\ i = m + (i - m))
    BY <1>3
  <2> QED BY <2>1
<1>6. Elements(w) = Elements(s) \cup Elements(t)
  <2>1. ASSUME NEW x \in Elements(w) PROVE x \in Elements(s) \cup Elements(t)
    <3>1. PICK i \in DOMAIN w : x = w[i]
      BY DEF Elements
    <3>2. CASE i \in 1..m
      <4>1. x = s[i] /\ i \in DOMAIN s
        BY <1>3, <1>4, <3>1, <3>2
      <4> QED BY <4>1 DEF Elements
    <3>3. CASE \E k \in 1..n : i = m + k
      <4>1. PICK k \in 1..n : i = m + k
        BY <3>3
      <4>2. x = t[k] /\ k \in DOMAIN t
        BY <1>3, <1>4, <3>1, <4>1
      <4> QED BY <4>2 DEF Elements
    <3> QED BY <1>5, <3>2, <3>3
  <2>2. ASSUME NEW x \in Elements(s) \cup Elements(t) PROVE x \in Elements(w)
    BY <1>3, <1>4 DEF Elements
  <2> QED BY <2>1, <2>2
<1>7. ASSUME NEW name, Once(s, name), \A x \in Elements(t) : FieldName(x) # name
      PROVE  Once(w, name)
  <2>1. PICK i \in 1..m : {k \in 1..m : FieldName(s[k]) = name} = {i}
    BY <1>3, <1>7 DEF Once
  <2>2. FieldName(s[i]) = name
    BY <2>1
  <2>3. ASSUME NEW k \in DOMAIN w, FieldName(w[k]) = name
        PROVE  k = i
    <3>1. \A j \in 1..n : FieldName(t[j]) # name
      BY <1>3, <1>7 DEF Elements
    <3>2. k \in 1..m
      BY <1>4, <1>5, <2>3, <3>1
    <3> QED BY <1>4, <2>1, <2>3, <3>2
  <2>4. i \in DOMAIN w /\ FieldName(w[i]) = name
    BY <1>4, <2>2
  <2>5. {k \in DOMAIN w : FieldName(w[k]) = name} = {i}
    BY <2>3, <2>4
  <2> QED BY <2>4, <2>5 DEF Once
<1>8. ASSUME NEW name, Once(t, name), \A x \in Elements(s) : FieldName(x) # name
      PROVE  Once(w, name)
  <2>1. PICK i \in 1..n : {k \in 1..n : FieldName(t[k]) = name} = {i}
    BY <1>3, <1>8 DEF Once
  <2>2. FieldName(t[i]) = name
    BY <2>1
  <2>3. ASSUME NEW k \in DOMAIN w, FieldName(w[k]) = name
        PROVE  k = m + i
    <3>1. \A j \in 1..m : FieldName(s[j]) # name
      BY <1>3, <1>8 DEF Elements
    <3>2. PICK j \in 1..n : k = m + j
      BY <1>4, <1>5, <2>3, <3>1
    <3>3. FieldName(t[j]) = name
      BY <1>4, <2>3, <3>2
    <3>4. j = i
      BY <2>1, <3>3
    <3> QED BY <3>2, <3>4
  <2>4. m + i \in DOMAIN w /\ FieldName(w[m + i]) = name
    BY <1>4, <2>2
  <2>5. {k \in DOMAIN w : FieldName(w[k]) = name} = {m + i}
    BY <2>3, <2>4
  <2> QED BY <2>4, <2>5 DEF Once
<1> QED BY <1>2, <1>6, <1>7, <1>8 DEF FieldLists, T, w

LEMMA SingleField ==
    ASSUME NEW x \in Texts
    PROVE  <<x>> \in FieldLists /\ Elements(<<x>>) = {x} /\ \A name : FieldName(x) = name => Once(<<x>>, name)
<1>1. <<x>> \in FieldLists /\ DOMAIN <<x>> = {1} /\ <<x>>[1] = x
  <2>1. DOMAIN <<x>> = 1..1 /\ 1..1 = {1}
    OBVIOUS
  <2> QED BY <2>1 DEF FieldLists
<1> DEFINE s == <<x>>
<1> HIDE DEF s
<1>2. s \in FieldLists /\ DOMAIN s = {1} /\ s[1] = x
  BY <1>1 DEF s
<1>3. Elements(s) = {x}
  BY <1>2 DEF Elements
<1>4. ASSUME NEW name, FieldName(x) = name
      PROVE  Once(s, name)
  BY <1>2, <1>4 DEF Once
<1> QED BY <1>2, <1>3, <1>4 DEF s

LEMMA NoField == <<>> \in FieldLists /\ Elements(<<>>) = {}
<1>1. <<>> \in FieldLists
  BY EmptySeq DEF FieldLists
<1>2. DOMAIN <<>> = {}
  OBVIOUS
<1> QED BY <1>1, <1>2 DEF Elements

\* The lines in their order are the same lines.
LEMMA InOrderKeeps ==
    ASSUME NEW lines, DOMAIN lines \in SUBSET Nat, IsFiniteSet(DOMAIN lines),
           \A i \in DOMAIN lines : lines[i] \in Texts
    PROVE  /\ InOrder(lines) \in FieldLists /\ Elements(InOrder(lines)) = Elements(lines)
           /\ \A name : Once(lines, name) => Once(InOrder(lines), name)
<1> DEFINE size == Cardinality(DOMAIN lines)
           s == InOrder(lines)
           S == DOMAIN lines
<1>1. size \in Nat /\ DOMAIN s = 1..size
  BY InOrderIs
<1>2. PICK at \in [1..size -> S] :
        /\ s = [n \in 1..size |-> lines[at[n]]]
        /\ \A i \in S : \E n \in 1..size : at[n] = i
        /\ \A m, n \in 1..size : at[m] = at[n] => m = n
  BY InOrderIs
<1> HIDE DEF size, s
<1>3. \A n \in 1..size : s[n] = lines[at[n]] /\ at[n] \in S
  BY <1>2
<1>4. s \in FieldLists
  <2>1. \A n \in 1..size : lines[at[n]] \in Texts
    BY <1>3
  <2>2. s \in [1..size -> Texts]
    BY <1>2, <2>1
  <2> QED BY <1>1, <2>2, SeqDef DEF FieldLists
<1>5. Elements(s) = Elements(lines)
  <2>1. ASSUME NEW x \in Elements(s) PROVE x \in Elements(lines)
    BY <1>1, <1>3 DEF Elements
  <2>2. ASSUME NEW x \in Elements(lines) PROVE x \in Elements(s)
    <3>1. PICK i \in S : x = lines[i]
      BY DEF Elements
    <3>2. PICK n \in 1..size : at[n] = i
      BY <1>2
    <3>3. s[n] = x
      BY <1>3, <3>1, <3>2
    <3> QED BY <1>1, <3>3 DEF Elements
  <2> QED BY <2>1, <2>2
<1>6. ASSUME NEW name, Once(lines, name)
      PROVE  Once(s, name)
  <2>1. PICK i \in S : {k \in S : FieldName(lines[k]) = name} = {i}
    BY <1>6 DEF Once
  <2>2. PICK n \in 1..size : at[n] = i
    BY <1>2
  <2>3. FieldName(s[n]) = name
    BY <1>3, <2>1, <2>2
  <2>4. ASSUME NEW k \in 1..size, FieldName(s[k]) = name
        PROVE  k = n
    <3>1. at[k] = i
      BY <1>3, <2>1, <2>4
    <3> QED BY <1>2, <2>2, <3>1
  <2>5. {k \in 1..size : FieldName(s[k]) = name} = {n}
    BY <2>3, <2>4
  <2> QED BY <1>1, <2>5 DEF Once
<1> QED BY <1>4, <1>5, <1>6 DEF s

\* The fields that are passed on.
LEMMA WithoutIs ==
    ASSUME NEW fields \in FieldLists, NEW names
    PROVE  /\ Without(fields, names) \in FieldLists
           /\ Elements(Without(fields, names))
                = {x \in Elements(fields) : FieldName(x) \notin HopByHop \cup names}
<1> DEFINE left == {i \in DOMAIN fields : FieldName(fields[i]) \notin HopByHop \cup names}
           lines == [i \in left |-> fields[i]]
<1>1. Without(fields, names) = InOrder(lines)
  BY Zenon DEF Without, RestrictValues, Restrict
<1>2. /\ DOMAIN fields \in SUBSET Nat /\ IsFiniteSet(DOMAIN fields)
      /\ \A i \in DOMAIN fields : fields[i] \in Texts
  BY FieldListType
<1>3. left \in SUBSET Nat /\ IsFiniteSet(left)
  <2>1. left \in SUBSET DOMAIN fields
    OBVIOUS
  <2> QED BY <1>2, <2>1, FS_Subset
<1>4. DOMAIN lines = left /\ \A i \in left : lines[i] = fields[i] /\ lines[i] \in Texts
  BY <1>2
<1>5. Elements(lines) = {x \in Elements(fields) : FieldName(x) \notin HopByHop \cup names}
  BY <1>4 DEF Elements
<1> HIDE DEF lines, left
<1> QED BY <1>1, <1>3, <1>4, <1>5, InOrderKeeps

\* header_value finds a field of this name if there is one.
LEMMA FirstNamedIs ==
    ASSUME NEW fields \in FieldLists, NEW name
    PROVE  \/ FirstNamed(fields, name) = <<>> /\ FieldsNamed(fields, name) = {}
           \/ \E x \in FieldsNamed(fields, name) : x \in Texts /\ FirstNamed(fields, name) = <<x>>
<1> DEFINE hits == {i \in 1..Len(fields) : FieldName(fields[i]) = name}
           first == IF hits # {} THEN Min(hits) ELSE 0
<1>1. FirstNamed(fields, name) = IF first = 0 THEN <<>> ELSE <<fields[first]>>
  BY Zenon DEF FirstNamed, SelectInSeq
<1>2. /\ Len(fields) \in Nat /\ DOMAIN fields = 1..Len(fields)
      /\ \A i \in DOMAIN fields : fields[i] \in Texts
  BY FieldListType
<1>3. FieldsNamed(fields, name) = {fields[i] : i \in hits}
  BY <1>2 DEF FieldsNamed
<1>4. CASE hits = {}
  BY <1>1, <1>3, <1>4
<1>5. CASE hits # {}
  <2>1. hits \in SUBSET Nat
    BY <1>2
  <2>2. \E i \in hits : \A j \in hits : i <= j
    BY <1>5, <2>1, Smallest
  <2> HIDE DEF hits
  <2>3. Min(hits) \in hits
    BY <2>2 DEF Min
  <2>4. first \in hits /\ first # 0
    <3>1. 0 \notin hits
      BY <1>2 DEF hits
    <3> QED BY <1>5, <2>3, <3>1
  <2> HIDE DEF first
  <2>5. FirstNamed(fields, name) = <<fields[first]>> /\ fields[first] \in FieldsNamed(fields, name)
    BY <1>1, <1>3, <2>4
  <2>6. fields[first] \in Texts
    BY <1>2, <2>4 DEF hits
  <2> QED BY <2>5, <2>6
<1> QED BY <1>4, <1>5

\* headers() of a head.
LEMMA HeadersAre ==
    ASSUME NEW t \in Texts, HeadLength(t) # 0
    PROVE  /\ HeadersOf(t) \in FieldLists /\ Elements(HeadersOf(t)) = Elements(FieldsOf(t))
           /\ \A name : Once(FieldsOf(t), name) => Once(HeadersOf(t), name)
<1> DEFINE e == Find(t, CRLF \o CRLF, 1)
           f == Find(t, CRLF, 1)
<1>1. e # 0 /\ HeadLength(t) = e + 3 /\ FirstHeadEnd(t, e)
  BY HeadLengthIs
<1>2. Len(t) \in Nat /\ e \in 1..(Len(t) - 3)
  BY <1>1, TextType DEF FirstHeadEnd
<1>3. f \in 1..e
  <2>1. 1 \in 1..e
    BY <1>2
  <2> QED BY <1>1, <2>1, HeadHasLine
<1>4. f + 2 \in Nat \ {0} /\ HeadLength(t) - 3 = e
  BY <1>1, <1>2, <1>3
<1>5. FieldsOf(t) = FieldLines(t, f + 2, e)
  BY <1>4 DEF FieldsOf
<1>6. DOMAIN FieldsOf(t) = Starts(t, f + 2, e)
  BY <1>5, FieldLinesAre
<1> HIDE DEF e, f
<1>7. DOMAIN FieldsOf(t) \in SUBSET (1..e)
  BY <1>1, <1>4, <1>6, StartsIn
<1>8. DOMAIN FieldsOf(t) \in SUBSET Nat /\ IsFiniteSet(DOMAIN FieldsOf(t))
  <2>1. IsFiniteSet(1..e)
    BY <1>2, FS_Interval
  <2> QED BY <1>2, <1>7, <2>1, FS_Subset
<1>9. \A i \in DOMAIN FieldsOf(t) : FieldsOf(t)[i] \in Texts
  BY FieldsAreTexts
<1> QED BY <1>8, <1>9, InOrderKeeps DEF HeadersOf

--------------------------------------------------------------------------------
(* The fields that the rewriter adds *)

LEMMA FieldOfOne ==
    ASSUME NEW start \in FieldStarts
    PROVE  /\ <<start>> \in Texts /\ WellFormedField(<<start>>) /\ <<start>>[1] = start
<1>1. start \in Symbols
  BY Zenon DEF Symbols
<1>2. <<start>> \in Texts
  BY <1>1 DEF Texts
<1>3. start \notin Controls
  BY DEF FieldStarts, Controls
<1>4. DOMAIN <<start>> = {1} /\ <<start>>[1] = start
  <2>1. DOMAIN <<start>> = 1..1 /\ 1..1 = {1}
    OBVIOUS
  <2> QED BY <2>1
<1> DEFINE s == <<start>>
<1> HIDE DEF s
<1>5. DOMAIN s = {1} /\ s[1] = start
  BY <1>4 DEF s
<1>6. Printable(s)
  BY <1>3, <1>5 DEF Printable
<1>7. Named(s)
  <2>1. \A j \in 1..(1 - 1) : s[j] \in Digits
    OBVIOUS
  <2> QED BY <1>5, <2>1 DEF Named
<1> QED BY <1>2, <1>5, <1>6, <1>7 DEF s, WellFormedField

LEMMA AddedFields ==
    /\ <<"forwarded">> \in Texts /\ WellFormedField(<<"forwarded">>)
    /\ FieldName(<<"forwarded">>) = "Forwarded"
    /\ <<"close">> \in Texts /\ WellFormedField(<<"close">>)
    /\ FieldName(<<"close">>) = "Connection"
    /\ <<"keep">> \in Texts /\ WellFormedField(<<"keep">>)
    /\ FieldName(<<"keep">>) = "Connection"
    /\ <<"chunked">> \in Texts /\ WellFormedField(<<"chunked">>)
    /\ FieldName(<<"chunked">>) = "Transfer-Encoding"
<1>1. "forwarded" \in FieldStarts /\ "close" \in FieldStarts /\ "keep" \in FieldStarts
      /\ "chunked" \in FieldStarts
  BY DEF FieldStarts
<1>2. \A start \in FieldStarts : <<start>> \in Texts /\ WellFormedField(<<start>>)
  BY FieldOfOne
<1>3. FieldName(<<"forwarded">>) = "Forwarded"
  BY <1>1, FieldOfOne DEF FieldName
<1>4. FieldName(<<"close">>) = "Connection" /\ FieldName(<<"keep">>) = "Connection"
  BY <1>1, FieldOfOne DEF FieldName
<1>5. FieldName(<<"chunked">>) = "Transfer-Encoding"
  BY <1>1, FieldOfOne DEF FieldName
<1> QED BY <1>1, <1>2, <1>3, <1>4, <1>5

\* to_string behind "Content-Length: ".
LEMMA LengthField ==
    ASSUME NEW size \in Nat, size <= SizeMax
    PROVE  LET x == <<"length">> \o Decimal(size)
           IN  /\ x \in Texts /\ WellFormedField(x) /\ FieldName(x) = "Content-Length"
               /\ DecimalSize(Tail(x)) = size
<1> DEFINE d == Decimal(size)
           x == <<"length">> \o d
<1>1. DigitsOnly(d) /\ DecimalSize(d) = size
  BY DecimalIs
<1> HIDE DEF d
<1>2. "length" \in FieldStarts
  BY DEF FieldStarts
<1>3. "length" \in Symbols /\ Digits \in SUBSET Symbols
  BY <1>2, Zenon DEF Symbols
<1>4. d \in Seq(Symbols) /\ d \in Seq(Digits)
  <2>1. d \in Texts /\ \A i \in 1..Len(d) : d[i] \in Digits
    BY <1>1 DEF DigitsOnly
  <2>2. Len(d) \in Nat /\ DOMAIN d = 1..Len(d) /\ d \in [1..Len(d) -> Symbols]
    BY <2>1, LenProperties DEF Texts
  <2>3. d \in [1..Len(d) -> Digits]
    BY <2>1, <2>2
  <2>4. d \in Seq(Digits)
    BY <2>2, <2>3, SeqDef
  <2> QED BY <2>1, <2>4 DEF Texts
<1>5. x \in Seq(Symbols) /\ Len(x) = Len(d) + 1 /\ x[1] = "length" /\ Tail(x) = d
      /\ Len(d) \in Nat /\ DOMAIN x = 1..(Len(d) + 1) /\ \A i \in 2..(Len(d) + 1) : x[i] \in Digits
  <2> DEFINE S == Symbols
             one == <<"length">>
  <2> HIDE DEF S
  <2>1. one \in Seq(S) /\ Len(one) = 1 /\ one[1] = "length" /\ d \in Seq(S)
    BY <1>3, <1>4 DEF S
  <2> HIDE DEF one
  <2>2. /\ one \o d \in Seq(S) /\ Len(one \o d) = 1 + Len(d)
        /\ \A i \in 1..(1 + Len(d)) : (one \o d)[i] = IF i <= 1 THEN one[i] ELSE d[i - 1]
    <3>1. /\ one \o d \in Seq(S) /\ Len(one \o d) = Len(one) + Len(d)
          /\ \A i \in 1..(Len(one) + Len(d)) : (one \o d)[i] = IF i <= Len(one) THEN one[i] ELSE d[i - Len(one)]
      <4>1. one \in Seq(S) /\ d \in Seq(S)
        BY <2>1
      <4> QED BY ONLY <4>1, ConcatProperties
    <3> QED BY <2>1, <3>1
  <2>3. Len(d) \in Nat
    BY <1>4, LenProperties
  <2>4. (one \o d)[1] = "length"
    BY <2>1, <2>2, <2>3
  <2>5. ASSUME NEW i \in 2..(Len(d) + 1) PROVE (one \o d)[i] \in Digits
    <3>1. i - 1 \in 1..Len(d) /\ ~(i <= 1) /\ i \in 1..(1 + Len(d))
      BY <2>3
    <3>2. d[i - 1] \in Digits
      BY <1>4, <3>1, ElementOfSeq
    <3> QED BY <2>2, <3>1, <3>2
  <2>6. Tail(one \o d) = d
    <3> DEFINE w == one \o d
    <3> HIDE DEF w
    <3>1. w \in Seq(S) /\ Len(w) = 1 + Len(d) /\ w # <<>>
      BY <2>2, <2>3 DEF w
    <3>2. Tail(w) \in Seq(S) /\ Len(Tail(w)) = Len(w) - 1 /\ \A i \in 1..(Len(w) - 1) : Tail(w)[i] = w[i + 1]
      BY <3>1, HeadTailProperties
    <3>3. Len(Tail(w)) = Len(d)
      BY <2>3, <3>1, <3>2
    <3>4. ASSUME NEW i \in 1..Len(d) PROVE Tail(w)[i] = d[i]
      <4>1. i \in 1..(Len(w) - 1) /\ i + 1 \in 1..(1 + Len(d)) /\ ~(i + 1 <= 1) /\ (i + 1) - 1 = i
        BY <2>3, <3>1
      <4> QED BY <2>2, <3>2, <4>1 DEF w
    <3>5. Tail(w) = d
      BY <2>1, <3>2, <3>3, <3>4, SeqEqual
    <3> QED BY <3>5 DEF w
  <2> QED BY <2>2, <2>3, <2>4, <2>5, <2>6, LenProperties DEF S, one
<1> HIDE DEF x
<1>6. Named(x)
  <2>1. 1 \in DOMAIN x /\ \A j \in 1..(1 - 1) : x[j] \in Digits
    BY <1>5
  <2> QED BY <1>2, <1>5, <2>1 DEF Named
<1>7. Printable(x)
  <2>1. ASSUME NEW i \in DOMAIN x PROVE x[i] \notin Controls
    <3>1. CASE i = 1
      BY <1>5, <3>1 DEF Controls
    <3>2. CASE i # 1
      <4>1. i \in 2..(Len(d) + 1)
        BY <1>5, <3>2
      <4>2. x[i] \in Digits
        BY <1>5, <4>1
      <4> QED BY <4>2 DEF Digits, Controls
    <3> QED BY <3>1, <3>2
  <2> QED BY <2>1 DEF Printable
<1>8. FieldName(x) = "Content-Length"
  BY <1>5 DEF FieldName
<1>9. /\ x \in Texts /\ WellFormedField(x) /\ FieldName(x) = "Content-Length"
      /\ DecimalSize(Tail(x)) = size
  BY <1>1, <1>5, <1>6, <1>7, <1>8 DEF Texts, WellFormedField
<1> QED BY <1>9 DEF x, d

LEMMA RequestFieldsAre ==
    ASSUME NEW fields
    PROVE  ValidRequestFields(fields) <=>
             /\ \A x \in Elements(fields) :
                  /\ WellFormedField(x)
                  /\ FieldName(x) \notin {"Transfer-Encoding", "Expect"}
                  /\ x # <<"hostless">>
             /\ NoSize \notin LengthsOf(fields)
             /\ \A m, n \in LengthsOf(fields) : m = n
             /\ Once(fields, "Host")
  BY Zenon DEF ValidRequestFields, Elements, Once

LEMMA OnlyOnce ==
    ASSUME NEW fields, NEW name, Once(fields, name)
    PROVE  \E x \in Elements(fields) : FieldsNamed(fields, name) = {x} /\ FieldName(x) = name
<1>1. PICK i \in DOMAIN fields : {k \in DOMAIN fields : FieldName(fields[k]) = name} = {i}
  BY DEF Once
<1>2. FieldName(fields[i]) = name /\ FieldsNamed(fields, name) = {fields[i]}
  BY <1>1 DEF FieldsNamed
<1> QED BY <1>2 DEF Elements

LEMMA NamesOnce == \A fields : NamedByConnection(fields) \in SUBSET {"Other", "Content-Length"}
  BY DEF NamedByConnection

LEMMA FirstIsList ==
    ASSUME NEW fields \in FieldLists, NEW name
    PROVE  /\ FirstNamed(fields, name) \in FieldLists
           /\ Elements(FirstNamed(fields, name)) \in SUBSET FieldsNamed(fields, name)
           /\ FieldsNamed(fields, name) # {} => Elements(FirstNamed(fields, name)) # {}
           /\ \A x, y \in Elements(FirstNamed(fields, name)) : x = y
           /\ Elements(FirstNamed(fields, name)) # {} => Once(FirstNamed(fields, name), name)
<1>1. CASE FirstNamed(fields, name) = <<>> /\ FieldsNamed(fields, name) = {}
  BY <1>1, NoField
<1>2. ASSUME NEW x \in FieldsNamed(fields, name), x \in Texts, FirstNamed(fields, name) = <<x>>
      PROVE  /\ FirstNamed(fields, name) \in FieldLists
             /\ Elements(FirstNamed(fields, name)) = {x}
             /\ Once(FirstNamed(fields, name), name)
  <2>1. FieldName(x) = name
    BY NamedAre
  <2> QED BY <1>2, <2>1, SingleField
<1> QED BY <1>1, <1>2, FirstNamedIs

LEMMA RequestIsPassedOn ==
    ASSUME NEW head \in Texts, HeadLength(head) # 0, ValidRequestFields(FieldsOf(head))
    PROVE  RequestPassedOn(head)
<1> DEFINE F == FieldsOf(head)
           f == HeadersOf(head)
           names == NamedByConnection(f)
           w == Without(f, names \cup {"Host", "Content-Length", "Forwarded"})
           h == FirstNamed(f, "Host")
           c == FirstNamed(f, "Content-Length")
           a == <<<<"forwarded">>, <<"close">>>>
           sent == w \o h \o c \o a
<1>1. /\ f \in FieldLists /\ Elements(f) = Elements(F)
      /\ \A name : Once(F, name) => Once(f, name)
  BY HeadersAre
<1>2. RewrittenRequestFields(f) = sent
  BY Zenon DEF RewrittenRequestFields
<1>3. /\ w \in FieldLists
      /\ Elements(w) = {x \in Elements(f) :
           FieldName(x) \notin HopByHop \cup (names \cup {"Host", "Content-Length", "Forwarded"})}
  BY <1>1, WithoutIs
<1>4. a \in FieldLists /\ Elements(a) = {<<"forwarded">>, <<"close">>}
  <2>1. a \in FieldLists
    BY AddedFields DEF FieldLists
  <2>2. DOMAIN a = {1, 2}
    <3>1. DOMAIN a = 1..2 /\ 1..2 = {1, 2}
      OBVIOUS
    <3> QED BY <3>1
  <2> QED BY <2>1, <2>2 DEF Elements
<1>5. names \in SUBSET {"Other", "Content-Length"}
  BY NamesOnce
<1> HIDE DEF w, h, c, a, names, f, F
<1>6. /\ h \in FieldLists /\ c \in FieldLists
      /\ Elements(h) \in SUBSET FieldsNamed(f, "Host")
      /\ Elements(c) \in SUBSET FieldsNamed(f, "Content-Length")
      /\ FieldsNamed(f, "Host") # {} => Elements(h) # {}
      /\ FieldsNamed(f, "Content-Length") # {} => Elements(c) # {}
      /\ \A x, y \in Elements(c) : x = y
      /\ Elements(h) # {} => Once(h, "Host")
  BY <1>1, FirstIsList DEF h, c
<1>7. sent \in FieldLists /\ Elements(sent) = Elements(w) \cup Elements(h) \cup Elements(c) \cup Elements(a)
  <2>1. w \o h \in FieldLists /\ Elements(w \o h) = Elements(w) \cup Elements(h)
    BY <1>3, <1>6, JoinedFields
  <2>2. w \o h \o c \in FieldLists /\ Elements(w \o h \o c) = Elements(w \o h) \cup Elements(c)
    BY <1>6, <2>1, JoinedFields
  <2>3. sent \in FieldLists /\ Elements(sent) = Elements(w \o h \o c) \cup Elements(a)
    BY <1>4, <2>2, JoinedFields
  <2> QED BY <2>1, <2>2, <2>3
<1>8. ValidRequestFields(F)
  BY DEF F
<1>9. Once(f, "Host")
  BY <1>1, <1>8, RequestFieldsAre
<1>10. PICK host \in Elements(f) : FieldsNamed(f, "Host") = {host} /\ FieldName(host) = "Host"
  BY <1>9, OnlyOnce
<1>11. Elements(h) = {host}
  BY <1>6, <1>10
<1>12. /\ \A x \in Elements(w) : /\ x \in Elements(f)
                                  /\ FieldName(x) \notin names
                                  /\ FieldName(x) # "Host" /\ FieldName(x) # "Content-Length"
       /\ \A x \in Elements(c) : FieldName(x) = "Content-Length" /\ x \in Elements(f)
       /\ \A x \in Elements(a) : FieldName(x) \in {"Forwarded", "Connection"}
  <2>1. \A x \in Elements(c) : FieldName(x) = "Content-Length" /\ x \in Elements(f)
    BY <1>6, NamedAre
  <2>2. \A x \in Elements(a) : FieldName(x) \in {"Forwarded", "Connection"}
    BY <1>4, AddedFields
  <2> QED BY <1>3, <2>1, <2>2
<1>13. Once(sent, "Host")
  <2>1. Once(h, "Host")
    BY <1>6, <1>11
  <2>2. Once(w \o h, "Host") /\ w \o h \in FieldLists
    BY <1>3, <1>6, <1>12, <2>1, JoinedFields
  <2>3. Once(w \o h \o c, "Host") /\ w \o h \o c \in FieldLists
    BY <1>6, <1>12, <2>2, JoinedFields
  <2> QED BY <1>4, <1>12, <2>3, JoinedFields
<1> HIDE DEF sent
<1>14. FieldsNamed(sent, "Host") = FieldsNamed(f, "Host")
  BY <1>7, <1>10, <1>11, <1>12, NamedAre
<1>15. FieldsNamed(sent, "Content-Length") = Elements(c)
  BY <1>7, <1>10, <1>11, <1>12, NamedAre
<1>16. LengthsOf(f) = LengthsOf(F)
  BY <1>1, NamedAre, LengthsAre
<1>17. NoSize \notin LengthsOf(f) /\ \A m, n \in LengthsOf(f) : m = n
  BY <1>8, <1>16, RequestFieldsAre
<1>18. LengthsOf(sent) = LengthsOf(f)
  <2>1. LengthsOf(sent) = {DecimalSize(Tail(x)) : x \in Elements(c)}
    BY <1>15, LengthsAre
  <2>2. LengthsOf(f) = {DecimalSize(Tail(x)) : x \in FieldsNamed(f, "Content-Length")}
    BY LengthsAre
  <2>3. CASE FieldsNamed(f, "Content-Length") = {}
    BY <1>6, <2>1, <2>2, <2>3
  <2>4. CASE FieldsNamed(f, "Content-Length") # {}
    <3>1. PICK y \in Elements(c) : TRUE
      BY <1>6, <2>4
    <3>2. DecimalSize(Tail(y)) \in LengthsOf(sent) /\ DecimalSize(Tail(y)) \in LengthsOf(f)
      BY <1>6, <2>1, <2>2, <3>1
    <3>3. LengthsOf(sent) \in SUBSET LengthsOf(f)
      BY <1>6, <2>1, <2>2
    <3> QED BY <1>17, <3>2, <3>3
  <2> QED BY <2>3, <2>4
<1>19. ValidRequestFields(sent)
  <2>1. \A x \in Elements(f) : /\ WellFormedField(x)
                               /\ FieldName(x) \notin {"Transfer-Encoding", "Expect"}
                               /\ x # <<"hostless">>
    BY <1>1, <1>8, RequestFieldsAre
  <2>2. \A x \in Elements(a) : WellFormedField(x) /\ FieldName(x) \notin {"Transfer-Encoding", "Expect"}
    BY <1>4, AddedFields
  <2>3. \A x \in Elements(a) : x # <<"hostless">>
    <3>1. FieldName(<<"hostless">>) = "Host"
      <4>1. "hostless" \in FieldStarts
        BY DEF FieldStarts
      <4> QED BY <4>1, FieldOfOne DEF FieldName
    <3> QED BY <1>12, <3>1
  <2>4. \A x \in Elements(sent) : x \in Elements(f) \/ x \in Elements(a)
    BY <1>7, <1>11, <1>12
  <2> QED BY <1>13, <1>17, <1>18, <2>1, <2>2, <2>3, <2>4, RequestFieldsAre
<1>20. ContentLengthOf(sent) = ContentLengthOf(f)
  BY <1>18 DEF ContentLengthOf
<1>21. PassedOn(f, sent)
  <2>1. \A x \in Elements(sent) : FieldName(x) \in names => FieldName(x) = "Content-Length"
    BY <1>5, <1>7, <1>10, <1>11, <1>12
  <2> QED BY <2>1 DEF PassedOn, Elements, names
<1> QED BY <1>2, <1>14, <1>19, <1>20, <1>21, Zenon DEF RequestPassedOn, f

LEMMA ResponseFieldsAre ==
    ASSUME NEW fields
    PROVE  ValidResponseFields(fields) <=>
             /\ \A x \in Elements(fields) : WellFormedField(x)
             /\ NoSize \notin LengthsOf(fields)
             /\ \A m, n \in LengthsOf(fields) : m = n
             /\ FieldsNamed(fields, "Transfer-Encoding") \subseteq {<<"chunked">>}
             /\ FieldsNamed(fields, "Transfer-Encoding") = {} \/ LengthsOf(fields) = {}
<1>1. LengthsOf(fields) = {DecimalSize(Tail(x)) : x \in FieldsNamed(fields, "Content-Length")}
  BY LengthsAre
<1>2. (\A i \in DOMAIN fields : WellFormedField(fields[i]))
        <=> (\A x \in Elements(fields) : WellFormedField(x))
  BY DEF Elements
<1> QED BY <1>1, <1>2, Zenon DEF ValidResponseFields

LEMMA LengthOfResponse ==
    ASSUME NEW fields
    PROVE  ResponseLength(fields) = CHOOSE n \in LengthsOf(fields) : TRUE
  BY LengthsAre, Zenon DEF ResponseLength

\* The fields of a response with its framing written anew.
LEMMA ResponseJoined ==
    ASSUME NEW f \in FieldLists, ValidResponseFields(f), NEW closes \in BOOLEAN,
           NEW framing \in FieldLists,
           \A x \in Elements(framing) :
             WellFormedField(x) /\ FieldName(x) \in {"Content-Length", "Transfer-Encoding"}
    PROVE  LET sent == ResponseFields(f) \o framing \o <<ConnectionField(closes)>>
           IN  /\ \A x \in Elements(sent) : WellFormedField(x)
               /\ \A name \in {"Content-Length", "Transfer-Encoding"} :
                    FieldsNamed(sent, name) = {x \in Elements(framing) : FieldName(x) = name}
               /\ PassedOn(f, sent)
<1> DEFINE names == NamedByConnection(f)
           w == ResponseFields(f)
           a == <<ConnectionField(closes)>>
           sent == w \o framing \o a
<1>1. names \in SUBSET {"Other", "Content-Length"}
  BY NamesOnce
<1>2. /\ w \in FieldLists
      /\ Elements(w) = {x \in Elements(f) :
           FieldName(x) \notin HopByHop \cup (names \cup {"Content-Length"})}
  <2>1. w = Without(f, names \cup {"Content-Length"})
    BY DEF ResponseFields
  <2> HIDE DEF w, names
  <2> QED BY <2>1, WithoutIs
<1>3. a \in FieldLists /\ Elements(a) = {ConnectionField(closes)}
      /\ WellFormedField(ConnectionField(closes)) /\ FieldName(ConnectionField(closes)) = "Connection"
  <2>1. ConnectionField(closes) \in {<<"close">>, <<"keep">>}
    BY DEF ConnectionField
  <2>2. ConnectionField(closes) \in Texts
    BY <2>1, AddedFields
  <2>3. WellFormedField(ConnectionField(closes)) /\ FieldName(ConnectionField(closes)) = "Connection"
    BY <2>1, AddedFields
  <2> QED BY <2>2, <2>3, SingleField
<1> HIDE DEF w, a, names
<1>4. sent \in FieldLists /\ Elements(sent) = Elements(w) \cup Elements(framing) \cup Elements(a)
  <2>1. w \o framing \in FieldLists /\ Elements(w \o framing) = Elements(w) \cup Elements(framing)
    BY <1>2, JoinedFields
  <2>2. sent \in FieldLists /\ Elements(sent) = Elements(w \o framing) \cup Elements(a)
    BY <1>3, <2>1, JoinedFields
  <2> QED BY <2>1, <2>2
<1> HIDE DEF sent
<1>5. \A x \in Elements(w) : /\ WellFormedField(x) /\ FieldName(x) \notin names
                             /\ FieldName(x) # "Content-Length" /\ FieldName(x) # "Transfer-Encoding"
  <2>1. \A x \in Elements(f) : WellFormedField(x)
    BY ResponseFieldsAre
  <2> QED BY <1>2, <2>1 DEF HopByHop
<1>6. \A x \in Elements(sent) : WellFormedField(x)
  BY <1>3, <1>4, <1>5
<1>7. ASSUME NEW name \in {"Content-Length", "Transfer-Encoding"}
      PROVE  FieldsNamed(sent, name) = {x \in Elements(framing) : FieldName(x) = name}
  BY <1>3, <1>4, <1>5, NamedAre
<1>8. PassedOn(f, sent)
  <2>1. \A x \in Elements(sent) : FieldName(x) \in names => FieldName(x) = "Content-Length"
    BY <1>1, <1>3, <1>4, <1>5
  <2> QED BY <2>1 DEF PassedOn, Elements, names
<1> QED BY <1>6, <1>7, <1>8 DEF sent, w, a

\* The framings that the rewriter writes, and how they are read again.
LEMMA ResponseFramings ==
    ASSUME NEW head \in Texts, HeadLength(head) # 0, ValidResponseFields(FieldsOf(head)),
           NEW closes \in BOOLEAN, NEW length \in Nat, length <= SizeMax,
           NEW mode, NEW framing,
           \/ /\ mode = "ContentLength" /\ framing = <<<<"length">> \o Decimal(length)>>
              /\ ~WithoutBody(message.method, FirstLine(head))
           \/ /\ mode = "Chunked" /\ framing = <<<<"chunked">>>>
              /\ ~WithoutBody(message.method, FirstLine(head))
           \/ /\ mode = "NoBody" /\ framing = FirstNamed(HeadersOf(head), "Content-Length")
              /\ WithoutBody(message.method, FirstLine(head))
           \/ /\ mode = "CloseDelimited" /\ framing = <<>>
              /\ ~WithoutBody(message.method, FirstLine(head))
    PROVE  ResponsePassedOn(head,
             ResponseFields(HeadersOf(head)) \o framing \o <<ConnectionField(closes)>>,
             mode, length)
<1> DEFINE f == HeadersOf(head)
           sent == ResponseFields(f) \o framing \o <<ConnectionField(closes)>>
           lengths == FieldsNamed(sent, "Content-Length")
           encodings == FieldsNamed(sent, "Transfer-Encoding")
<1>1. f \in FieldLists /\ Elements(f) = Elements(FieldsOf(head))
  BY HeadersAre
<1>2. ValidResponseFields(f)
  BY <1>1, NamedAre, LengthsAre, ResponseFieldsAre
<1> HIDE DEF f
<1>3. ASSUME framing \in FieldLists,
             \A x \in Elements(framing) :
               WellFormedField(x) /\ FieldName(x) \in {"Content-Length", "Transfer-Encoding"}
      PROVE  /\ \A x \in Elements(sent) : WellFormedField(x)
             /\ lengths = {x \in Elements(framing) : FieldName(x) = "Content-Length"}
             /\ encodings = {x \in Elements(framing) : FieldName(x) = "Transfer-Encoding"}
             /\ PassedOn(f, sent)
  <2>1. /\ \A x \in Elements(sent) : WellFormedField(x)
        /\ \A name \in {"Content-Length", "Transfer-Encoding"} :
             FieldsNamed(sent, name) = {x \in Elements(framing) : FieldName(x) = name}
        /\ PassedOn(f, sent)
    BY <1>1, <1>2, <1>3, ResponseJoined
  <2> HIDE DEF sent
  <2> QED BY <2>1
<1>4. LengthsOf(sent) = {DecimalSize(Tail(x)) : x \in lengths}
  BY LengthsAre
<1>5. ResponseLength(sent) = CHOOSE n \in LengthsOf(sent) : TRUE
  BY LengthOfResponse
<1> HIDE DEF sent, lengths, encodings
<1>6. ValidResponseFields(sent) <=>
        /\ \A x \in Elements(sent) : WellFormedField(x)
        /\ NoSize \notin LengthsOf(sent)
        /\ \A m, n \in LengthsOf(sent) : m = n
        /\ encodings \subseteq {<<"chunked">>}
        /\ encodings = {} \/ LengthsOf(sent) = {}
  BY ResponseFieldsAre DEF encodings
<1>7. ModeOf(message.method, FirstLine(head), sent) =
        IF WithoutBody(message.method, FirstLine(head)) THEN "NoBody"
        ELSE IF encodings # {} THEN "Chunked"
        ELSE IF lengths # {} THEN "ContentLength" ELSE "CloseDelimited"
  BY Zenon DEF ModeOf, encodings, lengths
<1>8. SizeMax \in Nat /\ NoSize = SizeMax + 1
  BY SizeAssumption DEF NoSize
<1>9. CASE /\ mode = "ContentLength" /\ framing = <<<<"length">> \o Decimal(length)>>
           /\ ~WithoutBody(message.method, FirstLine(head))
  <2> DEFINE x == <<"length">> \o Decimal(length)
  <2>1. /\ x \in Texts /\ WellFormedField(x) /\ FieldName(x) = "Content-Length"
        /\ DecimalSize(Tail(x)) = length
    BY LengthField
  <2> HIDE DEF x
  <2>2. framing = <<x>>
    BY <1>9 DEF x
  <2>3. framing \in FieldLists /\ Elements(framing) = {x}
    BY <2>1, <2>2, SingleField
  <2>4. /\ \A y \in Elements(sent) : WellFormedField(y)
        /\ lengths = {x} /\ encodings = {} /\ PassedOn(f, sent)
    BY <1>3, <2>1, <2>3
  <2>5. LengthsOf(sent) = {length}
    BY <1>4, <2>1, <2>4
  <2>6. ValidResponseFields(sent)
    BY <1>6, <1>8, <2>4, <2>5
  <2>7. ResponseLength(sent) = length
    BY <1>5, <2>5
  <2>8. ModeOf(message.method, FirstLine(head), sent) = mode
    BY <1>7, <1>9, <2>4
  <2> QED BY <1>9, <2>4, <2>6, <2>7, <2>8 DEF ResponsePassedOn, f, sent
<1>10. CASE /\ mode = "Chunked" /\ framing = <<<<"chunked">>>>
            /\ ~WithoutBody(message.method, FirstLine(head))
  <2>1. framing \in FieldLists /\ Elements(framing) = {<<"chunked">>}
    BY <1>10, AddedFields, SingleField
  <2>2. /\ \A y \in Elements(sent) : WellFormedField(y)
        /\ lengths = {} /\ encodings = {<<"chunked">>} /\ PassedOn(f, sent)
    BY <1>3, <2>1, AddedFields
  <2>3. LengthsOf(sent) = {}
    BY <1>4, <2>2
  <2>4. ValidResponseFields(sent)
    BY <1>6, <2>2, <2>3
  <2>5. ModeOf(message.method, FirstLine(head), sent) = mode
    BY <1>7, <1>10, <2>2
  <2> QED BY <1>10, <2>2, <2>4, <2>5 DEF ResponsePassedOn, f, sent
<1>11. CASE /\ mode = "NoBody" /\ framing = FirstNamed(f, "Content-Length")
            /\ WithoutBody(message.method, FirstLine(head))
  <2>1. framing \in FieldLists /\ Elements(framing) \in SUBSET FieldsNamed(f, "Content-Length")
    BY <1>1, <1>11, FirstIsList
  <2>2. \A x \in Elements(framing) : WellFormedField(x) /\ FieldName(x) = "Content-Length"
    BY <1>2, <2>1, NamedAre, ResponseFieldsAre
  <2>3. /\ \A y \in Elements(sent) : WellFormedField(y)
        /\ lengths = Elements(framing) /\ encodings = {} /\ PassedOn(f, sent)
    BY <1>3, <2>1, <2>2
  <2>4. LengthsOf(sent) \in SUBSET LengthsOf(f)
    BY <1>4, <2>1, <2>3, LengthsAre
  <2>5. ValidResponseFields(sent)
    BY <1>2, <1>6, <2>3, <2>4, ResponseFieldsAre
  <2>6. ModeOf(message.method, FirstLine(head), sent) = mode
    BY <1>7, <1>11
  <2>7. FieldsNamed(sent, "Content-Length") \subseteq FieldsNamed(f, "Content-Length")
    BY <2>1, <2>3 DEF lengths
  <2> QED BY <1>11, <2>3, <2>5, <2>6, <2>7 DEF ResponsePassedOn, f, sent
<1>12. CASE /\ mode = "CloseDelimited" /\ framing = <<>>
            /\ ~WithoutBody(message.method, FirstLine(head))
  <2>1. framing \in FieldLists /\ Elements(framing) = {}
    BY <1>12, NoField
  <2>2. /\ \A y \in Elements(sent) : WellFormedField(y)
        /\ lengths = {} /\ encodings = {} /\ PassedOn(f, sent)
    BY <1>3, <2>1
  <2>3. LengthsOf(sent) = {}
    BY <1>4, <2>2
  <2>4. ValidResponseFields(sent)
    BY <1>6, <2>2, <2>3
  <2>5. ModeOf(message.method, FirstLine(head), sent) = mode
    BY <1>7, <1>12, <2>2
  <2> QED BY <1>12, <2>2, <2>4, <2>5 DEF ResponsePassedOn, f, sent
<1> QED BY <1>9, <1>10, <1>11, <1>12 DEF f

--------------------------------------------------------------------------------
(* A response that ResponseParser has whole *)

\* Its head, the mode and the length of its body.
Holds(p) ==
    /\ p \in ResponseRecords /\ ResponseHead(p.method, p.buffer)
    /\ p.headerBytes = HeadLength(p.buffer) /\ p.mode = ModeIn(p.method, p.buffer)
    /\ p.mode = "Chunked" => Len(p.body) <= MaxBody
    /\ p.mode \in {"ContentLength", "CloseDelimited"} =>
         /\ p.messageBytes \in p.headerBytes..Len(p.buffer)
         /\ p.messageBytes - p.headerBytes <= MaxBody

LEMMA BodyLength ==
    ASSUME NEW p, Holds(p)
    PROVE  Len(ResponseBody(p)) \in Nat /\ Len(ResponseBody(p)) <= SizeMax
<1>1. /\ p.buffer \in Texts /\ p.body \in Texts /\ p.headerBytes \in Nat /\ p.mode \in BodyModes
      /\ MaxBody \in Nat /\ SizeMax \in Nat /\ MaxBody <= SizeMax
  BY SizeAssumption DEF Holds, ResponseRecords
<1>2. CASE p.mode = "Chunked"
  <2>1. ResponseBody(p) = p.body
    BY <1>2 DEF ResponseBody
  <2> QED BY <1>1, <1>2, <2>1, TextType DEF Holds
<1>3. CASE p.mode = "NoBody"
  <2>1. ResponseBody(p) = <<>>
    BY <1>3 DEF ResponseBody
  <2> QED BY <1>1, <2>1, EmptyText
<1>4. CASE p.mode \in {"ContentLength", "CloseDelimited"}
  <2> DEFINE h == p.headerBytes
             m == p.messageBytes
             body == SubSeq(p.buffer, h + 1, m)
  <2>1. ResponseBody(p) = body
    BY <1>4, Zenon DEF ResponseBody
  <2>2. h \in Nat /\ m \in h..Len(p.buffer) /\ m - h <= MaxBody /\ Len(p.buffer) \in Nat
    BY <1>1, <1>4, TextType DEF Holds
  <2> HIDE DEF h, m
  <2>3. h + 1 \in Nat \ {0} /\ m \in Nat /\ m <= Len(p.buffer)
    BY <2>2
  <2>4. Len(body) = IF h + 1 <= m THEN (m - (h + 1)) + 1 ELSE 0
    BY <1>1, <2>3, Cut
  <2> HIDE DEF body
  <2> QED BY <1>1, <2>1, <2>2, <2>3, <2>4
<1> QED BY <1>1, <1>2, <1>3, <1>4 DEF BodyModes

LEMMA CompletedHolds ==
    ASSUME NEW p \in ResponseRecords, ResponseHead(p.method, p.buffer),
           p.headerBytes = HeadLength(p.buffer), p.mode = ModeIn(p.method, p.buffer),
           p.mode # "Chunked", NEW n \in Nat,
           p.mode # "NoBody" =>
             n \in p.headerBytes..Len(p.buffer) /\ n - p.headerBytes <= MaxBody
    PROVE  Holds(Completed(p, n))
<1> DEFINE q == Completed(p, n)
<1>1. /\ q \in ResponseRecords /\ q.method = p.method /\ q.messageBytes = n /\ q.buffer = p.buffer
      /\ q.headerBytes = p.headerBytes /\ q.mode = p.mode
  BY DEF Completed, ResponseRecords, Statuses
<1> HIDE DEF q
<1> QED BY <1>1 DEF Holds, q

\* parse_body
LEMMA BodyHolds ==
    ASSUME NEW p \in ResponseRecords, NEW t \in Texts, Knows(p, t), p.headersParsed,
           Len(t) <= MaxMessage, ParseBody(p).status = "MessageComplete"
    PROVE  Holds(ParseBody(p))
<1> DEFINE next == ParseBody(p)
           n == HeadLength(t)
<1>1. /\ HeadKnown(p, t) /\ p.buffer = t /\ p.status = "NeedMoreData"
  BY DEF Knows
<1>2. /\ ResponseHead(p.method, t) /\ p.headerBytes = n /\ p.mode = ModeIn(p.method, t)
      /\ p.mode = "ContentLength" => p.contentLength = LengthIn(t)
      /\ p.mode = "Chunked" => Follows(p, t, n + 1) /\ p.position >= 2 /\ Matches(p, t, n + 1)
  BY <1>1 DEF HeadKnown
<1>3. /\ n \in Nat /\ n <= Len(t) /\ p.mode \in BodyModes /\ Len(t) \in Nat
      /\ p.mode = "ContentLength" => LengthIn(t) \in 0..MaxBody
      /\ MaxHeader \in Nat /\ MaxBody \in Nat
  BY <1>2, ResponseHeadTypes, TextType, SizeAssumption
<1> HIDE DEF n
<1>4. CASE p.mode = "NoBody"
  <2>1. next = Completed(p, n)
    BY <1>2, <1>4 DEF ParseBody
  <2> HIDE DEF next
  <2> QED BY <1>1, <1>2, <1>3, <1>4, <2>1, CompletedHolds DEF n, next
<1>5. CASE p.mode = "ContentLength"
  <2> DEFINE m == n + LengthIn(t)
  <2>1. next = IF Len(t) >= m THEN Completed(p, m) ELSE p
    BY <1>1, <1>2, <1>5 DEF ParseBody
  <2>2. m \in Nat /\ m - n <= MaxBody /\ m >= n
    BY <1>3, <1>5
  <2> HIDE DEF next, m
  <2>3. next = Completed(p, m) /\ m <= Len(t)
    <3>1. next # p
      BY <1>1 DEF next
    <3> QED BY <1>3, <2>1, <2>2, <3>1
  <2>4. m \in n..Len(t)
    BY <1>3, <2>2, <2>3
  <2> QED BY <1>1, <1>2, <1>5, <2>2, <2>3, <2>4, CompletedHolds DEF n, next
<1>6. CASE p.mode = "CloseDelimited"
  <2>1. next = IF Len(p.buffer) - p.headerBytes > MaxBody THEN ResponseError(p) ELSE p
    BY <1>6 DEF ParseBody
  <2>2. ResponseError(p).status = "Error"
    BY ErrorRecord
  <2> HIDE DEF next
  <2>3. FALSE
    BY <1>1, <2>1, <2>2 DEF next
  <2> QED BY <2>3
<1>7. CASE p.mode = "Chunked"
  <2>1. next = ParseChunkedBody(p)
    BY <1>7 DEF ParseBody
  <2>2. Rounds(p, t, n + 1) /\ p.position >= 2 /\ Matches(p, t, n + 1)
    BY <1>2, <1>7 DEF Rounds
  <2>3. Goes(next, t, n + 1) /\ SameFrame(p, next)
    BY <2>1, <2>2, LoopGoes
  <2>4. next.status = "MessageComplete"
    OBVIOUS
  <2> HIDE DEF next
  <2>5. next \in ResponseRecords /\ Len(next.body) <= MaxBody
    BY <2>3, <2>4 DEF Goes, Follows, Ended
  <2> QED BY <1>1, <1>2, <1>7, <2>3, <2>5 DEF Holds, SameFrame, n, next
<1> QED BY <1>3, <1>4, <1>5, <1>6, <1>7 DEF BodyModes

\* notify_eof
LEMMA EofHolds ==
    ASSUME NEW p, NEW t \in Texts, Judges(p, t), p.status = "NeedMoreData",
           NotifyEof(p).status = "MessageComplete"
    PROVE  Holds(NotifyEof(p))
<1> DEFINE next == NotifyEof(p)
<1>2. next = IF ~p.headersParsed \/ p.mode # "CloseDelimited" THEN ResponseError(p)
             ELSE IF Len(p.buffer) - p.headerBytes > MaxBody THEN ResponseError(p)
             ELSE Completed(p, Len(p.buffer))
  BY Zenon DEF NotifyEof
<1>3. p \in ResponseRecords /\ p.buffer = t
  BY DEF Judges, Awaits, Knows
<1>4. ResponseError(p).status = "Error"
  BY <1>3, ErrorRecord
<1> HIDE DEF next
<1>5. /\ p.headersParsed /\ p.mode = "CloseDelimited" /\ ~(Len(t) - p.headerBytes > MaxBody)
      /\ next = Completed(p, Len(t))
  BY <1>2, <1>3, <1>4 DEF next
<1>6. /\ ResponseHead(p.method, t) /\ p.headerBytes = HeadLength(t) /\ p.mode = ModeIn(p.method, t)
  BY <1>5 DEF Judges, Awaits, Knows, HeadKnown
<1>7. HeadLength(t) \in Nat /\ HeadLength(t) <= Len(t) /\ Len(t) \in Nat /\ MaxBody \in Nat
  BY <1>6, ResponseHeadTypes, TextType, SizeAssumption
<1>8. Len(t) \in p.headerBytes..Len(t) /\ Len(t) - p.headerBytes <= MaxBody
  BY <1>5, <1>6, <1>7
<1> QED BY <1>3, <1>5, <1>6, <1>7, <1>8, CompletedHolds DEF next

\* consume
LEMMA ConsumeHolds ==
    ASSUME NEW p, NEW t \in Texts, NEW chunk \in Texts, Judges(p, t), p.status = "NeedMoreData",
           ConsumeResponse(p, chunk).status = "MessageComplete"
    PROVE  Holds(ConsumeResponse(p, chunk))
<1> DEFINE u == t \o chunk
           next == ConsumeResponse(p, chunk)
<1>1. u \in Texts /\ Len(u) = Len(t) + Len(chunk) /\ Len(t) \in Nat /\ Len(chunk) \in Nat
      /\ MaxMessage \in Nat
  BY Joined, TextType, SizeAssumption DEF MaxMessage
<1>2. p \in ResponseRecords /\ p.buffer = t
  BY DEF Judges, Awaits, Knows
<1>3. ~(Len(chunk) > MaxMessage - Len(p.buffer))
  <2>1. Len(chunk) > MaxMessage - Len(p.buffer) => next = ResponseError(p)
    BY Zenon DEF ConsumeResponse
  <2>2. ResponseError(p).status = "Error"
    BY <1>2, ErrorRecord
  <2> QED BY <2>1, <2>2
<1>4. PICK headed :
        /\ ResponseHeaded(headed, u) /\ headed.method = p.method
        /\ next = IF headed.status = "NeedMoreData" /\ headed.headersParsed
                  THEN ParseBody(headed) ELSE headed
  BY <1>3, ConsumeSteps
<1> HIDE DEF u, next
<1>5. headed.status # "MessageComplete"
  BY <1>4 DEF ResponseHeaded, Knows
<1>6. headed.status = "NeedMoreData" /\ headed.headersParsed /\ next = ParseBody(headed)
  BY <1>4, <1>5 DEF next
<1>7. headed \in ResponseRecords /\ Knows(headed, u)
  BY <1>4, <1>6 DEF ResponseHeaded
<1>8. Len(u) <= MaxMessage
  BY <1>1, <1>2, <1>3
<1>9. ParseBody(headed).status = "MessageComplete"
  BY <1>6 DEF next
<1> QED BY <1>1, <1>6, <1>7, <1>8, <1>9, BodyHolds DEF next

--------------------------------------------------------------------------------
(* What a proxy sends on *)

\* headers() has the framing of the head.
LEMMA SameLengths ==
    ASSUME NEW head \in Texts, HeadLength(head) # 0
    PROVE  ResponseLength(HeadersOf(head)) = LengthIn(head)
<1>1. Elements(HeadersOf(head)) = Elements(FieldsOf(head))
  BY HeadersAre
<1>2. LengthsOf(HeadersOf(head)) = LengthsOf(FieldsOf(head))
  BY <1>1, NamedAre, LengthsAre
<1> QED BY <1>2, LengthOfResponse DEF LengthIn

\* Only a response without a body has no body whatever its fields say.
LEMMA NoBodyIs ==
    ASSUME NEW method, NEW head
    PROVE  ModeIn(method, head) = "NoBody" <=> WithoutBody(method, FirstLine(head))
<1> DEFINE none == WithoutBody(method, FirstLine(head))
           codings == FieldsNamed(FieldsOf(head), "Transfer-Encoding")
           lengths == FieldsNamed(FieldsOf(head), "Content-Length")
           mode == ModeIn(method, head)
<1>1. mode = IF none THEN "NoBody"
             ELSE IF codings # {} THEN "Chunked"
             ELSE IF lengths # {} THEN "ContentLength"
             ELSE "CloseDelimited"
  BY Zenon DEF ModeIn, ModeOf
<1> HIDE DEF none, codings, lengths, mode
<1>2. mode = "NoBody" <=> none
  BY <1>1
<1> QED BY <1>2 DEF none, mode

\* The streaming proxy keeps the framing of every response.
LEMMA HeadIsPassedOn ==
    ASSUME NEW head \in Texts, ResponseHead(message.method, head), NEW closes \in BOOLEAN,
           NEW mode, mode = ModeIn(message.method, head),
           NEW length, length = IF mode = "ContentLength" THEN LengthIn(head) ELSE 0
    PROVE  ResponsePassedOn(head, RewrittenHeadFields(HeadersOf(head), mode, length, closes),
                            mode, length)
<1> DEFINE f == HeadersOf(head)
           framing == CASE mode = "ContentLength" -> <<<<"length">> \o Decimal(length)>>
                        [] mode = "Chunked" -> <<<<"chunked">>>>
                        [] mode = "NoBody" -> FirstNamed(f, "Content-Length")
                        [] OTHER -> <<>>
<1>1. RewrittenHeadFields(f, mode, length, closes)
        = ResponseFields(f) \o framing \o <<ConnectionField(closes)>>
  BY Zenon DEF RewrittenHeadFields
<1>2. /\ HeadLength(head) # 0 /\ ValidResponseFields(FieldsOf(head)) /\ mode \in BodyModes
      /\ length \in Nat /\ length <= SizeMax
  <2>1. /\ HeadLength(head) \in 1..MaxHeader /\ mode \in BodyModes
        /\ mode = "ContentLength" => LengthIn(head) \in 0..MaxBody
    BY ResponseHeadTypes
  <2>2. MaxHeader \in Nat /\ MaxBody \in Nat /\ SizeMax \in Nat /\ MaxBody <= SizeMax
    BY SizeAssumption
  <2> QED BY <2>1, <2>2 DEF ResponseHead
<1>3. mode = "NoBody" <=> WithoutBody(message.method, FirstLine(head))
  BY NoBodyIs
<1>4. mode = "ContentLength" => framing = <<<<"length">> \o Decimal(length)>>
  OBVIOUS
<1>5. mode = "Chunked" => framing = <<<<"chunked">>>>
  OBVIOUS
<1>6. mode = "NoBody" => framing = FirstNamed(f, "Content-Length")
  OBVIOUS
<1>7. mode = "CloseDelimited" => framing = <<>>
  OBVIOUS
<1> HIDE DEF framing
<1>8. ResponsePassedOn(head, ResponseFields(f) \o framing \o <<ConnectionField(closes)>>,
                       mode, length)
  BY <1>2, <1>3, <1>4, <1>5, <1>6, <1>7, ResponseFramings DEF BodyModes
<1> QED BY <1>1, <1>8

\* The buffering proxy sends every body that it has decoded by its length.
LEMMA BodyIsPassedOn ==
    ASSUME NEW head \in Texts, ResponseHead(message.method, head), NEW closes \in BOOLEAN,
           NEW mode, mode = ModeIn(message.method, head), NEW length \in Nat, length <= SizeMax
    PROVE  ResponsePassedOn(head, RewrittenResponseFields(HeadersOf(head), mode, length, closes),
                            IF mode = "NoBody" THEN "NoBody" ELSE "ContentLength", length)
<1> DEFINE f == HeadersOf(head)
           framing == IF mode # "NoBody" THEN <<<<"length">> \o Decimal(length)>>
                      ELSE FirstNamed(f, "Content-Length")
           sent == IF mode = "NoBody" THEN "NoBody" ELSE "ContentLength"
<1>1. RewrittenResponseFields(f, mode, length, closes)
        = ResponseFields(f) \o framing \o <<ConnectionField(closes)>>
  BY Zenon DEF RewrittenResponseFields
<1>2. HeadLength(head) # 0 /\ ValidResponseFields(FieldsOf(head))
  BY SizeAssumption DEF ResponseHead
<1>3. mode = "NoBody" <=> WithoutBody(message.method, FirstLine(head))
  BY NoBodyIs
<1>4. \/ mode = "NoBody" /\ framing = FirstNamed(f, "Content-Length") /\ sent = "NoBody"
      \/ mode # "NoBody" /\ framing = <<<<"length">> \o Decimal(length)>> /\ sent = "ContentLength"
  OBVIOUS
<1> HIDE DEF framing, sent
<1>5. ResponsePassedOn(head, ResponseFields(f) \o framing \o <<ConnectionField(closes)>>,
                       sent, length)
  BY <1>2, <1>3, <1>4, ResponseFramings
<1> QED BY <1>1, <1>5 DEF sent

--------------------------------------------------------------------------------
(* The heads that the streaming proxy keeps *)

RequestHeadKnown(r) ==
    r.phase \in {"Body", "Complete"} =>
      r.head \in Texts /\ HeadLength(r.head) # 0 /\ ValidRequestFields(FieldsOf(r.head))

ResponseHeadKnown(method, r) ==
    r.phase \in {"Body", "Complete"} =>
      r.head \in Texts /\ ResponseHead(method, r.head) /\ r.mode = ModeIn(method, r.head)

\* finish_request_head
LEMMA RequestHeadFinished ==
    ASSUME NEW r \in ReceiverRecords, NEW t \in Texts, HeadLength(t) # 0
    PROVE  RequestHeadKnown(FinishRequestHead(r, SubSeq(t, 1, HeadLength(t)),
                                              SubSeq(t, HeadLength(t) + 1, Len(t))))
<1> DEFINE head == SubSeq(t, 1, HeadLength(t))
           extra == SubSeq(t, HeadLength(t) + 1, Len(t))
           p == ConsumeRequest(NewRequestParser, head)
           left == p.contentLength - Len(extra)
           taken == Len(head) + Len(extra)
           phase == IF Len(extra) = p.contentLength THEN "Complete" ELSE "Body"
           next == FinishRequestHead(r, head, extra)
<1>1. head \in Texts /\ Len(head) = HeadLength(t) /\ HeadLength(head) = HeadLength(t)
  BY HeadCut
<1>2. next = IF \/ p.status = "Error" \/ p.headerBytes = 0
                \/ Len(extra) > p.contentLength
             THEN Rejected(r)
             ELSE [r EXCEPT !.head = head, !.left = left, !.taken = taken, !.phase = phase]
  BY Zenon DEF FinishRequestHead
<1> SUFFICES RequestHeadKnown(next)
  OBVIOUS
<1>3. \/ p.status = "Error" \/ HeadRead(p, head)
  <2>1. Len(head) # 0
    BY <1>1
  <2> QED BY <1>1, <2>1, HeadParsed
<1> HIDE DEF head, extra, p, left, taken, phase, next
<1>4. CASE next = Rejected(r)
  BY <1>4, RejectedType DEF RequestHeadKnown
<1>5. CASE next # Rejected(r)
  <2>1. HeadRead(p, head)
        /\ next = [r EXCEPT !.head = head, !.left = left, !.taken = taken, !.phase = phase]
    BY <1>2, <1>3, <1>5
  <2>2. next.head = head
    BY <2>1 DEF ReceiverRecords
  <2>3. HasRequestHead(head)
    BY <2>1 DEF HeadRead
  <2> QED BY <1>1, <2>2, <2>3 DEF RequestHeadKnown, HasRequestHead
<1> QED BY <1>4, <1>5

\* accept_request_bytes
LEMMA RequestHeadStep ==
    ASSUME NEW r, NEW t \in Texts, NEW bytes \in Texts, Receives(r, t), RequestHeadKnown(r)
    PROVE  RequestHeadKnown(ReadRequest(r, bytes))
<1> DEFINE u == t \o bytes
           next == ReadRequest(r, bytes)
<1>1. u \in Texts /\ r \in ReceiverRecords
  BY Joined DEF Receives
<1> DEFINE capacity == IF r.phase = "Body" /\ r.left < Len(bytes) THEN r.left ELSE Len(bytes)
           some == SubSeq(bytes, 1, capacity)
<1>0. next = IF r.phase \in {"Head", "Body"} THEN AcceptRequestBytes(r, some) ELSE r
  BY Zenon DEF ReadRequest
<1>2. CASE r.phase \notin {"Head", "Body"}
  BY <1>0, <1>2
<1>3. CASE r.phase = "Head"
  <2> DEFINE end == Find(u, CRLF \o CRLF, 1) + 3
  <2>1. r.head = t
    BY <1>3 DEF Receives
  <2>0. some = bytes
    BY <1>3, WholeCut
  <2>2. next = IF end = 3
               THEN IF Len(u) > MaxHeader THEN Rejected(r) ELSE [r EXCEPT !.head = u]
               ELSE IF end > MaxHeader THEN Rejected(r)
               ELSE FinishRequestHead(r, SubSeq(u, 1, end), SubSeq(u, end + 1, Len(u)))
    BY <1>0, <1>3, <2>0, <2>1 DEF AcceptRequestBytes
  <2>3. (end = 3 <=> HeadLength(u) = 0) /\ (end # 3 => end = HeadLength(u))
    <3>1. u \in Texts
      BY <1>1
    <3> HIDE DEF u
    <3> QED BY <3>1, HeadLengthIs, FindHead
  <2> HIDE DEF u, end, next
  <2>4. CASE next = Rejected(r)
    BY <1>1, <2>4, RejectedType DEF RequestHeadKnown, next
  <2>5. CASE next = [r EXCEPT !.head = u]
    <3>1. next.phase = "Head"
      BY <1>1, <1>3, <2>5 DEF ReceiverRecords
    <3> QED BY <3>1 DEF RequestHeadKnown, next
  <2>6. CASE end # 3 /\ next = FinishRequestHead(r, SubSeq(u, 1, end), SubSeq(u, end + 1, Len(u)))
    BY <1>1, <2>3, <2>6, RequestHeadFinished DEF next
  <2> QED BY <2>2, <2>4, <2>5, <2>6
<1>4. CASE r.phase = "Body"
  <2> HIDE DEF some
  <2>1. next = IF Len(some) > r.left THEN Rejected(r)
               ELSE [r EXCEPT !.left = @ - Len(some), !.taken = @ + Len(some),
                              !.phase = IF Len(some) = r.left THEN "Complete" ELSE "Body"]
    BY <1>0, <1>4 DEF AcceptRequestBytes
  <2> HIDE DEF next
  <2>2. next.head = r.head
    BY <1>1, <2>1 DEF ReceiverRecords, Rejected
  <2> QED BY <1>4, <2>2 DEF RequestHeadKnown, next
<1> QED BY <1>2, <1>3, <1>4

\* append_response_body leaves the head alone.
LEMMA AppendKeeps ==
    ASSUME NEW r \in ListenerRecords, NEW bytes
    PROVE  /\ AppendResponseBody(r, bytes).head = r.head
           /\ AppendResponseBody(r, bytes).mode = r.mode
<1> DEFINE next == AppendResponseBody(r, bytes)
           decoder == Decode(r.decoder, bytes)
           taken == r.taken + Len(bytes)
           left == r.left - Len(bytes)
           received == r.received + Len(bytes)
<1>1. r.mode \in BodyModes
  BY DEF ListenerRecords
<1>2. Rejected(r).head = r.head /\ Rejected(r).mode = r.mode
  BY DEF Rejected, ListenerRecords
<1>3. CASE r.mode = "ContentLength"
  <2>1. next = Rejected(r) \/ \E phase : next = [r EXCEPT !.taken = taken, !.left = left, !.phase = phase]
    <3>1. next = IF Len(bytes) > r.left THEN Rejected(r)
                 ELSE [r EXCEPT !.taken = taken, !.left = left,
                                !.phase = IF Len(bytes) = r.left THEN "Complete" ELSE "Body"]
      BY <1>3 DEF AppendResponseBody, ListenerRecords
    <3> HIDE DEF next, taken, left
    <3> QED BY <3>1
  <2> HIDE DEF next, taken, left
  <2> QED BY <1>2, <2>1 DEF ListenerRecords, next
<1>4. CASE r.mode = "Chunked"
  <2>1. next = Rejected(r) \/ \E phase : next = [r EXCEPT !.taken = taken, !.decoder = decoder, !.phase = phase]
    <3>1. next = IF decoder.state = "Error" THEN Rejected(r)
                 ELSE [r EXCEPT !.taken = taken, !.decoder = decoder,
                                !.phase = IF decoder.state = "Complete" THEN "Complete" ELSE "Body"]
      BY <1>4 DEF AppendResponseBody, ListenerRecords
    <3> HIDE DEF next, taken, decoder
    <3> QED BY <3>1
  <2> HIDE DEF next, taken, decoder
  <2> QED BY <1>2, <2>1 DEF ListenerRecords, next
<1>5. CASE r.mode \in {"NoBody", "CloseDelimited"}
  <2>1. next = Rejected(r) \/ next = [r EXCEPT !.taken = taken, !.received = received, !.phase = "Body"]
    BY <1>5 DEF AppendResponseBody, ListenerRecords
  <2> HIDE DEF next, taken, received
  <2> QED BY <1>2, <2>1 DEF ListenerRecords, next
<1> QED BY <1>1, <1>3, <1>4, <1>5 DEF BodyModes

\* finish_response_head
LEMMA ResponseHeadFound ==
    ASSUME message.method \in {"GET", "HEAD"}, NEW r \in ListenerRecords,
           NEW t \in Texts, HeadLength(t) # 0, HeadLength(t) <= MaxHeader
    PROVE  ResponseHeadKnown(message.method,
             FinishResponseHead(r, SubSeq(t, 1, HeadLength(t)),
                                SubSeq(t, HeadLength(t) + 1, Len(t))))
<1> DEFINE method == message.method
           head == SubSeq(t, 1, HeadLength(t))
           extra == SubSeq(t, HeadLength(t) + 1, Len(t))
           p == ConsumeResponse(NewResponseParser(method), head)
           mode == p.mode
           taken == Len(head)
           left == IF p.mode = "ContentLength" THEN p.contentLength ELSE 0
           w == [r EXCEPT !.head = head, !.mode = mode, !.taken = taken, !.left = left]
           next == FinishResponseHead(r, head, extra)
<1>1. head \in Texts /\ Len(head) = HeadLength(t) /\ HeadLength(head) = HeadLength(t)
  BY HeadCut
<1>2. next = IF p.status = "Error" \/ p.headerBytes = 0 THEN Rejected(r)
             ELSE IF p.mode = "NoBody" \/ (p.mode = "ContentLength" /\ p.contentLength = 0)
             THEN IF extra # <<>> THEN Rejected(w) ELSE [w EXCEPT !.phase = "Complete"]
             ELSE IF extra = <<>> THEN [w EXCEPT !.phase = "Body"]
             ELSE AppendResponseBody(w, extra)
  BY Zenon DEF FinishResponseHead
<1>3. \/ p.status = "Error"
      \/ /\ ResponseHead(method, head) /\ mode = ModeIn(method, head)
         /\ mode = "ContentLength" => p.contentLength = LengthIn(head)
  <2>1. HeadLength(head) = Len(head) /\ Len(head) # 0 /\ Len(head) <= MaxHeader
    BY <1>1
  <2> QED BY <1>1, <2>1, HeadAlone
<1> SUFFICES ResponseHeadKnown(method, next)
  OBVIOUS
<1>4. CASE p.status = "Error" \/ p.headerBytes = 0
  <2>1. next = Rejected(r)
    BY <1>2, <1>4
  <2> HIDE DEF next
  <2> QED BY <2>1, RejectedListener DEF ResponseHeadKnown
<1>5. CASE ~(p.status = "Error" \/ p.headerBytes = 0)
  <2>1. ResponseHead(method, head) /\ mode = ModeIn(method, head)
    BY <1>3, <1>5
  <2>2. mode \in BodyModes /\ left \in Nat /\ taken \in Nat
    <3>1. /\ ModeIn(method, head) \in BodyModes
          /\ ModeIn(method, head) = "ContentLength" => LengthIn(head) \in 0..MaxBody
      BY <1>1, <2>1, ResponseHeadTypes
    <3>2. mode = "ContentLength" => p.contentLength = LengthIn(head)
      BY <1>3, <1>5
    <3>3. left = IF mode = "ContentLength" THEN p.contentLength ELSE 0
      OBVIOUS
    <3>4. taken \in Nat
      BY <1>1, TextType
    <3>5. MaxBody \in Nat
      BY SizeAssumption
    <3> HIDE DEF left, taken, mode, p, head
    <3> QED BY <2>1, <3>1, <3>2, <3>3, <3>4, <3>5
  <2>3. \/ next = Rejected(w) \/ next = [w EXCEPT !.phase = "Complete"]
        \/ next = [w EXCEPT !.phase = "Body"] \/ next = AppendResponseBody(w, extra)
    BY <1>2, <1>5
  <2> HIDE DEF next, head, extra, p, mode, taken, left
  <2>4. w \in ListenerRecords /\ w.head = head /\ w.mode = mode
    BY <1>1, <2>2 DEF ListenerRecords
  <2> HIDE DEF w
  <2>5. next.head = head /\ next.mode = mode
    <3>1. \A phase : /\ [w EXCEPT !.phase = phase].head = head
                     /\ [w EXCEPT !.phase = phase].mode = mode
      BY <2>4 DEF ListenerRecords
    <3>2. AppendResponseBody(w, extra).head = head /\ AppendResponseBody(w, extra).mode = mode
      BY <2>4, AppendKeeps
    <3> QED BY <2>3, <3>1, <3>2 DEF Rejected
  <2> QED BY <1>1, <2>1, <2>5 DEF ResponseHeadKnown
<1> QED BY <1>4, <1>5

\* accept_response_bytes
LEMMA ResponseHeadStep ==
    ASSUME message.method \in {"GET", "HEAD"}, NEW r, NEW t \in Texts, NEW bytes \in Texts,
           Listens(message.method, r, t), ResponseHeadKnown(message.method, r)
    PROVE  ResponseHeadKnown(message.method, ReadResponse(r, bytes))
<1> DEFINE u == t \o bytes
           capacity == IF r.phase = "Body" /\ r.mode = "ContentLength" /\ r.left < Len(bytes)
                       THEN r.left ELSE Len(bytes)
           some == SubSeq(bytes, 1, capacity)
           next == ReadResponse(r, bytes)
<1>1. u \in Texts /\ r \in ListenerRecords
  BY Joined DEF Listens
<1>2. next = IF r.phase \in {"Head", "Body"} THEN AcceptResponseBytes(r, some) ELSE r
  BY Zenon DEF ReadResponse
<1>3. capacity = Len(bytes) => some = bytes
  BY WholeCut
<1> SUFFICES ResponseHeadKnown(message.method, next)
  OBVIOUS
<1>4. CASE r.phase \notin {"Head", "Body"}
  BY <1>2, <1>4
<1>5. CASE r.phase = "Head"
  <2> DEFINE end == Find(u, CRLF \o CRLF, 1) + 3
  <2>1. r.head = t
    BY <1>5 DEF Listens
  <2>2. next = AcceptResponseBytes(r, bytes)
    BY <1>2, <1>3, <1>5
  <2>3. next = IF end = 3
               THEN IF Len(u) > MaxHeader THEN Rejected(r) ELSE [r EXCEPT !.head = u]
               ELSE IF end > MaxHeader THEN Rejected(r)
               ELSE FinishResponseHead(r, SubSeq(u, 1, end), SubSeq(u, end + 1, Len(u)))
    BY <1>5, <2>1, <2>2 DEF AcceptResponseBytes
  <2>4. (end = 3 <=> HeadLength(u) = 0) /\ (end # 3 => end = HeadLength(u)) /\ end \in Nat
        /\ MaxHeader \in Nat
    <3>1. u \in Texts
      BY <1>1
    <3> HIDE DEF u
    <3> QED BY <3>1, HeadLengthIs, FindHead, SizeAssumption
  <2> HIDE DEF u, end, next
  <2>5. CASE next = Rejected(r)
    BY <1>1, <2>5, RejectedListener DEF ResponseHeadKnown
  <2>6. CASE next = [r EXCEPT !.head = u]
    <3>1. next.phase = "Head"
      BY <1>1, <1>5, <2>6 DEF ListenerRecords
    <3> QED BY <3>1 DEF ResponseHeadKnown
  <2>7. CASE end # 3 /\ ~(end > MaxHeader)
    <3>1. HeadLength(u) # 0 /\ HeadLength(u) <= MaxHeader
      BY <2>4, <2>7
    <3>2. next = FinishResponseHead(r, SubSeq(u, 1, HeadLength(u)),
                                   SubSeq(u, HeadLength(u) + 1, Len(u)))
      BY <2>3, <2>4, <2>7
    <3> QED BY <1>1, <3>1, <3>2, ResponseHeadFound
  <2> QED BY <2>3, <2>5, <2>6, <2>7
<1>6. CASE r.phase = "Body"
  <2>1. next = AppendResponseBody(r, some)
    BY <1>2, <1>6 DEF AcceptResponseBytes
  <2> HIDE DEF next, some
  <2>2. next.head = r.head /\ next.mode = r.mode
    BY <1>1, <2>1, AppendKeeps
  <2> QED BY <1>6, <2>2 DEF ResponseHeadKnown
<1> QED BY <1>4, <1>5, <1>6

\* The end of the connection changes neither.
LEMMA EofKeepsHead ==
    ASSUME NEW method, NEW r \in ListenerRecords, ResponseHeadKnown(method, r)
    PROVE  ResponseHeadKnown(method, ResponseEof(r))
<1> DEFINE next == ResponseEof(r)
<1>1. \/ next = r \/ next = Rejected(r)
      \/ r.phase = "Body" /\ next = [r EXCEPT !.phase = "Complete"]
  BY Zenon DEF ResponseEof
<1> HIDE DEF next
<1>2. CASE next = Rejected(r)
  BY <1>2, RejectedListener DEF ResponseHeadKnown, next
<1>3. CASE r.phase = "Body" /\ next = [r EXCEPT !.phase = "Complete"]
  <2>1. next.head = r.head /\ next.mode = r.mode
    BY <1>3 DEF ListenerRecords
  <2> QED BY <1>3, <2>1 DEF ResponseHeadKnown, next
<1> QED BY <1>1, <1>2, <1>3 DEF next

--------------------------------------------------------------------------------
(* The framing that is sent on *)

\* Both proxies hold heads that their framing has been read from.
HeadsKept ==
    /\ RequestHeadKnown(requestHead) /\ ResponseHeadKnown(message.method, responseHead)
    /\ response.status = "MessageComplete" => Holds(response) /\ response.method = message.method

LEMMA HeadsBegin == Init => HeadsKept
  BY DEF Init, HeadsKept, RequestHeadKnown, ResponseHeadKnown, NewRequestReceiver,
         NewResponseReceiver, NewResponseParser

LEMMA RequestHeadsKept ==
    ASSUME RequestsRead, HeadsKept, NEW n \in Nat, ReceiveRequest(n)
    PROVE  HeadsKept'
<1>1. /\ message \in Messages /\ message.kind = "request" /\ read \in 0..Length
      /\ Receives(requestHead, Received) /\ RequestHeadKnown(requestHead)
      /\ message' = message /\ read + n <= Length
      /\ requestHead' = ReadRequest(requestHead, Piece(n))
      /\ response' = response /\ responseHead' = responseHead
  BY DEF RequestsRead, ReceiveRequest, HeadsKept
<1>2. message.bytes \in Texts /\ Length \in Nat /\ Length = Len(message.bytes)
  BY <1>1, MessageType DEF Length
<1>3. Received \in Texts /\ Piece(n) \in Texts
  <2>1. 1 \in Nat \ {0} /\ read + 1 \in Nat \ {0} /\ read \in Nat /\ read + n \in Nat
        /\ read <= Len(message.bytes) /\ read + n <= Len(message.bytes)
    BY <1>1, <1>2
  <2> QED BY <1>2, <2>1, Cut DEF Received, Piece
<1>4. RequestHeadKnown(ReadRequest(requestHead, Piece(n)))
  BY <1>1, <1>3, RequestHeadStep
<1>5. RequestHeadKnown(requestHead')
  BY <1>1, <1>4
<1>6. ResponseHeadKnown(message.method', responseHead')
  BY <1>1 DEF HeadsKept
<1> QED BY <1>1, <1>5, <1>6 DEF HeadsKept

LEMMA ResponseHeadsKept ==
    ASSUME ResponsesRead, ResponsesHeard, HeadsKept, ~eof, NEW n \in Nat, ReceiveResponse(n)
    PROVE  HeadsKept'
<1>1. /\ message \in Messages /\ message.kind = "response" /\ read \in 0..Length
      /\ response.method = message.method /\ Judges(response, Received)
      /\ Listens(message.method, responseHead, Received)
      /\ ResponseHeadKnown(message.method, responseHead)
      /\ message' = message /\ read + n <= Length /\ requestHead' = requestHead
      /\ response' = ConsumeResponse(response, Piece(n))
      /\ responseHead' = ReadResponse(responseHead, Piece(n))
  BY DEF ResponsesRead, ResponsesHeard, ReceiveResponse, HeadsKept
<1>2. /\ message.bytes \in Texts /\ Length \in Nat /\ Length = Len(message.bytes)
      /\ message.method \in {"GET", "HEAD"}
  BY <1>1, ResponseType
<1>3. Received \in Texts /\ Piece(n) \in Texts
  <2>1. read + 1 \in Nat \ {0} /\ read \in Nat /\ read + n \in Nat
        /\ read + n <= Len(message.bytes)
    BY <1>1, <1>2
  <2> QED BY <1>1, <1>2, <2>1, Cut, ReceivedType DEF Piece
<1>4. ResponseHeadKnown(message.method, ReadResponse(responseHead, Piece(n)))
  BY <1>1, <1>2, <1>3, ResponseHeadStep
<1>5. response'.status = "MessageComplete" => Holds(response') /\ response'.method = message.method
  <2>1. response'.method = message.method
    BY <1>1, <1>3, ConsumeJudges
  <2>2. CASE response.status = "NeedMoreData"
    BY <1>1, <1>3, <2>1, <2>2, ConsumeHolds
  <2>3. CASE response.status # "NeedMoreData"
    <3>1. response' = response
      BY <1>1, <2>3 DEF ConsumeResponse
    <3> QED BY <2>1, <3>1 DEF HeadsKept
  <2> QED BY <2>2, <2>3
<1>6. RequestHeadKnown(requestHead')
  BY <1>1 DEF HeadsKept
<1> QED BY <1>1, <1>4, <1>5, <1>6 DEF HeadsKept

LEMMA ClosedHeadsKept ==
    ASSUME ResponsesRead, ResponsesHeard, HeadsKept, UpstreamCloses
    PROVE  HeadsKept'
<1>1. /\ message \in Messages /\ message.kind = "response" /\ read \in 0..Length /\ ~eof
      /\ response.method = message.method /\ Judges(response, Received)
      /\ Listens(message.method, responseHead, Received)
      /\ ResponseHeadKnown(message.method, responseHead)
      /\ message' = message /\ requestHead' = requestHead
      /\ response' = NotifyEof(response) /\ responseHead' = ResponseEof(responseHead)
  BY DEF ResponsesRead, ResponsesHeard, UpstreamCloses, HeadsKept
<1>2. Received \in Texts /\ responseHead \in ListenerRecords
  BY <1>1, ReceivedType DEF Listens
<1>3. ResponseHeadKnown(message.method, ResponseEof(responseHead))
  BY <1>1, <1>2, EofKeepsHead
<1>4. response'.status = "MessageComplete" => Holds(response') /\ response'.method = message.method
  <2>1. response'.method = message.method
    BY <1>1, <1>2, EofJudges
  <2>2. CASE response.status = "NeedMoreData"
    BY <1>1, <1>2, <2>1, <2>2, EofHolds
  <2>3. CASE response.status # "NeedMoreData"
    <3>1. response' = response
      BY <1>1, <2>3 DEF NotifyEof
    <3> QED BY <2>1, <3>1 DEF HeadsKept
  <2> QED BY <2>2, <2>3
<1>5. RequestHeadKnown(requestHead')
  BY <1>1 DEF HeadsKept
<1> QED BY <1>1, <1>3, <1>4, <1>5 DEF HeadsKept

LEMMA HeadsStayKept ==
    RequestsRead /\ ResponsesRead /\ ResponsesHeard /\ HeadsKept /\ [Next]_vars => HeadsKept'
<1> SUFFICES ASSUME RequestsRead, ResponsesRead, ResponsesHeard, HeadsKept, [Next]_vars
             PROVE  HeadsKept'
  OBVIOUS
<1>1. ASSUME NEW n \in RecvSizes \cup {Length - read}, n > 0, ReceiveRequest(n)
      PROVE  HeadsKept'
  <2>1. message \in Messages /\ message.kind = "request" /\ read \in 0..Length
    BY <1>1 DEF RequestsRead, ReceiveRequest
  <2>2. n \in Nat
    BY <1>1, <2>1, MessageType, StreamAssumption
  <2> QED BY <1>1, <2>2, RequestHeadsKept
<1>2. ASSUME NEW n \in RecvSizes \cup {Length - read}, n > 0, ReceiveResponse(n), ~eof
      PROVE  HeadsKept'
  <2>1. message \in Messages /\ message.kind = "response" /\ read \in 0..Length
    BY <1>2 DEF ResponsesRead, ReceiveResponse
  <2>2. n \in Nat
    BY <1>2, <2>1, ResponseType, StreamAssumption
  <2> QED BY <1>2, <2>2, ResponseHeadsKept
<1>3. ASSUME UpstreamCloses
      PROVE  HeadsKept'
  BY <1>3, ClosedHeadsKept
<1>4. ASSUME UNCHANGED vars
      PROVE  HeadsKept'
  BY <1>4 DEF HeadsKept, vars
<1> QED BY <1>1, <1>2, <1>3, <1>4 DEF Next

LEMMA FramingKeptFollows == HeadsKept => FramingKept
<1> SUFFICES ASSUME HeadsKept PROVE FramingKept
  OBVIOUS
<1>1. requestHead.phase \in {"Body", "Complete"} => RequestPassedOn(requestHead.head)
  BY RequestIsPassedOn DEF HeadsKept, RequestHeadKnown
<1>2. ASSUME responseHead.phase \in {"Body", "Complete"}, NEW closes \in BOOLEAN,
             NEW length, length = IF responseHead.mode = "ContentLength"
                                  THEN ResponseLength(HeadersOf(responseHead.head)) ELSE 0
      PROVE  ResponsePassedOn(responseHead.head,
               RewrittenHeadFields(HeadersOf(responseHead.head), responseHead.mode, length, closes),
               responseHead.mode, length)
  <2> DEFINE head == responseHead.head
             mode == responseHead.mode
  <2>1. head \in Texts /\ ResponseHead(message.method, head) /\ mode = ModeIn(message.method, head)
    BY <1>2 DEF HeadsKept, ResponseHeadKnown
  <2>2. HeadLength(head) # 0
    BY <2>1, CountedEnd
  <2>3. length = IF mode = "ContentLength" THEN LengthIn(head) ELSE 0
    BY <1>2, <2>1, <2>2, SameLengths
  <2> HIDE DEF head, mode
  <2>4. ResponsePassedOn(head, RewrittenHeadFields(HeadersOf(head), mode, length, closes),
                         mode, length)
    BY <2>1, <2>3, HeadIsPassedOn
  <2> QED BY <2>4 DEF head, mode
<1>3. ASSUME response.status = "MessageComplete", NEW closes \in BOOLEAN,
             NEW head, head = SubSeq(response.buffer, 1, response.headerBytes),
             NEW length, length = Len(ResponseBody(response))
      PROVE  ResponsePassedOn(head,
               RewrittenResponseFields(HeadersOf(head), response.mode, length, closes),
               IF response.mode = "NoBody" THEN "NoBody" ELSE "ContentLength", length)
  <2> DEFINE t == response.buffer
             mode == response.mode
             method == message.method
  <2>1. Holds(response) /\ response.method = method
    BY <1>3 DEF HeadsKept
  <2>2. /\ t \in Texts /\ ResponseHead(method, t) /\ head = SubSeq(t, 1, HeadLength(t))
        /\ mode = ModeIn(method, t)
    BY <1>3, <2>1 DEF Holds, ResponseRecords
  <2>3. length \in Nat /\ length <= SizeMax
    BY <1>3, <2>1, BodyLength
  <2> HIDE DEF t, mode, method
  <2>4. HeadLength(t) # 0
    BY <2>2, CountedEnd
  <2>5. head \in Texts /\ HeadLength(head) = HeadLength(t) /\ Begins(head, t)
    BY <2>2, <2>4, HeadCut
  <2>6. HeadLength(head) # 0
    BY <2>4, <2>5
  <2>7. ResponseHead(method, head) /\ mode = ModeIn(method, head)
    BY <2>2, <2>5, <2>6, ResponseHeadStays
  <2>8. ResponsePassedOn(head, RewrittenResponseFields(HeadersOf(head), mode, length, closes),
                         IF mode = "NoBody" THEN "NoBody" ELSE "ContentLength", length)
    BY <2>3, <2>5, <2>7, BodyIsPassedOn DEF method
  <2> QED BY <2>8 DEF mode
<1> QED BY <1>1, <1>2, <1>3, Zenon DEF FramingKept

\* What either proxy sends on has the framing it has read (message_rewriter.cpp):
\* a request keeps its length and its host (rewrite_request_head_for_upstream), a
\* streamed response its mode and its length (rewrite_response_head_for_client), a
\* buffered one is sent by the length of the body as it was decoded
\* (rewrite_response_for_client), which std::to_string writes and any parser reads
\* back; and of the fields a Connection field names, only the length is passed on.
THEOREM FramingIsKept == Spec => []FramingKept
<1>1. Init => RequestsRead /\ ResponsesRead /\ ResponsesHeard /\ HeadsKept
  BY ReadBegins, ResponseReadBegins, HeardBegins, HeadsBegin
<1>2. RequestsRead /\ ResponsesRead /\ ResponsesHeard /\ HeadsKept /\ [Next]_vars
        => RequestsRead' /\ ResponsesRead' /\ ResponsesHeard' /\ HeadsKept'
  BY ReadKept, ResponseReadKept, HeardKept, HeadsStayKept
<1>3. RequestsRead /\ ResponsesRead /\ ResponsesHeard /\ HeadsKept => FramingKept
  BY FramingKeptFollows
<1> QED BY <1>1, <1>2, <1>3, PTL DEF Spec

================================================================================
