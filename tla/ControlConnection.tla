--------------------------- MODULE ControlConnection ---------------------------
(***************************************************************************)
(* One connection of the management socket (src/runtime/                   *)
(* management_server.cpp) or of the dashboard (src/runtime/                *)
(* dashboard_server.cpp).  The two read one request, run one handler, write *)
(* one answer and go; they differ in the order of two tests of the reading. *)
(*                                                                         *)
(* A member function is an operator from a connection to the set of         *)
(* connections it may leave behind.  Bytes are counts; `runs' says that      *)
(* this callback has run the handler.                                       *)
(***************************************************************************)
EXTENDS FiniteSetsExt, Naturals

CONSTANTS
    RequestSizes,     \* lengths a request may have, its terminator included
    RequestLimit,     \* kMaximumCommandBytes, kMaximumRequestBytes
    RecvSize,         \* size of the block of a recv
    AnswerSize        \* length of every answer

ASSUME ControlAssumption ==
    /\ RequestSizes \subseteq Nat \ {0}
    /\ RequestLimit \in Nat \ {0} /\ RecvSize \in Nat \ {0} /\ AnswerSize \in Nat \ {0}

--------------------------------------------------------------------------------

Kinds == {"management", "dashboard"}
Peers == {"Open", "HalfClosed", "Gone"}

\* request_.size(), response_.size() minus response_offset_ (nothing to send and
\* no answer yet are the same to on_event), and what the client means to send.
Connections == [open: BOOLEAN, kind: Kinds, size: RequestSizes, received: Nat,
                unsent: 0..AnswerSize, peer: Peers, runs: BOOLEAN]

NewConnection(kind, size) ==
    [open |-> TRUE, kind |-> kind, size |-> size, received |-> 0, unsent |-> 0,
     peer |-> "Open", runs |-> FALSE]

Removed(c) == [c EXCEPT !.open = FALSE]

\* interests: the answer is what tells reading from writing.
Answering(c) == c.unsent > 0

--------------------------------------------------------------------------------
(* read_command, read_request *)

\* The end of a command is looked for before its length is tested, the end of an
\* HTTP request after it.
Verdict(c, received) ==
    LET whole == received >= c.size
        long == received > RequestLimit
    IN  IF c.kind = "management"
        THEN IF whole THEN "Whole" ELSE IF long THEN "TooLong" ELSE "More"
        ELSE IF long THEN "TooLong" ELSE IF whole THEN "Whole" ELSE "More"

\* What request_ holds after each recv of the loop when `waiting' bytes are there.
Reads(c, waiting) == {c.received + Min({k * RecvSize, waiting}) : k \in 1..waiting}

\* The answer replaces the request; the handler runs, or the request is refused.
Queued(c, runs) == [c EXCEPT !.received = 0, !.unsent = AnswerSize, !.runs = runs]

\* A whole request.  queue_response gives up on an answer it cannot write down;
\* the handler may have run before that.
Taken(c) ==
    UNION {{Queued(c, runs)} \cup IF c.kind = "management"
                                  THEN {Removed([c EXCEPT !.runs = runs])} ELSE {} :
             runs \in BOOLEAN}

\* Slip: the end of the connection is taken for an empty socket.
ReadPastEof(c, waiting) ==
    LET decided == {r \in Reads(c, waiting) : Verdict(c, r) # "More"}
    IN  IF decided = {} THEN {[c EXCEPT !.received = @ + waiting]}
        ELSE IF Verdict(c, Min(decided)) = "TooLong" THEN {Queued(c, FALSE)}
        ELSE Taken(c)

\* The loop ends at the first verdict, or when the socket is empty, which at the
\* end of the connection removes it.
Read(c, waiting) ==
    LET decided == {r \in Reads(c, waiting) : Verdict(c, r) # "More"}
    IN  IF decided = {} /\ c.peer # "Open" THEN {Removed(c)}
        ELSE IF decided = {} THEN {[c EXCEPT !.received = @ + waiting], Removed(c)}
        ELSE IF Verdict(c, Min(decided)) = "TooLong" THEN {Queued(c, FALSE)}
        ELSE Taken(c)

--------------------------------------------------------------------------------
(* write_response *)

\* Everything is sent and the connection is over, or the kernel takes a part.  A
\* client that is gone may have bytes taken for it, but it makes no call block.
Written(c) ==
    {Removed([c EXCEPT !.unsent = 0]), Removed(c)}
    \cup {[c EXCEPT !.unsent = n] : n \in 1..(IF c.peer = "Gone" THEN c.unsent - 1 ELSE c.unsent)}

--------------------------------------------------------------------------------
(* on_event *)

OnEvent(c, events, waiting) ==
    LET d == [c EXCEPT !.runs = FALSE]
        read == IF "IN" \in events /\ ~Answering(d) THEN Read(d, waiting) ELSE {d}
        rest(t) == IF ~t.open THEN {t}
                   ELSE IF Answering(t) /\ "OUT" \in events THEN Written(t)
                   ELSE IF "HUP" \in events /\ ~Answering(t) THEN {Removed(t)}
                   ELSE {t}
    IN  IF "ERR" \in events THEN {Removed(d)} ELSE UNION {rest(t) : t \in read}

\* What epoll reports: EPOLLIN while there is something to read, the end of the
\* connection included, EPOLLOUT while the kernel takes bytes, as it always does
\* for a client that is gone, and EPOLLHUP and EPOLLERR for such a client alone.
Reported(c, waiting) ==
    {e \in SUBSET {"IN", "OUT", "HUP", "ERR"} :
       /\ e # {}
       /\ "IN" \in e <=> ~Answering(c) /\ (waiting > 0 \/ c.peer # "Open")
       /\ "OUT" \in e => Answering(c)
       /\ c.peer = "Gone" /\ Answering(c) => "OUT" \in e
       /\ e \cap {"HUP", "ERR"} # {} => c.peer = "Gone"}
================================================================================
