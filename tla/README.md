# Edgegate in TLA+

Edgegate is a small HTTP/1.1 reverse proxy: one process, one thread, one epoll
loop. This directory holds a model of the service, of
its HTTP reading and of the buffering proxy it grew out of, the TLC runs that
check it and the TLAPS proofs about it. Every definition is translated from `src/src` and
`src/include`; where a document and the code differ, the model follows the code
and the difference is a run that expects a violation or is listed below them.

Because one thread runs everything, the atomic step is a callback: an
`on_event`, from its first test of the event bits to its last
`refresh_interests`. What is concurrent is everything around it. The kernel
picks the events of a batch and their order, peers send and vanish when they
like, deadlines pass between any two callbacks, commands and signals arrive in
the same batch as the traffic they are about, and a callback can destroy objects
that later events of the batch name.

## Inventory

| Component | State | Operations | Hard parts |
|---|---|---|---|
| `EventLoop` (`net/event_loop.cpp`) | `handlers_`, `pending_removals_`, `dispatching_`, `stop_requested_`, the kernel's interest list | `add`, `modify`, `remove`, `run_once`, `run`, `stop` | removal of a handler in the middle of a batch, of oneself too; reuse of a descriptor number; late stop |
| `ReliableSession` (`proxy/reliable_proxy_server.cpp`) | state machine of seven states, two `ByteBuffer`s with watermarks, three deadlines, selected and attempted upstreams, descriptors, close flags | `on_event` (read/write of both sides), `check_timeout`, `begin_drain`, `force_close` | retry inside a failure inside a write inside an event; stale event bits; backpressure; keep-alive reuse; timer path and event path |
| Health (`ReliableRuntime`, `routing/route_table.cpp`) | `health_`, `probes_`, two copies of each endpoint's health in the table | `start_probe`, `advance_probes`, `record_result`, `record_upstream_result`, `rebuild_health`, reload | results from probes and from sessions mix; results that outlive a reload; three copies |
| Service (`ReliableRuntime`, `ReliableListener`, `RuntimeTimer`) | `mode_`, `listener_fd_`, `drain_deadline_`, `stop_after_drain_`, `shutdown_not_before_`, `sessions_` | accept, `tick`, `request_drain`, `request_stop`, reload | repeated commands, commands in the batch of an accept, closed sessions still counted, sessions that do not end |
| `RouteTable` lookup | normalized hosts, prefixes, a round-robin cursor per route | `lookup`, `set_endpoint_health`, `set_upstream_health`, `unique_endpoints` | cursor shared by requests, retries and skips; lookup in a table that a reload has replaced |
| `ByteBuffer` | string, read offset, maximum | `append`, `consume`, `clear`, `compact` | reuse of the consumed prefix, bounds |
| `ChunkedStreamDecoder` | state, remaining chunk, line, decoded total | `consume` | any split of the input, size overflow, limit |
| Request and response parsers, `MessageRewriter` | incremental buffers, header lists | `consume`, `reset`, `rewrite_*` | limits and framing; pure otherwise |
| Management and dashboard servers | one request and one answer per connection | accept, read, write | half-closed peers, answer of a stop before the loop ends, no timeout |
| `SignalControl` | a signalfd | SIGTERM and SIGINT as `request_stop` | any number of signals at any time |
| `ObservabilityStore`, `RuntimeLogger` | counters, recent errors, log files | record, snapshot, write, rotate | no influence on the proxy |
| Configuration loader | the parsed configuration | load, validate | relations between sizes and thresholds |
| Legacy `ProxySession`, echo server | as `ReliableSession`, without retry or deadlines; one buffer | `on_event` | kept for the demonstration programs |
| Programs, benchmarks, scripts | none of the service | | |

They interact by direct calls. The loop calls handlers; `ReliableEndpoint`
forwards both descriptors' events to one session; the session asks the runtime's
current table for an upstream, keeps that table for its retry, and reports
results to `record_upstream_result`, which writes `health_` and both copies in
the table; the timer's `tick` sweeps the sessions and drives the probes; commands
and signals call `request_drain` or `reload_configuration` on the runtime, and
`request_drain` calls `begin_drain` on each session.

What makes each of them correct:

* loop: an event reaches the handler it was reported for or nobody; a running
  handler is alive; the kernel watches what is registered; removals complete;
* session: one answer per request and never parts of two; retries are safe;
  descriptors match states; a connection is reused only between exchanges;
  buffers stay within bounds; no direction stays paused; everything ends;
* health: verdicts follow the thresholds and nothing else, all copies agree, a
  dead endpoint is found out and a recovered one comes back;
* service: a drain lets nobody in, lets the busy finish, and ends; a stop ends
  the process, never with a session alive, and not before its client has had
  time to read the answer; a control connection whose client is gone is released;
* reading and writing HTTP: what is a whole message does not depend on how the
  bytes are cut; both proxies and both chunked decoders agree on it; what is sent
  on is framed as what was read;
* buffering proxy: no byte of a message is lost, repeated or left for the next
  exchange, and no exchange waits for an event that nobody asked for.

## Modules

| Module | Models | Role |
|---|---|---|
| `EventLoop` | `net/event_loop.cpp` | the reactor and its identity problem |
| `ReliableSession` | the session class and what `tick` and `request_drain` do to it | core module |
| `SessionLife` | the four things a session can be, seen from the service | interface between the next one and the last one |
| `ServiceLifecycle` | `ReliableRuntime`'s mode, listener, timer, batches | extends `SessionLife`; any number of sessions |
| `UpstreamHealth` | counters, probes, table copies, reload | refines the next |
| `HealthVerdict` | abstract specification of the thresholds | |
| `RouteLookup` | `lookup` and the health setters of `RouteTable`, with the requests that call it | the round-robin cursor and the order of the rules |
| `ControlConnection` | one connection of the management socket or the dashboard | pure operators |
| `ControlledService` | `ServiceLifecycle` with one such connection in its batches | extends both, implements `ServiceLifecycle` |
| `HttpText` | the text of messages and the helpers the parsers share | pure operators |
| `RequestParser`, `ResponseParser`, `ChunkedStreamDecoder`, `MessageRewriter` | the files of these names under `http/` | pure operators over `HttpText` |
| `MessageStreams` | one message read in pieces by both proxies | extends the five above |
| `ByteBuffer` | `net/byte_buffer.cpp` | pure operators |
| `LegacySession` | `proxy/proxy_session.cpp` | extends `ByteBuffer` |
| `Exchange` | what either proxy promises the client of a connection | abstract; both session modules implement it |
| `*_proofs` | | theorems and their proofs |
| `MC*` | | instances for TLC, with the symmetry sets |

### How the state corresponds to the code

**ReliableSession.** The session is one record, in the groups in which the class
declares its members: `request` (`request_head_bytes_`, `request_body_*`,
`request_routes_`, `attempted_upstream_ids_`, `selected_upstream_`), `response`
(`response_mode_`, body length still to come, `response_complete_`, and whose
bytes are buffered or sent: `client_response_bytes_sent_ == 0` is
`sentFrom = {}`), `stream` (descriptors, sizes of the buffers, the two pause
flags), `connection`, `armed` (the masks last given to the loop), `due` (which
deadlines have passed) and `history` (three facts that properties need). A
member function is an operator from a session to the *set* of sessions it may
leave, over all that `recv`, `send`, `connect`, the parsers and the table may
answer. Handlers compose these sets in the order of the calls, so that
`ClientEvent`, `UpstreamEvent`, `Tick` and `RequestDrain` are whole callbacks.
The code's mutual recursion (`upstream_failure` → `retry_upstream` →
`connect_upstream` → `write_upstream` → `upstream_failure`) is finite because a
third attempt is refused; the operators are unrolled accordingly: a failure is
`UpstreamFailure` in the first attempt and `FinalFailure` in the second. Bytes are counts. A read loop or write loop moves
any number of bytes and then stops for any of the reasons the loop has.
`Settled` forgets what the code never reads again (a deadline not watched in the
state, the mode of a finished response), to keep the state space small.

**UpstreamHealth.** `health` is `health_`; `routes.states` and `routes.public`
are the two copies in `RouteTable`; `probes` has at most one probe per key, with
its phase; a request in flight is an attempt with a key, and becomes not `live`
when a reload overtakes it: it goes on with the old table, and its results are
recorded in the new counters if the key is still configured. The deadline of a probe
is compared before anything else of it is looked at, so time can run out for an
upstream that has answered, too. How soon is a constant: `ProbeTicks` of the 100 ms
ticks come before it (`left` counts them down), nine with the default `timeout_ms`
of 1000 if no tick is late, none with 100.

**EventLoop.** Calls of the running callback are actions enabled while `current`
is set. `batch` is the rest of the array that `epoll_wait` filled, each event
with the handler that was registered when it was reported (history: the kernel
returns only the number). `open` is what makes reuse of numbers possible.

**ServiceLifecycle.** `sessions` maps a slot to a `SessionLife`; the two
timestamps are the facts `drainDue` and `graceOver`; `batch` is the set of
handlers with an event not yet dispatched, in any order. The timer, the three
listeners, the signal descriptor and the control connections (as one) are
handlers of their own.
`ReliableSession` is proved to stay within `SessionLife` (`LifeAsPromised`), so
what `ServiceLifecycle` assumes of sessions is what the detailed model does.

**ControlledService.** `console` is the one control connection: how much of its
request `request_` holds, how much of `response_` is unsent, and what its client
has done (`peer`). Both kinds of connection use one set of operators and differ in
`Verdict`: `read_command` looks for the end of the command before it tests the
length, `read_request` after. `OnEvent` is the whole callback, and a command takes
effect within it: `Handled` is the step of `ServiceLifecycle` it makes. `granted`
is history: the first stop came over this connection and its 250 ms are not over.

**MessageStreams.** A message is a sequence of symbols, one byte each for every
limit: CR, LF, digits and ";" are what they are, and a piece of a line that the
parsers treat as a whole is one symbol (`HttpText` lists them). Both proxies
receive the same pieces: `request` and `response` are the parsers as
`proxy_session.cpp` feeds them, `requestHead` and `responseHead` the head
collected and the body counted or decoded as `reliable_proxy_server.cpp` does
it, which asks `recv` for no more than the rest of a counted body: what is behind
stays in the socket (`ReadRequest`, `ReadResponse`). All errors are one status. What is a whole message is said a second time and
without any state (`IsRequest`, `IsResponse`, with sizes in exact arithmetic).

**LegacySession.** Like `ReliableSession`, a set-valued operator per member
function and an action per callback, but the two buffers are `ByteBuffer`s with
their storage and offset, and a byte is its author and its place. `requestSent`
and `answerSent` are history: what the kernel has taken of this exchange.

**RouteLookup.** One table object: `table` is the accepted route list, `healthy`
and `cursor` are the fields of each `RouteState`; a request is what a session
keeps between its first lookup and its retry. A reload makes another table
object and is in `UpstreamHealth`, as are the public copies of the health. A host is
the sequence of its labels and a port is absent, valid or malformed: case, blanks
and the alphabet of host names are left out. The length of a host in labels
orders the suffixes of one host as its length in characters does, and `lookup`
compares no others. `Best` is the scan of `lookup` as a fold, `FirstEligible` its loop
over the pool as the smallest offset. `set_upstream_health` is called by tests
only; it is part of the class, and changes one route where `set_endpoint_health`
changes all.

## Runs

All pass runs are exhaustive. `CHECK_DEADLOCK FALSE` is needed everywhere: a
session that is closed, a loop that has stopped and a service that has ended do
nothing more, as in the program.

| Run | Checks | Bounds |
|---|---|---|
| `session` | ten properties of `ReliableSession`, its refinement of `Exchange` among them | 2 upstreams, capacity 3, watermarks 2/1, chunk 2, bodies ≤ 2 |
| `session_liveness` | `ExchangeEnds`, `PartialHeadEnds`, `DrainCloses` | 2 upstreams, capacity 2, no bodies |
| `health` | `CopiesAgree`, `ProbesAreConfigured` | 2 slots, 2 keys, 1 request, thresholds 1 and 2, 1 reload |
| `health_liveness` | `CountersJustify`, `VerdictsAsPromised`, `DownIsRemoved`, `UpIsRestored` | 2 slots, 1 key, thresholds 2 and 2, 1 reload, three behaviours of the server, 3 ticks before a probe's deadline |
| `loop` | `NoMisdelivery`, `KernelAgrees`, `RemovalCompletes`, `StopEnds` | 3 descriptors, 4 handlers, batches of 3 |
| `service` | `StopIsClean`, `StopIsAnswered`, `NothingAfterDrain`, `StopReturns`, `DrainCompletes`, `PeerReleased` of `ControlledService` | 2 sessions, 1 control connection, requests of 1 or 3 bytes with a limit of 1, blocks of 2, batches of 3 |
| `routes` | `FindsMostSpecific`, `NobodyStarves`, `AvailableIsFound` | 2 requests; every order of every three of six patterns, and one table with a pool of 3 |
| `messages` | `RequestVerdict`, `ResponseVerdict`, `SameFraming`, `FramingKept` | 20 messages and all one symbol away from them; reads of 1, 2, 5 or all; heads ≤ 24, bodies ≤ 19, lines ≤ 24, sizes ≤ 63 |
| `legacy` | `TypeOK`, `WholeMessages`, `KeepsExchange`, `ExchangeEnds` of `LegacySession` | requests of 1, 4, 7 and answers of 2, 5, 7 bytes; capacities 6; compaction from 2 |
| `total_deadline`, `late_request`, `blame` | one claim of a document each, violated | as `session` |

Why the bounds are enough. *Session*: two upstreams make a retry and the refusal
of a third attempt possible (the code refuses by number of attempts, so a third
endpoint adds nothing); the capacity leaves room for one chunk behind a head, the
watermarks are distinct from each other and from empty and full, and a body of two
units can be split, left unread, and exceed the low watermark. The liveness run drops
bodies because TLC's temporal check is quadratic in what the set-valued handlers
return; the deadlines it is about do not depend on them. *Health*: two slots may
name one endpoint or two; a threshold of one and one of two show both the
immediate and the counted verdict; one reload separates an old from a new table.
The safety run lets a probe run out of time at once (`ProbeTicks = 0`). The liveness
run gives it three ticks, which is as little as `UpIsRestored` can do with: with two,
or none, TLC finds an upstream that is always up and stays out because every probe of
it runs out of time. `docs/stage11-report.md:63` tells of such removals, with a
timeout of 100 ms; `edgegate_config.cpp:304` accepts any positive one.
*Loop*: a batch of three with self-removal, removal of another one and a new
handler under a number that was freed. *Service*: one session can
outlive the drain while another is closed and not yet destroyed; a request of one
byte is whole at once, one of three takes two blocks and exceeds the limit, so
that the management connection can find it too long or, all of it being there,
whole; a batch of three holds the command, the timer and a listener or a session. *Messages*: the heads reach the limit
exactly and by one byte; the sizes are such that a number of three hexadecimal or
decimal digits wraps to one that would be accepted; a line may be as long as a head,
which is how the program's defaults are, and bodies are long enough that each of the
limits which only one of the two proxies has (on the trailers together, on a size line
that is cut, on a line, on the message) decides somewhere; a body is followed by more
than it announces, in the `recv` of the head or in a later one; the slips (a symbol
missing, or CR, LF, a control character, a digit, ";" or a field in its place)
make every line end incomplete and every field malformed or doubled; reads of one
byte alone are every cut. *Legacy*: with the capacity of 6, lengths of 1 to 7 are sent in
one or several pieces, force a compaction at either of its two conditions, fill
the buffer, and do not fit. *Routes*: the comparison of candidates looks
at kind, host and prefix, so the six patterns (an exact host under two nested
wildcards, each with two prefixes) have every combination of better and worse, and
three routes in every order show a comparison that is not transitive. A pool of
three has a slot neither at the cursor nor next to it, two of its upstreams share
an address, and two requests take turns with their retries.

What the violations show (the documents are Chinese, quoted in `PROJECT.json`):

* `total_deadline`: a tick that finds the total deadline passed may start a second
  attempt; the next tick ends it. `ExchangeEnds` still holds.
* `late_request`: `finish_request_head` overwrites the close flag that
  `begin_drain` set, so another request can begin until the next tick sweeps.
* `blame`: a client that does not take a complete answer makes
  `check_timeout` record a failure of the upstream that gave it.

Smaller divergences, not run: `docs/user-guide.md:45` says that the source is not
read from the high watermark on, but `EPOLLRDHUP`, which is reported unasked, makes
`ReliableSession::on_event` read another block into a paused direction (line 618;
the capacity check still holds, `TypeOK`). `read_command` refuses a command of more
than 4096 bytes only if no newline has come with the block that passes the limit, so
whether a long command is accepted depends on how `recv` cuts it
(`management_server.cpp:109` to 137; `Verdict`). A second stop leaves its client no
250 ms of its own, the first one's count. `EchoConnection::on_event` reads first and
looks at `EPOLLRDHUP` then, in order not to lose what came before the FIN
(`echo_connection.cpp:89`), but reading stops at the high watermark, and the
connection is removed once the output is empty: what the kernel still held is lost. A pipelined request is an error for
`RequestParser` (`request_parser.cpp:415`) and hence for the buffering proxy, and a
second request for the streaming one, unless it comes in the `recv` of the first one's
head, where it is an error again (`finish_request_head`): there the answer depends on
how `recv` cuts the bytes (`SameRequests`). `RELEASE_NOTES.md:26` lists pipelining as
not supported.
`docs/user-guide.md:48` allows
`high_watermark == capacity` where the loader requires less; a retry excludes
upstreams by id, so a pool that lists one address twice may retry at the same
address although `项目计划.md:195` speaks of another node.
`阶段总结.md:1164` ("Host 优先级确定后，选择最长的字面路径前缀") can be read as
the host deciding first; `lookup` compares only routes whose prefix matches, so a
request falls back to a wildcard if no prefix of the exact host matches its path.
`FindsMostSpecific` states the rule as the code has it.

### Fairness

* `ReliableSession`: weak fairness of `Tick`, of the passing of each deadline and
  of the drain deadline. The timer descriptor is level-triggered and stays ready
  until it is read, and time passes; no event of a peer is assumed.
* `UpstreamHealth`: the same for `tick` and for the clock. `UpIsRestored` supposes
  besides that three ticks come before the deadline of a probe (`PromptTicks`), that
  is a `timeout_ms` above 300 and a loop that is not late; a shorter one is no error
  for the loader, and promises nothing.
* `EventLoop`: `Dispatch`, `Return` and `EndBatch`; no callback blocks, since all
  descriptors are non-blocking and the read loops stop at `EAGAIN`.
* `ServiceLifecycle`: callbacks and the end of the batch, the two clocks, and
  strong fairness of "`epoll_wait` reports the timer": the kernel rotates its list
  of ready descriptors, so one that stays ready is reported again and again, but
  not in each batch. `ControlledService` assumes the same, and of the control
  connection what it assumes of the timer; nothing of its client.
* `LegacySession`: its peers take and send what their sockets are watched for
  (weak fairness of `EPOLLOUT` of the client and of `EPOLLOUT` or `EPOLLIN` of the
  upstream). There is no timer in this proxy, and against a peer that does nothing
  it promises nothing; what `ExchangeEnds` shows is that it always asks for the
  event that would go on.

## Proofs

TLAPS checks the following for all values of the constants, under the named
assumptions of the modules (`HealthAssumption`, `LoopAssumption`, `TableAssumption`,
`HeaderAssumption`, `SlotAssumption`, `ConfigAssumption`, `ControlAssumption`,
`CompactAssumption`, `LegacyAssumption`, `SizeAssumption`, `StreamAssumption`), which
state what the loader and the constructors enforce, or say of what kind the inputs
are.

* `UpstreamHealth_proofs`: `TypeCorrect`, `Agreement`, `Justification`,
  `NoStaleProbe` and `Refinement` (`Spec => VerdictsAsPromised`). The inductive
  invariant joins the types, the agreement of the copies with `health_`, the
  counters below their thresholds and the probes within the configuration:
  agreement of the copies alone is not inductive, since `record_result` updates
  them only when the verdict changes. The refinement maps `record_result` to one
  `Observe` per endpoint, a tick to up to two, and a reload to `Reconfigure`.
* `EventLoop_proofs`: `TypeCorrect`, `Delivery`, `NoUseAfterDestruction`,
  `Agreement`, `RemovedStaysQuiet`. Delivery needs that the number of a handler
  pending removal stays open until the end of the batch, which is the agreement
  with the kernel, and that a handler has only one number.
* `ControlledService_proofs`, of `ServiceLifecycle`: `TypeCorrect`, `CleanStop`,
  `DrainedEmpty`, `NothingAfter`, `Forward`. Between the tick that calls `stop` and
  the end of the batch more callbacks run; the invariant says that no session is
  alive then and, as the listener left with the running mode, none appears. They hold
  with the control connection, too, by `Refinement` (`ControlledSpec => Spec` of
  `ServiceLifecycle`: a callback of the connection is one command or nothing to the
  service). And `Answered` (`StopIsAnswered`): the invariant `Grace` says that the
  time granted to a stop has not passed while `granted` holds, and that the loop is
  told to stop only behind it; a later stop leaves the time alone.
* `ReliableSession_proofs`: `TypeCorrect`, `OneAnswer` (`NoSplice`), `RetryIsSafe`
  (`SafeRetry`), `DescriptorsAgree` (`DescriptorsFollowState`), `RequestBeforeAnswer`
  (`AnswerAfterRequest`), `ReuseIsClean` (`CleanReuse`), `PausesEnd`
  (`BackpressureHasWaker`), `AlwaysArmed` (`ArmedForProgress`) and the two refinements
  `LifeKept` (`LifeAsPromised`) and `PromiseKept` (`KeepsExchange`): every safety
  property the runs check of this module, from one inductive invariant
  (`Invariant`). A handler calls others on sessions that no state between two
  callbacks shows, so there is a lemma per member function, and four predicates,
  each stronger than the one before. `Whole` holds wherever a failure may be met:
  types, one origin of all answer bytes, attempts as allowed, and `DescriptorsKnown`,
  which admits the one session that goes on after it was closed: an upstream failure
  whose own answer found the client gone. `Sound` holds of what a member function
  leaves and ties answer, upstream connection and request to the state: nothing of an
  answer before its head, only the selected upstream's bytes while streaming, the
  request complete and sent before an answer is read. `Rested` adds the masks last
  given to the loop and holds of what a handler leaves, `Quiet` what the end of a
  batch adds. None of the properties is inductive without the others: that a paused
  request has its waker (`BackpressureHasWaker`) needs that a retried request is all
  head, so that its second attempt pauses no more than its first.
  `FailureIsSound` is the centre: from any `Whole` session every outcome of
  `upstream_failure`, retry included, is `Sound`. For the refinements two relations
  are carried through the handlers: `Follows`, what may become of a session that has
  sent part of an answer, and `EdgeOnly`, that nothing of an upstream's answer is
  there.
* `LegacySession_proofs`: `TypeCorrect`, `MessagesWhole` (`WholeMessages`) and
  `PromiseKept` (`Spec => KeepsExchange`). They rest on `AppendedProperties` and
  `ConsumedProperties`: a buffer is the queue of its readable bytes, for any capacity
  and threshold. What the code keeps true of a buffer, and both need, is `Sane`: the
  offset is within the storage, and the storage, consumed prefix included, within
  `max_size_`. Whether `append` or `consume` compacts changes neither the bytes nor
  their order. Again there is one lemma per member function. `Good` says what each state holds of the
  two messages; `WholeMessages` alone is not inductive, since it does not say that
  an answer of EdgeGate's own goes with `close_after_response_`, nor that the
  request buffer is empty by the time the response is read, on which the reuse of
  the connection rests. For the refinement two relations are carried along: what a
  callback may make of a session that answers (`Follows`), and that before the
  upstream was asked only EdgeGate answers (`Refused`).
* `RouteLookup_proofs`: `TypeCorrect`, `NoSecondTry` (`TriedOnce`), `NoStarvation`
  (`NobodyStarves`), `NoFalseRefusal` (`AvailableIsFound`), `MostSpecificFound`
  (`FindsMostSpecific`). The invariant behind
  `NoStarvation` counts patience: the times a healthy slot was passed over plus its
  distance from the cursor stay below the size of the pool. A lookup that passes
  the slot over moves the cursor towards it by at least one, because every slot in
  front of the one taken was not eligible (`TakenIsNearest`). `NoFalseRefusal` needs
  that an offset leads to every slot, and that a nonempty set of offsets has a
  smallest one (`Smallest`, from well-founded induction on numbers).
  `MostSpecificFound` is about the scan itself, for a table of any length: after
  `k` routes the candidate is one that matches and that none of the first `k` beats
  (`ScanFindsLead`, `ScanExists`). The comparison of the loop is a strict weak order
  on the routes that match one host (`BetterOrder`), which it is not on any two
  routes; that is where the length of a suffix in labels is needed. Two routes that
  no comparison separates would be one route, and `RanksOnce` says that the loader
  admits no such pair.
* `MessageStreams_proofs`, with the lemmas about texts, chunked bodies and the decoder
  in `MessageText_proofs`: `RequestsDecided` (`RequestVerdict`), `ResponsesDecided`
  (`ResponseVerdict`), `RequestsAgree` (`SameRequests`, the part of `SameFraming`
  about requests), `FramingAgrees` (`SameFraming`) and `FramingIsKept`
  (`FramingKept`), for any streams, any recv boundaries and any limits.
  `Reads(p, t)` says what `RequestParser` knows of a
  text `t` it has read, and `ConsumeReads` that `consume` takes it from `t` to
  `t` with the chunk behind it, wherever the cut is; `Receives` and `ReadReceives` say
  the same of `ReliableSession`'s reading, which parses the head in one call and may
  have taken less of `t` than has come (`Taking`): what it has taken is a request by
  itself (`TakenIsRequest`), while the parser calls the whole of `t` hopeless. The
  verdict needs more than the property states: a rejected beginning is `Hopeless`,
  no text that begins so is a request. This rests on lemmas about positions
  (`FindLine`, `FindHead`: the first line end, the first blank line, which stay where
  they are when more arrives; `SameHead`: so do the first line and the fields) and
  about numbers (`ParsedIsExact`: what the overflow test of `parse_decimal_size` lets
  through has its exact value). `RequestsRead` is the inductive invariant; TLC checks
  its consequence and not the invariant, whose `Hopeless` ranges over all texts.
  `Judges(p, t)` and `ConsumeJudges` are the same for `ResponseParser`, and
  `ResponsesRead` is the invariant. What is new there is the chunked body.
  `parse_chunked_body` goes in rounds and keeps its place between two calls, while
  `ChunkedLength` defines a body from the position of each chunk on. They meet in
  `Rest`: the length of the body as it follows from where the parser stands. A round
  leaves `Rest` as it is (`Round`), or ends the body, or proves that no body begins
  so, or cannot go on; the loop is a fold of rounds, as many as the buffer has bytes,
  and each takes two, so that a parser which still waits behind it is `Stuck`
  (`Behind`). `SameTrailers` and `SameChunks` say that a body
  found in a text is found in every longer one. The two limits that look at what one
  recv brought are why the property tells apart the size lines the parser must accept
  from those it may.

  `FramingAgrees` compares two programs that share no state: `ResponseParser`, which
  looks for whole lines and chunks, and `ReliableSession` with `ChunkedStreamDecoder`,
  which takes one byte after the other. They are compared through the text alone.
  `After(t, start, n)` is the decoder of a body that begins at `start`, behind byte
  `n`, and `AfterStep` the one step it makes. Inside a line it has given up
  exactly for a bare LF, for a CR which no LF follows or for more than `MaxLine` bytes
  (`LineGiven`), so that its state at the end of each size line, of each chunk and of
  each trailer follows, and with it where it ends: `EndsAt` for a body that
  `ChunkedLength` finds, `Unfinished` for one that still goes on, `Unaccepted` for what
  the parser rejects, unless the parser had a reason of its own (`Excused`). The
  receiver has its own description, `Listens(method, r, t)`: it is still hearing, it
  has heard the response and stopped at its end, or the text is none, or goes on behind
  the end in the recv that brought it. `HeadIsParsed` and its companions say that a
  head which is parsed alone gives the same fields and body mode as one which is parsed
  with what follows it. The inductive invariant is
  `RequestsRead`, `ResponsesRead` and `ResponsesHeard` together. While the connection is
  open each of them is about one program and the text it has received; at its end, which
  both see at once and after which nothing moves, the property itself is kept. For the proof `ResponsesRead`
  had to say more than `ResponseVerdict` needs: a text the parser rejects
  is the beginning of nothing that a decoder or a count would accept either
  (`Decodable`, `Countable` in `DoomedAt`).

  `FramingIsKept` follows the head on to the next hop. It is about sets of fields
  first: `HeadersAre` and `WithoutIs` say which fields `headers()` and the loop of the
  rewriter leave, in what order does not matter, since every field the framing is read
  from is there once (`OnlyOnce`) or all of its kind are dropped. What the rewriter
  adds is valid (`AddedFields`), and the length it writes with `std::to_string` is
  read back by the parsers as the same number, whatever the width of `size_t`
  (`LengthField`). `RequestIsPassedOn`, `HeadIsPassedOn` and `BodyIsPassedOn` put this
  together for the three functions that rewrite a head. To apply them, `HeadsKept`
  joins the inductive invariant: a receiver that is past its head holds one that is
  valid and of its mode, and a response the parser completes has a body no longer than
  the limit (`Holds`), so that its length is a `size_t`.

Some theorems state properties that no run lists any more, since they are proved:
the type invariants of `UpstreamHealth`, `EventLoop`, `ServiceLifecycle` and
`RouteLookup`, `ExecutingIsAlive`, `RemovedIsNotCalled`, `DrainedIsEmpty`,
`ModesAdvance` and `TriedOnce`.

Recursive functions and folds are reached by the smallest counterexample: the
theorems of the library on induction take an operator as a parameter, but the set of
numbers at which a claim fails has a least element (`Smallest`), and at that one the
step of the recursion contradicts it.

Only model-checked: the liveness properties, since fairness and `ENABLED` are outside
the prover. Every other property of the passing runs is a theorem.

## Plan

Done, in this order: `ReliableSession` and `SessionLife`; `UpstreamHealth` with
`HealthVerdict`; `EventLoop`; `ServiceLifecycle`; `RouteLookup`; the parsers, the
decoder and the rewriter in `MessageStreams`; `ByteBuffer` and `LegacySession`;
`Exchange`; `ControlConnection` and `ControlledService`; the proofs above.

Next:

1. `EchoConnection`: the backpressure of the demonstration program, and what it
   loses at a FIN.

## Not modelled

* The echo server, which no part of the service uses (in the plan).
* `ObservabilityStore`, `RuntimeLogger` and the text of the dashboard's pages: they
  are written by the service and change nothing it decides on.
* The configuration loader, beyond the relations it enforces: a function from JSON
  to a configuration that runs before any of the state above exists, and again in a
  reload, whose two outcomes are in `UpstreamHealth`.
* The set-up of sockets, of the socket file and of signals at the start of the
  program; the programs, their arguments and exit codes; the scripts.
* Letters: case, blanks, alphabets of names and hosts, the values of most fields.
  The unit tests under `src/tests` are about them.
* Failure of memory allocation, except where the code catches it (`add` that
  throws, the answer of a command).
