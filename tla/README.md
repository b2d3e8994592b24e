# BeastWebsocket in TLA+

A model of BeastWebsocket, a header-only C++ library that puts callback style
websocket sessions (server and client) on top of Boost.Beast and BeastHttp, and
of the programs in `examples/`.  The modules are translated from the headers in
`src/include`; Boost.Beast, Boost.Asio and BeastHttp are not part of the
repository and appear only as the answers their operations may give.

## The system

| part | state | operations |
|---|---|---|
| connection (`include/base.hpp`) | the websocket stream, a strand, the host name | `async_*` and synchronous accept, handshake, read, write, ping, pong, close |
| server session (`session<true>`, `include/session.hpp`) | `accepted`, `readable`, `auto_frame`, the timer and `on_timer_cb`, the output buffer | `do_accept`, `do_read`, `do_write`, `do_ping`, `do_pong`, `do_close`, `launch_timer`, `set*Frame`, and one completion handler for each |
| server (`include/server.hpp`) | the application's five handlers | `upgrade_session` |
| client session (`session<false>`) | `handshaked`, `readable`, `auto_frame`, the output buffer, a *reference* to the client's connection pointer | as the server, with `do_handshake` and `next_read`, without a timer |
| client (`include/client.hpp`) | `connection_p_` and the handlers | `invoke` |
| HTTPS session (`include/ssl.hpp`) | `handshake`, a bounded queue of responses | `do_read`, `do_write`, `do_close`, request routing |
| HTTPS client (`include/ssl.hpp`) | `handshake`, the request being sent (`msg_p_`), the response being read (`res_`) | `invoke`, `do_handshake`, `do_read`, `do_write`, `do_close` |
| HTTPS routing API (`include/ssl.hpp`) | handler maps | `get`, `post`, ... |
| chat server (`ex3_chat_server`) | the list of clients and the messages, shared by all sessions under a mutex | the five handlers, broadcasting to other sessions |
| chat client (`ex4_chat_client`) | the session pointer, a condition variable | handlers and a console thread |
| chat message (`chat_message.hpp`) | header fields and body | serializer, parser |

### How the parts interact

A session starts asynchronous operations on its connection and binds itself as
an owner into each completion handler; when no operation and no timer wait is
outstanding the last owner is gone and the session is destroyed, closing its
socket.  Nothing else closes a socket.  (The chat server keeps a pointer to
every session on its list and never erases one: those sessions the library lets
go of, but they stay until the program ends.)  Completion handlers call the
application's handlers (`on_accept`, `on_handshake`, `on_message`, and the
control frame handlers), which fill the output buffer they are given or call
the session's operations.  The control frame handlers run inside an outstanding
read.

The connection binds its completion handlers to its strand, with two
exceptions that make the concurrency of this code:

* the server session's timer is made from the *socket's* executor
  (session.hpp:46), so `on_timer` runs beside the strand;
* the client's `async_handshake` (base.hpp:37-67) does not bind its handler, so
  `on_handshake` runs beside the strand.

### What is hard, and what makes each part correct

* **Server session.**  A half-duplex loop whose next step (read or write) is
  decided in three places by `readable` and the size of the output buffer.  It
  must never have two transfers outstanding, never stop while its stream is
  open, never lose output or send it twice, and answer with the right frame
  type.  The timer must not be lost, should not act on a deadline that moved or
  close a peer that was heard, and must let go of a session whose stream is gone.
* **Client session.**  The same loop without the fallback to reading: it goes
  on only if the handler answers and wants a next message, or reads by itself.
  It must go on exactly as the last handler asked.
* **HTTPS session.**  Requests are read ahead of their responses.  Reading
  stops when the queue is full and must resume when there is room; responses
  go out one at a time, in order, and none after one that ends the connection.
* **HTTPS client.**  A request is borrowed by the write that sends it and kept
  alive by one pointer that the next request overwrites; its response is read
  into one member.  So exchanges must not overlap, whatever the handlers do.
* **Chat server.**  A handler appends to the output buffers of other sessions
  and calls their `do_write` from its own strand, under a mutex their completion
  handlers do not take.  No session may read twice, fall silent or keep text in
  its buffer without a write; everybody connected must be told what was stored,
  in one order; what is stored should be readable by whoever comes next, and no
  text a client sends should end the program.
* **Chat client.**  A console thread fills the output buffer and writes beside
  the strand, and waits for a notification that may come before it waits.
* **Chat message.**  Offsets of the parser and of the serializer must agree.

PROJECT.json lists these hazards one by one at their lines, with the property
that would catch each or the reason why none does yet.

## Modules

| module | models | state |
|---|---|---|
| `WsConnection` | `connection_base`: each `async_*` call as a function on the connection's part of a session record; what the stream may answer | operators only |
| `ServerSessionOps` | the operations and the "ok" paths of the completion handlers of `session<true>`, as functions on a session record | operators only |
| `ServerSession` | one server session from `upgrade_session` to its destruction | `session`, `timer_pc` |
| `Conversation` | the abstract promise of a session: after the handshake it takes turns with its peer while the connection is up; with `MayLeave` (the client) its handlers may end it | `turn`, `up` |
| `ClientSessionOps`, `ClientSession` | `client_impl` and `session<false>`, from `invoke` on | `connection`, `session`, `handshake_pc`, `next_read`, history `wanted` |
| `HttpsSession` | `session<true, Body>` of ssl.hpp with its queue | the members, the outstanding operations, histories `received`, `ended` |
| `HttpsClient` | `client_impl` and `session<false, Body>` of ssl.hpp, from `invoke` on | `phase`, `session`, `tls`, histories `sent`, `answered`, `wanted` |
| `ChatMessage` | serializer and parser of `chat_message.hpp` | operators only |
| `ChatServer` | `ex3_chat_server`: a `ServerSessionOps` session for each client, the shared list and messages, the mutex, the broadcasts | `sessions`, `buffer`, `clients`, `messages`, `pc`, `input`, `todo`, `at`, `crashed`, histories `said`, `told`, `shown` |
| `ChatClient` | `ex4_chat_client`: a `ClientSessionOps` session, the session pointer, the console thread | `session`, `my_session_p`, `handshake_pc`, `strand_pc`, `console`, `asked`, `named` |
| `ServerSessionProofs`, `ServerTimerProofs` | theorems about a server session: its loop and that it implements `Conversation`, its timer | |
| `ClientSessionProofs` | theorems about a client session: its loop and that it implements `Conversation` | |
| `HttpsSessionProofs`, `HttpsClientProofs` | theorems about the HTTPS session and the HTTPS client | |
| `ChatMessageProofs` | theorems about the text format | |
| `ChatServerProofs`, `ChatClientProofs` | theorems about the chat programs | |
| `MC*` | the applications the runs use | |

### Correspondence

A session is one record whose fields carry the names of the members of the
class (`accepted`, `readable`, `auto_frame`, `on_timer_cb`, `output`), plus the
state of its connection (`ops`: started and unanswered operations of each kind;
`status`, `frame`, `got`, `sending`) and of its timer (`deadline`, `waits`:
handlers waiting, `due`: handlers released and not yet run).  An action is one
completion handler with everything it calls: `OnRead` with answer "ok" is
`on_read`, the user's `on_message`, the choice of the frame type, and the
`do_write` or `do_read` at its end.  A failed completion is the early return.

Two handlers are several actions each, because they do not hold the strand:

* `on_timer`: `TimerCheck` looks at the deadline; `TimerAct` acts on it, with
  whatever callback is set by then: it pings, or closes; `PingedLaunches` is the
  second half of the chat server's callback, which launches the next one, and
  `WaitsAgain` the `launch_timer` at the end of `on_timer`.  As the handler is on
  no strand several runs of it may be under way at once; `timer_pc` counts them
  by stage.
* the client's `on_handshake`: `OnHandshake` runs the user's handler,
  `HandshakeEnd` looks at the output buffer.

Between these steps handlers on the strand run only if the pool has another
thread (`Threads > 1`, the argument of `processor::start`; every example starts
at least two).

A control frame is an action of its own (`OnControl`) that needs an outstanding
read.  In the session modules the output buffer is a number of chunks, and a
message is its frame type.

`ChatServer` composes sessions, so their handlers cannot stay whole: another
strand runs between the statements of `on_message`.  It takes these steps: what
is done when the mutex is taken (`Introduce`, `Speak`, `OnClose`: parse, store,
fill the own buffer; a text that does not parse is ignored, one that makes the
parser throw ends the program, and so does `clients.at` in `on_close` for who is
not on the list), for each receiver an append (`Broadcast`) and a `do_write`
(`BroadcastWrite`), the release of the mutex with the launch of the timer
(`Unlock`), and the rest of `on_read` (`ReadEnd`).  `on_write` of a receiver may
come between any two of them.  `pc` says where a session's strand is; at most
`Threads` strands are somewhere.  A client
may send its name again and again, and any text of the constant `Inputs` before
or after it; names are any texts.  Its buffers hold texts, which `ChatMessage`
serializes and parses: `sessions[c].output` is the length of `buffer[c]`.  A
broadcast sends the text that came in (`input`) as it is, like the code, not the
messages parsed from it.  `said` counts the handlers that have stored something,
`told[c]` the last one whose news were put into the buffer of `c`.  Of a
session's timer the two callbacks are kept and the waiting is left open: it may
expire whenever it was launched.

`ChatClient` splits the console thread at its test of the pointer, its wait, its
append and its `do_write`, and `on_message` between setting the pointer and
`notify_one`.  The mutex excludes nothing here: the console thread never lets it
go but in the wait, and nobody else takes it.

In `ChatMessage` a text is a sequence of symbols.  The fixed words of the format
(`message`, `inv`) are one symbol each, and every other byte is a symbol, so the
parser's arithmetic on offsets is the code's with `prefix_length` 1.  What the
symbols are is a constant, `Symbols`, of which only what the format and the
server's phrases need is assumed.  `Atoi` skips blanks, takes a sign and wraps
around at `Modulus`, the numbers of a `uint32_t`; a length that came out as a
large number by wrapping is what "minus" makes possible.  The loops of the code
are recursive functions over `0 .. n`: `value` in `NumberInFront` reads a
number, `out` is what the serializer has written and `parsed` what the parser
has read after so many messages.

The application of the session modules is a record of sets of *scripts*, one set
per handler: a script says what the handler does with the session it is given
(frame type, output, `do_read`, one control frame, the timer, `next_read`).  An
empty set is an unset handler.

### External code

* An open stream owes no answer to a read, a write or a close: the peer may be
  silent for ever.  Once the stream is closed or broken every operation is
  answered with an error.  A success may be on its way when a close begins.
* The peer's close frame runs the control callback and then fails the read.
* `expires_after` releases all waiting handlers with an error, and the passing
  of the deadline releases them without one.  `on_timer` ignores which error it
  was given unless it is a real failure and looks at the deadline.
* Strand handlers never overlap each other.
* A wait on a `steady_timer` ends without an error or with `operation_aborted`;
  the early return of `on_timer` for any other error (session.hpp:294) is never
  taken.
* A TLS stream that failed, was shut down or was read to its end is of no more
  use.
* `is_open` of a socket is true until the closing handshake has answered the
  outstanding read; a connection that breaks does not close it.
* Appending to a buffer that a write on another thread is reading, and consuming
  it, are one step each.  In the code they are unsynchronised accesses to one
  `multi_buffer`; what goes wrong in the model goes wrong without that race.
* A condition variable has no spurious wakeups.

## Runs

| run | application, threads | what it asks |
|---|---|---|
| `server` | echo server with the default timer and handlers that send control frames, 2 | the half-duplex loop (`TransferInv`), the frame type of an answer, implementation of `Conversation` (`TakesTurns`), exactly one timer handler from the upgrade on, which acts on every expiry (`ExpiryIsHandled`) |
| `chat` | chat server's session with keep-alive timer, 2 | the timer is never lost (`KeepaliveArmed`); a silent peer is in the end sent a close (`SilenceStartsClose`); the library lets go of a broken session (`BrokenIsLetGo`) |
| `heard` | as `chat`, 2 | violated: a peer that was heard after its ping is closed, because the callback that pinged overwrites the one launched meanwhile (ex3:148) |
| `client` | echo client that also reads by itself and sends control frames, 2 | the client's loop goes on as its handlers ask; frame types; implementation of `Conversation` (`TakesTurns`); release |
| `client_race` | chat client's session, 2 | violated: `on_handshake` beside the strand writes a second time |
| `https_pipeline` | queue of 3, up to 6 requests, one response each | `QueueInv`: reading stops and resumes with the queue, order, nothing after the last response; release (`BrokenIsReleased`) |
| `https_tworoutes` | queue of 2, a request that two routes match | violated: two reads outstanding (ssl.hpp:120) |
| `https_client` | up to 6 requests; handlers that ask, wait, stop, or close behind a last request | `ExchangeInv`: one exchange at a time, the session goes on as its handlers ask; release (`BrokenIsReleased`) |
| `chatroom` | two clients with odd names, valid, invalid and cut inputs, 2 | across sessions: single reads, no silence, no text in a buffer without a write, everything stored is put into the buffer of everybody connected, in one order; which histories a newcomer can read (`HistoryNeedsPlain`); for whom `clients.at` throws |
| `chat_missed` | plain names and inputs, 1 | violated: a broadcast that overlaps a write is never displayed (ex3:138) |
| `chatclient` | the chat client, 2 | the same promises of its session with the console thread beside it; where alone a wakeup can be lost |
| `lost_wakeup` | the chat client, 1 | violated: the console thread waits for ever (ex4:29) |

Two more facts are seen in the model without a property.  `launch_timer` does
not replace the waiting handler but adds one, although ex3:162 calls it "reset
timer": in `chat`, `TimerHandlers` grows beyond one.  And without `on_ping` or
`on_pong` the last branch of `on_control_callback` (session.hpp:251) gives those
frames to the close handler if there is one; `ControlHandler` has the branch,
the servers of the repository set either all three handlers or none.

What each violated run shows, with the line it contradicts, is under "findings"
in PROJECT.json.

### Known to be false

Three more things the code says of itself are stated in the modules and are
false of it.  They have no run of their own; added to the properties of the run
named, each is violated.

| definition | run | what the source says | what TLC shows |
|---|---|---|---|
| `ReallyExpired` (`ServerSession`) | `server` | "Verify that the timer really expired since the deadline may have moved." (session.hpp:297) | `on_timer` finds the deadline expired; `on_accept` reads, which moves it (session.hpp:195); `on_timer` starts to close a session that has just begun |
| `CloseTimesOut` (`ServerSession`) | `chat` | "Happens when close times out" (session.hpp:282) | the timer has pinged a silent peer and starts the close; no timer is launched after it and nothing cancels the close, so it waits as long as the peer does |
| `InvalidIsIgnored` (`ChatServer`) | `chatroom` | "Received invalid chat message. Ignored" (ex3:124) | of two messages the text ends in the first; its announced length counts as read (chat_message.hpp:130), `substr` behind the end throws (261), and nothing catches it |

`HistoryReadable` alone is false too: ex3:82 sends "last messages to remote
host", but one client with an empty name (ex3:78 takes any) leaves a message the
parser refuses, and nobody who comes later can read the history.
`HistoryNeedsPlain` says exactly when that happens.

### Bounds

* `MaxOps` (2 or 3): outstanding operations of one kind.  Reads and writes
  never exceed one; the bound limits pings, pongs and closes, which do not
  influence each other.  It guards the handlers that may start one, and `Tick`.
* `MaxTimers` (2 or 3): timer handlers alive.  Three of them let two stale
  handlers of earlier launches meet the current one.
* `MaxRequests` 6 with `Limit` 3: the queue fills, drains below its limit and
  fills again.  In `https_client` 6 requests repeat every state of an exchange.
* `chatroom`: two clients, of whom either may be speaker and receiver, three
  messages stored, two writes of a session outstanding before its next read, one
  ping or close outstanding.  The names are one with a colon and the empty one.
  `OddInputs` are a message with nothing in it (invalid), two messages of which
  the first has a colon in it and the second a negative length, which wraps
  around, and the same cut within the first (throws); `PlainInputs` a valid and
  an invalid message.  `chat_missed` needs a fourth message.
* `Modulus` is 16 where the code has 2^32: small enough for a length to wrap
  around, large enough for every length that is not meant to.
* `chatclient`: three writes outstanding, so that a console write meets another
  and an answer; `MaxOutput` 3 stops a console thread that types into a session
  whose stream is gone.
* Output of a disciplined session is bounded by itself: at most one chunk per
  handler, emptied by each write.

The bounds of the code itself are only the queue's limit (8, here a constant).

### Fairness

The passing of time and handlers that are ready to run are weakly fair: the
pool's threads run them.  Answers to operations are weakly fair only once the
stream is closed or failed, since Beast answers every operation then; no run
assumes that a peer sends, reads or answers anything.  So the liveness
properties are about what the session does by itself: letting go of a broken
stream, and starting to close a silent peer by its timer; whether that close
ends is up to the peer (`CloseTimesOut`).  In `ChatClient` every thread goes on
with what it has begun, and `notify_one` wakes a thread that waits; nobody has
to type.

The runs on liveness end in states where nothing of the library holds the
session any more; `Ended` stutters there, so deadlock is checked everywhere.

## Proofs

Every theorem holds for every value of the constants; the hypotheses below are
all there are.

| hypothesis | theorems | what it asks | why |
|---|---|---|---|
| `Disciplined` (part of `AppAssumption`) | both sessions | `on_accept` (or `on_handshake`) and `on_message` do not both fill the output buffer and call `do_read`; control frame handlers leave the output buffer alone | without it a write overlaps a read or a write |
| `"ping" \notin App.upgrade` | `KeepaliveIsKept` | no keep-alive is launched before the handshake | both callbacks may run before the websocket is open, where `do_close` returns early and no handler is left |
| `NoLaunches` | `OneTimer` | no handler launches the timer: the default timer of `upgrade_session` is the only one | each launch adds a handler |
| `NoHandshakeRace` | client session | one thread, or an `on_handshake` that does not call `do_read` | `client_race` violates `TransferInv` without it |
| `OneAnswerEach` | HTTPS session | a request runs handlers that write at most one response | `https_tworoutes` violates it |
| `Script` (a constant's assumption) | HTTPS client | a handler makes one request or one read, and a close last | two requests in one handler overwrite `msg_p_`; no example makes them |
| `SymbolsAssumption`, `ModulusAssumption`, `NamesAssumption`, `InputsAssumption`, `PhrasesAssumption` (of constants) | chat message, chat server | names and inputs are texts, any texts; the words of the format and of the server are symbols | without them nothing is known of a buffer |
| `Readable` | `HistoryReadsBack` | names are not empty, have no colon and are shorter than `Modulus`; an input that parses has messages of that kind; fewer than `Modulus` messages are stored | `HistoryNeedsPlain`, which is checked, says that, lengths apart, nothing less will do; the format has no escape, and the server checks nothing |
| none | chat client | | |

### Server session

`ServerSessionProofs` proves `TypeCorrect`, `HalfDuplex` (`TransferInv`),
`OpenSessionsGoOn` (`NeverStalls`, which the runs check as a part of
`TransferInv`) and `FramesMatch` (`AnswerHasItsFrame`).

The inductive invariant is `IInv == TypeOK /\ TransferInv`.  Neither
`OneTransfer` nor `NeverStalls` is inductive: that no second transfer starts
rests on `readable` being false exactly while a read is outstanding and on no
handler that decides running while a write is; that is what `FlagsInv` adds.
The proof goes by two lemmas on operators.  `SameTransfers(t, u)`: everything
but reading, writing and the user's output leaves the fields that matter alone,
except that an open stream may start to close.  `Undecided` and `Reading`: the
two stages of a session inside a handler, from which `WriteOrRead` always leads
back to the invariant.  One lemma per handler follows, and one step per action.
For `FramesMatch` the invariant is `FrameInv`: beside `IInv`, what is being sent
was framed by the rule, and only the handler that starts a write changes the
frame or what was got.

It also proves `ImplementsConversation`: every step of a server
session is a step of `Conversation` or a stutter (`TakesTurns`).  The mapping is
`Turn`, read off `accepted` and the outstanding transfers, and whether the
stream is open.  `TalkStep(t, u)` states the abstract step between two session
records, so that the lemmas about handlers apply; that a session ends its turns
only when its stream is down is where `TransferInv` is needed.

`ServerTimerProofs` proves two properties of the timer, for any number of
threads and with the strand's handlers between the steps of `on_timer`.

* `KeepaliveIsKept` (`KeepaliveArmed`): no operation drops a waiting handler
  without leaving one; a handler that runs waits again, or calls the callback,
  which launches the timer again or starts the close of an open websocket.
* `OneTimer` (`OneTimerHandler`): moving the deadline releases handlers but
  neither adds nor drops one, and `on_timer` waits again exactly once.

Both count handlers.  `Armed` is those that wait or are released, `Running`
those under way; `SameTimer(t, u)` and `Launched(t, u, launch)` say what an
operation makes of them, `StrandSteps` that every handler of the strand is one
of the two.  `FreshInv` says that before the upgrade there is no handler.  What
the timer may *not* be relied on for, that it acts on an expired deadline only
and closes nobody it has heard, is seen above: `ReallyExpired` is false, and `heard` violates `CloseOnlyIfQuiet`.

### Client session

`ClientSessionProofs` proves `TypeCorrect`, `TransfersCorrect` (`TransferInv`)
and `FramesMatch` (`AnswerHasItsFrame`).  `TransferInv` alone is not inductive
because `on_handshake` runs in two steps beside the strand.  `IInv` adds
`StageInv`, which says where the session is by `handshake_pc` and what is
outstanding: `Connecting`, `Undecided` (between the two halves of
`on_handshake`), `Reading`, `Writing` with the `next_read` its handler bound, or
`Over`.  What was `got`, which the frame type of an answer is taken from, is
part of it.

`ImplementsConversation`: every step of a client session is a step of
`Conversation`, with `MayLeave`, or a stutter (`TakesTurns`).  Unlike the
server's, a client's handler may neither read nor answer; so `up` is mapped to
`GoingOn`: the stream is open, the last handler `wanted` a next message, and
`on_handshake` is done; while it runs the turn is still "connecting".  The
property says more than `GoesOnAsWanted` about a stream that is closing or
broken: its session may finish a turn, but one that is over is not revived by a
control frame answered late.  The stages of `StageInv` give the turn
(`TurnOfStage`), `Later` that no step but that of `on_handshake` opens a stream.

### HTTPS

`HttpsSessionProofs` proves `PipelineCorrect` (`QueueInv`) and `SingleReads`
(`ReadsAreSingle`), for every limit and every set of requests.  `QueueInv`'s
parts say that reading resumes when there is room (`ReadsIfRoom`), that the
queue moves and stays bounded (`QueueMoves`, `QueueBounded`), that responses go
out in order (`AnswersInOrder`) and none after one that ends the connection
(`EofIsLast`).  `StagesInv` adds that a read is outstanding only while there is
room, and that before the handshake nothing is.

`HttpsClientProofs` proves `ExchangesCorrect` (`ExchangeInv`), for every set of
scripts.  Its part `OneExchange` rests on `StagesInv`: operations are
outstanding only after the handshake, a read or write only if the last handler
wanted one.  `HandlerRuns` says what a script makes of a session with nothing
under way, `HandlerTurn` that the invariant follows from it; both `on_handshake`
and `on_read` use them.

### Chat programs

`ChatServerProofs` proves, for any clients, names, inputs, threads and bounds,
`OneRead` (`ReadsAreSingle`), `GoesOnWhileOpen` (`OpenGoesOn`),
`NobodyIsLeftOut` (`EveryoneIsTold`), `NamedLeave` (`NamedMayLeave`),
`TypeCorrect`, `BuffersAreSent` (`NothingLeft`) and `ToldOneByOne`
(`ToldInOrder`); and, if names and inputs are `Readable`, `HistoryReadsBack`
(`HistoryReadable`).

The first four are about control and never look into a text.  A session is
known by its fields and by what decides over its operations (`Shaped`), so the
length of a buffer needs no type.  `IInv` relates all sessions to the mutex:

* `SessionsInv`: each session is `Waiting` for its upgrade or `Serving`, with at
  most one read, which is outstanding only if `readable` is false; and between
  its handlers (`Resting`) an open one waits for something.  A broadcast fills
  another session's buffer and starts another write; `Follows(s, u)`
  is what each operation keeps of a session, its own or another's.
* `MutexInv`: one handler holds the mutex, and only that one has receivers left
  to visit, all of them on the list.
* `ListInv` and `ToldInv`: on the list are accepted sessions, who is not on it
  has been told nothing, and who is on it and online was told what every handler
  stored or is still to be visited by the holder.  When nobody holds the mutex
  this is `EveryoneIsTold`, which is not inductive by itself: it says nothing of
  the steps of a broadcast.

The next three need to know what is in the buffers and on the list of
messages.  `BufferInv`, inductive beside `IInv`, says that:

* `TextInv`: sessions are sessions, buffers are texts of the length the session
  has noted, a session that is being answered has got a text frame, and what is
  stored and broadcast are messages and texts (`InputReads`: whatever the parser
  reads are messages).
* `LeftInv`: `NothingLeft` also for a session in `on_close`, and a handler has
  at most one receiver it has appended to and not called `do_write` of.  A
  session whose buffer was filled is in its own handler, or in `at` of another,
  or has a write outstanding; `on_write` empties the whole buffer whatever was
  appended since the write began, so it never ends one of these without the
  other.
* `OrderInv`: who is on the list and online lacks at most what the last handler
  stored.  With `ToldInv` it makes each step of a broadcast a step from news n
  to n + 1, and whoever takes the mutex finds everybody at the last ones
  (`AllTold`).

`HistoryReadsBack` is about what is stored only.  `StoredInv` says that under
`Readable` every message is `Sendable`: it has a payload shorter than `Modulus`
and a name without a colon; what `Joined` and `Leaving` make of a name is
(`AnnouncedReadable`), and what is parsed is by hypothesis.
`SerializedReadsBack` does the rest.  That these conditions are needed too is
model-checked (`HistoryNeedsPlain`).

`Keeps(s, u)` is what an operation keeps of a session's buffer and writes, as
`Follows` is for its control; `PutKeeps` and `QuietStep` carry the invariant
over the actions that fill a buffer and over those that do not.

### The text format

`ChatMessageProofs` proves `SerializedReadsBack` (`Parse` of `Serialize` of
fewer than `Modulus` messages that are `Sendable` gives these messages and uses
all of the text), `EmptyIsRefused`, and the types of both directions
(`ParseType`, `SerializeType`), the last three for every text and message.

Two arguments carry all of it.  The prover cannot instantiate the library's
induction theorems, whose parameter is an operator; `SetInduction` has a *set*
of numbers for it and follows from the well-foundedness of `<` (`WFMin`).  And a
recursive function is a `CHOOSE`: that it satisfies its equation must be proved,
by a function that does.  `RecursionExists` builds one for any step function
over `0 .. N`; `Decimal`, which goes back from n to `n \div 10`, needs
course-of-values recursion (`QuotientsExist`, and `QuotientsAgree` to glue
them).  From then on each function is known by its equation (`DecimalDef`,
`NumberDef`, `SerializeDef`, `ParseBehindDef`).

What is left are offsets.  `ColonUnique`: a position with a colon at it and none
in front is the one `FindColon` finds, so the name must have none and a
decimal number has none.  `DecimalReadsBack`: `Atoi` gives back a number below
`Modulus` from its digits.  `Behind`, `Within` and `Front` give back what
was joined.  `HeaderReads`, `MessageReads` and `AdvanceReads` follow the parser
through a header, a message and one turn of `Parser::advance`; `PrefixReads`
is the induction over the messages.

`ChatClientProofs` proves `TypeCorrect`, `OneRead` (`ReadsAreSingle`),
`GoesOnWhileOpen` (`OpenGoesOn`) and `NoLineIsLeft` (`NothingLeft`).  The `IInv`
says of each place `on_handshake`, the strand and the console thread can be at
what the session looks like.  Two parts make it inductive: whatever the
console thread writes is bound to `next_read` true, so every completed write
leads back to a read; and what is in the buffer is being written by an
outstanding write or was just typed by the console thread, which writes next.
The second part is why no line stays in the buffer without a write, although the
console thread's unsynchronised `do_write` may start one beside another.  It does
not say that every line is sent: `on_write` empties the whole buffer, so a line
typed while a write is outstanding may be consumed before the console thread's
own `do_write`, which then sends an empty message.

### Model-checked only

* Liveness, `BrokenIsLetGo`, `SilenceStartsClose`, `ExpiryIsHandled`,
  `BrokenIsReleased` and `ConsoleStartsUnlessTested`: the prover has no rule for
  fairness here.
* `HistoryNeedsPlain`: of the equivalence only the direction under `Readable` is
  proved; the other is about every text the parser might misread.

Every other invariant and action property that a passing run checks is also the
statement of a theorem.

## Not modelled

* The synchronous operations of the connection: one call each, no state of
  their own.
* `launch_timer` of the HTTPS session: it binds an `on_timer` that is declared
  nowhere.  The deadline it would wait for is moved by `do_read` and watched by
  nobody.
* Routing itself (regular expressions over targets): what it makes of a
  request is a constant.
* The input buffer: that `on_read` consumes all of it behind the user's handler
  (session.hpp:339, 642) could discard bytes of a next message if that handler
  has already started a read.  A message is given to its handler whole here.
* A second `do_write` of the HTTPS client while a request is being written, which
  would overwrite `msg_p_` (ssl.hpp:412): the scripts have none, as the examples.
* Who keeps a session besides the library.  `LetGo` is about the outstanding
  operations and waits; the chat server's list keeps its sessions for ever.
* A second `invoke` on one client object: it replaces the connection the first
  session refers to.  No example does it.  `invoke` on a pool that is already
  running, where the handler may find `connection_p_` not yet assigned.
* The route to `/ws`, its answers to a request that is no upgrade, accepting and
  logging a connection (ex3:216, whose `remote_endpoint()` may throw), the pool
  and its signal handler: BeastHttp, which is not part of the repository.

## Plan

* What a chat client displays: for a `Hello(c)` that is cut off its history, the
  reading of `Displayed` beside the server's `HistoryReadsBack`.
* The other direction of `HistoryNeedsPlain`: that a message without a payload,
  or one whose name has a colon, never parses back.
