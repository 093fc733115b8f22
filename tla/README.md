# A TLA+ development for repos-source

The repository holds two systems. One is an *unlock pipeline* for Windows
workstations: a service (`ClientWinService`) and a credential provider
(`credentialproviders/samplecredentialprovider`) that together log an account on
to a locked machine, with Remote Desktop helpers and a workflow IDE around them.
The other is a fork of PuTTY (`putty-src`) whose window shows two sessions. This
directory models the parts of both in which threads, processes or messages
interleave, and the terminal, whose operations may come in any order; it checks
them with TLC, and proves with TLAPS, for every size of the buffers, windows and
limits, most of the safety properties and the refinement.

## Inventory

| Component | State | Operations | Talks to | What is hard |
|---|---|---|---|---|
| Handle I/O, `windows/winhandl.c` | one `struct handle` per OS handle: `moribund`, `done`, `defunct`, `busy`, a buffer, two auto-reset events | `handle_input_new`, `handle_output_new`, `handle_write`, `handle_write_eof`, `handle_unthrottle`, `handle_free`, `handle_got_event`; two thread procedures | main loop by events, clients by callbacks | a subthread and the main thread share the struct without a lock |
| SSH-2 channels, `ssh2connection*.c` | `struct ssh2_channel`: `closes`, windows, outstanding requests, throttle flags | one case per message, and the `SshChannel` methods | local ends by `chan_*` calls, server by messages, `ssh.c` for freezing | EOF and CLOSE cross, windows are counted on two sides, local ends die at any time |
| Local ends, `portfwd.c`, `x11fwd.c`, `mainchan.c` | socket, X11 authorisation, session requests | socket and user callbacks, `chan_*` | the channel | callbacks while the channel is half-open or half-closed |
| Remote forwardings, `portfwd.c`, `ssh2connection-client.c` | tree of `PortFwdRecord`, tree of `ssh_rportfwd`, list of outstanding global requests | `portfwdmgr_config`, `rportfwd_alloc`, `_remove`, replies, forwarded opens | server | the user reconfigures while answers are on their way |
| Network end, `ssh.c`, `ssh2bpp*.c`, `winnet.c` | `in_raw`, `out_raw`, `conn_throttle_count`, `logically_frozen`, `socket_frozen`, `throttled_all`, `pending_close`, the packet coroutine | `ssh_receive`, `ssh_sent`, `ssh_closing`, `ssh_check_frozen`, `ssh_throttle_conn`, `ssh_throttle_all`, close and shutdown | sockets, channels, callbacks | one channel can stop them all; every wait needs somebody to end it; layers are freed before the packet layer |
| Unlock service, `ClientWinService` | static `cfg`, scan thread, WCF host, request files | `OnStart`, `OnStop`, `OnSessionChange`, `ThreadProc`, WCF calls, `SendUserNameAndPassword` | files, named pipe | static state shared by threads; a stopped service that goes on scanning |
| Credential provider | tile fields, `bAutoLogon`, pipe | `SetUsageScenario`, `_ThreadProc`, `SetCredentialInfo`, `GetCredentialCount`, `GetSerialization` | LogonUI, named pipe | the thread and LogonUI share the tile |
| Callbacks and timers, `callback.c`, `timing.c` | queue of callbacks, tree of timers | enqueue, run, delete, `schedule_timer` | everything in PuTTY | order of callbacks and events |
| Connection sharing, `sshshare.c` | per downstream: channels, half-open channels, forwardings, global requests | relay in both directions, cleanup | connection layer, downstream processes | ids mapped while messages are in flight; a downstream that vanishes |
| Terminal, `terminal.c` | lines of the screen, the alternate screen and the scrollback, cursors, margins, view, selection | control sequences, printing, resizing, reconfiguration, copying | server output, user, window | positions that outlive what they point at; characters of two cells or none; trust status per line |
| Transport, authentication, SSH-1, sockets, tools, cryptography, UiStudio, UiActivities, mstsc2 | — | — | — | see *Not modelled* |

What makes each component correct:

* **Handle I/O** – no struct is freed under its thread; every byte is handed
  over once, in order; EOF comes last; the backlog is bounded; neither side
  waits for the other for ever.
* **Channels** – both sides count the windows alike; nothing follows CLOSE; EOF
  follows the data; closing ends, and meets no assertion; a frozen connection
  resumes.
* **Remote forwardings** – the three tables and the server agree; an answer
  finds its request; a cancelled forwarding accepts nothing.
* **Network end** – input is looked at until nothing can be parsed;
  output resumes after a backlog; a closed connection is closed.
* **Connection sharing** – no packet reaches the wrong downstream; nothing is left
  on the server for one that has gone, and its record empties and is freed.
* **Terminal** – cursors, margins, scrollback and view stay on lines that exist;
  the alternate screen leaves the main one alone; wide characters stay whole;
  copied text is the text that was printed; a line shows one trust status.
* **Unlock pipeline** – a password that was sent is submitted under the name it was
  sent with; the offer ends; a request is consumed, and was sent.

## Modules and the code they model

### `HandleIO` and `HandleIOProofs` – `windows/winhandl.c`

`hs[h]` is one `struct handle` with its thread's program counter. A buffer with
bytes `from+1 .. from+len` of its stream is that pair of offsets; `os`, `main`
and `sub` are the offsets reached by the operating system, the main thread and
`handle_write`. A lost, repeated or overwritten byte is an offset that does not
line up. The threads are split where the main thread can see a difference: in
the system call, before `SetEvent`, in the wait, and between the wait and the
test of `ctx->done`. The main thread's functions are operators from record to
record, since it is sequential; `handle_got_event` includes the callbacks, which
may free the handle or write more. A freed address is not used again: after
`sfree` the only question is whether anyone still touches it.

### `ByteStream` – what a client of `winhandl.c` may rely on

Each handle is a stream: bytes produced and consumed, ended and closed. There are
no threads, events or buffers in it. `HandleIO!Stream` instantiates it with a
mapping on the offsets: for an output handle what `handle_write` was given and
what `WriteFile` wrote, `EOF_PENDING` and `EOF_SENT`; for an input handle what
`ReadFile` returned and what the client was handed. `ImplementsStream` is the
refinement, checked in `handle_io`.

### `SshConn` and `SshConnProofs` – `ssh.c`, `callback.c`, `ssh2bpp.c`, `ssh2bpp-bare.c`, `winnet.c`

`ssh` is `struct Ssh` with its packet layer; `cbq` and `cbcurr` are the callback
queue. A callback runs step by step (one `BPP_READ`, one packet, one `sk_write`)
and only the server and the network move meanwhile; socket events come between
callbacks, as in the main loop. The packet coroutine is where it waits: for a
length, for a body, for new keys, or for `in_pq` to empty after the end of the
stream. The layers above are one consumer that may answer, throttle the
connection for a channel, or end the session. CBC mode, which reads a packet
block by block, is left out: it waits for less at a time. The use of a layer that
has been freed (`ssh->cl`, the callback of `in_pq`) sets `fault`, and all stops.

### `SshShare`, `SshShareInv` and `SshShareProofs` – `sshshare.c` and its hooks in `ssh2connection.c`

`up` is the upstream: a record per downstream (`cs`) with its channels, half-open
channels, forwardings and the head of its list of global requests; the tables of
the connection layer (channel ids, `rportfwd`, outstanding global requests).
`toSrv` and `fromSrv` are the two directions to a conforming server (external).
Downstreams connect, open, confirm, refuse, close, ask and cancel, and may be
lost at any moment. `share_try_cleanup` is one operator, as it is one function; its
three loops are comprehensions, and their packets go out in any fixed order. The fault
`rpf` is the use of an `rportfwd` that the downstream's own cancellation has freed.

### `TermScreen` and `TermScreenProofs` – the rows of `terminal.c`

`term` holds the screen, the other screen and the scrollback as sequences of
lines (a line is blank or not), cursors with their saved copies, margins, the view
(`disptop`) and the counters `tempsblines` and `savelines`. Every operation that
moves, adds or removes lines is an action, the reset by DECCOLM included; what a line
holds does not matter. Whether a line is trusted, or of double width, only decides how
many columns it has (`TRUST_SIGIL_WIDTH` fewer, or half), and is chosen at each step.
That may be none: the cursor then goes left of the window, and `cramped` remembers it.

### `TermLine` and `TermLineProofs` – the cells of `terminal.c`

`t` holds a few lines of cells, the cursor with its pending wrap, insert and
autowrap mode, and the trust status. Printing is `term_display_graphic_char` case
by case; editing sequences go through `check_boundary` and `insch` as in the code, and
erasing to the end of a line checks the trust status of the line below as the loop of
`erase_lots` does; `clipme` copies the whole screen. `typed` and the cells' `by` are
history. A window may be narrower than the sigil; the cursor is then left of the line,
and what the code does next there is a write before the array, which has no step.

### `Ssh2Channel` and `Ssh2ChannelProofs` – `ssh2connection.c`, `ssh2connection-client.c` and the local ends

`c` is one channel with its local end and its output, `p` is a server that keeps
to RFC 4254 (external), `s2c` and `c.out` are the two directions of the ordered
connection. A handler is an operator from channel to channel, named for the
function or the message. The local end is chosen by `c.kind`: a forwarded socket,
an X11 connection, or the main session. An X11 connection has a small fixed window until
it is authorised, if connections may be shared, and the growing one otherwise; authorising it
may be followed by a failure to reach the X server. The main session makes the requests
in `Asks` and then one for its command, with a second one to fall back on if
`remote_cmd2`; it answers the server's EOF if it got a pty or `seat_eof` says so. Data
are counted. An assertion, a
protocol error blamed on the server, a NULL reply and the use of a freed channel
are recorded in `c.crash`, and PuTTY then stops. `decoded` counts the messages
that had been taken off the wire when the connection froze: those are still
handled, later ones are not. `Total` and the flushing of requests are recursive
functions, not operators, so that they can be reasoned about.

### `RemoteForward`, `MCRemoteForward`, `RemoteForwardProofs` – `portfwd.c`, `ssh2connection-client.c`, `ssh2connection.c`

`m` holds the three tables and the linked list as it lies in memory: `head`,
`tail`, `next` of every entry, which entries are allocated, and −1 for a `next`
that was never initialised (it then reads as NULL or as a wild pointer). The
server (external) answers requests in order, and opens connections on ports it
listens on. Two loops of `portfwdmgr_config` are recursive functions, so that the
proofs can follow them entry by entry. The field `n` of a message numbers the request
it belongs to; no action reads it, the invariants do.

### `AutoUnlock`, `MCAutoUnlock` and `AutoUnlockProofs` – `ClientWinService`, `samplecredentialprovider`

`thr` holds the scan thread of each service process and any number of WCF calls at once,
one step per access to shared state (the files, the static `cfg`, the pipe, LogonUI's
process); the test of `cfg` for null and the publication of a new one are two. `prov` is
the provider's thread and its tile, one step per field of `SetCredentialInfo`; a
`ConnectNamedPipe` that fails leaves an empty message, which is offered like any other.
`ui` is LogonUI's thread: `GetSerialization` reads the name in one step and the password
in the next, and the password field may be cleared (`SetDeselected`) or typed into
(`SetStringValue`) between two submissions. The service manager, LogonUI and the user are
external: they may act whenever Windows lets them. `MCAutoUnlock` bounds the safety run.

## What the runs check

| Run | Checks | Shows |
|---|---|---|
| `handle_io` | `TypeOK`, `NoUseAfterFree`, `InputInOrder`, `WriteInOrder`, `BacklogBound`, `NoStall`, `ImplementsStream`, `FreeCompletes` | each buffer is handed over exactly once; the struct outlives its thread; nothing stalls; with threads and events each handle is the stream of `ByteStream` |
| `unlock` | `SubmitsWhatWasSent` | whatever two service processes with two WCF calls each, the provider's thread and LogonUI do, a password that was sent goes out under its own name, or under Administrator's if the name was read between the expiry's first two writes; it is missing only after the ten seconds, or when LogonUI wrote the field |
| `unlock_live` | `OfferExpires`, `RequestConsumed` | the offer ends, a request is taken (whether it can be sent is another matter, see below) |
| `channel` | `SendWindowAgrees`, `ReceiveWindowAgrees`, `BacklogWithinWindow`, `EofAfterData`, `NothingForgotten`, `SilentAfterClose`, `ClosesCleanly`, for forwarded sockets and X11 | both sides count alike, EOF and CLOSE come last, nothing waits for what will not come, and no kind of channel meets an assertion but those named for it |
| `channel_live` | `ZombieEnds`, `CloseEnds`, with the main session and requests in both directions | channels are wound up, or PuTTY stops: for the main session the assertions `ClosesCleanly` allows it count as an end |
| `forward` | `RecordsAgree`, `ServerAgrees`, `GentleIsSafe`, `CancelledIsRejected` | the tables agree with each other and with the server, whatever the user does; a user who adds forwardings only before the first answer, drops them only when all are answered and has one rule per port meets no fault |
| `conn` | `NoInputStall`, `NoOutputStall`, `PacketsParsed`, `CloseCompletes` | whatever the order of socket events, callbacks and throttling, nothing waits for ever, but for a packet longer than `SSH_MAX_BACKLOG`; a close begun while the socket keeps up leads to the socket closed, unless output backs up or a packet is parsed behind it, which end in a NULL `ssh->cl` or a freed layer |
| `conn_eof` | `EofReported` violated | an end of the stream that is known before the last packets are parsed leaves the packet layer waiting for an empty `in_pq`, and nobody wakes it (`ssh2bpp.c:655`) |
| `share` | `NeverMisrouted`, `NothingLeftBehind`, `GentleIsSafe`, `GoneIsFreed` | three downstreams that come and go at any moment are kept apart and cleaned up after, even when a port has passed from one to another meanwhile; what one that has gone still held goes, and its struct in the same step but for an OPEN_FAILURE |
| `share_open` | `ServerContent` violated | a CHANNEL_OPEN for a downstream is not popped (`ssh2connection.c:402`), so the upstream also refuses it, under channel number 0 |
| `screen` | `InsideWindow`, `ScrollbackBounded`, `ResizeRoundTrip`, `ViewKept`, `AlternateIsolated` | operations of the server, the user and the window manager in any order keep every position on lines that exist, and in the window's columns as long as a line has any |
| `line` | `PasteGivesBack`, `PairsKept`, `StatusKept` | wide and combining characters, wrapping, copying and trust hold together, but for the sequences the properties name; no step but DECALN makes a line of mixed trust |

The passing runs explore about six and a half million distinct states between them, each in
less than five minutes. The type invariants of the modules other than `HandleIO` hold
on the same instances (add `TypeOK` to the `.cfg`); the runs keep to what could be
wrong in the code.

Deadlock is not checked anywhere: every one of these systems may come to rest (a
freed handle, a closed channel, a user who does nothing).

The models reach further behaviours that a maintainer should know of, which
properties exclude or confine instead of reporting them.

Handles and the unlock pipeline:

* a handle freed while its thread is ending by itself is told to die and waited
  for, but no thread is left to answer, so it is never destroyed
  (`winhandl.c:638`); `FreeCompletes` leaves this case out (`Orphan`);
* the expiry writes name, password and flag one by one, and `GetSerialization` reads
  name and password one by one (`CSampleCredential.cpp:426`, 432): a name read between the first two
  writes is Administrator's, and goes out with the password that was sent.
  `SubmitsWhatWasSent` confines the mixture to that gap. Both threads also free and
  copy the field's string without a lock; the model has the values, not the memory;
* when `ConnectNamedPipe` fails, because a client has come and gone before the call for
  one, an empty account is offered and submitted (`CSampleProvider.cpp:594-608`);
* the provider serves one message per LogonUI process; after that a request is
  deleted although nothing was sent (`Utils.cs:86`, `Program.cs:157`);
* the static `cfg` is published before it is loaded (`Utils.cs:59`), and an
  exception there ends the service process when it is the scan thread's.

Channels and forwardings:

* typing after the main session has answered the server's EOF fails the assertion
  at `ssh2connection.c:1400`, because nothing asks `want_user_input`, and an X11
  client may meet it too; resizing the window, or sending a break, between our
  CLOSE and the server's fails the one at line 1328. An X11 client that is authorised
  while the X server cannot be reached is told so, but counts as not verified, and what
  it sends next fails the assertion at `x11fwd.c:985`. `ClosesCleanly` says which of
  these a kind of channel may meet, and port forwardings none. A CLOSE with session requests unanswered hands
  NULL to a handler that uses it (`ssh2connection-client.c:318`);
* a channel that dies while it throttles the connection leaves it frozen
  (`ssh2connection.c:1195`);
* what is typed before the session channel is confirmed lies in its `outbuffer`
  until the next key or WINDOW_ADJUST (`mainchan.c:325`); `NothingForgotten`
  therefore leaves the main session out;
* `throttled_by_backlog` is only ever cleared, so a forwarded socket is read
  however much of its data waits (`ssh2connection.h:101`);
* cancelling a forwarding before its answer leaves the answer with a freed
  record (`ssh2connection-client.c:206`), a second rule for the same remote port
  leaves a freed record in its tree (`portfwd.c:1045`), and a request made after
  earlier ones were answered is lost, since `globreq_tail` is not reset when the
  list empties (`ssh2connection.c:183`). `GentleIsSafe` says what keeps clear of
  all three.

Network end and sharing:

* a packet whose body is longer than `SSH_MAX_BACKLOG` (and within
  `OUR_V2_PACKETLIMIT`) can find the socket frozen for ever, with part of it in
  `in_raw` and nothing to take it out (`ssh.c:344`);
* a connection closed while its output is backed up uses `ssh->cl`, which is
  NULL (`ssh.c:854`); a packet parsed between the freeing of the layers and of
  the packet layer uses a freed callback (`sshcommon.c:792`). `CloseCompletes` names
  these two, and holds of every other close;
* a pending close closes the socket once `out_raw` is empty, although the socket
  itself may hold unsent output (`ssh.c:388`), against the comment at 441–444, which has
  it go out first. `CloseCompletes` speaks of closing, not of sending;
* `globreq_tail` of a downstream is tested but never assigned, so a second
  outstanding global request overwrites the first (`sshshare.c:1395`, 1460);
* OPEN_FAILURE for a downstream that has gone does not retry its cleanup
  (`sshshare.c:1261`): if nothing else is left, the empty struct stays as long as the
  upstream, which never hears that it has no more downstreams. `GoneIsFreed` says that
  this is the only such case. REQUEST_FAILURE for a forwarding keeps the `rportfwd` (1186);
* a downstream lost while the answer to its cancellation is due makes the cleanup use
  an `rportfwd` that is freed already; the model stops there (`rpf`), and such a
  downstream does not count as gentle.

Terminal:

* trusted text in a window of three columns or fewer puts the cursor at `linecols - 1`,
  left of the window (2938–2939), and so does a tab on a double-width line of one column
  (3494–3496). Neither a resize nor a restored cursor brings it back, and DEL, among
  others, writes before the line's array (3329). `InsideWindow` makes the left edge
  hold until then (`cramped`), and the other three always;
* with "Reset scrollback on display activity" off, or by a change of settings,
  leaving the alternate screen keeps a view that reaches into lines that are gone
  (`terminal.c:2650`, 1600);
* shrinking the window deletes rows below the cursor even when they are not
  blank, against the comment at 1863–1866; the pending wrap survives DECSTBM and
  tabs; a reset on the alternate screen exchanges the two screens' contents;
* wide characters wrap with autowrap off as well; insertion keeps
  `LATTR_WRAPPED2` and can leave half a wide character in the last column, and
  erasing up to the cursor can leave the other half (2562, 2459); DECALN fills
  lines of either trust status (3629). `PairsKept` and `StatusKept` leave exactly
  these steps out.

### Bounds, and why they are enough

* `HandleIO`: one handle, because handles share nothing (the proofs cover any
  number). Five units of stream with buffers of two and a backlog limit of two
  give several reads and partial writes, and reach the limit from both sides.
* `Ssh2Channel`: a local window of two that may double once (`LOCMAX_LIMIT`), a server
  window of one that may grow by one, three units in and two out: windows shut and
  reopen in both directions, `ssh2_set_window` is on both sides of its "half the
  window" test, EOF waits behind data, and an X11 channel with a window of one
  outgrows it. The main session of the runs asks for a pty; with every set of requests
  it is covered by the theorems (one environment variable stands for all: their
  answers are told apart by nothing but their number). `channel_live` has one unit
  each way, so that its liveness check ends, and one request of the server's.
* `RemoteForward`: three rules, two of them for the same port, three changes of
  the configuration and six requests: a rule can be added, dropped and added
  again, and every later request comes after the list has emptied.
* `SshConn`: a backlog limit of one, bodies of one and three, so one packet fits
  the backlog and one does not; reads of at most two bytes leave every possible
  rest; two packets from the server, two to it of two units each, so that
  `out_raw` is left non-empty when the socket backs up; one channel that throttles.
* `SshShare`: three downstreams (interchangeable, so symmetric), two ports, one channel
  id of the upstream and two of the server, and four opens and requests: the id is freed
  and used again by another downstream, and a downstream is lost in every state of its
  channels and requests. For a port to pass from one downstream to another, a third has
  to keep the upstream's list of requests from running empty, after which none can be
  added (`ssh2connection.c:183`); with four opens and requests a connection can still be
  announced for the old owner. Channel 0 of the server alone would not do, because the refusal that
  `share_open` finds would be taken for an answer. With two ids of the upstream and two
  downstreams the properties hold as well (two million states); the theorems are about
  any number of each.
* `TermScreen`: windows of up to three rows and a scrollback of two lines are grown,
  shrunk, scrolled and swapped by any three operations from any contents. Four columns
  are one more than the sigil takes; one column is none for a double-width line.
* `TermLine`: two rows of four columns, a sigil of one, five characters and two
  other operations: wide characters start in every column, wrap at both widths,
  and the screen scrolls. The theorems also cover windows narrower than the sigil.
* `AutoUnlock`: two processes for the safety run, since at most one is left over
  at a time when the service is restarted, with two WCF calls each. At most two of the
  threads are at work at once, enough to race for `cfg` and for the pipe, on a
  workstation that has a configuration (`MCAutoUnlock`); the one account sent is not the
  valid one, so that a refused logon comes back to the tile. `unlock_live` has one process with
  one call, any configuration, and a valid account. One locking suffices: a LogonUI
  process starts afresh, and takes one message.

### Fairness

* Every subthread of `HandleIO` is scheduled and its system calls return; the
  main loop waits on all busy handles and gets round to each. Clients owe nothing.
* Messages between PuTTY and the server are delivered and handled (`ClientTakes`,
  `ServerTakes`), unless the connection is frozen; a local end digests what it
  holds (`LocalSent`). Nobody need send data, EOF or CLOSE of their own accord,
  but the server answers the requests and the CLOSE it receives.
* The event loop runs every queued callback and every socket event in the end, the
  server takes what is sent to it, and a channel passes on what it holds
  (`SshConn!Fairness`). Neither the server nor the user need send anything.
* The service's threads and the provider's thread run, and the ten-second sleep
  ends. LogonUI finishes a submission that it has begun. Neither the user nor the
  service manager need do anything.

Weak fairness is enough throughout: once such a step is possible, it stays so
until it is taken, or until another step settles the matter.

## What is proved

Each theorem holds for every value of the constants its module's ASSUME admits
(sizes and limits that are natural numbers, some of them positive), where the runs
have one small instance.

| Module | Theorem | States |
|---|---|---|
| `HandleIOProofs` | `TypeCorrect` | `Spec => []TypeOK` |
| | `FreedIsUntouched` | `Spec => []NoUseAfterFree` |
| | `InputExactlyOnce` | `Spec => [](NoOverwrite /\ InputInOrder)` |
| | `OutputExactlyOnce` | `Spec => [](WriteInOrder /\ EofAfterData)` |
| | `BacklogIsBounded`, `NeverStalls` | `Spec => []BacklogBound`, `Spec => []NoStall` |
| | `Refinement` | `Spec => ImplementsStream` |
| `AutoUnlockProofs` | `SubmissionIsWhole` | `Spec => []SubmitsWhatWasSent` |
| | `TypeCorrect` | `Spec => []TypeOK` |
| `SshConnProofs` | `InputNeverStalls`, `OutputNeverStalls` | `Spec => []NoInputStall`, `Spec => []NoOutputStall` |
| | `TypeCorrect` | `Spec => []TypeOK` |
| `Ssh2ChannelProofs` | `SendWindow`, `ReceiveWindow` | `Spec => []SendWindowAgrees`, `Spec => []ReceiveWindowAgrees` |
| | `DataFirst`, `Silent` | `Spec => []EofAfterData`, `Spec => []SilentAfterClose` |
| | `Remembers` | `Spec => []NothingForgotten` |
| | `Cleanly` | `Spec => []ClosesCleanly` |
| | `Backlog` | `Spec => []BacklogWithinWindow` |
| | `TypeCorrect` | `Spec => []TypeOK` |
| `RemoteForwardProofs` | `RecordsStayLinked`, `ServerFollows` | `Spec => []RecordsAgree`, `Spec => []ServerAgrees` |
| | `GentleUsersAreSafe` | `Spec => []GentleIsSafe` |
| | `CancelledStaysRejected` | `Spec => CancelledIsRejected` |
| | `TypeCorrect` | `Spec => []TypeOK` |
| `SshShareProofs` | `Routed` | `Spec => []NeverMisrouted` |
| | `CleanedUp` | `Spec => []NothingLeftBehind` |
| | `CleansUp`, `FreesStruct` | `Spec => [](gentle => Emptied)`, `Spec => [][FreesStep]_vars`: the two halves of `GoneIsFreed`, the first for gentle downstreams |
| | `SafeWhenGentle` | `Spec => []GentleIsSafe` |
| | `TypeCorrect` | `Spec => []TypeOK` |
| `TermScreenProofs` | `WindowContains`, `ScrollbackHolds` | `Spec => []InsideWindow`, `Spec => []ScrollbackBounded` |
| | `ResizeIsUndone` | `Spec => []ResizeRoundTrip` |
| | `MainScreenIsolated` | `Spec => AlternateIsolated` |
| | `ViewStays` | `Spec => ViewKept`, if `ScrollOnDisp` (the default setting) |
| `TermLineProofs` | `StatusIsKept`, `PairsAreKept` | `Spec => StatusKept`, `Spec => PairsKept` |
| | `TypeCorrect` | `Spec => []TypeOK` |

### Handles

None of the invariants is inductive as it stands: that a read may start says nothing
of who owns the buffer. `IndInv` adds, for each handle,

* `Shape`: how allocation, kind and thread fit together;
* `Protocol`: exactly one of main thread, subthread and the two events has the
  turn (`busy`, the program counter and the events determine each other), and a
  thread told to die has not begun another operation;
* `InputInv`, `OutputInv`: for each holder of the turn, how the offsets line up
  and what the buffer holds;
* `Idle`: an idle handle has nothing to do. It fails in the middle of
  `handle_got_event`, where the callback has run and the next operation has not
  been started. Lemmas therefore show that a callback preserves `Core`, the other
  conjuncts, and that `handle_throttle`, `handle_try_output` and `handle_free`
  turn `Core` into `Good`.

There is one lemma per step of a thread and per branch of `handle_got_event`;
`ThreadStepInv`, `GotEventInv` and `ClientInv` combine them with `SetGood`, which
says that a step changes one handle only, and `Invariance` follows. `Refinement`
rests on it: a step of a thread is a stutter of the stream or produces or consumes
one block (`ThreadStepStream`), a client's call is one of the stream's
(`ClientStream`), and `handle_got_event`, which may run a callback, free the handle
and start the next operation, is at most one step of the stream
(`GotEventStream`); `Lift` carries that from one handle to all.

### The channel

A channel sums over two queues what it keeps in counters, and its functions call each
other through the local end, so that most of them can free the channel or stop
PuTTY. `IndInv` has three parts:

* `Sound`, about the channel alone: which flags of closing imply which (`Flags`, `Idle`,
  `Early`), the order of EOF, data and CLOSE on the way out (`Order`), backlog and window
  within `locmaxwin` (`Throttle`), which replies can be outstanding (`Handlers`), and
  what may wait for what (`Waits`, `Says`, `Attends`);
* `Credits`: the data on their way are within the server's window;
* `Phase`: the life of a channel, from `Unopened` by `Asked`, `Announced`, `Refused` and
  `Answered` to `Talking` and `Over`. In `Talking` lies the balance of all accounts: both
  windows, the data, and that the replies due or on their way are at most the requests
  outstanding. The last is why no correct server is accused of a reply too many.

`TotalProps`, `FlightProps` and `CountProps` say what a message more or less does to a sum;
they rest on a least counterexample in the natural numbers (`LeastNatural`, `Reaches`, which
the proofs about `SshConn`, `TermScreen`, `RemoteForward` and `SshShare` have too). Then there is
one lemma per function of
the code. `Does(r, t)` says that a function has kept the core of the invariant and the
balance (`Moves`: what leaves the buffer is in flight, what is granted is in
`locwindow`), or has stopped PuTTY as a channel of its kind may; it is transitive, so
the lemmas compose as the functions do. `Calm` and `Quiet` say what a function leaves
alone. On top there is one lemma per action of PuTTY (`LocalInv`, `RcvdInv`) and of
the server (`ServerRcvdInv`, `ServerSaysInv`).

The theorems cover the main session with its requests as well, and any number of requests,
which the run `channel` leaves out. The invariant itself was model-checked before it
was proved, with all three kinds of channel, simple or not.

### The forwardings

`ServerAgrees` speaks of the moment when nothing is on its way; the invariant has to say
what everything on its way will lead to. `IndInv` consists of

* `Linked(r, S)`: the records of the rules in `S`, the rpfs and the table of ports
  belong to each other, one to one. `S` are the forwardings without those that
  `portfwdmgr_config` has freed and left in its tree;
* `List`: the list as it lies in memory is `Intact` (the unanswered requests in order,
  its tail the last of them, the tail's `next` uninitialised), has never been used, or is
  empty for good, because its tail points at an entry that has been freed;
* `Numbered`: what is asked on the way out and answered on the way in are the requests
  after the last one answered, each of them once and in order. The number of a request
  (`n` of `Msg`) is there for this alone: neither PuTTY nor the server reads it;
* `Balanced`: the last word about a port on the way to the server is what the table says
  of it; when a request arrives the server does not listen on its port (`Fresh`:
  PuTTY never asks for a port it has not cancelled first); and of a port nothing is on
  its way about, the server's state or its answer on the way back is what the table says;
* `Smooth`, for a gentle user: nothing was freed in its tree, every unanswered
  request has its rpf, and the list is intact as long as an answer is due.

A change of the configuration is one step and two loops, which the model writes
as recursive functions. `LoopEnds` says that there is a function with the loop's
values, `ConfigIs` that `portfwdmgr_config` is the last value of two of them. `Good`, the
invariant between two turns, is then kept by each turn (`RemoveGood`, `AllocGood`, and
`RefuseGood` where the port is taken); the requests collected in `out` count as sent
after those in `c2s`. `FirstLoop` and `SecondLoop` carry it to the end with `Reaches`, induction
up to a bound. One lemma for each direction and kind of message says
what sending or taking it does to `Numbered` and `Balanced`. The invariant was model-checked
before it was proved.

### Connection sharing

The wires, the upstream's tables and the server's channels are three views of the same
channels, each late in its own way. `IInv` (in `SshShareInv`) therefore speaks of one channel number at a time,
and sees the two wires as sets of messages about that number, each with its place
(`Wire`): a message that is sent is a member with a greater place than any, one that is
taken is the member with the least.

* `Linked`: the upstream's table and the downstreams' records hold the same numbers, one
  record each;
* `UInv`, for every number: one conjunct for each thing that can be there – a request to
  open it or an acceptance on its way (`BirthU`), an open channel of the server's (`LiveU`, `HeldU`), its
  confirmation (`ConfU`), its last word (`FinalU`), our CLOSE (`CloseU`), and each state of
  the record (`AwaitU`, `OpenU`, `SentU`, `RcvdU`) – which says what must, and what cannot, be
  elsewhere. A number that both sides have closed is free again only when nothing about
  it is left on either wire, which is why `NeverMisrouted` holds;
* `Announced`: a connection the server has announced is on its way to us, in the hands of a
  downstream, or has its answer on the way;
* `PInv`, as long as the downstreams are gentle: a downstream's record of a port, its
  entry in `rportfwd`, its request and the answer to it (`FwdP`, `WaitP`, `AskP`,
  `AnswerP`); the order of the upstream's list is that of the answers to come (`ListP`,
  `OrderP`); what the server listens for has an active record, an answer on its way or a
  cancellation behind it (`MsgsP`, `ActiveP`, `ListenP`); an entry that a refusal left in the
  table is nobody's (`StaleP`);
* `Cleaned`: the struct of a downstream that has gone holds only what has to wait for an answer
  (`Tried`: as `share_try_cleanup` leaves it, so it has been freed if nothing is left).

Between two of the packets it sends, the upstream is in a state where the invariant holds of the
wire together with what it is about to send: `Sound` and `SoundPorts` say so. Each loop of
`share_try_cleanup` is then a lemma (`HalfSound`, `ClosesKeep`, `FwdSound`), `TryCleanup` combines
them, and the handlers call it as they call the function. The lemmas about single steps of a
number or a port (the first two parts of the module) know nothing of sequences or
records, and those that find the step on a wire nothing of the protocol.

The attempt found that `NothingLeftBehind`, as it was stated at first, is false: it held a
downstream that has gone responsible for a connection announced on its behalf. When the
port has been cancelled and given to another downstream before the announcement
arrives, the connection layer finds the new owner in its table of ports, and hands the
connection to it. With two downstreams no behaviour reaches this (see *Bounds*). The property
now says that such a connection is in somebody's hands, and `share` checks it with three.

### The unlock pipeline

`SubmitsWhatWasSent` is about two fields that one thread writes one after the other and
another reads one after the other. `IndInv` adds what the one has written at each of its
steps, unless LogonUI has written over it (`TileInv`), that LogonUI has a tile only
once the offer was made (`OfferInv`), and what the other can have read by where the
first was when it read the name (`CopyInv`). `seen`, which remembers that place, is
history; so is `edited`. The service side needs only its types and that a configuration that
is being loaded exists (`LoadInv`), however many processes and calls share the files.

### The network end

`IndInv` holds in the middle of a callback as well, where neither property does:

* `Sane`: types, and no callback is in the queue twice;
* `Owned`: which of socket, layers and packet layer are alive together, and that no
  callback of a freed one is pending;
* `Flows`: `NoOutputStall` with the running callback counted as pending;
* `KeysLast`: new keys are awaited just while NEWKEYS is the last packet of `in_pq`;
* `Counted`: every byte the server sent is unread, in `in_raw`, or of what has been
  parsed. It bounds `in_raw` by what is left of the packet, which is why the socket
  can be found frozen under a read that waits only for a packet longer than
  `SSH_MAX_BACKLOG`. The sums are the values of a function that is said to exist
  (`Offsets`), so no sum over a sequence is defined by recursion;
* `Drained`: `NoInputStall` while `ic_in_raw` is neither running nor queued.

One lemma says what each function of `ssh.c` does to the record; `Mild` (input
untouched) and `ShutKeeps`, `CloseKeeps` say once why most of them keep the rest.

The attempt found three things. `ssh_check_frozen`'s two arms overlapped in the
model; they are now disjoint, as in the code. Deleting the callbacks of an
object is a recursive function (`Without`), which can be reasoned about. And
`NoInputStall` said less than the code does: a read that could go on was excused
while a channel throttles the connection; it is not possible even then, and the
property now says so.

### The terminal

`Good(t)` is the invariant of `TermScreen`: types, both screens as long as the
window, all four cursors on it, both pairs of margins within it, and the
scrollback within `savelines` and at least `tempsblines`. Each operation is a composition of a
few functions (`scroll`, `erase_lots`, `move`, `swap_screen`, `term_size`), and each has
a lemma that says what it does to a good record. The loops of `term_size` are
recursive functions, whose lemmas find a least counterexample in the natural numbers.
`Cleared` and `Viewable` carry the action properties through the same functions:
what happens to the other screen, and to the view. `ResizeRoundTrip`
compares two runs of the shrinking and the growing loop, line by line.

`TermLine`'s invariant is its type, and the work is in the step. `Checked` says what
`check_trust_status` and `check_boundary` leave behind (`Apart`: no wide character
across a column), `Inserted`, `Deleted` and `Erased` what an edit makes of a line; a
lemma per handler combines them, and `Step` excludes exactly the sequences that the
properties exclude.

### Only model-checked

* Liveness: `FreeCompletes`, `OfferExpires`, `RequestConsumed`, `ZombieEnds`, `CloseEnds`,
  `PacketsParsed`, `CloseCompletes`:
  out of the prover's reach.
* `PasteGivesBack`: the copied text is a concatenation, defined by recursion over lines
  and cells; what it is for every screen is an induction over data.
* `Emptied` for downstreams that are not gentle: the ports of such a one are outside the
  proofs' invariant (`PInv`).
* Of `SshShare`, what the server sees of a channel it opened for a downstream
  (`ServerContent`) is an expected violation, so there is nothing to prove.
* The two expected violations.

## Plan

1. *Done*: `HandleIO`, `ByteStream`, `AutoUnlock`, `Ssh2Channel`, `RemoteForward`,
   `SshConn`, `SshShare`, `TermScreen`, `TermLine`.
2. *Done*: the proofs listed above.
3. *Left*: rekeying in `ssh2transport.c` against data in flight; timers; SFTP transfers
   (`sftp.c`); `winhsock.c` composed from two handles.

## Not modelled

* Extended data (stderr), agent forwarding and the server side of the connection
  layer; extended data repeat the window accounting of ordinary data.
* In `sshshare.c`: X11 channels, agent forwarding and the framing of the bare
  protocol.
* In `terminal.c`: attributes and colours, double-size lines (but for where a tab
  ends on them), character sets, VT52 mode, printing, keyboard and mouse, bidi and
  painting; pending input while a selection is dragged. These neither move lines
  nor change which cells belong together.
* SOCKS and X11 authorisation exchanges: a choice of outcome.
* The main channel as a direct connection (`ssh_nc_host`), and an X11 connection that is
  handed to a downstream once its authorisation is known.
* Local and dynamic port forwardings: listening sockets without a protocol of
  their own; what they accept is a `pfd` channel.
* Overlapped I/O and noise collection in `winhandl.c`: they do not change who
  owns the buffer.
* Changes of `config.ini` while a service process lives: the file is read once
  per process, or for each request on a server.
* Release of the provider while LogonUI lives: COM lifetimes are LogonUI's.
* Timers: `timing.c` needs a clock that wraps; nothing modelled here depends on it.
* Key exchange and rekeying: only the wait for new keys is in `SshConn`.
* User authentication, SSH-1, sockets beyond what `SshConn` has of `winnet.c`,
  proxies, Pageant, SFTP, telnet: sequential or separate programs.
* The two front ends (`window.c`, `gtkwin.c` and their dialogs), most of the
  repository by lines: drawing and message dispatch without a protocol.
* Cryptography, compression and containers: arithmetic beyond TLC, tested
  upstream.
* UiStudio, UiActivities, mstsc2, the screen recorder and the sample programs:
  graphical event handlers and trials without a protocol of their own.
