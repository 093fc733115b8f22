---------------------------- MODULE Ssh2Channel ----------------------------
(***************************************************************************)
(* putty-src/ssh2connection.c: the life of one SSH-2 channel, from its     *)
(* opening through data, windows and requests to the exchange of EOF and   *)
(* CLOSE, between PuTTY and a server that keeps to RFC 4254.               *)
(*                                                                         *)
(* A channel has a local end, its Channel: a forwarded socket ("pfd",      *)
(* portfwd.c), a forwarded X11 connection ("x11", x11fwd.c) or the main    *)
(* session ("session", mainchan.c).  Once the local end has gone, a zombie *)
(* stands in for it until the server has agreed to close.                  *)
(*                                                                         *)
(* Data are counted, not stored.  A burst that ssh2_try_send splits into   *)
(* packets is one message here.  The main thread is sequential: each       *)
(* handler is one step, a function from channel to channel.                *)
(***************************************************************************)
EXTENDS Integers, Sequences

CONSTANTS Kinds,            \* the kinds of channel to consider
          ssh_is_simple,    \* one session channel and no forwarding
          OUR_V2_WINSIZE, OUR_V2_BIGWIN,
          LOCMAX_LIMIT,     \* 0x40000000 in the code: locmaxwin stops growing
          FIXED_WINDOW,     \* initial_fixed_window_size of an X11 channel
                            \* while connections may be shared
          Asks,             \* what the main session asks for besides a command
          remote_cmd2,      \* there is a second command to fall back on
          seat_eof,         \* an EOF from the server is to be answered
          PeerWindow,       \* the server's initial window
          MaxIn, MaxOut,    \* bounds: data from the server, data to it
          MaxAdjust,        \* bound: window the server grants later on
          MaxReq            \* bound: channel requests the server makes

ASSUME ChannelAssumption ==
    /\ Kinds \subseteq {"pfd", "x11", "session"}
    /\ Asks \subseteq {"x11", "agent", "pty", "env"}
    /\ {ssh_is_simple, remote_cmd2, seat_eof} \subseteq BOOLEAN
    /\ {OUR_V2_WINSIZE, OUR_V2_BIGWIN, LOCMAX_LIMIT, FIXED_WINDOW} \subseteq Nat \ {0}
    /\ {PeerWindow, MaxIn, MaxOut, MaxAdjust, MaxReq} \subseteq Nat

VARIABLES c,         \* the channel, its local end and what PuTTY has sent
          s2c,       \* messages from the server, in order
          decoded,   \* how many of them are in in_pq when reading is frozen
          p          \* the server

vars == <<c, s2c, decoded, p>>

Closes == {"SENT_EOF", "SENT_CLOSE", "RCVD_EOF", "RCVD_CLOSE"}

InitialWindow == IF ssh_is_simple THEN OUR_V2_BIGWIN ELSE OUR_V2_WINSIZE

\* ssh2_channel_init, before the channel is allocated (st = "none").
Blank(kind) ==
    [kind |-> kind, st |-> "none", halfopen |-> FALSE, closes |-> {},
     pending_eof |-> FALSE, outbuffer |-> 0, remwindow |-> 0,
     locwindow |-> InitialWindow, locmaxwin |-> InitialWindow,
     remlocwin |-> InitialWindow,
     chanreq |-> <<>>,            \* 0: ssh2_channel_response; n: winadj of n
     throttle_state |-> "UNTHROTTLED", throttling_conn |-> FALSE,
     throttled_by_backlog |-> FALSE,
     all_channels_throttled |-> FALSE, conn_throttle_count |-> 0,
     chan |-> "live",             \* the local end, or "zombie"
     fixed |-> FALSE,             \* initial_fixed_window_size is in force
     xauth |-> "none",            \* X11: "wait", "ok", "refused", or "failed":
                                  \* authorised, but no X server to connect to
     held |-> 0,                  \* backlog of the local end
     input_wanted |-> TRUE, localeof |-> FALSE,
     req |-> {}, got_pty |-> FALSE, ready |-> FALSE,
     eof_pending |-> FALSE, eof_sent |-> FALSE,  \* of the main session
     written |-> 0,               \* data taken from the local end so far
     out |-> <<>>,                \* on its way to the server
     crash |-> "none"]            \* how PuTTY stopped, if it did

Msg(type, n) == [type |-> type, n |-> n]

Push(r, type, n) == [r EXCEPT !.out = Append(@, Msg(type, n))]

\* PuTTY stops with the given fault unless ok.
Check(r, ok, fault) ==
    IF ok \/ r.crash # "none" THEN r ELSE [r EXCEPT !.crash = fault]

\* The struct is used: it must not have been freed.
Touch(r) == Check(r, r.st = "live", "use_after_free")

Has(r, flag) == flag \in r.closes

-----------------------------------------------------------------------------
(* Closing.                                                                *)

\* The local end becomes a zombie; throttling_conn stays as it is.
ssh2_channel_close_local(r) == [r EXCEPT !.chan = "zombie", !.held = 0]

ssh2_channel_destroy(r) ==
    [ssh2_channel_close_local(Check(r, r.chanreq = <<>>, "assert_chanreq"))
        EXCEPT !.st = "freed"]

\* zombiechan_want_close and chan_default_want_close.
chan_want_close(r) ==
    r.chan = "zombie" \/ (Has(r, "SENT_EOF") /\ Has(r, "RCVD_EOF"))

send_close(r) ==
    [Push(r, "CLOSE", 0) EXCEPT !.closes = @ \cup {"SENT_EOF", "SENT_CLOSE"}]

ssh2_channel_check_close(r) ==
    LET r0 == Touch(r)
        r1 == IF /\ chan_want_close(r0)
                 /\ r0.chanreq = <<>>
                 /\ ~Has(r0, "SENT_CLOSE")
              THEN send_close(r0) ELSE r0
    IN  CASE r0.halfopen -> r0
          [] ~r0.halfopen /\ Has(r1, "SENT_CLOSE") /\ Has(r1, "RCVD_CLOSE") ->
                 ssh2_channel_destroy(r1)
          [] OTHER -> r1

\* Fault: does not wait for the buffer to empty.
ssh2_channel_try_eof_Early(r) ==
    IF r.halfopen THEN r
    ELSE ssh2_channel_check_close(
             [Push(r, "EOF", 0) EXCEPT !.pending_eof = FALSE,
                                       !.closes = @ \cup {"SENT_EOF"}])

ssh2_channel_try_eof(r) ==
    LET r1 == Check(r, r.pending_eof, "assert_eof")
    IN  IF r1.halfopen \/ r1.outbuffer > 0 THEN r1
        ELSE ssh2_channel_check_close(
                 [Push(r1, "EOF", 0) EXCEPT !.pending_eof = FALSE,
                                            !.closes = @ \cup {"SENT_EOF"}])

-----------------------------------------------------------------------------
(* Sending.                                                                *)

Least(a, b) == IF a <= b THEN a ELSE b

\* chan_set_input_wanted does nothing for a zombie.
ssh2_channel_check_throttle(r) ==
    LET r1 == Touch(r)
    IN  IF r1.chan = "zombie" THEN r1
        ELSE [r1 EXCEPT !.input_wanted = /\ ~r1.throttled_by_backlog
                                         /\ ~r1.all_channels_throttled
                                         /\ ~r1.pending_eof
                                         /\ ~Has(r1, "SENT_EOF")]

\* Fault: ignores the server's window.
SendNow_NoWindow(r) == IF r.halfopen THEN 0 ELSE r.outbuffer

\* What the loop of ssh2_try_send sends altogether.
SendNow(r) == IF r.halfopen THEN 0 ELSE Least(r.remwindow, r.outbuffer)

ssh2_try_send(r) ==
    LET n  == SendNow(r)
        r1 == IF n = 0 THEN r
              ELSE [Push(r, "DATA", n) EXCEPT !.outbuffer = @ - n,
                                              !.remwindow = @ - n]
    IN  IF r1.outbuffer = 0 /\ r1.pending_eof
        THEN ssh2_channel_try_eof(r1) ELSE r1

ssh2_try_send_and_unthrottle(r) ==
    LET r1 == ssh2_try_send(r)
    IN  CASE Has(r, "SENT_EOF") -> r
          [] ~Has(r, "SENT_EOF") /\ r1.outbuffer = 0 ->
                 ssh2_channel_check_throttle(
                     [r1 EXCEPT !.throttled_by_backlog = FALSE])
          [] OTHER -> r1

\* A request, answered by handler h if want.
ssh2_chanreq_init(r, want, h) ==
    LET r1 == Check(r, ~Has(r, "SENT_CLOSE") /\ ~Has(r, "RCVD_CLOSE"),
                    "assert_chanreq_init")
    IN  Push([r1 EXCEPT !.chanreq = IF want THEN Append(@, h) ELSE @],
             "REQUEST", IF want THEN 1 ELSE 0)

\* Fault: grants the whole new window instead of the difference.
Grant_Whole(r, newwin) == newwin

\* The argument of WINDOW_ADJUST, and of the winadj that goes with it.
Grant(r, newwin) == newwin - r.locwindow

ssh2_set_window(r, newwin) ==
    LET n  == Grant(r, newwin)
        r1 == IF newwin = r.locmaxwin
              THEN [ssh2_chanreq_init(r, TRUE, n) EXCEPT
                       !.throttle_state = IF @ = "UNTHROTTLED" THEN @
                                          ELSE "UNTHROTTLING"]
              ELSE [r EXCEPT !.remlocwin = newwin,
                             !.throttle_state = "THROTTLED"]
    IN  IF \/ Has(r, "RCVD_EOF")
           \/ Has(r, "SENT_CLOSE")
           \/ r.fixed
           \/ newwin \div 2 < r.locwindow
        THEN r
        ELSE [Push(r1, "ADJUST", n) EXCEPT !.locwindow = newwin]

-----------------------------------------------------------------------------
(* What a Channel may ask of its SshChannel.                               *)

ssh2channel_write(r, n) ==
    LET r1 == Check(r, ~Has(r, "SENT_EOF"), "assert_write")
    IN  ssh2_try_send([r1 EXCEPT !.outbuffer = @ + n, !.written = @ + n])

ssh2channel_write_eof(r) ==
    IF Has(r, "SENT_EOF") THEN r
    ELSE ssh2_channel_try_eof([r EXCEPT !.pending_eof = TRUE])

\* Fault: leaves the pending EOF to the zombie.
ssh2channel_initiate_close_KeepEof(r) ==
    ssh2_channel_check_close(ssh2_channel_close_local(r))

ssh2channel_initiate_close(r) ==
    ssh2_channel_check_close(
        [ssh2_channel_close_local(r) EXCEPT !.pending_eof = FALSE])

\* Fault: opens the whole window whatever the backlog.
ssh2channel_unthrottle_Full(r, bufsize) == ssh2_set_window(r, r.locmaxwin)

\* bufsize is what the local end still has to digest.
ssh2channel_unthrottle(r, bufsize) ==
    LET buflimit == IF ssh_is_simple THEN 0 ELSE r.locmaxwin
        r1 == IF bufsize < buflimit
              THEN ssh2_set_window(r, buflimit - bufsize) ELSE r
    IN  IF r1.throttling_conn /\ bufsize <= buflimit
        THEN [r1 EXCEPT !.throttling_conn = FALSE, !.conn_throttle_count = @ - 1]
        ELSE r1

ssh2channel_window_override_removed(r) ==
    ssh2_set_window([r EXCEPT !.fixed = FALSE], InitialWindow)

-----------------------------------------------------------------------------
(* The local ends.                                                         *)

\* x11_send_init_error: an error reply to the X client, and end of file.
x11_send_init_error(r) == ssh2channel_write_eof(ssh2channel_write(r, 1))

\* The req_* flags of the main session (n_req_env for "env"), in the order in
\* which the requests are made and answered.
Requests == <<"x11", "agent", "pty", "env", "primary", "fallback">>

\* Bound: no more than one environment variable.
mainchan_ask(r, q) ==
    IF q \in Asks \cup {"primary"}
    THEN [ssh2_chanreq_init(r, TRUE, 0) EXCEPT !.req = @ \cup {q}] ELSE r

\* k is what pfd_open_confirmation has left over from the SOCKS exchange; the
\* main session says whether it is simple, and makes its requests.
chan_open_confirmation(r, k) ==
    CASE r.chan = "live" /\ r.kind = "pfd" ->
             LET r1 == [r EXCEPT !.input_wanted = TRUE]
             IN  IF k = 0 THEN r1 ELSE ssh2channel_write(r1, k)
      [] r.chan = "live" /\ r.kind = "session" ->
             LET r1 == IF ssh_is_simple THEN ssh2_chanreq_init(r, FALSE, 0) ELSE r
                 r2 == mainchan_ask(mainchan_ask(r1, "x11"), "agent")
                 r3 == mainchan_ask(mainchan_ask(r2, "pty"), "env")
             IN  mainchan_ask(r3, "primary")
      [] OTHER -> r

\* A forwarded socket is told; an X11 channel with no socket yet answers with an
\* end of file of its own, and so does the main session if the seat wants it to
\* or there is a pty.  A socket that never connected does nothing.
chan_send_eof(r) ==
    CASE r.chan = "live" /\ r.kind = "x11" /\ r.xauth \notin {"ok", "failed"} ->
             ssh2channel_write_eof(r)
      [] /\ r.chan = "live" /\ r.kind = "session"
         /\ ~r.eof_sent /\ (seat_eof \/ r.got_pty) ->
             [ssh2channel_write_eof(r) EXCEPT !.eof_sent = TRUE,
                                              !.input_wanted = FALSE]
      [] OTHER -> r

\* mainchan_ready, with an EOF the user asked for too early.
mainchan_ready(r) ==
    LET r1 == [r EXCEPT !.ready = TRUE, !.input_wanted = TRUE,
                        !.eof_pending = FALSE]
    IN  IF r.eof_pending /\ ~r.eof_sent
        THEN [ssh2channel_write_eof(r1) EXCEPT !.eof_sent = TRUE] ELSE r1

mainchan_try_fallback_command(r) ==
    [ssh2_chanreq_init(r, TRUE, 0) EXCEPT !.req = @ \cup {"fallback"}]

\* An answer is for the first request that is waiting for one.  A command that
\* is refused is followed by the second one, or else by ssh_sw_abort.
mainchan_request_response(r, success) ==
    LET q  == Head(SelectSeq(Requests, LAMBDA x : x \in r.req))
        r1 == [r EXCEPT !.req = @ \ {q}]
    IN  IF r.req = {} THEN r
        ELSE CASE q \in {"x11", "agent", "env"} -> r1
               [] q = "pty" -> [r1 EXCEPT !.got_pty = success]
               [] q \in {"primary", "fallback"} /\ success -> mainchan_ready(r1)
               [] q = "primary" /\ ~success /\ remote_cmd2 ->
                      mainchan_try_fallback_command(r1)
               [] OTHER -> [r1 EXCEPT !.crash = "aborted"]

\* What chan_send may do with n units, as pairs of the channel and bufsize.
\* A socket that is not backed up takes some of the data at once.  An X client
\* is verified on its first data; once authorised, it gets the usual window and
\* a socket, which may fail to connect; and the data after that fail an
\* assertion, since the client is not verified and there is a socket.
chan_send(r, n) ==
    LET taken(q) == {<<q, b>> : b \in IF q.held = 0 THEN 0 .. n ELSE {q.held + n}}
        opened(a) == [ssh2channel_window_override_removed(r) EXCEPT !.xauth = a]
        x11 == r.chan = "live" /\ r.kind = "x11"
        refused == <<x11_send_init_error([r EXCEPT !.xauth = "refused"]), 0>>
    IN  CASE r.chan = "zombie" -> {<<r, 0>>}
          [] x11 /\ r.xauth = "wait" ->
                 {<<r, 0>>, refused, <<x11_send_init_error(opened("failed")), 0>>}
                 \cup taken(opened("ok"))
          [] x11 /\ r.xauth = "refused" -> {refused}
          [] x11 /\ r.xauth = "failed" -> {<<Check(r, FALSE, "assert_x11"), 0>>}
          [] OTHER -> taken(r)

-----------------------------------------------------------------------------
(* ssh2_connection_filter_queue: one operator per message about a channel. *)

ssh2_handle_winadj_response(r, n) ==
    [r EXCEPT !.remlocwin = @ + n,
              !.throttle_state = IF @ = "UNTHROTTLING" THEN "UNTHROTTLED" ELSE @]

\* reply is "ok", "no", or "null" when no answer will come.
call_handler(r, h, reply) ==
    CASE h > 0 -> ssh2_handle_winadj_response(r, h)
      [] h = 0 /\ reply = "null" -> Check(r, FALSE, "null_reply")
      [] OTHER -> mainchan_request_response(r, reply = "ok")

\* x11_new_channel, ssh2_channel_init and OPEN_CONFIRMATION: n is
\* initial_fixed_window_size, 0 where connections are not shared.
rcvd_OPEN(r, win, n) ==
    LET w == IF n = 0 THEN InitialWindow ELSE n
    IN  Push([r EXCEPT !.st = "live", !.remwindow = win, !.fixed = n # 0,
                       !.xauth = "wait", !.locwindow = w,
                       !.locmaxwin = w, !.remlocwin = w],
             "OPEN_CONFIRMATION", w)

\* Fault: forgets an EOF that came before the confirmation.
rcvd_OPEN_CONFIRMATION_NoEof(r, win, k) ==
    ssh2_channel_check_close(
        chan_open_confirmation([r EXCEPT !.halfopen = FALSE, !.remwindow = win], k))

rcvd_OPEN_CONFIRMATION(r, win, k) ==
    LET r1 == ssh2_channel_check_close(
                  chan_open_confirmation(
                      [r EXCEPT !.halfopen = FALSE, !.remwindow = win], k))
    IN  IF r1.pending_eof THEN ssh2_channel_try_eof(r1) ELSE r1

\* The main session gives up (ssh_sw_abort_deferred).
rcvd_OPEN_FAILURE(r) ==
    [r EXCEPT !.st = "freed", !.chan = "zombie", !.held = 0,
              !.crash = IF r.kind = "session" THEN "aborted" ELSE @]

\* After chan_send has returned b: grow the window, reopen it, or throttle.
after_chan_send(r, b) ==
    LET r1 == [r EXCEPT
                  !.held = IF r.chan = "zombie" THEN 0 ELSE b,
                  !.locmaxwin = IF /\ r.remlocwin <= 0
                                   /\ r.throttle_state = "UNTHROTTLED"
                                   /\ @ < LOCMAX_LIMIT
                                THEN @ + OUR_V2_WINSIZE ELSE @]
        r2 == IF b < r1.locmaxwin
              THEN ssh2_set_window(r1, r1.locmaxwin - b) ELSE r1
    IN  IF /\ b > r2.locmaxwin \/ (ssh_is_simple /\ b > 0)
           /\ ~r2.throttling_conn
        THEN [r2 EXCEPT !.throttling_conn = TRUE, !.conn_throttle_count = @ + 1]
        ELSE r2

rcvd_DATA(r, n) ==
    {after_chan_send(Touch(x[1]), x[2]) :
        x \in chan_send([r EXCEPT !.locwindow = @ - n, !.remlocwin = @ - n], n)}

rcvd_WINDOW_ADJUST(r, n) ==
    IF Has(r, "SENT_EOF") THEN r
    ELSE ssh2_try_send_and_unthrottle([r EXCEPT !.remwindow = @ + n])

rcvd_REQUEST(r, want) ==
    IF want = 1 /\ ~Has(r, "SENT_CLOSE") THEN Push(r, "REPLY", 0) ELSE r

\* Fault: does not look whether the channel can now be closed.
rcvd_REPLY_NoCheck(r, n) ==
    IF r.chanreq = <<>> THEN Check(r, FALSE, "proto_error")
    ELSE [call_handler(r, Head(r.chanreq), "ok") EXCEPT !.chanreq = Tail(@)]

\* SUCCESS (n = 1) or FAILURE (n = 0): the handler runs, then leaves the list.
rcvd_REPLY(r, n) ==
    IF r.chanreq = <<>> THEN Check(r, FALSE, "proto_error")
    ELSE LET r1 == call_handler(r, Head(r.chanreq), IF n = 1 THEN "ok" ELSE "no")
         IN  ssh2_channel_check_close([r1 EXCEPT !.chanreq = Tail(@)])

rcvd_EOF(r) ==
    IF Has(r, "RCVD_EOF") THEN r
    ELSE ssh2_channel_check_close(
             chan_send_eof([r EXCEPT !.closes = @ \cup {"RCVD_EOF"}]))

\* The last step of CLOSE.
process_close(r) ==
    ssh2_channel_check_close([r EXCEPT !.closes = @ \cup {"RCVD_CLOSE"}])

\* Nobody will answer the outstanding requests any more.
flush_chanreqs(r) ==
    LET flushed[i \in 0 .. Len(r.chanreq)] ==
            IF i = 0 THEN r
            ELSE call_handler(flushed[i - 1], r.chanreq[i], "null")
    IN  [flushed[Len(r.chanreq)] EXCEPT !.chanreq = <<>>]

\* Fault: records the CLOSE before it has finished with the channel.
rcvd_CLOSE_RecordFirst(r) ==
    LET r0 == [r EXCEPT !.closes = @ \cup {"RCVD_CLOSE"}]
        r1 == IF Has(r0, "RCVD_EOF") THEN r0
              ELSE chan_send_eof([r0 EXCEPT !.closes = @ \cup {"RCVD_EOF"}])
        r2 == flush_chanreqs(r1)
    IN  IF Has(r2, "SENT_EOF") THEN ssh2_channel_check_close(r2)
        ELSE ssh2_channel_check_throttle(
                 ssh2channel_write_eof([r2 EXCEPT !.outbuffer = 0]))

\* Fault: keeps data it will never be able to send.
rcvd_CLOSE_KeepData(r) ==
    LET r1 == IF Has(r, "RCVD_EOF") THEN r
              ELSE chan_send_eof([r EXCEPT !.closes = @ \cup {"RCVD_EOF"}])
        r2 == flush_chanreqs(r1)
        r3 == IF Has(r2, "SENT_EOF") THEN r2
              ELSE ssh2_channel_check_throttle(ssh2channel_write_eof(r2))
    IN  process_close(r3)

rcvd_CLOSE(r) ==
    LET r1 == IF Has(r, "RCVD_EOF") THEN r
              ELSE chan_send_eof([r EXCEPT !.closes = @ \cup {"RCVD_EOF"}])
        r2 == flush_chanreqs(r1)
        r3 == IF Has(r2, "SENT_EOF") THEN r2
              ELSE ssh2_channel_check_throttle(
                       ssh2channel_write_eof([r2 EXCEPT !.outbuffer = 0]))
    IN  process_close(r3)

-----------------------------------------------------------------------------
(* PuTTY's steps.                                                          *)

Running == c.crash = "none"

Frozen(r) == r.conn_throttle_count > 0

\* A step that fails on the way has no effect but to stop PuTTY.
Stop(r) == IF r.crash = "none" THEN r ELSE [c EXCEPT !.crash = r.crash]

\* While ssh_throttle_conn keeps the connection frozen, only what had been
\* decoded by then is still handled.
ClientRcvd(type, new) ==
    /\ Running
    /\ s2c # <<>>
    /\ Head(s2c).type = type
    /\ Frozen(c) => decoded > 0
    /\ s2c' = Tail(s2c)
    /\ c' \in {Stop(r) : r \in new}
    /\ IF Frozen(c') /\ ~Frozen(c) THEN decoded' \in 0 .. Len(s2c')
       ELSE decoded' = IF Frozen(c') THEN decoded - 1 ELSE 0
    /\ UNCHANGED p

\* The lookup every message about a channel goes through.
Channel(halfopen, new) ==
    IF c.st = "live" /\ c.halfopen = halfopen THEN new
    ELSE {Check(c, FALSE, "proto_error")}

Arg == Head(s2c).n

RcvdOpen == ClientRcvd("OPEN", {rcvd_OPEN(c, Arg, n) : n \in {0, FIXED_WINDOW}})

RcvdOpenConfirmation ==
    ClientRcvd("OPEN_CONFIRMATION",
        Channel(TRUE, {rcvd_OPEN_CONFIRMATION(c, Arg, k) :
                          k \in 0 .. Least(1, MaxOut - c.written)}))

RcvdOpenFailure == ClientRcvd("OPEN_FAILURE", Channel(TRUE, {rcvd_OPEN_FAILURE(c)}))

RcvdData == ClientRcvd("DATA", Channel(FALSE, rcvd_DATA(c, Arg)))

RcvdWindowAdjust == ClientRcvd("ADJUST", Channel(FALSE, {rcvd_WINDOW_ADJUST(c, Arg)}))

RcvdRequest == ClientRcvd("REQUEST", Channel(FALSE, {rcvd_REQUEST(c, Arg)}))

RcvdReply == ClientRcvd("REPLY", Channel(FALSE, {rcvd_REPLY(c, Arg)}))

RcvdEof == ClientRcvd("EOF", Channel(FALSE, {rcvd_EOF(c)}))

RcvdClose == ClientRcvd("CLOSE", Channel(FALSE, {rcvd_CLOSE(c)}))

ClientReceive ==
    \/ RcvdOpen
    \/ RcvdOpenConfirmation
    \/ RcvdOpenFailure
    \/ RcvdData
    \/ RcvdWindowAdjust
    \/ RcvdRequest
    \/ RcvdReply
    \/ RcvdEof
    \/ RcvdClose

\* A step of the local end.
Local(new) ==
    /\ Running
    /\ c' = Stop(new)
    /\ decoded' = IF Frozen(c') THEN decoded ELSE 0
    /\ UNCHANGED <<s2c, p>>

\* ssh2_session_open and ssh2_lportfwd_open.
OpenChannel ==
    /\ c.st = "none"
    /\ c.kind # "x11"
    /\ Local(Push([c EXCEPT !.st = "live", !.halfopen = TRUE], "OPEN", c.locwindow))

\* The socket of a forwarding is there.
HasSocket == /\ c.st = "live" /\ c.chan = "live"
             /\ c.kind = "pfd" \/ (c.kind = "x11" /\ c.xauth = "ok")

\* pfd_receive, x11_receive: a socket that is not frozen has data.
LocalReceive ==
    /\ HasSocket
    /\ ~c.halfopen
    /\ c.input_wanted /\ ~c.localeof
    /\ \E n \in 1 .. (MaxOut - c.written) : Local(ssh2channel_write(c, n))

\* ssh2_connection_got_user_input: the user types.  Nothing in ssh_send asks
\* want_user_input.
UserInput ==
    /\ c.kind = "session"
    /\ c.st = "live" /\ c.chan = "live"
    /\ c.written < MaxOut
    /\ Local(ssh2channel_write(c, 1))

\* pfd_closing, x11_closing without an error.
LocalEof ==
    /\ HasSocket
    /\ ~c.localeof
    /\ Local(ssh2channel_write_eof([c EXCEPT !.localeof = TRUE]))

\* mainchan_special_cmd(SS_EOF).
UserEof ==
    /\ c.kind = "session"
    /\ c.st = "live" /\ c.chan = "live"
    /\ \/ /\ ~c.ready /\ ~c.eof_pending
          /\ Local([c EXCEPT !.eof_pending = TRUE])
       \/ /\ c.ready /\ ~c.eof_sent
          /\ Local([ssh2channel_write_eof(c) EXCEPT !.eof_sent = TRUE])

\* mainchan_terminal_size and mainchan_special_cmd: the window is resized (if
\* there is or may be a pty), or the user sends a break or a signal, which the
\* menu offers once the channel is open.  Bound: one such request is on its way
\* at a time.
UserRequest ==
    /\ c.kind = "session"
    /\ c.st = "live" /\ c.chan = "live" /\ ~c.halfopen
    /\ \A i \in DOMAIN c.out : c.out[i] # Msg("REQUEST", 0)
    /\ Local(ssh2_chanreq_init(c, FALSE, 0))

\* pfd_closing, x11_closing with an error, which an X client that has heard
\* nothing yet is told.
LocalError ==
    /\ HasSocket
    /\ Local(ssh2channel_initiate_close(
                 IF c.kind = "x11" /\ c.written = 0
                 THEN x11_send_init_error(c) ELSE c))

\* pfd_sent, x11_sent, ssh2_stdout_unthrottle: some of the backlog has gone.
LocalSent ==
    /\ c.st = "live" /\ c.chan = "live"
    /\ \E b \in 0 .. (c.held - 1) :
          Local(ssh2channel_unthrottle([c EXCEPT !.held = b], b))

\* ssh2_throttle_all_channels: the SSH socket is backed up, or no longer is.
ThrottleAll ==
    /\ c.st = "live"
    /\ Local(ssh2_channel_check_throttle(
                 [c EXCEPT !.all_channels_throttled = ~@]))

-----------------------------------------------------------------------------
(* The server (external).                                                  *)

Server == [st |-> "none",
           win |-> 0,          \* what it may still send
           rwin |-> PeerWindow, \* what it lets PuTTY send
           sent |-> 0, granted |-> 0, reqs |-> 0, got |-> 0,
           sentEof |-> FALSE, sentClose |-> FALSE,
           gotEof |-> FALSE, gotClose |-> FALSE]

ServerSends(q, msgs) == /\ Running
                        /\ p' = q
                        /\ s2c' = s2c \o msgs
                        /\ UNCHANGED decoded

ServerRcvd(type, q, msgs) ==
    /\ c.out # <<>>
    /\ Head(c.out).type = type
    /\ c' = [c EXCEPT !.out = Tail(@)]
    /\ ServerSends(q, msgs)

ServerArg == Head(c.out).n

ServerRcvdOpen ==
    \/ ServerRcvd("OPEN", [p EXCEPT !.st = "open", !.win = ServerArg],
                  <<Msg("OPEN_CONFIRMATION", PeerWindow)>>)
    \/ ServerRcvd("OPEN", [p EXCEPT !.st = "refused"], <<Msg("OPEN_FAILURE", 0)>>)

ServerRcvdConfirmation ==
    ServerRcvd("OPEN_CONFIRMATION", [p EXCEPT !.st = "open", !.win = ServerArg], <<>>)

ServerRcvdData ==
    ServerRcvd("DATA", [p EXCEPT !.got = @ + ServerArg, !.rwin = @ - ServerArg], <<>>)

ServerRcvdAdjust == ServerRcvd("ADJUST", [p EXCEPT !.win = @ + ServerArg], <<>>)

\* Every request that wants an answer gets one, unless CLOSE has been sent.
ServerRcvdRequest ==
    IF ServerArg = 1 /\ ~p.sentClose
    THEN \E ok \in 0 .. 1 : ServerRcvd("REQUEST", p, <<Msg("REPLY", ok)>>)
    ELSE ServerRcvd("REQUEST", p, <<>>)

ServerRcvdReply == ServerRcvd("REPLY", p, <<>>)

ServerRcvdEof == ServerRcvd("EOF", [p EXCEPT !.gotEof = TRUE], <<>>)

\* CLOSE is answered with CLOSE.
ServerRcvdClose ==
    ServerRcvd("CLOSE", [p EXCEPT !.gotClose = TRUE, !.sentClose = TRUE],
               IF p.sentClose THEN <<>> ELSE <<Msg("CLOSE", 0)>>)

ServerReceive ==
    \/ ServerRcvdOpen
    \/ ServerRcvdConfirmation
    \/ ServerRcvdData
    \/ ServerRcvdAdjust
    \/ /\ c.out # <<>> /\ ServerRcvdRequest
    \/ ServerRcvdReply
    \/ ServerRcvdEof
    \/ ServerRcvdClose

ServerOpen == p.st = "open" /\ ~p.sentClose

ServerData ==
    /\ ServerOpen /\ ~p.sentEof
    /\ \E n \in 1 .. Least(p.win, MaxIn - p.sent) :
          ServerSends([p EXCEPT !.win = @ - n, !.sent = @ + n], <<Msg("DATA", n)>>)
    /\ UNCHANGED c

ServerAdjust ==
    /\ ServerOpen
    /\ \E n \in 1 .. (MaxAdjust - p.granted) :
          ServerSends([p EXCEPT !.rwin = @ + n, !.granted = @ + n],
                      <<Msg("ADJUST", n)>>)
    /\ UNCHANGED c

ServerRequest ==
    /\ ServerOpen
    /\ p.reqs < MaxReq
    /\ \E want \in 0 .. 1 :
          ServerSends([p EXCEPT !.reqs = @ + 1], <<Msg("REQUEST", want)>>)
    /\ UNCHANGED c

ServerEof ==
    /\ ServerOpen /\ ~p.sentEof
    /\ ServerSends([p EXCEPT !.sentEof = TRUE], <<Msg("EOF", 0)>>)
    /\ UNCHANGED c

ServerClose ==
    /\ ServerOpen
    /\ ServerSends([p EXCEPT !.sentClose = TRUE], <<Msg("CLOSE", 0)>>)
    /\ UNCHANGED c

-----------------------------------------------------------------------------
Init ==
    /\ \E kind \in Kinds :
          /\ c = Blank(kind)
          /\ s2c = IF kind = "x11" THEN <<Msg("OPEN", PeerWindow)>> ELSE <<>>
    /\ decoded = 0
    /\ p = Server

Next ==
    \/ OpenChannel
    \/ ClientReceive
    \/ LocalReceive
    \/ UserInput
    \/ LocalEof
    \/ UserEof
    \/ UserRequest
    \/ LocalError
    \/ LocalSent
    \/ ThrottleAll
    \/ ServerReceive
    \/ ServerData
    \/ ServerAdjust
    \/ ServerRequest
    \/ ServerEof
    \/ ServerClose

Spec == Init /\ [][Next]_vars

\* The steps that take a message from a queue: only ClientReceive shortens s2c,
\* only ServerReceive c.out, and whatever is at the head of either is handled.
ClientTakes ==
    Running /\ s2c # <<>> /\ (Frozen(c) => decoded > 0) /\ s2c' = Tail(s2c)

ServerTakes == Running /\ c.out # <<>> /\ c' = [c EXCEPT !.out = Tail(@)]

\* Messages arrive and are handled, and local ends digest what they are given.
FairSpec ==
    /\ Spec
    /\ WF_s2c(ClientTakes)
    /\ WF_c(ServerTakes)
    /\ WF_vars(LocalSent)

-----------------------------------------------------------------------------
(* Properties.                                                             *)

\* The sum of a sequence of numbers.
Total(w) ==
    LET sum[i \in 0 .. Len(w)] == IF i = 0 THEN 0 ELSE sum[i - 1] + w[i]
    IN  sum[Len(w)]

\* The units carried by the messages of the given type in a queue.
InFlight(queue, type) ==
    Total([i \in 1 .. Len(queue) |->
              IF queue[i].type = type THEN queue[i].n ELSE 0])

Faults == {"assert_chanreq", "assert_chanreq_init", "assert_eof", "assert_write",
           "assert_x11", "null_reply", "proto_error", "use_after_free"}

\* Every variable has its type.
TypeOK ==
    /\ c.kind \in Kinds /\ c.st \in {"none", "live", "freed"}
    /\ c.closes \subseteq Closes
    /\ {c.outbuffer, c.remwindow, c.locwindow, c.locmaxwin, c.held} \subseteq Nat
    /\ c.conn_throttle_count = (IF c.throttling_conn THEN 1 ELSE 0)
    /\ c.throttle_state \in {"THROTTLED", "UNTHROTTLING", "UNTHROTTLED"}
    /\ c.chan \in {"live", "zombie"}
    /\ c.crash \in Faults \cup {"none", "aborted"}
    /\ {p.win, p.rwin} \subseteq Int
    /\ decoded \in 0 .. Len(s2c)

Open == Running /\ c.st = "live" /\ ~c.halfopen /\ p.st = "open"

\* The two sides agree on PuTTY's sending window: what PuTTY thinks it has
\* left and what is in flight add up to what the server has granted
\* (ssh2_try_send, WINDOW_ADJUST), so the server's window is never exceeded.
SendWindowAgrees ==
    /\ InFlight(c.out, "DATA") <= p.rwin
    /\ Open /\ ~Has(c, "SENT_EOF") =>
          c.remwindow + InFlight(c.out, "DATA") + InFlight(s2c, "ADJUST") = p.rwin

\* The same for what the server may send: locwindow counts what it has left
\* and what is in flight (DATA, ssh2_set_window).
ReceiveWindowAgrees ==
    Open => p.win + InFlight(s2c, "DATA") + InFlight(c.out, "ADJUST") = c.locwindow

\* Nothing follows CLOSE: a server that has also sent its own has forgotten
\* the channel (ssh2connection.c:605-613).
SilentAfterClose ==
    /\ \A i \in DOMAIN c.out : c.out[i].type = "CLOSE" => i = Len(c.out)
    /\ p.gotClose => c.out = <<>>

\* An EOF reaches the server only after everything the local end wrote,
\* unless the server has closed the channel.
EofAfterData ==
    Running /\ p.gotEof /\ ~p.sentClose => p.got = c.written

\* Nothing waits for what will not come: data wait only for window, and an EOF
\* only for data, on an open channel whose local end does not write before it
\* is open; and the winadj that UNTHROTTLING waits for has been sent.
NothingForgotten ==
    c.st = "live" =>
       /\ c.kind # "session" /\ ~c.halfopen =>
             /\ c.outbuffer > 0 => c.remwindow = 0
             /\ c.pending_eof => c.outbuffer > 0
       /\ c.throttle_state = "UNTHROTTLING" =>
             \E i \in DOMAIN c.chanreq : c.chanreq[i] > 0

\* The assertions on closing (ssh2connection.c:1082, 1095, 1226) hold, no
\* handler goes on with a channel it has freed, and a server that keeps to
\* the rules is never accused of breaking them (lines 472-483, 747-755).  A
\* port forwarding meets no assertion at all.  An X11 channel can write after
\* EOF (1400) or, if its X server could not be reached, be sent more data
\* (x11fwd.c:985); the main session can write after EOF, make requests after
\* CLOSE (1328) or get no reply (client.c:318).
ClosesCleanly ==
    c.crash \in {"none"}
        \cup (IF c.kind # "pfd" THEN {"assert_write"} ELSE {})
        \cup (IF c.kind = "x11" THEN {"assert_x11"} ELSE {})
        \cup (IF c.kind = "session"
              THEN {"assert_chanreq_init", "null_reply", "aborted"} ELSE {})

\* A server that keeps to the window cannot make a port forwarding or a main
\* session freeze the whole connection: backlog and open window together stay
\* within locmaxwin (ssh2connection.c:572-587).
BacklogWithinWindow ==
    c.st = "live" /\ c.kind # "x11" /\ ~ssh_is_simple =>
       /\ c.held + c.locwindow <= c.locmaxwin
       /\ ~Frozen(c)

Gone == c.st = "freed" \/ ~Running

\* A channel whose local end has died is wound up.
ZombieEnds == (c.st = "live" /\ c.chan = "zombie") ~> Gone

\* Sending CLOSE, or receiving it, leads to the end of the channel.
CloseEnds ==
    (c.st = "live" /\ (Has(c, "SENT_CLOSE") \/ Has(c, "RCVD_CLOSE"))) ~> Gone
=============================================================================
