------------------------------ MODULE SshConn ------------------------------
(***************************************************************************)
(* The network end of an SSH connection, src/putty-src/ssh.c: the socket,  *)
(* the buffers in_raw and out_raw, freezing and throttling, the packet     *)
(* layer (BPP) that takes packets out of in_raw, the protocol layers as    *)
(* one consumer of packets, and the queue of top-level callbacks that      *)
(* drives all of it (callback.c).                                          *)
(*                                                                         *)
(* Everything runs in one thread.  A callback is begun by RunCallback and  *)
(* ends when cbcurr is NULL again; socket events and the user's actions    *)
(* come between callbacks, network and server at any time.  Lengths are    *)
(* counted in units of the length field of a packet.                       *)
(***************************************************************************)
EXTENDS Naturals, Sequences, FiniteSets, SequencesExt

CONSTANTS
  SSH_MAX_BACKLOG,  \* limit of unparsed input and of unsent output
  RecvBuf,          \* what one recv() takes at most
  Bodies,           \* lengths of packet bodies, the length field apart
  OutLen,           \* length of a packet this side sends
  Channels,         \* channels that can throttle the connection
  MaxPackets,       \* bound: packets the server sends
  MaxOut            \* bound: packets this side sends of its own accord

ASSUME ConstAssumption ==
  /\ SSH_MAX_BACKLOG \in Nat \ {0} /\ RecvBuf \in Nat \ {0}
  /\ Bodies \subseteq Nat \ {0} /\ 1 \in Bodies
  /\ OutLen \in Nat \ {0} /\ MaxPackets \in Nat /\ MaxOut \in Nat

Callbacks == {"ic_in_raw", "ic_process_queue", "ic_out_pq", "ic_out_raw"}

\* What the server may send: "bad" fails its MAC.
Packets == [kind : {"data"}, body : Bodies]
             \cup [kind : {"NEWKEYS", "DISCONNECT", "bad"}, body : {1}]

VARIABLES
  sent,     \* packets the server has sent
  unread,   \* bytes of them the socket has not been read for
  fin,      \* the server has ended the connection
  produced, \* packets this side has sent of its own accord
  ssh       \* struct Ssh with its BPP, see Init

vars == <<sent, unread, fin, produced, ssh>>

Init ==
  /\ sent = <<>> /\ unread = 0 /\ fin = FALSE /\ produced = 0
  /\ ssh = [s |-> TRUE,               \* ssh->s is not NULL
            bpp |-> TRUE,             \* ssh->bpp is not NULL
            layers |-> TRUE,          \* ssh->base_layer and ssh->cl are not NULL
            in_raw |-> 0, parsed |-> 0, state |-> "length", in_pq |-> <<>>,
            input_eof |-> FALSE,
            throttling |-> {},        \* channels counted in conn_throttle_count
            logically_frozen |-> FALSE, socket_frozen |-> FALSE,
            out_pq |-> 0, out_raw |-> 0, backlog |-> 0,
            throttled_all |-> FALSE, pending_close |-> FALSE,
            cbq |-> <<>>, cbcurr |-> "NULL",
            fault |-> FALSE]          \* a freed layer has been used

-----------------------------------------------------------------------------
(* Callbacks, freezing and throttling, as functions on the struct.         *)

queue_idempotent_callback(x, cb) ==
  IF cb \in Range(x.cbq) THEN x ELSE [x EXCEPT !.cbq = Append(@, cb)]

\* The walk along the queue that leaves out the callbacks cbs.
Without(q, cbs) ==
  LET kept[i \in 0..Len(q)] ==
        IF i = 0 THEN <<>>
        ELSE IF q[i] \in cbs THEN kept[i - 1] ELSE Append(kept[i - 1], q[i])
  IN  kept[Len(q)]

delete_callbacks(x, cbs) == [x EXCEPT !.cbq = Without(@, cbs)]

Return(x) == [x EXCEPT !.cbcurr = "NULL"]

\* Fault: the backlog never lets the socket go again.
ssh_check_frozen_Sticky(x) ==
  IF x.s THEN [x EXCEPT !.socket_frozen = @ \/ x.logically_frozen
                                            \/ x.in_raw > SSH_MAX_BACKLOG]
         ELSE x

ssh_check_frozen(x) ==
  LET frozen == x.logically_frozen \/ x.in_raw > SSH_MAX_BACKLOG
      y      == [x EXCEPT !.socket_frozen = frozen]
  IN  CASE ~x.s -> x
        [] x.s /\ x.socket_frozen /\ ~frozen -> queue_idempotent_callback(y, "ic_in_raw")
        [] OTHER -> y

\* Fault: the last channel to let go does not thaw the connection.
ssh_throttle_conn_Stuck(x, throttling) ==
  ssh_check_frozen([x EXCEPT !.throttling = throttling, !.logically_frozen = TRUE])

\* ssh_throttle_conn(ssh, +1) and ssh_throttle_conn(ssh, -1) by channel c
ssh_throttle_conn(x, throttling) ==
  LET y == [x EXCEPT !.throttling = throttling]
  IN  IF (throttling = {}) = (x.throttling = {})
        THEN y
        ELSE ssh_check_frozen([y EXCEPT !.logically_frozen = throttling # {}])

\* Every channel is told through ssh->cl, which must still be there.
ssh_throttle_all(x, enable) ==
  IF enable = x.throttled_all THEN x
  ELSE [x EXCEPT !.throttled_all = enable, !.fault = ~x.layers]

ssh_bpp_handle_output(x) ==
  LET y == [x EXCEPT !.out_raw = @ + x.out_pq * OutLen, !.out_pq = 0]
  IN  IF x.out_pq > 0 THEN queue_idempotent_callback(y, "ic_out_raw") ELSE y

ssh_shutdown_internal(x) ==
  [delete_callbacks(x, {"ic_process_queue"}) EXCEPT !.layers = FALSE]

ssh_shutdown(x) ==
  [delete_callbacks(ssh_shutdown_internal(x), {"ic_in_raw", "ic_out_pq"})
     EXCEPT !.bpp = FALSE, !.s = FALSE, !.in_pq = <<>>, !.out_pq = 0,
            !.in_raw = 0, !.out_raw = 0, !.backlog = 0]

\* Fault: nothing schedules the callback that closes the socket.
ssh_initiate_connection_close_Unscheduled(x) ==
  [ssh_bpp_handle_output(ssh_shutdown_internal(x)) EXCEPT !.pending_close = TRUE]

ssh_initiate_connection_close(x) ==
  queue_idempotent_callback(
    [ssh_bpp_handle_output(ssh_shutdown_internal(x)) EXCEPT !.pending_close = TRUE],
    "ic_out_raw")

\* A packet to the server; pq_push on out_pq.
SendPacket(x) == queue_idempotent_callback([x EXCEPT !.out_pq = @ + 1], "ic_out_pq")

-----------------------------------------------------------------------------
(* Socket events.                                                          *)

ssh_receive(x, n) ==
  LET y == [x EXCEPT !.in_raw = @ + n]
  IN  ssh_check_frozen(IF x.logically_frozen THEN y
                       ELSE queue_idempotent_callback(y, "ic_in_raw"))

\* The callbacks of the socket are called between top-level callbacks.
Idle == ssh.cbcurr = "NULL" /\ ~ssh.fault

FD_READ ==
  /\ Idle /\ ssh.s /\ ~ssh.socket_frozen
  /\ \E n \in 1..RecvBuf :
       /\ n <= unread
       /\ unread' = unread - n
       /\ ssh' = ssh_receive(ssh, n)
  /\ UNCHANGED <<sent, fin, produced>>

\* The end of the stream: the rest is read, frozen or not, and then
\* ssh_closing is called without an error.
FD_CLOSE ==
  /\ Idle /\ ssh.s /\ fin /\ ~ssh.input_eof
  /\ LET x == IF unread > 0 THEN ssh_receive(ssh, unread) ELSE ssh
     IN  ssh' = queue_idempotent_callback([x EXCEPT !.input_eof = TRUE], "ic_in_raw")
  /\ unread' = 0
  /\ UNCHANGED <<sent, fin, produced>>

\* ssh_closing with an error, and ssh_remote_error
NetworkError ==
  /\ Idle /\ ssh.s /\ ssh.layers
  /\ ssh' = ssh_shutdown(ssh)
  /\ UNCHANGED <<sent, unread, fin, produced>>

\* Fault: what is left in out_raw is not tried again.
ssh_sent_NoRetry(x, bufsize) ==
  LET y == [x EXCEPT !.backlog = bufsize]
  IN  IF bufsize < SSH_MAX_BACKLOG THEN ssh_throttle_all(y, FALSE) ELSE y

ssh_sent(x, bufsize) ==
  LET y == [x EXCEPT !.backlog = bufsize]
  IN  IF bufsize < SSH_MAX_BACKLOG
        THEN queue_idempotent_callback(ssh_throttle_all(y, FALSE), "ic_out_raw")
        ELSE y

FD_WRITE ==
  /\ Idle /\ ssh.s
  /\ \E bufsize \in 0..(ssh.backlog - 1) : ssh' = ssh_sent(ssh, bufsize)
  /\ UNCHANGED <<sent, unread, fin, produced>>

-----------------------------------------------------------------------------
(* The callbacks.                                                          *)

RunCallback ==
  /\ Idle /\ ssh.cbq # <<>>
  /\ ssh' = [ssh EXCEPT !.cbcurr = Head(ssh.cbq), !.cbq = Tail(ssh.cbq)]
  /\ UNCHANGED <<sent, unread, fin, produced>>

Running(cb) == ssh.cbcurr = cb /\ ~ssh.fault

\* What the BPP_READ that the coroutine has come to asks for.
Wanted == IF ssh.state = "length" THEN 1 ELSE sent[ssh.parsed + 1].body
Reading == ssh.state \in {"length", "body"}

\* pq_push on in_pq; its callback belongs to the base layer.
PushPacket(x, kind) ==
  LET y == [x EXCEPT !.in_pq = Append(@, kind)]
  IN  IF x.layers THEN queue_idempotent_callback(y, "ic_process_queue")
                  ELSE [y EXCEPT !.fault = TRUE]

\* A BPP_READ that succeeds, and what is done up to the next one.
BppRead ==
  /\ Running("ic_in_raw") /\ Reading /\ ssh.in_raw >= Wanted
  /\ LET x == ssh_check_frozen([ssh EXCEPT !.in_raw = @ - Wanted])
         y == [x EXCEPT !.parsed = @ + 1, !.state = "length"]
         kind == sent[ssh.parsed + 1].kind
     IN  ssh' = CASE ssh.state = "length" -> [x EXCEPT !.state = "body"]
                  [] ssh.state = "body" /\ kind = "bad" ->
                       Return(ssh_check_frozen(
                         IF y.layers THEN ssh_initiate_connection_close(y) ELSE y))
                  [] ssh.state = "body" /\ kind = "NEWKEYS" ->
                       PushPacket([y EXCEPT !.state = "pending_newkeys"], kind)
                  [] OTHER -> PushPacket(y, kind)
  /\ UNCHANGED <<sent, unread, fin, produced>>

\* The coroutine waits, for more input or for the new keys.
BppWait ==
  /\ Running("ic_in_raw")
  /\ \/ ssh.state = "pending_newkeys"
     \/ Reading /\ ssh.in_raw < Wanted /\ ~ssh.input_eof
  /\ ssh' = Return(ssh_check_frozen(ssh))
  /\ UNCHANGED <<sent, unread, fin, produced>>

\* The input has ended: wait for in_pq to be empty, then ssh_remote_error or,
\* after our own close, ssh_remote_eof.
BppEof ==
  /\ Running("ic_in_raw")
  /\ \/ ssh.state = "eof"
     \/ Reading /\ ssh.in_raw < Wanted /\ ssh.input_eof
  /\ ssh' = IF ssh.in_pq # <<>>
              THEN Return(ssh_check_frozen([ssh EXCEPT !.state = "eof"]))
              ELSE Return(ssh_shutdown(ssh))
  /\ UNCHANGED <<sent, unread, fin, produced>>

ssh2_bpp_new_incoming_crypto(x) ==
  queue_idempotent_callback([x EXCEPT !.state = "length"], "ic_in_raw")

\* What the protocol layers do about a packet: take it, with or without an
\* answer; throttle the connection for a channel; end the session.
TakeData(x) ==
  {x} \cup (IF produced < MaxOut THEN {SendPacket(x)} ELSE {})
      \cup {ssh_throttle_conn(x, x.throttling \cup {c}) : c \in Channels \ x.throttling}
      \cup {Return(ssh_initiate_connection_close(x))}

ProcessPacket ==
  /\ Running("ic_process_queue") /\ ssh.in_pq # <<>>
  /\ LET x == [ssh EXCEPT !.in_pq = Tail(@)]
     IN  \/ Head(ssh.in_pq) = "data" /\ ssh' \in TakeData(x)
         \/ Head(ssh.in_pq) = "NEWKEYS" /\ ssh' = ssh2_bpp_new_incoming_crypto(x)
         \/ Head(ssh.in_pq) = "DISCONNECT" /\ ssh' = Return(ssh_shutdown(ssh))
  /\ produced' = IF ssh'.out_pq > ssh.out_pq THEN produced + 1 ELSE produced
  /\ UNCHANGED <<sent, unread, fin>>

ProcessDone ==
  /\ Running("ic_process_queue") /\ ssh.in_pq = <<>>
  /\ ssh' = Return(ssh)
  /\ UNCHANGED <<sent, unread, fin, produced>>

FormatPackets ==
  /\ Running("ic_out_pq")
  /\ ssh' = Return(ssh_bpp_handle_output(ssh))
  /\ UNCHANGED <<sent, unread, fin, produced>>

\* One turn of the loop: a block of out_raw goes to sk_write, which sends what
\* it can if nothing is waiting.
WriteRaw ==
  /\ Running("ic_out_raw") /\ ssh.s
  /\ \E n \in 1..ssh.out_raw :
     \E backlog \in (IF ssh.backlog > 0 THEN {ssh.backlog + n} ELSE 0..n) :
       LET x == [ssh EXCEPT !.out_raw = @ - n, !.backlog = backlog]
       IN  ssh' = IF backlog > SSH_MAX_BACKLOG
                    THEN Return(ssh_throttle_all(x, TRUE)) ELSE x
  /\ UNCHANGED <<sent, unread, fin, produced>>

WriteDone ==
  /\ Running("ic_out_raw") /\ (ssh.s => ssh.out_raw = 0)
  /\ LET x == ssh_check_frozen(ssh)
     IN  ssh' = Return(IF ssh.s /\ ssh.pending_close
                         THEN [x EXCEPT !.s = FALSE, !.backlog = 0] ELSE x)
  /\ UNCHANGED <<sent, unread, fin, produced>>

-----------------------------------------------------------------------------
(* The local side and the server.                                          *)

\* Data from a local stream, which ssh_throttle_all stops.
LocalData ==
  /\ Idle /\ ssh.layers /\ ~ssh.throttled_all /\ produced < MaxOut
  /\ produced' = produced + 1
  /\ ssh' = SendPacket(ssh)
  /\ UNCHANGED <<sent, unread, fin>>

\* A channel has passed its backlog on.
Unthrottle ==
  /\ Idle /\ ssh.layers
  /\ \E c \in ssh.throttling : ssh' = ssh_throttle_conn(ssh, ssh.throttling \ {c})
  /\ UNCHANGED <<sent, unread, fin, produced>>

ssh_user_close ==
  /\ Idle /\ ssh.layers
  /\ ssh' = ssh_initiate_connection_close(ssh)
  /\ UNCHANGED <<sent, unread, fin, produced>>

\* What the server does once the socket is closed reaches nobody.
ServerSends ==
  /\ ssh.s /\ ~fin /\ Len(sent) < MaxPackets
  /\ \E p \in Packets : sent' = Append(sent, p) /\ unread' = unread + 1 + p.body
  /\ UNCHANGED <<fin, produced, ssh>>

ServerEnds ==
  /\ ssh.s /\ ~fin /\ fin' = TRUE
  /\ UNCHANGED <<sent, unread, produced, ssh>>

Callback ==
  \/ RunCallback \/ BppRead \/ BppWait \/ BppEof \/ ProcessPacket \/ ProcessDone
  \/ FormatPackets \/ WriteRaw \/ WriteDone

Next ==
  \/ Callback
  \/ FD_READ \/ FD_CLOSE \/ FD_WRITE \/ NetworkError
  \/ LocalData \/ Unthrottle \/ ssh_user_close
  \/ ServerSends \/ ServerEnds

\* The event loop runs every callback and every socket event, the server takes
\* what is sent to it, and a channel passes on what it holds.
Fairness ==
  /\ WF_vars(Callback) /\ WF_vars(FD_READ) /\ WF_vars(FD_CLOSE)
  /\ WF_vars(FD_WRITE) /\ WF_vars(Unthrottle)

Spec == Init /\ [][Next]_vars /\ Fairness

-----------------------------------------------------------------------------
(* Properties.                                                             *)

\* The struct is well formed, the BPP outlives the layers and the socket, the
\* callback queue holds each callback once and none of a freed object.
TypeOK ==
  /\ sent \in Seq(Packets) /\ unread \in Nat /\ fin \in BOOLEAN /\ produced \in 0..MaxOut
  /\ ssh.in_raw \in Nat /\ ssh.parsed \in 0..Len(sent)
  /\ ssh.state \in {"length", "body", "pending_newkeys", "eof"}
  /\ ssh.in_pq \in Seq({"data", "NEWKEYS", "DISCONNECT"})
  /\ ssh.throttling \subseteq Channels
  /\ ssh.out_pq \in Nat /\ ssh.out_raw \in Nat /\ ssh.backlog \in Nat
  /\ IsInjective(ssh.cbq) /\ Range(ssh.cbq) \subseteq Callbacks
  /\ ssh.layers \/ ssh.s => ssh.bpp
  /\ "ic_process_queue" \in Range(ssh.cbq) => ssh.layers
  /\ "ic_in_raw" \in Range(ssh.cbq) => ssh.bpp

Huge == ssh.state = "body" /\ Wanted > SSH_MAX_BACKLOG

\* Between callbacks, unless ic_in_raw is queued, no read could go on with what
\* is in in_raw, throttled channel or not, and the socket is frozen only for a
\* throttled channel, for the new keys, or under a packet longer than the
\* backlog (ssh_check_frozen, ssh_receive, BPP_READ).
NoInputStall ==
  Idle /\ ssh.s /\ ~ssh.pending_close /\ ssh.state # "eof"
       /\ "ic_in_raw" \notin Range(ssh.cbq) =>
    /\ Reading => ssh.in_raw < Wanted
    /\ ssh.socket_frozen => \/ ssh.logically_frozen \/ Huge
                            \/ ssh.state = "pending_newkeys"

\* Local streams are stopped, and output is left in out_raw, only while the
\* socket still has enough to send to report back through ssh_sent.
NoOutputStall ==
  Idle /\ ssh.s =>
    /\ ssh.throttled_all => ssh.backlog >= SSH_MAX_BACKLOG
    /\ ssh.out_raw > 0 =>
         "ic_out_raw" \in Range(ssh.cbq) \/ ssh.backlog >= SSH_MAX_BACKLOG

Over == ~ssh.s \/ ssh.fault

\* A packet that arrives is parsed, whatever the socket delivers at a time and
\* whichever channel throttles meanwhile, unless the connection ends or a
\* packet longer than the backlog is in the way.
PacketsParsed ==
  \A k \in 1..MaxPackets : Len(sent) >= k ~> ssh.parsed >= k \/ Over \/ Huge

\* What a close does not survive, for ssh->cl is NULL by then and the base layer
\* freed: output that backs up, when ssh_throttle_all() tells every channel, and a
\* packet parsed behind the close, when in_pq wakes its layer.
BackedUp == ssh.throttled_all \/ ssh.backlog > SSH_MAX_BACKLOG
Overtaken == ssh.fault /\ (BackedUp \/ ssh.in_pq # <<>>)

\* While the socket keeps up a close leads to the socket being closed
\* (ssh_initiate_connection_close), unless it is overtaken by one of the two.
\* Closed is not sent: a backlog up to the limit is dropped with the socket.
CloseCompletes ==
  ssh.pending_close /\ ~ssh.fault /\ ~BackedUp ~> ~ssh.s \/ Overtaken

\* "So first wait for the queue to have been processed" (ssh2bpp.c): an end of
\* the stream is reported in the end, so the connection is shut down.
EofReported == ssh.input_eof ~> Over
=============================================================================
