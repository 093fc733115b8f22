------------------------------ MODULE SshShare ------------------------------
(***************************************************************************)
(* Connection sharing (sshshare.c): one PuTTY (the upstream) holds the SSH *)
(* connection, other processes (downstreams) connect to it through a local *)
(* socket and speak the bare connection protocol.  The upstream rewrites   *)
(* channel numbers, keeps what it needs to clean up after a downstream     *)
(* that goes away, and matches the answers to global requests with the     *)
(* downstream that made them.  The part of ssh2connection.c that hands     *)
(* packets over is here too: the table of channels, the remote forwardings *)
(* and the list of outstanding global requests.                            *)
(*                                                                         *)
(* The upstream is the record `up'; each C function is an operator on it.  *)
(* The server is any conforming one.  A downstream may send any packet the *)
(* protocol allows it, at any time: its own socket's delay only makes it   *)
(* later.  X11 channels (xchannels), agent forwarding, data and window     *)
(* messages (passed through unchanged) and the version exchange are left   *)
(* out.                                                                    *)
(***************************************************************************)
EXTENDS Integers, Sequences, FiniteSets, SequencesExt, TLC

CONSTANTS Downs,        \* downstream connections (each a struct of its own)
          Ports,        \* listening ports a downstream may ask the server for
          MaxUpId,      \* upstream channel ids are 0..MaxUpId
          MaxSrvId,     \* server channel ids are 0..MaxSrvId
          MaxOps,       \* channel opens by either side and global requests
          None

ASSUME ConstAssumption ==
    /\ IsFiniteSet(Ports)
    /\ MaxUpId \in Nat /\ MaxSrvId \in Nat /\ MaxOps \in Nat
    /\ None \notin Downs /\ None \notin Nat
    /\ None \notin [type : {"forward", "cancel"}, p : Ports]

VARIABLES up,      \* the upstream: [cs, chan, rpf, globreq, drained, fault]
          toSrv, fromSrv,   \* the two directions of the SSH connection
          srv,     \* the server: its channels and listening ports
          ops,     \* how many opens and requests there have been
          gentle   \* each downstream waits for the answer to a global request
                   \* before it makes another, or goes with a cancel unanswered
vars == <<up, toSrv, fromSrv, srv, ops, gentle>>

\* Downstreams are interchangeable.
Symm == Permutations(Downs)

UpIds == 0..MaxUpId
SrvIds == 0..MaxSrvId

Fwd0 == [st |-> "none", rpf |-> FALSE]
ChanStates == {"OPEN", "SENT_CLOSE", "RCVD_CLOSE", "UNACKNOWLEDGED"}

\* What the server sees.  m.d is the downstream on whose behalf it was sent, and
\* m.us in a CHANNEL_CLOSE to the server the upstream's number of that channel:
\* for the properties only.
Msg(t, d) == [t |-> t, d |-> d, us |-> None, sid |-> None, p |-> None, wr |-> FALSE]
CloseMsg(d, c) == [Msg("close", d) EXCEPT !.sid = c.sid, !.us = c.us]

\* A pointer to freed memory is used, or an assertion fails: nothing is known
\* about the upstream from then on.
Fault(u, why) == IF u.fault = "none" THEN [u EXCEPT !.fault = why] ELSE u
Send(u, m) == [u EXCEPT !.out = Append(@, m)]

---------------------------------------------------------------------------
(* The connection layer, as sharing uses it.                               *)

\* ssh2_alloc_sharing_channel(): the lowest free number (alloc_channel_id).
ssh2_alloc_sharing_channel(u, d) ==
    [u EXCEPT !.chan = [i \in UpIds |->
        IF @[i] = None /\ \A j \in 0..i - 1 : @[j] # None THEN d ELSE @[i]]]
FreeUpId(u) == CHOOSE i \in UpIds : u.chan[i] = None /\ \A j \in 0..i-1 : u.chan[j] # None

\* ssh2_queue_global_request_handler(): once the list has run empty its tail
\* pointer dangles.  The list is taken at its best here: the next pointer of an
\* entry, never initialised, is NULL by chance (RemoteForward has the others).
QueueGlobal(u, d) ==
    IF u.drained THEN Fault(u, "list")
    ELSE [u EXCEPT !.globreq = Append(@, d)]

\* ssh2_rportfwd_remove() through the pointer the share_forwarding keeps.
RportfwdRemove(u, d, p) ==
    IF ~u.cs[d].fwds[p].rpf THEN Fault(u, "rpf")
    ELSE [u EXCEPT !.rpf[p] = None, !.cs[d].fwds[p].rpf = FALSE]

\* A downstream's own record of a request it has made.  Its globreq_tail is
\* tested but never assigned, so a new record replaces the one at the head.
Enqueue(u, d, type, p) == [u EXCEPT !.cs[d].globreq_head = [type |-> type, p |-> p]]

---------------------------------------------------------------------------
(* sshshare.c                                                              *)

share_remove_channel(u, d, c) ==
    [u EXCEPT !.cs[d].chans = @ \ {c}, !.chan[c.us] = None]
SetState(u, d, c, st) ==
    [u EXCEPT !.cs[d].chans = (@ \ {c}) \cup {[c EXCEPT !.st = st]}]

\* share_try_cleanup(), one part after the other: refuse the server's open
\* requests, close the channels, cancel the forwardings, and free the struct
\* when nothing is left to wait for.
CleanHalf(u, d) ==
    LET hs == SetToSeq(u.cs[d].half)
    IN  [u EXCEPT !.out = @ \o [i \in 1..Len(hs) |-> [Msg("fail", d) EXCEPT !.sid = hs[i]]],
                  !.cs[d].half = {}]
CleanChan_Fault(u, d) == u
CleanChan(u, d) ==
    LET cs   == u.cs[d].chans
        shut == SetToSeq({c \in cs : c.st \in {"OPEN", "RCVD_CLOSE"}})
        gone == {c \in cs : c.st = "RCVD_CLOSE"}
    IN  [u EXCEPT !.out = @ \o [i \in 1..Len(shut) |-> CloseMsg(d, shut[i])],
                  !.cs[d].chans = {IF c.st = "OPEN" THEN [c EXCEPT !.st = "SENT_CLOSE"]
                                   ELSE c : c \in cs \ gone},
                  !.chan = [i \in UpIds |-> IF \E c \in gone : c.us = i THEN None ELSE @[i]]]
CleanFwd(u, d) ==
    LET fw     == u.cs[d].fwds
        active == {p \in Ports : fw[p].st = "active"}
        ps     == SetToSeq(active)
        v      == IF \E p \in active : ~fw[p].rpf THEN Fault(u, "rpf") ELSE u
    IN  [v EXCEPT !.out = @ \o [i \in 1..Len(ps) |-> [Msg("cancel", d) EXCEPT !.p = ps[i]]],
                  !.rpf = [p \in Ports |-> IF p \in active THEN None ELSE @[p]],
                  !.cs[d].fwds = [p \in Ports |-> IF p \in active THEN Fwd0 ELSE @[p]]]
Idle_Fault(c) == c.half = {} /\ c.chans = {}
Idle(c) == c.half = {} /\ c.chans = {} /\ \A p \in Ports : c.fwds[p].st = "none"
share_try_cleanup(u, d) ==
    LET v == CleanFwd(CleanChan(CleanHalf(u, d), d), d)
    IN  IF Idle(v.cs[d]) THEN [v EXCEPT !.cs[d].st = "freed"] ELSE v
share_begin_cleanup(u, d) == share_try_cleanup([u EXCEPT !.cs[d].st = "dead"], d)
RetryIfDead(u, d) == IF u.cs[d].st = "dead" THEN share_try_cleanup(u, d) ELSE u

\* share_got_pkt_from_server(), the answer to a global request.
GlobreqReply_Fault(u, d, ok) ==
    LET g == u.cs[d].globreq_head
        v == [u EXCEPT !.cs[d].globreq_head = None]
        w == IF ok THEN [v EXCEPT !.cs[d].fwds[g.p].st = "active"]
                   ELSE [v EXCEPT !.cs[d].fwds[g.p] = Fwd0]
    IN  IF g = None THEN Fault(u, "globreq") ELSE RetryIfDead(w, d)
GlobreqReply(u, d, ok) ==
    LET g == u.cs[d].globreq_head
        v == [u EXCEPT !.cs[d].globreq_head = None]
        w == IF g.type = "forward" /\ ok THEN [v EXCEPT !.cs[d].fwds[g.p].st = "active"]
             ELSE [v EXCEPT !.cs[d].fwds[g.p] = Fwd0]
    IN  IF g = None THEN Fault(u, "globreq")
        ELSE IF g.type = "cancel" /\ ~ok THEN RetryIfDead(v, d)
        ELSE IF u.cs[d].fwds[g.p].st = "none" THEN Fault(u, "fwd")
        ELSE RetryIfDead(w, d)

\* ... and a message about channel us.
ChannelMsg(u, d, m) ==
    LET cc == {c \in u.cs[d].chans : c.us = m.us}
        c  == CHOOSE x \in cc : TRUE
    IN  IF cc = {} THEN u
        ELSE CASE m.t = "conf" /\ c.st = "UNACKNOWLEDGED" ->
                    RetryIfDead([u EXCEPT !.cs[d].chans = (@ \ {c}) \cup
                        {[us |-> c.us, sid |-> m.sid, st |-> "OPEN"]}], d)
               [] m.t = "fail" -> share_remove_channel(u, d, c)
               [] m.t = "close" /\ c.st = "SENT_CLOSE" ->
                    RetryIfDead(share_remove_channel(u, d, c), d)
               [] m.t = "close" /\ c.st # "SENT_CLOSE" -> SetState(u, d, c, "RCVD_CLOSE")
               [] OTHER -> u

---------------------------------------------------------------------------
(* The upstream's steps.                                                   *)

Running == up.fault = "none" /\ srv.content

\* Apply an operator's result: what it sent goes onto the wire.
Apply(u) == /\ up' = [u EXCEPT !.out = << >>]
            /\ toSrv' = toSrv \o u.out

\* The channel a packet from the server names, or the list of outstanding
\* global requests, tells whom it is for; a freed struct must not be named.
ToDownstream(u, d, v) == IF u.cs[d].st = "freed" THEN Fault(u, "cs") ELSE v

\* ssh2_connection_filter_queue(): CHANNEL_OPEN for a forwarded port.  For a
\* downstream the packet is passed on but not popped, so it comes round again
\* with its contents consumed: type "" and channel 0, refused as unsupported.
RecvOpen(u, m) ==
    LET d == u.rpf[m.p] IN
    IF d = None THEN Send(u, [Msg("fail", None) EXCEPT !.sid = m.sid])
    ELSE Send(ToDownstream(u, d, [u EXCEPT !.cs[d].half = @ \cup {m.sid}]),
              [Msg("fail", None) EXCEPT !.sid = 0])

RecvReply(u, m) ==
    LET d == Head(u.globreq)
        v == ToDownstream(u, d, GlobreqReply(u, d, m.t = "success"))
    IN  [v EXCEPT !.globreq = Tail(@), !.drained = (Tail(u.globreq) = << >>)]

UpRecv ==
    /\ Running /\ fromSrv # << >>
    /\ fromSrv' = Tail(fromSrv)
    /\ LET m == Head(fromSrv) IN
       \/ m.t = "open" /\ Apply(RecvOpen(up, m))
       \/ m.t \in {"success", "failure"} /\ up.globreq # << >> /\ Apply(RecvReply(up, m))
       \/ /\ m.t \in {"conf", "fail", "close"} /\ up.chan[m.us] # None
          /\ LET d == up.chan[m.us]
             IN  Apply(ToDownstream(up, d, ChannelMsg(up, d, m)))
    /\ UNCHANGED <<srv, ops, gentle>>

\* share_listen_accepting().
Connect(d) ==
    /\ Running /\ up.cs[d].st = "none"
    /\ up' = [up EXCEPT !.cs[d].st = "live"]
    /\ UNCHANGED <<toSrv, fromSrv, srv, ops, gentle>>

Quiet(d) == up.cs[d].globreq_head = None

\* share_closing(): the socket closes, at any time.
Lost(d) ==
    /\ Running /\ up.cs[d].st = "live"
    /\ Apply(share_begin_cleanup(up, d))
    /\ gentle' = (gentle /\ (Quiet(d) \/ up.cs[d].globreq_head.type = "forward"))
    /\ UNCHANGED <<fromSrv, srv, ops>>

\* share_got_pkt_from_downstream(): CHANNEL_OPEN.
DownOpen(d) ==
    /\ Running /\ up.cs[d].st = "live" /\ ops < MaxOps
    /\ \E i \in UpIds : up.chan[i] = None
    /\ LET us == FreeUpId(up)
           u  == ssh2_alloc_sharing_channel(up, d)
           c  == [us |-> us, sid |-> None, st |-> "UNACKNOWLEDGED"]
       IN  Apply(Send([u EXCEPT !.cs[d].chans = @ \cup {c}],
                      [Msg("open", d) EXCEPT !.us = us]))
    /\ ops' = ops + 1
    /\ UNCHANGED <<fromSrv, srv, gentle>>

\* ... OPEN_CONFIRMATION and OPEN_FAILURE for a channel the server opened.
DownConfirm(d) == \E h \in up.cs[d].half :
    /\ Running /\ up.cs[d].st = "live"
    /\ \E i \in UpIds : up.chan[i] = None
    /\ LET us == FreeUpId(up)
           u  == ssh2_alloc_sharing_channel(up, d)
           c  == [us |-> us, sid |-> h, st |-> "OPEN"]
       IN  Apply(Send([u EXCEPT !.cs[d].chans = @ \cup {c}, !.cs[d].half = @ \ {h}],
                      [Msg("conf", d) EXCEPT !.us = us, !.sid = h]))
    /\ UNCHANGED <<fromSrv, srv, ops, gentle>>
DownRefuse(d) == \E h \in up.cs[d].half :
    /\ Running /\ up.cs[d].st = "live"
    /\ Apply(Send([up EXCEPT !.cs[d].half = @ \ {h}], [Msg("fail", d) EXCEPT !.sid = h]))
    /\ UNCHANGED <<fromSrv, srv, ops, gentle>>

\* ... CHANNEL_CLOSE, once per channel.
DownClose_Fault(d) == \E c \in up.cs[d].chans :
    /\ Running /\ up.cs[d].st = "live" /\ c.st \in {"OPEN", "RCVD_CLOSE"}
    /\ Apply(share_remove_channel(Send(up, CloseMsg(d, c)), d, c))
    /\ UNCHANGED <<fromSrv, srv, ops, gentle>>
DownClose(d) == \E c \in up.cs[d].chans :
    /\ Running /\ up.cs[d].st = "live" /\ c.st \in {"OPEN", "RCVD_CLOSE"}
    /\ LET u == Send(up, CloseMsg(d, c))
       IN  Apply(IF c.st = "RCVD_CLOSE" THEN share_remove_channel(u, d, c)
                 ELSE SetState(u, d, c, "SENT_CLOSE"))
    /\ UNCHANGED <<fromSrv, srv, ops, gentle>>

Request(u, d, type, p) ==
    QueueGlobal(Send(u, [Msg(type, d) EXCEPT !.p = p, !.wr = TRUE]), d)

\* ... GLOBAL_REQUEST "tcpip-forward": refused locally if somebody already
\* has the port (no change then); a forwarding of this downstream whose cancel is outstanding
\* makes share_add_forwarding fail after the request has been sent.
DownForward(d, p) ==
    /\ Running /\ up.cs[d].st = "live" /\ ops < MaxOps
    /\ up.rpf[p] = None
    /\ ops' = ops + 1
    /\ LET u == Request([up EXCEPT !.rpf[p] = d], d, "forward", p)
       IN  Apply(IF u.cs[d].fwds[p].st # "none" THEN u
                 ELSE Enqueue([u EXCEPT !.cs[d].fwds[p] = [st |-> "waiting", rpf |-> TRUE]],
                              d, "forward", p))
    /\ gentle' = (gentle /\ Quiet(d))
    /\ UNCHANGED <<fromSrv, srv>>

\* ... and "cancel-tcpip-forward", refused locally if there is nothing to cancel.
DownCancel(d, p) ==
    /\ Running /\ up.cs[d].st = "live" /\ ops < MaxOps
    /\ up.cs[d].fwds[p].st # "none"
    /\ ops' = ops + 1
    /\ Apply(Enqueue(Request(RportfwdRemove(up, d, p), d, "cancel", p), d, "cancel", p))
    /\ gentle' = (gentle /\ Quiet(d))
    /\ UNCHANGED <<fromSrv, srv>>

---------------------------------------------------------------------------
(* A conforming server.                                                    *)

Free0 == [st |-> "free", us |-> None, d |-> None, sentClose |-> FALSE]
Reply(m) == fromSrv' = Append(fromSrv, m)
Objects == srv' = [srv EXCEPT !.content = FALSE] /\ UNCHANGED fromSrv

SrvRecv ==
    /\ Running /\ toSrv # << >>
    /\ toSrv' = Tail(toSrv)
    /\ LET m == Head(toSrv)
           s == srv.ch[m.sid]
       IN
       \/ /\ m.t = "open"
          /\ \/ Reply([Msg("fail", m.d) EXCEPT !.us = m.us]) /\ UNCHANGED srv
             \/ \E i \in SrvIds :
                 /\ srv.ch[i].st = "free"
                 /\ srv' = [srv EXCEPT !.ch[i] =
                        [st |-> "open", us |-> m.us, d |-> m.d, sentClose |-> FALSE]]
                 /\ Reply([Msg("conf", m.d) EXCEPT !.us = m.us, !.sid = i])
       \/ /\ m.t = "conf"
          /\ IF s.st # "opening" THEN Objects
             ELSE /\ srv' = [srv EXCEPT !.ch[m.sid] =
                        [st |-> "open", us |-> m.us, d |-> m.d, sentClose |-> FALSE]]
                  /\ UNCHANGED fromSrv
       \/ /\ m.t = "fail"
          /\ IF s.st # "opening" THEN Objects
             ELSE srv' = [srv EXCEPT !.ch[m.sid] = Free0] /\ UNCHANGED fromSrv
       \/ /\ m.t = "close"
          /\ IF s.st # "open" THEN Objects
             ELSE /\ srv' = [srv EXCEPT !.ch[m.sid] = Free0]
                  /\ IF s.sentClose THEN UNCHANGED fromSrv
                     ELSE Reply([Msg("close", m.d) EXCEPT !.us = s.us])
       \/ /\ m.t = "forward"
          /\ \/ Reply([Msg("failure", m.d) EXCEPT !.p = m.p]) /\ UNCHANGED srv
             \/ /\ srv.fwd[m.p] = None
                /\ srv' = [srv EXCEPT !.fwd[m.p] = m.d]
                /\ Reply([Msg("success", m.d) EXCEPT !.p = m.p])
       \/ /\ m.t = "cancel"
          /\ srv' = [srv EXCEPT !.fwd[m.p] = None]
          /\ IF m.wr THEN Reply([Msg(IF srv.fwd[m.p] = None THEN "failure" ELSE "success",
                                     m.d) EXCEPT !.p = m.p])
             ELSE UNCHANGED fromSrv
    /\ UNCHANGED <<up, ops, gentle>>

\* Somebody connects to a forwarded port, or a channel's far end closes.
SrvOpen(p) == \E i \in SrvIds :
    /\ Running /\ srv.fwd[p] # None /\ srv.ch[i].st = "free" /\ ops < MaxOps
    /\ srv' = [srv EXCEPT !.ch[i] = [Free0 EXCEPT !.st = "opening", !.d = srv.fwd[p]]]
    /\ Reply([Msg("open", srv.fwd[p]) EXCEPT !.sid = i, !.p = p])
    /\ ops' = ops + 1
    /\ UNCHANGED <<up, toSrv, gentle>>
SrvClose == \E i \in SrvIds :
    /\ Running /\ srv.ch[i].st = "open" /\ ~srv.ch[i].sentClose
    /\ srv' = [srv EXCEPT !.ch[i].sentClose = TRUE]
    /\ Reply([Msg("close", srv.ch[i].d) EXCEPT !.us = srv.ch[i].us])
    /\ UNCHANGED <<up, toSrv, ops, gentle>>

Init ==
    /\ up = [cs |-> [d \in Downs |-> [st |-> "none", half |-> {}, chans |-> {},
                        fwds |-> [p \in Ports |-> Fwd0], globreq_head |-> None]],
             chan |-> [i \in UpIds |-> None], rpf |-> [p \in Ports |-> None],
             globreq |-> << >>, drained |-> FALSE, out |-> << >>, fault |-> "none"]
    /\ toSrv = << >> /\ fromSrv = << >>
    /\ srv = [ch |-> [i \in SrvIds |-> Free0], fwd |-> [p \in Ports |-> None],
              content |-> TRUE]
    /\ ops = 0 /\ gentle = TRUE

Next ==
    \/ UpRecv \/ SrvRecv \/ SrvClose
    \/ \E d \in Downs : \/ Connect(d) \/ Lost(d) \/ DownOpen(d) \/ DownConfirm(d)
                        \/ DownRefuse(d) \/ DownClose(d)
                        \/ \E p \in Ports : DownForward(d, p) \/ DownCancel(d, p)
    \/ \E p \in Ports : SrvOpen(p)

Spec == Init /\ [][Next]_vars
---------------------------------------------------------------------------
(* Properties.                                                             *)

TypeOK ==
    /\ \A d \in Downs :
        LET c == up.cs[d] IN
        /\ c.st \in {"none", "live", "dead", "freed"}
        /\ c.half \subseteq SrvIds
        /\ \A h \in c.chans : /\ h.us \in UpIds /\ h.st \in ChanStates
                              /\ h.sid \in SrvIds <=> h.st # "UNACKNOWLEDGED"
        /\ \A p \in Ports : c.fwds[p].st \in {"none", "waiting", "active"}
    /\ up.chan \in [UpIds -> Downs \cup {None}]
    /\ up.rpf \in [Ports -> Downs \cup {None}]
    /\ up.out = << >>

Has(q, m) == \E i \in 1..Len(q) : q[i] = m

\* Every message on its way from the server about a channel will find the
\* record of exactly the downstream it is meant for: no upstream channel id is
\* reused before both sides have closed it, and no struct is freed early
\* (share_find_channel_by_upstream, ssh2_connection_filter_queue).
NeverMisrouted ==
    Running => \A i \in 1..Len(fromSrv) :
        LET m == fromSrv[i] IN m.t \in {"conf", "fail", "close"} =>
            /\ up.chan[m.us] = m.d
            /\ up.cs[m.d].st \in {"live", "dead"}
            /\ \E c \in up.cs[m.d].chans : c.us = m.us

\* When the record of a downstream is freed the server keeps nothing on its
\* behalf that it has not been told to give up: channels are closed, listening
\* ports cancelled, and no connection it has announced is in the hands of
\* nobody (it may be another downstream's that has asked for the port since)
\* (share_try_cleanup).
NothingLeftBehind ==
    Running /\ gentle =>
        /\ \A d \in Downs : up.cs[d].st = "freed" =>
            /\ \A i \in SrvIds : srv.ch[i].st = "open" /\ srv.ch[i].d = d =>
                Has(toSrv, [Msg("close", d) EXCEPT !.sid = i, !.us = srv.ch[i].us])
            /\ \A p \in Ports : srv.fwd[p] = d => Has(toSrv, [Msg("cancel", d) EXCEPT !.p = p])
            /\ \A k \in 1..Len(toSrv) : toSrv[k].d = d => toSrv[k].t \notin {"open", "forward"}
        /\ \A i \in SrvIds : srv.ch[i].st = "opening" =>
            \/ \E k \in 1..Len(toSrv) : toSrv[k].t \in {"conf", "fail"} /\ toSrv[k].sid = i
            \/ \E k \in 1..Len(fromSrv) : fromSrv[k].t = "open" /\ fromSrv[k].sid = i
            \/ \E d \in Downs : i \in up.cs[d].half /\ up.cs[d].st \in {"live", "dead"}

\* What is outstanding between upstream and server, in the order in which it
\* will be dealt with: answers to global requests, then the requests.
InFlight == fromSrv \o toSrv
Requests == {i \in 1..Len(InFlight) : InFlight[i].t \in {"success", "failure"} \/ InFlight[i].wr}

\* As long as every downstream makes one global request at a time, and does
\* not disappear while a cancellation is outstanding, no freed struct is used,
\* no assertion of sshshare.c fails (the list of ssh2connection.c is another
\* matter, see RemoteForward), and the list of outstanding requests names once,
\* in the order of the answers to come, every downstream that waits for one.
GentleIsSafe ==
    /\ gentle => up.fault \in {"none", "list"}
    /\ gentle /\ Running =>
        /\ \A k, l \in 1..Len(up.globreq) : up.globreq[k] = up.globreq[l] => k = l
        /\ \A k \in 1..Len(up.globreq) : \E i \in Requests : InFlight[i].d = up.globreq[k]
        /\ \A i \in Requests : \E k \in 1..Len(up.globreq) :
            /\ up.globreq[k] = InFlight[i].d
            /\ \A j \in Requests : i < j =>
                \E l \in k + 1..Len(up.globreq) : up.globreq[l] = InFlight[j].d

\* Nothing a downstream that has gone still holds can be waited for in vain: when
\* nothing is under way in either direction, it has no channel, no connection
\* of the server's and no forwarding left.
Emptied ==
    Running /\ toSrv = << >> /\ fromSrv = << >> =>
        \A d \in Downs : up.cs[d].st = "dead" => Idle(up.cs[d])

\* The step that takes the last of them frees the struct, unless it is a refusal
\* (OPEN_FAILURE): share_got_pkt_from_server() then removes the channel without
\* another share_try_cleanup(), nothing comes that would call it again, and the
\* struct stays as long as the upstream, which never hears that it has no more
\* downstreams.
Refused(d) == /\ fromSrv # << >> /\ Head(fromSrv).t = "fail"
              /\ up.chan[Head(fromSrv).us] = d
Leftover(d) == up.cs[d].st = "dead" /\ Idle(up.cs[d])
FreesStep == \A d \in Downs : Running' /\ Leftover(d)' => Leftover(d) \/ Refused(d)

\* Cleaning up after a downstream (share_try_cleanup): what it held goes, and the
\* struct with it but for the refusal.  Like the others this is about an upstream that runs: a
\* downstream lost with a cancellation unanswered makes share_try_cleanup() use
\* a freed rportfwd (the fault "rpf"), and that is the end of it.
GoneIsFreed == [][FreesStep /\ Emptied']_vars

\* "abandon our own channel-open procedure and just pass the message on to
\* sshshare.c" (ssh2connection.c:393): the upstream itself does not answer a
\* CHANNEL_OPEN for a downstream, so the server sees no violation of the protocol.
ServerContent == srv.content
=============================================================================
