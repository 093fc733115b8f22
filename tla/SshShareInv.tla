---------------------------- MODULE SshShareInv -----------------------------
(***************************************************************************)
(* The inductive invariant of SshShare, which SshShareProofs proves, and   *)
(* the words in which the lemmas there describe what a step does.  The     *)
(* invariant speaks of one channel number and of one port at a time: who   *)
(* owns it, what the record says, which messages about it are on the two   *)
(* wires and where, and what the server holds.                             *)
(***************************************************************************)
EXTENDS SshShare

---------------------------------------------------------------------------
(* One channel number u of the upstream, and all that is known of it: its  *)
(* owner o, the state s of the record and the server's number i in it, the *)
(* messages about it on the way to the server (T) and from the server (F), *)
(* each with its place n in the order of sending, and the server's         *)
(* channels sc.                                                            *)

Birth(x) == x.m.t \in {"open", "conf"}
Conf(x) == x.m.t = "conf"
Final(x) == x.m.t \in {"fail", "close"}
Close(x, h) == x.m.t = "close" /\ x.m.sid = h
Held(c, u) == c.st = "open" /\ c.us = u
Live(c, u) == Held(c, u) /\ ~c.sentClose

\* The server has not yet heard of the channel, or of the downstream's answer.
BirthU(u, o, s, i, T, F, sc) ==
    \A x \in T : Birth(x) =>
        /\ o = x.m.d
        /\ x.m.t = "open" => s = "UNACKNOWLEDGED"
        /\ x.m.t = "conf" => s \in {"OPEN", "SENT_CLOSE"} /\ i = x.m.sid
        /\ \A y \in T : Birth(y) => y = x
        /\ \A y \in F : ~Conf(y) /\ ~Final(y)
        /\ \A h \in SrvIds : ~Live(sc[h], u)
\* The server has the channel and has not closed it.
LiveU(u, o, s, i, F, sc) ==
    \A h \in SrvIds : Live(sc[h], u) =>
        /\ o = sc[h].d
        /\ \A g \in SrvIds : Live(sc[g], u) => g = h
        /\ \A y \in F : ~Final(y)
        /\ \/ s = "UNACKNOWLEDGED" /\ \E y \in F : Conf(y) /\ y.m.sid = h
           \/ s \in {"OPEN", "SENT_CLOSE"} /\ i = h
\* The server's last word on the channel is on its way.
FinalU(o, s, F) ==
    \A y \in F : Final(y) =>
        /\ o = y.m.d
        /\ s \in {"UNACKNOWLEDGED", "OPEN", "SENT_CLOSE"}
        /\ \A z \in F : Final(z) => z = y
        /\ y.m.t = "fail" => s = "UNACKNOWLEDGED" /\ \A z \in F : ~Conf(z)
        /\ y.m.t = "close" /\ s = "UNACKNOWLEDGED" => \E z \in F : Conf(z) /\ z.n < y.n
\* The server has accepted the channel and the upstream does not know it yet.
ConfU(u, o, s, T, F, sc) ==
    \A y \in F : Conf(y) =>
        /\ o = y.m.d /\ y.m.sid \in SrvIds
        /\ s = "UNACKNOWLEDGED"
        /\ \A z \in F : Conf(z) => z = y
        /\ Held(sc[y.m.sid], u) /\ sc[y.m.sid].d = o
        /\ Live(sc[y.m.sid], u) \/ \E z \in F : Final(z)
        /\ \A x \in T : ~Close(x, y.m.sid)
\* Each state of the record, and what there is of the channel elsewhere.
AwaitU(s, T, F) ==
    s = "UNACKNOWLEDGED" =>
        \/ \E x \in T : Birth(x)
        \/ \E y \in F : Conf(y) \/ Final(y)
OpenU(u, o, s, i, T, F, sc) ==
    s = "OPEN" =>
        \/ \E x \in T : Birth(x) /\ \A y \in T : x.n < y.n => ~Close(y, i)
        \/ /\ Held(sc[i], u) /\ sc[i].d = o
           /\ Live(sc[i], u) \/ \E y \in F : Final(y)
           /\ \A x \in T : ~Close(x, i)
SentU(u, o, s, i, T, F, sc) ==
    s = "SENT_CLOSE" =>
        \/ \E x, y \in T : Birth(x) /\ x.n < y.n /\ Close(y, i) /\ y.m.d = o
        \/ Live(sc[i], u) /\ \E x \in T : Close(x, i) /\ x.m.d = o
        \/ \E y \in F : Final(y)
RcvdU(u, o, s, i, T, sc) ==
    s = "RCVD_CLOSE" =>
        /\ Held(sc[i], u) /\ sc[i].d = o
        /\ \A x \in T : ~Close(x, i)
\* What a CHANNEL_CLOSE will find at the server.
CloseU(u, T, sc) ==
    \A h \in SrvIds : \A x \in T : Close(x, h) =>
        \/ \E y \in T : /\ y.n < x.n /\ Conf(y) /\ y.m.sid = h /\ y.m.d = x.m.d
                        /\ \A z \in T : y.n < z.n /\ z.n < x.n => ~Close(z, h)
        \/ /\ Held(sc[h], u) /\ sc[h].d = x.m.d
           /\ \A z \in T : z.n < x.n => ~Close(z, h)
\* Whom the server's channel belongs to, unless it has been told to close it.
HeldU(u, o, s, i, T, F, sc) ==
    \A h \in SrvIds : Held(sc[h], u) =>
        \/ \E x \in T : Close(x, h) /\ x.m.d = sc[h].d
        \/ o = sc[h].d /\ s \in {"OPEN", "RCVD_CLOSE"} /\ i = h
        \/ /\ o = sc[h].d /\ s = "UNACKNOWLEDGED"
           /\ \E y \in F : Conf(y) /\ y.m.sid = h
NumberU(s, i) == s \in {"OPEN", "SENT_CLOSE", "RCVD_CLOSE"} => i \in SrvIds

UInv(u, o, s, i, T, F, sc) ==
    /\ BirthU(u, o, s, i, T, F, sc)
    /\ LiveU(u, o, s, i, F, sc)
    /\ FinalU(o, s, F)
    /\ ConfU(u, o, s, T, F, sc)
    /\ AwaitU(s, T, F)
    /\ OpenU(u, o, s, i, T, F, sc)
    /\ SentU(u, o, s, i, T, F, sc)
    /\ RcvdU(u, o, s, i, T, sc)
    /\ CloseU(u, T, sc)
    /\ HeldU(u, o, s, i, T, F, sc)
    /\ NumberU(s, i)

---------------------------------------------------------------------------
(* The forwardings: the downstreams' records cs, the upstream's table rpf  *)
(* and its list G of outstanding requests, the requests on the way to the  *)
(* server (T), the answers and the connections on the way from it (F), and *)
(* the server's listening ports sf; lists and wires with places as before. *)

Answer(y) == y.m.t \in {"success", "failure"}
OpenOn(y, p) == y.m.t = "open" /\ y.m.p = p
Waits(c, t, p) == c.globreq_head # None /\ c.globreq_head.type = t /\ c.globreq_head.p = p
Listens(c, p) == c.fwds[p].st = "active" /\ c.fwds[p].rpf

\* A record, its pointer into the upstream's table and the request under way.
FwdPq(cs, rpf, d, p) ==
    /\ cs[d].fwds[p].st \in {"none", "waiting", "active"}
    /\ cs[d].fwds[p].st = "none" => ~cs[d].fwds[p].rpf
    /\ cs[d].fwds[p].rpf => rpf[p] = d
    /\ cs[d].fwds[p].st = "waiting" <=> Waits(cs[d], "forward", p)
    /\ cs[d].fwds[p].st = "waiting" => cs[d].fwds[p].rpf
    /\ (cs[d].fwds[p].st = "active" /\ ~cs[d].fwds[p].rpf) <=> Waits(cs[d], "cancel", p)
FwdP(cs, rpf) == \A d \in Downs : \A p \in Ports : FwdPq(cs, rpf, d, p)
StateP(cs) == \A d \in Downs :
    /\ cs[d].globreq_head # None =>
        cs[d].globreq_head.type \in {"forward", "cancel"} /\ cs[d].globreq_head.p \in Ports
    /\ cs[d].st \in {"none", "freed"} =>
        cs[d].globreq_head = None /\ \A p \in Ports : cs[d].fwds[p].st = "none"
    /\ cs[d].st = "dead" => \A p \in Ports : ~Waits(cs[d], "cancel", p)
\* The upstream's list, and the order in which answers will come.
ListP(cs, G) ==
    /\ \A x \in G : x.m \in Downs /\ cs[x.m].globreq_head # None
    /\ \A x, y \in G : x.m = y.m => x = y
    /\ \A d \in Downs : cs[d].globreq_head # None => \E x \in G : x.m = d
OrderP(G, T, F) == \A v, w \in G : v.n < w.n =>
    /\ \A x, y \in T : x.m.wr /\ y.m.wr /\ x.m.d = v.m /\ y.m.d = w.m => x.n < y.n
    /\ \A x, y \in F : Answer(x) /\ Answer(y) /\ x.m.d = v.m /\ y.m.d = w.m => x.n < y.n
    /\ \A x \in T, y \in F : ~(x.m.wr /\ Answer(y) /\ x.m.d = v.m /\ y.m.d = w.m)
WaitP(cs, T, F) == \A d \in Downs : cs[d].globreq_head # None =>
    \/ \E x \in T : x.m.wr /\ x.m.d = d
    \/ \E y \in F : Answer(y) /\ y.m.d = d
\* Requests and answers.
AskP(cs, T, F) == \A x \in T :
    /\ x.m.t \in {"forward", "cancel"} /\ x.m.d \in Downs /\ x.m.p \in Ports
    /\ x.m.t = "forward" => x.m.wr
    /\ x.m.wr => /\ Waits(cs[x.m.d], x.m.t, x.m.p)
                 /\ \A y \in T : y.m.wr /\ y.m.d = x.m.d => y = x
                 /\ \A y \in F : Answer(y) => y.m.d # x.m.d
AnswerP(cs, T, F, sf) == \A y \in F : Answer(y) =>
    /\ y.m.d \in Downs /\ y.m.p \in Ports
    /\ Waits(cs[y.m.d], "forward", y.m.p) \/ Waits(cs[y.m.d], "cancel", y.m.p)
    /\ \A z \in F : Answer(z) /\ z.m.d = y.m.d => z = y
    /\ y.m.t = "failure" => /\ Waits(cs[y.m.d], "forward", y.m.p) /\ sf[y.m.p] = None
                            /\ \A z \in F : y.n < z.n => ~OpenOn(z, y.m.p)
    /\ Waits(cs[y.m.d], "forward", y.m.p) =>
        /\ \A x \in T : x.m.p # y.m.p
        /\ y.m.t = "success" => sf[y.m.p] = y.m.d
\* Of each port there is at most one cancellation on the way, of what the
\* server listens for, and at most one request, behind it.
MsgsP(T, sf) == \A x \in T :
    /\ x.m.t = "cancel" => sf[x.m.p] = x.m.d
    /\ x.m.t = "forward" /\ sf[x.m.p] # None =>
        \E y \in T : y.m.t = "cancel" /\ y.m.p = x.m.p /\ y.n < x.n
    /\ \A y \in T : y.m.p = x.m.p =>
        /\ y.m.t = x.m.t => y = x
        /\ y.m.t = "forward" /\ x.m.t = "cancel" => x.n < y.n
\* What the server listens for.
ActiveP(cs, T, sf) == \A d \in Downs : \A p \in Ports : Listens(cs[d], p) =>
    sf[p] = d /\ \A x \in T : x.m.p # p
ListenP(cs, T, F, sf) == \A p \in Ports : sf[p] # None =>
    /\ sf[p] \in Downs
    /\ \/ \E x \in T : x.m.t = "cancel" /\ x.m.p = p
       \/ \E y \in F : y.m.t = "success" /\ y.m.d = sf[p] /\ y.m.p = p /\ Waits(cs[sf[p]], "forward", p)
       \/ Listens(cs[sf[p]], p)
\* An entry of the table that was left when the server refused the port.
StaleP(cs, rpf, T, F, sf) == \A d \in Downs : \A p \in Ports :
    rpf[p] = d /\ ~cs[d].fwds[p].rpf =>
        /\ cs[d].fwds[p].st = "none" /\ sf[p] = None
        /\ \A x \in T : x.m.p # p
        /\ \A y \in F : ~OpenOn(y, p)

PInv(cs, rpf, G, T, F, sf) ==
    /\ FwdP(cs, rpf)
    /\ StateP(cs)
    /\ ListP(cs, G)
    /\ OrderP(G, T, F)
    /\ WaitP(cs, T, F)
    /\ AskP(cs, T, F)
    /\ AnswerP(cs, T, F, sf)
    /\ MsgsP(T, sf)
    /\ ActiveP(cs, T, sf)
    /\ ListenP(cs, T, F, sf)
    /\ StaleP(cs, rpf, T, F, sf)

---------------------------------------------------------------------------
(* A sequence as such a set: the messages of M among those of q, with the  *)
(* places b + 1, b + 2, ...  Taking the head off moves b, not the places.  *)

Wire(q, b, M) == {[n |-> b + k, m |-> q[k]] : k \in {j \in 1..Len(q) : q[j] \in M}}

---------------------------------------------------------------------------
(* What the upstream, the server and the messages look like.               *)

Opt(S) == S \cup {None}
Kinds == {"open", "conf", "fail", "close", "forward", "cancel", "success", "failure"}
Faults == {"none", "list", "rpf", "globreq", "fwd", "cs"}
Packet == [t : Kinds, d : Opt(Downs), us : Opt(UpIds), sid : Opt(SrvIds), p : Opt(Ports), wr : BOOLEAN]
\* To the server ...
ToMsg == {m \in Packet :
    /\ m.t \in {"open", "conf", "fail", "close", "forward", "cancel"}
    /\ m.t # "fail" => m.d \in Downs
    /\ m.t \in {"open", "conf", "close"} => m.us \in UpIds
    /\ m.t \in {"conf", "fail", "close"} => m.sid \in SrvIds
    /\ m.t \in {"forward", "cancel"} => m.p \in Ports /\ m.us = None /\ m.sid = None
    /\ m.t \notin {"forward", "cancel"} => m.wr = FALSE /\ m.p = None}
\* ... and from it.
FromMsg == {m \in Packet :
    /\ m.t \in {"open", "conf", "fail", "close", "success", "failure"}
    /\ m.d \in Downs /\ ~m.wr
    /\ m.t \in {"conf", "fail", "close"} => m.us \in UpIds
    /\ m.t \in {"conf", "open"} => m.sid \in SrvIds
    /\ m.t \in {"success", "failure", "open"} => m.p \in Ports}

Numbered == {"OPEN", "SENT_CLOSE", "RCVD_CLOSE"}
ShareChannel == {c \in [us : UpIds, sid : Opt(SrvIds), st : ChanStates] :
                    c.sid \in SrvIds <=> c.st \in Numbered}
ShareForwarding == [st : {"none", "waiting", "active"}, rpf : BOOLEAN]
ShareGlobreq == [type : {"forward", "cancel"}, p : Ports]
ConnState == [st : {"none", "live", "dead", "freed"}, half : SUBSET SrvIds,
              chans : SUBSET ShareChannel, fwds : [Ports -> ShareForwarding],
              globreq_head : Opt(ShareGlobreq)]
Upstream == [cs : [Downs -> ConnState], chan : [UpIds -> Opt(Downs)], rpf : [Ports -> Opt(Downs)],
             globreq : Seq(Downs), drained : BOOLEAN, out : Seq(ToMsg), fault : Faults]
SrvChannel == {c \in [st : {"free", "opening", "open"}, us : Opt(UpIds), d : Opt(Downs), sentClose : BOOLEAN] :
                  /\ c.st # "free" => c.d \in Downs
                  /\ c.st = "open" => c.us \in UpIds}
Server == [ch : [SrvIds -> SrvChannel], fwd : [Ports -> Opt(Downs)], content : BOOLEAN]

Typed ==
    /\ up \in Upstream /\ up.out = << >>
    /\ toSrv \in Seq(ToMsg) /\ fromSrv \in Seq(FromMsg)
    /\ srv \in Server /\ ops \in Nat /\ gentle \in BOOLEAN

\* The messages about the upstream's channel u, and those about ports.
ToOf(u) == {m \in ToMsg : m.t \in {"open", "conf", "close"} /\ m.us = u}
FromOf(u) == {m \in FromMsg : m.t \in {"conf", "fail", "close"} /\ m.us = u}
ToPorts == {m \in ToMsg : m.t \in {"forward", "cancel"}}
FromPorts == {m \in FromMsg : m.t \in {"success", "failure", "open"}}

\* The downstreams' records and the upstream's table of channels belong to
\* each other: number u has the owner own[u], and the record of it the state
\* st[u] and the server's number sid[u].
Rec(st, sid, u) == [us |-> u, sid |-> sid[u], st |-> st[u]]
Linked(cs, own, st, sid) ==
    /\ own \in [UpIds -> Opt(Downs)]
    /\ st \in [UpIds -> ChanStates \cup {"FREE"}] /\ sid \in [UpIds -> Opt(SrvIds)]
    /\ \A u \in UpIds : own[u] = None <=> st[u] = "FREE"
    /\ \A u \in UpIds : sid[u] \in SrvIds <=> st[u] \in Numbered
    /\ \A d \in Downs : \A c \in cs[d].chans : c.us \in UpIds /\ own[c.us] = d /\ c = Rec(st, sid, c.us)
    /\ \A u \in UpIds : own[u] # None => Rec(st, sid, u) \in cs[own[u]].chans

Numbers(own, st, sid, w, bt, f, bf, sc) ==
    \A u \in UpIds : UInv(u, own[u], st[u], sid[u], Wire(w, bt, ToOf(u)), Wire(f, bf, FromOf(u)), sc)

\* The invariant of the channels, for any wires w and f.
Channels(cs, own, w, f, sc) == \E st, sid : \E bt, bf \in Int :
    Linked(cs, own, st, sid) /\ Numbers(own, st, sid, w, bt, f, bf, sc)

\* Nothing is left in the struct of a downstream that is not there.
Structs(cs, rpf) == \A d \in Downs :
    /\ cs[d].st \in {"none", "freed"} => cs[d].chans = {} /\ cs[d].half = {}
    /\ cs[d].st = "none" => \A p \in Ports : rpf[p] # d

\* A connection the server has announced is in somebody's hands.
Announced(cs, w, f, sc) == \A i \in SrvIds : sc[i].st = "opening" =>
    \/ \E k \in 1..Len(w) : w[k].t \in {"conf", "fail"} /\ w[k].sid = i
    \/ \E k \in 1..Len(f) : f[k].t = "open" /\ f[k].sid = i
    \/ \E d \in Downs : i \in cs[d].half

\* The invariant of the ports.
Forwardings(cs, rpf, gq, w, f, sf) == \E bg, bt, bf \in Int :
    PInv(cs, rpf, Wire(gq, bg, Downs), Wire(w, bt, ToPorts), Wire(f, bf, FromPorts), sf)

\* A downstream that has gone has been cleaned up after as far as is possible.
CleanDown(c) ==
    /\ \A x \in c.chans : x.st \in {"UNACKNOWLEDGED", "SENT_CLOSE"}
    /\ \A p \in Ports : c.fwds[p].st # "active"
    /\ c.half # {} => c.globreq_head # None
Cleaned(cs) == \A d \in Downs : cs[d].st = "dead" => CleanDown(cs[d])

\* All of it: of the channels always, of the ports as long as the downstreams
\* are gentle.
GoodChan(u, w, f, s) ==
    Channels(u.cs, u.chan, w, f, s.ch) /\ Structs(u.cs, u.rpf) /\ Announced(u.cs, w, f, s.ch)
GoodPort(u, w, f, s) == Forwardings(u.cs, u.rpf, u.globreq, w, f, s.fwd)

IInv ==
    /\ Typed
    /\ Running => GoodChan(up, toSrv, fromSrv, srv)
    /\ Running /\ gentle => GoodPort(up, toSrv, fromSrv, srv) /\ Cleaned(up.cs)
    /\ gentle => up.fault \in {"none", "list"}

---------------------------------------------------------------------------
(* The packets with their fields.                                          *)

Pkt(t, d, us, sid, p, wr) == [t |-> t, d |-> d, us |-> us, sid |-> sid, p |-> p, wr |-> wr]

\* A packet with these fields, and one that wants no answer.
Fields(y, t, d, us, sid, p) == y.t = t /\ y.d = d /\ y.us = us /\ y.sid = sid /\ y.p = p
Plain(t, d, us, sid, p) == Pkt(t, d, us, sid, p, FALSE)

---------------------------------------------------------------------------
(* What a step does to the messages about one channel number, and to the   *)
(* server's channels.                                                      *)

Placed(Q) == \A x \in Q : x.n \in Int
\* x is the first of Q, and has been taken: Q2 is left.
Taken(Q, x, Q2) == /\ Placed(Q) /\ x \in Q /\ Q2 = Q \ {x}
                   /\ \A y \in Q2 : x.n < y.n
\* y has been added to Q, behind all others.
Added(Q, y, Q2) == /\ Placed(Q) /\ y.n \in Int /\ y \notin Q /\ Q2 = Q \cup {y}
                   /\ \A x \in Q : x.n < y.n
SameS(sc, sc2, u) == \A h \in SrvIds :
    /\ Held(sc2[h], u) <=> Held(sc[h], u)
    /\ Live(sc2[h], u) <=> Live(sc[h], u)
    /\ Held(sc[h], u) => sc2[h].d = sc[h].d

\* The wires w and w2 hold the same messages about channels (or ports).
SameTo(w, w2) == \A b \in Int : \E b2 \in Int : \A u \in UpIds :
    Wire(w2, b2, ToOf(u)) = Wire(w, b, ToOf(u))
SameFrom(f, f2) == \A b \in Int : \E b2 \in Int : \A u \in UpIds :
    Wire(f2, b2, FromOf(u)) = Wire(f, b, FromOf(u))
SameToPorts(w, w2) == \A b \in Int : \E b2 \in Int : Wire(w2, b2, ToPorts) = Wire(w, b, ToPorts)
SameFromPorts(f, f2) == \A b \in Int : \E b2 \in Int : Wire(f2, b2, FromPorts) = Wire(f, b, FromPorts)

AboutPort == {"fail", "forward", "cancel"}
AboutChannel == {"open", "conf", "fail", "close"}

\* Nothing changes for the other numbers.
Apart(a, own, st, sid, w, bt, f, bf, sc, own2, st2, sid2, w2, ct, f2, cf, sc2) ==
    \A u \in UpIds : u # a =>
        /\ own2[u] = own[u] /\ st2[u] = st[u] /\ sid2[u] = sid[u]
        /\ Wire(w2, ct, ToOf(u)) = Wire(w, bt, ToOf(u))
        /\ Wire(f2, cf, FromOf(u)) = Wire(f, bf, FromOf(u))
        /\ SameS(sc, sc2, u)

---------------------------------------------------------------------------
(* What it does to the records of the channels, to the ports and to the    *)
(* server.                                                                 *)

\* Number a gets the owner o2, and its record the state s2 and the number i2.
Fits(o2, s2, i2) ==
    /\ o2 \in Opt(Downs) /\ s2 \in ChanStates \cup {"FREE"} /\ i2 \in Opt(SrvIds)
    /\ o2 = None <=> s2 = "FREE"
    /\ i2 \in SrvIds <=> s2 \in Numbered
Changes(cs, cs2, a, o2, s2, i2) == \A d \in Downs : \A c : c \in cs2[d].chans <=>
    \/ c \in cs[d].chans /\ c.us # a
    \/ o2 = d /\ c = [us |-> a, sid |-> i2, st |-> s2]

Now(a, own, st, sid, own2, st2, sid2, o2, s2, i2) ==
    /\ own2[a] = o2 /\ st2[a] = s2 /\ sid2[a] = i2
    /\ \A u \in UpIds : u # a => own2[u] = own[u] /\ st2[u] = st[u] /\ sid2[u] = sid[u]
Becomes(g, g2, a, v) == g2 = [g EXCEPT ![a] = v]

\* The struct of d gets the records S, and such a record.
Gets(cs, cs2, d, S) == cs2[d].chans = S /\ \A e \in Downs : e # d => cs2[e].chans = cs[e].chans
NewRec(a, sid, st) == [us |-> a, sid |-> sid, st |-> st]

\* Port p of the server gets the value o.
Sets(sf, sf2, p, o) == sf2[p] = o /\ \A q \in Ports : q # p => sf2[q] = sf[q]

\* Of the struct of d only the forwarding of port p and the request change.
OnlyPort(cs, cs2, d, p) ==
    /\ \A e \in Downs : e # d => cs2[e] = cs[e]
    /\ \A q \in Ports : q # p => cs2[d].fwds[q] = cs[d].fwds[q]

\* Cleaning up after a downstream: all its ports are given up, ...
GaveUp(cs, cs2, rpf, rpf2, d) ==
    /\ \A p \in Ports : ~Waits(cs[d], "cancel", p)
    /\ \A e \in Downs : e # d => cs2[e] = cs[e]
    /\ cs2[d].globreq_head = cs[d].globreq_head
    /\ cs2[d].st = cs[d].st
    /\ \A p \in Ports : cs[d].fwds[p].st # "active" => cs2[d].fwds[p] = cs[d].fwds[p] /\ rpf2[p] = rpf[p]
    /\ \A p \in Ports : cs[d].fwds[p].st = "active" =>
            cs2[d].fwds[p].st = "none" /\ ~cs2[d].fwds[p].rpf /\ rpf2[p] = None
\* ... with a cancellation of each.
CancelsOf(X, T, cs, d) ==
    /\ \A x \in X : x.n \in Int /\ \A z \in T : z.n < x.n
    /\ \A x \in X : x.m.t = "cancel" /\ x.m.d = d /\ x.m.p \in Ports /\ ~x.m.wr /\ cs[d].fwds[x.m.p].st = "active"
    /\ \A p \in Ports : cs[d].fwds[p].st = "active" => \E x \in X : x.m.p = p
    /\ \A x, y \in X : x.m.p = y.m.p => x = y

\* A downstream that has gone gives up its ports.
GivesUp(cs, cs2, rpf, rpf2, v, d) ==
    /\ GaveUp(cs, cs2, rpf, rpf2, d)
    /\ \A k \in 1..Len(v) : /\ v[k].t = "cancel" /\ v[k].d = d /\ v[k].p \in Ports /\ ~v[k].wr
                         /\ cs[d].fwds[v[k].p].st = "active"
    /\ \A p \in Ports : cs[d].fwds[p].st = "active" => \E k \in 1..Len(v) : v[k].p = p
    /\ \A j, k \in 1..Len(v) : v[j].p = v[k].p => j = k

\* An answer to the server's CHANNEL_OPEN of number i, and the CHANNEL_OPEN.
Answers(w, i) == \E k \in 1..Len(w) : w[k].t \in {"conf", "fail"} /\ w[k].sid = i
Calls(f, i) == \E k \in 1..Len(f) : f[k].t = "open" /\ f[k].sid = i

\* The server changes a channel, or a port.
SetsCh(s, t, i, c) == t = [s EXCEPT !.ch[i] = c]
SetsFwd(s, t, p, o) == t = [s EXCEPT !.fwd[p] = o]

---------------------------------------------------------------------------
(* What a change of the upstream's record does, and what is left of a      *)
(* downstream that has gone.                                               *)

\* An upstream's record, and a struct, with these parts.
IsUp(v, cs, chan, rpf, gq, dr, out, ft) ==
    /\ v \in Upstream
    /\ v.cs = cs /\ v.chan = chan /\ v.rpf = rpf /\ v.globreq = gq /\ v.drained = dr /\ v.out = out
    /\ v.fault = ft
IsConn(c, st, half, chans, fwds, head) ==
    /\ c \in ConnState
    /\ c.st = st /\ c.half = half /\ c.chans = chans /\ c.fwds = fwds /\ c.globreq_head = head
\* Only the struct of d changes.
Moves(cs, cs2, d) == cs2 \in [Downs -> ConnState] /\ \A e \in Downs : e # d => cs2[e] = cs[e]

\* The invariants of an upstream u that has still to put u.out on the wire.
Sound(u, ts, f, s) == u \in Upstream /\ GoodChan(u, ts \o u.out, f, s)
SoundPorts(u, gq, ts, f, s) == Forwardings(u.cs, u.rpf, gq, ts \o u.out, f, s.fwd)

\* The packets that refuse what the server has open for d.
Refusals(x, d, H) ==
    /\ \A k \in 1..Len(x) : x[k].t = "fail" /\ x[k].d = d
    /\ \A h \in H : \E k \in 1..Len(x) : x[k].t = "fail" /\ x[k].sid = h

\* A change to one struct that does not touch its channels, with packets that
\* are not about them.
StructOnly(u, v, d, x, r) ==
    /\ v.cs[d].chans = u.cs[d].chans
    /\ \A k \in 1..Len(x) : x[k].t \in AboutPort
    /\ \A i \in u.cs[d].half : i \in v.cs[d].half \/ Answers(x, i)
    /\ v.cs[d].st \in {"none", "freed"} => u.cs[d].chans = {} /\ v.cs[d].half = {}
    /\ v.cs[d].st = "none" => u.cs[d].st = "none"
    /\ \A p \in Ports : r[p] = u.rpf[p] \/ r[p] = None \/ (r[p] = d /\ v.cs[d].st # "none")

\* A change to one struct that does not touch its ports, with packets that are
\* not about them.
PortsAlone(u, v, d, x) ==
    /\ v.cs[d].fwds = u.cs[d].fwds /\ v.cs[d].globreq_head = u.cs[d].globreq_head
    /\ \A k \in 1..Len(x) : x[k].t \in AboutChannel
    /\ v.cs[d].st \in {"none", "freed"} =>
            u.cs[d].globreq_head = None /\ \A p \in Ports : u.cs[d].fwds[p].st = "none"
    /\ v.cs[d].st = "dead" => \A p \in Ports : ~Waits(u.cs[d], "cancel", p)

\* The packets that close the channels of d, one for each channel that is open
\* or that the server has closed, and the records that are left.
Shutting == {"OPEN", "RCVD_CLOSE"}
Closes(x, d, C) ==
    /\ \A k \in 1..Len(x) : x[k].t = "close" /\ x[k].d = d
    /\ \A k \in 1..Len(x) : \E c \in C : c.st \in Shutting /\ x[k].us = c.us /\ x[k].sid = c.sid
    /\ \A c \in C : c.st \in Shutting => \E k \in 1..Len(x) : x[k].us = c.us /\ x[k].sid = c.sid
    /\ \A j, k \in 1..Len(x) : x[j].us = x[k].us => j = k
Shut(c) == IF c.st = "OPEN" THEN [us |-> c.us, sid |-> c.sid, st |-> "SENT_CLOSE"] ELSE c
Remain(C, D) == \A r : r \in D <=> \E c \in C : c.st # "RCVD_CLOSE" /\ r = Shut(c)
Frees(own, own2, C) == \A i \in UpIds :
    own2[i] = IF \E c \in C : c.st = "RCVD_CLOSE" /\ c.us = i THEN None ELSE own[i]

\* The packets that cancel the ports P of d.
Cancels(x, d, P) ==
    /\ \A k \in 1..Len(x) : x[k].t = "cancel" /\ x[k].d = d /\ x[k].p \in P /\ ~x[k].wr
    /\ \A p \in P : \E k \in 1..Len(x) : x[k].p = p
    /\ \A j, k \in 1..Len(x) : x[j].p = x[k].p => j = k
Active(c) == {p \in Ports : c.fwds[p].st = "active"}

\* Cancelling the ports keeps the invariants; as long as the downstreams are
\* gentle every port that is cancelled is still in the upstream's table.
NoPorts(u, v, d, ts, f, s) ==
    /\ Sound(v, ts, f, s)
    /\ \A gq : SoundPorts(u, gq, ts, f, s) => SoundPorts(v, gq, ts, f, s) /\ v.fault = u.fault
    /\ IsUp(v, v.cs, v.chan, v.rpf, u.globreq, u.drained, v.out, v.fault)
    /\ IsConn(v.cs[d], "dead", u.cs[d].half, u.cs[d].chans, v.cs[d].fwds, u.cs[d].globreq_head)
    /\ Moves(u.cs, v.cs, d)
    /\ \A p \in Ports : v.cs[d].fwds[p].st # "active"
    /\ u.fault # "none" => v.fault = u.fault

\* A struct whose cleanup has just been tried has something left, or is freed.
Tried(c) == c.st = "dead" => ~Idle(c)

\* The struct of d is freed, or is as clean as it can be, and no other changes.
Gone(u, v, d) ==
    /\ IsUp(v, v.cs, v.chan, v.rpf, u.globreq, u.drained, v.out, v.fault)
    /\ Moves(u.cs, v.cs, d)
    /\ v.cs[d].st \in {"dead", "freed"} /\ (v.cs[d].st = "dead" => CleanDown(v.cs[d])) /\ Tried(v.cs[d])
    /\ u.fault # "none" => v.fault = u.fault

\* A step leaves the upstream v behind, and what v sent is on the wire.
Leaves(v) == IsUp(up', v.cs, v.chan, v.rpf, v.globreq, v.drained, << >>, v.fault) /\ toSrv' = toSrv \o v.out

\* What the server has opened stays with d or is answered, and what it has
\* announced stays on the wire.
HalfKept(u, v, d, x) == \A i \in u.cs[d].half : i \in v.cs[d].half \/ Answers(x, i)
CallsKept(f, f2) == \A i \in SrvIds : Calls(f, i) => Calls(f2, i)

\* The state of the record fits the message about its channel.
Meets(m, c) ==
    /\ m.t = "conf" => c.st = "UNACKNOWLEDGED"
    /\ m.t = "close" => c.st \in {"OPEN", "SENT_CLOSE"}

\* The structs differ only in what the server has opened for them.
HalfMore(cs, cs2) == \A e \in Downs :
    /\ cs2[e].st = cs[e].st /\ cs2[e].chans = cs[e].chans /\ cs2[e].fwds = cs[e].fwds
    /\ cs2[e].globreq_head = cs[e].globreq_head
    /\ cs[e].half \subseteq cs2[e].half
    /\ cs2[e].st \in {"none", "freed"} => cs2[e].half = {}

\* What share_got_pkt_from_server() makes of a message m about the channel with
\* the record c.
Hears(u, d, m, c, v) ==
    /\ m.t = "conf" /\ c.st = "UNACKNOWLEDGED" =>
            v = RetryIfDead([u EXCEPT !.cs[d].chans = (@ \ {c}) \cup {NewRec(c.us, m.sid, "OPEN")}], d)
    /\ m.t = "fail" => v = share_remove_channel(u, d, c)
    /\ m.t = "close" /\ c.st = "SENT_CLOSE" => v = RetryIfDead(share_remove_channel(u, d, c), d)
    /\ m.t = "close" /\ c.st # "SENT_CLOSE" => v = SetState(u, d, c, "RCVD_CLOSE")

\* What the answer to the request of d makes of its struct.
ReplyOf(u, w, d, ok) ==
    LET g == u.cs[d].globreq_head
        e == w.cs[d].fwds[g.p]
    IN  /\ g # None /\ g.p \in Ports /\ g.type \in {"forward", "cancel"}
        /\ IsUp(w, w.cs, u.chan, u.rpf, u.globreq, u.drained, u.out, u.fault)
        /\ Moves(u.cs, w.cs, d)
        /\ IsConn(w.cs[d], u.cs[d].st, u.cs[d].half, u.cs[d].chans, w.cs[d].fwds, None)
        /\ OnlyPort(u.cs, w.cs, d, g.p)
        /\ g.type = "forward" /\ ok => e.st = "active" /\ e.rpf = u.cs[d].fwds[g.p].rpf
        /\ g.type = "forward" /\ ~ok => e.st = "none" /\ ~e.rpf
        /\ g.type = "cancel" /\ ok => e.st = "none" /\ ~e.rpf
\* The answer finds no request, or no forwarding, and that is the end.
ReplyLost(u, v, d) ==
    LET g == u.cs[d].globreq_head
    IN  /\ IsUp(v, u.cs, u.chan, u.rpf, u.globreq, u.drained, u.out, v.fault)
        /\ u.fault = "none" => v.fault # "none"
        /\ g = None \/ u.cs[d].fwds[g.p].st = "none"

=============================================================================
