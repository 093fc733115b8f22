--------------------------- MODULE SshShareProofs ---------------------------
(***************************************************************************)
(* Proofs about SshShare, for every number of downstreams, channel numbers *)
(* and ports, by the invariant of SshShareInv.  The first two sections     *)
(* prove what each kind of step does to one channel number and to one      *)
(* port, the next ones find these steps on the wires as they lie and in    *)
(* the tables as the code changes them, and the last ones go through the   *)
(* actions.                                                                *)
(***************************************************************************)
EXTENDS SshShareInv, FiniteSetTheorems, WellFoundedInduction, TLAPS

---------------------------------------------------------------------------
(* What a step does to the messages about u and the server's channels.     *)

\* A change to other channels of the server leaves the invariant of u.
LEMMA Untouched ==
  ASSUME NEW u, NEW o, NEW s, NEW i, NEW T, NEW F, NEW sc, UInv(u, o, s, i, T, F, sc),
         NEW sc2, SameS(sc, sc2, u)
  PROVE  UInv(u, o, s, i, T, F, sc2)
<1>s. \A h \in SrvIds :
        /\ Held(sc2[h], u) <=> Held(sc[h], u)
        /\ Live(sc2[h], u) <=> Live(sc[h], u)
        /\ Held(sc[h], u) => sc2[h].d = sc[h].d
  BY DEF SameS
<1>1. BirthU(u, o, s, i, T, F, sc2)
  BY <1>s DEF UInv, BirthU
<1>2. LiveU(u, o, s, i, F, sc2)
  <2>1. LiveU(u, o, s, i, F, sc)
    BY DEF UInv
  <2> SUFFICES ASSUME NEW h \in SrvIds, Live(sc2[h], u)
               PROVE  /\ o = sc2[h].d
                      /\ \A g \in SrvIds : Live(sc2[g], u) => g = h
                      /\ \A y \in F : ~Final(y)
                      /\ \/ s = "UNACKNOWLEDGED" /\ \E y \in F : Conf(y) /\ y.m.sid = h
                         \/ s \in {"OPEN", "SENT_CLOSE"} /\ i = h
    BY DEF LiveU
  <2>2. Live(sc[h], u) /\ Held(sc[h], u)
    BY <1>s DEF Live
  <2> QED BY <1>s, <2>1, <2>2 DEF LiveU
<1>3. ConfU(u, o, s, T, F, sc2)
  BY <1>s DEF UInv, ConfU
<1>4. OpenU(u, o, s, i, T, F, sc2)
  BY <1>s DEF UInv, OpenU, NumberU
<1>5. SentU(u, o, s, i, T, F, sc2)
  <2>1. SentU(u, o, s, i, T, F, sc) /\ NumberU(s, i)
    BY DEF UInv
  <2> QED BY <1>s, <2>1 DEF SentU, NumberU
<1>6. RcvdU(u, o, s, i, T, sc2)
  BY <1>s DEF UInv, RcvdU, NumberU
<1>7. CloseU(u, T, sc2)
  BY <1>s DEF UInv, CloseU
<1>8. HeldU(u, o, s, i, T, F, sc2)
  BY <1>s DEF UInv, HeldU
<1> QED BY <1>1, <1>2, <1>3, <1>4, <1>5, <1>6, <1>7, <1>8 DEF UInv

\* The server refuses the channel.
LEMMA Refuses ==
  ASSUME NEW u, NEW o, NEW s, NEW i, NEW T, NEW F, NEW sc, UInv(u, o, s, i, T, F, sc),
         NEW T2, NEW F2, NEW x, NEW y,
         Taken(T, x, T2), x.m.t = "open", Added(F, y, F2), y.m.t = "fail",
         y.m.d = x.m.d
  PROVE  UInv(u, o, s, i, T2, F2, sc)
<1>f. /\ x \in T /\ T2 = T \ {x} /\ Birth(x) /\ ~Conf(x) /\ \A h : ~Close(x, h)
      /\ F2 = F \cup {y} /\ Final(y) /\ ~Conf(y) /\ y.m.t = "fail" /\ y.m.d = x.m.d
      /\ \A z \in T2 : x.n < z.n /\ x.n \in Int /\ z.n \in Int
  BY DEF Taken, Added, Placed, Birth, Conf, Close, Final
<1>g. /\ o = x.m.d /\ s = "UNACKNOWLEDGED" /\ \A z \in T2 : ~Birth(z)
      /\ \A z \in F : ~Conf(z) /\ ~Final(z)
      /\ \A h \in SrvIds : ~Live(sc[h], u)
  BY <1>f DEF UInv, BirthU, Birth, Taken
<1> USE <1>g, <1>f DEF UInv, Birth, Conf, Final, Close, Held, Live
<1>1. BirthU(u, o, s, i, T2, F2, sc)
  BY DEF BirthU
<1>2. LiveU(u, o, s, i, F2, sc)
  BY DEF LiveU
<1>3. FinalU(o, s, F2)
  BY DEF FinalU
<1>4. ConfU(u, o, s, T2, F2, sc)
  BY DEF ConfU
<1>5. AwaitU(s, T2, F2)
  BY DEF AwaitU
<1>6. OpenU(u, o, s, i, T2, F2, sc)
  BY DEF OpenU
<1>7. SentU(u, o, s, i, T2, F2, sc)
  BY DEF SentU
<1>8. RcvdU(u, o, s, i, T2, sc)
  BY DEF RcvdU
<1>9. CloseU(u, T2, sc)
  BY DEF CloseU
<1>10. HeldU(u, o, s, i, T2, F2, sc)
  BY DEF HeldU
<1>11. NumberU(s, i)
  BY DEF NumberU
<1> QED BY <1>1, <1>2, <1>3, <1>4, <1>5, <1>6, <1>7, <1>8, <1>9, <1>10, <1>11

\* The server accepts the channel as its own number g.
LEMMA Accepts ==
  ASSUME NEW u, NEW o, NEW s, NEW i, NEW T, NEW F, NEW sc, UInv(u, o, s, i, T, F, sc),
         NEW T2, NEW F2, NEW x, NEW y, NEW sc2, NEW g,
         Taken(T, x, T2), x.m.t = "open", g \in SrvIds, sc[g].st = "free", Live(sc2[g], u),
         sc2[g].d = x.m.d,
         \A h \in SrvIds : h # g => sc2[h] = sc[h],
         Added(F, y, F2), y.m.t = "conf", y.m.d = x.m.d,
         y.m.sid = g
  PROVE  UInv(u, o, s, i, T2, F2, sc2)
<1>f. /\ x \in T /\ T2 = T \ {x} /\ Birth(x) /\ ~Conf(x) /\ \A h : ~Close(x, h)
      /\ F2 = F \cup {y} /\ ~Final(y) /\ Conf(y) /\ y.m.t = "conf" /\ y.m.d = x.m.d /\ y.m.sid = g
      /\ \A z \in T2 : x.n < z.n /\ x.n \in Int /\ z.n \in Int
      /\ g \in SrvIds /\ ~Held(sc[g], u) /\ ~Live(sc[g], u) /\ Held(sc2[g], u) /\ Live(sc2[g], u)
      /\ sc2[g].d = x.m.d /\ \A h \in SrvIds : h # g => sc2[h] = sc[h]
  BY DEF Taken, Added, Placed, Birth, Conf, Close, Final, Held, Live
<1>g. /\ o = x.m.d /\ s = "UNACKNOWLEDGED" /\ \A z \in T2 : ~Birth(z) /\ ~Conf(z)
      /\ \A z \in F : ~Conf(z) /\ ~Final(z)
      /\ \A h \in SrvIds : ~Live(sc[h], u)
  BY <1>f DEF UInv, BirthU, Birth, Conf
<1>h. \A z \in T2 : ~Close(z, g)
  BY <1>f, <1>g DEF UInv, CloseU
<1> USE <1>g, <1>h, <1>f DEF UInv, Birth, Conf, Final, Close, Held, Live
<1>1. BirthU(u, o, s, i, T2, F2, sc2)
  BY DEF BirthU
<1>2. LiveU(u, o, s, i, F2, sc2)
  BY DEF LiveU
<1>3. FinalU(o, s, F2)
  BY DEF FinalU
<1>4. ConfU(u, o, s, T2, F2, sc2)
  BY DEF ConfU
<1>5. AwaitU(s, T2, F2)
  BY DEF AwaitU
<1>6. OpenU(u, o, s, i, T2, F2, sc2)
  BY DEF OpenU
<1>7. SentU(u, o, s, i, T2, F2, sc2)
  BY DEF SentU
<1>8. RcvdU(u, o, s, i, T2, sc2)
  BY DEF RcvdU
<1>9. CloseU(u, T2, sc2)
  BY DEF CloseU
<1>10. HeldU(u, o, s, i, T2, F2, sc2)
  BY DEF HeldU
<1>11. NumberU(s, i)
  BY DEF NumberU
<1> QED BY <1>1, <1>2, <1>3, <1>4, <1>5, <1>6, <1>7, <1>8, <1>9, <1>10, <1>11

\* The server hears that the downstream takes the channel it has opened.
LEMMA Confirmed ==
  ASSUME NEW u, NEW o, NEW s, NEW i, NEW T, NEW F, NEW sc, UInv(u, o, s, i, T, F, sc),
         NEW T2, NEW x, NEW sc2, NEW g,
         Taken(T, x, T2), x.m.t = "conf", g \in SrvIds, g = x.m.sid, sc[g].st = "opening",
         Live(sc2[g], u), sc2[g].d = x.m.d,
         \A h \in SrvIds : h # g => sc2[h] = sc[h]
  PROVE  UInv(u, o, s, i, T2, F, sc2)
<1>f. /\ x \in T /\ T2 = T \ {x} /\ Birth(x) /\ Conf(x) /\ \A h : ~Close(x, h)
      /\ \A z \in T2 : x.n < z.n /\ x.n \in Int /\ z.n \in Int
      /\ g \in SrvIds /\ ~Held(sc[g], u) /\ ~Live(sc[g], u) /\ Held(sc2[g], u) /\ Live(sc2[g], u)
      /\ sc2[g].d = x.m.d /\ \A h \in SrvIds : h # g => sc2[h] = sc[h]
  BY DEF Taken, Placed, Birth, Conf, Close, Held, Live
<1>g. /\ o = x.m.d /\ s \in {"OPEN", "SENT_CLOSE"} /\ i = g /\ \A z \in T2 : ~Birth(z) /\ ~Conf(z)
      /\ \A z \in F : ~Conf(z) /\ ~Final(z)
      /\ \A h \in SrvIds : ~Live(sc[h], u)
  BY <1>f DEF UInv, BirthU, Birth, Conf
<1>h. s = "SENT_CLOSE" => \E z \in T2 : Close(z, g) /\ z.m.d = o
  BY <1>f, <1>g DEF UInv, SentU
<1> USE <1>g, <1>f DEF UInv, Birth, Conf, Final, Close, Held, Live
<1>1. BirthU(u, o, s, i, T2, F, sc2)
  BY DEF BirthU
<1>2. LiveU(u, o, s, i, F, sc2)
  BY DEF LiveU
<1>3. FinalU(o, s, F)
  BY DEF FinalU
<1>4. ConfU(u, o, s, T2, F, sc2)
  BY DEF ConfU
<1>5. AwaitU(s, T2, F)
  BY DEF AwaitU
<1>6. OpenU(u, o, s, i, T2, F, sc2)
  BY DEF OpenU
<1>7. SentU(u, o, s, i, T2, F, sc2)
  BY DEF SentU
<1>8. RcvdU(u, o, s, i, T2, sc2)
  BY DEF RcvdU
<1>9. CloseU(u, T2, sc2)
  <2> SUFFICES ASSUME NEW h \in SrvIds, NEW z \in T2, Close(z, h)
               PROVE  /\ Held(sc2[h], u) /\ sc2[h].d = z.m.d
                      /\ \A v \in T2 : v.n < z.n => ~Close(v, h)
    BY DEF CloseU
  <2>1. z \in T
    OBVIOUS
  <2>2. CASE \E y \in T : /\ y.n < z.n /\ Conf(y) /\ y.m.sid = h /\ y.m.d = z.m.d
                         /\ \A v \in T : y.n < v.n /\ v.n < z.n => ~Close(v, h)
    <3>1. h = g /\ \A v \in T2 : v.n < z.n => ~Close(v, g)
      BY <2>2
    <3>2. z.m.d = o
      BY <2>2
    <3> QED BY <3>1, <3>2
  <2>3. CASE ~\E y \in T : /\ y.n < z.n /\ Conf(y) /\ y.m.sid = h /\ y.m.d = z.m.d
                          /\ \A v \in T : y.n < v.n /\ v.n < z.n => ~Close(v, h)
    BY <2>1, <2>3 DEF CloseU
  <2> QED BY <2>2, <2>3
<1>10. HeldU(u, o, s, i, T2, F, sc2)
  BY <1>h DEF HeldU
<1>11. NumberU(s, i)
  BY DEF NumberU
<1> QED BY <1>1, <1>2, <1>3, <1>4, <1>5, <1>6, <1>7, <1>8, <1>9, <1>10, <1>11

\* The first message about u to the server, if it is a CLOSE, finds the channel.
LEMMA CloseMeets ==
  ASSUME NEW u, NEW o, NEW s, NEW i, NEW T, NEW F, NEW sc, UInv(u, o, s, i, T, F, sc),
         NEW T2, NEW x, Taken(T, x, T2), x.m.t = "close", x.m.sid \in SrvIds
  PROVE  Held(sc[x.m.sid], u) /\ sc[x.m.sid].d = x.m.d
<1>1. CloseU(u, T, sc) /\ Close(x, x.m.sid) /\ x \in T
  BY DEF UInv, Close, Taken
<1>2. \A y \in T : ~(y.n < x.n)
  BY DEF Taken, Placed
<1> QED BY <1>1, <1>2 DEF CloseU

\* The server hears that the upstream closes a channel it has not closed.
LEMMA ClosedFirst ==
  ASSUME NEW u, NEW o, NEW s, NEW i, NEW T, NEW F, NEW sc, UInv(u, o, s, i, T, F, sc),
         NEW T2, NEW F2, NEW x, NEW y, NEW sc2, NEW g,
         Taken(T, x, T2), x.m.t = "close", g \in SrvIds, g = x.m.sid, ~sc[g].sentClose,
         sc2[g].st = "free",
         \A h \in SrvIds : h # g => sc2[h] = sc[h],
         Added(F, y, F2), y.m.t = "close",
         y.m.d = x.m.d
  PROVE  UInv(u, o, s, i, T2, F2, sc2)
<1>f. /\ x \in T /\ T2 = T \ {x} /\ ~Birth(x) /\ ~Conf(x) /\ Close(x, g) /\ \A h : Close(x, h) => h = g
      /\ \A z \in T2 : x.n < z.n /\ x.n \in Int /\ z.n \in Int
      /\ F2 = F \cup {y} /\ Final(y) /\ ~Conf(y) /\ y.m.t = "close" /\ y.m.d = x.m.d
      /\ g \in SrvIds /\ Held(sc[g], u) /\ sc[g].d = x.m.d /\ ~Held(sc2[g], u) /\ ~Live(sc2[g], u)
      /\ \A h \in SrvIds : h # g => sc2[h] = sc[h]
  BY CloseMeets DEF Taken, Added, Placed, Birth, Conf, Close, Final, Held, Live
<1>g. Live(sc[g], u)
  BY <1>f DEF Live
<1>h. /\ o = x.m.d /\ s = "SENT_CLOSE" /\ i = g /\ \A z \in F : ~Final(z) /\ ~Conf(z)
      /\ \A z \in T : ~Birth(z)
      /\ \A h \in SrvIds : Live(sc[h], u) => h = g
  <2>1. \A z \in F : Conf(z) => z.m.sid # g
    BY <1>f DEF UInv, ConfU
  <2>2. s \in {"OPEN", "SENT_CLOSE"} /\ i = g
    BY <1>f, <1>g, <2>1 DEF UInv, LiveU
  <2>3. \A z \in T : ~Birth(z)
    BY <1>f, <1>g DEF UInv, BirthU
  <2>4. s # "OPEN"
    BY <1>f, <2>2, <2>3 DEF UInv, OpenU
  <2>5. \A z \in F : ~Conf(z)
    BY <2>2 DEF UInv, ConfU
  <2> QED BY <1>f, <1>g, <2>2, <2>3, <2>4, <2>5 DEF UInv, LiveU
<1> USE <1>g, <1>h, <1>f DEF UInv, Birth, Conf, Final, Close, Held, Live
<1>1. BirthU(u, o, s, i, T2, F2, sc2)
  BY DEF BirthU
<1>2. LiveU(u, o, s, i, F2, sc2)
  BY DEF LiveU
<1>3. FinalU(o, s, F2)
  BY DEF FinalU
<1>4. ConfU(u, o, s, T2, F2, sc2)
  BY DEF ConfU
<1>5. AwaitU(s, T2, F2)
  BY DEF AwaitU
<1>6. OpenU(u, o, s, i, T2, F2, sc2)
  BY DEF OpenU
<1>7. SentU(u, o, s, i, T2, F2, sc2)
  BY DEF SentU
<1>8. RcvdU(u, o, s, i, T2, sc2)
  BY DEF RcvdU
<1>9. CloseU(u, T2, sc2)
  BY DEF CloseU
<1>10. HeldU(u, o, s, i, T2, F2, sc2)
  BY DEF HeldU
<1>11. NumberU(s, i)
  BY DEF NumberU
<1> QED BY <1>1, <1>2, <1>3, <1>4, <1>5, <1>6, <1>7, <1>8, <1>9, <1>10, <1>11

\* The server hears that the upstream closes a channel it has closed itself.
LEMMA ClosedLast ==
  ASSUME NEW u, NEW o, NEW s, NEW i, NEW T, NEW F, NEW sc, UInv(u, o, s, i, T, F, sc),
         NEW T2, NEW x, NEW sc2, NEW g,
         Taken(T, x, T2), x.m.t = "close", g \in SrvIds, g = x.m.sid, sc[g].sentClose,
         sc2[g].st = "free",
         \A h \in SrvIds : h # g => sc2[h] = sc[h]
  PROVE  UInv(u, o, s, i, T2, F, sc2)
<1>f. /\ x \in T /\ T2 = T \ {x} /\ ~Birth(x) /\ ~Conf(x) /\ Close(x, g) /\ \A h : Close(x, h) => h = g
      /\ \A z \in T2 : x.n < z.n /\ x.n \in Int /\ z.n \in Int
      /\ g \in SrvIds /\ Held(sc[g], u) /\ sc[g].d = x.m.d /\ ~Held(sc2[g], u) /\ ~Live(sc2[g], u)
      /\ \A h \in SrvIds : h # g => sc2[h] = sc[h]
  BY CloseMeets DEF Taken, Placed, Birth, Conf, Close, Final, Held, Live
<1>g. ~Live(sc[g], u)
  BY DEF Live
<1> USE <1>g, <1>f DEF UInv, Birth, Conf, Final, Close, Held, Live
<1>1. BirthU(u, o, s, i, T2, F, sc2)
  BY DEF BirthU
<1>2. LiveU(u, o, s, i, F, sc2)
  BY DEF LiveU
<1>3. FinalU(o, s, F)
  BY DEF FinalU
<1>4. ConfU(u, o, s, T2, F, sc2)
  BY DEF ConfU
<1>5. AwaitU(s, T2, F)
  BY DEF AwaitU
<1>6. OpenU(u, o, s, i, T2, F, sc2)
  BY DEF OpenU, NumberU
<1>7. SentU(u, o, s, i, T2, F, sc2)
  BY DEF SentU, NumberU
<1>8. RcvdU(u, o, s, i, T2, sc2)
  BY DEF RcvdU, NumberU
<1>9. CloseU(u, T2, sc2)
  BY DEF CloseU
<1>10. HeldU(u, o, s, i, T2, F, sc2)
  BY DEF HeldU
<1>11. NumberU(s, i)
  BY DEF NumberU
<1> QED BY <1>1, <1>2, <1>3, <1>4, <1>5, <1>6, <1>7, <1>8, <1>9, <1>10, <1>11

\* The server closes the channel first.
LEMMA SrvCloses ==
  ASSUME NEW u, NEW o, NEW s, NEW i, NEW T, NEW F, NEW sc, UInv(u, o, s, i, T, F, sc),
         NEW F2, NEW y, NEW sc2, NEW g,
         g \in SrvIds, Live(sc[g], u), Held(sc2[g], u), sc2[g].sentClose,
         sc2[g].d = sc[g].d,
         \A h \in SrvIds : h # g => sc2[h] = sc[h],
         Added(F, y, F2), y.m.t = "close",
         y.m.d = sc[g].d
  PROVE  UInv(u, o, s, i, T, F2, sc2)
<1>f. /\ F2 = F \cup {y} /\ Final(y) /\ ~Conf(y) /\ y.m.t = "close" /\ y.m.d = sc[g].d
      /\ \A z \in F : z.n < y.n /\ z.n \in Int /\ y.n \in Int
      /\ g \in SrvIds /\ Held(sc[g], u) /\ Live(sc[g], u) /\ Held(sc2[g], u) /\ ~Live(sc2[g], u) /\ sc2[g].d = sc[g].d
      /\ \A h \in SrvIds : h # g => sc2[h] = sc[h]
  BY DEF Added, Placed, Conf, Final, Live
<1>g. /\ o = sc[g].d
      /\ \A h \in SrvIds : Live(sc[h], u) => h = g
      /\ \A z \in F : ~Final(z)
      /\ \A z \in T : ~Birth(z)
      /\ \/ s = "UNACKNOWLEDGED" /\ \E z \in F : Conf(z) /\ z.m.sid = g
         \/ s \in {"OPEN", "SENT_CLOSE"} /\ i = g
  BY <1>f DEF UInv, LiveU, BirthU
<1> USE <1>g, <1>f DEF UInv, Birth, Conf, Final, Close, Held, Live
<1>1. BirthU(u, o, s, i, T, F2, sc2)
  BY DEF BirthU
<1>2. LiveU(u, o, s, i, F2, sc2)
  BY DEF LiveU
<1>3. FinalU(o, s, F2)
  BY DEF FinalU
<1>4. ConfU(u, o, s, T, F2, sc2)
  BY DEF ConfU
<1>5. AwaitU(s, T, F2)
  BY DEF AwaitU
<1>6. OpenU(u, o, s, i, T, F2, sc2)
  BY DEF OpenU
<1>7. SentU(u, o, s, i, T, F2, sc2)
  BY DEF SentU
<1>8. RcvdU(u, o, s, i, T, sc2)
  BY DEF RcvdU
<1>9. CloseU(u, T, sc2)
  BY DEF CloseU
<1>10. HeldU(u, o, s, i, T, F2, sc2)
  BY DEF HeldU
<1>11. NumberU(s, i)
  BY DEF NumberU
<1> QED BY <1>1, <1>2, <1>3, <1>4, <1>5, <1>6, <1>7, <1>8, <1>9, <1>10, <1>11

\* The upstream hears that the server has accepted the channel.
LEMMA HearsConf ==
  ASSUME NEW u, NEW o, NEW s, NEW i, NEW T, NEW F, NEW sc, UInv(u, o, s, i, T, F, sc),
         NEW F2, NEW y,
         Taken(F, y, F2),
         y.m.t = "conf"
  PROVE  UInv(u, o, "OPEN", y.m.sid, T, F2, sc) /\ s = "UNACKNOWLEDGED" /\ o = y.m.d
<1>f. /\ Conf(y) /\ ~Final(y)
      /\ y \in F /\ F2 = F \ {y} /\ \A z \in F2 : y.n < z.n /\ y.n \in Int /\ z.n \in Int
  BY DEF Taken, Placed, Conf, Final
<1>g. /\ o = y.m.d /\ s = "UNACKNOWLEDGED" /\ y.m.sid \in SrvIds
      /\ \A z \in F2 : ~Conf(z) /\ z.m.t # "fail"
      /\ \A z \in T : ~Birth(z) /\ ~Close(z, y.m.sid)
      /\ Held(sc[y.m.sid], u) /\ sc[y.m.sid].d = o
      /\ Live(sc[y.m.sid], u) \/ \E z \in F2 : Final(z)
  <2>1. \A z \in F2 : ~Conf(z)
    BY <1>f DEF UInv, ConfU
  <2>2. \A z \in F : z.m.t # "fail"
    BY <1>f DEF UInv, FinalU, Final
  <2>3. \A z \in T : ~Birth(z) /\ ~Close(z, y.m.sid)
    BY <1>f DEF UInv, ConfU, BirthU
  <2> QED BY <1>f, <2>1, <2>2, <2>3 DEF UInv, ConfU
<1>h. \A h \in SrvIds : Live(sc[h], u) => h = y.m.sid
  BY <1>f, <1>g DEF UInv, LiveU
<1> USE <1>g, <1>h, <1>f DEF UInv, Birth, Conf, Final, Close, Held, Live
<1>1. BirthU(u, o, "OPEN", y.m.sid, T, F2, sc)
  BY DEF BirthU
<1>2. LiveU(u, o, "OPEN", y.m.sid, F2, sc)
  BY DEF LiveU
<1>3. FinalU(o, "OPEN", F2)
  BY DEF FinalU
<1>4. ConfU(u, o, "OPEN", T, F2, sc)
  BY DEF ConfU
<1>5. AwaitU("OPEN", T, F2)
  BY DEF AwaitU
<1>6. OpenU(u, o, "OPEN", y.m.sid, T, F2, sc)
  BY DEF OpenU
<1>7. SentU(u, o, "OPEN", y.m.sid, T, F2, sc)
  BY DEF SentU
<1>8. RcvdU(u, o, "OPEN", y.m.sid, T, sc)
  BY DEF RcvdU
<1>9. CloseU(u, T, sc)
  BY DEF CloseU
<1>10. HeldU(u, o, "OPEN", y.m.sid, T, F2, sc)
  BY DEF HeldU
<1>11. NumberU("OPEN", y.m.sid)
  BY DEF NumberU
<1> QED BY <1>1, <1>2, <1>3, <1>4, <1>5, <1>6, <1>7, <1>8, <1>9, <1>10, <1>11

\* The upstream hears the last of a channel that was refused, or that it has closed.
LEMMA HearsFinal ==
  ASSUME NEW u, NEW o, NEW s, NEW i, NEW T, NEW F, NEW sc, UInv(u, o, s, i, T, F, sc),
         NEW F2, NEW y, NEW o2, NEW i2,
         Taken(F, y, F2), Final(y),
         y.m.t = "fail" \/ s = "SENT_CLOSE"
  PROVE  UInv(u, o2, "FREE", i2, T, F2, sc)
<1>f. /\ Final(y) /\ ~Conf(y)
      /\ y \in F /\ F2 = F \ {y} /\ \A z \in F2 : y.n < z.n /\ y.n \in Int /\ z.n \in Int
  BY DEF Taken, Placed, Conf, Final
<1>g. /\ \A z \in F2 : ~Final(z) /\ ~Conf(z)
      /\ \A z \in T : ~Birth(z)
      /\ \A h \in SrvIds : ~Live(sc[h], u)
      /\ s \in {"UNACKNOWLEDGED", "SENT_CLOSE"}
  <2>1. \A z \in F : Conf(z) => FALSE
    BY <1>f DEF UInv, ConfU, FinalU
  <2>2. \A z \in F2 : ~Final(z)
    BY <1>f DEF UInv, FinalU
  <2>3. \A h \in SrvIds : ~Live(sc[h], u)
    BY <1>f DEF UInv, LiveU
  <2>4. \A z \in T : ~Birth(z)
    BY <1>f DEF UInv, BirthU
  <2>5. s \in {"UNACKNOWLEDGED", "SENT_CLOSE"}
    BY <1>f DEF UInv, FinalU
  <2> QED BY <1>f, <2>1, <2>2, <2>3, <2>4, <2>5
<1> USE <1>g, <1>f DEF UInv, Birth, Conf, Final, Close, Held, Live
<1>1. BirthU(u, o2, "FREE", i2, T, F2, sc)
  BY DEF BirthU
<1>2. LiveU(u, o2, "FREE", i2, F2, sc)
  BY DEF LiveU
<1>3. FinalU(o2, "FREE", F2)
  BY DEF FinalU
<1>4. ConfU(u, o2, "FREE", T, F2, sc)
  BY DEF ConfU
<1>5. AwaitU("FREE", T, F2)
  BY DEF AwaitU
<1>6. OpenU(u, o2, "FREE", i2, T, F2, sc)
  BY DEF OpenU
<1>7. SentU(u, o2, "FREE", i2, T, F2, sc)
  BY DEF SentU
<1>8. RcvdU(u, o2, "FREE", i2, T, sc)
  BY DEF RcvdU
<1>9. CloseU(u, T, sc)
  BY DEF CloseU
<1>10. HeldU(u, o2, "FREE", i2, T, F2, sc)
  BY DEF HeldU
<1>11. NumberU("FREE", i2)
  BY DEF NumberU
<1> QED BY <1>1, <1>2, <1>3, <1>4, <1>5, <1>6, <1>7, <1>8, <1>9, <1>10, <1>11

\* The upstream hears that the server closes a channel it has not closed itself.
LEMMA HearsClose ==
  ASSUME NEW u, NEW o, NEW s, NEW i, NEW T, NEW F, NEW sc, UInv(u, o, s, i, T, F, sc),
         NEW F2, NEW y,
         Taken(F, y, F2), y.m.t = "close",
         s # "SENT_CLOSE"
  PROVE  UInv(u, o, "RCVD_CLOSE", i, T, F2, sc) /\ s = "OPEN" /\ o = y.m.d
<1>f. /\ Final(y) /\ ~Conf(y) /\ y.m.t = "close"
      /\ y \in F /\ F2 = F \ {y} /\ \A z \in F2 : y.n < z.n /\ y.n \in Int /\ z.n \in Int
  BY DEF Taken, Placed, Conf, Final
<1>g. /\ \A z \in F2 : ~Final(z) /\ ~Conf(z)
      /\ \A z \in T : ~Birth(z) /\ ~Close(z, i)
      /\ \A h \in SrvIds : ~Live(sc[h], u)
      /\ s = "OPEN" /\ Held(sc[i], u) /\ sc[i].d = o /\ o = y.m.d
  <2>1. s = "OPEN" /\ o = y.m.d
    BY <1>f DEF UInv, FinalU
  <2>2. \A z \in F2 : ~Final(z) /\ ~Conf(z)
    BY <1>f, <2>1 DEF UInv, FinalU, ConfU
  <2>3. \A h \in SrvIds : ~Live(sc[h], u)
    BY <1>f DEF UInv, LiveU
  <2>4. \A z \in T : ~Birth(z)
    BY <1>f DEF UInv, BirthU
  <2>5. Held(sc[i], u) /\ sc[i].d = o /\ \A z \in T : ~Close(z, i)
    BY <2>1, <2>4 DEF UInv, OpenU
  <2> QED BY <1>f, <2>1, <2>2, <2>3, <2>4, <2>5
<1> USE <1>g, <1>f DEF UInv, Birth, Conf, Final, Close, Held, Live
<1>1. BirthU(u, o, "RCVD_CLOSE", i, T, F2, sc)
  BY DEF BirthU
<1>2. LiveU(u, o, "RCVD_CLOSE", i, F2, sc)
  BY DEF LiveU
<1>3. FinalU(o, "RCVD_CLOSE", F2)
  BY DEF FinalU
<1>4. ConfU(u, o, "RCVD_CLOSE", T, F2, sc)
  BY DEF ConfU
<1>5. AwaitU("RCVD_CLOSE", T, F2)
  BY DEF AwaitU
<1>6. OpenU(u, o, "RCVD_CLOSE", i, T, F2, sc)
  BY DEF OpenU
<1>7. SentU(u, o, "RCVD_CLOSE", i, T, F2, sc)
  BY DEF SentU
<1>8. RcvdU(u, o, "RCVD_CLOSE", i, T, sc)
  BY DEF RcvdU
<1>9. CloseU(u, T, sc)
  BY DEF CloseU
<1>10. HeldU(u, o, "RCVD_CLOSE", i, T, F2, sc)
  BY DEF HeldU
<1>11. NumberU("RCVD_CLOSE", i)
  BY DEF NumberU
<1> QED BY <1>1, <1>2, <1>3, <1>4, <1>5, <1>6, <1>7, <1>8, <1>9, <1>10, <1>11

\* The upstream closes an open channel.
LEMMA SendsClose ==
  ASSUME NEW u, NEW o, NEW s, NEW i, NEW T, NEW F, NEW sc, UInv(u, o, s, i, T, F, sc),
         NEW T2, NEW x,
         s = "OPEN", Added(T, x, T2), x.m.t = "close", x.m.sid = i,
         x.m.d = o
  PROVE  UInv(u, o, "SENT_CLOSE", i, T2, F, sc)
<1>f. /\ ~Birth(x) /\ ~Conf(x) /\ Close(x, i) /\ (\A h : Close(x, h) => h = i) /\ x.m.d = o /\ s = "OPEN"
      /\ x.n \in Int /\ T2 = T \cup {x} /\ \A z \in T : z.n < x.n /\ z.n \in Int
  BY DEF Added, Placed, Birth, Conf, Close
<1>g. \A z \in T : Birth(z) => z.m.t = "conf" /\ Conf(z) /\ z.m.sid = i /\ z.m.d = o /\ \A v \in T : Birth(v) => v = z
  BY <1>f DEF UInv, BirthU, Birth, Conf
<1>h. \A z \in F : ~Conf(z)
  BY <1>f DEF UInv, ConfU
<1> USE <1>g, <1>h, <1>f DEF UInv, Birth, Conf, Final, Close, Held, Live
<1>1. BirthU(u, o, "SENT_CLOSE", i, T2, F, sc)
  BY DEF BirthU
<1>2. LiveU(u, o, "SENT_CLOSE", i, F, sc)
  BY DEF LiveU
<1>3. FinalU(o, "SENT_CLOSE", F)
  BY DEF FinalU
<1>4. ConfU(u, o, "SENT_CLOSE", T2, F, sc)
  BY DEF ConfU
<1>5. AwaitU("SENT_CLOSE", T2, F)
  BY DEF AwaitU
<1>6. OpenU(u, o, "SENT_CLOSE", i, T2, F, sc)
  BY DEF OpenU
<1>7. SentU(u, o, "SENT_CLOSE", i, T2, F, sc)
  <2>1. CASE \E z \in T : Birth(z)
    BY <2>1 DEF SentU
  <2>2. CASE \A z \in T : ~Birth(z)
    <3>1. Live(sc[i], u) \/ \E z \in F : Final(z)
      BY <2>2 DEF OpenU
    <3> QED BY <3>1 DEF SentU
  <2> QED BY <2>1, <2>2
<1>8. RcvdU(u, o, "SENT_CLOSE", i, T2, sc)
  BY DEF RcvdU
<1>9. CloseU(u, T2, sc)
  <2> SUFFICES ASSUME NEW h \in SrvIds, NEW z \in T2, Close(z, h)
               PROVE  \/ \E y \in T2 : /\ y.n < z.n /\ Conf(y) /\ y.m.sid = h /\ y.m.d = z.m.d
                                      /\ \A v \in T2 : y.n < v.n /\ v.n < z.n => ~Close(v, h)
                      \/ /\ Held(sc[h], u) /\ sc[h].d = z.m.d
                         /\ \A v \in T2 : v.n < z.n => ~Close(v, h)
    BY DEF CloseU
  <2>1. CASE z \in T
    <3>1. \A v \in T2 : v.n < z.n => v \in T
      BY <2>1
    <3> QED BY <2>1, <3>1 DEF CloseU
  <2>2. CASE z = x
    <3>1. h = i /\ \A v \in T2 : v.n < z.n => v \in T
      BY <2>2
    <3>2. CASE \E y \in T : Birth(y) /\ \A v \in T : y.n < v.n => ~Close(v, i)
      BY <2>2, <3>1, <3>2
    <3>3. CASE Held(sc[i], u) /\ sc[i].d = o /\ \A v \in T : ~Close(v, i)
      BY <2>2, <3>1, <3>3
    <3> QED BY <3>2, <3>3 DEF OpenU
  <2> QED BY <2>1, <2>2
<1>10. HeldU(u, o, "SENT_CLOSE", i, T2, F, sc)
  BY DEF HeldU
<1>11. NumberU("SENT_CLOSE", i)
  BY DEF NumberU
<1> QED BY <1>1, <1>2, <1>3, <1>4, <1>5, <1>6, <1>7, <1>8, <1>9, <1>10, <1>11

\* The upstream closes a channel the server has closed.
LEMMA AnswersClose ==
  ASSUME NEW u, NEW o, NEW s, NEW i, NEW T, NEW F, NEW sc, UInv(u, o, s, i, T, F, sc),
         NEW T2, NEW x, NEW o2, NEW i2,
         s = "RCVD_CLOSE", Added(T, x, T2), x.m.t = "close", x.m.sid = i,
         x.m.d = o
  PROVE  UInv(u, o2, "FREE", i2, T2, F, sc)
<1>f. /\ ~Birth(x) /\ ~Conf(x) /\ Close(x, i) /\ (\A h : Close(x, h) => h = i) /\ x.m.d = o /\ s = "RCVD_CLOSE"
      /\ x.n \in Int /\ T2 = T \cup {x} /\ \A z \in T : z.n < x.n /\ z.n \in Int
  BY DEF Added, Placed, Birth, Conf, Close
<1>g. /\ \A z \in T : ~Birth(z)
      /\ \A z \in F : ~Conf(z) /\ ~Final(z)
      /\ \A h \in SrvIds : ~Live(sc[h], u)
  BY <1>f DEF UInv, BirthU, ConfU, FinalU, LiveU, Birth
<1>h. Held(sc[i], u) /\ sc[i].d = o /\ \A z \in T : ~Close(z, i)
  BY <1>f DEF UInv, RcvdU
<1> USE <1>g, <1>h, <1>f DEF UInv, Birth, Conf, Final, Close, Held, Live
<1>1. BirthU(u, o2, "FREE", i2, T2, F, sc)
  BY DEF BirthU
<1>2. LiveU(u, o2, "FREE", i2, F, sc)
  BY DEF LiveU
<1>3. FinalU(o2, "FREE", F)
  BY DEF FinalU
<1>4. ConfU(u, o2, "FREE", T2, F, sc)
  BY DEF ConfU
<1>5. AwaitU("FREE", T2, F)
  BY DEF AwaitU
<1>6. OpenU(u, o2, "FREE", i2, T2, F, sc)
  BY DEF OpenU
<1>7. SentU(u, o2, "FREE", i2, T2, F, sc)
  BY DEF SentU
<1>8. RcvdU(u, o2, "FREE", i2, T2, sc)
  BY DEF RcvdU
<1>9. CloseU(u, T2, sc)
  BY DEF CloseU
<1>10. HeldU(u, o2, "FREE", i2, T2, F, sc)
  BY DEF HeldU
<1>11. NumberU("FREE", i2)
  BY DEF NumberU
<1> QED BY <1>1, <1>2, <1>3, <1>4, <1>5, <1>6, <1>7, <1>8, <1>9, <1>10, <1>11

\* A downstream opens a channel, which gets a free number.
LEMMA SendsOpen ==
  ASSUME NEW u, NEW o, NEW s, NEW i, NEW T, NEW F, NEW sc, UInv(u, o, s, i, T, F, sc),
         NEW T2, NEW x, NEW o2, NEW i2,
         s = "FREE", Added(T, x, T2), x.m.t = "open",
         x.m.d = o2
  PROVE  UInv(u, o2, "UNACKNOWLEDGED", i2, T2, F, sc)
<1>f. /\ Birth(x) /\ ~Conf(x) /\ (\A h : ~Close(x, h)) /\ x.m.t = "open" /\ x.m.d = o2 /\ s = "FREE"
      /\ x.n \in Int /\ T2 = T \cup {x} /\ \A z \in T : z.n < x.n /\ z.n \in Int
  BY DEF Added, Placed, Birth, Conf, Close
<1>g. /\ \A z \in T : ~Birth(z)
      /\ \A z \in F : ~Conf(z) /\ ~Final(z)
      /\ \A h \in SrvIds : ~Live(sc[h], u)
  BY <1>f DEF UInv, BirthU, ConfU, FinalU, LiveU, Birth
<1> USE <1>g, <1>f DEF UInv, Birth, Conf, Final, Close, Held, Live
<1>1. BirthU(u, o2, "UNACKNOWLEDGED", i2, T2, F, sc)
  BY DEF BirthU
<1>2. LiveU(u, o2, "UNACKNOWLEDGED", i2, F, sc)
  BY DEF LiveU
<1>3. FinalU(o2, "UNACKNOWLEDGED", F)
  BY DEF FinalU
<1>4. ConfU(u, o2, "UNACKNOWLEDGED", T2, F, sc)
  BY DEF ConfU
<1>5. AwaitU("UNACKNOWLEDGED", T2, F)
  BY DEF AwaitU
<1>6. OpenU(u, o2, "UNACKNOWLEDGED", i2, T2, F, sc)
  BY DEF OpenU
<1>7. SentU(u, o2, "UNACKNOWLEDGED", i2, T2, F, sc)
  BY DEF SentU
<1>8. RcvdU(u, o2, "UNACKNOWLEDGED", i2, T2, sc)
  BY DEF RcvdU
<1>9. CloseU(u, T2, sc)
  BY DEF CloseU
<1>10. HeldU(u, o2, "UNACKNOWLEDGED", i2, T2, F, sc)
  BY DEF HeldU
<1>11. NumberU("UNACKNOWLEDGED", i2)
  BY DEF NumberU
<1> QED BY <1>1, <1>2, <1>3, <1>4, <1>5, <1>6, <1>7, <1>8, <1>9, <1>10, <1>11

\* A downstream accepts a channel of the server's, which gets a free number.
LEMMA SendsConf ==
  ASSUME NEW u, NEW o, NEW s, NEW i, NEW T, NEW F, NEW sc, UInv(u, o, s, i, T, F, sc),
         NEW T2, NEW x, NEW o2, NEW i2,
         s = "FREE", Added(T, x, T2), x.m.t = "conf", x.m.d = o2, x.m.sid = i2,
         i2 \in SrvIds
  PROVE  UInv(u, o2, "OPEN", i2, T2, F, sc)
<1>f. /\ Birth(x) /\ Conf(x) /\ (\A h : ~Close(x, h)) /\ x.m.t = "conf" /\ x.m.sid = i2 /\ x.m.d = o2 /\ s = "FREE"
      /\ i2 \in SrvIds
      /\ x.n \in Int /\ T2 = T \cup {x} /\ \A z \in T : z.n < x.n /\ z.n \in Int
  BY DEF Added, Placed, Birth, Conf, Close
<1>g. /\ \A z \in T : ~Birth(z)
      /\ \A z \in F : ~Conf(z) /\ ~Final(z)
      /\ \A h \in SrvIds : ~Live(sc[h], u)
  BY <1>f DEF UInv, BirthU, ConfU, FinalU, LiveU, Birth
<1> USE <1>g, <1>f DEF UInv, Birth, Conf, Final, Close, Held, Live
<1>1. BirthU(u, o2, "OPEN", i2, T2, F, sc)
  BY DEF BirthU
<1>2. LiveU(u, o2, "OPEN", i2, F, sc)
  BY DEF LiveU
<1>3. FinalU(o2, "OPEN", F)
  BY DEF FinalU
<1>4. ConfU(u, o2, "OPEN", T2, F, sc)
  BY DEF ConfU
<1>5. AwaitU("OPEN", T2, F)
  BY DEF AwaitU
<1>6. OpenU(u, o2, "OPEN", i2, T2, F, sc)
  BY DEF OpenU
<1>7. SentU(u, o2, "OPEN", i2, T2, F, sc)
  BY DEF SentU
<1>8. RcvdU(u, o2, "OPEN", i2, T2, sc)
  BY DEF RcvdU
<1>9. CloseU(u, T2, sc)
  BY DEF CloseU
<1>10. HeldU(u, o2, "OPEN", i2, T2, F, sc)
  BY DEF HeldU
<1>11. NumberU("OPEN", i2)
  BY DEF NumberU
<1> QED BY <1>1, <1>2, <1>3, <1>4, <1>5, <1>6, <1>7, <1>8, <1>9, <1>10, <1>11

---------------------------------------------------------------------------
(* The same of the ports: what a step does to requests, answers and        *)
(* forwardings.                                                            *)

\* What does not touch forwardings, requests and answers keeps their invariant.
LEMMA PortsKept ==
  ASSUME NEW cs, NEW rpf, NEW G, NEW T, NEW F, NEW sf, PInv(cs, rpf, G, T, F, sf),
         NEW cs2,
         \A d \in Downs : cs2[d].fwds = cs[d].fwds /\ cs2[d].globreq_head = cs[d].globreq_head,
         StateP(cs2)
  PROVE  PInv(cs2, rpf, G, T, F, sf)
<1>f. \A d \in Downs : cs2[d].fwds = cs[d].fwds /\ cs2[d].globreq_head = cs[d].globreq_head
  OBVIOUS
<1> USE <1>f DEF PInv, Answer, OpenOn, Waits, Listens
<1>1. FwdP(cs2, rpf)
  BY DEF FwdP, FwdPq
<1>2. StateP(cs2)
  OBVIOUS
<1>3. ListP(cs2, G)
  BY DEF ListP
<1>4. OrderP(G, T, F)
  BY DEF OrderP
<1>5. WaitP(cs2, T, F)
  BY DEF WaitP
<1>6. AskP(cs2, T, F)
  BY DEF AskP
<1>7. AnswerP(cs2, T, F, sf)
  BY DEF AnswerP
<1>8. MsgsP(T, sf)
  BY DEF MsgsP
<1>9. ActiveP(cs2, T, sf)
  BY DEF ActiveP
<1>10. ListenP(cs2, T, F, sf)
  BY DEF ListenP
<1>11. StaleP(cs2, rpf, T, F, sf)
  BY DEF StaleP
<1> QED BY <1>1, <1>2, <1>3, <1>4, <1>5, <1>6, <1>7, <1>8, <1>9, <1>10, <1>11

\* A downstream asks for a port.
LEMMA AsksForward ==
  ASSUME NEW cs, NEW rpf, NEW G, NEW T, NEW F, NEW sf, PInv(cs, rpf, G, T, F, sf),
         NEW cs2, NEW rpf2, NEW G2, NEW T2, NEW d, NEW p, NEW x, NEW g,
         d \in Downs, p \in Ports, cs[d].globreq_head = None, cs[d].st = "live",
         rpf[p] = None,
         \A e \in Downs : e # d => cs2[e] = cs[e],
         \A q \in Ports : q # p => cs2[d].fwds[q] = cs[d].fwds[q] /\ rpf2[q] = rpf[q],
         cs2[d].fwds[p].st = "waiting", cs2[d].fwds[p].rpf, rpf2[p] = d,
         Waits(cs2[d], "forward", p), cs2[d].st = "live", Added(T, x, T2),
         x.m.t = "forward", x.m.d = d, x.m.p = p, x.m.wr, Added(G, g, G2),
         g.m = d
  PROVE  PInv(cs2, rpf2, G2, T2, F, sf)
<1>f. /\ cs[d].globreq_head = None /\ cs[d].st = "live" /\ rpf[p] = None
      /\ cs2[d].fwds[p].st = "waiting" /\ cs2[d].fwds[p].rpf /\ rpf2[p] = d
      /\ cs2[d].globreq_head # None /\ cs2[d].globreq_head.type = "forward" /\ cs2[d].globreq_head.p = p
      /\ cs2[d].st = "live" /\ x.m.t = "forward"
      /\ d \in Downs /\ p \in Ports /\ d # None
      /\ \A e \in Downs : e # d => cs2[e] = cs[e]
      /\ \A q \in Ports : q # p => cs2[d].fwds[q] = cs[d].fwds[q] /\ rpf2[q] = rpf[q]
      /\ T2 = T \cup {x} /\ (\A z \in T : z.n < x.n) /\ x.m.d = d /\ x.m.p = p /\ x.m.wr
      /\ G2 = G \cup {g} /\ (\A z \in G : z.n < g.n) /\ g.m = d /\ g.n \in Int /\ x.n \in Int
      /\ \A z \in G : z.n \in Int
      /\ \A z \in T : z.n \in Int
  BY ConstAssumption DEF Added, Placed, Waits
<1>g. /\ \A q \in Ports : ~Waits(cs[d], "forward", q) /\ ~Waits(cs[d], "cancel", q)
      /\ \A z \in T : z.m.wr => z.m.d # d
      /\ \A z \in F : Answer(z) => z.m.d # d
      /\ \A z \in G : z.m # d
  BY <1>f DEF PInv, AskP, AnswerP, ListP, Waits
<1>h. /\ \A e \in Downs : ~cs[e].fwds[p].rpf /\ cs[e].fwds[p].st # "waiting" /\ ~Waits(cs[e], "forward", p)
      /\ \A q \in Ports : ~Waits(cs2[d], "cancel", q) /\ (Waits(cs2[d], "forward", q) <=> q = p)
      /\ cs[d].fwds[p].st = "none"
  <2>1. \A e \in Downs : ~cs[e].fwds[p].rpf
    BY <1>f, ConstAssumption DEF PInv, FwdP, FwdPq
  <2>2. \A e \in Downs : cs[e].fwds[p].st # "waiting" /\ ~Waits(cs[e], "forward", p)
    BY <1>f, <2>1 DEF PInv, FwdP, FwdPq
  <2>3. cs[d].fwds[p].st = "none"
    BY <1>f, <1>g, <2>1, <2>2 DEF PInv, FwdP, FwdPq
  <2> QED BY <1>f, <2>1, <2>2, <2>3 DEF Waits
<1>m. sf[p] # None => \E z \in T : z.m.t = "cancel" /\ z.m.p = p
  BY <1>f, <1>h DEF PInv, ListenP, Listens
<1>k. /\ \A z \in T : z.m.p = p => z.m.t = "cancel"
      /\ \A z \in F : Answer(z) /\ z.m.p = p => ~Waits(cs[z.m.d], "forward", p)
  BY <1>h DEF PInv, AskP, AnswerP
<1> USE <1>g, <1>h, <1>k, <1>f DEF PInv, Answer, OpenOn, Waits, Listens
<1>1. FwdP(cs2, rpf2)
  BY DEF FwdP, FwdPq
<1>2. StateP(cs2)
  BY DEF StateP
<1>3. ListP(cs2, G2)
  BY DEF ListP
<1>4. OrderP(G2, T2, F)
  BY DEF OrderP
<1>5. WaitP(cs2, T2, F)
  BY DEF WaitP
<1>6. AskP(cs2, T2, F)
  BY DEF AskP
<1>7. AnswerP(cs2, T2, F, sf)
  BY DEF AnswerP
<1>8. MsgsP(T2, sf)
  BY <1>m DEF MsgsP
<1>9. ActiveP(cs2, T2, sf)
  BY DEF ActiveP
<1>10. ListenP(cs2, T2, F, sf)
  BY DEF ListenP
<1>11. StaleP(cs2, rpf2, T2, F, sf)
  BY DEF StaleP
<1> QED BY <1>1, <1>2, <1>3, <1>4, <1>5, <1>6, <1>7, <1>8, <1>9, <1>10, <1>11

\* A downstream gives a port up.
LEMMA AsksCancel ==
  ASSUME NEW cs, NEW rpf, NEW G, NEW T, NEW F, NEW sf, PInv(cs, rpf, G, T, F, sf),
         NEW cs2, NEW rpf2, NEW G2, NEW T2, NEW d, NEW p, NEW x, NEW g,
         d \in Downs, p \in Ports, cs[d].globreq_head = None, cs[d].st = "live",
         cs[d].fwds[p].st # "none",
         \A e \in Downs : e # d => cs2[e] = cs[e],
         \A q \in Ports : q # p => cs2[d].fwds[q] = cs[d].fwds[q] /\ rpf2[q] = rpf[q],
         cs2[d].fwds[p].st = cs[d].fwds[p].st, ~cs2[d].fwds[p].rpf, rpf2[p] = None,
         Waits(cs2[d], "cancel", p), cs2[d].st = "live", Added(T, x, T2), x.m.t = "cancel",
         x.m.d = d, x.m.p = p, x.m.wr, Added(G, g, G2),
         g.m = d
  PROVE  PInv(cs2, rpf2, G2, T2, F, sf)
<1>f. /\ cs[d].globreq_head = None /\ cs[d].st = "live"
      /\ cs2[d].fwds[p].st = cs[d].fwds[p].st /\ ~cs2[d].fwds[p].rpf /\ rpf2[p] = None
      /\ cs2[d].globreq_head # None /\ cs2[d].globreq_head.type = "cancel" /\ cs2[d].globreq_head.p = p
      /\ cs2[d].st = "live" /\ x.m.t = "cancel"
      /\ \A e \in Downs : e # None
      /\ d \in Downs /\ p \in Ports /\ d # None
      /\ \A e \in Downs : e # d => cs2[e] = cs[e]
      /\ \A q \in Ports : q # p => cs2[d].fwds[q] = cs[d].fwds[q] /\ rpf2[q] = rpf[q]
      /\ T2 = T \cup {x} /\ (\A z \in T : z.n < x.n) /\ x.m.d = d /\ x.m.p = p /\ x.m.wr
      /\ G2 = G \cup {g} /\ (\A z \in G : z.n < g.n) /\ g.m = d /\ g.n \in Int /\ x.n \in Int
      /\ \A z \in G : z.n \in Int
      /\ \A z \in T : z.n \in Int
  BY ConstAssumption DEF Added, Placed, Waits
<1>g. /\ \A q \in Ports : ~Waits(cs[d], "forward", q) /\ ~Waits(cs[d], "cancel", q)
      /\ \A z \in T : z.m.wr => z.m.d # d
      /\ \A z \in F : Answer(z) => z.m.d # d
      /\ \A z \in G : z.m # d
  BY <1>f DEF PInv, AskP, AnswerP, ListP, Waits
<1>h. /\ cs[d].fwds[p].st = "active" /\ cs[d].fwds[p].rpf /\ rpf[p] = d
      /\ \A q \in Ports : ~Waits(cs2[d], "forward", q) /\ (Waits(cs2[d], "cancel", q) <=> q = p)
      /\ \A e \in Downs : e # d => ~cs[e].fwds[p].rpf
  BY <1>f, <1>g DEF PInv, FwdP, FwdPq, Waits
<1>k. sf[p] = d /\ \A z \in T : z.m.p # p
  BY <1>h, <1>f DEF PInv, ActiveP, Listens
<1> USE <1>g, <1>h, <1>k, <1>f DEF PInv, Answer, OpenOn, Waits, Listens
<1>1. FwdP(cs2, rpf2)
  BY DEF FwdP, FwdPq
<1>2. StateP(cs2)
  BY DEF StateP
<1>3. ListP(cs2, G2)
  BY DEF ListP
<1>4. OrderP(G2, T2, F)
  BY DEF OrderP
<1>5. WaitP(cs2, T2, F)
  BY DEF WaitP
<1>6. AskP(cs2, T2, F)
  BY DEF AskP
<1>7. AnswerP(cs2, T2, F, sf)
  BY DEF AnswerP
<1>8. MsgsP(T2, sf)
  BY DEF MsgsP
<1>9. ActiveP(cs2, T2, sf)
  BY DEF ActiveP
<1>10. ListenP(cs2, T2, F, sf)
  BY DEF ListenP
<1>11. StaleP(cs2, rpf2, T2, F, sf)
  BY DEF StaleP
<1> QED BY <1>1, <1>2, <1>3, <1>4, <1>5, <1>6, <1>7, <1>8, <1>9, <1>10, <1>11

\* The server refuses a port.
LEMMA RefusesPort ==
  ASSUME NEW cs, NEW rpf, NEW G, NEW T, NEW F, NEW sf, PInv(cs, rpf, G, T, F, sf),
         NEW T2, NEW F2, NEW d, NEW p, NEW x, NEW y,
         Taken(T, x, T2), x.m.t = "forward", x.m.d = d, x.m.p = p, Added(F, y, F2),
         y.m.t = "failure", y.m.d = d,
         y.m.p = p
  PROVE  PInv(cs, rpf, G, T2, F2, sf)
<1>f. /\ x.m.t = "forward" /\ y.m.t = "failure"
      /\ x \in T /\ T2 = T \ {x} /\ x.n \in Int /\ (\A z \in T2 : x.n < z.n /\ z.n \in Int)
      /\ x.m.d = d /\ x.m.p = p
      /\ F2 = F \cup {y} /\ (\A z \in F : z.n < y.n /\ z.n \in Int) /\ y.n \in Int /\ y.m.d = d /\ y.m.p = p
      /\ Answer(y) /\ (\A q : ~OpenOn(y, q))
  BY DEF Taken, Added, Placed, Answer, OpenOn
<1>g. /\ d \in Downs /\ p \in Ports /\ x.m.wr /\ Waits(cs[d], "forward", p)
      /\ cs[d].globreq_head # None
      /\ \A z \in T2 : z.m.p # p
      /\ \A z \in F : Answer(z) => z.m.d # d
      /\ \A z \in T2 : z.m.wr => z.m.d # d
      /\ sf[p] = None
  <2>1. /\ d \in Downs /\ p \in Ports /\ x.m.wr /\ Waits(cs[d], "forward", p)
        /\ cs[d].globreq_head # None
        /\ \A z \in F : Answer(z) => z.m.d # d
        /\ \A z \in T2 : z.m.wr => z.m.d # d
    BY <1>f DEF PInv, AskP, Waits
  <2>2. \A z \in T : ~(z.m.t = "cancel" /\ z.m.p = p)
    BY <1>f DEF PInv, MsgsP
  <2>3. sf[p] = None
    BY <1>f, <2>2 DEF PInv, MsgsP
  <2>4. \A z \in T2 : z.m.p # p
    BY <1>f, <2>2 DEF PInv, MsgsP, AskP
  <2> QED BY <2>1, <2>3, <2>4
<1>h. cs[d].fwds[p].st = "waiting" /\ cs[d].fwds[p].rpf /\ rpf[p] = d /\ ~Waits(cs[d], "cancel", p)
      /\ \A e \in Downs : e # d => ~cs[e].fwds[p].rpf
  BY <1>g DEF PInv, FwdP, FwdPq, Waits
<1>k. /\ \A e \in Downs : ~Listens(cs[e], p)
      /\ \A e \in Downs : Waits(cs[e], "forward", p) => e = d
      /\ \A z \in F : Answer(z) /\ z.m.p = p => ~Waits(cs[z.m.d], "forward", p)
  BY <1>f, <1>g, <1>h DEF PInv, FwdP, FwdPq, ActiveP, AnswerP, Listens
<1> USE <1>g, <1>h, <1>k, <1>f DEF PInv, Answer, OpenOn, Waits, Listens
<1>1. FwdP(cs, rpf)
  BY DEF FwdP, FwdPq
<1>2. StateP(cs)
  BY DEF StateP
<1>3. ListP(cs, G)
  BY DEF ListP
<1>4. OrderP(G, T2, F2)
  BY DEF OrderP
<1>5. WaitP(cs, T2, F2)
  BY DEF WaitP
<1>6. AskP(cs, T2, F2)
  BY DEF AskP
<1>7. AnswerP(cs, T2, F2, sf)
  BY DEF AnswerP
<1>8. MsgsP(T2, sf)
  BY DEF MsgsP
<1>9. ActiveP(cs, T2, sf)
  BY DEF ActiveP
<1>10. ListenP(cs, T2, F2, sf)
  BY DEF ListenP
<1>11. StaleP(cs, rpf, T2, F2, sf)
  BY DEF StaleP
<1> QED BY <1>1, <1>2, <1>3, <1>4, <1>5, <1>6, <1>7, <1>8, <1>9, <1>10, <1>11

\* The server listens on a port.
LEMMA GrantsPort ==
  ASSUME NEW cs, NEW rpf, NEW G, NEW T, NEW F, NEW sf, PInv(cs, rpf, G, T, F, sf),
         NEW T2, NEW F2, NEW sf2, NEW d, NEW p, NEW x, NEW y,
         Taken(T, x, T2), x.m.t = "forward", x.m.d = d, x.m.p = p, sf2[p] = d,
         \A q \in Ports : q # p => sf2[q] = sf[q],
         Added(F, y, F2), y.m.t = "success", y.m.d = d,
         y.m.p = p
  PROVE  PInv(cs, rpf, G, T2, F2, sf2)
<1>f. /\ x.m.t = "forward" /\ y.m.t = "success"
      /\ sf2[p] = d /\ (\A q \in Ports : q # p => sf2[q] = sf[q])
      /\ x \in T /\ T2 = T \ {x} /\ x.n \in Int /\ (\A z \in T2 : x.n < z.n /\ z.n \in Int)
      /\ x.m.d = d /\ x.m.p = p
      /\ F2 = F \cup {y} /\ (\A z \in F : z.n < y.n /\ z.n \in Int) /\ y.n \in Int /\ y.m.d = d /\ y.m.p = p
      /\ Answer(y) /\ (\A q : ~OpenOn(y, q))
  BY DEF Taken, Added, Placed, Answer, OpenOn
<1>g. /\ d \in Downs /\ p \in Ports /\ x.m.wr /\ Waits(cs[d], "forward", p)
      /\ cs[d].globreq_head # None
      /\ \A z \in T2 : z.m.p # p
      /\ \A z \in F : Answer(z) => z.m.d # d
      /\ \A z \in T2 : z.m.wr => z.m.d # d
      /\ sf[p] = None
  <2>1. /\ d \in Downs /\ p \in Ports /\ x.m.wr /\ Waits(cs[d], "forward", p)
        /\ cs[d].globreq_head # None
        /\ \A z \in F : Answer(z) => z.m.d # d
        /\ \A z \in T2 : z.m.wr => z.m.d # d
    BY <1>f DEF PInv, AskP, Waits
  <2>2. \A z \in T : ~(z.m.t = "cancel" /\ z.m.p = p)
    BY <1>f DEF PInv, MsgsP
  <2>3. sf[p] = None
    BY <1>f, <2>2 DEF PInv, MsgsP
  <2>4. \A z \in T2 : z.m.p # p
    BY <1>f, <2>2 DEF PInv, MsgsP, AskP
  <2> QED BY <2>1, <2>3, <2>4
<1>h. cs[d].fwds[p].st = "waiting" /\ cs[d].fwds[p].rpf /\ rpf[p] = d /\ ~Waits(cs[d], "cancel", p)
      /\ \A e \in Downs : e # d => ~cs[e].fwds[p].rpf
  BY <1>g DEF PInv, FwdP, FwdPq, Waits
<1>k. /\ \A e \in Downs : ~Listens(cs[e], p)
      /\ \A e \in Downs : Waits(cs[e], "forward", p) => e = d
      /\ \A z \in F : Answer(z) /\ z.m.p = p => ~Waits(cs[z.m.d], "forward", p)
  BY <1>f, <1>g, <1>h DEF PInv, FwdP, FwdPq, ActiveP, AnswerP, Listens
<1> USE <1>g, <1>h, <1>k, <1>f DEF PInv, Answer, OpenOn, Waits, Listens
<1>1. FwdP(cs, rpf)
  BY DEF FwdP, FwdPq
<1>2. StateP(cs)
  BY DEF StateP
<1>3. ListP(cs, G)
  BY DEF ListP
<1>4. OrderP(G, T2, F2)
  BY DEF OrderP
<1>5. WaitP(cs, T2, F2)
  BY DEF WaitP
<1>6. AskP(cs, T2, F2)
  BY DEF AskP
<1>7. AnswerP(cs, T2, F2, sf2)
  BY DEF AnswerP
<1>8. MsgsP(T2, sf2)
  <2>1. /\ \A z \in T2 : z \in T /\ z.m.p \in Ports /\ z.m.t \in {"forward", "cancel"}
        /\ \A z, w \in T2 : w.m.p = z.m.p =>
             (w.m.t = z.m.t => w = z) /\ (w.m.t = "forward" /\ z.m.t = "cancel" => z.n < w.n)
    BY DEF AskP, MsgsP
  <2>2. ASSUME NEW z \in T2
        PROVE  /\ z.m.t = "cancel" => sf2[z.m.p] = z.m.d
               /\ z.m.t = "forward" /\ sf2[z.m.p] # None =>
                    \E y1 \in T2 : y1.m.t = "cancel" /\ y1.m.p = z.m.p /\ y1.n < z.n
    <3>1. CASE z.m.p = p
      BY <2>1, <3>1
    <3>2. CASE z.m.p # p
      <4>1. z \in T /\ sf2[z.m.p] = sf[z.m.p] /\ (\A w \in T : w.m.p = z.m.p => w \in T2)
        BY <2>1, <3>2
      <4> QED BY <4>1 DEF MsgsP
    <3> QED BY <3>1, <3>2
  <2> QED BY <2>1, <2>2 DEF MsgsP
<1>9. ActiveP(cs, T2, sf2)
  BY DEF ActiveP
<1>10. ListenP(cs, T2, F2, sf2)
  BY DEF ListenP
<1>11. StaleP(cs, rpf, T2, F2, sf2)
  BY DEF StaleP
<1> QED BY <1>1, <1>2, <1>3, <1>4, <1>5, <1>6, <1>7, <1>8, <1>9, <1>10, <1>11

\* The server gives a port up and says so.
LEMMA CancelsAsked ==
  ASSUME NEW cs, NEW rpf, NEW G, NEW T, NEW F, NEW sf, PInv(cs, rpf, G, T, F, sf),
         NEW T2, NEW F2, NEW sf2, NEW d, NEW p, NEW x, NEW y,
         Taken(T, x, T2), x.m.t = "cancel", x.m.wr, x.m.d = d, x.m.p = p, sf2[p] = None,
         \A q \in Ports : q # p => sf2[q] = sf[q],
         Added(F, y, F2), y.m.t = "success", y.m.d = d,
         y.m.p = p
  PROVE  PInv(cs, rpf, G, T2, F2, sf2)
<1>f. /\ x.m.t = "cancel" /\ y.m.t = "success" /\ x.m.wr
      /\ sf2[p] = None /\ (\A q \in Ports : q # p => sf2[q] = sf[q])
      /\ x \in T /\ T2 = T \ {x} /\ x.n \in Int /\ (\A z \in T2 : x.n < z.n /\ z.n \in Int)
      /\ x.m.d = d /\ x.m.p = p
      /\ F2 = F \cup {y} /\ (\A z \in F : z.n < y.n /\ z.n \in Int) /\ y.n \in Int /\ y.m.d = d /\ y.m.p = p
      /\ Answer(y) /\ (\A q : ~OpenOn(y, q))
  BY DEF Taken, Added, Placed, Answer, OpenOn
<1>g. /\ d \in Downs /\ p \in Ports /\ sf[p] = d
      /\ \A z \in T2 : z.m.p = p => z.m.t = "forward"
  <2>1. d \in Downs /\ p \in Ports /\ sf[p] = d
    BY <1>f DEF PInv, AskP, MsgsP
  <2>2. \A z \in T2 : z.m.p = p => z.m.t = "forward"
    BY <1>f DEF PInv, AskP, MsgsP
  <2> QED BY <2>1, <2>2
<1>k. /\ \A e \in Downs : ~Listens(cs[e], p)
      /\ \A z \in F : Answer(z) /\ z.m.p = p => ~Waits(cs[z.m.d], "forward", p)
      /\ sf2[p] = None
  BY <1>f, <1>g DEF PInv, ActiveP, AnswerP
<1>h. /\ Waits(cs[d], "cancel", p) /\ cs[d].globreq_head # None /\ ~Waits(cs[d], "forward", p)
      /\ \A z \in F : Answer(z) => z.m.d # d
      /\ \A z \in T2 : z.m.wr => z.m.d # d
  BY <1>f DEF PInv, AskP, Waits
<1> USE <1>g, <1>h, <1>k, <1>f DEF PInv, Answer, OpenOn, Waits, Listens
<1>1. FwdP(cs, rpf)
  BY DEF FwdP, FwdPq
<1>2. StateP(cs)
  BY DEF StateP
<1>3. ListP(cs, G)
  BY DEF ListP
<1>4. OrderP(G, T2, F2)
  BY DEF OrderP
<1>5. WaitP(cs, T2, F2)
  BY DEF WaitP
<1>6. AskP(cs, T2, F2)
  BY DEF AskP
<1>7. AnswerP(cs, T2, F2, sf2)
  BY DEF AnswerP
<1>8. MsgsP(T2, sf2)
  <2>1. /\ \A z \in T2 : z \in T /\ z.m.p \in Ports /\ z.m.t \in {"forward", "cancel"}
        /\ \A z, w \in T2 : w.m.p = z.m.p =>
             (w.m.t = z.m.t => w = z) /\ (w.m.t = "forward" /\ z.m.t = "cancel" => z.n < w.n)
    BY DEF AskP, MsgsP
  <2>2. ASSUME NEW z \in T2
        PROVE  /\ z.m.t = "cancel" => sf2[z.m.p] = z.m.d
               /\ z.m.t = "forward" /\ sf2[z.m.p] # None =>
                    \E y1 \in T2 : y1.m.t = "cancel" /\ y1.m.p = z.m.p /\ y1.n < z.n
    <3>1. CASE z.m.p = p
      BY <2>1, <3>1
    <3>2. CASE z.m.p # p
      <4>1. z \in T /\ sf2[z.m.p] = sf[z.m.p] /\ (\A w \in T : w.m.p = z.m.p => w \in T2)
        BY <2>1, <3>2
      <4> QED BY <4>1 DEF MsgsP
    <3> QED BY <3>1, <3>2
  <2> QED BY <2>1, <2>2 DEF MsgsP
<1>9. ActiveP(cs, T2, sf2)
  BY DEF ActiveP
<1>10. ListenP(cs, T2, F2, sf2)
  BY DEF ListenP
<1>11. StaleP(cs, rpf, T2, F2, sf2)
  BY DEF StaleP
<1> QED BY <1>1, <1>2, <1>3, <1>4, <1>5, <1>6, <1>7, <1>8, <1>9, <1>10, <1>11

\* The server gives a port up for a downstream that has gone.
LEMMA CancelsUnasked ==
  ASSUME NEW cs, NEW rpf, NEW G, NEW T, NEW F, NEW sf, PInv(cs, rpf, G, T, F, sf),
         NEW T2, NEW sf2, NEW d, NEW p, NEW x,
         Taken(T, x, T2), x.m.t = "cancel", ~x.m.wr, x.m.d = d, x.m.p = p, sf2[p] = None,
         \A q \in Ports : q # p => sf2[q] = sf[q]
  PROVE  PInv(cs, rpf, G, T2, F, sf2)
<1>f. /\ x.m.t = "cancel" /\ ~x.m.wr
      /\ sf2[p] = None /\ (\A q \in Ports : q # p => sf2[q] = sf[q])
      /\ x \in T /\ T2 = T \ {x} /\ x.n \in Int /\ (\A z \in T2 : x.n < z.n /\ z.n \in Int)
      /\ x.m.d = d /\ x.m.p = p
  BY DEF Taken, Placed
<1>g. /\ d \in Downs /\ p \in Ports /\ sf[p] = d
      /\ \A z \in T2 : z.m.p = p => z.m.t = "forward"
  <2>1. d \in Downs /\ p \in Ports /\ sf[p] = d
    BY <1>f DEF PInv, AskP, MsgsP
  <2>2. \A z \in T2 : z.m.p = p => z.m.t = "forward"
    BY <1>f DEF PInv, AskP, MsgsP
  <2> QED BY <2>1, <2>2
<1>k. /\ \A e \in Downs : ~Listens(cs[e], p)
      /\ \A z \in F : Answer(z) /\ z.m.p = p => ~Waits(cs[z.m.d], "forward", p)
      /\ sf2[p] = None
  BY <1>f, <1>g DEF PInv, ActiveP, AnswerP
<1> USE <1>g, <1>k, <1>f DEF PInv, Answer, OpenOn, Waits, Listens
<1>1. FwdP(cs, rpf)
  BY DEF FwdP, FwdPq
<1>2. StateP(cs)
  BY DEF StateP
<1>3. ListP(cs, G)
  BY DEF ListP
<1>4. OrderP(G, T2, F)
  BY DEF OrderP
<1>5. WaitP(cs, T2, F)
  BY DEF WaitP
<1>6. AskP(cs, T2, F)
  BY DEF AskP
<1>7. AnswerP(cs, T2, F, sf2)
  BY DEF AnswerP
<1>8. MsgsP(T2, sf2)
  <2>1. /\ \A z \in T2 : z \in T /\ z.m.p \in Ports /\ z.m.t \in {"forward", "cancel"}
        /\ \A z, w \in T2 : w.m.p = z.m.p =>
             (w.m.t = z.m.t => w = z) /\ (w.m.t = "forward" /\ z.m.t = "cancel" => z.n < w.n)
    BY DEF AskP, MsgsP
  <2>2. ASSUME NEW z \in T2
        PROVE  /\ z.m.t = "cancel" => sf2[z.m.p] = z.m.d
               /\ z.m.t = "forward" /\ sf2[z.m.p] # None =>
                    \E y1 \in T2 : y1.m.t = "cancel" /\ y1.m.p = z.m.p /\ y1.n < z.n
    <3>1. CASE z.m.p = p
      BY <2>1, <3>1
    <3>2. CASE z.m.p # p
      <4>1. z \in T /\ sf2[z.m.p] = sf[z.m.p] /\ (\A w \in T : w.m.p = z.m.p => w \in T2)
        BY <2>1, <3>2
      <4> QED BY <4>1 DEF MsgsP
    <3> QED BY <3>1, <3>2
  <2> QED BY <2>1, <2>2 DEF MsgsP
<1>9. ActiveP(cs, T2, sf2)
  BY DEF ActiveP
<1>10. ListenP(cs, T2, F, sf2)
  BY DEF ListenP
<1>11. StaleP(cs, rpf, T2, F, sf2)
  BY DEF StaleP
<1> QED BY <1>1, <1>2, <1>3, <1>4, <1>5, <1>6, <1>7, <1>8, <1>9, <1>10, <1>11

\* The answer that arrives is the one to the first request of the list.
LEMMA AnswersMeet ==
  ASSUME NEW cs, NEW rpf, NEW G, NEW T, NEW F, NEW sf, PInv(cs, rpf, G, T, F, sf),
         NEW G2, NEW F2, NEW g, NEW y, Taken(G, g, G2), Taken(F, y, F2), Answer(y)
  PROVE  g.m = y.m.d
<1>1. /\ g \in G /\ G2 = G \ {g} /\ y \in F /\ F2 = F \ {y}
      /\ \A z \in G2 : g.n < z.n
      /\ \A z \in F2 : y.n < z.n
      /\ \A z \in F : z.n \in Int
  BY DEF Taken, Placed
<1>2. y.m.d \in Downs /\ cs[y.m.d].globreq_head # None
  BY <1>1 DEF PInv, AnswerP, Waits
<1>3. PICK v \in G : v.m = y.m.d
  BY <1>2 DEF PInv, ListP
<1>4. SUFFICES ASSUME v # g PROVE FALSE
  BY <1>3
<1>5. g.n < v.n
  BY <1>1, <1>4
<1>6. g.m \in Downs /\ cs[g.m].globreq_head # None
  BY <1>1 DEF PInv, ListP
<1>7. /\ \A a \in F, b \in F : Answer(a) /\ Answer(b) /\ a.m.d = g.m /\ b.m.d = v.m => a.n < b.n
      /\ \A a \in T, b \in F : ~(a.m.wr /\ Answer(b) /\ a.m.d = g.m /\ b.m.d = v.m)
  BY <1>1, <1>5 DEF PInv, OrderP
<1>8. \E z \in F : Answer(z) /\ z.m.d = g.m
  BY <1>1, <1>3, <1>6, <1>7 DEF PInv, WaitP
<1> QED BY <1>1, <1>3, <1>7, <1>8

\* The upstream hears that a port is listened on.
LEMMA HearsGranted ==
  ASSUME NEW cs, NEW rpf, NEW G, NEW T, NEW F, NEW sf, PInv(cs, rpf, G, T, F, sf),
         NEW cs2, NEW G2, NEW F2, NEW d, NEW p, NEW g, NEW y,
         Taken(G, g, G2), Taken(F, y, F2), y.m.d = d, y.m.p = p, y.m.t = "success",
         Waits(cs[d], "forward", p), cs2[d].fwds[p].st = "active",
         cs2[d].fwds[p].rpf = cs[d].fwds[p].rpf,
         \A e \in Downs : e # d => cs2[e] = cs[e],
         \A q \in Ports : q # p => cs2[d].fwds[q] = cs[d].fwds[q],
         cs2[d].globreq_head = None,
         cs2[d].st = cs[d].st
  PROVE  PInv(cs2, rpf, G2, T, F2, sf)
<1>f. /\ y.m.t = "success"
      /\ Waits(cs[d], "forward", p)
      /\ cs2[d].fwds[p].st = "active"
      /\ cs2[d].fwds[p].rpf = cs[d].fwds[p].rpf
      /\ cs2[d].globreq_head = None /\ cs2[d].st = cs[d].st
      /\ \A e \in Downs : e # d => cs2[e] = cs[e]
      /\ \A q \in Ports : q # p => cs2[d].fwds[q] = cs[d].fwds[q]
      /\ y \in F /\ F2 = F \ {y} /\ y.n \in Int /\ (\A z \in F2 : y.n < z.n /\ z.n \in Int)
      /\ y.m.d = d /\ y.m.p = p /\ Answer(y) /\ (\A q : ~OpenOn(y, q))
      /\ g \in G /\ G2 = G \ {g}
  BY DEF Taken, Placed, Answer, OpenOn
<1>m. g.m = d
  BY AnswersMeet DEF Answer
<1>g. /\ d \in Downs /\ p \in Ports /\ cs[d].globreq_head # None
      /\ \A z \in F2 : Answer(z) => z.m.d # d
      /\ \A z \in T : z.m.wr => z.m.d # d
      /\ \A z \in G2 : z.m # d
  BY <1>f, <1>m DEF PInv, AskP, AnswerP, ListP, Waits
<1>h. /\ \A q \in Ports : q # p => ~Waits(cs[d], "forward", q) /\ ~Waits(cs[d], "cancel", q)
      /\ \A q \in Ports : ~Waits(cs2[d], "forward", q) /\ ~Waits(cs2[d], "cancel", q)
      /\ cs[d].st \notin {"none", "freed"}
  BY <1>f, <1>g DEF PInv, Waits, AnswerP, StateP
<1>k. /\ cs[d].fwds[p].st = "waiting" /\ cs[d].fwds[p].rpf /\ rpf[p] = d /\ sf[p] = d
      /\ \A z \in T : z.m.p # p
      /\ ~Waits(cs[d], "cancel", p)
  BY <1>f, <1>g DEF PInv, FwdP, FwdPq, AnswerP, Waits
<1>q. /\ \A q \in Ports : Listens(cs2[d], q) <=> (q = p \/ Listens(cs[d], q))
      /\ \A e \in Downs : \A q \in Ports : cs2[e].fwds[q].rpf <=> cs[e].fwds[q].rpf
      /\ cs2[d].fwds[p].st = "active" /\ cs2[d].fwds[p].rpf /\ cs2[d].globreq_head = None
      /\ \A e \in Downs : \A q \in Ports : e # d \/ q # p => cs2[e].fwds[q] = cs[e].fwds[q]
  BY <1>f, <1>k, <1>g DEF Listens
<1> USE <1>m, <1>g, <1>h, <1>k, <1>f DEF PInv, Answer, OpenOn, Waits, Listens
<1>1. FwdP(cs2, rpf)
  <2> SUFFICES ASSUME NEW e \in Downs, NEW q \in Ports
               PROVE  FwdPq(cs2, rpf, e, q)
    BY DEF FwdP, FwdPq
  <2>1. FwdPq(cs, rpf, e, q)
    BY DEF FwdP, FwdPq
  <2>2. CASE e # d
    BY <2>1, <2>2 DEF FwdPq
  <2>3. CASE e = d /\ q = p
    BY <2>3, <1>q DEF FwdPq
  <2>4. CASE e = d /\ q # p
    BY <2>1, <2>4, <1>q DEF FwdPq
  <2> QED BY <2>2, <2>3, <2>4
<1>2. StateP(cs2)
  BY DEF StateP
<1>3. ListP(cs2, G2)
  BY DEF ListP
<1>4. OrderP(G2, T, F2)
  BY DEF OrderP
<1>5. WaitP(cs2, T, F2)
  BY DEF WaitP
<1>6. AskP(cs2, T, F2)
  BY DEF AskP
<1>7. AnswerP(cs2, T, F2, sf)
  BY DEF AnswerP
<1>8. MsgsP(T, sf)
  BY DEF MsgsP
<1>9. ActiveP(cs2, T, sf)
  BY DEF ActiveP
<1>10. ListenP(cs2, T, F2, sf)
  <2> SUFFICES ASSUME NEW q \in Ports, sf[q] # None
               PROVE  /\ sf[q] \in Downs
                      /\ \/ \E x \in T : x.m.t = "cancel" /\ x.m.p = q
                         \/ \E x \in F2 : x.m.t = "success" /\ x.m.d = sf[q] /\ x.m.p = q /\ Waits(cs2[sf[q]], "forward", q)
                         \/ Listens(cs2[sf[q]], q)
    BY DEF ListenP
  <2>1. CASE q = p
    BY <2>1, <1>q
  <2>2. CASE q # p
    <3>1. /\ sf[q] \in Downs
          /\ \/ \E x \in T : x.m.t = "cancel" /\ x.m.p = q
             \/ \E x \in F2 : x.m.t = "success" /\ x.m.d = sf[q] /\ x.m.p = q /\ Waits(cs[sf[q]], "forward", q)
             \/ Listens(cs[sf[q]], q)
      BY <2>2 DEF ListenP
    <3>2. Listens(cs[sf[q]], q) => Listens(cs2[sf[q]], q)
      BY <3>1, <1>q
    <3>3. Waits(cs[sf[q]], "forward", q) => Waits(cs2[sf[q]], "forward", q)
      BY <3>1, <2>2
    <3> QED BY <3>1, <3>2, <3>3
  <2> QED BY <2>1, <2>2
<1>11. StaleP(cs2, rpf, T, F2, sf)
  <2> SUFFICES ASSUME NEW e \in Downs, NEW q \in Ports, rpf[q] = e, ~cs2[e].fwds[q].rpf
               PROVE  /\ cs2[e].fwds[q].st = "none" /\ sf[q] = None
                      /\ \A x \in T : x.m.p # q
                      /\ \A x \in F2 : ~OpenOn(x, q)
    BY DEF StaleP
  <2>1. ~cs[e].fwds[q].rpf /\ (e # d \/ q # p)
    BY <1>q
  <2> QED BY <2>1, <1>q DEF StaleP
<1> QED BY <1>1, <1>2, <1>3, <1>4, <1>5, <1>6, <1>7, <1>8, <1>9, <1>10, <1>11

\* The upstream hears that a port is refused: its table keeps the entry.
LEMMA HearsRefused ==
  ASSUME NEW cs, NEW rpf, NEW G, NEW T, NEW F, NEW sf, PInv(cs, rpf, G, T, F, sf),
         NEW cs2, NEW G2, NEW F2, NEW d, NEW p, NEW g, NEW y,
         Taken(G, g, G2), Taken(F, y, F2), y.m.d = d, y.m.p = p, y.m.t = "failure",
         cs2[d].fwds[p].st = "none", ~cs2[d].fwds[p].rpf,
         \A e \in Downs : e # d => cs2[e] = cs[e],
         \A q \in Ports : q # p => cs2[d].fwds[q] = cs[d].fwds[q],
         cs2[d].globreq_head = None,
         cs2[d].st = cs[d].st
  PROVE  PInv(cs2, rpf, G2, T, F2, sf)
<1>f. /\ y.m.t = "failure"
      /\ cs2[d].fwds[p].st = "none"
      /\ ~cs2[d].fwds[p].rpf
      /\ cs2[d].globreq_head = None /\ cs2[d].st = cs[d].st
      /\ \A e \in Downs : e # d => cs2[e] = cs[e]
      /\ \A q \in Ports : q # p => cs2[d].fwds[q] = cs[d].fwds[q]
      /\ y \in F /\ F2 = F \ {y} /\ y.n \in Int /\ (\A z \in F2 : y.n < z.n /\ z.n \in Int)
      /\ y.m.d = d /\ y.m.p = p /\ Answer(y) /\ (\A q : ~OpenOn(y, q))
      /\ g \in G /\ G2 = G \ {g}
  BY DEF Taken, Placed, Answer, OpenOn
<1>m. g.m = d
  BY AnswersMeet DEF Answer
<1>g. /\ d \in Downs /\ p \in Ports /\ cs[d].globreq_head # None
      /\ \A z \in F2 : Answer(z) => z.m.d # d
      /\ \A z \in T : z.m.wr => z.m.d # d
      /\ \A z \in G2 : z.m # d
  BY <1>f, <1>m DEF PInv, AskP, AnswerP, ListP, Waits
<1>h. /\ \A q \in Ports : q # p => ~Waits(cs[d], "forward", q) /\ ~Waits(cs[d], "cancel", q)
      /\ \A q \in Ports : ~Waits(cs2[d], "forward", q) /\ ~Waits(cs2[d], "cancel", q)
      /\ cs[d].st \notin {"none", "freed"}
  BY <1>f, <1>g DEF PInv, Waits, AnswerP, StateP
<1>k. /\ cs[d].fwds[p].st = "waiting" /\ cs[d].fwds[p].rpf /\ rpf[p] = d /\ sf[p] = None
      /\ \A z \in T : z.m.p # p
      /\ \A z \in F2 : ~OpenOn(z, p)
      /\ ~Waits(cs[d], "cancel", p) /\ Waits(cs[d], "forward", p)
  BY <1>f, <1>g DEF PInv, FwdP, FwdPq, AnswerP, Waits
<1> USE <1>m, <1>g, <1>h, <1>k, <1>f DEF PInv, Answer, OpenOn, Waits, Listens
<1>1. FwdP(cs2, rpf)
  BY DEF FwdP, FwdPq
<1>2. StateP(cs2)
  BY DEF StateP
<1>3. ListP(cs2, G2)
  BY DEF ListP
<1>4. OrderP(G2, T, F2)
  BY DEF OrderP
<1>5. WaitP(cs2, T, F2)
  BY DEF WaitP
<1>6. AskP(cs2, T, F2)
  BY DEF AskP
<1>7. AnswerP(cs2, T, F2, sf)
  BY DEF AnswerP
<1>8. MsgsP(T, sf)
  BY DEF MsgsP
<1>9. ActiveP(cs2, T, sf)
  BY DEF ActiveP
<1>10. ListenP(cs2, T, F2, sf)
  BY DEF ListenP
<1>11. StaleP(cs2, rpf, T, F2, sf)
  BY DEF StaleP
<1> QED BY <1>1, <1>2, <1>3, <1>4, <1>5, <1>6, <1>7, <1>8, <1>9, <1>10, <1>11

\* The upstream hears that a port has been given up.
LEMMA HearsCancelled ==
  ASSUME NEW cs, NEW rpf, NEW G, NEW T, NEW F, NEW sf, PInv(cs, rpf, G, T, F, sf),
         NEW cs2, NEW G2, NEW F2, NEW d, NEW p, NEW g, NEW y,
         Taken(G, g, G2), Taken(F, y, F2), y.m.d = d, y.m.p = p, y.m.t = "success",
         Waits(cs[d], "cancel", p), cs2[d].fwds[p].st = "none", ~cs2[d].fwds[p].rpf,
         \A e \in Downs : e # d => cs2[e] = cs[e],
         \A q \in Ports : q # p => cs2[d].fwds[q] = cs[d].fwds[q],
         cs2[d].globreq_head = None,
         cs2[d].st = cs[d].st
  PROVE  PInv(cs2, rpf, G2, T, F2, sf)
<1>f. /\ y.m.t = "success"
      /\ Waits(cs[d], "cancel", p)
      /\ cs2[d].fwds[p].st = "none"
      /\ ~cs2[d].fwds[p].rpf
      /\ cs2[d].globreq_head = None /\ cs2[d].st = cs[d].st
      /\ \A e \in Downs : e # d => cs2[e] = cs[e]
      /\ \A q \in Ports : q # p => cs2[d].fwds[q] = cs[d].fwds[q]
      /\ y \in F /\ F2 = F \ {y} /\ y.n \in Int /\ (\A z \in F2 : y.n < z.n /\ z.n \in Int)
      /\ y.m.d = d /\ y.m.p = p /\ Answer(y) /\ (\A q : ~OpenOn(y, q))
      /\ g \in G /\ G2 = G \ {g}
  BY DEF Taken, Placed, Answer, OpenOn
<1>m. g.m = d
  BY AnswersMeet DEF Answer
<1>g. /\ d \in Downs /\ p \in Ports /\ cs[d].globreq_head # None
      /\ \A z \in F2 : Answer(z) => z.m.d # d
      /\ \A z \in T : z.m.wr => z.m.d # d
      /\ \A z \in G2 : z.m # d
  BY <1>f, <1>m DEF PInv, AskP, AnswerP, ListP, Waits
<1>h. /\ \A q \in Ports : q # p => ~Waits(cs[d], "forward", q) /\ ~Waits(cs[d], "cancel", q)
      /\ \A q \in Ports : ~Waits(cs2[d], "forward", q) /\ ~Waits(cs2[d], "cancel", q)
      /\ cs[d].st \notin {"none", "freed"}
  BY <1>f, <1>g DEF PInv, Waits, AnswerP, StateP
<1>k. /\ cs[d].fwds[p].st = "active" /\ ~cs[d].fwds[p].rpf
      /\ ~Waits(cs[d], "forward", p)
  BY <1>f, <1>g DEF PInv, FwdP, FwdPq, Waits
<1> USE <1>m, <1>g, <1>h, <1>k, <1>f DEF PInv, Answer, OpenOn, Waits, Listens
<1>1. FwdP(cs2, rpf)
  BY DEF FwdP, FwdPq
<1>2. StateP(cs2)
  BY DEF StateP
<1>3. ListP(cs2, G2)
  BY DEF ListP
<1>4. OrderP(G2, T, F2)
  BY DEF OrderP
<1>5. WaitP(cs2, T, F2)
  BY DEF WaitP
<1>6. AskP(cs2, T, F2)
  BY DEF AskP
<1>7. AnswerP(cs2, T, F2, sf)
  BY DEF AnswerP
<1>8. MsgsP(T, sf)
  BY DEF MsgsP
<1>9. ActiveP(cs2, T, sf)
  BY DEF ActiveP
<1>10. ListenP(cs2, T, F2, sf)
  BY DEF ListenP
<1>11. StaleP(cs2, rpf, T, F2, sf)
  BY DEF StaleP
<1> QED BY <1>1, <1>2, <1>3, <1>4, <1>5, <1>6, <1>7, <1>8, <1>9, <1>10, <1>11

\* That keeps the invariant of the ports.
LEMMA GivesUpAll ==
  ASSUME NEW cs, NEW rpf, NEW G, NEW T, NEW F, NEW sf, PInv(cs, rpf, G, T, F, sf),
         NEW cs2, NEW rpf2, NEW T2, NEW d, NEW X,
         d \in Downs, GaveUp(cs, cs2, rpf, rpf2, d), Placed(T), T2 = T \cup X,
         CancelsOf(X, T, cs, d)
  PROVE  PInv(cs2, rpf2, G, T2, F, sf)
<1>f. /\ d \in Downs /\ \A e \in Downs : e # d => cs2[e] = cs[e]
      /\ cs2[d].globreq_head = cs[d].globreq_head /\ cs2[d].st = cs[d].st
      /\ \A p \in Ports : cs[d].fwds[p].st # "active" => cs2[d].fwds[p] = cs[d].fwds[p] /\ rpf2[p] = rpf[p]
      /\ \A p \in Ports : cs[d].fwds[p].st = "active" =>
            cs2[d].fwds[p].st = "none" /\ ~cs2[d].fwds[p].rpf /\ rpf2[p] = None
      /\ \A e \in Downs : e # None
      /\ \A p \in Ports : ~Waits(cs[d], "cancel", p)
  BY ConstAssumption DEF GaveUp
<1>x. /\ T2 = T \cup X /\ (\A z \in T : z.n \in Int)
      /\ \A x \in X : x.n \in Int /\ (\A z \in T : z.n < x.n)
      /\ \A x \in X : x.m.t = "cancel" /\ x.m.d = d /\ x.m.p \in Ports /\ ~x.m.wr /\ cs[d].fwds[x.m.p].st = "active"
      /\ \A p \in Ports : cs[d].fwds[p].st = "active" => \E x \in X : x.m.p = p
      /\ \A x, y \in X : x.m.p = y.m.p => x = y
  BY DEF Placed, CancelsOf
<1>g. \A p \in Ports : cs[d].fwds[p].st = "active" => /\ Listens(cs[d], p) /\ sf[p] = d /\ rpf[p] = d
                                                        /\ \A z \in T : z.m.p # p
  BY <1>f DEF PInv, FwdP, FwdPq, ActiveP, Listens
<1>h. /\ \A p \in Ports : \A e \in Downs : cs[d].fwds[p].st = "active" /\ e # d => ~cs[e].fwds[p].rpf
      /\ \A p \in Ports : cs[d].fwds[p].st = "active" => ~Waits(cs[d], "forward", p) /\ ~Waits(cs[d], "cancel", p)
      /\ \A p, t : Waits(cs2[d], t, p) <=> Waits(cs[d], t, p)
  BY <1>f, <1>g DEF PInv, FwdP, FwdPq, Waits
<1>k. \A z \in F : Answer(z) /\ cs[d].fwds[z.m.p].st = "active" => ~Waits(cs[z.m.d], "forward", z.m.p)
  BY <1>f, <1>g, <1>h DEF PInv, FwdP, FwdPq, AnswerP
<1> USE <1>x, <1>g, <1>h, <1>k, <1>f DEF PInv, Answer, OpenOn, Waits, Listens
<1>1. FwdP(cs2, rpf2)
  BY DEF FwdP, FwdPq
<1>2. StateP(cs2)
  BY DEF StateP
<1>3. ListP(cs2, G)
  BY DEF ListP
<1>4. OrderP(G, T2, F)
  BY DEF OrderP
<1>5. WaitP(cs2, T2, F)
  BY DEF WaitP
<1>6. AskP(cs2, T2, F)
  BY DEF AskP
<1>7. AnswerP(cs2, T2, F, sf)
  BY DEF AnswerP
<1>8. MsgsP(T2, sf)
  BY DEF MsgsP
<1>9. ActiveP(cs2, T2, sf)
  BY DEF ActiveP
<1>10. ListenP(cs2, T2, F, sf)
  BY DEF ListenP
<1>11. StaleP(cs2, rpf2, T2, F, sf)
  BY DEF StaleP
<1> QED BY <1>1, <1>2, <1>3, <1>4, <1>5, <1>6, <1>7, <1>8, <1>9, <1>10, <1>11

\* The server announces a connection to a port it listens on.
LEMMA Announces ==
  ASSUME NEW cs, NEW rpf, NEW G, NEW T, NEW F, NEW sf, PInv(cs, rpf, G, T, F, sf),
         NEW F2, NEW y, NEW p,
         p \in Ports, sf[p] # None, Added(F, y, F2), y.m.t = "open",
         y.m.p = p
  PROVE  PInv(cs, rpf, G, T, F2, sf)
<1>f. /\ p \in Ports /\ sf[p] # None /\ y.m.t = "open" /\ y.m.p = p /\ ~Answer(y) /\ (\A q : OpenOn(y, q) => q = p)
      /\ F2 = F \cup {y} /\ (\A z \in F : z.n < y.n /\ z.n \in Int) /\ y.n \in Int
  BY DEF Added, Placed, Answer, OpenOn
<1> USE <1>f DEF PInv, Answer, OpenOn, Waits, Listens
<1>1. FwdP(cs, rpf)
  BY DEF FwdP, FwdPq
<1>2. StateP(cs)
  BY DEF StateP
<1>3. ListP(cs, G)
  BY DEF ListP
<1>4. OrderP(G, T, F2)
  BY DEF OrderP
<1>5. WaitP(cs, T, F2)
  BY DEF WaitP
<1>6. AskP(cs, T, F2)
  BY DEF AskP
<1>7. AnswerP(cs, T, F2, sf)
  BY DEF AnswerP
<1>8. MsgsP(T, sf)
  BY DEF MsgsP
<1>9. ActiveP(cs, T, sf)
  BY DEF ActiveP
<1>10. ListenP(cs, T, F2, sf)
  BY DEF ListenP
<1>11. StaleP(cs, rpf, T, F2, sf)
  BY DEF StaleP
<1> QED BY <1>1, <1>2, <1>3, <1>4, <1>5, <1>6, <1>7, <1>8, <1>9, <1>10, <1>11

\* The upstream hears of a connection.
LEMMA HearsOpen ==
  ASSUME NEW cs, NEW rpf, NEW G, NEW T, NEW F, NEW sf, PInv(cs, rpf, G, T, F, sf),
         NEW F2, NEW y,
         Taken(F, y, F2),
         y.m.t = "open"
  PROVE  PInv(cs, rpf, G, T, F2, sf)
<1>f. y.m.t = "open" /\ ~Answer(y) /\ y \in F /\ F2 = F \ {y}
  BY DEF Taken, Answer
<1> USE <1>f DEF PInv, Answer, OpenOn, Waits, Listens
<1>1. FwdP(cs, rpf)
  BY DEF FwdP, FwdPq
<1>2. StateP(cs)
  BY DEF StateP
<1>3. ListP(cs, G)
  BY DEF ListP
<1>4. OrderP(G, T, F2)
  BY DEF OrderP
<1>5. WaitP(cs, T, F2)
  BY DEF WaitP
<1>6. AskP(cs, T, F2)
  BY DEF AskP
<1>7. AnswerP(cs, T, F2, sf)
  BY DEF AnswerP
<1>8. MsgsP(T, sf)
  BY DEF MsgsP
<1>9. ActiveP(cs, T, sf)
  BY DEF ActiveP
<1>10. ListenP(cs, T, F2, sf)
  BY DEF ListenP
<1>11. StaleP(cs, rpf, T, F2, sf)
  BY DEF StaleP
<1> QED BY <1>1, <1>2, <1>3, <1>4, <1>5, <1>6, <1>7, <1>8, <1>9, <1>10, <1>11

---------------------------------------------------------------------------
(* Sequences of messages, as the sets Wire(q, b, M).                       *)

\* What is on a wire is a message of the sequence.
LEMMA OnWire ==
  ASSUME NEW S, NEW q \in Seq(S), NEW b \in Int, NEW M
  PROVE  /\ \A x \in Wire(q, b, M) :
                \E k \in 1..Len(q) : x.n = b + k /\ x.n \in Int /\ x.m = q[k] /\ x.m \in M
         /\ \A k \in 1..Len(q) : q[k] \in M => [n |-> b + k, m |-> q[k]] \in Wire(q, b, M)
         /\ \A x, y \in Wire(q, b, M) : x.n = y.n => x = y
         /\ Placed(Wire(q, b, M))
         /\ (\A k \in 1..Len(q) : q[k] \notin M) => Wire(q, b, M) = {}
<1>0. Len(q) \in Nat
  OBVIOUS
<1>1. \A x \in Wire(q, b, M) :
         \E k \in 1..Len(q) : x = [n |-> b + k, m |-> q[k]] /\ q[k] \in M
  BY DEF Wire
<1>2. \A x \in Wire(q, b, M) :
         \E k \in 1..Len(q) : x.n = b + k /\ x.n \in Int /\ x.m = q[k] /\ x.m \in M
  BY <1>0, <1>1
<1>3. \A k \in 1..Len(q) : q[k] \in M => [n |-> b + k, m |-> q[k]] \in Wire(q, b, M)
  BY DEF Wire
<1>4. \A x, y \in Wire(q, b, M) : x.n = y.n => x = y
  <2> SUFFICES ASSUME NEW x \in Wire(q, b, M), NEW y \in Wire(q, b, M), x.n = y.n PROVE x = y
    OBVIOUS
  <2>1. PICK k \in 1..Len(q) : x = [n |-> b + k, m |-> q[k]]
    BY <1>1
  <2>2. PICK j \in 1..Len(q) : y = [n |-> b + j, m |-> q[j]]
    BY <1>1
  <2>3. k = j
    BY <2>1, <2>2, <1>0
  <2> QED BY <2>1, <2>2, <2>3
<1> QED BY <1>1, <1>2, <1>3, <1>4 DEF Placed

\* The head of the sequence is taken.
LEMMA TakeHead ==
  ASSUME NEW S, NEW q \in Seq(S), q # << >>, NEW b \in Int, NEW M
  PROVE  /\ Tail(q) \in Seq(S) /\ Head(q) \in S /\ b + 1 \in Int
         /\ Head(q) \in M =>
                \E x : x.m = Head(q) /\ Taken(Wire(q, b, M), x, Wire(Tail(q), b + 1, M))
         /\ Head(q) \notin M => Wire(Tail(q), b + 1, M) = Wire(q, b, M)
<1> DEFINE h == [n |-> b + 1, m |-> Head(q)]
           Q == Wire(q, b, M)
           R == Wire(Tail(q), b + 1, M)
<1>1. /\ Len(q) \in Nat /\ Len(q) >= 1 /\ Len(Tail(q)) = Len(q) - 1 /\ Head(q) = q[1]
      /\ \A k \in 1..Len(q) - 1 : Tail(q)[k] = q[k + 1]
      /\ Tail(q) \in Seq(S) /\ Head(q) \in S /\ b + 1 \in Int
  OBVIOUS
<1>2. \A x \in R : x \in Q /\ x.n \in Int /\ x.n > b + 1
  <2> SUFFICES ASSUME NEW x \in R PROVE x \in Q /\ x.n \in Int /\ x.n > b + 1
    OBVIOUS
  <2>1. PICK k \in 1..Len(Tail(q)) : x = [n |-> b + 1 + k, m |-> Tail(q)[k]] /\ Tail(q)[k] \in M
    BY DEF Wire
  <2> DEFINE j == k + 1
  <2>2. j \in 1..Len(q) /\ x = [n |-> b + j, m |-> q[j]] /\ q[j] \in M
    BY <1>1, <2>1
  <2>3. b + j \in Int /\ b + j > b + 1 /\ x.n = b + j
    BY <1>1, <2>1, <2>2
  <2>4. x \in Q
    BY <2>2 DEF Wire
  <2> QED BY <2>3, <2>4
<1>3. \A x \in Q : x = h \/ x \in R
  <2> SUFFICES ASSUME NEW x \in Q, x # h PROVE x \in R
    OBVIOUS
  <2>1. PICK k \in 1..Len(q) : x = [n |-> b + k, m |-> q[k]] /\ q[k] \in M
    BY DEF Wire
  <2>2. k # 1
    BY <2>1, <1>1
  <2> DEFINE j == k - 1
  <2>3. j \in 1..Len(Tail(q)) /\ x = [n |-> b + 1 + j, m |-> Tail(q)[j]] /\ Tail(q)[j] \in M
    BY <1>1, <2>1, <2>2
  <2> QED BY <2>3 DEF Wire
<1>4. h.n = b + 1 /\ h \notin R
  BY <1>2
<1>5. Head(q) \in M => h \in Q
  BY <1>1 DEF Wire
<1>6. Head(q) \notin M => h \notin Q
  BY DEF Wire
<1>7. Placed(Q)
  BY OnWire
<1>8. Head(q) \in M => Taken(Q, h, R)
  <2> HIDE DEF Q, R, h
  <2> QED BY <1>2, <1>3, <1>4, <1>5, <1>7 DEF Taken
<1>10. h.m = Head(q)
  OBVIOUS
<1>9. Head(q) \notin M => R = Q
  <2> HIDE DEF Q, R, h
  <2> QED BY <1>2, <1>3, <1>6
<1> HIDE DEF h
<1> QED BY <1>1, <1>8, <1>9, <1>10

\* Taking the first packet off a queue leaves the messages M on it alone when
\* the packet is not one of them, ...
LEMMA TakeOther ==
  ASSUME NEW S, NEW q \in Seq(S), q # << >>, NEW b \in Int, NEW M, Head(q) \notin M
  PROVE  b + 1 \in Int /\ Wire(Tail(q), b + 1, M) = Wire(q, b, M)
  BY TakeHead

\* ... and otherwise takes the first of them.
LEMMA TakeThis ==
  ASSUME NEW S, NEW q \in Seq(S), q # << >>, NEW b \in Int, NEW M, Head(q) \in M
  PROVE  b + 1 \in Int /\ \E x : x.m = Head(q) /\ Taken(Wire(q, b, M), x, Wire(Tail(q), b + 1, M))
  BY TakeHead

\* Messages are added at the end: all of them, none of M among them, or one.
LEMMA AddAll ==
  ASSUME NEW S, NEW q \in Seq(S), NEW w \in Seq(S), NEW b \in Int, NEW M
  PROVE  /\ Wire(q \o w, b, M) = Wire(q, b, M) \cup Wire(w, b + Len(q), M)
         /\ \A x \in Wire(q, b, M), y \in Wire(w, b + Len(q), M) : x.n < y.n
<1> DEFINE r == q \o w
<1>1. /\ Len(q) \in Nat /\ Len(w) \in Nat /\ r \in Seq(S) /\ Len(r) = Len(q) + Len(w)
      /\ \A k \in 1..Len(q) : r[k] = q[k]
      /\ \A k \in 1..Len(w) : r[Len(q) + k] = w[k]
      /\ b + Len(q) \in Int
  OBVIOUS
<1> HIDE DEF r
<1>2. \A x \in Wire(r, b, M) : x \in Wire(q, b, M) \/ x \in Wire(w, b + Len(q), M)
  <2> SUFFICES ASSUME NEW x \in Wire(r, b, M) PROVE x \in Wire(q, b, M) \/ x \in Wire(w, b + Len(q), M)
    OBVIOUS
  <2>1. PICK k \in 1..Len(r) : x = [n |-> b + k, m |-> r[k]] /\ r[k] \in M
    BY DEF Wire
  <2>2. CASE k <= Len(q)
    <3>1. k \in 1..Len(q) /\ x = [n |-> b + k, m |-> q[k]] /\ q[k] \in M
      BY <1>1, <2>1, <2>2
    <3> QED BY <3>1 DEF Wire
  <2>3. CASE k > Len(q)
    <3> DEFINE j == k - Len(q)
    <3>1. j \in 1..Len(w) /\ x = [n |-> b + Len(q) + j, m |-> w[j]] /\ w[j] \in M
      BY <1>1, <2>1, <2>3
    <3> QED BY <3>1 DEF Wire
  <2> QED BY <2>2, <2>3, <1>1
<1>3. \A x \in Wire(q, b, M) : x \in Wire(r, b, M) /\ x.n \in Int /\ x.n <= b + Len(q)
  <2> SUFFICES ASSUME NEW x \in Wire(q, b, M)
               PROVE  x \in Wire(r, b, M) /\ x.n \in Int /\ x.n <= b + Len(q)
    OBVIOUS
  <2>1. PICK k \in 1..Len(q) : x = [n |-> b + k, m |-> q[k]] /\ q[k] \in M
    BY DEF Wire
  <2>2. k \in 1..Len(r) /\ x = [n |-> b + k, m |-> r[k]] /\ r[k] \in M /\ x.n = b + k
    BY <1>1, <2>1
  <2>3. x \in Wire(r, b, M)
    BY <2>2 DEF Wire
  <2> QED BY <1>1, <2>2, <2>3
<1>4. \A x \in Wire(w, b + Len(q), M) : x \in Wire(r, b, M) /\ x.n \in Int /\ x.n > b + Len(q)
  <2> SUFFICES ASSUME NEW x \in Wire(w, b + Len(q), M)
               PROVE  x \in Wire(r, b, M) /\ x.n \in Int /\ x.n > b + Len(q)
    OBVIOUS
  <2>1. PICK k \in 1..Len(w) : x = [n |-> b + Len(q) + k, m |-> w[k]] /\ w[k] \in M
    BY DEF Wire
  <2> DEFINE j == Len(q) + k
  <2>2. j \in 1..Len(r) /\ x = [n |-> b + j, m |-> r[j]] /\ r[j] \in M /\ x.n = b + j
    BY <1>1, <2>1
  <2>3. x \in Wire(r, b, M)
    BY <2>2 DEF Wire
  <2> QED BY <1>1, <2>1, <2>2, <2>3
<1>5. Wire(r, b, M) = Wire(q, b, M) \cup Wire(w, b + Len(q), M)
  BY <1>2, <1>3, <1>4
<1>6. \A x \in Wire(q, b, M), y \in Wire(w, b + Len(q), M) : x.n < y.n
  BY <1>1, <1>3, <1>4
<1> QED BY <1>5, <1>6 DEF r

\* Packets put on a queue leave the messages M alone when none is one of them,
\* ...
LEMMA AddNone ==
  ASSUME NEW S, NEW q \in Seq(S), NEW w \in Seq(S), NEW b \in Int, NEW M,
         \A k \in 1..Len(w) : w[k] \notin M
  PROVE  Wire(q \o w, b, M) = Wire(q, b, M)
<1>1. Len(q) \in Nat /\ b + Len(q) \in Int
  OBVIOUS
<1>2. Wire(w, b + Len(q), M) = {}
  BY <1>1, OnWire
<1>3. Wire(q \o w, b, M) = Wire(q, b, M) \cup Wire(w, b + Len(q), M)
  BY AddAll
<1> QED BY <1>2, <1>3

\* ... and add one to them when one is.
LEMMA AddOne ==
  ASSUME NEW S, NEW q \in Seq(S), NEW w \in Seq(S), NEW b \in Int, NEW M,
         NEW k \in 1..Len(w), w[k] \in M, \A j \in 1..Len(w) : w[j] \in M => j = k
  PROVE  \E x : x.m = w[k] /\ Added(Wire(q, b, M), x, Wire(q \o w, b, M))
<1> DEFINE c == b + Len(q)
           x == [n |-> c + k, m |-> w[k]]
           Q == Wire(q, b, M)
           R == Wire(q \o w, b, M)
<1>1. c \in Int /\ c + k \in Int /\ x.n \in Int /\ x.m = w[k]
  OBVIOUS
<1>2. Wire(w, c, M) = {x}
  BY DEF Wire
<1>a. /\ R = Q \cup Wire(w, c, M)
      /\ \A y \in Q, z \in Wire(w, c, M) : y.n < z.n
  BY AddAll
<1>3. R = Q \cup {x} /\ \A y \in Q : y.n < x.n
  BY <1>2, <1>a
<1>4. Placed(Q)
  BY OnWire
<1> HIDE DEF Q, R, x
<1>5. x \notin Q
  BY <1>1, <1>3
<1> QED BY <1>1, <1>3, <1>4, <1>5 DEF Added, Q, R

\* One message is added, or one that is not of M.
LEMMA AddLast ==
  ASSUME NEW S, NEW q \in Seq(S), NEW m \in S, NEW b \in Int, NEW M
  PROVE  /\ Append(q, m) \in Seq(S)
         /\ m \in M => \E x : x.m = m /\ Added(Wire(q, b, M), x, Wire(Append(q, m), b, M))
         /\ m \notin M => Wire(Append(q, m), b, M) = Wire(q, b, M)
<1> DEFINE w == <<m>>
<1>1. Append(q, m) = q \o w /\ w \in Seq(S) /\ Len(w) = 1 /\ w[1] = m /\ Append(q, m) \in Seq(S)
  OBVIOUS
<1> HIDE DEF w
<1>2. m \in M => (\E x : x.m = w[1] /\ Added(Wire(q, b, M), x, Wire(q \o w, b, M)))
  <2> SUFFICES ASSUME m \in M
               PROVE  (\E x : x.m = w[1] /\ Added(Wire(q, b, M), x, Wire(q \o w, b, M)))
    OBVIOUS
  <2>1. 1 \in 1..Len(w) /\ w[1] \in M /\ \A j \in 1..Len(w) : w[j] \in M => j = 1
    BY <1>1
  <2> QED BY <1>1, <2>1, AddOne
<1>3. m \notin M => Wire(q \o w, b, M) = Wire(q, b, M)
  <2> SUFFICES ASSUME m \notin M PROVE Wire(q \o w, b, M) = Wire(q, b, M)
    OBVIOUS
  <2>1. \A j \in 1..Len(w) : w[j] \notin M
    BY <1>1
  <2> QED BY <1>1, <2>1, AddNone
<1> QED BY <1>1, <1>2, <1>3

\* The same of a single packet that is not among M, ...
LEMMA AddOther ==
  ASSUME NEW S, NEW q \in Seq(S), NEW m \in S, NEW b \in Int, NEW M, m \notin M
  PROVE  Wire(Append(q, m), b, M) = Wire(q, b, M)
  BY AddLast

\* ... and of one that is.
LEMMA AddThis ==
  ASSUME NEW S, NEW q \in Seq(S), NEW m \in S, NEW b \in Int, NEW M, m \in M
  PROVE  \E x : x.m = m /\ Added(Wire(q, b, M), x, Wire(Append(q, m), b, M))
  BY AddLast

\* SetToSeq lists each element of a finite set once.
LEMMA Listing ==
  ASSUME NEW S, IsFiniteSet(S)
  PROVE  /\ SetToSeq(S) \in Seq(S)
         /\ \A x \in S : \E k \in 1..Len(SetToSeq(S)) : SetToSeq(S)[k] = x
         /\ \A j, k \in 1..Len(SetToSeq(S)) : SetToSeq(S)[j] = SetToSeq(S)[k] => j = k
<1> DEFINE n == Cardinality(S)
           f == SetToSeq(S)
<1>1. n \in Nat /\ ExistsBijection(1..n, S)
  BY FS_CardinalityType
<1>2. PICK g : g \in Bijection(1..n, S)
  BY <1>1 DEF ExistsBijection
<1>3. g \in [1..n -> S] /\ IsInjective(g)
  BY <1>2 DEF Bijection, Injection
<1>4. f \in [1..n -> S] /\ IsInjective(f)
  BY <1>3 DEF SetToSeq
<1> HIDE DEF f
<1>5. IsFiniteSet(1..n) /\ Cardinality(1..n) = n
  BY <1>1, FS_Interval
<1>6. f \in Injection(1..n, S)
  BY <1>4 DEF Injection
<1>7. f \in Surjection(1..n, S)
  BY <1>5, <1>6, FS_Injection
<1>8. f \in Seq(S) /\ Len(f) = n
  BY <1>1, <1>4
<1> QED BY <1>4, <1>7, <1>8 DEF f, Surjection, IsInjective

---------------------------------------------------------------------------
(* Messages, written out.                                                  *)

\* What the models write with EXCEPT, for each combination of fields it sets.
LEMMA MsgUs ==
  ASSUME NEW t, NEW d, NEW us
  PROVE  [Msg(t, d) EXCEPT !.us = us] = Pkt(t, d, us, None, None, FALSE)
<1> DEFINE W == FALSE
<1>0. Msg(t, d) = Pkt(t, d, None, None, None, W)
  BY DEF Msg, Pkt
<1> HIDE DEF W
<1>1. [Pkt(t, d, None, None, None, W) EXCEPT !.us = us] = Pkt(t, d, us, None, None, W)
  BY DEF Pkt
<1> QED BY <1>0, <1>1 DEF W

\* The upstream's number and the server's.
LEMMA MsgUsSid ==
  ASSUME NEW t, NEW d, NEW us, NEW sid
  PROVE  [Msg(t, d) EXCEPT !.us = us, !.sid = sid] = Pkt(t, d, us, sid, None, FALSE)
<1> DEFINE W == FALSE
<1>0. Msg(t, d) = Pkt(t, d, None, None, None, W)
  BY DEF Msg, Pkt
<1> HIDE DEF W
<1>1. [Pkt(t, d, None, None, None, W) EXCEPT !.us = us] = Pkt(t, d, us, None, None, W)
  BY DEF Pkt
<1>2. [Pkt(t, d, us, None, None, W) EXCEPT !.sid = sid] = Pkt(t, d, us, sid, None, W)
  BY DEF Pkt
<1> QED BY <1>0, <1>1, <1>2 DEF W

\* The same two, set in the other order.
LEMMA MsgSidUs ==
  ASSUME NEW t, NEW d, NEW us, NEW sid
  PROVE  [Msg(t, d) EXCEPT !.sid = sid, !.us = us] = Pkt(t, d, us, sid, None, FALSE)
<1> DEFINE W == FALSE
<1>0. Msg(t, d) = Pkt(t, d, None, None, None, W)
  BY DEF Msg, Pkt
<1> HIDE DEF W
<1>1. [Pkt(t, d, None, None, None, W) EXCEPT !.sid = sid] = Pkt(t, d, None, sid, None, W)
  BY DEF Pkt
<1>2. [Pkt(t, d, None, sid, None, W) EXCEPT !.us = us] = Pkt(t, d, us, sid, None, W)
  BY DEF Pkt
<1> QED BY <1>0, <1>1, <1>2 DEF W

\* The server's number alone.
LEMMA MsgSid ==
  ASSUME NEW t, NEW d, NEW sid
  PROVE  [Msg(t, d) EXCEPT !.sid = sid] = Pkt(t, d, None, sid, None, FALSE)
<1> DEFINE W == FALSE
<1>0. Msg(t, d) = Pkt(t, d, None, None, None, W)
  BY DEF Msg, Pkt
<1> HIDE DEF W
<1>1. [Pkt(t, d, None, None, None, W) EXCEPT !.sid = sid] = Pkt(t, d, None, sid, None, W)
  BY DEF Pkt
<1> QED BY <1>0, <1>1 DEF W

\* The server's number and a port.
LEMMA MsgSidP ==
  ASSUME NEW t, NEW d, NEW sid, NEW p
  PROVE  [Msg(t, d) EXCEPT !.sid = sid, !.p = p] = Pkt(t, d, None, sid, p, FALSE)
<1> DEFINE W == FALSE
<1>0. Msg(t, d) = Pkt(t, d, None, None, None, W)
  BY DEF Msg, Pkt
<1> HIDE DEF W
<1>1. [Pkt(t, d, None, None, None, W) EXCEPT !.sid = sid] = Pkt(t, d, None, sid, None, W)
  BY DEF Pkt
<1>2. [Pkt(t, d, None, sid, None, W) EXCEPT !.p = p] = Pkt(t, d, None, sid, p, W)
  BY DEF Pkt
<1> QED BY <1>0, <1>1, <1>2 DEF W

\* A port alone.
LEMMA MsgP ==
  ASSUME NEW t, NEW d, NEW p
  PROVE  [Msg(t, d) EXCEPT !.p = p] = Pkt(t, d, None, None, p, FALSE)
<1> DEFINE W == FALSE
<1>0. Msg(t, d) = Pkt(t, d, None, None, None, W)
  BY DEF Msg, Pkt
<1> HIDE DEF W
<1>1. [Pkt(t, d, None, None, None, W) EXCEPT !.p = p] = Pkt(t, d, None, None, p, W)
  BY DEF Pkt
<1> QED BY <1>0, <1>1 DEF W

\* A port, and an answer wanted.
LEMMA MsgPWr ==
  ASSUME NEW t, NEW d, NEW p
  PROVE  [Msg(t, d) EXCEPT !.p = p, !.wr = TRUE] = Pkt(t, d, None, None, p, TRUE)
<1> DEFINE W == FALSE
           V == TRUE
<1>0. Msg(t, d) = Pkt(t, d, None, None, None, W)
  BY DEF Msg, Pkt
<1> HIDE DEF W, V
<1>1. [Pkt(t, d, None, None, None, W) EXCEPT !.p = p] = Pkt(t, d, None, None, p, W)
  BY DEF Pkt
<1>2. [Pkt(t, d, None, None, p, W) EXCEPT !.wr = V] = Pkt(t, d, None, None, p, V)
  BY DEF Pkt
<1> QED BY <1>0, <1>1, <1>2 DEF W, V

\* The CHANNEL_CLOSE that is sent for a channel.
LEMMA CloseIs ==
  ASSUME NEW d, NEW c
  PROVE  CloseMsg(d, c) = Pkt("close", d, c.us, c.sid, None, FALSE)
  BY MsgSidUs DEF CloseMsg

\* The fields of a packet written out, and when it is one.
LEMMA PktIs ==
  ASSUME NEW t, NEW d, NEW us, NEW sid, NEW p, NEW wr \in BOOLEAN
  PROVE  /\ Pkt(t, d, us, sid, p, wr).t = t /\ Pkt(t, d, us, sid, p, wr).d = d
         /\ Pkt(t, d, us, sid, p, wr).us = us /\ Pkt(t, d, us, sid, p, wr).sid = sid
         /\ Pkt(t, d, us, sid, p, wr).p = p /\ Pkt(t, d, us, sid, p, wr).wr = wr
         /\ t \in Kinds /\ d \in Opt(Downs) /\ us \in Opt(UpIds) /\ sid \in Opt(SrvIds) /\ p \in Opt(Ports) =>
                Pkt(t, d, us, sid, p, wr) \in Packet
  BY DEF Pkt, Packet

\* A packet is its fields.
LEMMA PacketIs ==
  ASSUME NEW m \in Packet
  PROVE  m = Pkt(m.t, m.d, m.us, m.sid, m.p, m.wr)
  BY DEF Pkt, Packet

---------------------------------------------------------------------------
(* What a step leaves alone.                                               *)

\* Packets that are not about a port leave the state of the ports alone, and
\* those that are not about a channel leave the channels alone, when they are
\* put on the wire to the server or taken off it.
LEMMA SameTos ==
  ASSUME NEW w \in Seq(ToMsg), NEW x \in Seq(ToMsg)
  PROVE  /\ SameTo(w, w) /\ SameToPorts(w, w)
         /\ (\A k \in 1..Len(x) : x[k].t \in AboutPort) => SameTo(w, w \o x)
         /\ (\A k \in 1..Len(x) : x[k].t \in AboutChannel) => SameToPorts(w, w \o x)
         /\ w # << >> /\ Head(w).t \in AboutPort => SameTo(w, Tail(w))
         /\ w # << >> /\ Head(w).t \in AboutChannel => SameToPorts(w, Tail(w))
<1>1. SameTo(w, w) /\ SameToPorts(w, w)
  BY DEF SameTo, SameToPorts
<1>2. ASSUME \A k \in 1..Len(x) : x[k].t \in AboutPort PROVE SameTo(w, w \o x)
  <2>1. \A u \in UpIds : \A k \in 1..Len(x) : x[k] \notin ToOf(u)
    BY <1>2 DEF ToOf, AboutPort
  <2>2. \A b \in Int : \A u \in UpIds : Wire(w \o x, b, ToOf(u)) = Wire(w, b, ToOf(u))
    <3> SUFFICES ASSUME NEW b \in Int, NEW u \in UpIds PROVE Wire(w \o x, b, ToOf(u)) = Wire(w, b, ToOf(u))
      OBVIOUS
    <3> QED BY <2>1, AddNone
  <2> QED BY <2>2 DEF SameTo
<1>3. ASSUME \A k \in 1..Len(x) : x[k].t \in AboutChannel PROVE SameToPorts(w, w \o x)
  <2>1. \A k \in 1..Len(x) : x[k] \notin ToPorts
    BY <1>3 DEF ToPorts, AboutChannel
  <2>2. \A b \in Int : Wire(w \o x, b, ToPorts) = Wire(w, b, ToPorts)
    <3> SUFFICES ASSUME NEW b \in Int PROVE Wire(w \o x, b, ToPorts) = Wire(w, b, ToPorts)
      OBVIOUS
    <3> QED BY <2>1, AddNone
  <2> QED BY <2>2 DEF SameToPorts
<1>4. ASSUME w # << >>, Head(w).t \in AboutPort PROVE SameTo(w, Tail(w))
  <2>1. \A u \in UpIds : Head(w) \notin ToOf(u)
    BY <1>4 DEF ToOf, AboutPort
  <2>2. \A b \in Int : b + 1 \in Int /\ \A u \in UpIds : Wire(Tail(w), b + 1, ToOf(u)) = Wire(w, b, ToOf(u))
    <3> SUFFICES ASSUME NEW b \in Int, NEW u \in UpIds PROVE Wire(Tail(w), b + 1, ToOf(u)) = Wire(w, b, ToOf(u))
      OBVIOUS
    <3> QED BY <1>4, <2>1, TakeOther
  <2> QED BY <2>2 DEF SameTo
<1>5. ASSUME w # << >>, Head(w).t \in AboutChannel PROVE SameToPorts(w, Tail(w))
  <2>1. Head(w) \notin ToPorts
    BY <1>5 DEF ToPorts, AboutChannel
  <2>2. \A b \in Int : b + 1 \in Int /\ Wire(Tail(w), b + 1, ToPorts) = Wire(w, b, ToPorts)
    <3> SUFFICES ASSUME NEW b \in Int PROVE Wire(Tail(w), b + 1, ToPorts) = Wire(w, b, ToPorts)
      OBVIOUS
    <3> QED BY <1>5, <2>1, TakeOther
  <2> QED BY <2>2 DEF SameToPorts
<1> QED BY <1>1, <1>2, <1>3, <1>4, <1>5

\* The same of the wire from the server.
LEMMA SameFroms ==
  ASSUME NEW f \in Seq(FromMsg)
  PROVE  /\ SameFrom(f, f) /\ SameFromPorts(f, f)
         /\ \A m \in FromMsg : m.t \in {"success", "failure", "open"} => SameFrom(f, Append(f, m))
         /\ \A m \in FromMsg : m.t \in {"conf", "fail", "close"} => SameFromPorts(f, Append(f, m))
         /\ f # << >> /\ Head(f).t \in {"success", "failure", "open"} => SameFrom(f, Tail(f))
         /\ f # << >> /\ Head(f).t \in {"conf", "fail", "close"} => SameFromPorts(f, Tail(f))
<1>1. SameFrom(f, f) /\ SameFromPorts(f, f)
  BY DEF SameFrom, SameFromPorts
<1>2. ASSUME NEW m \in FromMsg, m.t \in {"success", "failure", "open"} PROVE SameFrom(f, Append(f, m))
  <2>1. \A u \in UpIds : m \notin FromOf(u)
    BY <1>2 DEF FromOf
  <2>2. \A b \in Int : \A u \in UpIds : Wire(Append(f, m), b, FromOf(u)) = Wire(f, b, FromOf(u))
    <3> SUFFICES ASSUME NEW b \in Int, NEW u \in UpIds PROVE Wire(Append(f, m), b, FromOf(u)) = Wire(f, b, FromOf(u))
      OBVIOUS
    <3> QED BY <2>1, AddOther
  <2> QED BY <2>2 DEF SameFrom
<1>3. ASSUME NEW m \in FromMsg, m.t \in {"conf", "fail", "close"} PROVE SameFromPorts(f, Append(f, m))
  <2>1. m \notin FromPorts
    BY <1>3 DEF FromPorts
  <2>2. \A b \in Int : Wire(Append(f, m), b, FromPorts) = Wire(f, b, FromPorts)
    <3> SUFFICES ASSUME NEW b \in Int PROVE Wire(Append(f, m), b, FromPorts) = Wire(f, b, FromPorts)
      OBVIOUS
    <3> QED BY <2>1, AddOther
  <2> QED BY <2>2 DEF SameFromPorts
<1>4. ASSUME f # << >>, Head(f).t \in {"success", "failure", "open"} PROVE SameFrom(f, Tail(f))
  <2>1. \A u \in UpIds : Head(f) \notin FromOf(u)
    BY <1>4 DEF FromOf
  <2>2. \A b \in Int : b + 1 \in Int /\ \A u \in UpIds : Wire(Tail(f), b + 1, FromOf(u)) = Wire(f, b, FromOf(u))
    <3> SUFFICES ASSUME NEW b \in Int, NEW u \in UpIds PROVE Wire(Tail(f), b + 1, FromOf(u)) = Wire(f, b, FromOf(u))
      OBVIOUS
    <3> QED BY <1>4, <2>1, TakeOther
  <2> QED BY <2>2 DEF SameFrom
<1>5. ASSUME f # << >>, Head(f).t \in {"conf", "fail", "close"} PROVE SameFromPorts(f, Tail(f))
  <2>1. Head(f) \notin FromPorts
    BY <1>5 DEF FromPorts
  <2>2. \A b \in Int : b + 1 \in Int /\ Wire(Tail(f), b + 1, FromPorts) = Wire(f, b, FromPorts)
    <3> SUFFICES ASSUME NEW b \in Int PROVE Wire(Tail(f), b + 1, FromPorts) = Wire(f, b, FromPorts)
      OBVIOUS
    <3> QED BY <1>5, <2>1, TakeOther
  <2> QED BY <2>2 DEF SameFromPorts
<1> QED BY <1>1, <1>2, <1>3, <1>4, <1>5

\* A step that is not about channels.
LEMMA ChannelsKept ==
  ASSUME NEW cs, NEW own, NEW w, NEW f, NEW sc, Channels(cs, own, w, f, sc),
         NEW cs2, NEW w2, NEW f2, NEW sc2,
         \A d \in Downs : cs2[d].chans = cs[d].chans,
         SameTo(w, w2), SameFrom(f, f2), \A u \in UpIds : SameS(sc, sc2, u)
  PROVE  Channels(cs2, own, w2, f2, sc2)
<1>1. PICK st, sid : \E bt, bf \in Int :
         Linked(cs, own, st, sid) /\ Numbers(own, st, sid, w, bt, f, bf, sc)
  BY DEF Channels
<1>2. PICK bt \in Int, bf \in Int :
         Linked(cs, own, st, sid) /\ Numbers(own, st, sid, w, bt, f, bf, sc)
  BY <1>1
<1>3. PICK ct \in Int : \A u \in UpIds : Wire(w2, ct, ToOf(u)) = Wire(w, bt, ToOf(u))
  BY DEF SameTo
<1>4. PICK cf \in Int : \A u \in UpIds : Wire(f2, cf, FromOf(u)) = Wire(f, bf, FromOf(u))
  BY DEF SameFrom
<1>5. Linked(cs2, own, st, sid)
  <2>1. \A u \in UpIds : own[u] # None => own[u] \in Downs
    BY <1>2 DEF Linked, Opt
  <2> QED BY <1>2, <2>1 DEF Linked
<1>6. Numbers(own, st, sid, w2, ct, f2, cf, sc2)
  <2> SUFFICES ASSUME NEW u \in UpIds
               PROVE  UInv(u, own[u], st[u], sid[u], Wire(w2, ct, ToOf(u)), Wire(f2, cf, FromOf(u)), sc2)
    BY DEF Numbers
  <2>1. UInv(u, own[u], st[u], sid[u], Wire(w, bt, ToOf(u)), Wire(f, bf, FromOf(u)), sc)
    BY <1>2 DEF Numbers
  <2>2. UInv(u, own[u], st[u], sid[u], Wire(w2, ct, ToOf(u)), Wire(f2, cf, FromOf(u)), sc)
    BY <1>3, <1>4, <2>1
  <2> QED BY <2>2, Untouched
<1> QED BY <1>5, <1>6 DEF Channels

\* A step about channel number a.
LEMMA ChannelStep ==
  ASSUME NEW own, NEW st, NEW sid, NEW w, NEW bt \in Int, NEW f, NEW bf \in Int, NEW sc,
         Numbers(own, st, sid, w, bt, f, bf, sc),
         NEW cs2, NEW own2, NEW st2, NEW sid2, NEW w2, NEW ct \in Int, NEW f2, NEW cf \in Int, NEW sc2,
         Linked(cs2, own2, st2, sid2), NEW a \in UpIds,
         Apart(a, own, st, sid, w, bt, f, bf, sc, own2, st2, sid2, w2, ct, f2, cf, sc2),
         UInv(a, own2[a], st2[a], sid2[a], Wire(w2, ct, ToOf(a)), Wire(f2, cf, FromOf(a)), sc2)
  PROVE  Channels(cs2, own2, w2, f2, sc2)
<1>1. Numbers(own2, st2, sid2, w2, ct, f2, cf, sc2)
  <2> SUFFICES ASSUME NEW u \in UpIds, u # a
               PROVE  UInv(u, own2[u], st2[u], sid2[u], Wire(w2, ct, ToOf(u)), Wire(f2, cf, FromOf(u)), sc2)
    BY DEF Numbers
  <2>1. UInv(u, own[u], st[u], sid[u], Wire(w, bt, ToOf(u)), Wire(f, bf, FromOf(u)), sc)
    BY DEF Numbers
  <2>2. UInv(u, own2[u], st2[u], sid2[u], Wire(w2, ct, ToOf(u)), Wire(f2, cf, FromOf(u)), sc)
    BY <2>1 DEF Apart
  <2>3. SameS(sc, sc2, u)
    BY DEF Apart
  <2> QED BY <2>2, <2>3, Untouched
<1> QED BY <1>1 DEF Channels

\* A step that is not about ports.
LEMMA ForwardingsKept ==
  ASSUME NEW cs, NEW rpf, NEW gq, NEW w, NEW f, NEW sf, Forwardings(cs, rpf, gq, w, f, sf),
         NEW cs2, NEW w2, NEW f2,
         \A d \in Downs : cs2[d].fwds = cs[d].fwds /\ cs2[d].globreq_head = cs[d].globreq_head,
         StateP(cs2), SameToPorts(w, w2), SameFromPorts(f, f2)
  PROVE  Forwardings(cs2, rpf, gq, w2, f2, sf)
<1>1. PICK bg \in Int, bt \in Int, bf \in Int :
         PInv(cs, rpf, Wire(gq, bg, Downs), Wire(w, bt, ToPorts), Wire(f, bf, FromPorts), sf)
  BY DEF Forwardings
<1>2. PICK ct \in Int : Wire(w2, ct, ToPorts) = Wire(w, bt, ToPorts)
  BY DEF SameToPorts
<1>3. PICK cf \in Int : Wire(f2, cf, FromPorts) = Wire(f, bf, FromPorts)
  BY DEF SameFromPorts
<1>4. PInv(cs2, rpf, Wire(gq, bg, Downs), Wire(w, bt, ToPorts), Wire(f, bf, FromPorts), sf)
  BY <1>1, PortsKept
<1> QED BY <1>2, <1>3, <1>4 DEF Forwardings

\* The facts about the ports that do not depend on the wires.
LEMMA PortFacts ==
  ASSUME NEW cs, NEW rpf, NEW gq, NEW w, NEW f, NEW sf, Forwardings(cs, rpf, gq, w, f, sf)
  PROVE  FwdP(cs, rpf) /\ StateP(cs)
  BY DEF Forwardings, PInv

---------------------------------------------------------------------------
(* Steps about one channel.                                                *)

\* The record of number a is made, changed or removed.
LEMMA Relink ==
  ASSUME NEW cs, NEW own, NEW st, NEW sid, Linked(cs, own, st, sid),
         NEW a \in UpIds, NEW o2, NEW s2, NEW i2, Fits(o2, s2, i2),
         NEW cs2, NEW own2, Becomes(own, own2, a, o2), Changes(cs, cs2, a, o2, s2, i2),
         NEW st2, Becomes(st, st2, a, s2), NEW sid2, Becomes(sid, sid2, a, i2)
  PROVE  Linked(cs2, own2, st2, sid2) /\ Now(a, own, st, sid, own2, st2, sid2, o2, s2, i2)
<1>0. /\ o2 \in Opt(Downs) /\ s2 \in ChanStates \cup {"FREE"} /\ i2 \in Opt(SrvIds)
      /\ o2 = None <=> s2 = "FREE"
      /\ i2 \in SrvIds <=> s2 \in Numbered
      /\ \A d \in Downs : \A c : c \in cs2[d].chans <=>
            \/ c \in cs[d].chans /\ c.us # a
            \/ o2 = d /\ c = [us |-> a, sid |-> i2, st |-> s2]
  BY DEF Fits, Changes
<1>b. own2 = [own EXCEPT ![a] = o2] /\ st2 = [st EXCEPT ![a] = s2] /\ sid2 = [sid EXCEPT ![a] = i2]
  BY DEF Becomes
<1>1. /\ own \in [UpIds -> Opt(Downs)]
      /\ st \in [UpIds -> ChanStates \cup {"FREE"}] /\ sid \in [UpIds -> Opt(SrvIds)]
  BY DEF Linked
<1>2. /\ own2 \in [UpIds -> Opt(Downs)] /\ own2[a] = o2 /\ \A u \in UpIds : u # a => own2[u] = own[u]
      /\ st2 \in [UpIds -> ChanStates \cup {"FREE"}] /\ st2[a] = s2 /\ \A u \in UpIds : u # a => st2[u] = st[u]
      /\ sid2 \in [UpIds -> Opt(SrvIds)] /\ sid2[a] = i2 /\ \A u \in UpIds : u # a => sid2[u] = sid[u]
  BY <1>0, <1>1, <1>b
<1>3. \A u \in UpIds : (own2[u] = None <=> st2[u] = "FREE") /\ (sid2[u] \in SrvIds <=> st2[u] \in Numbered)
  BY <1>0, <1>2 DEF Linked
<1>4. ASSUME NEW d \in Downs, NEW c \in cs2[d].chans
      PROVE  c.us \in UpIds /\ own2[c.us] = d /\ c = Rec(st2, sid2, c.us)
  <2>1. CASE c \in cs[d].chans /\ c.us # a
    BY <1>2, <2>1 DEF Linked, Rec
  <2>2. CASE o2 = d /\ c = [us |-> a, sid |-> i2, st |-> s2]
    BY <1>2, <2>2 DEF Rec
  <2> QED BY <1>0, <1>4, <2>1, <2>2
<1>5. ASSUME NEW u \in UpIds, own2[u] # None
      PROVE  Rec(st2, sid2, u) \in cs2[own2[u]].chans
  <2>1. own2[u] \in Downs
    BY <1>2, <1>5 DEF Opt
  <2>2. CASE u = a
    BY <1>0, <1>2, <2>1, <2>2 DEF Rec
  <2>3. CASE u # a
    <3>1. Rec(st2, sid2, u) = Rec(st, sid, u) /\ own2[u] = own[u] /\ Rec(st, sid, u).us = u
      BY <1>2, <2>3 DEF Rec
    <3>2. Rec(st, sid, u) \in cs[own[u]].chans
      BY <1>5, <3>1 DEF Linked
    <3> QED BY <1>0, <2>1, <2>3, <3>1, <3>2
  <2> QED BY <2>2, <2>3
<1>6. Linked(cs2, own2, st2, sid2)
  BY <1>2, <1>3, <1>4, <1>5 DEF Linked
<1> QED BY <1>2, <1>6 DEF Now

\* The record of number a that share_find_channel_by_upstream finds.
LEMMA Finds ==
  ASSUME NEW cs, NEW own, NEW st, NEW sid, Linked(cs, own, st, sid),
         NEW d \in Downs, NEW c \in cs[d].chans
  PROVE  /\ c.us \in UpIds /\ own[c.us] = d /\ c.st = st[c.us] /\ c.sid = sid[c.us] /\ c = Rec(st, sid, c.us)
         /\ \A x \in cs[d].chans : x.us = c.us => x = c
<1>1. \A x \in cs[d].chans : x.us \in UpIds /\ own[x.us] = d /\ x = Rec(st, sid, x.us)
  BY DEF Linked
<1> QED BY <1>1 DEF Rec

\* The server refuses a CHANNEL_OPEN.
LEMMA SrvRefuses ==
  ASSUME NEW cs, NEW own, NEW w \in Seq(ToMsg), NEW f \in Seq(FromMsg), NEW sc, Channels(cs, own, w, f, sc),
         NEW a \in UpIds, NEW y,
         w # << >>, Head(w).us = a, Head(w).t = "open", y \in FromMsg, y.us = a,
         y.d = Head(w).d,
         y.t = "fail"
  PROVE  Channels(cs, own, Tail(w), Append(f, y), sc)
<1>1. PICK st, sid : \E bt, bf \in Int :
         Linked(cs, own, st, sid) /\ Numbers(own, st, sid, w, bt, f, bf, sc)
  BY DEF Channels
<1>2. PICK bt \in Int, bf \in Int :
         Linked(cs, own, st, sid) /\ Numbers(own, st, sid, w, bt, f, bf, sc)
  BY <1>1
<1> DEFINE T == Wire(w, bt, ToOf(a))
           F == Wire(f, bf, FromOf(a))
           T2 == Wire(Tail(w), bt + 1, ToOf(a))
           F2 == Wire(Append(f, y), bf, FromOf(a))
<1>3. UInv(a, own[a], st[a], sid[a], T, F, sc)
  BY <1>2 DEF Numbers
<1>4. Head(w) \in ToOf(a) /\ \A u \in UpIds : u # a => Head(w) \notin ToOf(u)
  BY DEF ToOf
<1>5. PICK x : x.m = Head(w) /\ Taken(T, x, T2)
  BY <1>4, TakeThis
<1>6. y \in FromOf(a) /\ \A u \in UpIds : u # a => y \notin FromOf(u)
  BY DEF FromOf
<1>7. PICK z : z.m = y /\ Added(F, z, F2)
  BY <1>6, AddThis
<1>8. ASSUME NEW u \in UpIds, u # a
      PROVE  /\ Wire(Tail(w), bt + 1, ToOf(u)) = Wire(w, bt, ToOf(u))
             /\ Wire(Append(f, y), bf, FromOf(u)) = Wire(f, bf, FromOf(u))
  BY <1>4, <1>8, <1>6, TakeOther, AddOther
<1>9. \A u \in UpIds : u # a => SameS(sc, sc, u)
  BY DEF SameS, Held, Live
<1> HIDE DEF T, F, T2, F2
<1>13. UInv(a, own[a], st[a], sid[a], T2, F2, sc)
  BY <1>3, <1>5, <1>7, Refuses
<1>20. Apart(a, own, st, sid, w, bt, f, bf, sc, own, st, sid, Tail(w), bt + 1, Append(f, y), bf, sc)
  BY <1>8, <1>9 DEF Apart
<1>17. bt \in Int /\ bf \in Int /\ bt + 1 \in Int /\ bf + 1 \in Int
  OBVIOUS
<1> QED BY <1>2, <1>20, <1>17, <1>13, ChannelStep DEF T2, F2

\* The server accepts one.
LEMMA SrvAccepts ==
  ASSUME NEW cs, NEW own, NEW w \in Seq(ToMsg), NEW f \in Seq(FromMsg), NEW sc, Channels(cs, own, w, f, sc),
         NEW a \in UpIds, NEW y, NEW sc2, NEW g,
         w # << >>, Head(w).us = a, Head(w).t = "open", g \in SrvIds,
         \A h \in SrvIds : h # g => sc2[h] = sc[h],
         sc[g].st = "free", Live(sc2[g], a), sc2[g].d = Head(w).d, y \in FromMsg, y.us = a,
         y.d = Head(w).d, y.t = "conf",
         y.sid = g
  PROVE  Channels(cs, own, Tail(w), Append(f, y), sc2)
<1>1. PICK st, sid : \E bt, bf \in Int :
         Linked(cs, own, st, sid) /\ Numbers(own, st, sid, w, bt, f, bf, sc)
  BY DEF Channels
<1>2. PICK bt \in Int, bf \in Int :
         Linked(cs, own, st, sid) /\ Numbers(own, st, sid, w, bt, f, bf, sc)
  BY <1>1
<1> DEFINE T == Wire(w, bt, ToOf(a))
           F == Wire(f, bf, FromOf(a))
           T2 == Wire(Tail(w), bt + 1, ToOf(a))
           F2 == Wire(Append(f, y), bf, FromOf(a))
<1>3. UInv(a, own[a], st[a], sid[a], T, F, sc)
  BY <1>2 DEF Numbers
<1>4. Head(w) \in ToOf(a) /\ \A u \in UpIds : u # a => Head(w) \notin ToOf(u)
  BY DEF ToOf
<1>5. PICK x : x.m = Head(w) /\ Taken(T, x, T2)
  BY <1>4, TakeThis
<1>6. y \in FromOf(a) /\ \A u \in UpIds : u # a => y \notin FromOf(u)
  BY DEF FromOf
<1>7. PICK z : z.m = y /\ Added(F, z, F2)
  BY <1>6, AddThis
<1>8. ASSUME NEW u \in UpIds, u # a
      PROVE  /\ Wire(Tail(w), bt + 1, ToOf(u)) = Wire(w, bt, ToOf(u))
             /\ Wire(Append(f, y), bf, FromOf(u)) = Wire(f, bf, FromOf(u))
  BY <1>4, <1>8, <1>6, TakeOther, AddOther
<1>9. \A u \in UpIds : u # a => SameS(sc, sc2, u)
  BY DEF SameS, Held, Live
<1> HIDE DEF T, F, T2, F2
<1>10. Live(sc2[g], a) /\ sc2[g].d = Head(w).d
  OBVIOUS
<1>13. UInv(a, own[a], st[a], sid[a], T2, F2, sc2)
  BY <1>3, <1>5, <1>7, <1>10, Accepts
<1>20. Apart(a, own, st, sid, w, bt, f, bf, sc, own, st, sid, Tail(w), bt + 1, Append(f, y), bf, sc2)
  BY <1>8, <1>9 DEF Apart
<1>17. bt \in Int /\ bf \in Int /\ bt + 1 \in Int /\ bf + 1 \in Int
  OBVIOUS
<1> QED BY <1>2, <1>20, <1>17, <1>13, ChannelStep DEF T2, F2

\* The server hears that its channel is accepted.
LEMMA SrvConfirmed ==
  ASSUME NEW cs, NEW own, NEW w \in Seq(ToMsg), NEW f \in Seq(FromMsg), NEW sc, Channels(cs, own, w, f, sc),
         NEW a \in UpIds, NEW sc2, NEW g,
         w # << >>, Head(w).us = a, Head(w).t = "conf", Head(w).sid = g, g \in SrvIds,
         \A h \in SrvIds : h # g => sc2[h] = sc[h],
         sc[g].st = "opening", Live(sc2[g], a),
         sc2[g].d = Head(w).d
  PROVE  Channels(cs, own, Tail(w), f, sc2)
<1>1. PICK st, sid : \E bt, bf \in Int :
         Linked(cs, own, st, sid) /\ Numbers(own, st, sid, w, bt, f, bf, sc)
  BY DEF Channels
<1>2. PICK bt \in Int, bf \in Int :
         Linked(cs, own, st, sid) /\ Numbers(own, st, sid, w, bt, f, bf, sc)
  BY <1>1
<1> DEFINE T == Wire(w, bt, ToOf(a))
           F == Wire(f, bf, FromOf(a))
           T2 == Wire(Tail(w), bt + 1, ToOf(a))
           F2 == Wire(f, bf, FromOf(a))
<1>3. UInv(a, own[a], st[a], sid[a], T, F, sc)
  BY <1>2 DEF Numbers
<1>4. Head(w) \in ToOf(a) /\ \A u \in UpIds : u # a => Head(w) \notin ToOf(u)
  BY DEF ToOf
<1>5. PICK x : x.m = Head(w) /\ Taken(T, x, T2)
  BY <1>4, TakeThis
<1>7. F2 = F
  OBVIOUS
<1>8. ASSUME NEW u \in UpIds, u # a
      PROVE  /\ Wire(Tail(w), bt + 1, ToOf(u)) = Wire(w, bt, ToOf(u))
             /\ Wire(f, bf, FromOf(u)) = Wire(f, bf, FromOf(u))
  BY <1>4, <1>8, TakeOther
<1>9. \A u \in UpIds : u # a => SameS(sc, sc2, u)
  BY DEF SameS, Held, Live
<1> HIDE DEF T, F, T2, F2
<1>10. Live(sc2[g], a) /\ sc2[g].d = Head(w).d
  OBVIOUS
<1>13. UInv(a, own[a], st[a], sid[a], T2, F2, sc2)
  BY <1>3, <1>5, <1>7, <1>10, Confirmed
<1>20. Apart(a, own, st, sid, w, bt, f, bf, sc, own, st, sid, Tail(w), bt + 1, f, bf, sc2)
  BY <1>8, <1>9 DEF Apart
<1>17. bt \in Int /\ bf \in Int /\ bt + 1 \in Int /\ bf + 1 \in Int
  OBVIOUS
<1> QED BY <1>2, <1>20, <1>17, <1>13, ChannelStep DEF T2, F2

\* The server hears that its channel is closed, and closes it too.
LEMMA SrvClosedFirst ==
  ASSUME NEW cs, NEW own, NEW w \in Seq(ToMsg), NEW f \in Seq(FromMsg), NEW sc, Channels(cs, own, w, f, sc),
         NEW a \in UpIds, NEW y, NEW sc2, NEW g,
         w # << >>, Head(w).us = a, Head(w).t = "close", Head(w).sid = g, g \in SrvIds,
         \A h \in SrvIds : h # g => sc2[h] = sc[h],
         sc2[g].st = "free", sc[g].us = a, ~sc[g].sentClose, y \in FromMsg, y.us = a,
         y.d = Head(w).d,
         y.t = "close"
  PROVE  Channels(cs, own, Tail(w), Append(f, y), sc2)
<1>1. PICK st, sid : \E bt, bf \in Int :
         Linked(cs, own, st, sid) /\ Numbers(own, st, sid, w, bt, f, bf, sc)
  BY DEF Channels
<1>2. PICK bt \in Int, bf \in Int :
         Linked(cs, own, st, sid) /\ Numbers(own, st, sid, w, bt, f, bf, sc)
  BY <1>1
<1> DEFINE T == Wire(w, bt, ToOf(a))
           F == Wire(f, bf, FromOf(a))
           T2 == Wire(Tail(w), bt + 1, ToOf(a))
           F2 == Wire(Append(f, y), bf, FromOf(a))
<1>3. UInv(a, own[a], st[a], sid[a], T, F, sc)
  BY <1>2 DEF Numbers
<1>4. Head(w) \in ToOf(a) /\ \A u \in UpIds : u # a => Head(w) \notin ToOf(u)
  BY DEF ToOf
<1>5. PICK x : x.m = Head(w) /\ Taken(T, x, T2)
  BY <1>4, TakeThis
<1>6. y \in FromOf(a) /\ \A u \in UpIds : u # a => y \notin FromOf(u)
  BY DEF FromOf
<1>7. PICK z : z.m = y /\ Added(F, z, F2)
  BY <1>6, AddThis
<1>8. ASSUME NEW u \in UpIds, u # a
      PROVE  /\ Wire(Tail(w), bt + 1, ToOf(u)) = Wire(w, bt, ToOf(u))
             /\ Wire(Append(f, y), bf, FromOf(u)) = Wire(f, bf, FromOf(u))
  BY <1>4, <1>8, <1>6, TakeOther, AddOther
<1>9. \A u \in UpIds : u # a => SameS(sc, sc2, u)
  BY DEF SameS, Held, Live
<1> HIDE DEF T, F, T2, F2
<1>13. UInv(a, own[a], st[a], sid[a], T2, F2, sc2)
  BY <1>3, <1>5, <1>7, ClosedFirst
<1>20. Apart(a, own, st, sid, w, bt, f, bf, sc, own, st, sid, Tail(w), bt + 1, Append(f, y), bf, sc2)
  BY <1>8, <1>9 DEF Apart
<1>17. bt \in Int /\ bf \in Int /\ bt + 1 \in Int /\ bf + 1 \in Int
  OBVIOUS
<1> QED BY <1>2, <1>20, <1>17, <1>13, ChannelStep DEF T2, F2

\* The server hears that the channel it has closed is closed.
LEMMA SrvClosedLast ==
  ASSUME NEW cs, NEW own, NEW w \in Seq(ToMsg), NEW f \in Seq(FromMsg), NEW sc, Channels(cs, own, w, f, sc),
         NEW a \in UpIds, NEW sc2, NEW g,
         w # << >>, Head(w).us = a, Head(w).t = "close", Head(w).sid = g, g \in SrvIds,
         \A h \in SrvIds : h # g => sc2[h] = sc[h],
         sc2[g].st = "free", sc[g].us = a,
         sc[g].sentClose
  PROVE  Channels(cs, own, Tail(w), f, sc2)
<1>1. PICK st, sid : \E bt, bf \in Int :
         Linked(cs, own, st, sid) /\ Numbers(own, st, sid, w, bt, f, bf, sc)
  BY DEF Channels
<1>2. PICK bt \in Int, bf \in Int :
         Linked(cs, own, st, sid) /\ Numbers(own, st, sid, w, bt, f, bf, sc)
  BY <1>1
<1> DEFINE T == Wire(w, bt, ToOf(a))
           F == Wire(f, bf, FromOf(a))
           T2 == Wire(Tail(w), bt + 1, ToOf(a))
           F2 == Wire(f, bf, FromOf(a))
<1>3. UInv(a, own[a], st[a], sid[a], T, F, sc)
  BY <1>2 DEF Numbers
<1>4. Head(w) \in ToOf(a) /\ \A u \in UpIds : u # a => Head(w) \notin ToOf(u)
  BY DEF ToOf
<1>5. PICK x : x.m = Head(w) /\ Taken(T, x, T2)
  BY <1>4, TakeThis
<1>7. F2 = F
  OBVIOUS
<1>8. ASSUME NEW u \in UpIds, u # a
      PROVE  /\ Wire(Tail(w), bt + 1, ToOf(u)) = Wire(w, bt, ToOf(u))
             /\ Wire(f, bf, FromOf(u)) = Wire(f, bf, FromOf(u))
  BY <1>4, <1>8, TakeOther
<1>9. \A u \in UpIds : u # a => SameS(sc, sc2, u)
  BY DEF SameS, Held, Live
<1> HIDE DEF T, F, T2, F2
<1>13. UInv(a, own[a], st[a], sid[a], T2, F2, sc2)
  BY <1>3, <1>5, <1>7, ClosedLast
<1>20. Apart(a, own, st, sid, w, bt, f, bf, sc, own, st, sid, Tail(w), bt + 1, f, bf, sc2)
  BY <1>8, <1>9 DEF Apart
<1>17. bt \in Int /\ bf \in Int /\ bt + 1 \in Int /\ bf + 1 \in Int
  OBVIOUS
<1> QED BY <1>2, <1>20, <1>17, <1>13, ChannelStep DEF T2, F2

\* The server closes a channel.
LEMMA SrvShuts ==
  ASSUME NEW cs, NEW own, NEW w \in Seq(ToMsg), NEW f \in Seq(FromMsg), NEW sc, Channels(cs, own, w, f, sc),
         NEW a \in UpIds, NEW y, NEW sc2, NEW g,
         g \in SrvIds,
         \A h \in SrvIds : h # g => sc2[h] = sc[h],
         sc[g].st = "open", sc[g].us = a, ~sc[g].sentClose, sc2[g].st = "open",
         sc2[g].us = a, sc2[g].d = sc[g].d, sc2[g].sentClose, y \in FromMsg, y.us = a,
         y.d = sc[g].d,
         y.t = "close"
  PROVE  Channels(cs, own, w, Append(f, y), sc2)
<1>1. PICK st, sid : \E bt, bf \in Int :
         Linked(cs, own, st, sid) /\ Numbers(own, st, sid, w, bt, f, bf, sc)
  BY DEF Channels
<1>2. PICK bt \in Int, bf \in Int :
         Linked(cs, own, st, sid) /\ Numbers(own, st, sid, w, bt, f, bf, sc)
  BY <1>1
<1> DEFINE T == Wire(w, bt, ToOf(a))
           F == Wire(f, bf, FromOf(a))
           T2 == Wire(w, bt, ToOf(a))
           F2 == Wire(Append(f, y), bf, FromOf(a))
<1>3. UInv(a, own[a], st[a], sid[a], T, F, sc)
  BY <1>2 DEF Numbers
<1>5. T2 = T
  OBVIOUS
<1>6. y \in FromOf(a) /\ \A u \in UpIds : u # a => y \notin FromOf(u)
  BY DEF FromOf
<1>7. PICK z : z.m = y /\ Added(F, z, F2)
  BY <1>6, AddThis
<1>8. ASSUME NEW u \in UpIds, u # a
      PROVE  /\ Wire(w, bt, ToOf(u)) = Wire(w, bt, ToOf(u))
             /\ Wire(Append(f, y), bf, FromOf(u)) = Wire(f, bf, FromOf(u))
  BY <1>6, <1>8, AddOther
<1>9. \A u \in UpIds : u # a => SameS(sc, sc2, u)
  BY DEF SameS, Held, Live
<1> HIDE DEF T, F, T2, F2
<1>10. Live(sc[g], a) /\ Held(sc2[g], a)
  BY DEF Live, Held
<1>13. UInv(a, own[a], st[a], sid[a], T2, F2, sc2)
  BY <1>3, <1>5, <1>7, <1>10, SrvCloses
<1>20. Apart(a, own, st, sid, w, bt, f, bf, sc, own, st, sid, w, bt, Append(f, y), bf, sc2)
  BY <1>8, <1>9 DEF Apart
<1>17. bt \in Int /\ bf \in Int /\ bt + 1 \in Int /\ bf + 1 \in Int
  OBVIOUS
<1> QED BY <1>2, <1>20, <1>17, <1>13, ChannelStep DEF T2, F2

\* A downstream opens a channel.
LEMMA UpOpens ==
  ASSUME NEW cs, NEW own, NEW w \in Seq(ToMsg), NEW f \in Seq(FromMsg), NEW sc, Channels(cs, own, w, f, sc),
         NEW a \in UpIds, NEW d \in Downs, NEW cs2, NEW own2, NEW m \in ToMsg,
         own[a] = None, Becomes(own, own2, a, d),
         Gets(cs, cs2, d, cs[d].chans \cup {NewRec(a, None, "UNACKNOWLEDGED")}),
         m.t = "open", m.us = a,
         m.d = d
  PROVE  Channels(cs2, own2, Append(w, m), f, sc)
<1> own2 = [own EXCEPT ![a] = d]
  BY DEF Becomes
<1> \A e \in Downs : e # d => cs2[e].chans = cs[e].chans
  BY DEF Gets
<1> cs2[d].chans = cs[d].chans \cup {[us |-> a, sid |-> None, st |-> "UNACKNOWLEDGED"]}
  BY DEF Gets, NewRec
<1>1. PICK st, sid : \E bt, bf \in Int :
         Linked(cs, own, st, sid) /\ Numbers(own, st, sid, w, bt, f, bf, sc)
  BY DEF Channels
<1>2. PICK bt \in Int, bf \in Int :
         Linked(cs, own, st, sid) /\ Numbers(own, st, sid, w, bt, f, bf, sc)
  BY <1>1
<1> DEFINE T == Wire(w, bt, ToOf(a))
           F == Wire(f, bf, FromOf(a))
           T2 == Wire(Append(w, m), bt, ToOf(a))
           F2 == Wire(f, bf, FromOf(a))
<1>3. UInv(a, own[a], st[a], sid[a], T, F, sc)
  BY <1>2 DEF Numbers
<1>4. m \in ToOf(a) /\ \A u \in UpIds : u # a => m \notin ToOf(u)
  BY DEF ToOf
<1>5. PICK x : x.m = m /\ Added(T, x, T2)
  BY <1>4, AddThis
<1>7. F2 = F
  OBVIOUS
<1>8. ASSUME NEW u \in UpIds, u # a
      PROVE  /\ Wire(Append(w, m), bt, ToOf(u)) = Wire(w, bt, ToOf(u))
             /\ Wire(f, bf, FromOf(u)) = Wire(f, bf, FromOf(u))
  BY <1>4, <1>8, AddOther
<1>9. \A u \in UpIds : u # a => SameS(sc, sc, u)
  BY DEF SameS, Held, Live
<1> HIDE DEF T, F, T2, F2
<1>10. own[a] = None /\ st[a] = "FREE" /\ None \notin SrvIds
  BY <1>2, ConstAssumption DEF Linked, SrvIds
<1> DEFINE st2 == [st EXCEPT ![a] = "UNACKNOWLEDGED"]
           sid2 == [sid EXCEPT ![a] = None]
<1>12. /\ Linked(cs2, own2, st2, sid2)
       /\ own2[a] = d /\ st2[a] = "UNACKNOWLEDGED" /\ sid2[a] = None
       /\ \A u \in UpIds : u # a => own2[u] = own[u] /\ st2[u] = st[u] /\ sid2[u] = sid[u]
  <2>1. \A e \in Downs : \A c \in cs[e].chans : c.us # a
    BY <1>2, <1>10, ConstAssumption DEF Linked
  <2>2. Changes(cs, cs2, a, d, "UNACKNOWLEDGED", None)
    BY <2>1 DEF Changes
  <2>3. Fits(d, "UNACKNOWLEDGED", None)
    BY ConstAssumption, <1>10 DEF Fits, Opt, ChanStates, Numbered
  <2> DEFINE st3 == st2
             sid3 == sid2
  <2>9. Becomes(st, st3, a, "UNACKNOWLEDGED") /\ Becomes(sid, sid3, a, None) /\ Becomes(own, own2, a, d)
    BY DEF Becomes
  <2> HIDE DEF st3, sid3
  <2>8. Linked(cs2, own2, st3, sid3) /\ Now(a, own, st, sid, own2, st3, sid3, d, "UNACKNOWLEDGED", None)
    BY <1>2, <2>2, <2>3, <2>9, Relink
  <2> QED BY <2>8 DEF st3, sid3, Now
<1>13. UInv(a, d, "UNACKNOWLEDGED", None, T2, F2, sc)
  BY <1>3, <1>5, <1>7, <1>10, SendsOpen
<1>14. UInv(a, own2[a], st2[a], sid2[a], T2, F2, sc)
  BY <1>12, <1>13
<1> HIDE DEF st2, sid2
<1>16. \A u \in UpIds : u # a =>
          /\ own2[u] = own[u] /\ st2[u] = st[u] /\ sid2[u] = sid[u]
          /\ Wire(Append(w, m), bt, ToOf(u)) = Wire(w, bt, ToOf(u))
          /\ Wire(f, bf, FromOf(u)) = Wire(f, bf, FromOf(u))
          /\ SameS(sc, sc, u)
  BY <1>8, <1>9, <1>12
<1>20. Apart(a, own, st, sid, w, bt, f, bf, sc, own2, st2, sid2, Append(w, m), bt, f, bf, sc)
  BY <1>16 DEF Apart
<1>17. bt \in Int /\ bf \in Int /\ bt + 1 \in Int /\ bf + 1 \in Int
  OBVIOUS
<1>18. UInv(a, own2[a], st2[a], sid2[a], Wire(Append(w, m), bt, ToOf(a)), Wire(f, bf, FromOf(a)), sc)
  BY <1>14 DEF T2, F2
<1>19. Linked(cs2, own2, st2, sid2) /\ Numbers(own, st, sid, w, bt, f, bf, sc)
  BY <1>2, <1>12
<1>15. Channels(cs2, own2, Append(w, m), f, sc)
  BY <1>20, <1>17, <1>18, <1>19, ChannelStep
<1> QED BY <1>15

\* A downstream accepts one.
LEMMA UpConfirms ==
  ASSUME NEW cs, NEW own, NEW w \in Seq(ToMsg), NEW f \in Seq(FromMsg), NEW sc, Channels(cs, own, w, f, sc),
         NEW a \in UpIds, NEW d \in Downs, NEW cs2, NEW own2, NEW m \in ToMsg, NEW h \in SrvIds,
         own[a] = None, Becomes(own, own2, a, d),
         Gets(cs, cs2, d, cs[d].chans \cup {NewRec(a, h, "OPEN")}), m.t = "conf", m.us = a,
         m.d = d,
         m.sid = h
  PROVE  Channels(cs2, own2, Append(w, m), f, sc)
<1> own2 = [own EXCEPT ![a] = d]
  BY DEF Becomes
<1> \A e \in Downs : e # d => cs2[e].chans = cs[e].chans
  BY DEF Gets
<1> cs2[d].chans = cs[d].chans \cup {[us |-> a, sid |-> h, st |-> "OPEN"]}
  BY DEF Gets, NewRec
<1>1. PICK st, sid : \E bt, bf \in Int :
         Linked(cs, own, st, sid) /\ Numbers(own, st, sid, w, bt, f, bf, sc)
  BY DEF Channels
<1>2. PICK bt \in Int, bf \in Int :
         Linked(cs, own, st, sid) /\ Numbers(own, st, sid, w, bt, f, bf, sc)
  BY <1>1
<1> DEFINE T == Wire(w, bt, ToOf(a))
           F == Wire(f, bf, FromOf(a))
           T2 == Wire(Append(w, m), bt, ToOf(a))
           F2 == Wire(f, bf, FromOf(a))
<1>3. UInv(a, own[a], st[a], sid[a], T, F, sc)
  BY <1>2 DEF Numbers
<1>4. m \in ToOf(a) /\ \A u \in UpIds : u # a => m \notin ToOf(u)
  BY DEF ToOf
<1>5. PICK x : x.m = m /\ Added(T, x, T2)
  BY <1>4, AddThis
<1>7. F2 = F
  OBVIOUS
<1>8. ASSUME NEW u \in UpIds, u # a
      PROVE  /\ Wire(Append(w, m), bt, ToOf(u)) = Wire(w, bt, ToOf(u))
             /\ Wire(f, bf, FromOf(u)) = Wire(f, bf, FromOf(u))
  BY <1>4, <1>8, AddOther
<1>9. \A u \in UpIds : u # a => SameS(sc, sc, u)
  BY DEF SameS, Held, Live
<1> HIDE DEF T, F, T2, F2
<1>10. own[a] = None /\ st[a] = "FREE" /\ None \notin SrvIds
  BY <1>2, ConstAssumption DEF Linked, SrvIds
<1> DEFINE st2 == [st EXCEPT ![a] = "OPEN"]
           sid2 == [sid EXCEPT ![a] = h]
<1>12. /\ Linked(cs2, own2, st2, sid2)
       /\ own2[a] = d /\ st2[a] = "OPEN" /\ sid2[a] = h
       /\ \A u \in UpIds : u # a => own2[u] = own[u] /\ st2[u] = st[u] /\ sid2[u] = sid[u]
  <2>1. \A e \in Downs : \A c \in cs[e].chans : c.us # a
    BY <1>2, <1>10, ConstAssumption DEF Linked
  <2>2. Changes(cs, cs2, a, d, "OPEN", h)
    BY <2>1 DEF Changes
  <2>3. Fits(d, "OPEN", h)
    BY ConstAssumption, <1>10 DEF Fits, Opt, ChanStates, Numbered
  <2> DEFINE st3 == st2
             sid3 == sid2
  <2>9. Becomes(st, st3, a, "OPEN") /\ Becomes(sid, sid3, a, h) /\ Becomes(own, own2, a, d)
    BY DEF Becomes
  <2> HIDE DEF st3, sid3
  <2>8. Linked(cs2, own2, st3, sid3) /\ Now(a, own, st, sid, own2, st3, sid3, d, "OPEN", h)
    BY <1>2, <2>2, <2>3, <2>9, Relink
  <2> QED BY <2>8 DEF st3, sid3, Now
<1>13. UInv(a, d, "OPEN", h, T2, F2, sc)
  BY <1>3, <1>5, <1>7, <1>10, SendsConf
<1>14. UInv(a, own2[a], st2[a], sid2[a], T2, F2, sc)
  BY <1>12, <1>13
<1> HIDE DEF st2, sid2
<1>16. \A u \in UpIds : u # a =>
          /\ own2[u] = own[u] /\ st2[u] = st[u] /\ sid2[u] = sid[u]
          /\ Wire(Append(w, m), bt, ToOf(u)) = Wire(w, bt, ToOf(u))
          /\ Wire(f, bf, FromOf(u)) = Wire(f, bf, FromOf(u))
          /\ SameS(sc, sc, u)
  BY <1>8, <1>9, <1>12
<1>20. Apart(a, own, st, sid, w, bt, f, bf, sc, own2, st2, sid2, Append(w, m), bt, f, bf, sc)
  BY <1>16 DEF Apart
<1>17. bt \in Int /\ bf \in Int /\ bt + 1 \in Int /\ bf + 1 \in Int
  OBVIOUS
<1>18. UInv(a, own2[a], st2[a], sid2[a], Wire(Append(w, m), bt, ToOf(a)), Wire(f, bf, FromOf(a)), sc)
  BY <1>14 DEF T2, F2
<1>19. Linked(cs2, own2, st2, sid2) /\ Numbers(own, st, sid, w, bt, f, bf, sc)
  BY <1>2, <1>12
<1>15. Channels(cs2, own2, Append(w, m), f, sc)
  BY <1>20, <1>17, <1>18, <1>19, ChannelStep
<1> QED BY <1>15

\* A CHANNEL_CLOSE is sent on behalf of a downstream ...
LEMMA UpCloses ==
  ASSUME NEW cs, NEW own, NEW w \in Seq(ToMsg), NEW f \in Seq(FromMsg), NEW sc, Channels(cs, own, w, f, sc),
         NEW a \in UpIds, NEW d \in Downs, NEW c, NEW cs2, NEW own2, NEW m \in ToMsg,
         c \in cs[d].chans, c.us = a, c.st = "OPEN", own2 = own,
         Gets(cs, cs2, d, (cs[d].chans \ {c}) \cup {NewRec(a, c.sid, "SENT_CLOSE")}),
         m.t = "close", m.us = a, m.d = d,
         m.sid = c.sid
  PROVE  Channels(cs2, own2, Append(w, m), f, sc)
<1> \A e \in Downs : e # d => cs2[e].chans = cs[e].chans
  BY DEF Gets
<1> cs2[d].chans = (cs[d].chans \ {c}) \cup {[us |-> a, sid |-> c.sid, st |-> "SENT_CLOSE"]}
  BY DEF Gets, NewRec
<1>1. PICK st, sid : \E bt, bf \in Int :
         Linked(cs, own, st, sid) /\ Numbers(own, st, sid, w, bt, f, bf, sc)
  BY DEF Channels
<1>2. PICK bt \in Int, bf \in Int :
         Linked(cs, own, st, sid) /\ Numbers(own, st, sid, w, bt, f, bf, sc)
  BY <1>1
<1> DEFINE T == Wire(w, bt, ToOf(a))
           F == Wire(f, bf, FromOf(a))
           T2 == Wire(Append(w, m), bt, ToOf(a))
           F2 == Wire(f, bf, FromOf(a))
<1>3. UInv(a, own[a], st[a], sid[a], T, F, sc)
  BY <1>2 DEF Numbers
<1>4. m \in ToOf(a) /\ \A u \in UpIds : u # a => m \notin ToOf(u)
  BY DEF ToOf
<1>5. PICK x : x.m = m /\ Added(T, x, T2)
  BY <1>4, AddThis
<1>7. F2 = F
  OBVIOUS
<1>8. ASSUME NEW u \in UpIds, u # a
      PROVE  /\ Wire(Append(w, m), bt, ToOf(u)) = Wire(w, bt, ToOf(u))
             /\ Wire(f, bf, FromOf(u)) = Wire(f, bf, FromOf(u))
  BY <1>4, <1>8, AddOther
<1>9. \A u \in UpIds : u # a => SameS(sc, sc, u)
  BY DEF SameS, Held, Live
<1> HIDE DEF T, F, T2, F2
<1>10. /\ own[a] = d /\ st[a] = c.st /\ sid[a] = c.sid /\ d # None
       /\ c = [us |-> a, sid |-> sid[a], st |-> st[a]] /\ \A r \in cs[d].chans : r.us = a => r = c
       /\ \A e \in Downs : e # d => \A r \in cs[e].chans : r.us # a
       /\ None \notin SrvIds
  <2>1. \A e \in Downs : e # d => \A r \in cs[e].chans : r.us # a
    BY <1>2, Finds
  <2> QED BY <1>2, <2>1, Finds, ConstAssumption DEF Rec, SrvIds
<1> DEFINE st2 == [st EXCEPT ![a] = "SENT_CLOSE"]
           sid2 == [sid EXCEPT ![a] = sid[a]]
<1>12. /\ Linked(cs2, own2, st2, sid2)
       /\ own2[a] = d /\ st2[a] = "SENT_CLOSE" /\ sid2[a] = sid[a]
       /\ \A u \in UpIds : u # a => own2[u] = own[u] /\ st2[u] = st[u] /\ sid2[u] = sid[u]
  <2>2. Changes(cs, cs2, a, d, "SENT_CLOSE", sid[a])
    BY <1>10 DEF Changes
  <2>4. sid[a] \in SrvIds
    BY <1>2, <1>10 DEF Linked, Numbered, FromMsg
  <2>3. Fits(d, "SENT_CLOSE", sid[a])
    BY ConstAssumption, <1>10, <2>4 DEF Fits, Opt, ChanStates, Numbered
  <2>5. own = [own EXCEPT ![a] = d]
    BY <1>2, <1>10 DEF Linked
  <2> DEFINE st3 == st2
             sid3 == sid2
  <2>9. Becomes(st, st3, a, "SENT_CLOSE") /\ Becomes(sid, sid3, a, sid[a]) /\ Becomes(own, own2, a, d)
    BY <2>5 DEF Becomes
  <2> HIDE DEF st3, sid3
  <2>8. Linked(cs2, own2, st3, sid3) /\ Now(a, own, st, sid, own2, st3, sid3, d, "SENT_CLOSE", sid[a])
    BY <1>2, <2>2, <2>3, <2>9, Relink
  <2> QED BY <2>8 DEF st3, sid3, Now
<1>13. UInv(a, d, "SENT_CLOSE", sid[a], T2, F2, sc)
  BY <1>3, <1>5, <1>7, <1>10, SendsClose
<1>14. UInv(a, own2[a], st2[a], sid2[a], T2, F2, sc)
  BY <1>12, <1>13
<1> HIDE DEF st2, sid2
<1>16. \A u \in UpIds : u # a =>
          /\ own2[u] = own[u] /\ st2[u] = st[u] /\ sid2[u] = sid[u]
          /\ Wire(Append(w, m), bt, ToOf(u)) = Wire(w, bt, ToOf(u))
          /\ Wire(f, bf, FromOf(u)) = Wire(f, bf, FromOf(u))
          /\ SameS(sc, sc, u)
  BY <1>8, <1>9, <1>12
<1>20. Apart(a, own, st, sid, w, bt, f, bf, sc, own2, st2, sid2, Append(w, m), bt, f, bf, sc)
  BY <1>16 DEF Apart
<1>17. bt \in Int /\ bf \in Int /\ bt + 1 \in Int /\ bf + 1 \in Int
  OBVIOUS
<1>18. UInv(a, own2[a], st2[a], sid2[a], Wire(Append(w, m), bt, ToOf(a)), Wire(f, bf, FromOf(a)), sc)
  BY <1>14 DEF T2, F2
<1>19. Linked(cs2, own2, st2, sid2) /\ Numbers(own, st, sid, w, bt, f, bf, sc)
  BY <1>2, <1>12
<1>15. Channels(cs2, own2, Append(w, m), f, sc)
  BY <1>20, <1>17, <1>18, <1>19, ChannelStep
<1> QED BY <1>15

\* ... in answer to the server's: the number is free again.
LEMMA UpAnswers ==
  ASSUME NEW cs, NEW own, NEW w \in Seq(ToMsg), NEW f \in Seq(FromMsg), NEW sc, Channels(cs, own, w, f, sc),
         NEW a \in UpIds, NEW d \in Downs, NEW c, NEW cs2, NEW own2, NEW m \in ToMsg,
         c \in cs[d].chans, c.us = a, c.st = "RCVD_CLOSE", Becomes(own, own2, a, None),
         Gets(cs, cs2, d, cs[d].chans \ {c}), m.t = "close", m.us = a, m.d = d,
         m.sid = c.sid
  PROVE  Channels(cs2, own2, Append(w, m), f, sc)
<1> own2 = [own EXCEPT ![a] = None]
  BY DEF Becomes
<1> \A e \in Downs : e # d => cs2[e].chans = cs[e].chans
  BY DEF Gets
<1> cs2[d].chans = cs[d].chans \ {c}
  BY DEF Gets
<1>1. PICK st, sid : \E bt, bf \in Int :
         Linked(cs, own, st, sid) /\ Numbers(own, st, sid, w, bt, f, bf, sc)
  BY DEF Channels
<1>2. PICK bt \in Int, bf \in Int :
         Linked(cs, own, st, sid) /\ Numbers(own, st, sid, w, bt, f, bf, sc)
  BY <1>1
<1> DEFINE T == Wire(w, bt, ToOf(a))
           F == Wire(f, bf, FromOf(a))
           T2 == Wire(Append(w, m), bt, ToOf(a))
           F2 == Wire(f, bf, FromOf(a))
<1>3. UInv(a, own[a], st[a], sid[a], T, F, sc)
  BY <1>2 DEF Numbers
<1>4. m \in ToOf(a) /\ \A u \in UpIds : u # a => m \notin ToOf(u)
  BY DEF ToOf
<1>5. PICK x : x.m = m /\ Added(T, x, T2)
  BY <1>4, AddThis
<1>7. F2 = F
  OBVIOUS
<1>8. ASSUME NEW u \in UpIds, u # a
      PROVE  /\ Wire(Append(w, m), bt, ToOf(u)) = Wire(w, bt, ToOf(u))
             /\ Wire(f, bf, FromOf(u)) = Wire(f, bf, FromOf(u))
  BY <1>4, <1>8, AddOther
<1>9. \A u \in UpIds : u # a => SameS(sc, sc, u)
  BY DEF SameS, Held, Live
<1> HIDE DEF T, F, T2, F2
<1>10. /\ own[a] = d /\ st[a] = c.st /\ sid[a] = c.sid /\ d # None
       /\ c = [us |-> a, sid |-> sid[a], st |-> st[a]] /\ \A r \in cs[d].chans : r.us = a => r = c
       /\ \A e \in Downs : e # d => \A r \in cs[e].chans : r.us # a
       /\ None \notin SrvIds
  <2>1. \A e \in Downs : e # d => \A r \in cs[e].chans : r.us # a
    BY <1>2, Finds
  <2> QED BY <1>2, <2>1, Finds, ConstAssumption DEF Rec, SrvIds
<1> DEFINE st2 == [st EXCEPT ![a] = "FREE"]
           sid2 == [sid EXCEPT ![a] = None]
<1>12. /\ Linked(cs2, own2, st2, sid2)
       /\ own2[a] = None /\ st2[a] = "FREE" /\ sid2[a] = None
       /\ \A u \in UpIds : u # a => own2[u] = own[u] /\ st2[u] = st[u] /\ sid2[u] = sid[u]
  <2>2. Changes(cs, cs2, a, None, "FREE", None)
    BY <1>10, ConstAssumption DEF Changes
  <2>3. Fits(None, "FREE", None)
    BY <1>10 DEF Fits, Opt, Numbered
  <2> DEFINE st3 == st2
             sid3 == sid2
  <2>9. Becomes(st, st3, a, "FREE") /\ Becomes(sid, sid3, a, None) /\ Becomes(own, own2, a, None)
    BY DEF Becomes
  <2> HIDE DEF st3, sid3
  <2>8. Linked(cs2, own2, st3, sid3) /\ Now(a, own, st, sid, own2, st3, sid3, None, "FREE", None)
    BY <1>2, <2>2, <2>3, <2>9, Relink
  <2> QED BY <2>8 DEF st3, sid3, Now
<1>13. UInv(a, None, "FREE", None, T2, F2, sc)
  BY <1>3, <1>5, <1>7, <1>10, AnswersClose
<1>14. UInv(a, own2[a], st2[a], sid2[a], T2, F2, sc)
  BY <1>12, <1>13
<1> HIDE DEF st2, sid2
<1>16. \A u \in UpIds : u # a =>
          /\ own2[u] = own[u] /\ st2[u] = st[u] /\ sid2[u] = sid[u]
          /\ Wire(Append(w, m), bt, ToOf(u)) = Wire(w, bt, ToOf(u))
          /\ Wire(f, bf, FromOf(u)) = Wire(f, bf, FromOf(u))
          /\ SameS(sc, sc, u)
  BY <1>8, <1>9, <1>12
<1>20. Apart(a, own, st, sid, w, bt, f, bf, sc, own2, st2, sid2, Append(w, m), bt, f, bf, sc)
  BY <1>16 DEF Apart
<1>17. bt \in Int /\ bf \in Int /\ bt + 1 \in Int /\ bf + 1 \in Int
  OBVIOUS
<1>18. UInv(a, own2[a], st2[a], sid2[a], Wire(Append(w, m), bt, ToOf(a)), Wire(f, bf, FromOf(a)), sc)
  BY <1>14 DEF T2, F2
<1>19. Linked(cs2, own2, st2, sid2) /\ Numbers(own, st, sid, w, bt, f, bf, sc)
  BY <1>2, <1>12
<1>15. Channels(cs2, own2, Append(w, m), f, sc)
  BY <1>20, <1>17, <1>18, <1>19, ChannelStep
<1> QED BY <1>15

\* The upstream hears that a channel is open ...
LEMMA UpConfirmed ==
  ASSUME NEW cs, NEW own, NEW w \in Seq(ToMsg), NEW f \in Seq(FromMsg), NEW sc, Channels(cs, own, w, f, sc),
         NEW a \in UpIds, NEW d \in Downs, NEW c, NEW cs2, NEW own2,
         f # << >>, Head(f).us = a, Head(f).t = "conf", c \in cs[d].chans, c.us = a,
         own2 = own,
         Gets(cs, cs2, d, (cs[d].chans \ {c}) \cup {NewRec(a, Head(f).sid, "OPEN")})
  PROVE  Channels(cs2, own2, w, Tail(f), sc)
<1> \A e \in Downs : e # d => cs2[e].chans = cs[e].chans
  BY DEF Gets
<1> cs2[d].chans = (cs[d].chans \ {c}) \cup {[us |-> a, sid |-> Head(f).sid, st |-> "OPEN"]}
  BY DEF Gets, NewRec
<1>1. PICK st, sid : \E bt, bf \in Int :
         Linked(cs, own, st, sid) /\ Numbers(own, st, sid, w, bt, f, bf, sc)
  BY DEF Channels
<1>2. PICK bt \in Int, bf \in Int :
         Linked(cs, own, st, sid) /\ Numbers(own, st, sid, w, bt, f, bf, sc)
  BY <1>1
<1> DEFINE T == Wire(w, bt, ToOf(a))
           F == Wire(f, bf, FromOf(a))
           T2 == Wire(w, bt, ToOf(a))
           F2 == Wire(Tail(f), bf + 1, FromOf(a))
<1>3. UInv(a, own[a], st[a], sid[a], T, F, sc)
  BY <1>2 DEF Numbers
<1>5. T2 = T
  OBVIOUS
<1>6. Head(f) \in FromOf(a) /\ \A u \in UpIds : u # a => Head(f) \notin FromOf(u)
  BY DEF FromOf
<1>7. PICK z : z.m = Head(f) /\ Taken(F, z, F2)
  BY <1>6, TakeThis
<1>8. ASSUME NEW u \in UpIds, u # a
      PROVE  /\ Wire(w, bt, ToOf(u)) = Wire(w, bt, ToOf(u))
             /\ Wire(Tail(f), bf + 1, FromOf(u)) = Wire(f, bf, FromOf(u))
  BY <1>6, <1>8, TakeOther
<1>9. \A u \in UpIds : u # a => SameS(sc, sc, u)
  BY DEF SameS, Held, Live
<1> HIDE DEF T, F, T2, F2
<1>10. /\ own[a] = d /\ st[a] = c.st /\ sid[a] = c.sid /\ d # None
       /\ c = [us |-> a, sid |-> sid[a], st |-> st[a]] /\ \A r \in cs[d].chans : r.us = a => r = c
       /\ \A e \in Downs : e # d => \A r \in cs[e].chans : r.us # a
       /\ None \notin SrvIds
  <2>1. \A e \in Downs : e # d => \A r \in cs[e].chans : r.us # a
    BY <1>2, Finds
  <2> QED BY <1>2, <2>1, Finds, ConstAssumption DEF Rec, SrvIds
<1> DEFINE st2 == [st EXCEPT ![a] = "OPEN"]
           sid2 == [sid EXCEPT ![a] = Head(f).sid]
<1>12. /\ Linked(cs2, own2, st2, sid2)
       /\ own2[a] = d /\ st2[a] = "OPEN" /\ sid2[a] = Head(f).sid
       /\ \A u \in UpIds : u # a => own2[u] = own[u] /\ st2[u] = st[u] /\ sid2[u] = sid[u]
  <2>2. Changes(cs, cs2, a, d, "OPEN", Head(f).sid)
    BY <1>10 DEF Changes
  <2>4. Head(f).sid \in SrvIds
    BY <1>2, <1>10 DEF Linked, Numbered, FromMsg
  <2>3. Fits(d, "OPEN", Head(f).sid)
    BY ConstAssumption, <1>10, <2>4 DEF Fits, Opt, ChanStates, Numbered
  <2>5. own = [own EXCEPT ![a] = d]
    BY <1>2, <1>10 DEF Linked
  <2> DEFINE st3 == st2
             sid3 == sid2
  <2>9. Becomes(st, st3, a, "OPEN") /\ Becomes(sid, sid3, a, Head(f).sid) /\ Becomes(own, own2, a, d)
    BY <2>5 DEF Becomes
  <2> HIDE DEF st3, sid3
  <2>8. Linked(cs2, own2, st3, sid3) /\ Now(a, own, st, sid, own2, st3, sid3, d, "OPEN", Head(f).sid)
    BY <1>2, <2>2, <2>3, <2>9, Relink
  <2> QED BY <2>8 DEF st3, sid3, Now
<1>13. UInv(a, d, "OPEN", Head(f).sid, T2, F2, sc)
  BY <1>3, <1>5, <1>7, <1>10, HearsConf
<1>14. UInv(a, own2[a], st2[a], sid2[a], T2, F2, sc)
  BY <1>12, <1>13
<1> HIDE DEF st2, sid2
<1>16. \A u \in UpIds : u # a =>
          /\ own2[u] = own[u] /\ st2[u] = st[u] /\ sid2[u] = sid[u]
          /\ Wire(w, bt, ToOf(u)) = Wire(w, bt, ToOf(u))
          /\ Wire(Tail(f), bf + 1, FromOf(u)) = Wire(f, bf, FromOf(u))
          /\ SameS(sc, sc, u)
  BY <1>8, <1>9, <1>12
<1>20. Apart(a, own, st, sid, w, bt, f, bf, sc, own2, st2, sid2, w, bt, Tail(f), bf + 1, sc)
  BY <1>16 DEF Apart
<1>17. bt \in Int /\ bf \in Int /\ bt + 1 \in Int /\ bf + 1 \in Int
  OBVIOUS
<1>18. UInv(a, own2[a], st2[a], sid2[a], Wire(w, bt, ToOf(a)), Wire(Tail(f), bf + 1, FromOf(a)), sc)
  BY <1>14 DEF T2, F2
<1>19. Linked(cs2, own2, st2, sid2) /\ Numbers(own, st, sid, w, bt, f, bf, sc)
  BY <1>2, <1>12
<1>15. Channels(cs2, own2, w, Tail(f), sc)
  BY <1>20, <1>17, <1>18, <1>19, ChannelStep
<1> QED BY <1>15

\* ... that it is refused, or closed after it was closed here ...
LEMMA UpRefused ==
  ASSUME NEW cs, NEW own, NEW w \in Seq(ToMsg), NEW f \in Seq(FromMsg), NEW sc, Channels(cs, own, w, f, sc),
         NEW a \in UpIds, NEW d \in Downs, NEW c, NEW cs2, NEW own2,
         f # << >>, Head(f).us = a, Head(f).t \in {"fail", "close"},
         Head(f).t = "fail" \/ c.st = "SENT_CLOSE", c \in cs[d].chans, c.us = a,
         Becomes(own, own2, a, None),
         Gets(cs, cs2, d, cs[d].chans \ {c})
  PROVE  Channels(cs2, own2, w, Tail(f), sc)
<1> own2 = [own EXCEPT ![a] = None]
  BY DEF Becomes
<1> \A e \in Downs : e # d => cs2[e].chans = cs[e].chans
  BY DEF Gets
<1> cs2[d].chans = cs[d].chans \ {c}
  BY DEF Gets
<1>1. PICK st, sid : \E bt, bf \in Int :
         Linked(cs, own, st, sid) /\ Numbers(own, st, sid, w, bt, f, bf, sc)
  BY DEF Channels
<1>2. PICK bt \in Int, bf \in Int :
         Linked(cs, own, st, sid) /\ Numbers(own, st, sid, w, bt, f, bf, sc)
  BY <1>1
<1> DEFINE T == Wire(w, bt, ToOf(a))
           F == Wire(f, bf, FromOf(a))
           T2 == Wire(w, bt, ToOf(a))
           F2 == Wire(Tail(f), bf + 1, FromOf(a))
<1>3. UInv(a, own[a], st[a], sid[a], T, F, sc)
  BY <1>2 DEF Numbers
<1>5. T2 = T
  OBVIOUS
<1>6. Head(f) \in FromOf(a) /\ \A u \in UpIds : u # a => Head(f) \notin FromOf(u)
  BY DEF FromOf
<1>7. PICK z : z.m = Head(f) /\ Taken(F, z, F2)
  BY <1>6, TakeThis
<1>8. ASSUME NEW u \in UpIds, u # a
      PROVE  /\ Wire(w, bt, ToOf(u)) = Wire(w, bt, ToOf(u))
             /\ Wire(Tail(f), bf + 1, FromOf(u)) = Wire(f, bf, FromOf(u))
  BY <1>6, <1>8, TakeOther
<1>9. \A u \in UpIds : u # a => SameS(sc, sc, u)
  BY DEF SameS, Held, Live
<1> HIDE DEF T, F, T2, F2
<1>10. /\ own[a] = d /\ st[a] = c.st /\ sid[a] = c.sid /\ d # None
       /\ c = [us |-> a, sid |-> sid[a], st |-> st[a]] /\ \A r \in cs[d].chans : r.us = a => r = c
       /\ \A e \in Downs : e # d => \A r \in cs[e].chans : r.us # a
       /\ None \notin SrvIds
  <2>1. \A e \in Downs : e # d => \A r \in cs[e].chans : r.us # a
    BY <1>2, Finds
  <2> QED BY <1>2, <2>1, Finds, ConstAssumption DEF Rec, SrvIds
<1> DEFINE st2 == [st EXCEPT ![a] = "FREE"]
           sid2 == [sid EXCEPT ![a] = None]
<1>12. /\ Linked(cs2, own2, st2, sid2)
       /\ own2[a] = None /\ st2[a] = "FREE" /\ sid2[a] = None
       /\ \A u \in UpIds : u # a => own2[u] = own[u] /\ st2[u] = st[u] /\ sid2[u] = sid[u]
  <2>2. Changes(cs, cs2, a, None, "FREE", None)
    BY <1>10, ConstAssumption DEF Changes
  <2>3. Fits(None, "FREE", None)
    BY <1>10 DEF Fits, Opt, Numbered
  <2> DEFINE st3 == st2
             sid3 == sid2
  <2>9. Becomes(st, st3, a, "FREE") /\ Becomes(sid, sid3, a, None) /\ Becomes(own, own2, a, None)
    BY DEF Becomes
  <2> HIDE DEF st3, sid3
  <2>8. Linked(cs2, own2, st3, sid3) /\ Now(a, own, st, sid, own2, st3, sid3, None, "FREE", None)
    BY <1>2, <2>2, <2>3, <2>9, Relink
  <2> QED BY <2>8 DEF st3, sid3, Now
<1>13. UInv(a, None, "FREE", None, T2, F2, sc)
  BY <1>3, <1>5, <1>7, <1>10, HearsFinal DEF Final
<1>14. UInv(a, own2[a], st2[a], sid2[a], T2, F2, sc)
  BY <1>12, <1>13
<1> HIDE DEF st2, sid2
<1>16. \A u \in UpIds : u # a =>
          /\ own2[u] = own[u] /\ st2[u] = st[u] /\ sid2[u] = sid[u]
          /\ Wire(w, bt, ToOf(u)) = Wire(w, bt, ToOf(u))
          /\ Wire(Tail(f), bf + 1, FromOf(u)) = Wire(f, bf, FromOf(u))
          /\ SameS(sc, sc, u)
  BY <1>8, <1>9, <1>12
<1>20. Apart(a, own, st, sid, w, bt, f, bf, sc, own2, st2, sid2, w, bt, Tail(f), bf + 1, sc)
  BY <1>16 DEF Apart
<1>17. bt \in Int /\ bf \in Int /\ bt + 1 \in Int /\ bf + 1 \in Int
  OBVIOUS
<1>18. UInv(a, own2[a], st2[a], sid2[a], Wire(w, bt, ToOf(a)), Wire(Tail(f), bf + 1, FromOf(a)), sc)
  BY <1>14 DEF T2, F2
<1>19. Linked(cs2, own2, st2, sid2) /\ Numbers(own, st, sid, w, bt, f, bf, sc)
  BY <1>2, <1>12
<1>15. Channels(cs2, own2, w, Tail(f), sc)
  BY <1>20, <1>17, <1>18, <1>19, ChannelStep
<1> QED BY <1>15

\* ... or that the server closes it.
LEMMA UpClosed ==
  ASSUME NEW cs, NEW own, NEW w \in Seq(ToMsg), NEW f \in Seq(FromMsg), NEW sc, Channels(cs, own, w, f, sc),
         NEW a \in UpIds, NEW d \in Downs, NEW c, NEW cs2, NEW own2,
         f # << >>, Head(f).us = a, Head(f).t = "close", c.st = "OPEN", c \in cs[d].chans,
         c.us = a, own2 = own,
         Gets(cs, cs2, d, (cs[d].chans \ {c}) \cup {NewRec(a, c.sid, "RCVD_CLOSE")})
  PROVE  Channels(cs2, own2, w, Tail(f), sc)
<1> \A e \in Downs : e # d => cs2[e].chans = cs[e].chans
  BY DEF Gets
<1> cs2[d].chans = (cs[d].chans \ {c}) \cup {[us |-> a, sid |-> c.sid, st |-> "RCVD_CLOSE"]}
  BY DEF Gets, NewRec
<1>1. PICK st, sid : \E bt, bf \in Int :
         Linked(cs, own, st, sid) /\ Numbers(own, st, sid, w, bt, f, bf, sc)
  BY DEF Channels
<1>2. PICK bt \in Int, bf \in Int :
         Linked(cs, own, st, sid) /\ Numbers(own, st, sid, w, bt, f, bf, sc)
  BY <1>1
<1> DEFINE T == Wire(w, bt, ToOf(a))
           F == Wire(f, bf, FromOf(a))
           T2 == Wire(w, bt, ToOf(a))
           F2 == Wire(Tail(f), bf + 1, FromOf(a))
<1>3. UInv(a, own[a], st[a], sid[a], T, F, sc)
  BY <1>2 DEF Numbers
<1>5. T2 = T
  OBVIOUS
<1>6. Head(f) \in FromOf(a) /\ \A u \in UpIds : u # a => Head(f) \notin FromOf(u)
  BY DEF FromOf
<1>7. PICK z : z.m = Head(f) /\ Taken(F, z, F2)
  BY <1>6, TakeThis
<1>8. ASSUME NEW u \in UpIds, u # a
      PROVE  /\ Wire(w, bt, ToOf(u)) = Wire(w, bt, ToOf(u))
             /\ Wire(Tail(f), bf + 1, FromOf(u)) = Wire(f, bf, FromOf(u))
  BY <1>6, <1>8, TakeOther
<1>9. \A u \in UpIds : u # a => SameS(sc, sc, u)
  BY DEF SameS, Held, Live
<1> HIDE DEF T, F, T2, F2
<1>10. /\ own[a] = d /\ st[a] = c.st /\ sid[a] = c.sid /\ d # None
       /\ c = [us |-> a, sid |-> sid[a], st |-> st[a]] /\ \A r \in cs[d].chans : r.us = a => r = c
       /\ \A e \in Downs : e # d => \A r \in cs[e].chans : r.us # a
       /\ None \notin SrvIds
  <2>1. \A e \in Downs : e # d => \A r \in cs[e].chans : r.us # a
    BY <1>2, Finds
  <2> QED BY <1>2, <2>1, Finds, ConstAssumption DEF Rec, SrvIds
<1>a. st[a] = "OPEN"
  BY <1>3, <1>5, <1>7, <1>10, HearsClose
<1> DEFINE st2 == [st EXCEPT ![a] = "RCVD_CLOSE"]
           sid2 == [sid EXCEPT ![a] = sid[a]]
<1>12. /\ Linked(cs2, own2, st2, sid2)
       /\ own2[a] = d /\ st2[a] = "RCVD_CLOSE" /\ sid2[a] = sid[a]
       /\ \A u \in UpIds : u # a => own2[u] = own[u] /\ st2[u] = st[u] /\ sid2[u] = sid[u]
  <2>2. Changes(cs, cs2, a, d, "RCVD_CLOSE", sid[a])
    BY <1>10, <1>a DEF Changes
  <2>4. sid[a] \in SrvIds
    BY <1>2, <1>10, <1>a DEF Linked, Numbered, FromMsg
  <2>3. Fits(d, "RCVD_CLOSE", sid[a])
    BY ConstAssumption, <1>10, <2>4 DEF Fits, Opt, ChanStates, Numbered
  <2>5. own = [own EXCEPT ![a] = d]
    BY <1>2, <1>10 DEF Linked
  <2> DEFINE st3 == st2
             sid3 == sid2
  <2>9. Becomes(st, st3, a, "RCVD_CLOSE") /\ Becomes(sid, sid3, a, sid[a]) /\ Becomes(own, own2, a, d)
    BY <2>5 DEF Becomes
  <2> HIDE DEF st3, sid3
  <2>8. Linked(cs2, own2, st3, sid3) /\ Now(a, own, st, sid, own2, st3, sid3, d, "RCVD_CLOSE", sid[a])
    BY <1>2, <2>2, <2>3, <2>9, Relink
  <2> QED BY <2>8 DEF st3, sid3, Now
<1>13. UInv(a, d, "RCVD_CLOSE", sid[a], T2, F2, sc)
  BY <1>3, <1>5, <1>7, <1>10, HearsClose
<1>14. UInv(a, own2[a], st2[a], sid2[a], T2, F2, sc)
  BY <1>12, <1>13
<1> HIDE DEF st2, sid2
<1>16. \A u \in UpIds : u # a =>
          /\ own2[u] = own[u] /\ st2[u] = st[u] /\ sid2[u] = sid[u]
          /\ Wire(w, bt, ToOf(u)) = Wire(w, bt, ToOf(u))
          /\ Wire(Tail(f), bf + 1, FromOf(u)) = Wire(f, bf, FromOf(u))
          /\ SameS(sc, sc, u)
  BY <1>8, <1>9, <1>12
<1>20. Apart(a, own, st, sid, w, bt, f, bf, sc, own2, st2, sid2, w, bt, Tail(f), bf + 1, sc)
  BY <1>16 DEF Apart
<1>17. bt \in Int /\ bf \in Int /\ bt + 1 \in Int /\ bf + 1 \in Int
  OBVIOUS
<1>18. UInv(a, own2[a], st2[a], sid2[a], Wire(w, bt, ToOf(a)), Wire(Tail(f), bf + 1, FromOf(a)), sc)
  BY <1>14 DEF T2, F2
<1>19. Linked(cs2, own2, st2, sid2) /\ Numbers(own, st, sid, w, bt, f, bf, sc)
  BY <1>2, <1>12
<1>15. Channels(cs2, own2, w, Tail(f), sc)
  BY <1>20, <1>17, <1>18, <1>19, ChannelStep
<1> QED BY <1>15

---------------------------------------------------------------------------
(* Steps about ports.                                                      *)

\* The server refuses a port.
LEMMA ServerRefuses ==
  ASSUME NEW cs, NEW rpf, NEW gq \in Seq(Downs), NEW w \in Seq(ToMsg), NEW f \in Seq(FromMsg), NEW sf,
         Forwardings(cs, rpf, gq, w, f, sf),
         NEW y,
         w # << >>, Head(w).t = "forward", y \in FromMsg, y.d = Head(w).d, y.p = Head(w).p,
         y.t = "failure"
  PROVE  Forwardings(cs, rpf, gq, Tail(w), Append(f, y), sf)
<1>1. PICK bg \in Int, bt \in Int, bf \in Int :
         PInv(cs, rpf, Wire(gq, bg, Downs), Wire(w, bt, ToPorts), Wire(f, bf, FromPorts), sf)
  BY DEF Forwardings
<1> DEFINE G == Wire(gq, bg, Downs)
           T == Wire(w, bt, ToPorts)
           F == Wire(f, bf, FromPorts)
           G2 == Wire(gq, bg, Downs)
           T2 == Wire(Tail(w), bt + 1, ToPorts)
           F2 == Wire(Append(f, y), bf, FromPorts)
<1>2. G2 = G
  OBVIOUS
<1>3a. Head(w) \in ToPorts
  BY DEF ToPorts, ToMsg, FromMsg
<1>3. PICK x : x.m = Head(w) /\ Taken(T, x, T2)
  BY <1>3a, TakeThis
<1>4a. y \in FromPorts
  BY DEF FromPorts, ToMsg, FromMsg
<1>4. PICK z : z.m = y /\ Added(F, z, F2)
  BY <1>4a, AddThis
<1>5. bg + 1 \in Int /\ bt + 1 \in Int /\ bf + 1 \in Int
  OBVIOUS
<1>6. PInv(cs, rpf, G, T, F, sf)
  BY <1>1
<1> HIDE DEF G, T, F, G2, T2, F2
<1>7. PInv(cs, rpf, G2, T2, F2, sf)
  BY <1>2, <1>3, <1>4, <1>6, RefusesPort
<1> QED BY <1>5, <1>7 DEF Forwardings, G2, T2, F2

\* The server listens on a port.
LEMMA ServerGrants ==
  ASSUME NEW cs, NEW rpf, NEW gq \in Seq(Downs), NEW w \in Seq(ToMsg), NEW f \in Seq(FromMsg), NEW sf,
         Forwardings(cs, rpf, gq, w, f, sf),
         NEW y, NEW sf2, NEW p \in Ports,
         w # << >>, Head(w).t = "forward", Head(w).p = p, Sets(sf, sf2, p, Head(w).d),
         y \in FromMsg, y.d = Head(w).d, y.p = Head(w).p,
         y.t = "success"
  PROVE  Forwardings(cs, rpf, gq, Tail(w), Append(f, y), sf2)
<1>1. PICK bg \in Int, bt \in Int, bf \in Int :
         PInv(cs, rpf, Wire(gq, bg, Downs), Wire(w, bt, ToPorts), Wire(f, bf, FromPorts), sf)
  BY DEF Forwardings
<1> DEFINE G == Wire(gq, bg, Downs)
           T == Wire(w, bt, ToPorts)
           F == Wire(f, bf, FromPorts)
           G2 == Wire(gq, bg, Downs)
           T2 == Wire(Tail(w), bt + 1, ToPorts)
           F2 == Wire(Append(f, y), bf, FromPorts)
<1>2. G2 = G
  OBVIOUS
<1>3a. Head(w) \in ToPorts
  BY DEF ToPorts, ToMsg, FromMsg
<1>3. PICK x : x.m = Head(w) /\ Taken(T, x, T2)
  BY <1>3a, TakeThis
<1>4a. y \in FromPorts
  BY DEF FromPorts, ToMsg, FromMsg
<1>4. PICK z : z.m = y /\ Added(F, z, F2)
  BY <1>4a, AddThis
<1>5. bg + 1 \in Int /\ bt + 1 \in Int /\ bf + 1 \in Int
  OBVIOUS
<1>6. PInv(cs, rpf, G, T, F, sf)
  BY <1>1
<1> HIDE DEF G, T, F, G2, T2, F2
<1>8. sf2[p] = Head(w).d /\ \A q \in Ports : q # p => sf2[q] = sf[q]
  BY DEF Sets
<1>7. PInv(cs, rpf, G2, T2, F2, sf2)
  BY <1>2, <1>3, <1>4, <1>6, <1>8, GrantsPort
<1> QED BY <1>5, <1>7 DEF Forwardings, G2, T2, F2

\* The server stops listening on a port, and says so ...
LEMMA ServerCancels ==
  ASSUME NEW cs, NEW rpf, NEW gq \in Seq(Downs), NEW w \in Seq(ToMsg), NEW f \in Seq(FromMsg), NEW sf,
         Forwardings(cs, rpf, gq, w, f, sf),
         NEW y, NEW sf2, NEW p \in Ports,
         w # << >>, Head(w).t = "cancel", Head(w).wr, Head(w).p = p, Sets(sf, sf2, p, None),
         y \in FromMsg, y.d = Head(w).d, y.p = Head(w).p,
         y.t = "success"
  PROVE  Forwardings(cs, rpf, gq, Tail(w), Append(f, y), sf2)
<1>1. PICK bg \in Int, bt \in Int, bf \in Int :
         PInv(cs, rpf, Wire(gq, bg, Downs), Wire(w, bt, ToPorts), Wire(f, bf, FromPorts), sf)
  BY DEF Forwardings
<1> DEFINE G == Wire(gq, bg, Downs)
           T == Wire(w, bt, ToPorts)
           F == Wire(f, bf, FromPorts)
           G2 == Wire(gq, bg, Downs)
           T2 == Wire(Tail(w), bt + 1, ToPorts)
           F2 == Wire(Append(f, y), bf, FromPorts)
<1>2. G2 = G
  OBVIOUS
<1>3a. Head(w) \in ToPorts
  BY DEF ToPorts, ToMsg, FromMsg
<1>3. PICK x : x.m = Head(w) /\ Taken(T, x, T2)
  BY <1>3a, TakeThis
<1>4a. y \in FromPorts
  BY DEF FromPorts, ToMsg, FromMsg
<1>4. PICK z : z.m = y /\ Added(F, z, F2)
  BY <1>4a, AddThis
<1>5. bg + 1 \in Int /\ bt + 1 \in Int /\ bf + 1 \in Int
  OBVIOUS
<1>6. PInv(cs, rpf, G, T, F, sf)
  BY <1>1
<1> HIDE DEF G, T, F, G2, T2, F2
<1>8. sf2[p] = None /\ \A q \in Ports : q # p => sf2[q] = sf[q]
  BY DEF Sets
<1>7. PInv(cs, rpf, G2, T2, F2, sf2)
  BY <1>2, <1>3, <1>4, <1>6, <1>8, CancelsAsked
<1> QED BY <1>5, <1>7 DEF Forwardings, G2, T2, F2

\* ... unless it was not asked to.
LEMMA ServerStops ==
  ASSUME NEW cs, NEW rpf, NEW gq \in Seq(Downs), NEW w \in Seq(ToMsg), NEW f \in Seq(FromMsg), NEW sf,
         Forwardings(cs, rpf, gq, w, f, sf),
         NEW sf2, NEW p \in Ports,
         w # << >>, Head(w).t = "cancel", ~Head(w).wr, Head(w).p = p,
         Sets(sf, sf2, p, None)
  PROVE  Forwardings(cs, rpf, gq, Tail(w), f, sf2)
<1>1. PICK bg \in Int, bt \in Int, bf \in Int :
         PInv(cs, rpf, Wire(gq, bg, Downs), Wire(w, bt, ToPorts), Wire(f, bf, FromPorts), sf)
  BY DEF Forwardings
<1> DEFINE G == Wire(gq, bg, Downs)
           T == Wire(w, bt, ToPorts)
           F == Wire(f, bf, FromPorts)
           G2 == Wire(gq, bg, Downs)
           T2 == Wire(Tail(w), bt + 1, ToPorts)
           F2 == Wire(f, bf, FromPorts)
<1>2. G2 = G
  OBVIOUS
<1>3a. Head(w) \in ToPorts
  BY DEF ToPorts, ToMsg, FromMsg
<1>3. PICK x : x.m = Head(w) /\ Taken(T, x, T2)
  BY <1>3a, TakeThis
<1>4. F2 = F
  OBVIOUS
<1>5. bg + 1 \in Int /\ bt + 1 \in Int /\ bf + 1 \in Int
  OBVIOUS
<1>6. PInv(cs, rpf, G, T, F, sf)
  BY <1>1
<1> HIDE DEF G, T, F, G2, T2, F2
<1>8. sf2[p] = None /\ \A q \in Ports : q # p => sf2[q] = sf[q]
  BY DEF Sets
<1>7. PInv(cs, rpf, G2, T2, F2, sf2)
  BY <1>2, <1>3, <1>4, <1>6, <1>8, CancelsUnasked
<1> QED BY <1>5, <1>7 DEF Forwardings, G2, T2, F2

\* The server announces a connection.
LEMMA ServerAnnounces ==
  ASSUME NEW cs, NEW rpf, NEW gq \in Seq(Downs), NEW w \in Seq(ToMsg), NEW f \in Seq(FromMsg), NEW sf,
         Forwardings(cs, rpf, gq, w, f, sf),
         NEW y \in FromMsg, NEW p \in Ports,
         sf[p] # None, y.t = "open",
         y.p = p
  PROVE  Forwardings(cs, rpf, gq, w, Append(f, y), sf)
<1>1. PICK bg \in Int, bt \in Int, bf \in Int :
         PInv(cs, rpf, Wire(gq, bg, Downs), Wire(w, bt, ToPorts), Wire(f, bf, FromPorts), sf)
  BY DEF Forwardings
<1> DEFINE G == Wire(gq, bg, Downs)
           T == Wire(w, bt, ToPorts)
           F == Wire(f, bf, FromPorts)
           G2 == Wire(gq, bg, Downs)
           T2 == Wire(w, bt, ToPorts)
           F2 == Wire(Append(f, y), bf, FromPorts)
<1>2. G2 = G
  OBVIOUS
<1>3. T2 = T
  OBVIOUS
<1>4a. y \in FromPorts
  BY DEF FromPorts, ToMsg, FromMsg
<1>4. PICK z : z.m = y /\ Added(F, z, F2)
  BY <1>4a, AddThis
<1>5. bg + 1 \in Int /\ bt + 1 \in Int /\ bf + 1 \in Int
  OBVIOUS
<1>6. PInv(cs, rpf, G, T, F, sf)
  BY <1>1
<1> HIDE DEF G, T, F, G2, T2, F2
<1>7. PInv(cs, rpf, G2, T2, F2, sf)
  BY <1>2, <1>3, <1>4, <1>6, Announces
<1> QED BY <1>5, <1>7 DEF Forwardings, G2, T2, F2

\* A cancellation on its way is of a port the server listens on.
LEMMA ListenedFor ==
  ASSUME NEW cs, NEW rpf, NEW gq \in Seq(Downs), NEW w \in Seq(ToMsg), NEW f \in Seq(FromMsg), NEW sf,
         Forwardings(cs, rpf, gq, w, f, sf), w # << >>,
         Head(w).t = "cancel"
  PROVE  sf[Head(w).p] = Head(w).d
<1>1. PICK bg \in Int, bt \in Int, bf \in Int :
         PInv(cs, rpf, Wire(gq, bg, Downs), Wire(w, bt, ToPorts), Wire(f, bf, FromPorts), sf)
  BY DEF Forwardings
<1> DEFINE G == Wire(gq, bg, Downs)
           T == Wire(w, bt, ToPorts)
           F == Wire(f, bf, FromPorts)
           G2 == Wire(gq, bg, Downs)
           T2 == Wire(Tail(w), bt + 1, ToPorts)
           F2 == Wire(f, bf, FromPorts)
<1>2. G2 = G
  OBVIOUS
<1>3a. Head(w) \in ToPorts
  BY DEF ToPorts, ToMsg, FromMsg
<1>3. PICK x : x.m = Head(w) /\ Taken(T, x, T2)
  BY <1>3a, TakeThis
<1>4. F2 = F
  OBVIOUS
<1>6. PInv(cs, rpf, G, T, F, sf)
  BY <1>1
<1> HIDE DEF G, T, F, G2, T2, F2
<1>8. MsgsP(T, sf)
  BY <1>6 DEF PInv
<1> QED BY <1>2, <1>3, <1>4, <1>6, <1>8 DEF Taken, MsgsP

\* The upstream takes an announcement off the wire.
LEMMA TakesOpen ==
  ASSUME NEW cs, NEW rpf, NEW gq \in Seq(Downs), NEW w \in Seq(ToMsg), NEW f \in Seq(FromMsg), NEW sf,
         Forwardings(cs, rpf, gq, w, f, sf), f # << >>,
         Head(f).t = "open"
  PROVE  Forwardings(cs, rpf, gq, w, Tail(f), sf)
<1>1. PICK bg \in Int, bt \in Int, bf \in Int :
         PInv(cs, rpf, Wire(gq, bg, Downs), Wire(w, bt, ToPorts), Wire(f, bf, FromPorts), sf)
  BY DEF Forwardings
<1> DEFINE G == Wire(gq, bg, Downs)
           T == Wire(w, bt, ToPorts)
           F == Wire(f, bf, FromPorts)
           G2 == Wire(gq, bg, Downs)
           T2 == Wire(w, bt, ToPorts)
           F2 == Wire(Tail(f), bf + 1, FromPorts)
<1>2. G2 = G
  OBVIOUS
<1>3. T2 = T
  OBVIOUS
<1>4a. Head(f) \in FromPorts
  BY DEF FromPorts, ToMsg, FromMsg
<1>4. PICK z : z.m = Head(f) /\ Taken(F, z, F2)
  BY <1>4a, TakeThis
<1>5. bg + 1 \in Int /\ bt + 1 \in Int /\ bf + 1 \in Int
  OBVIOUS
<1>6. PInv(cs, rpf, G, T, F, sf)
  BY <1>1
<1> HIDE DEF G, T, F, G2, T2, F2
<1>7. PInv(cs, rpf, G2, T2, F2, sf)
  BY <1>2, <1>3, <1>4, <1>6, HearsOpen
<1> QED BY <1>5, <1>7 DEF Forwardings, G2, T2, F2

\* A downstream asks for a port ...
LEMMA UpForwards ==
  ASSUME NEW cs, NEW rpf, NEW gq \in Seq(Downs), NEW w \in Seq(ToMsg), NEW f \in Seq(FromMsg), NEW sf,
         Forwardings(cs, rpf, gq, w, f, sf),
         NEW d \in Downs, NEW p \in Ports, NEW cs2, NEW rpf2, NEW m \in ToMsg,
         cs[d].globreq_head = None, cs[d].st = "live", rpf[p] = None,
         OnlyPort(cs, cs2, d, p), cs2[d].fwds[p].st = "waiting", cs2[d].fwds[p].rpf,
         Sets(rpf, rpf2, p, d), Waits(cs2[d], "forward", p), cs2[d].st = "live",
         m.t = "forward", m.d = d, m.p = p,
         m.wr
  PROVE  Forwardings(cs2, rpf2, Append(gq, d), Append(w, m), f, sf)
<1>1. PICK bg \in Int, bt \in Int, bf \in Int :
         PInv(cs, rpf, Wire(gq, bg, Downs), Wire(w, bt, ToPorts), Wire(f, bf, FromPorts), sf)
  BY DEF Forwardings
<1> DEFINE G == Wire(gq, bg, Downs)
           T == Wire(w, bt, ToPorts)
           F == Wire(f, bf, FromPorts)
           G2 == Wire(Append(gq, d), bg, Downs)
           T2 == Wire(Append(w, m), bt, ToPorts)
           F2 == Wire(f, bf, FromPorts)
<1>2a. d \in Downs
  OBVIOUS
<1>2. PICK g : g.m = d /\ Added(G, g, G2)
  BY <1>2a, AddThis
<1>3a. m \in ToPorts
  BY DEF ToPorts, ToMsg, FromMsg
<1>3. PICK x : x.m = m /\ Added(T, x, T2)
  BY <1>3a, AddThis
<1>4. F2 = F
  OBVIOUS
<1>5. bg + 1 \in Int /\ bt + 1 \in Int /\ bf + 1 \in Int
  OBVIOUS
<1>6. PInv(cs, rpf, G, T, F, sf)
  BY <1>1
<1> HIDE DEF G, T, F, G2, T2, F2
<1> /\ \A e \in Downs : e # d => cs2[e] = cs[e]
    /\ \A q \in Ports : q # p => cs2[d].fwds[q] = cs[d].fwds[q]
  BY DEF OnlyPort
<1>8. \A q \in Ports : q # p => cs2[d].fwds[q] = cs[d].fwds[q] /\ rpf2[q] = rpf[q]
  BY DEF Sets
<1> rpf2[p] = d
  BY DEF Sets
<1>7. PInv(cs2, rpf2, G2, T2, F2, sf)
  BY <1>2, <1>3, <1>4, <1>6, <1>8, AsksForward
<1> QED BY <1>5, <1>7 DEF Forwardings, G2, T2, F2

\* ... or for the cancellation of one.
LEMMA UpCancels ==
  ASSUME NEW cs, NEW rpf, NEW gq \in Seq(Downs), NEW w \in Seq(ToMsg), NEW f \in Seq(FromMsg), NEW sf,
         Forwardings(cs, rpf, gq, w, f, sf),
         NEW d \in Downs, NEW p \in Ports, NEW cs2, NEW rpf2, NEW m \in ToMsg,
         cs[d].globreq_head = None, cs[d].st = "live", cs[d].fwds[p].st # "none",
         OnlyPort(cs, cs2, d, p), cs2[d].fwds[p].st = cs[d].fwds[p].st, ~cs2[d].fwds[p].rpf,
         Sets(rpf, rpf2, p, None), Waits(cs2[d], "cancel", p), cs2[d].st = "live",
         m.t = "cancel", m.d = d, m.p = p,
         m.wr
  PROVE  Forwardings(cs2, rpf2, Append(gq, d), Append(w, m), f, sf)
<1>1. PICK bg \in Int, bt \in Int, bf \in Int :
         PInv(cs, rpf, Wire(gq, bg, Downs), Wire(w, bt, ToPorts), Wire(f, bf, FromPorts), sf)
  BY DEF Forwardings
<1> DEFINE G == Wire(gq, bg, Downs)
           T == Wire(w, bt, ToPorts)
           F == Wire(f, bf, FromPorts)
           G2 == Wire(Append(gq, d), bg, Downs)
           T2 == Wire(Append(w, m), bt, ToPorts)
           F2 == Wire(f, bf, FromPorts)
<1>2a. d \in Downs
  OBVIOUS
<1>2. PICK g : g.m = d /\ Added(G, g, G2)
  BY <1>2a, AddThis
<1>3a. m \in ToPorts
  BY DEF ToPorts, ToMsg, FromMsg
<1>3. PICK x : x.m = m /\ Added(T, x, T2)
  BY <1>3a, AddThis
<1>4. F2 = F
  OBVIOUS
<1>5. bg + 1 \in Int /\ bt + 1 \in Int /\ bf + 1 \in Int
  OBVIOUS
<1>6. PInv(cs, rpf, G, T, F, sf)
  BY <1>1
<1> HIDE DEF G, T, F, G2, T2, F2
<1> /\ \A e \in Downs : e # d => cs2[e] = cs[e]
    /\ \A q \in Ports : q # p => cs2[d].fwds[q] = cs[d].fwds[q]
  BY DEF OnlyPort
<1>8. \A q \in Ports : q # p => cs2[d].fwds[q] = cs[d].fwds[q] /\ rpf2[q] = rpf[q]
  BY DEF Sets
<1> rpf2[p] = None
  BY DEF Sets
<1>7. PInv(cs2, rpf2, G2, T2, F2, sf)
  BY <1>2, <1>3, <1>4, <1>6, <1>8, AsksCancel
<1> QED BY <1>5, <1>7 DEF Forwardings, G2, T2, F2

\* The answer at the head is for the downstream at the head of the list, which
\* waits for it.
LEMMA AnswerMeets ==
  ASSUME NEW cs, NEW rpf, NEW gq \in Seq(Downs), NEW w \in Seq(ToMsg), NEW f \in Seq(FromMsg), NEW sf,
         Forwardings(cs, rpf, gq, w, f, sf), f # << >>, gq # << >>,
         Head(f).t \in {"success", "failure"}
  PROVE  /\ Head(gq) = Head(f).d
         /\ Waits(cs[Head(gq)], "forward", Head(f).p) \/ Waits(cs[Head(gq)], "cancel", Head(f).p)
         /\ Head(f).t = "failure" => Waits(cs[Head(gq)], "forward", Head(f).p)
<1>1. PICK bg \in Int, bt \in Int, bf \in Int :
         PInv(cs, rpf, Wire(gq, bg, Downs), Wire(w, bt, ToPorts), Wire(f, bf, FromPorts), sf)
  BY DEF Forwardings
<1> DEFINE G == Wire(gq, bg, Downs)
           T == Wire(w, bt, ToPorts)
           F == Wire(f, bf, FromPorts)
           G2 == Wire(Tail(gq), bg + 1, Downs)
           T2 == Wire(w, bt, ToPorts)
           F2 == Wire(Tail(f), bf + 1, FromPorts)
<1>2a. Head(gq) \in Downs
  OBVIOUS
<1>2. PICK g : g.m = Head(gq) /\ Taken(G, g, G2)
  BY <1>2a, TakeThis
<1>3. T2 = T
  OBVIOUS
<1>4a. Head(f) \in FromPorts
  BY DEF FromPorts, ToMsg, FromMsg
<1>4. PICK z : z.m = Head(f) /\ Taken(F, z, F2)
  BY <1>4a, TakeThis
<1>6. PInv(cs, rpf, G, T, F, sf)
  BY <1>1
<1> HIDE DEF G, T, F, G2, T2, F2
<1>8. g.m = z.m.d
  BY <1>2, <1>4, <1>6, AnswersMeet DEF Answer
<1>9. /\ Waits(cs[z.m.d], "forward", z.m.p) \/ Waits(cs[z.m.d], "cancel", z.m.p)
      /\ z.m.t = "failure" => Waits(cs[z.m.d], "forward", z.m.p)
  <2>1. AnswerP(cs, T, F, sf) /\ z \in F /\ Answer(z)
    BY <1>4, <1>6 DEF PInv, Taken, Answer
  <2> QED BY <2>1 DEF AnswerP
<1> QED BY <1>2, <1>3, <1>4, <1>6, <1>8, <1>9

\* The upstream hears that a port is forwarded ...
LEMMA UpGranted ==
  ASSUME NEW cs, NEW rpf, NEW gq \in Seq(Downs), NEW w \in Seq(ToMsg), NEW f \in Seq(FromMsg), NEW sf,
         Forwardings(cs, rpf, gq, w, f, sf),
         NEW d \in Downs, NEW p \in Ports, NEW cs2,
         f # << >>, gq # << >>, Head(f).t = "success", Head(f).d = d, Head(f).p = p,
         Waits(cs[d], "forward", p), cs2[d].fwds[p].st = "active",
         cs2[d].fwds[p].rpf = cs[d].fwds[p].rpf, OnlyPort(cs, cs2, d, p),
         cs2[d].globreq_head = None,
         cs2[d].st = cs[d].st
  PROVE  Forwardings(cs2, rpf, Tail(gq), w, Tail(f), sf)
<1>1. PICK bg \in Int, bt \in Int, bf \in Int :
         PInv(cs, rpf, Wire(gq, bg, Downs), Wire(w, bt, ToPorts), Wire(f, bf, FromPorts), sf)
  BY DEF Forwardings
<1> DEFINE G == Wire(gq, bg, Downs)
           T == Wire(w, bt, ToPorts)
           F == Wire(f, bf, FromPorts)
           G2 == Wire(Tail(gq), bg + 1, Downs)
           T2 == Wire(w, bt, ToPorts)
           F2 == Wire(Tail(f), bf + 1, FromPorts)
<1>2a. Head(gq) \in Downs
  OBVIOUS
<1>2. PICK g : g.m = Head(gq) /\ Taken(G, g, G2)
  BY <1>2a, TakeThis
<1>3. T2 = T
  OBVIOUS
<1>4a. Head(f) \in FromPorts
  BY DEF FromPorts, ToMsg, FromMsg
<1>4. PICK z : z.m = Head(f) /\ Taken(F, z, F2)
  BY <1>4a, TakeThis
<1>5. bg + 1 \in Int /\ bt + 1 \in Int /\ bf + 1 \in Int
  OBVIOUS
<1>6. PInv(cs, rpf, G, T, F, sf)
  BY <1>1
<1> HIDE DEF G, T, F, G2, T2, F2
<1> /\ \A e \in Downs : e # d => cs2[e] = cs[e]
    /\ \A q \in Ports : q # p => cs2[d].fwds[q] = cs[d].fwds[q]
  BY DEF OnlyPort
<1>8. z.m.d = d /\ z.m.p = p /\ z.m.t = "success"
  BY <1>4
<1>7. PInv(cs2, rpf, G2, T2, F2, sf)
  BY <1>2, <1>3, <1>4, <1>6, <1>8, SMTT(60), HearsGranted
<1> QED BY <1>5, <1>7 DEF Forwardings, G2, T2, F2

\* ... that it is refused ...
LEMMA UpRefuses ==
  ASSUME NEW cs, NEW rpf, NEW gq \in Seq(Downs), NEW w \in Seq(ToMsg), NEW f \in Seq(FromMsg), NEW sf,
         Forwardings(cs, rpf, gq, w, f, sf),
         NEW d \in Downs, NEW p \in Ports, NEW cs2,
         f # << >>, gq # << >>, Head(f).t = "failure", Head(f).d = d, Head(f).p = p,
         cs2[d].fwds[p].st = "none", ~cs2[d].fwds[p].rpf, OnlyPort(cs, cs2, d, p),
         cs2[d].globreq_head = None,
         cs2[d].st = cs[d].st
  PROVE  Forwardings(cs2, rpf, Tail(gq), w, Tail(f), sf)
<1>1. PICK bg \in Int, bt \in Int, bf \in Int :
         PInv(cs, rpf, Wire(gq, bg, Downs), Wire(w, bt, ToPorts), Wire(f, bf, FromPorts), sf)
  BY DEF Forwardings
<1> DEFINE G == Wire(gq, bg, Downs)
           T == Wire(w, bt, ToPorts)
           F == Wire(f, bf, FromPorts)
           G2 == Wire(Tail(gq), bg + 1, Downs)
           T2 == Wire(w, bt, ToPorts)
           F2 == Wire(Tail(f), bf + 1, FromPorts)
<1>2a. Head(gq) \in Downs
  OBVIOUS
<1>2. PICK g : g.m = Head(gq) /\ Taken(G, g, G2)
  BY <1>2a, TakeThis
<1>3. T2 = T
  OBVIOUS
<1>4a. Head(f) \in FromPorts
  BY DEF FromPorts, ToMsg, FromMsg
<1>4. PICK z : z.m = Head(f) /\ Taken(F, z, F2)
  BY <1>4a, TakeThis
<1>5. bg + 1 \in Int /\ bt + 1 \in Int /\ bf + 1 \in Int
  OBVIOUS
<1>6. PInv(cs, rpf, G, T, F, sf)
  BY <1>1
<1> HIDE DEF G, T, F, G2, T2, F2
<1> /\ \A e \in Downs : e # d => cs2[e] = cs[e]
    /\ \A q \in Ports : q # p => cs2[d].fwds[q] = cs[d].fwds[q]
  BY DEF OnlyPort
<1>8. z.m.d = d /\ z.m.p = p /\ z.m.t = "failure"
  BY <1>4
<1>7. PInv(cs2, rpf, G2, T2, F2, sf)
  BY <1>2, <1>3, <1>4, <1>6, <1>8, SMTT(60), HearsRefused
<1> QED BY <1>5, <1>7 DEF Forwardings, G2, T2, F2

\* ... or that its cancellation is granted.
LEMMA UpCancelled ==
  ASSUME NEW cs, NEW rpf, NEW gq \in Seq(Downs), NEW w \in Seq(ToMsg), NEW f \in Seq(FromMsg), NEW sf,
         Forwardings(cs, rpf, gq, w, f, sf),
         NEW d \in Downs, NEW p \in Ports, NEW cs2,
         f # << >>, gq # << >>, Head(f).t = "success", Head(f).d = d, Head(f).p = p,
         Waits(cs[d], "cancel", p), cs2[d].fwds[p].st = "none", ~cs2[d].fwds[p].rpf,
         OnlyPort(cs, cs2, d, p), cs2[d].globreq_head = None,
         cs2[d].st = cs[d].st
  PROVE  Forwardings(cs2, rpf, Tail(gq), w, Tail(f), sf)
<1>1. PICK bg \in Int, bt \in Int, bf \in Int :
         PInv(cs, rpf, Wire(gq, bg, Downs), Wire(w, bt, ToPorts), Wire(f, bf, FromPorts), sf)
  BY DEF Forwardings
<1> DEFINE G == Wire(gq, bg, Downs)
           T == Wire(w, bt, ToPorts)
           F == Wire(f, bf, FromPorts)
           G2 == Wire(Tail(gq), bg + 1, Downs)
           T2 == Wire(w, bt, ToPorts)
           F2 == Wire(Tail(f), bf + 1, FromPorts)
<1>2a. Head(gq) \in Downs
  OBVIOUS
<1>2. PICK g : g.m = Head(gq) /\ Taken(G, g, G2)
  BY <1>2a, TakeThis
<1>3. T2 = T
  OBVIOUS
<1>4a. Head(f) \in FromPorts
  BY DEF FromPorts, ToMsg, FromMsg
<1>4. PICK z : z.m = Head(f) /\ Taken(F, z, F2)
  BY <1>4a, TakeThis
<1>5. bg + 1 \in Int /\ bt + 1 \in Int /\ bf + 1 \in Int
  OBVIOUS
<1>6. PInv(cs, rpf, G, T, F, sf)
  BY <1>1
<1> HIDE DEF G, T, F, G2, T2, F2
<1> /\ \A e \in Downs : e # d => cs2[e] = cs[e]
    /\ \A q \in Ports : q # p => cs2[d].fwds[q] = cs[d].fwds[q]
  BY DEF OnlyPort
<1>8. z.m.d = d /\ z.m.p = p /\ z.m.t = "success"
  BY <1>4
<1>7. PInv(cs2, rpf, G2, T2, F2, sf)
  BY <1>2, <1>3, <1>4, <1>6, <1>8, SMTT(60), HearsCancelled
<1> QED BY <1>5, <1>7 DEF Forwardings, G2, T2, F2

\* It keeps the ports as they should be.
LEMMA UpGivesUp ==
  ASSUME NEW cs, NEW rpf, NEW gq, NEW w \in Seq(ToMsg), NEW f, NEW sf,
         Forwardings(cs, rpf, gq, w, f, sf),
         NEW cs2, NEW rpf2, NEW v \in Seq(ToMsg), NEW d \in Downs,
         GivesUp(cs, cs2, rpf, rpf2, v, d)
  PROVE  Forwardings(cs2, rpf2, gq, w \o v, f, sf)
<1> GaveUp(cs, cs2, rpf, rpf2, d)
  BY DEF GivesUp
<1> \A k \in 1..Len(v) : /\ v[k].t = "cancel" /\ v[k].d = d /\ v[k].p \in Ports /\ ~v[k].wr
                         /\ cs[d].fwds[v[k].p].st = "active"
  BY DEF GivesUp
<1> \A p \in Ports : cs[d].fwds[p].st = "active" => \E k \in 1..Len(v) : v[k].p = p
  BY DEF GivesUp
<1> \A j, k \in 1..Len(v) : v[j].p = v[k].p => j = k
  BY DEF GivesUp
<1>1. PICK bg \in Int, bt \in Int, bf \in Int :
         PInv(cs, rpf, Wire(gq, bg, Downs), Wire(w, bt, ToPorts), Wire(f, bf, FromPorts), sf)
  BY DEF Forwardings
<1> DEFINE T == Wire(w, bt, ToPorts)
           b == bt + Len(w)
           X == Wire(v, b, ToPorts)
           T2 == Wire(w \o v, bt, ToPorts)
<1>2. b \in Int
  OBVIOUS
<1>3. T2 = T \cup X /\ \A x \in T, y \in X : x.n < y.n
  BY AddAll
<1>4. Placed(T)
  BY OnWire
<1>5. /\ \A x \in X : \E k \in 1..Len(v) : x.n = b + k /\ x.n \in Int /\ x.m = v[k]
      /\ \A k \in 1..Len(v) : v[k] \in ToPorts => \E x \in X : x.m = v[k]
      /\ \A x, y \in X : x.n = y.n => x = y
  <2>1. \A k \in 1..Len(v) : v[k] \in ToPorts => [n |-> b + k, m |-> v[k]] \in X
    BY <1>2, OnWire
  <2> HIDE DEF X
  <2>2. ASSUME NEW k \in 1..Len(v), v[k] \in ToPorts PROVE \E x \in X : x.m = v[k]
    <3> DEFINE z == [n |-> b + k, m |-> v[k]]
    <3>1. z \in X /\ z.m = v[k]
      BY <2>1, <2>2
    <3> HIDE DEF z
    <3> QED BY <3>1
  <2> USE DEF X
  <2>3. /\ \A x \in X : \E k \in 1..Len(v) : x.n = b + k /\ x.n \in Int /\ x.m = v[k]
        /\ \A x, y \in X : x.n = y.n => x = y
    BY <1>2, OnWire
  <2> QED BY <2>2, <2>3
<1>6. \A k \in 1..Len(v) : v[k] \in ToPorts
  BY DEF ToPorts
<1> HIDE DEF X, T, T2, b
<1>7. \A x \in X : x.n \in Int /\ \A z \in T : z.n < x.n
  BY <1>3, <1>5
<1>8. \A x \in X : x.m.t = "cancel" /\ x.m.d = d /\ x.m.p \in Ports /\ ~x.m.wr /\ cs[d].fwds[x.m.p].st = "active"
  BY <1>5
<1>9. \A p \in Ports : cs[d].fwds[p].st = "active" => \E x \in X : x.m.p = p
  <2> SUFFICES ASSUME NEW p \in Ports, cs[d].fwds[p].st = "active" PROVE \E x \in X : x.m.p = p
    OBVIOUS
  <2>1. PICK k \in 1..Len(v) : v[k].p = p
    OBVIOUS
  <2>2. PICK x \in X : x.m = v[k]
    BY <1>5, <1>6
  <2> QED BY <2>1, <2>2
<1>10. \A x, y \in X : x.m.p = y.m.p => x = y
  <2> SUFFICES ASSUME NEW x \in X, NEW y \in X, x.m.p = y.m.p PROVE x = y
    OBVIOUS
  <2>1. PICK k \in 1..Len(v) : x.n = b + k /\ x.m = v[k] /\ b + k \in Int
    BY <1>2, <1>5
  <2>2. PICK j \in 1..Len(v) : y.n = b + j /\ y.m = v[j] /\ b + j \in Int
    BY <1>2, <1>5
  <2>3. v[k].p = v[j].p
    BY <2>1, <2>2
  <2>4. k = j
    BY <2>3
  <2> QED BY <1>5, <2>1, <2>2, <2>4
<1>11. PInv(cs, rpf, Wire(gq, bg, Downs), T, Wire(f, bf, FromPorts), sf)
  BY <1>1 DEF T
<1>12. PInv(cs2, rpf2, Wire(gq, bg, Downs), T2, Wire(f, bf, FromPorts), sf)
  <2> DEFINE G == Wire(gq, bg, Downs)
             F == Wire(f, bf, FromPorts)
  <2>1. PInv(cs, rpf, G, T, F, sf)
    BY <1>11
  <2> HIDE DEF G, F
  <2>2. CancelsOf(X, T, cs, d)
    BY <1>7, <1>8, <1>9, <1>10 DEF CancelsOf
  <2>3. PInv(cs2, rpf2, G, T2, F, sf)
    BY <1>3, <1>4, <2>1, <2>2, GivesUpAll
  <2> QED BY <2>3 DEF G, F
<1> QED BY <1>12 DEF Forwardings, T2

---------------------------------------------------------------------------
(* The server's steps.                                                     *)

\* Answers and announcements survive what is added to a wire, and the taking
\* of another message.
LEMMA Answered ==
  ASSUME NEW S, NEW w \in Seq(S), NEW v \in Seq(S), NEW i
  PROVE  /\ Answers(w, i) => Answers(w \o v, i)
         /\ Answers(v, i) => Answers(w \o v, i)
         /\ w # << >> /\ Answers(w, i) /\ ~(Head(w).t \in {"conf", "fail"} /\ Head(w).sid = i) => Answers(Tail(w), i)
<1> DEFINE r == w \o v
<1>0. /\ Len(w) \in Nat /\ Len(v) \in Nat /\ Len(r) = Len(w) + Len(v)
      /\ \A k \in 1..Len(w) : r[k] = w[k]
      /\ \A k \in 1..Len(v) : r[Len(w) + k] = v[k]
  OBVIOUS
<1> HIDE DEF r
<1>1. Answers(w, i) => Answers(r, i)
  <2> SUFFICES ASSUME Answers(w, i) PROVE Answers(r, i)
    OBVIOUS
  <2>1. PICK k \in 1..Len(w) : w[k].t \in {"conf", "fail"} /\ w[k].sid = i
    BY DEF Answers
  <2>2. k \in 1..Len(r) /\ r[k] = w[k]
    BY <1>0
  <2> QED BY <2>1, <2>2 DEF Answers
<1>2. Answers(v, i) => Answers(r, i)
  <2> SUFFICES ASSUME Answers(v, i) PROVE Answers(r, i)
    OBVIOUS
  <2>1. PICK k \in 1..Len(v) : v[k].t \in {"conf", "fail"} /\ v[k].sid = i
    BY DEF Answers
  <2> DEFINE j == Len(w) + k
  <2>2. j \in 1..Len(r) /\ r[j] = v[k]
    BY <1>0
  <2> QED BY <2>1, <2>2 DEF Answers
<1>3. w # << >> /\ Answers(w, i) /\ ~(Head(w).t \in {"conf", "fail"} /\ Head(w).sid = i) => Answers(Tail(w), i)
  <2> SUFFICES ASSUME w # << >>, Answers(w, i), ~(Head(w).t \in {"conf", "fail"} /\ Head(w).sid = i)
               PROVE  Answers(Tail(w), i)
    OBVIOUS
  <2>1. PICK k \in 1..Len(w) : w[k].t \in {"conf", "fail"} /\ w[k].sid = i
    BY DEF Answers
  <2>2. k # 1
    BY <2>1
  <2> DEFINE j == k - 1
  <2>3. j \in 1..Len(Tail(w)) /\ Tail(w)[j] = w[k]
    BY <2>2
  <2> QED BY <2>1, <2>3 DEF Answers
<1> QED BY <1>1, <1>2, <1>3 DEF r

\* An announced channel stays announced until its CHANNEL_OPEN is taken off the
\* wire.
LEMMA Called ==
  ASSUME NEW S, NEW f \in Seq(S), NEW y \in S, NEW i
  PROVE  /\ Calls(f, i) => Calls(Append(f, y), i)
         /\ y.t = "open" /\ y.sid = i => Calls(Append(f, y), i)
         /\ f # << >> /\ Calls(f, i) /\ ~(Head(f).t = "open" /\ Head(f).sid = i) => Calls(Tail(f), i)
<1> DEFINE r == Append(f, y)
<1>0. /\ Len(f) \in Nat /\ Len(r) = Len(f) + 1 /\ r[Len(r)] = y
      /\ \A k \in 1..Len(f) : r[k] = f[k]
  OBVIOUS
<1> HIDE DEF r
<1>1. Calls(f, i) => Calls(r, i)
  <2> SUFFICES ASSUME Calls(f, i) PROVE Calls(r, i)
    OBVIOUS
  <2>1. PICK k \in 1..Len(f) : f[k].t = "open" /\ f[k].sid = i
    BY DEF Calls
  <2>2. k \in 1..Len(r) /\ r[k] = f[k]
    BY <1>0
  <2> QED BY <2>1, <2>2 DEF Calls
<1>2. y.t = "open" /\ y.sid = i => Calls(r, i)
  BY <1>0 DEF Calls
<1>3. f # << >> /\ Calls(f, i) /\ ~(Head(f).t = "open" /\ Head(f).sid = i) => Calls(Tail(f), i)
  <2> SUFFICES ASSUME f # << >>, Calls(f, i), ~(Head(f).t = "open" /\ Head(f).sid = i)
               PROVE  Calls(Tail(f), i)
    OBVIOUS
  <2>1. PICK k \in 1..Len(f) : f[k].t = "open" /\ f[k].sid = i
    BY DEF Calls
  <2>2. k # 1
    BY <2>1
  <2> DEFINE j == k - 1
  <2>3. j \in 1..Len(Tail(f)) /\ Tail(f)[j] = f[k]
    BY <2>2
  <2> QED BY <2>1, <2>3 DEF Calls
<1> QED BY <1>1, <1>2, <1>3 DEF r

\* Announced, in those terms.
LEMMA Announcing ==
  ASSUME NEW cs, NEW w, NEW f, NEW sc
  PROVE  Announced(cs, w, f, sc) <=> \A i \in SrvIds : sc[i].st = "opening" =>
            Answers(w, i) \/ Calls(f, i) \/ \E d \in Downs : i \in cs[d].half
  BY DEF Announced, Answers, Calls

\* ... which leaves the other channels and the ports as they were.
LEMMA ChChange ==
  ASSUME NEW s \in Server, NEW i \in SrvIds, NEW c \in SrvChannel, NEW t, SetsCh(s, t, i, c)
  PROVE  /\ t \in Server /\ t.fwd = s.fwd /\ t.content = s.content
         /\ t.ch[i] = c /\ \A h \in SrvIds : h # i => t.ch[h] = s.ch[h]
<1>1. s.ch \in [SrvIds -> SrvChannel]
  BY DEF Server
<1> DEFINE ch2 == [s.ch EXCEPT ![i] = c]
<1>2. ch2 \in [SrvIds -> SrvChannel] /\ ch2[i] = c /\ \A h \in SrvIds : h # i => ch2[h] = s.ch[h]
  BY <1>1
<1>3. t \in Server /\ t.ch = ch2 /\ t.fwd = s.fwd /\ t.content = s.content
  <2>1. t = [s EXCEPT !.ch = ch2]
    BY DEF Server, SetsCh
  <2> HIDE DEF ch2
  <2> QED BY <1>2, <2>1 DEF Server
<1> QED BY <1>2, <1>3

\* ... or a port.
LEMMA FwdChange ==
  ASSUME NEW s \in Server, NEW p \in Ports, NEW o \in Opt(Downs), NEW t, SetsFwd(s, t, p, o)
  PROVE  t \in Server /\ t.ch = s.ch /\ t.content = s.content /\ Sets(s.fwd, t.fwd, p, o)
<1>1. s.fwd \in [Ports -> Opt(Downs)]
  BY DEF Server
<1> DEFINE fwd2 == [s.fwd EXCEPT ![p] = o]
<1>2. fwd2 \in [Ports -> Opt(Downs)] /\ fwd2[p] = o /\ \A q \in Ports : q # p => fwd2[q] = s.fwd[q]
  BY <1>1
<1>3. t \in Server /\ t.fwd = fwd2 /\ t.ch = s.ch /\ t.content = s.content
  <2>1. t = [s EXCEPT !.fwd = fwd2]
    BY DEF Server, SetsFwd
  <2> HIDE DEF fwd2
  <2> QED BY <1>2, <2>1 DEF Server
<1> QED BY <1>2, <1>3 DEF Sets

\* What a step of the server has to preserve.
LEMMA ServerStep ==
  ASSUME IInv, Running, up' = up, ops' \in Nat, gentle' = gentle,
         toSrv' \in Seq(ToMsg), fromSrv' \in Seq(FromMsg), srv' \in Server,
         srv'.content => /\ Channels(up.cs, up.chan, toSrv', fromSrv', srv'.ch)
                         /\ Announced(up.cs, toSrv', fromSrv', srv'.ch),
         srv'.content /\ gentle => Forwardings(up.cs, up.rpf, up.globreq, toSrv', fromSrv', srv'.fwd)
  PROVE  IInv'
<1>1. Typed /\ Structs(up.cs, up.rpf) /\ (gentle => Cleaned(up.cs)) /\ (gentle => up.fault \in {"none", "list"})
  BY DEF IInv, GoodChan
<1>2. Typed'
  BY <1>1 DEF Typed
<1>3. Running' => GoodChan(up, toSrv', fromSrv', srv')
  BY <1>1 DEF Running, GoodChan
<1>4. Running' /\ gentle' => GoodPort(up, toSrv', fromSrv', srv') /\ Cleaned(up.cs)
  BY <1>1 DEF Running, GoodPort
<1> QED BY <1>1, <1>2, <1>3, <1>4 DEF IInv

\* The facts a step of a running system starts from.
LEMMA Known ==
  ASSUME IInv, Running
  PROVE  /\ Typed /\ up \in Upstream /\ toSrv \in Seq(ToMsg) /\ fromSrv \in Seq(FromMsg)
         /\ srv \in Server /\ srv.content /\ ops \in Nat /\ gentle \in BOOLEAN /\ up.out = << >> /\ up.fault = "none"
         /\ Channels(up.cs, up.chan, toSrv, fromSrv, srv.ch)
         /\ Structs(up.cs, up.rpf) /\ Announced(up.cs, toSrv, fromSrv, srv.ch)
         /\ gentle => /\ Forwardings(up.cs, up.rpf, up.globreq, toSrv, fromSrv, srv.fwd)
                      /\ Cleaned(up.cs)
  BY DEF IInv, Typed, Running, GoodChan, GoodPort

\* The message at the head of the wire to the server, which a step of the
\* server takes off it.
LEMMA HeadTo ==
  ASSUME IInv, Running, toSrv # << >>
  PROVE  /\ Head(toSrv) \in ToMsg /\ Tail(toSrv) \in Seq(ToMsg)
         /\ \A r \in FromMsg : Append(fromSrv, r) \in Seq(FromMsg)
         /\ Head(toSrv).t # "fail" => Head(toSrv).d \in Downs
         /\ Head(toSrv).t \in {"open", "conf", "close"} => Head(toSrv).us \in UpIds
         /\ Head(toSrv).t \in {"conf", "fail", "close"} => Head(toSrv).sid \in SrvIds
         /\ Head(toSrv).t \in {"forward", "cancel"} => Head(toSrv).p \in Ports
         /\ Head(toSrv).us \in Opt(UpIds) /\ Head(toSrv).sid \in Opt(SrvIds) /\ Head(toSrv).p \in Opt(Ports) /\ Head(toSrv).d \in Opt(Downs)
         /\ \A h \in SrvIds : srv.ch[h] \in SrvChannel
         /\ None \in Opt(UpIds) /\ None \in Opt(SrvIds) /\ None \in Opt(Ports) /\ None \in Opt(Downs)
<1>1. Head(toSrv) \in ToMsg /\ Tail(toSrv) \in Seq(ToMsg) /\ \A r \in FromMsg : Append(fromSrv, r) \in Seq(FromMsg)
  BY Known
<1> QED BY <1>1, Known DEF ToMsg, Packet, Opt, Server

\* The server's channels do not change for the number u.
LEMMA SameChannels ==
  ASSUME NEW sc, NEW sc2, \A h \in SrvIds : sc2[h] = sc[h] \/ (sc[h].st # "open" /\ sc2[h].st # "open")
  PROVE  \A u \in UpIds : SameS(sc, sc2, u)
  BY DEF SameS, Held, Live

\* A packet is one of its kind when its fields are, and has the fields given.
LEMMA PktFields ==
  ASSUME NEW t \in Kinds, NEW d \in Opt(Downs), NEW us \in Opt(UpIds), NEW sid \in Opt(SrvIds),
         NEW p \in Opt(Ports), NEW wr \in BOOLEAN, NEW y, y = Pkt(t, d, us, sid, p, wr)
  PROVE  y \in Packet /\ Fields(y, t, d, us, sid, p) /\ y.wr = wr
<1>1. /\ Pkt(t, d, us, sid, p, wr).t = t /\ Pkt(t, d, us, sid, p, wr).d = d
      /\ Pkt(t, d, us, sid, p, wr).us = us /\ Pkt(t, d, us, sid, p, wr).sid = sid
      /\ Pkt(t, d, us, sid, p, wr).p = p /\ Pkt(t, d, us, sid, p, wr).wr = wr
      /\ Pkt(t, d, us, sid, p, wr) \in Packet
  BY PktIs
<1> QED BY <1>1 DEF Fields

\* The same of one that wants no answer.
LEMMA PlainIs ==
  ASSUME NEW t \in Kinds, NEW d \in Opt(Downs), NEW us \in Opt(UpIds), NEW sid \in Opt(SrvIds),
         NEW p \in Opt(Ports), NEW y, y = Plain(t, d, us, sid, p)
  PROVE  y \in Packet /\ Fields(y, t, d, us, sid, p) /\ y.wr = FALSE
<1> DEFINE W == FALSE
<1>1. W \in BOOLEAN /\ y = Pkt(t, d, us, sid, p, W)
  BY DEF Plain
<1> HIDE DEF W
<1>2. y \in Packet /\ Fields(y, t, d, us, sid, p) /\ y.wr = W
  BY <1>1, PktFields
<1> QED BY <1>2 DEF W

\* The messages of the server: OPEN_FAILURE and CHANNEL_CLOSE, ...
LEMMA LastFrom ==
  ASSUME NEW t \in Kinds, NEW d \in Downs, NEW us \in UpIds, NEW y, y = [Msg(t, d) EXCEPT !.us = us]
  PROVE  (t \in {"fail", "close"} => y \in FromMsg) /\ Fields(y, t, d, us, None, None)
<1>1. y = Plain(t, d, us, None, None)
  BY MsgUs DEF Plain
<1>2. t \in Kinds /\ d \in Opt(Downs) /\ us \in Opt(UpIds) /\ None \in Opt(SrvIds) /\ None \in Opt(Ports)
  BY Zenon DEF Kinds, Opt
<1>3. y \in Packet /\ Fields(y, t, d, us, None, None) /\ y.wr = FALSE
  BY <1>1, <1>2, PlainIs
<1> QED BY <1>3 DEF FromMsg, Fields

\* ... OPEN_CONFIRMATION, ...
LEMMA ConfFrom ==
  ASSUME NEW d \in Downs, NEW us \in UpIds, NEW sid \in SrvIds, NEW y, y = [Msg("conf", d) EXCEPT !.us = us, !.sid = sid]
  PROVE  y \in FromMsg /\ Fields(y, "conf", d, us, sid, None)
<1>1. y = Plain("conf", d, us, sid, None)
  BY MsgUsSid DEF Plain
<1>2. "conf" \in Kinds /\ d \in Opt(Downs) /\ us \in Opt(UpIds) /\ sid \in Opt(SrvIds) /\ None \in Opt(Ports)
  BY Zenon DEF Kinds, Opt
<1>3. y \in Packet /\ Fields(y, "conf", d, us, sid, None) /\ y.wr = FALSE
  BY <1>1, <1>2, PlainIs
<1> QED BY <1>3 DEF FromMsg, Fields

\* ... CHANNEL_OPEN for a forwarded connection, ...
LEMMA OpenFrom ==
  ASSUME NEW d \in Downs, NEW sid \in SrvIds, NEW p \in Ports, NEW y, y = [Msg("open", d) EXCEPT !.sid = sid, !.p = p]
  PROVE  y \in FromMsg /\ Fields(y, "open", d, None, sid, p)
<1>1. y = Plain("open", d, None, sid, p)
  BY MsgSidP DEF Plain
<1>2. "open" \in Kinds /\ d \in Opt(Downs) /\ None \in Opt(UpIds) /\ sid \in Opt(SrvIds) /\ p \in Opt(Ports)
  BY Zenon DEF Kinds, Opt
<1>3. y \in Packet /\ Fields(y, "open", d, None, sid, p) /\ y.wr = FALSE
  BY <1>1, <1>2, PlainIs
<1> QED BY <1>3 DEF FromMsg, Fields

\* ... and the answers to a global request.
LEMMA ReplyFrom ==
  ASSUME NEW t \in Kinds, NEW d \in Downs, NEW p \in Ports, NEW y, y = [Msg(t, d) EXCEPT !.p = p]
  PROVE  (t \in {"success", "failure"} => y \in FromMsg) /\ Fields(y, t, d, None, None, p)
<1>1. y = Plain(t, d, None, None, p)
  BY MsgP DEF Plain
<1>2. t \in Kinds /\ d \in Opt(Downs) /\ None \in Opt(UpIds) /\ None \in Opt(SrvIds) /\ p \in Opt(Ports)
  BY Zenon DEF Kinds, Opt
<1>3. y \in Packet /\ Fields(y, t, d, None, None, p) /\ y.wr = FALSE
  BY <1>1, <1>2, PlainIs
<1> QED BY <1>3 DEF FromMsg, Fields

\* Those of the upstream: CHANNEL_OPEN, ...
LEMMA OpenTo ==
  ASSUME NEW d \in Downs, NEW us \in UpIds, NEW y, y = [Msg("open", d) EXCEPT !.us = us]
  PROVE  y \in ToMsg /\ Fields(y, "open", d, us, None, None) /\ ~y.wr
<1>1. y = Plain("open", d, us, None, None)
  BY MsgUs DEF Plain
<1>2. "open" \in Kinds /\ d \in Opt(Downs) /\ us \in Opt(UpIds) /\ None \in Opt(SrvIds) /\ None \in Opt(Ports)
  BY Zenon DEF Kinds, Opt
<1>3. y \in Packet /\ Fields(y, "open", d, us, None, None) /\ y.wr = FALSE
  BY <1>1, <1>2, PlainIs
<1> QED BY <1>3 DEF ToMsg, Fields

\* ... the confirmation of a forwarded connection, ...
LEMMA ConfTo ==
  ASSUME NEW d \in Downs, NEW us \in UpIds, NEW sid \in SrvIds, NEW y, y = [Msg("conf", d) EXCEPT !.us = us, !.sid = sid]
  PROVE  y \in ToMsg /\ Fields(y, "conf", d, us, sid, None) /\ ~y.wr
<1>1. y = Plain("conf", d, us, sid, None)
  BY MsgUsSid DEF Plain
<1>2. "conf" \in Kinds /\ d \in Opt(Downs) /\ us \in Opt(UpIds) /\ sid \in Opt(SrvIds) /\ None \in Opt(Ports)
  BY Zenon DEF Kinds, Opt
<1>3. y \in Packet /\ Fields(y, "conf", d, us, sid, None) /\ y.wr = FALSE
  BY <1>1, <1>2, PlainIs
<1> QED BY <1>3 DEF ToMsg, Fields

\* ... its refusal, ...
LEMMA FailTo ==
  ASSUME NEW d \in Opt(Downs), NEW sid \in SrvIds, NEW y, y = [Msg("fail", d) EXCEPT !.sid = sid]
  PROVE  y \in ToMsg /\ Fields(y, "fail", d, None, sid, None) /\ ~y.wr
<1>1. y = Plain("fail", d, None, sid, None)
  BY MsgSid DEF Plain
<1>2. "fail" \in Kinds /\ d \in Opt(Downs) /\ None \in Opt(UpIds) /\ sid \in Opt(SrvIds) /\ None \in Opt(Ports)
  BY Zenon DEF Kinds, Opt
<1>3. y \in Packet /\ Fields(y, "fail", d, None, sid, None) /\ y.wr = FALSE
  BY <1>1, <1>2, PlainIs
<1> QED BY <1>3 DEF ToMsg, Fields

\* ... CHANNEL_CLOSE, ...
LEMMA CloseTo ==
  ASSUME NEW d \in Downs, NEW c, c.us \in UpIds, c.sid \in SrvIds, NEW y, y = CloseMsg(d, c)
  PROVE  y \in ToMsg /\ Fields(y, "close", d, c.us, c.sid, None) /\ ~y.wr
<1>1. y = Plain("close", d, c.us, c.sid, None)
  BY CloseIs DEF Plain
<1>2. "close" \in Kinds /\ d \in Opt(Downs) /\ c.us \in Opt(UpIds) /\ c.sid \in Opt(SrvIds) /\ None \in Opt(Ports)
  BY Zenon DEF Kinds, Opt
<1>3. y \in Packet /\ Fields(y, "close", d, c.us, c.sid, None) /\ y.wr = FALSE
  BY <1>1, <1>2, PlainIs
<1> QED BY <1>3 DEF ToMsg, Fields

\* ... the cancellation that cleaning up sends, ...
LEMMA CancelTo ==
  ASSUME NEW d \in Downs, NEW p \in Ports, NEW y, y = [Msg("cancel", d) EXCEPT !.p = p]
  PROVE  y \in ToMsg /\ Fields(y, "cancel", d, None, None, p) /\ ~y.wr
<1>1. y = Plain("cancel", d, None, None, p)
  BY MsgP DEF Plain
<1>2. "cancel" \in Kinds /\ d \in Opt(Downs) /\ None \in Opt(UpIds) /\ None \in Opt(SrvIds) /\ p \in Opt(Ports)
  BY Zenon DEF Kinds, Opt
<1>3. y \in Packet /\ Fields(y, "cancel", d, None, None, p) /\ y.wr = FALSE
  BY <1>1, <1>2, PlainIs
<1> QED BY <1>3 DEF ToMsg, Fields

\* ... and the requests of a downstream, which want an answer.
LEMMA RequestTo ==
  ASSUME NEW d \in Downs, NEW t \in {"forward", "cancel"}, NEW p \in Ports, NEW y,
         y = [Msg(t, d) EXCEPT !.p = p, !.wr = TRUE]
  PROVE  y \in ToMsg /\ Fields(y, t, d, None, None, p) /\ y.wr
<1> DEFINE W == TRUE
<1>0. W \in BOOLEAN /\ W
  OBVIOUS
<1>1. y = Pkt(t, d, None, None, p, W)
  BY MsgPWr
<1> HIDE DEF W
<1>2. d \in Opt(Downs) /\ None \in Opt(UpIds) /\ None \in Opt(SrvIds) /\ p \in Opt(Ports)
  BY DEF Opt
<1>3. t \in Kinds
  BY DEF Kinds
<1>4. y \in Packet /\ Fields(y, t, d, None, None, p) /\ y.wr
  BY <1>0, <1>1, <1>2, <1>3, PktFields
<1> QED BY <1>4 DEF ToMsg, Fields

\* The server changes channel i, which was not announced or has been answered;
\* the rest of what it has announced stays in somebody's hands.
LEMMA AnnouncedTail ==
  ASSUME NEW cs, NEW w \in Seq(ToMsg), NEW f \in Seq(FromMsg), NEW sc, Announced(cs, w, f, sc),
         w # << >>, NEW sc2,
         \A i \in SrvIds : sc2[i].st = "opening" =>
            sc[i].st = "opening" /\ ~(Head(w).t \in {"conf", "fail"} /\ Head(w).sid = i)
  PROVE  /\ Announced(cs, Tail(w), f, sc2)
         /\ \A y \in FromMsg : Announced(cs, Tail(w), Append(f, y), sc2)
<1>1. ASSUME NEW i \in SrvIds, sc2[i].st = "opening"
      PROVE  Answers(Tail(w), i) \/ Calls(f, i) \/ \E d \in Downs : i \in cs[d].half
  <2>1. Answers(w, i) \/ Calls(f, i) \/ \E d \in Downs : i \in cs[d].half
    BY <1>1, Announcing
  <2> QED BY <1>1, <2>1, Answered
<1>2. ASSUME NEW y \in FromMsg, NEW i \in SrvIds, sc2[i].st = "opening"
      PROVE  Answers(Tail(w), i) \/ Calls(Append(f, y), i) \/ \E d \in Downs : i \in cs[d].half
  BY <1>1, <1>2, Called
<1> QED BY <1>1, <1>2, Announcing

\* The server refuses a CHANNEL_OPEN ...
LEMMA RecvOpenRefused ==
  ASSUME IInv, Running, toSrv # << >>, toSrv' = Tail(toSrv), up' = up, ops' = ops, gentle' = gentle,
         NEW m, m = Head(toSrv), m.t = "open",
         srv' = srv,
         NEW y \in FromMsg,
         Fields(y, "fail", m.d, m.us, None, None),
         fromSrv' = Append(fromSrv, y)
  PROVE  IInv'
<1>20. srv' \in Server /\ fromSrv' \in Seq(FromMsg) /\ srv'.fwd = srv.fwd /\ srv'.ch = srv.ch
  BY Known, HeadTo
<1>21. Channels(up.cs, up.chan, toSrv', fromSrv', srv'.ch)
  BY <1>20, Known, HeadTo, SrvRefuses DEF Fields
<1>22. Announced(up.cs, toSrv', fromSrv', srv'.ch)
  <2>1. \A h \in SrvIds : srv'.ch[h].st = "opening" =>
            srv.ch[h].st = "opening" /\ ~(Head(toSrv).t \in {"conf", "fail"} /\ Head(toSrv).sid = h)
    BY <1>20 DEF Live, Held
  <2> QED BY <2>1, Known, AnnouncedTail
<1>23. gentle => Forwardings(up.cs, up.rpf, up.globreq, toSrv', fromSrv', srv'.fwd)
  <2>1. SameToPorts(toSrv, Tail(toSrv))
    BY Known, SameTos DEF AboutChannel
  <2>2. SameFromPorts(fromSrv, fromSrv')
    BY Known, SameFroms DEF Fields
  <2>3. srv'.fwd = srv.fwd
    BY <1>20
  <2>4. gentle => StateP(up.cs)
    BY Known, PortFacts
  <2> QED BY <2>1, <2>2, <2>3, <2>4, Known, ForwardingsKept
<1> QED BY <1>20, <1>21, <1>22, <1>23, Known, HeadTo, ServerStep

\* ... or accepts it.
LEMMA RecvOpenAccepted ==
  ASSUME IInv, Running, toSrv # << >>, toSrv' = Tail(toSrv), up' = up, ops' = ops, gentle' = gentle,
         NEW m, m = Head(toSrv), m.t = "open", NEW i \in SrvIds,
         srv.ch[i].st = "free",
         NEW c \in SrvChannel,
         Live(c, m.us), c.d = m.d, SetsCh(srv, srv', i, c),
         NEW y \in FromMsg,
         Fields(y, "conf", m.d, m.us, i, None),
         fromSrv' = Append(fromSrv, y)
  PROVE  IInv'
<1>20. srv' \in Server /\ fromSrv' \in Seq(FromMsg) /\ srv'.fwd = srv.fwd /\ srv'.ch[i] = c /\ \A h \in SrvIds : h # i => srv'.ch[h] = srv.ch[h]
  BY ChChange, Known, HeadTo
<1>21. Channels(up.cs, up.chan, toSrv', fromSrv', srv'.ch)
  BY <1>20, Known, HeadTo, SMTT(60), SrvAccepts DEF Fields
<1>22. Announced(up.cs, toSrv', fromSrv', srv'.ch)
  <2>1. \A h \in SrvIds : srv'.ch[h].st = "opening" =>
            srv.ch[h].st = "opening" /\ ~(Head(toSrv).t \in {"conf", "fail"} /\ Head(toSrv).sid = h)
    BY <1>20 DEF Live, Held
  <2> QED BY <2>1, Known, AnnouncedTail
<1>23. gentle => Forwardings(up.cs, up.rpf, up.globreq, toSrv', fromSrv', srv'.fwd)
  <2>1. SameToPorts(toSrv, Tail(toSrv))
    BY Known, SameTos DEF AboutChannel
  <2>2. SameFromPorts(fromSrv, fromSrv')
    BY Known, SameFroms DEF Fields
  <2>3. srv'.fwd = srv.fwd
    BY <1>20
  <2>4. gentle => StateP(up.cs)
    BY Known, PortFacts
  <2> QED BY <2>1, <2>2, <2>3, <2>4, Known, ForwardingsKept
<1> QED BY <1>20, <1>21, <1>22, <1>23, Known, HeadTo, ServerStep

\* The server hears that its channel is accepted ...
LEMMA RecvConf ==
  ASSUME IInv, Running, toSrv # << >>, toSrv' = Tail(toSrv), up' = up, ops' = ops, gentle' = gentle,
         NEW m, m = Head(toSrv), m.t = "conf",
         srv.ch[m.sid].st = "opening",
         NEW c \in SrvChannel,
         Live(c, m.us), c.d = m.d, SetsCh(srv, srv', m.sid, c),
         fromSrv' = fromSrv
  PROVE  IInv'
<1>20. srv' \in Server /\ fromSrv' \in Seq(FromMsg) /\ srv'.fwd = srv.fwd /\ srv'.ch[m.sid] = c /\ \A h \in SrvIds : h # m.sid => srv'.ch[h] = srv.ch[h]
  BY ChChange, Known, HeadTo
<1>21. Channels(up.cs, up.chan, toSrv', fromSrv', srv'.ch)
  BY <1>20, Known, HeadTo, SrvConfirmed DEF Fields
<1>22. Announced(up.cs, toSrv', fromSrv', srv'.ch)
  <2>1. \A h \in SrvIds : srv'.ch[h].st = "opening" =>
            srv.ch[h].st = "opening" /\ ~(Head(toSrv).t \in {"conf", "fail"} /\ Head(toSrv).sid = h)
    BY <1>20 DEF Live, Held
  <2> QED BY <2>1, Known, AnnouncedTail
<1>23. gentle => Forwardings(up.cs, up.rpf, up.globreq, toSrv', fromSrv', srv'.fwd)
  <2>1. SameToPorts(toSrv, Tail(toSrv))
    BY Known, SameTos DEF AboutChannel
  <2>2. SameFromPorts(fromSrv, fromSrv')
    BY Known, SameFroms DEF Fields
  <2>3. srv'.fwd = srv.fwd
    BY <1>20
  <2>4. gentle => StateP(up.cs)
    BY Known, PortFacts
  <2> QED BY <2>1, <2>2, <2>3, <2>4, Known, ForwardingsKept
<1> QED BY <1>20, <1>21, <1>22, <1>23, Known, HeadTo, ServerStep

\* ... or refused.
LEMMA RecvFail ==
  ASSUME IInv, Running, toSrv # << >>, toSrv' = Tail(toSrv), up' = up, ops' = ops, gentle' = gentle,
         NEW m, m = Head(toSrv), m.t = "fail",
         srv.ch[m.sid].st = "opening",
         NEW c \in SrvChannel,
         c.st = "free", SetsCh(srv, srv', m.sid, c),
         fromSrv' = fromSrv
  PROVE  IInv'
<1>20. srv' \in Server /\ fromSrv' \in Seq(FromMsg) /\ srv'.fwd = srv.fwd /\ srv'.ch[m.sid] = c /\ \A h \in SrvIds : h # m.sid => srv'.ch[h] = srv.ch[h]
  BY ChChange, Known, HeadTo
<1>21. Channels(up.cs, up.chan, toSrv', fromSrv', srv'.ch)
  <2>1. \A u \in UpIds : SameS(srv.ch, srv'.ch, u)
    BY <1>20, HeadTo, SameChannels
  <2>2. SameTo(toSrv, Tail(toSrv))
    BY Known, SameTos DEF AboutPort
  <2>3. SameFrom(fromSrv, fromSrv')
    BY Known, SameFroms DEF Fields
  <2> QED BY <2>1, <2>2, <2>3, Known, ChannelsKept
<1>22. Announced(up.cs, toSrv', fromSrv', srv'.ch)
  <2>1. \A h \in SrvIds : srv'.ch[h].st = "opening" =>
            srv.ch[h].st = "opening" /\ ~(Head(toSrv).t \in {"conf", "fail"} /\ Head(toSrv).sid = h)
    BY <1>20 DEF Live, Held
  <2> QED BY <2>1, Known, AnnouncedTail
<1>23. gentle => Forwardings(up.cs, up.rpf, up.globreq, toSrv', fromSrv', srv'.fwd)
  <2>1. SameToPorts(toSrv, Tail(toSrv))
    BY Known, SameTos DEF AboutChannel
  <2>2. SameFromPorts(fromSrv, fromSrv')
    BY Known, SameFroms DEF Fields
  <2>3. srv'.fwd = srv.fwd
    BY <1>20
  <2>4. gentle => StateP(up.cs)
    BY Known, PortFacts
  <2> QED BY <2>1, <2>2, <2>3, <2>4, Known, ForwardingsKept
<1> QED BY <1>20, <1>21, <1>22, <1>23, Known, HeadTo, ServerStep

\* A CHANNEL_CLOSE finds the server's channel.
LEMMA CloseFinds ==
  ASSUME NEW cs, NEW own, NEW w \in Seq(ToMsg), NEW f \in Seq(FromMsg), NEW sc, Channels(cs, own, w, f, sc),
         w # << >>, Head(w).t = "close", Head(w).us \in UpIds, Head(w).sid \in SrvIds
  PROVE  sc[Head(w).sid].st = "open" /\ sc[Head(w).sid].us = Head(w).us /\ sc[Head(w).sid].d = Head(w).d
<1> DEFINE a == Head(w).us
<1>1. PICK st, sid : \E bt, bf \in Int :
         Linked(cs, own, st, sid) /\ Numbers(own, st, sid, w, bt, f, bf, sc)
  BY DEF Channels
<1>2. PICK bt \in Int, bf \in Int :
         Linked(cs, own, st, sid) /\ Numbers(own, st, sid, w, bt, f, bf, sc)
  BY <1>1
<1> DEFINE T == Wire(w, bt, ToOf(a))
           F == Wire(f, bf, FromOf(a))
           T2 == Wire(Tail(w), bt + 1, ToOf(a))
<1>3. UInv(a, own[a], st[a], sid[a], T, F, sc)
  BY <1>2 DEF Numbers
<1>4. Head(w) \in ToOf(a)
  BY DEF ToOf
<1>5. PICK x : x.m = Head(w) /\ Taken(T, x, T2)
  BY <1>4, TakeThis
<1> HIDE DEF T, T2, F
<1>6. Held(sc[x.m.sid], a) /\ sc[x.m.sid].d = x.m.d
  BY <1>3, <1>5, CloseMeets
<1> QED BY <1>5, <1>6 DEF Held

\* The server hears a CHANNEL_CLOSE, and closes the channel too ...
LEMMA RecvCloseFirst ==
  ASSUME IInv, Running, toSrv # << >>, toSrv' = Tail(toSrv), up' = up, ops' = ops, gentle' = gentle,
         NEW m, m = Head(toSrv), m.t = "close",
         srv.ch[m.sid].st = "open", ~srv.ch[m.sid].sentClose,
         NEW c \in SrvChannel,
         c.st = "free", SetsCh(srv, srv', m.sid, c),
         NEW y \in FromMsg,
         Fields(y, "close", m.d, m.us, None, None),
         fromSrv' = Append(fromSrv, y)
  PROVE  IInv'
<1>12. srv.ch[m.sid].us = m.us
  BY Known, HeadTo, CloseFinds
<1>20. srv' \in Server /\ fromSrv' \in Seq(FromMsg) /\ srv'.fwd = srv.fwd /\ srv'.ch[m.sid] = c /\ \A h \in SrvIds : h # m.sid => srv'.ch[h] = srv.ch[h]
  BY ChChange, Known, HeadTo
<1>21. Channels(up.cs, up.chan, toSrv', fromSrv', srv'.ch)
  BY <1>20, <1>12, Known, HeadTo, SrvClosedFirst DEF Fields
<1>22. Announced(up.cs, toSrv', fromSrv', srv'.ch)
  <2>1. \A h \in SrvIds : srv'.ch[h].st = "opening" =>
            srv.ch[h].st = "opening" /\ ~(Head(toSrv).t \in {"conf", "fail"} /\ Head(toSrv).sid = h)
    BY <1>20 DEF Live, Held
  <2> QED BY <2>1, Known, AnnouncedTail
<1>23. gentle => Forwardings(up.cs, up.rpf, up.globreq, toSrv', fromSrv', srv'.fwd)
  <2>1. SameToPorts(toSrv, Tail(toSrv))
    BY Known, SameTos DEF AboutChannel
  <2>2. SameFromPorts(fromSrv, fromSrv')
    BY Known, SameFroms DEF Fields
  <2>3. srv'.fwd = srv.fwd
    BY <1>20
  <2>4. gentle => StateP(up.cs)
    BY Known, PortFacts
  <2> QED BY <2>1, <2>2, <2>3, <2>4, Known, ForwardingsKept
<1> QED BY <1>20, <1>21, <1>22, <1>23, Known, HeadTo, ServerStep

\* ... unless it has before.
LEMMA RecvCloseLast ==
  ASSUME IInv, Running, toSrv # << >>, toSrv' = Tail(toSrv), up' = up, ops' = ops, gentle' = gentle,
         NEW m, m = Head(toSrv), m.t = "close",
         srv.ch[m.sid].st = "open", srv.ch[m.sid].sentClose,
         NEW c \in SrvChannel,
         c.st = "free", SetsCh(srv, srv', m.sid, c),
         fromSrv' = fromSrv
  PROVE  IInv'
<1>12. srv.ch[m.sid].us = m.us
  BY Known, HeadTo, CloseFinds
<1>20. srv' \in Server /\ fromSrv' \in Seq(FromMsg) /\ srv'.fwd = srv.fwd /\ srv'.ch[m.sid] = c /\ \A h \in SrvIds : h # m.sid => srv'.ch[h] = srv.ch[h]
  BY ChChange, Known, HeadTo
<1>21. Channels(up.cs, up.chan, toSrv', fromSrv', srv'.ch)
  BY <1>20, <1>12, Known, HeadTo, SrvClosedLast DEF Fields
<1>22. Announced(up.cs, toSrv', fromSrv', srv'.ch)
  <2>1. \A h \in SrvIds : srv'.ch[h].st = "opening" =>
            srv.ch[h].st = "opening" /\ ~(Head(toSrv).t \in {"conf", "fail"} /\ Head(toSrv).sid = h)
    BY <1>20 DEF Live, Held
  <2> QED BY <2>1, Known, AnnouncedTail
<1>23. gentle => Forwardings(up.cs, up.rpf, up.globreq, toSrv', fromSrv', srv'.fwd)
  <2>1. SameToPorts(toSrv, Tail(toSrv))
    BY Known, SameTos DEF AboutChannel
  <2>2. SameFromPorts(fromSrv, fromSrv')
    BY Known, SameFroms DEF Fields
  <2>3. srv'.fwd = srv.fwd
    BY <1>20
  <2>4. gentle => StateP(up.cs)
    BY Known, PortFacts
  <2> QED BY <2>1, <2>2, <2>3, <2>4, Known, ForwardingsKept
<1> QED BY <1>20, <1>21, <1>22, <1>23, Known, HeadTo, ServerStep

\* The server refuses a port ...
LEMMA RecvForwardRefused ==
  ASSUME IInv, Running, toSrv # << >>, toSrv' = Tail(toSrv), up' = up, ops' = ops, gentle' = gentle,
         NEW m, m = Head(toSrv), m.t = "forward",
         srv' = srv,
         NEW y \in FromMsg,
         Fields(y, "failure", m.d, None, None, m.p),
         fromSrv' = Append(fromSrv, y)
  PROVE  IInv'
<1>20. srv' \in Server /\ fromSrv' \in Seq(FromMsg) /\ srv'.fwd = srv.fwd /\ srv'.ch = srv.ch
  BY Known, HeadTo
<1>21. Channels(up.cs, up.chan, toSrv', fromSrv', srv'.ch)
  <2>1. \A u \in UpIds : SameS(srv.ch, srv'.ch, u)
    BY <1>20, SameChannels
  <2>2. SameTo(toSrv, Tail(toSrv))
    BY Known, SameTos DEF AboutPort
  <2>3. SameFrom(fromSrv, fromSrv')
    BY Known, SameFroms DEF Fields
  <2> QED BY <2>1, <2>2, <2>3, Known, ChannelsKept
<1>22. Announced(up.cs, toSrv', fromSrv', srv'.ch)
  <2>1. \A h \in SrvIds : srv'.ch[h].st = "opening" =>
            srv.ch[h].st = "opening" /\ ~(Head(toSrv).t \in {"conf", "fail"} /\ Head(toSrv).sid = h)
    BY <1>20 DEF Live, Held
  <2> QED BY <2>1, Known, AnnouncedTail
<1>23. gentle => Forwardings(up.cs, up.rpf, up.globreq, toSrv', fromSrv', srv'.fwd)
  <2> SUFFICES ASSUME gentle PROVE Forwardings(up.cs, up.rpf, up.globreq, toSrv', fromSrv', srv'.fwd)
    OBVIOUS
  <2>1. up.globreq \in Seq(Downs)
    BY Known DEF Upstream
  <2> QED BY <1>20, <2>1, Known, HeadTo, ServerRefuses DEF Fields
<1> QED BY <1>20, <1>21, <1>22, <1>23, Known, HeadTo, ServerStep

\* ... or grants it.
LEMMA RecvForwardGranted ==
  ASSUME IInv, Running, toSrv # << >>, toSrv' = Tail(toSrv), up' = up, ops' = ops, gentle' = gentle,
         NEW m, m = Head(toSrv), m.t = "forward", NEW o \in Opt(Downs),
         o = m.d, SetsFwd(srv, srv', m.p, o),
         NEW y \in FromMsg,
         Fields(y, "success", m.d, None, None, m.p),
         fromSrv' = Append(fromSrv, y)
  PROVE  IInv'
<1>20. srv' \in Server /\ fromSrv' \in Seq(FromMsg) /\ srv'.ch = srv.ch /\ Sets(srv.fwd, srv'.fwd, m.p, o)
  BY FwdChange, Known, HeadTo
<1>21. Channels(up.cs, up.chan, toSrv', fromSrv', srv'.ch)
  <2>1. \A u \in UpIds : SameS(srv.ch, srv'.ch, u)
    BY <1>20, SameChannels
  <2>2. SameTo(toSrv, Tail(toSrv))
    BY Known, SameTos DEF AboutPort
  <2>3. SameFrom(fromSrv, fromSrv')
    BY Known, SameFroms DEF Fields
  <2> QED BY <2>1, <2>2, <2>3, Known, ChannelsKept
<1>22. Announced(up.cs, toSrv', fromSrv', srv'.ch)
  <2>1. \A h \in SrvIds : srv'.ch[h].st = "opening" =>
            srv.ch[h].st = "opening" /\ ~(Head(toSrv).t \in {"conf", "fail"} /\ Head(toSrv).sid = h)
    BY <1>20 DEF Live, Held
  <2> QED BY <2>1, Known, AnnouncedTail
<1>23. gentle => Forwardings(up.cs, up.rpf, up.globreq, toSrv', fromSrv', srv'.fwd)
  <2> SUFFICES ASSUME gentle PROVE Forwardings(up.cs, up.rpf, up.globreq, toSrv', fromSrv', srv'.fwd)
    OBVIOUS
  <2>1. up.globreq \in Seq(Downs)
    BY Known DEF Upstream
  <2> QED BY <1>20, <2>1, Known, HeadTo, ServerGrants DEF Fields
<1> QED BY <1>20, <1>21, <1>22, <1>23, Known, HeadTo, ServerStep

\* The server cancels a port, and says so if it is asked to ...
LEMMA RecvCancelAsked ==
  ASSUME IInv, Running, toSrv # << >>, toSrv' = Tail(toSrv), up' = up, ops' = ops, gentle' = gentle,
         NEW m, m = Head(toSrv), m.t = "cancel",
         m.wr,
         NEW o \in Opt(Downs),
         o = None, SetsFwd(srv, srv', m.p, o),
         NEW y \in FromMsg,
         Fields(y, IF srv.fwd[m.p] = None THEN "failure" ELSE "success", m.d, None, None, m.p),
         fromSrv' = Append(fromSrv, y)
  PROVE  IInv'
<1>20. srv' \in Server /\ fromSrv' \in Seq(FromMsg) /\ srv'.ch = srv.ch /\ Sets(srv.fwd, srv'.fwd, m.p, o)
  BY FwdChange, Known, HeadTo
<1>21. Channels(up.cs, up.chan, toSrv', fromSrv', srv'.ch)
  <2>1. \A u \in UpIds : SameS(srv.ch, srv'.ch, u)
    BY <1>20, SameChannels
  <2>2. SameTo(toSrv, Tail(toSrv))
    BY Known, SameTos DEF AboutPort
  <2>3. SameFrom(fromSrv, fromSrv')
    <3>1. y.t \in {"failure", "success"}
      BY DEF Fields
    <3> QED BY <3>1, Known, SameFroms
  <2> QED BY <2>1, <2>2, <2>3, Known, ChannelsKept
<1>22. Announced(up.cs, toSrv', fromSrv', srv'.ch)
  <2>1. \A h \in SrvIds : srv'.ch[h].st = "opening" =>
            srv.ch[h].st = "opening" /\ ~(Head(toSrv).t \in {"conf", "fail"} /\ Head(toSrv).sid = h)
    BY <1>20 DEF Live, Held
  <2> QED BY <2>1, Known, AnnouncedTail
<1>23. gentle => Forwardings(up.cs, up.rpf, up.globreq, toSrv', fromSrv', srv'.fwd)
  <2> SUFFICES ASSUME gentle PROVE Forwardings(up.cs, up.rpf, up.globreq, toSrv', fromSrv', srv'.fwd)
    OBVIOUS
  <2>1. up.globreq \in Seq(Downs)
    BY Known DEF Upstream
  <2>2. srv.fwd[m.p] = m.d
    BY <2>1, Known, ListenedFor
  <2>3. y.t = "success" /\ y.d = m.d /\ y.p = m.p
    BY <2>2, HeadTo, ConstAssumption DEF Fields
  <2> QED BY <1>20, <2>1, <2>3, Known, HeadTo, ServerCancels DEF Fields
<1> QED BY <1>20, <1>21, <1>22, <1>23, Known, HeadTo, ServerStep

\* ... or not.
LEMMA RecvCancelUnasked ==
  ASSUME IInv, Running, toSrv # << >>, toSrv' = Tail(toSrv), up' = up, ops' = ops, gentle' = gentle,
         NEW m, m = Head(toSrv), m.t = "cancel",
         ~m.wr,
         NEW o \in Opt(Downs),
         o = None, SetsFwd(srv, srv', m.p, o),
         fromSrv' = fromSrv
  PROVE  IInv'
<1>20. srv' \in Server /\ fromSrv' \in Seq(FromMsg) /\ srv'.ch = srv.ch /\ Sets(srv.fwd, srv'.fwd, m.p, o)
  BY FwdChange, Known, HeadTo
<1>21. Channels(up.cs, up.chan, toSrv', fromSrv', srv'.ch)
  <2>1. \A u \in UpIds : SameS(srv.ch, srv'.ch, u)
    BY <1>20, SameChannels
  <2>2. SameTo(toSrv, Tail(toSrv))
    BY Known, SameTos DEF AboutPort
  <2>3. SameFrom(fromSrv, fromSrv')
    BY Known, SameFroms DEF Fields
  <2> QED BY <2>1, <2>2, <2>3, Known, ChannelsKept
<1>22. Announced(up.cs, toSrv', fromSrv', srv'.ch)
  <2>1. \A h \in SrvIds : srv'.ch[h].st = "opening" =>
            srv.ch[h].st = "opening" /\ ~(Head(toSrv).t \in {"conf", "fail"} /\ Head(toSrv).sid = h)
    BY <1>20 DEF Live, Held
  <2> QED BY <2>1, Known, AnnouncedTail
<1>23. gentle => Forwardings(up.cs, up.rpf, up.globreq, toSrv', fromSrv', srv'.fwd)
  <2> SUFFICES ASSUME gentle PROVE Forwardings(up.cs, up.rpf, up.globreq, toSrv', fromSrv', srv'.fwd)
    OBVIOUS
  <2>1. up.globreq \in Seq(Downs)
    BY Known DEF Upstream
  <2> QED BY <1>20, <2>1, Known, HeadTo, ServerStops DEF Fields
<1> QED BY <1>20, <1>21, <1>22, <1>23, Known, HeadTo, ServerStep

\* The server finds the protocol violated: nothing is said of the system then.
LEMMA ServerObjects ==
  ASSUME IInv, Running, toSrv # << >>, toSrv' = Tail(toSrv), up' = up, ops' = ops, gentle' = gentle, Objects
  PROVE  IInv'
<1>1. Typed /\ Tail(toSrv) \in Seq(ToMsg)
  BY Known
<1>2. srv' \in Server /\ ~srv'.content
  <2> DEFINE W == FALSE
  <2>1. W \in BOOLEAN /\ ~W
    OBVIOUS
  <2>2. srv' = [srv EXCEPT !.content = W]
    BY DEF Objects
  <2> HIDE DEF W
  <2> QED BY <1>1, <2>1, <2>2 DEF Typed, Server
<1>3. fromSrv' = fromSrv
  BY DEF Objects
<1> QED BY <1>1, <1>2, <1>3 DEF IInv, Typed, Running

\* A channel the server has just opened.
LEMMA OpenChannel ==
  ASSUME NEW us \in UpIds, NEW d \in Downs, NEW c,
         c = [st |-> "open", us |-> us, d |-> d, sentClose |-> FALSE]
  PROVE  c \in SrvChannel /\ Live(c, us) /\ c.d = d
<1> DEFINE W == FALSE
<1>0. W \in BOOLEAN /\ ~W
  OBVIOUS
<1>1. c = [st |-> "open", us |-> us, d |-> d, sentClose |-> W]
  OBVIOUS
<1> HIDE DEF W
<1>2. c.st = "open" /\ c.us = us /\ c.d = d /\ ~c.sentClose
  BY <1>0, <1>1
<1>3. us \in Opt(UpIds) /\ d \in Opt(Downs)
  BY DEF Opt
<1> QED BY <1>0, <1>1, <1>2, <1>3 DEF SrvChannel, Live, Held

\* A channel number of the server that is not in use.
LEMMA FreeChannel ==
  Free0 \in SrvChannel /\ Free0.st = "free"
  BY DEF SrvChannel, Opt, Free0

\* The server takes a message off the wire.
LEMMA SrvRecvInv ==
  ASSUME IInv, SrvRecv
  PROVE  IInv'
<1> DEFINE m == Head(toSrv)
<1>1. Running /\ toSrv # << >> /\ toSrv' = Tail(toSrv) /\ up' = up /\ ops' = ops /\ gentle' = gentle
  BY DEF SrvRecv
<1>a. m \in ToMsg /\ \A i \in SrvIds : srv.ch[i] \in SrvChannel
  BY <1>1, Known DEF Server
<1>b. /\ m.t # "fail" => m.d \in Downs
      /\ m.t \in {"open", "conf", "close"} => m.us \in UpIds
      /\ m.t \in {"conf", "fail", "close"} => m.sid \in SrvIds
      /\ m.t \in {"forward", "cancel"} => m.p \in Ports
  BY <1>a DEF ToMsg
<1>2. CASE m.t = "open"
  <2>1. CASE fromSrv' = Append(fromSrv, [Msg("fail", m.d) EXCEPT !.us = m.us]) /\ srv' = srv
    <3> DEFINE y == [Msg("fail", m.d) EXCEPT !.us = m.us]
    <3>1. y \in FromMsg /\ Fields(y, "fail", m.d, m.us, None, None)
      BY <1>2, <1>b, LastFrom DEF Kinds
    <3>2. fromSrv' = Append(fromSrv, y)
      BY <2>1
    <3> HIDE DEF y, m
    <3> QED BY <1>1, <1>2, <2>1, <3>1, <3>2, RecvOpenRefused DEF m
  <2>2. CASE \E i \in SrvIds :
                 /\ srv.ch[i].st = "free"
                 /\ srv' = [srv EXCEPT !.ch[i] =
                        [st |-> "open", us |-> m.us, d |-> m.d, sentClose |-> FALSE]]
                 /\ fromSrv' = Append(fromSrv, [Msg("conf", m.d) EXCEPT !.us = m.us, !.sid = i])
    <3>0. PICK i \in SrvIds :
                 /\ srv.ch[i].st = "free"
                 /\ srv' = [srv EXCEPT !.ch[i] =
                        [st |-> "open", us |-> m.us, d |-> m.d, sentClose |-> FALSE]]
                 /\ fromSrv' = Append(fromSrv, [Msg("conf", m.d) EXCEPT !.us = m.us, !.sid = i])
      BY <2>2
    <3> DEFINE y == [Msg("conf", m.d) EXCEPT !.us = m.us, !.sid = i]
               c == [st |-> "open", us |-> m.us, d |-> m.d, sentClose |-> FALSE]
    <3>1. y \in FromMsg /\ Fields(y, "conf", m.d, m.us, i, None)
      BY <1>2, <1>b, ConfFrom
    <3>2. c \in SrvChannel /\ Live(c, m.us) /\ c.d = m.d
      BY <1>2, <1>b, OpenChannel
    <3>3. fromSrv' = Append(fromSrv, y) /\ SetsCh(srv, srv', i, c) /\ srv.ch[i].st = "free"
      BY <3>0 DEF SetsCh
    <3> HIDE DEF y, c, m
    <3> QED BY <1>1, <1>2, <3>1, <3>2, <3>3, RecvOpenAccepted DEF m
  <2> QED BY <1>2, <2>1, <2>2 DEF SrvRecv, Reply
<1>3. CASE m.t = "conf"
  <2>1. CASE Objects
    BY <1>1, <2>1, ServerObjects
  <2>2. CASE /\ srv.ch[m.sid].st = "opening"
             /\ srv' = [srv EXCEPT !.ch[m.sid] =
                        [st |-> "open", us |-> m.us, d |-> m.d, sentClose |-> FALSE]]
             /\ fromSrv' = fromSrv
    <3> DEFINE c == [st |-> "open", us |-> m.us, d |-> m.d, sentClose |-> FALSE]
    <3>2. c \in SrvChannel /\ Live(c, m.us) /\ c.d = m.d
      BY <1>3, <1>b, OpenChannel
    <3>3. fromSrv' = fromSrv /\ SetsCh(srv, srv', m.sid, c) /\ srv.ch[m.sid].st = "opening"
      BY <2>2 DEF SetsCh
    <3> HIDE DEF c, m
    <3> QED BY <1>1, <1>3, <3>2, <3>3, RecvConf DEF m
  <2> QED BY <1>3, <2>1, <2>2 DEF SrvRecv
<1>4. CASE m.t = "fail"
  <2>1. CASE Objects
    BY <1>1, <2>1, ServerObjects
  <2>2. CASE /\ srv.ch[m.sid].st = "opening"
             /\ srv' = [srv EXCEPT !.ch[m.sid] = Free0] /\ fromSrv' = fromSrv
    <3>1. SetsCh(srv, srv', m.sid, Free0) /\ fromSrv' = fromSrv /\ srv.ch[m.sid].st = "opening"
      BY <2>2 DEF SetsCh
    <3> HIDE DEF m
    <3> QED BY <1>1, <1>4, <3>1, FreeChannel, RecvFail DEF m
  <2> QED BY <1>4, <2>1, <2>2 DEF SrvRecv
<1>5. CASE m.t = "close"
  <2>1. CASE Objects
    BY <1>1, <2>1, ServerObjects
  <2>2. CASE /\ srv.ch[m.sid].st = "open" /\ srv.ch[m.sid].sentClose
             /\ srv' = [srv EXCEPT !.ch[m.sid] = Free0] /\ fromSrv' = fromSrv
    <3>1. /\ SetsCh(srv, srv', m.sid, Free0) /\ fromSrv' = fromSrv
          /\ srv.ch[m.sid].st = "open" /\ srv.ch[m.sid].sentClose
      BY <2>2 DEF SetsCh
    <3> HIDE DEF m
    <3> QED BY <1>1, <1>5, <3>1, FreeChannel, RecvCloseLast DEF m
  <2>3. CASE /\ srv.ch[m.sid].st = "open" /\ ~srv.ch[m.sid].sentClose
             /\ srv' = [srv EXCEPT !.ch[m.sid] = Free0]
             /\ fromSrv' = Append(fromSrv, [Msg("close", m.d) EXCEPT !.us = srv.ch[m.sid].us])
    <3> DEFINE y == [Msg("close", m.d) EXCEPT !.us = srv.ch[m.sid].us]
    <3>0. srv.ch[m.sid].us = m.us
      BY <1>1, <1>5, <1>b, Known, CloseFinds
    <3>1. y \in FromMsg /\ Fields(y, "close", m.d, m.us, None, None)
      BY <1>5, <1>b, <3>0, LastFrom DEF Kinds
    <3>2. /\ fromSrv' = Append(fromSrv, y) /\ SetsCh(srv, srv', m.sid, Free0)
          /\ srv.ch[m.sid].st = "open" /\ ~srv.ch[m.sid].sentClose
      BY <2>3 DEF SetsCh
    <3> HIDE DEF y, m
    <3> QED BY <1>1, <1>5, <3>1, <3>2, FreeChannel, RecvCloseFirst DEF m
  <2> QED BY <1>5, <2>1, <2>2, <2>3 DEF SrvRecv, Reply
<1>6. CASE m.t = "forward"
  <2>1. CASE fromSrv' = Append(fromSrv, [Msg("failure", m.d) EXCEPT !.p = m.p]) /\ srv' = srv
    <3> DEFINE y == [Msg("failure", m.d) EXCEPT !.p = m.p]
    <3>1. y \in FromMsg /\ Fields(y, "failure", m.d, None, None, m.p)
      BY <1>6, <1>b, ReplyFrom DEF Kinds
    <3>2. fromSrv' = Append(fromSrv, y)
      BY <2>1
    <3> HIDE DEF y, m
    <3> QED BY <1>1, <1>6, <2>1, <3>1, <3>2, RecvForwardRefused DEF m
  <2>2. CASE /\ srv' = [srv EXCEPT !.fwd[m.p] = m.d]
             /\ fromSrv' = Append(fromSrv, [Msg("success", m.d) EXCEPT !.p = m.p])
    <3> DEFINE y == [Msg("success", m.d) EXCEPT !.p = m.p]
    <3>1. y \in FromMsg /\ Fields(y, "success", m.d, None, None, m.p)
      BY <1>6, <1>b, ReplyFrom DEF Kinds
    <3>2. fromSrv' = Append(fromSrv, y) /\ SetsFwd(srv, srv', m.p, m.d) /\ m.d \in Opt(Downs)
      BY <1>6, <1>b, <2>2 DEF SetsFwd, Opt
    <3> HIDE DEF y, m
    <3> QED BY <1>1, <1>6, <3>1, <3>2, RecvForwardGranted DEF m
  <2> QED BY <1>6, <2>1, <2>2 DEF SrvRecv, Reply
<1>7. CASE m.t = "cancel"
  <2>1. CASE /\ m.wr /\ srv' = [srv EXCEPT !.fwd[m.p] = None]
             /\ fromSrv' = Append(fromSrv, [Msg(IF srv.fwd[m.p] = None THEN "failure" ELSE "success",
                                     m.d) EXCEPT !.p = m.p])
    <3> DEFINE t == IF srv.fwd[m.p] = None THEN "failure" ELSE "success"
               y == [Msg(t, m.d) EXCEPT !.p = m.p]
    <3>1. y \in FromMsg /\ Fields(y, t, m.d, None, None, m.p)
      <4>1. CASE t = "failure"
        BY <4>1, <1>7, <1>b, ReplyFrom DEF Kinds
      <4>2. CASE t = "success"
        BY <4>2, <1>7, <1>b, ReplyFrom DEF Kinds
      <4> QED BY <4>1, <4>2
    <3>2. fromSrv' = Append(fromSrv, y) /\ SetsFwd(srv, srv', m.p, None) /\ None \in Opt(Downs) /\ m.wr
      BY <2>1 DEF SetsFwd, Opt
    <3>3. Fields(y, IF srv.fwd[m.p] = None THEN "failure" ELSE "success", m.d, None, None, m.p)
      BY <3>1
    <3> HIDE DEF y, m
    <3> QED BY <1>1, <1>7, <3>1, <3>2, <3>3, RecvCancelAsked DEF m
  <2>2. CASE ~m.wr /\ srv' = [srv EXCEPT !.fwd[m.p] = None] /\ fromSrv' = fromSrv
    <3>2. fromSrv' = fromSrv /\ SetsFwd(srv, srv', m.p, None) /\ None \in Opt(Downs) /\ ~m.wr
      BY <2>2 DEF SetsFwd, Opt
    <3> HIDE DEF m
    <3> QED BY <1>1, <1>7, <3>2, RecvCancelUnasked DEF m
  <2> QED BY <1>7, <2>1, <2>2 DEF SrvRecv, Reply
<1> QED BY <1>2, <1>3, <1>4, <1>5, <1>6, <1>7 DEF SrvRecv

---------------------------------------------------------------------------
(* The upstream's record and its parts, changed.                           *)

\* Any upstream is made of its parts, and so is the struct of a downstream.
LEMMA UpParts ==
  ASSUME NEW u \in Upstream
  PROVE  /\ IsUp(u, u.cs, u.chan, u.rpf, u.globreq, u.drained, u.out, u.fault)
         /\ u.cs \in [Downs -> ConnState] /\ u.chan \in [UpIds -> Opt(Downs)] /\ u.rpf \in [Ports -> Opt(Downs)]
         /\ u.globreq \in Seq(Downs) /\ u.drained \in BOOLEAN /\ u.out \in Seq(ToMsg) /\ u.fault \in Faults
         /\ \A d \in Downs : /\ u.cs[d] \in ConnState
                             /\ u.cs[d].st \in {"none", "live", "dead", "freed"}
                             /\ u.cs[d].half \subseteq SrvIds
                             /\ u.cs[d].chans \subseteq ShareChannel
                             /\ u.cs[d].fwds \in [Ports -> ShareForwarding]
                             /\ u.cs[d].globreq_head \in Opt(ShareGlobreq)
<1>1. IsUp(u, u.cs, u.chan, u.rpf, u.globreq, u.drained, u.out, u.fault)
  BY DEF IsUp
<1>2. /\ u.cs \in [Downs -> ConnState] /\ u.chan \in [UpIds -> Opt(Downs)] /\ u.rpf \in [Ports -> Opt(Downs)]
      /\ u.globreq \in Seq(Downs) /\ u.drained \in BOOLEAN /\ u.out \in Seq(ToMsg) /\ u.fault \in Faults
  BY DEF Upstream
<1>3. ASSUME NEW c \in ConnState
      PROVE  /\ c.st \in {"none", "live", "dead", "freed"}
             /\ c.half \subseteq SrvIds
             /\ c.chans \subseteq ShareChannel
             /\ c.fwds \in [Ports -> ShareForwarding]
             /\ c.globreq_head \in Opt(ShareGlobreq)
  BY DEF ConnState
<1> QED BY <1>1, <1>2, <1>3

\* One part of the upstream gets the value x.
LEMMA PutCs ==
  ASSUME NEW u, NEW cs, NEW chan, NEW rpf, NEW gq, NEW dr, NEW out, NEW ft,
         IsUp(u, cs, chan, rpf, gq, dr, out, ft),
         NEW x \in [Downs -> ConnState], NEW v, v = [u EXCEPT !.cs = x]
  PROVE  IsUp(v, x, chan, rpf, gq, dr, out, ft)
  BY DEF Upstream, IsUp

\* ... its part chan.
LEMMA PutChan ==
  ASSUME NEW u, NEW cs, NEW chan, NEW rpf, NEW gq, NEW dr, NEW out, NEW ft,
         IsUp(u, cs, chan, rpf, gq, dr, out, ft),
         NEW x \in [UpIds -> Opt(Downs)], NEW v, v = [u EXCEPT !.chan = x]
  PROVE  IsUp(v, cs, x, rpf, gq, dr, out, ft)
  BY DEF Upstream, IsUp

\* ... its part rpf.
LEMMA PutRpf ==
  ASSUME NEW u, NEW cs, NEW chan, NEW rpf, NEW gq, NEW dr, NEW out, NEW ft,
         IsUp(u, cs, chan, rpf, gq, dr, out, ft),
         NEW x \in [Ports -> Opt(Downs)], NEW v, v = [u EXCEPT !.rpf = x]
  PROVE  IsUp(v, cs, chan, x, gq, dr, out, ft)
  BY DEF Upstream, IsUp

\* ... its part globreq.
LEMMA PutList ==
  ASSUME NEW u, NEW cs, NEW chan, NEW rpf, NEW gq, NEW dr, NEW out, NEW ft,
         IsUp(u, cs, chan, rpf, gq, dr, out, ft),
         NEW x \in Seq(Downs), NEW v, v = [u EXCEPT !.globreq = x]
  PROVE  IsUp(v, cs, chan, rpf, x, dr, out, ft)
  BY DEF Upstream, IsUp

\* ... its part drained.
LEMMA PutDrained ==
  ASSUME NEW u, NEW cs, NEW chan, NEW rpf, NEW gq, NEW dr, NEW out, NEW ft,
         IsUp(u, cs, chan, rpf, gq, dr, out, ft),
         NEW x \in BOOLEAN, NEW v, v = [u EXCEPT !.drained = x]
  PROVE  IsUp(v, cs, chan, rpf, gq, x, out, ft)
  BY DEF Upstream, IsUp

\* ... its part out.
LEMMA PutOut ==
  ASSUME NEW u, NEW cs, NEW chan, NEW rpf, NEW gq, NEW dr, NEW out, NEW ft,
         IsUp(u, cs, chan, rpf, gq, dr, out, ft),
         NEW x \in Seq(ToMsg), NEW v, v = [u EXCEPT !.out = x]
  PROVE  IsUp(v, cs, chan, rpf, gq, dr, x, ft)
  BY DEF Upstream, IsUp

\* ... its part fault.
LEMMA PutFault ==
  ASSUME NEW u, NEW cs, NEW chan, NEW rpf, NEW gq, NEW dr, NEW out, NEW ft,
         IsUp(u, cs, chan, rpf, gq, dr, out, ft),
         NEW x \in Faults, NEW v, v = [u EXCEPT !.fault = x]
  PROVE  IsUp(v, cs, chan, rpf, gq, dr, out, x)
  BY DEF Upstream, IsUp

\* The struct of d gets the value x in st.
LEMMA PutSt ==
  ASSUME NEW u \in Upstream, NEW d \in Downs, NEW x \in {"none", "live", "dead", "freed"}, NEW v, v = [u EXCEPT !.cs[d].st = x]
  PROVE  /\ IsUp(v, v.cs, u.chan, u.rpf, u.globreq, u.drained, u.out, u.fault)
         /\ Moves(u.cs, v.cs, d)
         /\ IsConn(v.cs[d], x, u.cs[d].half, u.cs[d].chans, u.cs[d].fwds, u.cs[d].globreq_head)
<1> DEFINE c == [u.cs[d] EXCEPT !.st = x]
           cs2 == [u.cs EXCEPT ![d] = c]
<1>1. v = [u EXCEPT !.cs = cs2]
  OBVIOUS
<1>2. u.cs \in [Downs -> ConnState] /\ u.cs[d] \in ConnState
  BY UpParts
<1>3. IsConn(c, x, u.cs[d].half, u.cs[d].chans, u.cs[d].fwds, u.cs[d].globreq_head)
  BY <1>2 DEF ConnState, IsConn
<1>4. c \in ConnState
  BY <1>3 DEF IsConn
<1> HIDE DEF c
<1>5. cs2 \in [Downs -> ConnState] /\ cs2[d] = c /\ \A e \in Downs : e # d => cs2[e] = u.cs[e]
  BY <1>2, <1>4
<1> HIDE DEF cs2
<1>6. IsUp(v, cs2, u.chan, u.rpf, u.globreq, u.drained, u.out, u.fault)
  BY <1>1, <1>5, UpParts, PutCs
<1>7. v.cs = cs2
  BY <1>6 DEF IsUp
<1> QED BY <1>3, <1>5, <1>6, <1>7 DEF Moves

\* The struct of d gets the value x in half.
LEMMA PutHalf ==
  ASSUME NEW u \in Upstream, NEW d \in Downs, NEW x \in SUBSET SrvIds, NEW v, v = [u EXCEPT !.cs[d].half = x]
  PROVE  /\ IsUp(v, v.cs, u.chan, u.rpf, u.globreq, u.drained, u.out, u.fault)
         /\ Moves(u.cs, v.cs, d)
         /\ IsConn(v.cs[d], u.cs[d].st, x, u.cs[d].chans, u.cs[d].fwds, u.cs[d].globreq_head)
<1> DEFINE c == [u.cs[d] EXCEPT !.half = x]
           cs2 == [u.cs EXCEPT ![d] = c]
<1>1. v = [u EXCEPT !.cs = cs2]
  OBVIOUS
<1>2. u.cs \in [Downs -> ConnState] /\ u.cs[d] \in ConnState
  BY UpParts
<1>3. IsConn(c, u.cs[d].st, x, u.cs[d].chans, u.cs[d].fwds, u.cs[d].globreq_head)
  BY <1>2 DEF ConnState, IsConn
<1>4. c \in ConnState
  BY <1>3 DEF IsConn
<1> HIDE DEF c
<1>5. cs2 \in [Downs -> ConnState] /\ cs2[d] = c /\ \A e \in Downs : e # d => cs2[e] = u.cs[e]
  BY <1>2, <1>4
<1> HIDE DEF cs2
<1>6. IsUp(v, cs2, u.chan, u.rpf, u.globreq, u.drained, u.out, u.fault)
  BY <1>1, <1>5, UpParts, PutCs
<1>7. v.cs = cs2
  BY <1>6 DEF IsUp
<1> QED BY <1>3, <1>5, <1>6, <1>7 DEF Moves

\* The struct of d gets the value x in chans.
LEMMA PutChans ==
  ASSUME NEW u \in Upstream, NEW d \in Downs, NEW x \in SUBSET ShareChannel, NEW v, v = [u EXCEPT !.cs[d].chans = x]
  PROVE  /\ IsUp(v, v.cs, u.chan, u.rpf, u.globreq, u.drained, u.out, u.fault)
         /\ Moves(u.cs, v.cs, d)
         /\ IsConn(v.cs[d], u.cs[d].st, u.cs[d].half, x, u.cs[d].fwds, u.cs[d].globreq_head)
<1> DEFINE c == [u.cs[d] EXCEPT !.chans = x]
           cs2 == [u.cs EXCEPT ![d] = c]
<1>1. v = [u EXCEPT !.cs = cs2]
  OBVIOUS
<1>2. u.cs \in [Downs -> ConnState] /\ u.cs[d] \in ConnState
  BY UpParts
<1>3. IsConn(c, u.cs[d].st, u.cs[d].half, x, u.cs[d].fwds, u.cs[d].globreq_head)
  BY <1>2 DEF ConnState, IsConn
<1>4. c \in ConnState
  BY <1>3 DEF IsConn
<1> HIDE DEF c
<1>5. cs2 \in [Downs -> ConnState] /\ cs2[d] = c /\ \A e \in Downs : e # d => cs2[e] = u.cs[e]
  BY <1>2, <1>4
<1> HIDE DEF cs2
<1>6. IsUp(v, cs2, u.chan, u.rpf, u.globreq, u.drained, u.out, u.fault)
  BY <1>1, <1>5, UpParts, PutCs
<1>7. v.cs = cs2
  BY <1>6 DEF IsUp
<1> QED BY <1>3, <1>5, <1>6, <1>7 DEF Moves

\* The struct of d gets the value x in fwds.
LEMMA PutFwds ==
  ASSUME NEW u \in Upstream, NEW d \in Downs, NEW x \in [Ports -> ShareForwarding], NEW v, v = [u EXCEPT !.cs[d].fwds = x]
  PROVE  /\ IsUp(v, v.cs, u.chan, u.rpf, u.globreq, u.drained, u.out, u.fault)
         /\ Moves(u.cs, v.cs, d)
         /\ IsConn(v.cs[d], u.cs[d].st, u.cs[d].half, u.cs[d].chans, x, u.cs[d].globreq_head)
<1> DEFINE c == [u.cs[d] EXCEPT !.fwds = x]
           cs2 == [u.cs EXCEPT ![d] = c]
<1>1. v = [u EXCEPT !.cs = cs2]
  OBVIOUS
<1>2. u.cs \in [Downs -> ConnState] /\ u.cs[d] \in ConnState
  BY UpParts
<1>3. IsConn(c, u.cs[d].st, u.cs[d].half, u.cs[d].chans, x, u.cs[d].globreq_head)
  BY <1>2 DEF ConnState, IsConn
<1>4. c \in ConnState
  BY <1>3 DEF IsConn
<1> HIDE DEF c
<1>5. cs2 \in [Downs -> ConnState] /\ cs2[d] = c /\ \A e \in Downs : e # d => cs2[e] = u.cs[e]
  BY <1>2, <1>4
<1> HIDE DEF cs2
<1>6. IsUp(v, cs2, u.chan, u.rpf, u.globreq, u.drained, u.out, u.fault)
  BY <1>1, <1>5, UpParts, PutCs
<1>7. v.cs = cs2
  BY <1>6 DEF IsUp
<1> QED BY <1>3, <1>5, <1>6, <1>7 DEF Moves

\* The struct of d gets the value x in globreq_head.
LEMMA PutHead ==
  ASSUME NEW u \in Upstream, NEW d \in Downs, NEW x \in Opt(ShareGlobreq), NEW v, v = [u EXCEPT !.cs[d].globreq_head = x]
  PROVE  /\ IsUp(v, v.cs, u.chan, u.rpf, u.globreq, u.drained, u.out, u.fault)
         /\ Moves(u.cs, v.cs, d)
         /\ IsConn(v.cs[d], u.cs[d].st, u.cs[d].half, u.cs[d].chans, u.cs[d].fwds, x)
<1> DEFINE c == [u.cs[d] EXCEPT !.globreq_head = x]
           cs2 == [u.cs EXCEPT ![d] = c]
<1>1. v = [u EXCEPT !.cs = cs2]
  OBVIOUS
<1>2. u.cs \in [Downs -> ConnState] /\ u.cs[d] \in ConnState
  BY UpParts
<1>3. IsConn(c, u.cs[d].st, u.cs[d].half, u.cs[d].chans, u.cs[d].fwds, x)
  BY <1>2 DEF ConnState, IsConn
<1>4. c \in ConnState
  BY <1>3 DEF IsConn
<1> HIDE DEF c
<1>5. cs2 \in [Downs -> ConnState] /\ cs2[d] = c /\ \A e \in Downs : e # d => cs2[e] = u.cs[e]
  BY <1>2, <1>4
<1> HIDE DEF cs2
<1>6. IsUp(v, cs2, u.chan, u.rpf, u.globreq, u.drained, u.out, u.fault)
  BY <1>1, <1>5, UpParts, PutCs
<1>7. v.cs = cs2
  BY <1>6 DEF IsUp
<1> QED BY <1>3, <1>5, <1>6, <1>7 DEF Moves

\* The forwarding of port p in the struct of d gets the value x.
LEMMA PutFwd ==
  ASSUME NEW u \in Upstream, NEW d \in Downs, NEW p \in Ports, NEW x \in ShareForwarding,
         NEW v, v = [u EXCEPT !.cs[d].fwds[p] = x]
  PROVE  /\ IsUp(v, v.cs, u.chan, u.rpf, u.globreq, u.drained, u.out, u.fault)
         /\ Moves(u.cs, v.cs, d)
         /\ IsConn(v.cs[d], u.cs[d].st, u.cs[d].half, u.cs[d].chans, v.cs[d].fwds, u.cs[d].globreq_head)
         /\ Sets(u.cs[d].fwds, v.cs[d].fwds, p, x)
<1> DEFINE fw == [u.cs[d].fwds EXCEPT ![p] = x]
<1>1. v = [u EXCEPT !.cs[d].fwds = fw]
  OBVIOUS
<1>2. u.cs[d].fwds \in [Ports -> ShareForwarding]
  BY UpParts
<1>3. fw \in [Ports -> ShareForwarding] /\ Sets(u.cs[d].fwds, fw, p, x)
  BY <1>2 DEF Sets
<1> HIDE DEF fw
<1>4. /\ IsUp(v, v.cs, u.chan, u.rpf, u.globreq, u.drained, u.out, u.fault)
      /\ Moves(u.cs, v.cs, d)
      /\ IsConn(v.cs[d], u.cs[d].st, u.cs[d].half, u.cs[d].chans, fw, u.cs[d].globreq_head)
  BY <1>1, <1>3, PutFwds
<1>5. v.cs[d].fwds = fw
  BY <1>4 DEF IsConn
<1> QED BY <1>3, <1>4, <1>5

\* No forwarding, and one with a field changed.
LEMMA Forwardings0 ==
  Fwd0 \in ShareForwarding /\ Fwd0.st = "none" /\ ~Fwd0.rpf
<1> DEFINE W == FALSE
<1>0. W \in BOOLEAN /\ ~W
  OBVIOUS
<1>1. Fwd0 = [st |-> "none", rpf |-> W]
  BY DEF Fwd0
<1> HIDE DEF W
<1> QED BY <1>0, <1>1 DEF ShareForwarding

\* A forwarding with its state or its record changed is one.
LEMMA FwdFields ==
  ASSUME NEW x \in ShareForwarding, NEW s \in {"none", "waiting", "active"}, NEW r \in BOOLEAN
  PROVE  /\ x.st \in {"none", "waiting", "active"} /\ x.rpf \in BOOLEAN
         /\ [x EXCEPT !.st = s] \in ShareForwarding /\ [x EXCEPT !.st = s].st = s
         /\ [x EXCEPT !.st = s].rpf = x.rpf
         /\ [x EXCEPT !.rpf = r] \in ShareForwarding /\ [x EXCEPT !.rpf = r].st = x.st
         /\ [x EXCEPT !.rpf = r].rpf = r
         /\ [st |-> s, rpf |-> r] \in ShareForwarding /\ [st |-> s, rpf |-> r].st = s
         /\ [st |-> s, rpf |-> r].rpf = r
  BY DEF ShareForwarding

\* A fault changes nothing else, and the first one stays.
LEMMA FaultIs ==
  ASSUME NEW u \in Upstream, NEW why \in Faults, NEW v, v = Fault(u, why)
  PROVE  /\ IsUp(v, u.cs, u.chan, u.rpf, u.globreq, u.drained, u.out, v.fault)
         /\ u.fault = "none" => v.fault = why
         /\ u.fault # "none" => v.fault = u.fault
<1>1. CASE u.fault = "none"
  <2>1. v = [u EXCEPT !.fault = why]
    BY <1>1 DEF Fault
  <2>2. IsUp(v, u.cs, u.chan, u.rpf, u.globreq, u.drained, u.out, why)
    BY <2>1, UpParts, PutFault
  <2>3. v.fault = why
    BY <2>2 DEF IsUp
  <2> QED BY <1>1, <2>2, <2>3
<1>2. CASE u.fault # "none"
  <2>1. v = u
    BY <1>2 DEF Fault
  <2> QED BY <1>2, <2>1, UpParts
<1> QED BY <1>1, <1>2

\* A packet to the server.
LEMMA SendIs ==
  ASSUME NEW u \in Upstream, NEW m \in ToMsg, NEW v, v = Send(u, m)
  PROVE  IsUp(v, u.cs, u.chan, u.rpf, u.globreq, u.drained, Append(u.out, m), u.fault)
<1>1. v = [u EXCEPT !.out = Append(u.out, m)]
  BY DEF Send
<1>2. Append(u.out, m) \in Seq(ToMsg)
  BY UpParts
<1> QED BY <1>1, <1>2, UpParts, PutOut

\* Packets that are added one by one or together.
LEMMA Joined ==
  ASSUME NEW S, NEW w \in Seq(S), NEW x \in Seq(S)
  PROVE  w \o x \in Seq(S) /\ w \o << >> = w
  OBVIOUS

\* ... and more packets after those.
LEMMA JoinedAll ==
  ASSUME NEW S, NEW w \in Seq(S), NEW x \in Seq(S), NEW y \in Seq(S)
  PROVE  w \o (x \o y) = (w \o x) \o y
  OBVIOUS

\* What is sent now goes after what was sent before.
LEMMA Longer ==
  ASSUME NEW ts \in Seq(ToMsg), NEW a \in Seq(ToMsg), NEW x \in Seq(ToMsg), NEW b, b = a \o x
  PROVE  ts \o a \in Seq(ToMsg) /\ ts \o b = (ts \o a) \o x
  BY Joined, JoinedAll

\* There are finitely many channels.
LEMMA FiniteIds ==
  IsFiniteSet(SrvIds) /\ IsFiniteSet(UpIds)
<1>1. MaxSrvId \in Int /\ MaxUpId \in Int /\ 0 \in Int
  BY ConstAssumption
<1>2. IsFiniteSet(0..MaxSrvId) /\ IsFiniteSet(0..MaxUpId)
  BY <1>1, FS_Interval
<1> QED BY <1>2 DEF SrvIds, UpIds

---------------------------------------------------------------------------
(* Cleaning up after a downstream.                                         *)

\* A sequence given by its elements.
LEMMA Tabled ==
  ASSUME NEW S, NEW n \in Nat, NEW x \in [1..n -> S]
  PROVE  x \in Seq(S) /\ Len(x) = n
  OBVIOUS

\* CleanHalf refuses what the server is opening for d and changes nothing else.
LEMMA HalfCleaned ==
  ASSUME NEW u \in Upstream, NEW d \in Downs, NEW v, v = CleanHalf(u, d)
  PROVE  \E x \in Seq(ToMsg) :
           /\ IsUp(v, v.cs, u.chan, u.rpf, u.globreq, u.drained, u.out \o x, u.fault)
           /\ Moves(u.cs, v.cs, d)
           /\ IsConn(v.cs[d], u.cs[d].st, {}, u.cs[d].chans, u.cs[d].fwds, u.cs[d].globreq_head)
           /\ Refusals(x, d, u.cs[d].half)
<1> DEFINE H == u.cs[d].half
           hs == SetToSeq(H)
           x == [i \in 1..Len(hs) |-> [Msg("fail", d) EXCEPT !.sid = hs[i]]]
           o == u.out \o x
           e == {}
           v1 == [u EXCEPT !.out = o]
<1>0. v = [v1 EXCEPT !.cs[d].half = e]
  BY DEF CleanHalf
<1>1. H \subseteq SrvIds /\ d \in Opt(Downs) /\ u.out \in Seq(ToMsg)
  BY UpParts DEF Opt
<1>2. IsFiniteSet(H)
  BY <1>1, FiniteIds, FS_Subset
<1> HIDE DEF H
<1>3. /\ hs \in Seq(H) /\ Len(hs) \in Nat
      /\ \A h \in H : \E k \in 1..Len(hs) : hs[k] = h
  <2>1. hs \in Seq(H) /\ \A h \in H : \E k \in 1..Len(hs) : hs[k] = h
    BY <1>2, Listing
  <2> HIDE DEF hs
  <2> QED BY <2>1
<1> HIDE DEF hs
<1>4. ASSUME NEW i \in 1..Len(hs)
      PROVE  x[i] \in ToMsg /\ x[i].t = "fail" /\ x[i].sid = hs[i] /\ x[i].d = d
  <2>1. hs[i] \in SrvIds
    BY <1>1, <1>3
  <2> DEFINE y == [Msg("fail", d) EXCEPT !.sid = hs[i]]
  <2>2. y \in ToMsg /\ Fields(y, "fail", d, None, hs[i], None)
    BY <1>1, <2>1, FailTo
  <2>3. x[i] = y
    OBVIOUS
  <2> HIDE DEF x, y
  <2> QED BY <2>2, <2>3 DEF Fields
<1>5. x \in Seq(ToMsg) /\ Len(x) = Len(hs)
  <2>1. x \in [1..Len(hs) -> ToMsg]
    BY <1>4, Zenon
  <2> HIDE DEF x
  <2> QED BY <1>3, <2>1, Tabled
<1> HIDE DEF x
<1>6. o \in Seq(ToMsg)
  BY <1>1, <1>5, Joined
<1>7. e \in SUBSET SrvIds
  OBVIOUS
<1> HIDE DEF o, e
<1>8. IsUp(v1, u.cs, u.chan, u.rpf, u.globreq, u.drained, o, u.fault)
  BY <1>6, UpParts, PutOut
<1> HIDE DEF v1
<1>9. v1 \in Upstream /\ v1.cs = u.cs /\ v1.chan = u.chan /\ v1.rpf = u.rpf /\ v1.globreq = u.globreq
      /\ v1.drained = u.drained /\ v1.out = o /\ v1.fault = u.fault
  BY <1>8 DEF IsUp
<1>10. /\ IsUp(v, v.cs, u.chan, u.rpf, u.globreq, u.drained, o, u.fault)
       /\ Moves(u.cs, v.cs, d)
       /\ IsConn(v.cs[d], u.cs[d].st, e, u.cs[d].chans, u.cs[d].fwds, u.cs[d].globreq_head)
  <2>1. /\ IsUp(v, v.cs, v1.chan, v1.rpf, v1.globreq, v1.drained, v1.out, v1.fault)
        /\ Moves(v1.cs, v.cs, d)
        /\ IsConn(v.cs[d], v1.cs[d].st, e, v1.cs[d].chans, v1.cs[d].fwds, v1.cs[d].globreq_head)
    BY <1>0, <1>7, <1>9, PutHalf
  <2> QED BY <1>9, <2>1
<1>11. Refusals(x, d, H)
  BY <1>3, <1>4, <1>5 DEF Refusals
<1> QED BY <1>5, <1>10, <1>11 DEF o, e, H

\* It keeps the channels, the structs and the announcements as they should be.
LEMMA StructKept ==
  ASSUME NEW u, NEW v, NEW ts \in Seq(ToMsg), NEW f \in Seq(FromMsg), NEW s, Sound(u, ts, f, s),
         NEW d \in Downs, NEW x \in Seq(ToMsg), NEW r, NEW g, NEW b, NEW t,
         IsUp(v, v.cs, u.chan, r, g, b, u.out \o x, t), Moves(u.cs, v.cs, d),
         StructOnly(u, v, d, x, r)
  PROVE  Sound(v, ts, f, s)
<1> /\ v.cs[d].chans = u.cs[d].chans
    /\ \A k \in 1..Len(x) : x[k].t \in AboutPort
    /\ \A i \in u.cs[d].half : i \in v.cs[d].half \/ Answers(x, i)
    /\ v.cs[d].st \in {"none", "freed"} => u.cs[d].chans = {} /\ v.cs[d].half = {}
    /\ v.cs[d].st = "none" => u.cs[d].st = "none"
    /\ \A p \in Ports : r[p] = u.rpf[p] \/ r[p] = None \/ (r[p] = d /\ v.cs[d].st # "none")
  BY DEF StructOnly
<1> DEFINE w == ts \o u.out
           w2 == ts \o v.out
<1>0. /\ u \in Upstream /\ v \in Upstream /\ u.out \in Seq(ToMsg)
      /\ v.chan = u.chan /\ v.rpf = r /\ v.out = u.out \o x
      /\ \A e \in Downs : e # d => v.cs[e] = u.cs[e]
  BY UpParts DEF Sound, IsUp, Moves
<1>1. w \in Seq(ToMsg) /\ w2 = w \o x
  <2> DEFINE a1 == u.out
             b1 == v.out
  <2>1. a1 \in Seq(ToMsg) /\ b1 = a1 \o x
    BY <1>0
  <2> HIDE DEF a1, b1
  <2>2. ts \o a1 \in Seq(ToMsg) /\ ts \o b1 = (ts \o a1) \o x
    BY <2>1, Longer
  <2> QED BY <2>2 DEF a1, b1
<1>2. Channels(u.cs, u.chan, w, f, s.ch) /\ Structs(u.cs, u.rpf) /\ Announced(u.cs, w, f, s.ch)
  BY DEF Sound, GoodChan
<1> HIDE DEF w, w2
<1>3. Channels(v.cs, v.chan, w2, f, s.ch)
  <2>1. SameTo(w, w2)
    BY <1>1, SameTos
  <2>2. SameFrom(f, f)
    BY SameFroms
  <2>3. \A a \in UpIds : SameS(s.ch, s.ch, a)
    BY DEF SameS
  <2>4. \A e \in Downs : v.cs[e].chans = u.cs[e].chans
    BY <1>0
  <2> QED BY <1>0, <1>2, <2>1, <2>2, <2>3, <2>4, ChannelsKept
<1>4. Structs(v.cs, v.rpf)
  <2> SUFFICES ASSUME NEW e \in Downs
               PROVE  /\ v.cs[e].st \in {"none", "freed"} => v.cs[e].chans = {} /\ v.cs[e].half = {}
                      /\ v.cs[e].st = "none" => \A p \in Ports : v.rpf[p] # e
    BY DEF Structs
  <2>1. /\ u.cs[e].st \in {"none", "freed"} => u.cs[e].chans = {} /\ u.cs[e].half = {}
        /\ u.cs[e].st = "none" => \A p \in Ports : u.rpf[p] # e
    BY <1>2 DEF Structs
  <2>2. e # None
    BY ConstAssumption
  <2>3. CASE e = d
    BY <1>0, <2>1, <2>2, <2>3
  <2>4. CASE e # d
    BY <1>0, <2>1, <2>2, <2>4
  <2> QED BY <2>3, <2>4
<1>5. Announced(v.cs, w2, f, s.ch)
  <2> SUFFICES ASSUME NEW i \in SrvIds, s.ch[i].st = "opening"
               PROVE  Answers(w2, i) \/ Calls(f, i) \/ \E e \in Downs : i \in v.cs[e].half
    BY Announcing
  <2>1. Answers(w, i) \/ Calls(f, i) \/ \E e \in Downs : i \in u.cs[e].half
    BY <1>2, Announcing
  <2>2. Answers(w, i) \/ Answers(x, i) => Answers(w2, i)
    BY <1>1, Answered
  <2>3. CASE \E e \in Downs : i \in u.cs[e].half
    <3>1. PICK e \in Downs : i \in u.cs[e].half
      BY <2>3
    <3>2. CASE e = d
      BY <2>2, <3>1, <3>2
    <3>3. CASE e # d
      BY <1>0, <3>1, <3>3
    <3> QED BY <3>2, <3>3
  <2> QED BY <2>1, <2>2, <2>3
<1> QED BY <1>0, <1>3, <1>4, <1>5 DEF Sound, GoodChan, w2

\* It keeps the ports as they should be.
LEMMA PortsSame ==
  ASSUME NEW u \in Upstream, NEW v, NEW gq, NEW ts \in Seq(ToMsg), NEW f \in Seq(FromMsg), NEW s,
         SoundPorts(u, gq, ts, f, s),
         NEW d \in Downs, NEW x \in Seq(ToMsg), NEW o, NEW g, NEW b, NEW t,
         IsUp(v, v.cs, o, u.rpf, g, b, u.out \o x, t), Moves(u.cs, v.cs, d),
         PortsAlone(u, v, d, x)
  PROVE  SoundPorts(v, gq, ts, f, s)
<1> /\ v.cs[d].fwds = u.cs[d].fwds /\ v.cs[d].globreq_head = u.cs[d].globreq_head
    /\ \A k \in 1..Len(x) : x[k].t \in AboutChannel
    /\ v.cs[d].st \in {"none", "freed"} =>
            u.cs[d].globreq_head = None /\ \A p \in Ports : u.cs[d].fwds[p].st = "none"
    /\ v.cs[d].st = "dead" => \A p \in Ports : ~Waits(u.cs[d], "cancel", p)
  BY DEF PortsAlone
<1> DEFINE w == ts \o u.out
           w2 == ts \o v.out
<1>0. /\ v \in Upstream /\ u.out \in Seq(ToMsg)
      /\ v.rpf = u.rpf /\ v.out = u.out \o x
      /\ \A e \in Downs : e # d => v.cs[e] = u.cs[e]
  BY UpParts DEF IsUp, Moves
<1>1. w \in Seq(ToMsg) /\ w2 = w \o x
  <2> DEFINE a1 == u.out
             b1 == v.out
  <2>1. a1 \in Seq(ToMsg) /\ b1 = a1 \o x
    BY <1>0
  <2> HIDE DEF a1, b1
  <2>2. ts \o a1 \in Seq(ToMsg) /\ ts \o b1 = (ts \o a1) \o x
    BY <2>1, Longer
  <2> QED BY <2>2 DEF a1, b1
<1>2. Forwardings(u.cs, u.rpf, gq, w, f, s.fwd)
  BY DEF SoundPorts
<1> HIDE DEF w, w2
<1>3. StateP(v.cs)
  <2>1. StateP(u.cs)
    BY <1>2, PortFacts
  <2>2. ASSUME NEW e \in Downs
        PROVE  /\ v.cs[e].globreq_head # None =>
                    v.cs[e].globreq_head.type \in {"forward", "cancel"} /\ v.cs[e].globreq_head.p \in Ports
               /\ v.cs[e].st \in {"none", "freed"} =>
                    v.cs[e].globreq_head = None /\ \A p \in Ports : v.cs[e].fwds[p].st = "none"
               /\ v.cs[e].st = "dead" => \A p \in Ports : ~Waits(v.cs[e], "cancel", p)
    <3>1. CASE e = d
      <4>1. /\ u.cs[d].globreq_head # None =>
                  u.cs[d].globreq_head.type \in {"forward", "cancel"} /\ u.cs[d].globreq_head.p \in Ports
            /\ u.cs[d].st = "dead" => \A p \in Ports : ~Waits(u.cs[d], "cancel", p)
        BY <2>1 DEF StateP
      <4>2. \A p \in Ports : Waits(v.cs[d], "cancel", p) <=> Waits(u.cs[d], "cancel", p)
        BY DEF Waits
      <4> QED BY <3>1, <4>1, <4>2
    <3>2. CASE e # d
      <4>1. v.cs[e] = u.cs[e]
        BY <1>0, <3>2
      <4>2. /\ u.cs[e].globreq_head # None =>
                  u.cs[e].globreq_head.type \in {"forward", "cancel"} /\ u.cs[e].globreq_head.p \in Ports
            /\ u.cs[e].st \in {"none", "freed"} =>
                  u.cs[e].globreq_head = None /\ \A p \in Ports : u.cs[e].fwds[p].st = "none"
            /\ u.cs[e].st = "dead" => \A p \in Ports : ~Waits(u.cs[e], "cancel", p)
        BY <2>1 DEF StateP
      <4> QED BY <4>1, <4>2
    <3> QED BY <3>1, <3>2
  <2> QED BY <2>2 DEF StateP
<1>4. SameToPorts(w, w2) /\ SameFromPorts(f, f)
  BY <1>1, SameTos, SameFroms
<1>5. \A e \in Downs : v.cs[e].fwds = u.cs[e].fwds /\ v.cs[e].globreq_head = u.cs[e].globreq_head
  BY <1>0
<1>6. Forwardings(v.cs, v.rpf, gq, w2, f, s.fwd)
  BY <1>0, <1>2, <1>3, <1>4, <1>5, ForwardingsKept
<1> QED BY <1>6 DEF SoundPorts, w2

\* Refusing what the server has open keeps the invariants.
LEMMA HalfSound ==
  ASSUME NEW u, NEW ts \in Seq(ToMsg), NEW f \in Seq(FromMsg), NEW s, Sound(u, ts, f, s),
         NEW d \in Downs, u.cs[d].st = "dead", NEW v, v = CleanHalf(u, d)
  PROVE  /\ Sound(v, ts, f, s)
         /\ \A gq : SoundPorts(u, gq, ts, f, s) => SoundPorts(v, gq, ts, f, s)
         /\ IsUp(v, v.cs, v.chan, v.rpf, u.globreq, u.drained, v.out, u.fault)
         /\ IsConn(v.cs[d], "dead", {}, v.cs[d].chans, v.cs[d].fwds, u.cs[d].globreq_head)
         /\ Moves(u.cs, v.cs, d)
<1>0. u \in Upstream
  BY DEF Sound
<1>1. PICK x \in Seq(ToMsg) :
           /\ IsUp(v, v.cs, u.chan, u.rpf, u.globreq, u.drained, u.out \o x, u.fault)
           /\ Moves(u.cs, v.cs, d)
           /\ IsConn(v.cs[d], u.cs[d].st, {}, u.cs[d].chans, u.cs[d].fwds, u.cs[d].globreq_head)
           /\ Refusals(x, d, u.cs[d].half)
  BY <1>0, HalfCleaned
<1>2. /\ v.chan = u.chan /\ v.rpf = u.rpf /\ v.out = u.out \o x
      /\ v.cs[d].st = "dead" /\ v.cs[d].half = {} /\ v.cs[d].chans = u.cs[d].chans
      /\ v.cs[d].fwds = u.cs[d].fwds /\ v.cs[d].globreq_head = u.cs[d].globreq_head
  BY <1>1 DEF IsUp, IsConn
<1>3. \A k \in 1..Len(x) : x[k].t \in AboutPort /\ x[k].t \in AboutChannel
  BY <1>1 DEF Refusals, AboutPort, AboutChannel
<1>4. \A i \in u.cs[d].half : Answers(x, i)
  BY <1>1 DEF Refusals, Answers
<1>5. Sound(v, ts, f, s)
  <2> DEFINE r == u.rpf
  <2>1. IsUp(v, v.cs, u.chan, r, u.globreq, u.drained, u.out \o x, u.fault)
    BY <1>1
  <2>2. \A p \in Ports : r[p] = u.rpf[p]
    OBVIOUS
  <2> HIDE DEF r
  <2> QED
    <3>1. StructOnly(u, v, d, x, r)
      BY <1>2, <1>3, <1>4, <2>2 DEF StructOnly
    <3>2. Moves(u.cs, v.cs, d) /\ x \in Seq(ToMsg)
      BY <1>1
    <3> QED BY <2>1, <3>1, <3>2, StructKept
<1>6. ASSUME NEW gq, SoundPorts(u, gq, ts, f, s)
      PROVE  SoundPorts(v, gq, ts, f, s)
  <2>1. StateP(u.cs)
    <3>1. Forwardings(u.cs, u.rpf, gq, ts \o u.out, f, s.fwd)
      BY <1>6 DEF SoundPorts
    <3> QED BY <3>1, PortFacts
  <2>2. \A p \in Ports : ~Waits(u.cs[d], "cancel", p)
    BY <2>1 DEF StateP
  <2> QED
    <3>1. PortsAlone(u, v, d, x)
      BY <1>2, <1>3, <2>2 DEF PortsAlone
    <3>2. Moves(u.cs, v.cs, d) /\ x \in Seq(ToMsg)
      BY <1>1
    <3> QED BY <1>0, <1>1, <1>6, <3>1, <3>2, PortsSame
<1>7. /\ IsUp(v, v.cs, v.chan, v.rpf, u.globreq, u.drained, v.out, u.fault)
      /\ IsConn(v.cs[d], "dead", {}, v.cs[d].chans, v.cs[d].fwds, u.cs[d].globreq_head)
  BY <1>1, <1>2
<1> QED BY <1>1, <1>5, <1>6, <1>7

\* A record with its state changed.
LEMMA ShutIs ==
  ASSUME NEW c \in ShareChannel
  PROVE  /\ c.us \in UpIds /\ c.sid \in Opt(SrvIds) /\ c.st \in ChanStates
         /\ c.sid \in SrvIds <=> c.st \in Numbered
         /\ Shut(c) \in ShareChannel
         /\ Shut(c) = IF c.st = "OPEN" THEN [c EXCEPT !.st = "SENT_CLOSE"] ELSE c
         /\ Shut(c).us = c.us /\ Shut(c).sid = c.sid
         /\ Shut(c).st = IF c.st = "OPEN" THEN "SENT_CLOSE" ELSE c.st
<1>1. /\ c.us \in UpIds /\ c.sid \in Opt(SrvIds) /\ c.st \in ChanStates
      /\ c.sid \in SrvIds <=> c.st \in Numbered
      /\ c = [us |-> c.us, sid |-> c.sid, st |-> c.st]
  BY DEF ShareChannel
<1>2. CASE c.st = "OPEN"
  <2> DEFINE r == [us |-> c.us, sid |-> c.sid, st |-> "SENT_CLOSE"]
  <2>1. r.us = c.us /\ r.sid = c.sid /\ r.st = "SENT_CLOSE"
    OBVIOUS
  <2>2. r \in ShareChannel
    BY <1>1, <1>2 DEF ShareChannel, ChanStates, Numbered
  <2>3. [c EXCEPT !.st = "SENT_CLOSE"] = r
    BY <1>1
  <2>4. Shut(c) = r
    BY <1>2 DEF Shut
  <2> HIDE DEF r
  <2> QED BY <1>1, <1>2, <2>1, <2>2, <2>3, <2>4
<1>3. CASE c.st # "OPEN"
  BY <1>1, <1>3 DEF Shut
<1> QED BY <1>2, <1>3

\* CleanChan closes every channel of d that is not waiting for an answer, frees
\* the ones the server has closed, and changes nothing else.
LEMMA ChanCleaned ==
  ASSUME NEW u \in Upstream, NEW d \in Downs, IsFiniteSet(u.cs[d].chans),
         \A b, c \in u.cs[d].chans : b.us = c.us => b = c,
         NEW v, v = CleanChan(u, d)
  PROVE  \E x \in Seq(ToMsg) :
           /\ IsUp(v, v.cs, v.chan, u.rpf, u.globreq, u.drained, u.out \o x, u.fault)
           /\ Moves(u.cs, v.cs, d)
           /\ IsConn(v.cs[d], u.cs[d].st, u.cs[d].half, v.cs[d].chans, u.cs[d].fwds, u.cs[d].globreq_head)
           /\ Closes(x, d, u.cs[d].chans)
           /\ Remain(u.cs[d].chans, v.cs[d].chans)
           /\ Frees(u.chan, v.chan, u.cs[d].chans)
<1> DEFINE C == u.cs[d].chans
           S == {c \in C : c.st \in {"OPEN", "RCVD_CLOSE"}}
           shut == SetToSeq(S)
           x == [i \in 1..Len(shut) |-> CloseMsg(d, shut[i])]
           gone == {c \in C : c.st = "RCVD_CLOSE"}
           o == u.out \o x
           D == {IF c.st = "OPEN" THEN [c EXCEPT !.st = "SENT_CLOSE"] ELSE c : c \in C \ gone}
           own2 == [i \in UpIds |-> IF \E c \in gone : c.us = i THEN None ELSE u.chan[i]]
           v1 == [u EXCEPT !.out = o]
           v2 == [v1 EXCEPT !.cs[d].chans = D]
<1>0. v = [v2 EXCEPT !.chan = own2]
  <2>1. v = [u EXCEPT !.out = u.out \o x, !.cs[d].chans = D, !.chan = own2]
    BY DEF CleanChan
  <2> HIDE DEF x, D, own2
  <2> QED BY <2>1
<1>1. C \subseteq ShareChannel /\ u.out \in Seq(ToMsg) /\ u.chan \in [UpIds -> Opt(Downs)]
  BY UpParts
<1>2. IsFiniteSet(S) /\ S = {c \in C : c.st \in Shutting}
  BY FS_Subset DEF Shutting
<1>a. gone = {c \in C : c.st = "RCVD_CLOSE"}
  OBVIOUS
<1>b. D = {IF c.st = "OPEN" THEN [c EXCEPT !.st = "SENT_CLOSE"] ELSE c : c \in C \ gone}
  OBVIOUS
<1>c. own2 = [i \in UpIds |-> IF \E c \in gone : c.us = i THEN None ELSE u.chan[i]]
  OBVIOUS
<1>d. \A b, c \in C : b.us = c.us => b = c
  OBVIOUS
<1> HIDE DEF C, S, D, gone, own2
<1>3. /\ shut \in Seq(S) /\ Len(shut) \in Nat
      /\ \A c \in S : \E k \in 1..Len(shut) : shut[k] = c
      /\ \A j, k \in 1..Len(shut) : shut[j] = shut[k] => j = k
  <2>1. /\ shut \in Seq(S) /\ \A c \in S : \E k \in 1..Len(shut) : shut[k] = c
        /\ \A j, k \in 1..Len(shut) : shut[j] = shut[k] => j = k
    BY <1>2, Listing
  <2> HIDE DEF shut
  <2> QED BY <2>1
<1> HIDE DEF shut
<1>4. ASSUME NEW i \in 1..Len(shut)
      PROVE  /\ x[i] \in ToMsg /\ x[i].t = "close" /\ x[i].d = d
             /\ x[i].sid = shut[i].sid /\ x[i].us = shut[i].us
  <2> DEFINE c == shut[i]
             y == CloseMsg(d, c)
  <2>1. c \in ShareChannel /\ c.st \in Shutting
    BY <1>1, <1>2, <1>3
  <2>2. x[i] = y
    OBVIOUS
  <2> HIDE DEF x, y, c
  <2>3. c.us \in UpIds /\ c.sid \in SrvIds
    BY <2>1, ShutIs DEF Shutting, Numbered
  <2>4. y \in ToMsg /\ Fields(y, "close", d, c.us, c.sid, None)
    BY <2>3, CloseTo DEF y
  <2> QED BY <2>2, <2>4 DEF Fields, c
<1>5. x \in Seq(ToMsg) /\ Len(x) = Len(shut)
  <2>1. x \in [1..Len(shut) -> ToMsg]
    BY <1>4, Zenon
  <2> HIDE DEF x
  <2> QED BY <1>3, <2>1, Tabled
<1> HIDE DEF x
<1>6. o \in Seq(ToMsg)
  BY <1>1, <1>5, Joined
<1> HIDE DEF o
<1>7. Remain(C, D) /\ D \in SUBSET ShareChannel
  <2>1. \A r : r \in D <=> \E c \in C : c.st # "RCVD_CLOSE" /\ r = IF c.st = "OPEN" THEN [c EXCEPT !.st = "SENT_CLOSE"] ELSE c
    BY <1>a, <1>b
  <2>2. \A c \in C : Shut(c) \in ShareChannel /\ Shut(c) = IF c.st = "OPEN" THEN [c EXCEPT !.st = "SENT_CLOSE"] ELSE c
    BY <1>1, ShutIs
  <2> DEFINE A(c) == IF c.st = "OPEN" THEN [c EXCEPT !.st = "SENT_CLOSE"] ELSE c
  <2>a. \A r : r \in D <=> \E c \in C : c.st # "RCVD_CLOSE" /\ r = A(c)
    BY <2>1
  <2>b. \A c \in C : Shut(c) = A(c)
    BY <2>2
  <2> HIDE DEF A
  <2>3. \A r : r \in D <=> \E c \in C : c.st # "RCVD_CLOSE" /\ r = Shut(c)
    BY <2>a, <2>b
  <2>4. D \subseteq ShareChannel
    BY <2>2, <2>3, Zenon
  <2> QED BY <2>3, <2>4 DEF Remain
<1>8. own2 \in [UpIds -> Opt(Downs)] /\ Frees(u.chan, own2, C)
  BY <1>1, <1>a, <1>c DEF Frees, Opt
<1>9. IsUp(v1, u.cs, u.chan, u.rpf, u.globreq, u.drained, o, u.fault)
  BY <1>6, UpParts, PutOut
<1> HIDE DEF v1
<1>10. v1 \in Upstream /\ v1.cs = u.cs /\ v1.chan = u.chan /\ v1.rpf = u.rpf /\ v1.globreq = u.globreq
      /\ v1.drained = u.drained /\ v1.out = o /\ v1.fault = u.fault
  BY <1>9 DEF IsUp
<1>11. /\ IsUp(v2, v2.cs, u.chan, u.rpf, u.globreq, u.drained, o, u.fault)
       /\ Moves(u.cs, v2.cs, d)
       /\ IsConn(v2.cs[d], u.cs[d].st, u.cs[d].half, D, u.cs[d].fwds, u.cs[d].globreq_head)
  <2>1. /\ IsUp(v2, v2.cs, v1.chan, v1.rpf, v1.globreq, v1.drained, v1.out, v1.fault)
        /\ Moves(v1.cs, v2.cs, d)
        /\ IsConn(v2.cs[d], v1.cs[d].st, v1.cs[d].half, D, v1.cs[d].fwds, v1.cs[d].globreq_head)
    BY <1>7, <1>10, PutChans
  <2> QED BY <1>10, <2>1
<1> HIDE DEF v2
<1>12. IsUp(v, v2.cs, own2, u.rpf, u.globreq, u.drained, o, u.fault)
  BY <1>0, <1>8, <1>11, PutChan
<1>13. v.cs = v2.cs /\ v.chan = own2
  BY <1>12 DEF IsUp
<1>14. v.cs[d].chans = D
  BY <1>11, <1>13 DEF IsConn
<1>15. Closes(x, d, C)
  <2>1. \A k \in 1..Len(x) : x[k].t = "close" /\ x[k].d = d
    BY <1>4, <1>5
  <2>2. \A k \in 1..Len(x) : shut[k] \in C /\ shut[k].st \in Shutting /\ x[k].us = shut[k].us /\ x[k].sid = shut[k].sid
    BY <1>2, <1>3, <1>4, <1>5
  <2>3. \A c \in C : c.st \in Shutting => \E k \in 1..Len(x) : x[k].us = c.us /\ x[k].sid = c.sid
    BY <1>2, <1>3, <1>4, <1>5
  <2>4. \A j, k \in 1..Len(x) : x[j].us = x[k].us => j = k
    BY <2>2, <1>d, <1>3, <1>5
  <2> QED BY <2>1, <2>2, <2>3, <2>4 DEF Closes
<1> QED BY <1>5, <1>7, <1>8, <1>11, <1>12, <1>13, <1>14, <1>15 DEF o, C

\* The records of a downstream are finitely many, one for each channel.
LEMMA FiniteChans ==
  ASSUME NEW cs, NEW own, NEW w, NEW f, NEW sc, Channels(cs, own, w, f, sc), NEW d \in Downs
  PROVE  IsFiniteSet(cs[d].chans) /\ \A b, c \in cs[d].chans : b.us = c.us => b = c
<1>1. PICK st, sid : \E bt, bf \in Int :
         Linked(cs, own, st, sid) /\ Numbers(own, st, sid, w, bt, f, bf, sc)
  BY DEF Channels
<1>2. Linked(cs, own, st, sid)
  BY <1>1
<1> DEFINE g == [u \in UpIds |-> Rec(st, sid, u)]
           R == {g[u] : u \in UpIds}
<1>3. g \in Surjection(UpIds, R)
  BY DEF Surjection
<1>4. IsFiniteSet(R)
  BY <1>3, FiniteIds, FS_Surjection
<1>5. \A c \in cs[d].chans : c.us \in UpIds /\ c = Rec(st, sid, c.us)
  BY <1>2, Finds
<1>6. cs[d].chans \subseteq R
  BY <1>5
<1> HIDE DEF R, g
<1>7. \A b, c \in cs[d].chans : b.us = c.us => b = c
  BY <1>5
<1> QED BY <1>4, <1>6, <1>7, FS_Subset

\* Closing the channels keeps the invariant of each number.
LEMMA ClosesKeep ==
  ASSUME NEW cs, NEW own, NEW w \in Seq(ToMsg), NEW f \in Seq(FromMsg), NEW sc, Channels(cs, own, w, f, sc),
         NEW d \in Downs, NEW cs2, NEW own2, NEW x \in Seq(ToMsg),
         own2 \in [UpIds -> Opt(Downs)],
         Moves(cs, cs2, d), cs[d].chans \subseteq ShareChannel,
         Closes(x, d, cs[d].chans), Remain(cs[d].chans, cs2[d].chans), Frees(own, own2, cs[d].chans)
  PROVE  Channels(cs2, own2, w \o x, f, sc)
<1>1. PICK st, sid : \E bt, bf \in Int :
         Linked(cs, own, st, sid) /\ Numbers(own, st, sid, w, bt, f, bf, sc)
  BY DEF Channels
<1>2. PICK bt \in Int, bf \in Int :
         Linked(cs, own, st, sid) /\ Numbers(own, st, sid, w, bt, f, bf, sc)
  BY <1>1
<1>3. /\ own \in [UpIds -> Opt(Downs)]
      /\ st \in [UpIds -> ChanStates \cup {"FREE"}] /\ sid \in [UpIds -> Opt(SrvIds)]
      /\ \A u \in UpIds : own[u] = None <=> st[u] = "FREE"
      /\ \A u \in UpIds : sid[u] \in SrvIds <=> st[u] \in Numbered
      /\ \A u \in UpIds : own[u] # None => Rec(st, sid, u) \in cs[own[u]].chans
  BY <1>2 DEF Linked
<1> DEFINE C == cs[d].chans
           S(u) == IF own[u] = d /\ st[u] = "OPEN" THEN "SENT_CLOSE"
                   ELSE IF own[u] = d /\ st[u] = "RCVD_CLOSE" THEN "FREE" ELSE st[u]
           I(u) == IF own[u] = d /\ st[u] = "RCVD_CLOSE" THEN None ELSE sid[u]
           st2 == [u \in UpIds |-> S(u)]
           sid2 == [u \in UpIds |-> I(u)]
<1>4. /\ \A c \in C : c.us \in UpIds /\ own[c.us] = d /\ c.st = st[c.us] /\ c.sid = sid[c.us] /\ c = Rec(st, sid, c.us)
      /\ \A b, c \in C : b.us = c.us => b = c
  BY <1>2, Finds
<1>5. \A u \in UpIds : own[u] = d => Rec(st, sid, u) \in C /\ Rec(st, sid, u).us = u /\ Rec(st, sid, u).st = st[u] /\ Rec(st, sid, u).sid = sid[u]
  BY <1>3, ConstAssumption DEF Rec
<1>6. \A u \in UpIds : own2[u] = IF own[u] = d /\ st[u] = "RCVD_CLOSE" THEN None ELSE own[u]
  BY <1>4, <1>5 DEF Frees
<1>7. ASSUME NEW u \in UpIds
      PROVE  /\ own[u] = d /\ st[u] = "OPEN" => own2[u] = d /\ S(u) = "SENT_CLOSE" /\ I(u) = sid[u]
             /\ own[u] = d /\ st[u] = "RCVD_CLOSE" => own2[u] = None /\ S(u) = "FREE" /\ I(u) = None
             /\ ~(own[u] = d /\ st[u] \in Shutting) => own2[u] = own[u] /\ S(u) = st[u] /\ I(u) = sid[u]
  BY <1>6, <1>7 DEF Shutting
<1>8. \A u \in UpIds : st2[u] = S(u) /\ sid2[u] = I(u)
  OBVIOUS
<1>9. /\ \A u \in UpIds : S(u) \in ChanStates \cup {"FREE"} /\ I(u) \in Opt(SrvIds)
      /\ None \notin SrvIds /\ d # None
  BY <1>3, ConstAssumption DEF ChanStates, Opt, SrvIds
<1>10. st2 \in [UpIds -> ChanStates \cup {"FREE"}] /\ sid2 \in [UpIds -> Opt(SrvIds)]
  BY <1>9
<1> HIDE DEF S, I, st2, sid2
<1>11. \A u \in UpIds : (own2[u] = None <=> st2[u] = "FREE") /\ (sid2[u] \in SrvIds <=> st2[u] \in Numbered)
  <2> SUFFICES ASSUME NEW u \in UpIds
               PROVE  (own2[u] = None <=> st2[u] = "FREE") /\ (sid2[u] \in SrvIds <=> st2[u] \in Numbered)
    OBVIOUS
  <2>1. CASE own[u] = d /\ st[u] = "OPEN"
    BY <1>3, <1>7, <1>8, <1>9, <2>1 DEF Numbered
  <2>2. CASE own[u] = d /\ st[u] = "RCVD_CLOSE"
    BY <1>3, <1>7, <1>8, <1>9, <2>2 DEF Numbered
  <2>3. CASE ~(own[u] = d /\ st[u] \in Shutting)
    BY <1>3, <1>7, <1>8, <1>9, <2>3
  <2> QED BY <2>1, <2>2, <2>3 DEF Shutting
<1>12. ASSUME NEW c \in C, c.st # "RCVD_CLOSE"
       PROVE  Shut(c).us = c.us /\ own2[c.us] = d /\ Shut(c) = Rec(st2, sid2, c.us)
  <2>1. c \in ShareChannel /\ c.us \in UpIds /\ own[c.us] = d /\ c.st = st[c.us] /\ c.sid = sid[c.us]
    BY <1>4
  <2>2. Shut(c).us = c.us
    BY <2>1, ShutIs
  <2>3. CASE c.st = "OPEN"
    BY <1>7, <1>8, <2>1, <2>2, <2>3 DEF Shut, Rec
  <2>4. CASE c.st # "OPEN"
    <3>1. own2[c.us] = d /\ st2[c.us] = st[c.us] /\ sid2[c.us] = sid[c.us]
      BY <1>7, <1>8, <1>12, <2>1, <2>4 DEF Shutting
    <3>2. Shut(c) = c
      BY <2>4 DEF Shut
    <3> QED BY <1>4, <2>2, <3>1, <3>2 DEF Rec
  <2> QED BY <2>3, <2>4
<1>13. ASSUME NEW e \in Downs, NEW r \in cs2[e].chans
       PROVE  r.us \in UpIds /\ own2[r.us] = e /\ r = Rec(st2, sid2, r.us)
  <2>1. CASE e = d
    <3>1. PICK c \in C : c.st # "RCVD_CLOSE" /\ r = Shut(c)
      BY <1>13, <2>1 DEF Remain
    <3> QED BY <1>4, <1>12, <2>1, <3>1
  <2>2. CASE e # d
    <3>1. r \in cs[e].chans
      BY <1>13, <2>2 DEF Moves
    <3>2. r.us \in UpIds /\ own[r.us] = e /\ r = Rec(st, sid, r.us)
      BY <1>2, <3>1, Finds
    <3>3. own2[r.us] = own[r.us] /\ st2[r.us] = st[r.us] /\ sid2[r.us] = sid[r.us]
      BY <1>7, <1>8, <2>2, <3>2
    <3> QED BY <3>2, <3>3 DEF Rec
  <2> QED BY <2>1, <2>2
<1>14. ASSUME NEW u \in UpIds, own2[u] # None
       PROVE  Rec(st2, sid2, u) \in cs2[own2[u]].chans
  <2>1. CASE own[u] = d
    <3> DEFINE c == Rec(st, sid, u)
    <3>1. c \in C /\ c.us = u /\ c.st = st[u]
      BY <1>5, <2>1
    <3>2. st[u] # "RCVD_CLOSE" /\ own2[u] = d
      BY <1>6, <1>14, <2>1
    <3> HIDE DEF c
    <3>3. Shut(c) = Rec(st2, sid2, u) /\ Shut(c) \in cs2[d].chans
      BY <1>12, <3>1, <3>2 DEF Remain
    <3> QED BY <3>2, <3>3
  <2>2. CASE own[u] # d
    <3>1. own2[u] = own[u] /\ st2[u] = st[u] /\ sid2[u] = sid[u]
      BY <1>7, <1>8, <2>2
    <3>2. own[u] \in Downs /\ Rec(st, sid, u) \in cs[own[u]].chans
      BY <1>3, <1>14, <3>1 DEF Opt
    <3>4. cs2[own[u]] = cs[own[u]]
      BY <2>2, <3>2 DEF Moves
    <3>3. Rec(st2, sid2, u) = Rec(st, sid, u)
      BY <3>1 DEF Rec
    <3> QED BY <3>1, <3>2, <3>3, <3>4
  <2> QED BY <2>1, <2>2
<1>15. Linked(cs2, own2, st2, sid2)
  BY <1>10, <1>11, <1>13, <1>14 DEF Linked
<1>16. ASSUME NEW u \in UpIds
       PROVE  UInv(u, own2[u], st2[u], sid2[u], Wire(w \o x, bt, ToOf(u)), Wire(f, bf, FromOf(u)), sc)
  <2> DEFINE T == Wire(w, bt, ToOf(u))
             F == Wire(f, bf, FromOf(u))
             T2 == Wire(w \o x, bt, ToOf(u))
  <2>1. UInv(u, own[u], st[u], sid[u], T, F, sc)
    BY <1>2 DEF Numbers
  <2>2. ASSUME own[u] = d, st[u] \in Shutting
        PROVE  \E y : Added(T, y, T2) /\ y.m.t = "close" /\ y.m.sid = sid[u] /\ y.m.d = d
    <3> DEFINE c == Rec(st, sid, u)
    <3>1. c \in C /\ c.us = u /\ c.st \in Shutting /\ c.sid = sid[u]
      BY <1>5, <2>2
    <3> HIDE DEF c, C
    <3>2. PICK k \in 1..Len(x) : x[k].us = u /\ x[k].sid = sid[u]
      BY <3>1 DEF Closes, C
    <3>3. x[k] \in ToOf(u) /\ x[k].t = "close" /\ x[k].d = d
      BY <3>2 DEF Closes, ToOf
    <3>4. \A j \in 1..Len(x) : x[j] \in ToOf(u) => j = k
      BY <3>2 DEF Closes, ToOf
    <3>5. \E y : y.m = x[k] /\ Added(T, y, T2)
      BY <3>3, <3>4, AddOne
    <3> QED BY <3>2, <3>3, <3>5
  <2>3. ASSUME ~(own[u] = d /\ st[u] \in Shutting) PROVE T2 = T
    <3>1. \A k \in 1..Len(x) : x[k] \notin ToOf(u)
      <4> SUFFICES ASSUME NEW k \in 1..Len(x), x[k].us = u PROVE FALSE
        BY DEF ToOf
      <4>1. PICK c \in C : c.st \in Shutting /\ x[k].us = c.us
        BY DEF Closes
      <4> QED BY <1>4, <2>3, <4>1
    <3> QED BY <3>1, AddNone
  <2> HIDE DEF T, F, T2
  <2>4. CASE own[u] = d /\ st[u] = "OPEN"
    <3>1. PICK y : Added(T, y, T2) /\ y.m.t = "close" /\ y.m.sid = sid[u] /\ y.m.d = d
      BY <2>2, <2>4 DEF Shutting
    <3>2. UInv(u, own[u], "SENT_CLOSE", sid[u], T2, F, sc)
      BY <2>1, <2>4, <3>1, SendsClose
    <3>3. own2[u] = own[u] /\ st2[u] = "SENT_CLOSE" /\ sid2[u] = sid[u]
      BY <1>7, <1>8, <2>4
    <3> QED BY <3>2, <3>3 DEF T2, F
  <2>5. CASE own[u] = d /\ st[u] = "RCVD_CLOSE"
    <3>1. PICK y : Added(T, y, T2) /\ y.m.t = "close" /\ y.m.sid = sid[u] /\ y.m.d = d
      BY <2>2, <2>5 DEF Shutting
    <3>2. UInv(u, None, "FREE", None, T2, F, sc)
      BY <2>1, <2>5, <3>1, AnswersClose
    <3>3. own2[u] = None /\ st2[u] = "FREE" /\ sid2[u] = None
      BY <1>7, <1>8, <2>5
    <3> QED BY <3>2, <3>3 DEF T2, F
  <2>6. CASE ~(own[u] = d /\ st[u] \in Shutting)
    BY <1>7, <1>8, <2>1, <2>3, <2>6 DEF T2, F
  <2> QED BY <2>4, <2>5, <2>6 DEF Shutting
<1> QED BY <1>15, <1>16 DEF Channels, Numbers

\* Closing the channels keeps the invariants, and leaves only channels that
\* wait for the server.
LEMMA ChanSound ==
  ASSUME NEW u, NEW ts \in Seq(ToMsg), NEW f \in Seq(FromMsg), NEW s, Sound(u, ts, f, s),
         NEW d \in Downs, u.cs[d].st = "dead", NEW v, v = CleanChan(u, d)
  PROVE  /\ Sound(v, ts, f, s)
         /\ \A gq : SoundPorts(u, gq, ts, f, s) => SoundPorts(v, gq, ts, f, s)
         /\ IsUp(v, v.cs, v.chan, v.rpf, u.globreq, u.drained, v.out, u.fault)
         /\ IsConn(v.cs[d], "dead", u.cs[d].half, v.cs[d].chans, v.cs[d].fwds, u.cs[d].globreq_head)
         /\ Moves(u.cs, v.cs, d)
         /\ \A c \in v.cs[d].chans : c.st \in {"UNACKNOWLEDGED", "SENT_CLOSE"}
<1>0. u \in Upstream /\ GoodChan(u, ts \o u.out, f, s)
  BY DEF Sound
<1> DEFINE C == u.cs[d].chans
<1>1. IsFiniteSet(C) /\ (\A b, c \in C : b.us = c.us => b = c) /\ C \subseteq ShareChannel
  <2>1. IsFiniteSet(C) /\ \A b, c \in C : b.us = c.us => b = c
    BY <1>0, FiniteChans DEF GoodChan
  <2>2. C \subseteq ShareChannel
    BY <1>0, UpParts
  <2> QED BY <2>1, <2>2
<1>2. PICK x \in Seq(ToMsg) :
           /\ IsUp(v, v.cs, v.chan, u.rpf, u.globreq, u.drained, u.out \o x, u.fault)
           /\ Moves(u.cs, v.cs, d)
           /\ IsConn(v.cs[d], u.cs[d].st, u.cs[d].half, v.cs[d].chans, u.cs[d].fwds, u.cs[d].globreq_head)
           /\ Closes(x, d, C)
           /\ Remain(C, v.cs[d].chans)
           /\ Frees(u.chan, v.chan, C)
  BY <1>0, <1>1, ChanCleaned
<1>3. /\ v \in Upstream /\ v.rpf = u.rpf /\ v.out = u.out \o x
      /\ v.cs[d].st = "dead" /\ v.cs[d].half = u.cs[d].half
      /\ v.cs[d].fwds = u.cs[d].fwds /\ v.cs[d].globreq_head = u.cs[d].globreq_head
      /\ \A e \in Downs : e # d => v.cs[e] = u.cs[e]
  BY <1>2 DEF IsUp, IsConn, Moves
<1>4. \A k \in 1..Len(x) : x[k].t \in AboutChannel
  BY <1>2 DEF Closes, AboutChannel
<1> HIDE DEF C
<1> DEFINE w == ts \o u.out
           w2 == ts \o v.out
<1>5. w \in Seq(ToMsg) /\ w2 = w \o x
  <2> DEFINE a1 == u.out
             b1 == v.out
  <2>1. a1 \in Seq(ToMsg) /\ b1 = a1 \o x
    BY <1>0, <1>3, UpParts
  <2> HIDE DEF a1, b1
  <2>2. ts \o a1 \in Seq(ToMsg) /\ ts \o b1 = (ts \o a1) \o x
    BY <2>1, Longer
  <2> QED BY <2>2 DEF a1, b1
<1>6. Channels(u.cs, u.chan, w, f, s.ch) /\ Structs(u.cs, u.rpf) /\ Announced(u.cs, w, f, s.ch)
  BY <1>0 DEF GoodChan
<1> HIDE DEF w, w2
<1>7. Channels(v.cs, v.chan, w2, f, s.ch)
  <2>1. v.chan \in [UpIds -> Opt(Downs)]
    BY <1>3, UpParts
  <2>2. Channels(v.cs, v.chan, w \o x, f, s.ch)
    <3>1. /\ Channels(u.cs, u.chan, w, f, s.ch) /\ w \in Seq(ToMsg)
          /\ Moves(u.cs, v.cs, d) /\ u.cs[d].chans \subseteq ShareChannel
          /\ Closes(x, d, u.cs[d].chans) /\ Remain(u.cs[d].chans, v.cs[d].chans)
          /\ Frees(u.chan, v.chan, u.cs[d].chans)
      BY <1>1, <1>2, <1>5, <1>6 DEF C
    <3> QED BY <2>1, <3>1, ClosesKeep
  <2> QED BY <1>5, <2>2
<1>8. Structs(v.cs, v.rpf)
  <2> SUFFICES ASSUME NEW e \in Downs
               PROVE  /\ v.cs[e].st \in {"none", "freed"} => v.cs[e].chans = {} /\ v.cs[e].half = {}
                      /\ v.cs[e].st = "none" => \A p \in Ports : v.rpf[p] # e
    BY DEF Structs
  <2>1. /\ u.cs[e].st \in {"none", "freed"} => u.cs[e].chans = {} /\ u.cs[e].half = {}
        /\ u.cs[e].st = "none" => \A p \in Ports : u.rpf[p] # e
    BY <1>6 DEF Structs
  <2>3. CASE e = d
    BY <1>3, <2>3
  <2>4. CASE e # d
    BY <1>3, <2>1, <2>4
  <2> QED BY <2>3, <2>4
<1>9. Announced(v.cs, w2, f, s.ch)
  <2> SUFFICES ASSUME NEW i \in SrvIds, s.ch[i].st = "opening"
               PROVE  Answers(w2, i) \/ Calls(f, i) \/ \E e \in Downs : i \in v.cs[e].half
    BY Announcing
  <2>1. Answers(w, i) \/ Calls(f, i) \/ \E e \in Downs : i \in u.cs[e].half
    BY <1>6, Announcing
  <2>2. Answers(w, i) => Answers(w2, i)
    BY <1>5, Answered
  <2>3. \A e \in Downs : v.cs[e].half = u.cs[e].half
    BY <1>3
  <2> QED BY <2>1, <2>2, <2>3
<1>10. ASSUME NEW gq, SoundPorts(u, gq, ts, f, s)
      PROVE  SoundPorts(v, gq, ts, f, s)
  <2>1. StateP(u.cs)
    <3>1. Forwardings(u.cs, u.rpf, gq, ts \o u.out, f, s.fwd)
      BY <1>10 DEF SoundPorts
    <3> QED BY <3>1, PortFacts
  <2>2. \A p \in Ports : ~Waits(u.cs[d], "cancel", p)
    BY <2>1 DEF StateP
  <2> QED
    <3>1. PortsAlone(u, v, d, x)
      BY <1>2, <1>3, <1>4, <2>2 DEF PortsAlone
    <3>2. Moves(u.cs, v.cs, d) /\ x \in Seq(ToMsg)
      BY <1>2, <1>3
    <3> QED BY <1>0, <1>2, <1>10, <3>1, <3>2, PortsSame
<1>11. /\ IsUp(v, v.cs, v.chan, v.rpf, u.globreq, u.drained, v.out, u.fault)
       /\ IsConn(v.cs[d], "dead", u.cs[d].half, v.cs[d].chans, v.cs[d].fwds, u.cs[d].globreq_head)
  BY <1>2, <1>3
<1>12. ASSUME NEW r \in v.cs[d].chans PROVE r.st \in {"UNACKNOWLEDGED", "SENT_CLOSE"}
  <2>1. PICK c \in C : c.st # "RCVD_CLOSE" /\ r = Shut(c)
    BY <1>2, <1>12 DEF Remain
  <2> QED BY <1>1, <2>1, ShutIs DEF ChanStates
<1>13. Sound(v, ts, f, s)
  BY <1>3, <1>7, <1>8, <1>9 DEF Sound, GoodChan, w2
<1> QED BY <1>2, <1>10, <1>11, <1>12, <1>13

\* CleanFwd cancels every active forwarding of d, once, and changes nothing
\* else.
LEMMA FwdCleaned ==
  ASSUME NEW u \in Upstream, NEW d \in Downs, NEW v, v = CleanFwd(u, d)
  PROVE  \E x \in Seq(ToMsg) :
           /\ IsUp(v, v.cs, u.chan, v.rpf, u.globreq, u.drained, u.out \o x, v.fault)
           /\ Moves(u.cs, v.cs, d)
           /\ IsConn(v.cs[d], u.cs[d].st, u.cs[d].half, u.cs[d].chans, v.cs[d].fwds, u.cs[d].globreq_head)
           /\ Cancels(x, d, Active(u.cs[d]))
           /\ \A p \in Ports : p \notin Active(u.cs[d]) =>
                v.cs[d].fwds[p] = u.cs[d].fwds[p] /\ v.rpf[p] = u.rpf[p]
           /\ \A p \in Active(u.cs[d]) :
                v.cs[d].fwds[p].st = "none" /\ ~v.cs[d].fwds[p].rpf /\ v.rpf[p] = None
           /\ (\A p \in Active(u.cs[d]) : u.cs[d].fwds[p].rpf) => v.fault = u.fault
           /\ u.fault # "none" => v.fault = u.fault
<1> DEFINE fw == u.cs[d].fwds
           P == {p \in Ports : fw[p].st = "active"}
           ps == SetToSeq(P)
           x == [i \in 1..Len(ps) |-> [Msg("cancel", d) EXCEPT !.p = ps[i]]]
           t == IF \E p \in P : ~fw[p].rpf THEN Fault(u, "rpf") ELSE u
           o == u.out \o x
           r == [p \in Ports |-> IF p \in P THEN None ELSE u.rpf[p]]
           fw2 == [p \in Ports |-> IF p \in P THEN Fwd0 ELSE fw[p]]
           v1 == [t EXCEPT !.out = o]
           v2 == [v1 EXCEPT !.rpf = r]
<1>1. /\ fw \in [Ports -> ShareForwarding] /\ u.out \in Seq(ToMsg) /\ u.rpf \in [Ports -> Opt(Downs)]
  BY UpParts
<1>2. P = Active(u.cs[d]) /\ P \subseteq Ports
  BY DEF Active
<1>3. IsUp(t, u.cs, u.chan, u.rpf, u.globreq, u.drained, u.out, t.fault)
  BY FaultIs, UpParts DEF Faults
<1>4. /\ (\A p \in P : fw[p].rpf) => t.fault = u.fault
      /\ u.fault # "none" => t.fault = u.fault
  <2>1. "rpf" \in Faults
    BY DEF Faults
  <2> QED BY <2>1, FaultIs
<1>5. t.out = u.out /\ t.rpf = u.rpf /\ t.cs = u.cs
  BY <1>3 DEF IsUp
<1> HIDE DEF t
<1>0. v = [v2 EXCEPT !.cs[d].fwds = fw2]
  <2>1. v = [t EXCEPT !.out = t.out \o x, !.rpf = [p \in Ports |-> IF p \in P THEN None ELSE t.rpf[p]],
                      !.cs[d].fwds = [p \in Ports |-> IF p \in P THEN Fwd0 ELSE t.cs[d].fwds[p]]]
    BY DEF CleanFwd, t
  <2>2. v = [t EXCEPT !.out = o, !.rpf = r, !.cs[d].fwds = fw2]
    BY <1>5, <2>1
  <2> HIDE DEF x, o, r, fw2
  <2> QED BY <2>2
<1>6. IsFiniteSet(P)
  BY <1>2, ConstAssumption, FS_Subset
<1>7. r \in [Ports -> Opt(Downs)] /\ fw2 \in [Ports -> ShareForwarding]
  BY <1>1, Forwardings0 DEF Opt
<1>8. \A p \in Ports : p \notin P => fw2[p] = fw[p] /\ r[p] = u.rpf[p]
  OBVIOUS
<1>9. \A p \in P : fw2[p].st = "none" /\ ~fw2[p].rpf /\ r[p] = None
  BY Forwardings0
<1> HIDE DEF fw, P, r, fw2
<1>10. /\ ps \in Seq(P) /\ Len(ps) \in Nat
       /\ \A p \in P : \E k \in 1..Len(ps) : ps[k] = p
       /\ \A j, k \in 1..Len(ps) : ps[j] = ps[k] => j = k
  <2>1. /\ ps \in Seq(P) /\ \A p \in P : \E k \in 1..Len(ps) : ps[k] = p
        /\ \A j, k \in 1..Len(ps) : ps[j] = ps[k] => j = k
    BY <1>6, Listing
  <2> HIDE DEF ps
  <2> QED BY <2>1
<1> HIDE DEF ps
<1>11. ASSUME NEW i \in 1..Len(ps)
       PROVE  x[i] \in ToMsg /\ x[i].t = "cancel" /\ x[i].p = ps[i] /\ x[i].d = d /\ ~x[i].wr /\ ps[i] \in P
  <2>1. ps[i] \in P /\ ps[i] \in Ports
    BY <1>2, <1>10
  <2> DEFINE y == [Msg("cancel", d) EXCEPT !.p = ps[i]]
  <2>2. y \in ToMsg /\ Fields(y, "cancel", d, None, None, ps[i]) /\ ~y.wr
    BY <2>1, CancelTo
  <2>3. x[i] = y
    OBVIOUS
  <2> HIDE DEF x, y
  <2> QED BY <2>1, <2>2, <2>3 DEF Fields
<1>12. x \in Seq(ToMsg) /\ Len(x) = Len(ps)
  <2>1. x \in [1..Len(ps) -> ToMsg]
    BY <1>11, Zenon
  <2> HIDE DEF x
  <2> QED BY <1>10, <2>1, Tabled
<1> HIDE DEF x
<1>13. o \in Seq(ToMsg)
  BY <1>1, <1>12, Joined
<1> HIDE DEF o
<1>14. IsUp(v1, u.cs, u.chan, u.rpf, u.globreq, u.drained, o, t.fault)
  BY <1>3, <1>13, PutOut
<1> HIDE DEF v1
<1>15. IsUp(v2, u.cs, u.chan, r, u.globreq, u.drained, o, t.fault)
  BY <1>7, <1>14, PutRpf
<1> HIDE DEF v2
<1>16. v2 \in Upstream /\ v2.cs = u.cs /\ v2.chan = u.chan /\ v2.rpf = r /\ v2.globreq = u.globreq
      /\ v2.drained = u.drained /\ v2.out = o /\ v2.fault = t.fault
  BY <1>15 DEF IsUp
<1>17. /\ IsUp(v, v.cs, u.chan, r, u.globreq, u.drained, o, t.fault)
       /\ Moves(u.cs, v.cs, d)
       /\ IsConn(v.cs[d], u.cs[d].st, u.cs[d].half, u.cs[d].chans, fw2, u.cs[d].globreq_head)
  <2>1. /\ IsUp(v, v.cs, v2.chan, v2.rpf, v2.globreq, v2.drained, v2.out, v2.fault)
        /\ Moves(v2.cs, v.cs, d)
        /\ IsConn(v.cs[d], v2.cs[d].st, v2.cs[d].half, v2.cs[d].chans, fw2, v2.cs[d].globreq_head)
    BY <1>0, <1>7, <1>16, PutFwds
  <2> QED BY <1>16, <2>1
<1>18. v.rpf = r /\ v.fault = t.fault /\ v.cs[d].fwds = fw2
  BY <1>17 DEF IsUp, IsConn
<1>19. Cancels(x, d, P)
  <2>1. \A k \in 1..Len(x) : x[k].t = "cancel" /\ x[k].d = d /\ x[k].p \in P /\ ~x[k].wr /\ x[k].p = ps[k]
    BY <1>11, <1>12
  <2>2. \A p \in P : \E k \in 1..Len(x) : x[k].p = p
    BY <1>10, <1>12, <2>1
  <2>3. \A j, k \in 1..Len(x) : x[j].p = x[k].p => j = k
    BY <1>10, <1>12, <2>1
  <2> QED BY <2>1, <2>2, <2>3 DEF Cancels
<1>20. /\ \A p \in Ports : p \notin P => v.cs[d].fwds[p] = u.cs[d].fwds[p] /\ v.rpf[p] = u.rpf[p]
       /\ \A p \in P : v.cs[d].fwds[p].st = "none" /\ ~v.cs[d].fwds[p].rpf /\ v.rpf[p] = None
  BY <1>8, <1>9, <1>18 DEF fw
<1>21. /\ (\A p \in P : u.cs[d].fwds[p].rpf) => v.fault = u.fault
       /\ u.fault # "none" => v.fault = u.fault
  BY <1>4, <1>18 DEF fw
<1>22. /\ IsUp(v, v.cs, u.chan, v.rpf, u.globreq, u.drained, u.out \o x, v.fault)
       /\ IsConn(v.cs[d], u.cs[d].st, u.cs[d].half, u.cs[d].chans, v.cs[d].fwds, u.cs[d].globreq_head)
  BY <1>17, <1>18 DEF o
<1> QED BY <1>2, <1>12, <1>17, <1>19, <1>20, <1>21, <1>22

\* That is what CleanFwd does.
LEMMA FwdSound ==
  ASSUME NEW u, NEW ts \in Seq(ToMsg), NEW f \in Seq(FromMsg), NEW s, Sound(u, ts, f, s),
         NEW d \in Downs, u.cs[d].st = "dead", NEW v, v = CleanFwd(u, d)
  PROVE  NoPorts(u, v, d, ts, f, s)
<1>0. u \in Upstream
  BY DEF Sound
<1>1. PICK x \in Seq(ToMsg) :
           /\ IsUp(v, v.cs, u.chan, v.rpf, u.globreq, u.drained, u.out \o x, v.fault)
           /\ Moves(u.cs, v.cs, d)
           /\ IsConn(v.cs[d], u.cs[d].st, u.cs[d].half, u.cs[d].chans, v.cs[d].fwds, u.cs[d].globreq_head)
           /\ Cancels(x, d, Active(u.cs[d]))
           /\ \A p \in Ports : p \notin Active(u.cs[d]) =>
                v.cs[d].fwds[p] = u.cs[d].fwds[p] /\ v.rpf[p] = u.rpf[p]
           /\ \A p \in Active(u.cs[d]) :
                v.cs[d].fwds[p].st = "none" /\ ~v.cs[d].fwds[p].rpf /\ v.rpf[p] = None
           /\ (\A p \in Active(u.cs[d]) : u.cs[d].fwds[p].rpf) => v.fault = u.fault
           /\ u.fault # "none" => v.fault = u.fault
  BY <1>0, FwdCleaned
<1>2. /\ v \in Upstream /\ v.chan = u.chan /\ v.out = u.out \o x
      /\ v.cs[d].st = "dead" /\ v.cs[d].half = u.cs[d].half /\ v.cs[d].chans = u.cs[d].chans
      /\ v.cs[d].globreq_head = u.cs[d].globreq_head
  BY <1>1 DEF IsUp, IsConn
<1>3. \A k \in 1..Len(x) : x[k].t \in AboutPort
  BY <1>1 DEF Cancels, AboutPort
<1>4. \A p \in Ports : p \in Active(u.cs[d]) <=> u.cs[d].fwds[p].st = "active"
  BY DEF Active
<1>5. Sound(v, ts, f, s)
  <2> DEFINE r == v.rpf
  <2>1. IsUp(v, v.cs, u.chan, r, u.globreq, u.drained, u.out \o x, v.fault)
    BY <1>1
  <2>2. \A p \in Ports : r[p] = u.rpf[p] \/ r[p] = None
    BY <1>1
  <2> HIDE DEF r
  <2>3. StructOnly(u, v, d, x, r)
    BY <1>2, <1>3, <2>2 DEF StructOnly
  <2>4. Moves(u.cs, v.cs, d) /\ x \in Seq(ToMsg)
    BY <1>1
  <2> QED BY <2>1, <2>3, <2>4, StructKept
<1>6. \A p \in Ports : v.cs[d].fwds[p].st # "active"
  BY <1>1, <1>4
<1>7. ASSUME NEW gq, SoundPorts(u, gq, ts, f, s)
      PROVE  SoundPorts(v, gq, ts, f, s) /\ v.fault = u.fault
  <2> DEFINE w == ts \o u.out
             w2 == ts \o v.out
  <2>1. w \in Seq(ToMsg) /\ w2 = w \o x
    <3> DEFINE a1 == u.out
               b1 == v.out
    <3>1. a1 \in Seq(ToMsg) /\ b1 = a1 \o x
      BY <1>0, <1>2, UpParts
    <3> HIDE DEF a1, b1
    <3>2. ts \o a1 \in Seq(ToMsg) /\ ts \o b1 = (ts \o a1) \o x
      BY <3>1, Longer
    <3> QED BY <3>2 DEF a1, b1
  <2>2. Forwardings(u.cs, u.rpf, gq, w, f, s.fwd)
    BY <1>7 DEF SoundPorts
  <2> HIDE DEF w, w2
  <2>3. FwdP(u.cs, u.rpf) /\ StateP(u.cs)
    BY <2>2, PortFacts
  <2>4. \A p \in Ports : ~Waits(u.cs[d], "cancel", p)
    BY <2>3 DEF StateP
  <2>5. \A p \in Active(u.cs[d]) : u.cs[d].fwds[p].rpf
    BY <2>3, <2>4 DEF FwdP, FwdPq, Active
  <2>6. /\ \A k \in 1..Len(x) : /\ x[k].t = "cancel" /\ x[k].d = d /\ x[k].p \in Ports /\ ~x[k].wr
                                /\ u.cs[d].fwds[x[k].p].st = "active"
        /\ \A p \in Ports : u.cs[d].fwds[p].st = "active" => \E k \in 1..Len(x) : x[k].p = p
        /\ \A j, k \in 1..Len(x) : x[j].p = x[k].p => j = k
    BY <1>1 DEF Cancels, Active
  <2>7. /\ \A p \in Ports : u.cs[d].fwds[p].st # "active" =>
                v.cs[d].fwds[p] = u.cs[d].fwds[p] /\ v.rpf[p] = u.rpf[p]
        /\ \A p \in Ports : u.cs[d].fwds[p].st = "active" =>
                v.cs[d].fwds[p].st = "none" /\ ~v.cs[d].fwds[p].rpf /\ v.rpf[p] = None
    BY <1>1, <1>4
  <2>8. \A e \in Downs : e # d => v.cs[e] = u.cs[e]
    BY <1>1 DEF Moves
  <2>9. Forwardings(v.cs, v.rpf, gq, w \o x, f, s.fwd)
    <3>1. GivesUp(u.cs, v.cs, u.rpf, v.rpf, x, d)
      BY <1>2, <2>4, <2>6, <2>7, <2>8 DEF GivesUp, GaveUp
    <3> QED BY <2>1, <2>2, <3>1, UpGivesUp
  <2> QED BY <1>1, <2>1, <2>5, <2>9 DEF SoundPorts, w2
<1>8. /\ IsUp(v, v.cs, v.chan, v.rpf, u.globreq, u.drained, v.out, v.fault)
      /\ IsConn(v.cs[d], "dead", u.cs[d].half, u.cs[d].chans, v.cs[d].fwds, u.cs[d].globreq_head)
  BY <1>1, <1>2
<1> QED BY <1>1, <1>5, <1>6, <1>7, <1>8 DEF NoPorts

\* share_try_cleanup() keeps the invariants, and leaves the struct as clean as
\* it can be, or frees it.
LEMMA TryCleanup ==
  ASSUME NEW u, NEW ts \in Seq(ToMsg), NEW f \in Seq(FromMsg), NEW s, Sound(u, ts, f, s),
         NEW d \in Downs, u.cs[d].st = "dead", NEW v, v = share_try_cleanup(u, d)
  PROVE  /\ Sound(v, ts, f, s)
         /\ \A gq : SoundPorts(u, gq, ts, f, s) => SoundPorts(v, gq, ts, f, s) /\ v.fault = u.fault
         /\ Gone(u, v, d)
<1> DEFINE a == CleanHalf(u, d)
           b == CleanChan(a, d)
           c == CleanFwd(b, d)
<1>0. v = IF Idle(c.cs[d]) THEN [c EXCEPT !.cs[d].st = "freed"] ELSE c
  BY DEF share_try_cleanup
<1>1. /\ Sound(a, ts, f, s)
      /\ \A gq : SoundPorts(u, gq, ts, f, s) => SoundPorts(a, gq, ts, f, s)
      /\ IsUp(a, a.cs, a.chan, a.rpf, u.globreq, u.drained, a.out, u.fault)
      /\ IsConn(a.cs[d], "dead", {}, a.cs[d].chans, a.cs[d].fwds, u.cs[d].globreq_head)
      /\ Moves(u.cs, a.cs, d)
  BY HalfSound
<1>2. a.cs[d].st = "dead" /\ a.cs[d].half = {} /\ a.globreq = u.globreq /\ a.drained = u.drained /\ a.fault = u.fault
  BY <1>1 DEF IsConn, IsUp
<1> HIDE DEF a
<1>3. /\ Sound(b, ts, f, s)
      /\ \A gq : SoundPorts(a, gq, ts, f, s) => SoundPorts(b, gq, ts, f, s)
      /\ IsUp(b, b.cs, b.chan, b.rpf, a.globreq, a.drained, b.out, a.fault)
      /\ IsConn(b.cs[d], "dead", a.cs[d].half, b.cs[d].chans, b.cs[d].fwds, a.cs[d].globreq_head)
      /\ Moves(a.cs, b.cs, d)
      /\ \A r \in b.cs[d].chans : r.st \in {"UNACKNOWLEDGED", "SENT_CLOSE"}
  BY <1>1, <1>2, ChanSound
<1>4. b.cs[d].st = "dead" /\ b.cs[d].half = {} /\ b.globreq = u.globreq /\ b.drained = u.drained /\ b.fault = u.fault
  BY <1>2, <1>3 DEF IsConn, IsUp
<1> HIDE DEF b
<1>5. /\ Sound(c, ts, f, s)
      /\ \A gq : SoundPorts(b, gq, ts, f, s) => SoundPorts(c, gq, ts, f, s) /\ c.fault = b.fault
      /\ IsUp(c, c.cs, c.chan, c.rpf, b.globreq, b.drained, c.out, c.fault)
      /\ IsConn(c.cs[d], "dead", b.cs[d].half, b.cs[d].chans, c.cs[d].fwds, b.cs[d].globreq_head)
      /\ Moves(b.cs, c.cs, d)
      /\ \A p \in Ports : c.cs[d].fwds[p].st # "active"
      /\ b.fault # "none" => c.fault = b.fault
  <2>1. Sound(b, ts, f, s) /\ b.cs[d].st = "dead" /\ c = CleanFwd(b, d)
    BY <1>3, <1>4
  <2> HIDE DEF c
  <2>2. NoPorts(b, c, d, ts, f, s)
    BY <2>1, FwdSound
  <2> QED BY <1>4, <2>2 DEF NoPorts
<1>6. /\ c.cs[d].st = "dead" /\ c.cs[d].half = {} /\ c.globreq = u.globreq /\ c.drained = u.drained
      /\ c.cs[d].chans = b.cs[d].chans
      /\ u.fault # "none" => c.fault = u.fault
  BY <1>4, <1>5 DEF IsConn, IsUp
<1> HIDE DEF c
<1>7. CleanDown(c.cs[d])
  BY <1>3, <1>5, <1>6 DEF CleanDown
<1>8. Moves(u.cs, c.cs, d)
  BY <1>1, <1>3, <1>5 DEF Moves
<1>9. \A gq : SoundPorts(u, gq, ts, f, s) => SoundPorts(c, gq, ts, f, s) /\ c.fault = u.fault
  BY <1>1, <1>3, <1>4, <1>5
<1>10. CASE ~Idle(c.cs[d])
  <2>1. v = c
    BY <1>0, <1>10
  <2>2. Gone(u, c, d)
    BY <1>5, <1>4, <1>6, <1>7, <1>8, <1>10 DEF Gone, Tried
  <2> QED BY <1>5, <1>9, <2>1, <2>2
<1>11. CASE Idle(c.cs[d])
  <2> DEFINE F == "freed"
             x == << >>
  <2>0. c \in Upstream
    BY <1>5 DEF Sound
  <2>1. v = [c EXCEPT !.cs[d].st = F] /\ F \in {"none", "live", "dead", "freed"}
    BY <1>0, <1>11
  <2> HIDE DEF F
  <2>2. /\ IsUp(v, v.cs, c.chan, c.rpf, c.globreq, c.drained, c.out, c.fault)
        /\ Moves(c.cs, v.cs, d)
        /\ IsConn(v.cs[d], F, c.cs[d].half, c.cs[d].chans, c.cs[d].fwds, c.cs[d].globreq_head)
    BY <2>0, <2>1, PutSt
  <2>3. x \in Seq(ToMsg) /\ c.out \o x = c.out /\ \A k \in 1..Len(x) : x[k].t \in AboutPort /\ x[k].t \in AboutChannel
    BY <2>0, UpParts, Joined
  <2> HIDE DEF x
  <2>4. /\ v.cs[d].st = "freed" /\ v.cs[d].half = {} /\ c.cs[d].chans = {} /\ v.cs[d].chans = c.cs[d].chans
        /\ v.cs[d].fwds = c.cs[d].fwds /\ v.cs[d].globreq_head = c.cs[d].globreq_head
        /\ \A p \in Ports : c.cs[d].fwds[p].st = "none"
        /\ v.chan = c.chan /\ v.rpf = c.rpf /\ v.out = c.out /\ v.fault = c.fault
        /\ v.globreq = c.globreq /\ v.drained = c.drained
    BY <1>11, <2>2 DEF Idle, IsConn, IsUp, F
  <2>5. Sound(v, ts, f, s)
    <3> DEFINE r == c.rpf
    <3>1. IsUp(v, v.cs, c.chan, r, c.globreq, c.drained, c.out \o x, c.fault)
      BY <2>2, <2>3
    <3>2. \A p \in Ports : r[p] = c.rpf[p]
      OBVIOUS
    <3> HIDE DEF r
    <3> QED
      <4>1. StructOnly(c, v, d, x, r)
        BY <1>6, <2>3, <2>4, <3>2 DEF StructOnly
      <4>2. Moves(c.cs, v.cs, d) /\ x \in Seq(ToMsg) /\ Sound(c, ts, f, s)
        BY <1>5, <2>2, <2>3
      <4> QED BY <3>1, <4>1, <4>2, StructKept
  <2>6. ASSUME NEW gq, SoundPorts(c, gq, ts, f, s)
        PROVE  SoundPorts(v, gq, ts, f, s)
    <3>1. Forwardings(c.cs, c.rpf, gq, ts \o c.out, f, s.fwd)
      BY <2>6 DEF SoundPorts
    <3>2. FwdP(c.cs, c.rpf) /\ StateP(c.cs)
      BY <3>1, PortFacts
    <3>3. c.cs[d].globreq_head = None
      <4> SUFFICES ASSUME c.cs[d].globreq_head # None PROVE FALSE
        OBVIOUS
      <4> DEFINE g == c.cs[d].globreq_head
      <4>1. g.type \in {"forward", "cancel"} /\ g.p \in Ports
        BY <3>2 DEF StateP
      <4>2. Waits(c.cs[d], "forward", g.p) \/ Waits(c.cs[d], "cancel", g.p)
        BY <4>1 DEF Waits
      <4>3. c.cs[d].fwds[g.p].st # "none"
        BY <3>2, <4>1, <4>2 DEF FwdP, FwdPq
      <4> QED BY <2>4, <4>1, <4>3
    <3>4. IsUp(v, v.cs, c.chan, c.rpf, c.globreq, c.drained, c.out \o x, c.fault)
      BY <2>2, <2>3
    <3>5. PortsAlone(c, v, d, x)
      BY <2>3, <2>4, <3>3 DEF PortsAlone
    <3>6. Moves(c.cs, v.cs, d) /\ x \in Seq(ToMsg)
      BY <2>2, <2>3
    <3> QED BY <2>0, <2>6, <3>4, <3>5, <3>6, PortsSame
  <2>7. Moves(u.cs, v.cs, d)
    BY <1>8, <2>2 DEF Moves
  <2>8. Gone(u, v, d)
    BY <1>6, <2>2, <2>4, <2>7 DEF Gone, Tried
  <2> QED BY <1>9, <2>4, <2>5, <2>6, <2>8
<1> QED BY <1>10, <1>11

\* An answer is the occasion to try again.
LEMMA Retries ==
  ASSUME NEW u, NEW ts \in Seq(ToMsg), NEW f \in Seq(FromMsg), NEW s, Sound(u, ts, f, s),
         NEW d \in Downs, NEW v, v = RetryIfDead(u, d)
  PROVE  /\ Sound(v, ts, f, s)
         /\ \A gq : SoundPorts(u, gq, ts, f, s) => SoundPorts(v, gq, ts, f, s) /\ v.fault = u.fault
         /\ IsUp(v, v.cs, v.chan, v.rpf, u.globreq, u.drained, v.out, v.fault)
         /\ Moves(u.cs, v.cs, d)
         /\ (v.cs[d].st = "dead" => CleanDown(v.cs[d])) /\ Tried(v.cs[d])
         /\ u.fault # "none" => v.fault = u.fault
<1>0. u \in Upstream
  BY DEF Sound
<1>1. CASE u.cs[d].st = "dead"
  <2>1. v = share_try_cleanup(u, d)
    BY <1>1 DEF RetryIfDead
  <2> QED BY <1>1, <2>1, TryCleanup DEF Gone
<1>2. CASE u.cs[d].st # "dead"
  <2>1. v = u
    BY <1>2 DEF RetryIfDead
  <2>2. IsUp(v, v.cs, v.chan, v.rpf, u.globreq, u.drained, v.out, v.fault) /\ u.cs \in [Downs -> ConnState]
    BY <1>0, <2>1, UpParts
  <2>3. Moves(u.cs, v.cs, d)
    BY <2>1, <2>2 DEF Moves
  <2> QED BY <1>2, <2>1, <2>2, <2>3 DEF Tried
<1> QED BY <1>1, <1>2

---------------------------------------------------------------------------
(* The upstream's steps.                                                   *)

\* Every nonempty set of naturals has a least element.
LEMMA LeastNatural ==
  ASSUME NEW T \in SUBSET Nat, T # {}
  PROVE  \E m \in T : \A n \in T : m <= n
<1>1. PICK m \in T : \A n \in T : ~(<<n, m>> \in OpToRel(<, Nat))
  BY WFMin, NatLessThanWellFounded
<1>2. ASSUME NEW n \in T, n < m PROVE FALSE
  <2> DEFINE pair == <<n, m>>
  <2>1. pair \in Nat \X Nat /\ pair[1] < pair[2]
    BY <1>2
  <2>2. pair \in OpToRel(<, Nat)
    <3> HIDE DEF pair
    <3> QED BY <2>1 DEF OpToRel
  <2> QED BY <1>1, <2>2
<1>3. \A n \in T : m \in Nat /\ n \in Nat
  OBVIOUS
<1> QED BY <1>2, <1>3

\* ssh2_alloc_sharing_channel() puts the downstream at a number that is free.
LEMMA Allocates ==
  ASSUME NEW u \in Upstream, NEW d \in Downs, \E i \in UpIds : u.chan[i] = None, NEW v,
         v = ssh2_alloc_sharing_channel(u, d)
  PROVE  /\ FreeUpId(u) \in UpIds /\ u.chan[FreeUpId(u)] = None
         /\ IsUp(v, u.cs, [u.chan EXCEPT ![FreeUpId(u)] = d], u.rpf, u.globreq, u.drained, u.out, u.fault)
<1> DEFINE ch == u.chan
           Free == {i \in UpIds : ch[i] = None}
           a == FreeUpId(u)
           x == [i \in UpIds |-> IF ch[i] = None /\ \A j \in 0..i - 1 : ch[j] # None THEN d ELSE ch[i]]
<1>0. v = [u EXCEPT !.chan = x]
  BY DEF ssh2_alloc_sharing_channel
<1>1. ch \in [UpIds -> Opt(Downs)] /\ \E i \in UpIds : ch[i] = None
  BY UpParts
<1>2. \E i \in UpIds : ch[i] = None /\ \A j \in 0..i - 1 : ch[j] # None
  <2>1. Free \in SUBSET Nat /\ Free # {}
    BY <1>1, ConstAssumption DEF UpIds
  <2> HIDE DEF Free
  <2>2. PICK m \in Free : \A n \in Free : m <= n
    BY <2>1, LeastNatural
  <2>3. m \in UpIds /\ ch[m] = None
    BY DEF Free
  <2>4. ASSUME NEW j \in 0..m - 1 PROVE ch[j] # None
    <3>1. j \in UpIds /\ ~(m <= j)
      BY <2>3, ConstAssumption DEF UpIds
    <3> QED BY <2>2, <3>1 DEF Free
  <2> QED BY <2>3, <2>4
<1>3. a \in UpIds /\ ch[a] = None /\ \A j \in 0..a - 1 : ch[j] # None
  BY <1>2 DEF FreeUpId
<1> HIDE DEF a
<1>4. ASSUME NEW i \in UpIds, ch[i] = None, \A j \in 0..i - 1 : ch[j] # None PROVE i = a
  <2>1. i \in Nat /\ a \in Nat
    BY <1>3, ConstAssumption DEF UpIds
  <2>2. ~(i < a)
    <3> SUFFICES ASSUME i < a PROVE FALSE
      OBVIOUS
    <3>1. i \in 0..a - 1
      BY <2>1
    <3> QED BY <1>3, <1>4, <3>1
  <2>3. ~(a < i)
    <3> SUFFICES ASSUME a < i PROVE FALSE
      OBVIOUS
    <3>1. a \in 0..i - 1
      BY <2>1
    <3> QED BY <1>3, <1>4, <3>1
  <2> QED BY <2>1, <2>2, <2>3
<1> DEFINE y == [ch EXCEPT ![a] = d]
<1>5. ASSUME NEW i \in UpIds PROVE x[i] = y[i]
  <2>1. CASE ch[i] = None /\ \A j \in 0..i - 1 : ch[j] # None
    <3>1. i = a
      BY <1>4, <2>1
    <3> QED BY <1>1, <1>3, <2>1, <3>1
  <2>2. CASE ~(ch[i] = None /\ \A j \in 0..i - 1 : ch[j] # None)
    <3>1. i # a
      BY <1>3, <2>2
    <3> QED BY <1>1, <2>2, <3>1
  <2> QED BY <2>1, <2>2
<1>6. y \in [UpIds -> Opt(Downs)]
  BY <1>1, <1>3 DEF Opt
<1>7. x = y
  <2>1. x = [i \in UpIds |-> x[i]] /\ y = [i \in UpIds |-> y[i]]
    BY <1>6
  <2> HIDE DEF x, y
  <2> QED BY <1>5, <2>1
<1> HIDE DEF x, y
<1>8. IsUp(v, u.cs, y, u.rpf, u.globreq, u.drained, u.out, u.fault)
  BY <1>0, <1>6, <1>7, UpParts, PutChan
<1> QED BY <1>3, <1>8 DEF y, a

\* Cleaning up begins with the loss of the downstream's socket.
LEMMA BeginCleanup ==
  ASSUME NEW u, NEW ts \in Seq(ToMsg), NEW f \in Seq(FromMsg), NEW s, Sound(u, ts, f, s),
         NEW d \in Downs, u.cs[d].st = "live", NEW v, v = share_begin_cleanup(u, d)
  PROVE  /\ Sound(v, ts, f, s)
         /\ \A gq : SoundPorts(u, gq, ts, f, s) /\ (\A p \in Ports : ~Waits(u.cs[d], "cancel", p)) =>
                SoundPorts(v, gq, ts, f, s) /\ v.fault = u.fault
         /\ Gone(u, v, d)
<1> DEFINE F == "dead"
           x == << >>
           a == [u EXCEPT !.cs[d].st = F]
<1>0. v = share_try_cleanup(a, d) /\ u \in Upstream
  BY DEF share_begin_cleanup, Sound
<1>1. F \in {"none", "live", "dead", "freed"}
  OBVIOUS
<1> HIDE DEF F
<1>2. /\ IsUp(a, a.cs, u.chan, u.rpf, u.globreq, u.drained, u.out, u.fault)
      /\ Moves(u.cs, a.cs, d)
      /\ IsConn(a.cs[d], F, u.cs[d].half, u.cs[d].chans, u.cs[d].fwds, u.cs[d].globreq_head)
  BY <1>0, <1>1, PutSt
<1> HIDE DEF a
<1>3. x \in Seq(ToMsg) /\ u.out \o x = u.out /\ \A k \in 1..Len(x) : x[k].t \in AboutPort /\ x[k].t \in AboutChannel
  BY <1>0, UpParts, Joined
<1> HIDE DEF x
<1>4. /\ a.cs[d].st = "dead" /\ a.cs[d].half = u.cs[d].half /\ a.cs[d].chans = u.cs[d].chans
      /\ a.cs[d].fwds = u.cs[d].fwds /\ a.cs[d].globreq_head = u.cs[d].globreq_head
      /\ a.globreq = u.globreq /\ a.drained = u.drained /\ a.fault = u.fault
  BY <1>2 DEF IsUp, IsConn, F
<1>5. Sound(a, ts, f, s)
  <2> DEFINE r == u.rpf
  <2>1. IsUp(a, a.cs, u.chan, r, u.globreq, u.drained, u.out \o x, u.fault)
    BY <1>2, <1>3
  <2>2. \A p \in Ports : r[p] = u.rpf[p]
    OBVIOUS
  <2> HIDE DEF r
  <2>3. StructOnly(u, a, d, x, r)
    BY <1>3, <1>4, <2>2 DEF StructOnly
  <2> QED BY <1>2, <1>3, <2>1, <2>3, StructKept
<1>6. ASSUME NEW gq, SoundPorts(u, gq, ts, f, s), \A p \in Ports : ~Waits(u.cs[d], "cancel", p)
      PROVE  SoundPorts(a, gq, ts, f, s)
  <2>1. PortsAlone(u, a, d, x)
    BY <1>3, <1>4, <1>6 DEF PortsAlone
  <2>2. IsUp(a, a.cs, u.chan, u.rpf, u.globreq, u.drained, u.out \o x, u.fault)
    BY <1>2, <1>3
  <2> QED BY <1>0, <1>2, <1>3, <1>6, <2>1, <2>2, PortsSame
<1>7. /\ Sound(v, ts, f, s)
      /\ \A gq : SoundPorts(a, gq, ts, f, s) => SoundPorts(v, gq, ts, f, s) /\ v.fault = a.fault
      /\ Gone(a, v, d)
  BY <1>0, <1>4, <1>5, TryCleanup
<1>8. Gone(u, v, d)
  <2>1. Moves(u.cs, v.cs, d)
    BY <1>2, <1>7 DEF Moves, Gone
  <2> QED BY <1>4, <1>7, <2>1 DEF Gone
<1> QED BY <1>4, <1>6, <1>7, <1>8

\* Where a step of the upstream starts from.
LEMMA Starts ==
  ASSUME IInv, Running
  PROVE  /\ Sound(up, toSrv, fromSrv, srv)
         /\ gentle => SoundPorts(up, up.globreq, toSrv, fromSrv, srv) /\ Cleaned(up.cs)
<1>1. toSrv \o up.out = toSrv
  <2> DEFINE o == up.out
  <2>1. o = << >> /\ toSrv \in Seq(ToMsg)
    BY Known
  <2> HIDE DEF o
  <2>2. toSrv \o o = toSrv
    BY <2>1, Joined
  <2> QED BY <2>2 DEF o
<1> QED BY <1>1, Known DEF Sound, SoundPorts, GoodChan

\* A struct that has been cleaned up among others that have been.
LEMMA CleanedMoves ==
  ASSUME NEW cs, NEW cs2, NEW d \in Downs, Cleaned(cs), Moves(cs, cs2, d), cs2[d].st = "dead" => CleanDown(cs2[d])
  PROVE  Cleaned(cs2)
  BY DEF Cleaned, Moves

\* Apply leaves the upstream behind with its packets on the wire.
LEMMA Applied ==
  ASSUME NEW v \in Upstream, Apply(v)
  PROVE  Leaves(v)
<1> DEFINE x == << >>
           w == up'
<1>1. w = [v EXCEPT !.out = x] /\ toSrv' = toSrv \o v.out
  BY DEF Apply
<1>2. x \in Seq(ToMsg)
  OBVIOUS
<1> HIDE DEF w, x
<1>3. IsUp(w, v.cs, v.chan, v.rpf, v.globreq, v.drained, x, v.fault)
  BY <1>1, <1>2, UpParts, PutOut
<1> QED BY <1>1, <1>3 DEF Leaves, w, x

\* What a step of the upstream has to preserve for it to preserve the invariant.
LEMMA UpStep ==
  ASSUME IInv, Running, NEW v, Leaves(v),
         fromSrv' \in Seq(FromMsg), srv' = srv, ops' \in Nat, gentle' \in BOOLEAN, gentle' => gentle,
         v \in Upstream, v.fault = "none" => Sound(v, toSrv, fromSrv', srv),
         v.fault = "none" /\ gentle' => SoundPorts(v, v.globreq, toSrv, fromSrv', srv) /\ Cleaned(v.cs),
         gentle' => v.fault \in {"none", "list"}
  PROVE  IInv'
<1>1. /\ up' \in Upstream /\ up'.cs = v.cs /\ up'.chan = v.chan /\ up'.rpf = v.rpf /\ up'.globreq = v.globreq
      /\ up'.out = << >> /\ up'.fault = v.fault /\ toSrv' = toSrv \o v.out
  BY DEF Leaves, IsUp
<1>2. toSrv' \in Seq(ToMsg)
  <2> DEFINE o == v.out
  <2>1. o \in Seq(ToMsg) /\ toSrv \in Seq(ToMsg)
    BY UpParts, Known
  <2> HIDE DEF o
  <2>2. toSrv \o o \in Seq(ToMsg)
    BY <2>1
  <2> QED BY <1>1, <2>2 DEF o
<1>3. Typed'
  BY <1>1, <1>2, Known DEF Typed
<1>4. Running' => GoodChan(up', toSrv', fromSrv', srv')
  BY <1>1 DEF Running, Sound, GoodChan
<1>5. Running' /\ gentle' => GoodPort(up', toSrv', fromSrv', srv') /\ Cleaned(up'.cs)
  BY <1>1 DEF Running, SoundPorts, GoodPort
<1>6. gentle' => up'.fault \in {"none", "list"}
  BY <1>1
<1> QED BY <1>3, <1>4, <1>5, <1>6 DEF IInv

\* A step of the upstream frees the struct of d when it takes the last of what
\* d holds, or refuses d's channel.
LEMMA StructFreed ==
  ASSUME NEW d \in Downs, NEW v, Leaves(v),
         v.fault # "none" \/ (Moves(up.cs, v.cs, d) /\ (Tried(v.cs[d]) \/ Refused(d)))
  PROVE  FreesStep
<1>1. up'.cs = v.cs /\ up'.fault = v.fault
  BY DEF Leaves, IsUp
<1> QED BY <1>1 DEF FreesStep, Leftover, Tried, Moves, Running

\* A downstream connects.
LEMMA ConnectInv ==
  ASSUME IInv, Running, NEW d \in Downs, Connect(d)
  PROVE  IInv' /\ FreesStep
<1> DEFINE F == "live"
           x == << >>
           v == up'
<1>1. /\ up \in Upstream /\ up.out = << >> /\ up.fault = "none" /\ toSrv \in Seq(ToMsg) /\ fromSrv \in Seq(FromMsg)
      /\ ops \in Nat /\ gentle \in BOOLEAN
  BY Known
<1>2. /\ v = [up EXCEPT !.cs[d].st = F] /\ F \in {"none", "live", "dead", "freed"} /\ up.cs[d].st = "none"
      /\ toSrv' = toSrv /\ fromSrv' = fromSrv /\ srv' = srv /\ ops' = ops /\ gentle' = gentle
  BY DEF Connect
<1> HIDE DEF F, v
<1>3. /\ IsUp(v, v.cs, up.chan, up.rpf, up.globreq, up.drained, up.out, up.fault)
      /\ Moves(up.cs, v.cs, d)
      /\ IsConn(v.cs[d], F, up.cs[d].half, up.cs[d].chans, up.cs[d].fwds, up.cs[d].globreq_head)
  BY <1>1, <1>2, PutSt
<1>4. x \in Seq(ToMsg) /\ up.out \o x = up.out /\ toSrv \o x = toSrv
      /\ \A k \in 1..Len(x) : x[k].t \in AboutPort /\ x[k].t \in AboutChannel
  <2> DEFINE o == up.out
  <2>1. o \in Seq(ToMsg) /\ x \in Seq(ToMsg)
    BY <1>1
  <2> HIDE DEF o
  <2>2. o \o x = o /\ toSrv \o x = toSrv
    BY <1>1, <2>1, Joined
  <2> QED BY <2>1, <2>2 DEF o
<1>5. /\ v \in Upstream /\ v.cs[d].st = "live" /\ v.cs[d].half = up.cs[d].half /\ v.cs[d].chans = up.cs[d].chans
      /\ v.cs[d].fwds = up.cs[d].fwds /\ v.cs[d].globreq_head = up.cs[d].globreq_head
      /\ v.globreq = up.globreq /\ v.out = x /\ v.fault = "none"
  BY <1>1, <1>3 DEF IsUp, IsConn, F
<1>6. Leaves(v)
  <2>1. IsUp(v, v.cs, v.chan, v.rpf, v.globreq, v.drained, v.out, v.fault)
    BY <1>5, UpParts
  <2>2. up' = v
    BY DEF v
  <2> QED BY <1>2, <1>4, <1>5, <2>1, <2>2 DEF Leaves
<1> HIDE DEF x
<1>7. Sound(v, toSrv, fromSrv, srv)
  <2> DEFINE r == up.rpf
  <2>1. IsUp(v, v.cs, up.chan, r, up.globreq, up.drained, up.out \o x, up.fault)
    BY <1>3, <1>4
  <2>2. \A p \in Ports : r[p] = up.rpf[p]
    OBVIOUS
  <2> HIDE DEF r
  <2>3. StructOnly(up, v, d, x, r)
    BY <1>4, <1>5, <2>2 DEF StructOnly
  <2>4. Sound(up, toSrv, fromSrv, srv)
    BY Starts
  <2> QED BY <1>1, <1>3, <1>4, <2>1, <2>3, <2>4, StructKept
<1>8. gentle => SoundPorts(v, v.globreq, toSrv, fromSrv, srv) /\ Cleaned(v.cs)
  <2> SUFFICES ASSUME gentle PROVE SoundPorts(v, up.globreq, toSrv, fromSrv, srv) /\ Cleaned(v.cs)
    BY <1>5
  <2>1. SoundPorts(up, up.globreq, toSrv, fromSrv, srv) /\ Cleaned(up.cs)
    BY Starts
  <2>2. PortsAlone(up, v, d, x)
    BY <1>4, <1>5 DEF PortsAlone
  <2>3. IsUp(v, v.cs, up.chan, up.rpf, up.globreq, up.drained, up.out \o x, up.fault)
    BY <1>3, <1>4
  <2>4. SoundPorts(v, up.globreq, toSrv, fromSrv, srv)
    BY <1>1, <1>3, <1>4, <2>1, <2>2, <2>3, PortsSame
  <2>5. Cleaned(v.cs)
    BY <1>3, <1>5, <2>1, CleanedMoves
  <2> QED BY <2>4, <2>5
<1>9. FreesStep
  BY <1>3, <1>5, <1>6, StructFreed DEF Tried
<1> QED BY <1>1, <1>2, <1>5, <1>6, <1>7, <1>8, <1>9, UpStep

\* A downstream is lost.
LEMMA LostInv ==
  ASSUME IInv, Running, NEW d \in Downs, Lost(d)
  PROVE  IInv' /\ FreesStep
<1> DEFINE v == share_begin_cleanup(up, d)
<1>1. /\ up \in Upstream /\ up.fault = "none" /\ toSrv \in Seq(ToMsg) /\ fromSrv \in Seq(FromMsg)
      /\ ops \in Nat /\ gentle \in BOOLEAN /\ Sound(up, toSrv, fromSrv, srv)
      /\ gentle => SoundPorts(up, up.globreq, toSrv, fromSrv, srv) /\ Cleaned(up.cs)
  BY Known, Starts
<1>2. /\ up.cs[d].st = "live" /\ Apply(v)
      /\ gentle' \in BOOLEAN /\ (gentle' => gentle)
      /\ gentle' => up.cs[d].globreq_head = None \/ up.cs[d].globreq_head.type = "forward"
      /\ fromSrv' = fromSrv /\ srv' = srv /\ ops' = ops
  <2>1. gentle' = (gentle /\ (Quiet(d) \/ up.cs[d].globreq_head.type = "forward"))
    BY DEF Lost
  <2>2. gentle' \in BOOLEAN /\ (gentle' => gentle)
        /\ (gentle' => up.cs[d].globreq_head = None \/ up.cs[d].globreq_head.type = "forward")
    BY Zenon, <2>1 DEF Quiet
  <2> QED BY <2>2 DEF Lost
<1>3. /\ Sound(v, toSrv, fromSrv, srv)
      /\ \A gq : SoundPorts(up, gq, toSrv, fromSrv, srv) /\ (\A p \in Ports : ~Waits(up.cs[d], "cancel", p)) =>
                SoundPorts(v, gq, toSrv, fromSrv, srv) /\ v.fault = up.fault
      /\ Gone(up, v, d)
  BY <1>1, <1>2, BeginCleanup
<1> HIDE DEF v
<1>4. v \in Upstream /\ v.globreq = up.globreq
  BY <1>3 DEF Gone, IsUp
<1>5. Leaves(v)
  BY <1>2, <1>4, Applied
<1>6. ASSUME gentle'
      PROVE  SoundPorts(v, v.globreq, toSrv, fromSrv, srv) /\ Cleaned(v.cs) /\ v.fault = "none"
  <2>1. \A p \in Ports : ~Waits(up.cs[d], "cancel", p)
    BY <1>2, <1>6 DEF Waits
  <2>2. SoundPorts(v, up.globreq, toSrv, fromSrv, srv) /\ v.fault = "none"
    BY <1>1, <1>2, <1>3, <1>6, <2>1
  <2>3. Cleaned(v.cs)
    <3>1. Cleaned(up.cs) /\ Moves(up.cs, v.cs, d) /\ (v.cs[d].st = "dead" => CleanDown(v.cs[d]))
      BY <1>1, <1>2, <1>3, <1>6 DEF Gone
    <3> QED BY <3>1, CleanedMoves
  <2> QED BY <1>4, <2>2, <2>3
<1>7. FreesStep
  BY <1>3, <1>5, StructFreed DEF Gone
<1> QED BY <1>1, <1>2, <1>3, <1>4, <1>5, <1>6, <1>7, UpStep

\* A downstream refuses what the server has opened.
LEMMA DownRefuseInv ==
  ASSUME IInv, Running, NEW d \in Downs, DownRefuse(d)
  PROVE  IInv' /\ FreesStep
<1>1. /\ up \in Upstream /\ up.out = << >> /\ up.fault = "none" /\ toSrv \in Seq(ToMsg) /\ fromSrv \in Seq(FromMsg)
      /\ ops \in Nat /\ gentle \in BOOLEAN /\ Sound(up, toSrv, fromSrv, srv)
      /\ gentle => SoundPorts(up, up.globreq, toSrv, fromSrv, srv) /\ Cleaned(up.cs)
  BY Known, Starts
<1>2. PICK h \in up.cs[d].half :
        /\ up.cs[d].st = "live"
        /\ Apply(Send([up EXCEPT !.cs[d].half = @ \ {h}], [Msg("fail", d) EXCEPT !.sid = h]))
        /\ fromSrv' = fromSrv /\ srv' = srv /\ ops' = ops /\ gentle' = gentle
  BY DEF DownRefuse
<1> DEFINE hs == up.cs[d].half \ {h}
           a == [up EXCEPT !.cs[d].half = hs]
           y == [Msg("fail", d) EXCEPT !.sid = h]
           v == Send(a, y)
           x == <<y>>
<1>3. hs \in SUBSET SrvIds /\ h \in SrvIds /\ d \in Opt(Downs)
  BY <1>1, UpParts DEF Opt
<1>4. y \in ToMsg /\ Fields(y, "fail", d, None, h, None)
  BY <1>3, FailTo
<1> HIDE DEF hs
<1>5. /\ IsUp(a, a.cs, up.chan, up.rpf, up.globreq, up.drained, up.out, up.fault)
      /\ Moves(up.cs, a.cs, d)
      /\ IsConn(a.cs[d], up.cs[d].st, hs, up.cs[d].chans, up.cs[d].fwds, up.cs[d].globreq_head)
  BY <1>1, <1>3, PutHalf
<1>6. Apply(v)
  BY <1>2 DEF hs
<1> HIDE DEF a, y
<1>7. IsUp(v, a.cs, a.chan, a.rpf, a.globreq, a.drained, Append(a.out, y), a.fault)
  BY <1>4, <1>5, SendIs DEF IsUp
<1> HIDE DEF v
<1>8. x \in Seq(ToMsg) /\ Append(up.out, y) = up.out \o x
      /\ Len(x) = 1 /\ x[1] = y
  <2> DEFINE o == up.out
  <2>1. o \in Seq(ToMsg)
    BY <1>1, UpParts
  <2> HIDE DEF o
  <2>2. x \in Seq(ToMsg) /\ Append(o, y) = o \o x /\ Len(x) = 1 /\ x[1] = y
    BY <1>4, <2>1
  <2> QED BY <2>2 DEF o
<1>9. \A k \in 1..Len(x) : x[k].t \in AboutPort /\ x[k].t \in AboutChannel /\ x[k].t = "fail" /\ x[k].sid = h
  BY <1>4, <1>8 DEF Fields, AboutPort, AboutChannel
<1> HIDE DEF x
<1>10. /\ a.chan = up.chan /\ a.rpf = up.rpf /\ a.globreq = up.globreq /\ a.drained = up.drained /\ a.out = up.out
       /\ a.fault = up.fault
  BY <1>5 DEF IsUp
<1>11. /\ IsUp(v, v.cs, up.chan, up.rpf, up.globreq, up.drained, up.out \o x, up.fault)
       /\ Moves(up.cs, v.cs, d)
       /\ IsConn(v.cs[d], up.cs[d].st, hs, up.cs[d].chans, up.cs[d].fwds, up.cs[d].globreq_head)
  <2>1. v.cs = a.cs
    BY <1>7 DEF IsUp
  <2> QED BY <1>5, <1>7, <1>8, <1>10, <2>1
<1>12. /\ v \in Upstream /\ v.cs[d].st = "live" /\ v.cs[d].half = hs /\ v.cs[d].chans = up.cs[d].chans
       /\ v.cs[d].fwds = up.cs[d].fwds /\ v.cs[d].globreq_head = up.cs[d].globreq_head
       /\ v.globreq = up.globreq /\ v.fault = "none"
  BY <1>1, <1>2, <1>11 DEF IsUp, IsConn
<1>13. Leaves(v)
  BY <1>6, <1>12, Applied
<1>14. Sound(v, toSrv, fromSrv, srv)
  <2> DEFINE r == up.rpf
  <2>1. IsUp(v, v.cs, up.chan, r, up.globreq, up.drained, up.out \o x, up.fault)
    BY <1>11
  <2>2. \A p \in Ports : r[p] = up.rpf[p]
    OBVIOUS
  <2> HIDE DEF r
  <2>3. \A i \in up.cs[d].half : i \in v.cs[d].half \/ Answers(x, i)
    <3>1. Answers(x, h)
      BY <1>8, <1>9 DEF Answers
    <3> QED BY <1>12, <3>1 DEF hs
  <2>4. StructOnly(up, v, d, x, r)
    BY <1>9, <1>12, <2>2, <2>3 DEF StructOnly
  <2> QED BY <1>1, <1>8, <1>11, <2>1, <2>4, StructKept
<1>15. gentle => SoundPorts(v, v.globreq, toSrv, fromSrv, srv) /\ Cleaned(v.cs)
  <2> SUFFICES ASSUME gentle PROVE SoundPorts(v, up.globreq, toSrv, fromSrv, srv) /\ Cleaned(v.cs)
    BY <1>12
  <2>1. SoundPorts(up, up.globreq, toSrv, fromSrv, srv) /\ Cleaned(up.cs)
    BY <1>1
  <2>2. PortsAlone(up, v, d, x)
    BY <1>9, <1>12 DEF PortsAlone
  <2>3. SoundPorts(v, up.globreq, toSrv, fromSrv, srv)
    BY <1>1, <1>8, <1>11, <2>1, <2>2, PortsSame
  <2>4. Cleaned(v.cs)
    BY <1>11, <1>12, <2>1, CleanedMoves
  <2> QED BY <2>3, <2>4
<1>16. FreesStep
  BY <1>11, <1>12, <1>13, StructFreed DEF Tried
<1> QED BY <1>1, <1>2, <1>12, <1>13, <1>14, <1>15, <1>16, UpStep

\* A change to the channels of one struct that keeps the channels' invariant.
LEMMA OthersKept ==
  ASSUME NEW u, NEW v, NEW ts \in Seq(ToMsg), NEW f \in Seq(FromMsg), NEW f2 \in Seq(FromMsg), NEW s,
         Sound(u, ts, f, s),
         NEW d \in Downs, NEW x \in Seq(ToMsg), NEW g, NEW b, NEW t,
         IsUp(v, v.cs, v.chan, u.rpf, g, b, u.out \o x, t), Moves(u.cs, v.cs, d),
         v.cs[d].st \in {"live", "dead"}, HalfKept(u, v, d, x), CallsKept(f, f2),
         Channels(v.cs, v.chan, (ts \o u.out) \o x, f2, s.ch)
  PROVE  Sound(v, ts, f2, s)
<1> DEFINE w == ts \o u.out
           w2 == ts \o v.out
<1>0. /\ u \in Upstream /\ v \in Upstream /\ u.out \in Seq(ToMsg)
      /\ v.rpf = u.rpf /\ v.out = u.out \o x
      /\ \A e \in Downs : e # d => v.cs[e] = u.cs[e]
  BY UpParts DEF Sound, IsUp, Moves
<1>1. w \in Seq(ToMsg) /\ w2 = w \o x
  <2> DEFINE a1 == u.out
             b1 == v.out
  <2>1. a1 \in Seq(ToMsg) /\ b1 = a1 \o x
    BY <1>0
  <2> HIDE DEF a1, b1
  <2>2. ts \o a1 \in Seq(ToMsg) /\ ts \o b1 = (ts \o a1) \o x
    BY <2>1, Longer
  <2> QED BY <2>2 DEF a1, b1
<1>2. Structs(u.cs, u.rpf) /\ Announced(u.cs, w, f, s.ch) /\ Channels(v.cs, v.chan, w \o x, f2, s.ch)
  BY DEF Sound, GoodChan
<1> HIDE DEF w, w2
<1>3. Channels(v.cs, v.chan, w2, f2, s.ch)
  BY <1>1, <1>2
<1>4. Structs(v.cs, v.rpf)
  <2> SUFFICES ASSUME NEW e \in Downs
               PROVE  /\ v.cs[e].st \in {"none", "freed"} => v.cs[e].chans = {} /\ v.cs[e].half = {}
                      /\ v.cs[e].st = "none" => \A p \in Ports : v.rpf[p] # e
    BY DEF Structs
  <2>1. /\ u.cs[e].st \in {"none", "freed"} => u.cs[e].chans = {} /\ u.cs[e].half = {}
        /\ u.cs[e].st = "none" => \A p \in Ports : u.rpf[p] # e
    BY <1>2 DEF Structs
  <2>2. CASE e = d
    BY <2>2
  <2>3. CASE e # d
    BY <1>0, <2>1, <2>3
  <2> QED BY <2>2, <2>3
<1>5. Announced(v.cs, w2, f2, s.ch)
  <2> SUFFICES ASSUME NEW i \in SrvIds, s.ch[i].st = "opening"
               PROVE  Answers(w2, i) \/ Calls(f2, i) \/ \E e \in Downs : i \in v.cs[e].half
    BY Announcing
  <2>1. Answers(w, i) \/ Calls(f, i) \/ \E e \in Downs : i \in u.cs[e].half
    BY <1>2, Announcing
  <2>2. Answers(w, i) \/ Answers(x, i) => Answers(w2, i)
    BY <1>1, Answered
  <2>3. Calls(f, i) => Calls(f2, i)
    BY DEF CallsKept
  <2>4. CASE \E e \in Downs : i \in u.cs[e].half
    <3>1. PICK e \in Downs : i \in u.cs[e].half
      BY <2>4
    <3>2. CASE e = d
      <4>1. i \in v.cs[d].half \/ Answers(x, i)
        BY <3>1, <3>2 DEF HalfKept
      <4> QED BY <2>2, <4>1
    <3>3. CASE e # d
      BY <1>0, <3>1, <3>3
    <3> QED BY <3>2, <3>3
  <2> QED BY <2>1, <2>2, <2>3, <2>4
<1> QED BY <1>0, <1>3, <1>4, <1>5 DEF Sound, GoodChan, w2

\* One packet to send.
LEMMA OnePacket ==
  ASSUME NEW w \in Seq(ToMsg), NEW y \in ToMsg, NEW x, x = <<y>>
  PROVE  x \in Seq(ToMsg) /\ Append(w, y) = w \o x /\ Len(x) = 1 /\ x[1] = y
  OBVIOUS

\* A downstream that is there makes, confirms or closes a channel.
LEMMA ChanSent ==
  ASSUME IInv, Running, NEW d \in Downs, up.cs[d].st = "live",
         NEW y \in ToMsg, y.t \in {"open", "conf", "close"}, NEW v,
         IsUp(v, v.cs, v.chan, up.rpf, up.globreq, up.drained, Append(up.out, y), up.fault),
         Moves(up.cs, v.cs, d),
         IsConn(v.cs[d], "live", v.cs[d].half, v.cs[d].chans, up.cs[d].fwds, up.cs[d].globreq_head),
         HalfKept(up, v, d, <<y>>),
         Channels(v.cs, v.chan, Append(toSrv, y), fromSrv, srv.ch),
         Apply(v), fromSrv' = fromSrv, srv' = srv, ops' \in Nat, gentle' = gentle
  PROVE  IInv' /\ FreesStep
<1>1. /\ up \in Upstream /\ up.out = << >> /\ up.fault = "none" /\ toSrv \in Seq(ToMsg) /\ fromSrv \in Seq(FromMsg)
      /\ gentle \in BOOLEAN /\ Sound(up, toSrv, fromSrv, srv)
      /\ gentle => SoundPorts(up, up.globreq, toSrv, fromSrv, srv) /\ Cleaned(up.cs)
  BY Known, Starts
<1> DEFINE x == <<y>>
           o == up.out
<1>2. o \in Seq(ToMsg) /\ o = << >> /\ HalfKept(up, v, d, x)
  BY <1>1, UpParts
<1> HIDE DEF x, o
<1>3. x \in Seq(ToMsg) /\ Append(o, y) = o \o x /\ Append(toSrv, y) = toSrv \o x /\ Len(x) = 1 /\ x[1] = y
  BY <1>1, <1>2, OnePacket DEF x
<1>4. toSrv \o o = toSrv
  BY <1>1, <1>2, Joined
<1>5. \A k \in 1..Len(x) : x[k].t \in AboutChannel
  BY <1>3 DEF AboutChannel
<1>6. IsUp(v, v.cs, v.chan, up.rpf, up.globreq, up.drained, up.out \o x, up.fault)
  BY <1>3 DEF o
<1>7. Channels(v.cs, v.chan, (toSrv \o up.out) \o x, fromSrv, srv.ch)
  BY <1>3, <1>4 DEF o
<1>8. /\ v \in Upstream /\ v.cs[d].st = "live" /\ v.cs[d].fwds = up.cs[d].fwds
      /\ v.cs[d].globreq_head = up.cs[d].globreq_head /\ v.globreq = up.globreq /\ v.fault = "none"
  BY <1>1 DEF IsUp, IsConn
<1>9. Leaves(v)
  BY <1>8, Applied
<1>10. Sound(v, toSrv, fromSrv, srv)
  <2>1. CallsKept(fromSrv, fromSrv)
    BY DEF CallsKept
  <2>2. v.cs[d].st \in {"live", "dead"}
    BY <1>8
  <2> QED BY <1>1, <1>2, <1>3, <1>6, <1>7, <2>1, <2>2, OthersKept
<1>11. gentle => SoundPorts(v, v.globreq, toSrv, fromSrv, srv) /\ Cleaned(v.cs)
  <2> SUFFICES ASSUME gentle PROVE SoundPorts(v, up.globreq, toSrv, fromSrv, srv) /\ Cleaned(v.cs)
    BY <1>8
  <2>1. SoundPorts(up, up.globreq, toSrv, fromSrv, srv) /\ Cleaned(up.cs)
    BY <1>1
  <2>2. PortsAlone(up, v, d, x)
    BY <1>5, <1>8 DEF PortsAlone
  <2>3. SoundPorts(v, up.globreq, toSrv, fromSrv, srv)
    BY <1>1, <1>3, <1>6, <2>1, <2>2, PortsSame
  <2>4. Cleaned(v.cs)
    BY <1>8, <2>1, CleanedMoves
  <2> QED BY <2>3, <2>4
<1>12. FreesStep
  BY <1>8, <1>9, StructFreed DEF Tried
<1> QED BY <1>1, <1>8, <1>9, <1>10, <1>11, <1>12, UpStep

\* A record is one of share_channel.
LEMMA RecIs ==
  ASSUME NEW a \in UpIds, NEW i \in Opt(SrvIds), NEW s \in ChanStates, i \in SrvIds <=> s \in Numbered
  PROVE  NewRec(a, i, s) \in ShareChannel
  BY DEF NewRec, ShareChannel

\* Two parts of the struct of d change.
LEMMA PutBoth ==
  ASSUME NEW u \in Upstream, NEW d \in Downs, NEW x \in SUBSET ShareChannel, NEW y \in SUBSET SrvIds,
         NEW v, v = [u EXCEPT !.cs[d].chans = x, !.cs[d].half = y]
  PROVE  /\ IsUp(v, v.cs, u.chan, u.rpf, u.globreq, u.drained, u.out, u.fault)
         /\ Moves(u.cs, v.cs, d)
         /\ IsConn(v.cs[d], u.cs[d].st, y, x, u.cs[d].fwds, u.cs[d].globreq_head)
<1> DEFINE a == [u EXCEPT !.cs[d].chans = x]
<1>1. /\ IsUp(a, a.cs, u.chan, u.rpf, u.globreq, u.drained, u.out, u.fault)
      /\ Moves(u.cs, a.cs, d)
      /\ IsConn(a.cs[d], u.cs[d].st, u.cs[d].half, x, u.cs[d].fwds, u.cs[d].globreq_head)
  BY PutChans
<1>2. v = [a EXCEPT !.cs[d].half = y]
  OBVIOUS
<1> HIDE DEF a
<1>3. a \in Upstream
  BY <1>1 DEF IsUp
<1>4. /\ IsUp(v, v.cs, a.chan, a.rpf, a.globreq, a.drained, a.out, a.fault)
      /\ Moves(a.cs, v.cs, d)
      /\ IsConn(v.cs[d], a.cs[d].st, y, a.cs[d].chans, a.cs[d].fwds, a.cs[d].globreq_head)
  BY <1>2, <1>3, PutHalf
<1>5. Moves(u.cs, v.cs, d)
  BY <1>1, <1>4 DEF Moves
<1>6. /\ a.chan = u.chan /\ a.rpf = u.rpf /\ a.globreq = u.globreq /\ a.drained = u.drained /\ a.out = u.out
      /\ a.fault = u.fault
      /\ a.cs[d].st = u.cs[d].st /\ a.cs[d].chans = x /\ a.cs[d].fwds = u.cs[d].fwds
      /\ a.cs[d].globreq_head = u.cs[d].globreq_head
  BY <1>1 DEF IsUp, IsConn
<1> QED BY <1>4, <1>5, <1>6

\* A downstream opens a channel.
LEMMA DownOpenInv ==
  ASSUME IInv, Running, NEW d \in Downs, DownOpen(d)
  PROVE  IInv' /\ FreesStep
<1> DEFINE a == FreeUpId(up)
           b == ssh2_alloc_sharing_channel(up, d)
           own == [up.chan EXCEPT ![a] = d]
           c == NewRec(a, None, "UNACKNOWLEDGED")
           S == b.cs[d].chans \cup {c}
           e == [b EXCEPT !.cs[d].chans = S]
           y == [Msg("open", d) EXCEPT !.us = a]
           v == Send(e, y)
<1>1. /\ up \in Upstream /\ toSrv \in Seq(ToMsg) /\ fromSrv \in Seq(FromMsg) /\ ops \in Nat
      /\ Channels(up.cs, up.chan, toSrv, fromSrv, srv.ch)
  BY Known
<1>2. /\ up.cs[d].st = "live" /\ (\E i \in UpIds : up.chan[i] = None)
      /\ Apply(v)
      /\ ops' = ops + 1 /\ fromSrv' = fromSrv /\ srv' = srv /\ gentle' = gentle
  BY DEF DownOpen, NewRec
<1>3. /\ a \in UpIds /\ up.chan[a] = None
      /\ IsUp(b, up.cs, own, up.rpf, up.globreq, up.drained, up.out, up.fault)
  BY <1>1, <1>2, Allocates
<1>4. Becomes(up.chan, own, a, d)
  BY DEF Becomes
<1>5. ops' \in Nat
  BY <1>1, <1>2
<1>6. y \in ToMsg /\ Fields(y, "open", d, a, None, None)
  BY <1>3, OpenTo
<1> HIDE DEF a, b, own, y
<1>7. /\ b \in Upstream /\ b.cs = up.cs /\ b.chan = own /\ b.rpf = up.rpf /\ b.globreq = up.globreq
      /\ b.drained = up.drained /\ b.out = up.out /\ b.fault = up.fault
  BY <1>3 DEF IsUp
<1>8. c \in ShareChannel /\ c = NewRec(a, None, "UNACKNOWLEDGED")
  <2>1. None \in Opt(SrvIds) /\ None \notin SrvIds /\ "UNACKNOWLEDGED" \in ChanStates /\ "UNACKNOWLEDGED" \notin Numbered
    BY ConstAssumption DEF Opt, SrvIds, ChanStates, Numbered
  <2> QED BY <1>3, <2>1, RecIs
<1> HIDE DEF c
<1>9. S \in SUBSET ShareChannel /\ S = up.cs[d].chans \cup {NewRec(a, None, "UNACKNOWLEDGED")}
  <2>1. b.cs[d].chans \subseteq ShareChannel
    BY <1>7, UpParts
  <2> QED BY <1>7, <1>8, <2>1
<1> HIDE DEF S
<1>10. /\ IsUp(e, e.cs, b.chan, b.rpf, b.globreq, b.drained, b.out, b.fault)
       /\ Moves(b.cs, e.cs, d)
       /\ IsConn(e.cs[d], b.cs[d].st, b.cs[d].half, S, b.cs[d].fwds, b.cs[d].globreq_head)
  BY <1>7, <1>9, PutChans
<1> HIDE DEF e
<1>11. e \in Upstream
  BY <1>10 DEF IsUp
<1>12. IsUp(v, e.cs, e.chan, e.rpf, e.globreq, e.drained, Append(e.out, y), e.fault)
  BY <1>6, <1>11, SendIs
<1> HIDE DEF v
<1>13. /\ e.chan = own /\ e.rpf = up.rpf /\ e.globreq = up.globreq /\ e.drained = up.drained /\ e.out = up.out
       /\ e.fault = up.fault /\ v.cs = e.cs /\ v.chan = own
       /\ v.cs[d].st = "live" /\ v.cs[d].half = up.cs[d].half /\ v.cs[d].chans = S
  BY <1>2, <1>7, <1>10, <1>12 DEF IsUp, IsConn
<1>14. IsUp(v, v.cs, v.chan, up.rpf, up.globreq, up.drained, Append(up.out, y), up.fault)
  BY <1>12, <1>13
<1>15. Moves(up.cs, v.cs, d)
  BY <1>7, <1>10, <1>13
<1>16. IsConn(v.cs[d], "live", v.cs[d].half, v.cs[d].chans, up.cs[d].fwds, up.cs[d].globreq_head)
  BY <1>7, <1>10, <1>13 DEF IsConn
<1>17. HalfKept(up, v, d, <<y>>)
  BY <1>13 DEF HalfKept
<1>18. Gets(up.cs, v.cs, d, up.cs[d].chans \cup {NewRec(a, None, "UNACKNOWLEDGED")})
  BY <1>9, <1>13, <1>15 DEF Gets, Moves
<1>19. y.t = "open" /\ y.us = a /\ y.d = d
  BY <1>6 DEF Fields
<1>20. Channels(v.cs, v.chan, Append(toSrv, y), fromSrv, srv.ch)
  <2>1. Channels(v.cs, own, Append(toSrv, y), fromSrv, srv.ch)
    BY <1>1, <1>3, <1>4, <1>6, <1>18, <1>19, UpOpens
  <2> QED BY <1>13, <2>1
<1>21. y.t \in {"open", "conf", "close"}
  BY <1>19
<1> QED BY <1>2, <1>5, <1>6, <1>14, <1>15, <1>16, <1>17, <1>20, <1>21, ChanSent

\* A downstream accepts what the server has opened.
LEMMA DownConfirmInv ==
  ASSUME IInv, Running, NEW d \in Downs, DownConfirm(d)
  PROVE  IInv' /\ FreesStep
<1>1. /\ up \in Upstream /\ toSrv \in Seq(ToMsg) /\ fromSrv \in Seq(FromMsg) /\ ops \in Nat
      /\ Channels(up.cs, up.chan, toSrv, fromSrv, srv.ch) /\ up.cs[d].half \subseteq SrvIds
  BY Known, UpParts
<1> DEFINE a == FreeUpId(up)
           b == ssh2_alloc_sharing_channel(up, d)
           own == [up.chan EXCEPT ![a] = d]
           c(h) == NewRec(a, h, "OPEN")
           S(h) == b.cs[d].chans \cup {c(h)}
           H(h) == b.cs[d].half \ {h}
           e(h) == [b EXCEPT !.cs[d].chans = S(h), !.cs[d].half = H(h)]
           y(h) == [Msg("conf", d) EXCEPT !.us = a, !.sid = h]
           v(h) == Send(e(h), y(h))
<1>2. PICK h \in up.cs[d].half :
         /\ up.cs[d].st = "live" /\ (\E i \in UpIds : up.chan[i] = None)
         /\ Apply(Send([b EXCEPT !.cs[d].chans = @ \cup {c(h)}, !.cs[d].half = @ \ {h}], y(h)))
         /\ ops' = ops /\ fromSrv' = fromSrv /\ srv' = srv /\ gentle' = gentle
  BY DEF DownConfirm, NewRec
<1>3. /\ a \in UpIds /\ up.chan[a] = None
      /\ IsUp(b, up.cs, own, up.rpf, up.globreq, up.drained, up.out, up.fault)
  BY <1>1, <1>2, Allocates
<1>4. Becomes(up.chan, own, a, d)
  BY DEF Becomes
<1>5. h \in SrvIds
  BY <1>1
<1> DEFINE yh == y(h)
           ch == c(h)
           Sh == S(h)
           Hh == H(h)
           eh == e(h)
           vh == v(h)
<1>6. yh \in ToMsg /\ Fields(yh, "conf", d, a, h, None)
  BY <1>3, <1>5, ConfTo
<1> HIDE DEF a, b, own
<1>7. /\ b \in Upstream /\ b.cs = up.cs /\ b.chan = own /\ b.rpf = up.rpf /\ b.globreq = up.globreq
      /\ b.drained = up.drained /\ b.out = up.out /\ b.fault = up.fault
      /\ b.cs \in [Downs -> ConnState]
  <2>1. /\ b \in Upstream /\ b.cs = up.cs /\ b.chan = own /\ b.rpf = up.rpf /\ b.globreq = up.globreq
        /\ b.drained = up.drained /\ b.out = up.out /\ b.fault = up.fault
    BY <1>3 DEF IsUp
  <2> QED BY <2>1, UpParts
<1>8. Apply(vh)
  <2> HIDE DEF c, y
  <2>1. [b EXCEPT !.cs[d].chans = @ \cup {c(h)}, !.cs[d].half = @ \ {h}] = e(h)
    BY <1>7 DEF Upstream, ConnState
  <2> QED BY <1>2, <2>1
<1>9. ch \in ShareChannel /\ ch = NewRec(a, h, "OPEN")
  <2>1. h \in Opt(SrvIds) /\ "OPEN" \in ChanStates /\ "OPEN" \in Numbered
    BY <1>5 DEF Opt, ChanStates, Numbered
  <2> QED BY <1>3, <1>5, <2>1, RecIs
<1> HIDE DEF ch, yh
<1>10. Sh \in SUBSET ShareChannel /\ Sh = up.cs[d].chans \cup {NewRec(a, h, "OPEN")}
  <2>1. b.cs[d].chans \subseteq ShareChannel
    BY <1>7, UpParts
  <2>2. Sh = b.cs[d].chans \cup {ch}
    BY DEF ch
  <2> HIDE DEF Sh
  <2> QED BY <1>7, <1>9, <2>1, <2>2
<1>11. Hh \in SUBSET SrvIds /\ Hh = up.cs[d].half \ {h}
  BY <1>1, <1>7
<1>12. eh = [b EXCEPT !.cs[d].chans = Sh, !.cs[d].half = Hh] /\ vh = Send(eh, yh)
  BY DEF yh
<1> HIDE DEF Sh, Hh, eh, vh
<1>13. /\ IsUp(eh, eh.cs, b.chan, b.rpf, b.globreq, b.drained, b.out, b.fault)
       /\ Moves(b.cs, eh.cs, d)
       /\ IsConn(eh.cs[d], b.cs[d].st, Hh, Sh, b.cs[d].fwds, b.cs[d].globreq_head)
  BY <1>7, <1>10, <1>11, <1>12, PutBoth
<1>14. eh \in Upstream
  BY <1>13 DEF IsUp
<1>15. IsUp(vh, eh.cs, eh.chan, eh.rpf, eh.globreq, eh.drained, Append(eh.out, yh), eh.fault)
  BY <1>6, <1>12, <1>14, SendIs
<1>16. /\ eh.chan = own /\ eh.rpf = up.rpf /\ eh.globreq = up.globreq /\ eh.drained = up.drained /\ eh.out = up.out
       /\ eh.fault = up.fault /\ vh.cs = eh.cs /\ vh.chan = own
       /\ vh.cs[d].st = "live" /\ vh.cs[d].half = Hh /\ vh.cs[d].chans = Sh
  BY <1>2, <1>7, <1>13, <1>15 DEF IsUp, IsConn
<1>17. IsUp(vh, vh.cs, vh.chan, up.rpf, up.globreq, up.drained, Append(up.out, yh), up.fault)
  BY <1>15, <1>16
<1>18. Moves(up.cs, vh.cs, d)
  BY <1>7, <1>13, <1>16
<1>19. IsConn(vh.cs[d], "live", vh.cs[d].half, vh.cs[d].chans, up.cs[d].fwds, up.cs[d].globreq_head)
  BY <1>7, <1>13, <1>16 DEF IsConn
<1>20. yh.t = "conf" /\ yh.us = a /\ yh.d = d /\ yh.sid = h
  BY <1>6 DEF Fields
<1>21. HalfKept(up, vh, d, <<yh>>)
  <2> DEFINE x == <<yh>>
  <2>1. Len(x) = 1 /\ x[1] = yh
    BY <1>6
  <2> HIDE DEF x
  <2>2. Answers(x, h)
    BY <1>20, <2>1 DEF Answers
  <2>3. HalfKept(up, vh, d, x)
    BY <1>11, <1>16, <2>2 DEF HalfKept
  <2> QED BY <2>3 DEF x
<1>22. Gets(up.cs, vh.cs, d, up.cs[d].chans \cup {NewRec(a, h, "OPEN")})
  BY <1>10, <1>16, <1>18 DEF Gets, Moves
<1>23. Channels(vh.cs, vh.chan, Append(toSrv, yh), fromSrv, srv.ch)
  <2>1. Channels(vh.cs, own, Append(toSrv, yh), fromSrv, srv.ch)
    BY <1>1, <1>3, <1>4, <1>5, <1>6, <1>20, <1>22, UpConfirms
  <2> QED BY <1>16, <2>1
<1>24. yh.t \in {"open", "conf", "close"} /\ ops' \in Nat
  BY <1>1, <1>2, <1>20
<1> QED BY <1>2, <1>6, <1>8, <1>17, <1>18, <1>19, <1>21, <1>23, <1>24, ChanSent

\* share_remove_channel().
LEMMA RemoveIs ==
  ASSUME NEW u \in Upstream, NEW d \in Downs, NEW c \in ShareChannel, NEW v, v = share_remove_channel(u, d, c)
  PROVE  /\ IsUp(v, v.cs, v.chan, u.rpf, u.globreq, u.drained, u.out, u.fault)
         /\ Moves(u.cs, v.cs, d)
         /\ IsConn(v.cs[d], u.cs[d].st, u.cs[d].half, u.cs[d].chans \ {c}, u.cs[d].fwds, u.cs[d].globreq_head)
         /\ Becomes(u.chan, v.chan, c.us, None)
<1> DEFINE S == u.cs[d].chans \ {c}
           a == [u EXCEPT !.cs[d].chans = S]
           own == [u.chan EXCEPT ![c.us] = None]
<1>1. S \in SUBSET ShareChannel
  BY UpParts
<1>2. own \in [UpIds -> Opt(Downs)] /\ Becomes(u.chan, own, c.us, None)
  <2>1. None \in Opt(Downs) /\ u.chan \in [UpIds -> Opt(Downs)]
    BY UpParts DEF Opt
  <2> QED BY <2>1 DEF Becomes
<1>3. v = [a EXCEPT !.chan = own]
  BY DEF share_remove_channel
<1> HIDE DEF S
<1>4. /\ IsUp(a, a.cs, u.chan, u.rpf, u.globreq, u.drained, u.out, u.fault)
      /\ Moves(u.cs, a.cs, d)
      /\ IsConn(a.cs[d], u.cs[d].st, u.cs[d].half, S, u.cs[d].fwds, u.cs[d].globreq_head)
  BY <1>1, PutChans
<1> HIDE DEF a, own
<1>5. IsUp(v, a.cs, own, u.rpf, u.globreq, u.drained, u.out, u.fault)
  BY <1>2, <1>3, <1>4, PutChan
<1>6. v.cs = a.cs /\ v.chan = own
  BY <1>5 DEF IsUp
<1> QED BY <1>2, <1>4, <1>5, <1>6 DEF S

\* A channel's record changes its state.
LEMMA SetStateIs ==
  ASSUME NEW u \in Upstream, NEW d \in Downs, NEW c \in ShareChannel, NEW s \in ChanStates,
         c.sid \in SrvIds <=> s \in Numbered, NEW v, v = SetState(u, d, c, s)
  PROVE  /\ IsUp(v, v.cs, u.chan, u.rpf, u.globreq, u.drained, u.out, u.fault)
         /\ Moves(u.cs, v.cs, d)
         /\ IsConn(v.cs[d], u.cs[d].st, u.cs[d].half, (u.cs[d].chans \ {c}) \cup {NewRec(c.us, c.sid, s)},
                   u.cs[d].fwds, u.cs[d].globreq_head)
<1> DEFINE r == NewRec(c.us, c.sid, s)
           S == (u.cs[d].chans \ {c}) \cup {r}
<1>1. c.us \in UpIds /\ c.sid \in Opt(SrvIds)
  BY DEF ShareChannel
<1>2. r \in ShareChannel
  BY <1>1, RecIs
<1>3. [c EXCEPT !.st = s] = r
  BY DEF ShareChannel, NewRec
<1> HIDE DEF r
<1>4. S \in SUBSET ShareChannel
  BY <1>2, UpParts
<1>5. v = [u EXCEPT !.cs[d].chans = S]
  BY <1>3 DEF SetState
<1> HIDE DEF S
<1>6. /\ IsUp(v, v.cs, u.chan, u.rpf, u.globreq, u.drained, u.out, u.fault)
      /\ Moves(u.cs, v.cs, d)
      /\ IsConn(v.cs[d], u.cs[d].st, u.cs[d].half, S, u.cs[d].fwds, u.cs[d].globreq_head)
  BY <1>4, <1>5, PutChans
<1> QED BY <1>6 DEF S, r

\* A downstream closes a channel.
LEMMA DownCloseInv ==
  ASSUME IInv, Running, NEW d \in Downs, DownClose(d)
  PROVE  IInv' /\ FreesStep
<1>1. /\ up \in Upstream /\ toSrv \in Seq(ToMsg) /\ fromSrv \in Seq(FromMsg) /\ ops \in Nat
      /\ Channels(up.cs, up.chan, toSrv, fromSrv, srv.ch) /\ up.cs[d].chans \subseteq ShareChannel
  BY Known, UpParts
<1>2. PICK c \in up.cs[d].chans :
         /\ up.cs[d].st = "live" /\ c.st \in {"OPEN", "RCVD_CLOSE"}
         /\ Apply(IF c.st = "RCVD_CLOSE" THEN share_remove_channel(Send(up, CloseMsg(d, c)), d, c)
                  ELSE SetState(Send(up, CloseMsg(d, c)), d, c, "SENT_CLOSE"))
         /\ ops' = ops /\ fromSrv' = fromSrv /\ srv' = srv /\ gentle' = gentle
  BY DEF DownClose
<1> DEFINE y == CloseMsg(d, c)
           b == Send(up, y)
           F == "SENT_CLOSE"
           v == IF c.st = "RCVD_CLOSE" THEN share_remove_channel(b, d, c) ELSE SetState(b, d, c, F)
<1>3. c \in ShareChannel /\ c.us \in UpIds /\ c.sid \in SrvIds
  <2>1. c \in ShareChannel
    BY <1>1
  <2>2. c.us \in UpIds /\ (c.sid \in SrvIds <=> c.st \in Numbered)
    BY <2>1 DEF ShareChannel
  <2> QED BY <1>2, <2>1, <2>2 DEF Numbered
<1>4. y \in ToMsg /\ Fields(y, "close", d, c.us, c.sid, None)
  BY <1>3, CloseTo
<1>5. y.t = "close" /\ y.us = c.us /\ y.d = d /\ y.sid = c.sid
  BY <1>4 DEF Fields
<1>6. Apply(v)
  BY <1>2
<1> HIDE DEF y
<1>7. IsUp(b, up.cs, up.chan, up.rpf, up.globreq, up.drained, Append(up.out, y), up.fault)
  BY <1>1, <1>4, SendIs
<1> HIDE DEF b
<1>8. /\ b \in Upstream /\ b.cs = up.cs /\ b.chan = up.chan /\ b.rpf = up.rpf /\ b.globreq = up.globreq
      /\ b.drained = up.drained /\ b.out = Append(up.out, y) /\ b.fault = up.fault
  BY <1>7 DEF IsUp
<1>9. F \in ChanStates /\ (c.sid \in SrvIds <=> F \in Numbered)
  BY <1>3 DEF ChanStates, Numbered
<1>10. /\ IsUp(v, v.cs, v.chan, up.rpf, up.globreq, up.drained, Append(up.out, y), up.fault)
       /\ Moves(up.cs, v.cs, d)
       /\ IsConn(v.cs[d], "live", up.cs[d].half, v.cs[d].chans, up.cs[d].fwds, up.cs[d].globreq_head)
       /\ Channels(v.cs, v.chan, Append(toSrv, y), fromSrv, srv.ch)
  <2>1. CASE c.st = "RCVD_CLOSE"
    <3>1. v = share_remove_channel(b, d, c)
      BY <2>1
    <3> HIDE DEF v
    <3>2. /\ IsUp(v, v.cs, v.chan, up.rpf, up.globreq, up.drained, Append(up.out, y), up.fault)
          /\ Moves(up.cs, v.cs, d)
          /\ IsConn(v.cs[d], "live", up.cs[d].half, up.cs[d].chans \ {c}, up.cs[d].fwds, up.cs[d].globreq_head)
          /\ Becomes(up.chan, v.chan, c.us, None)
      <4>1. /\ IsUp(v, v.cs, v.chan, b.rpf, b.globreq, b.drained, b.out, b.fault)
            /\ Moves(b.cs, v.cs, d)
            /\ IsConn(v.cs[d], b.cs[d].st, b.cs[d].half, b.cs[d].chans \ {c}, b.cs[d].fwds, b.cs[d].globreq_head)
            /\ Becomes(b.chan, v.chan, c.us, None)
        BY <1>3, <1>8, <3>1, RemoveIs
      <4> QED BY <1>2, <1>8, <4>1
    <3>3. Gets(up.cs, v.cs, d, up.cs[d].chans \ {c})
      BY <3>2 DEF Gets, Moves, IsConn
    <3>4. Channels(v.cs, v.chan, Append(toSrv, y), fromSrv, srv.ch)
      BY <1>1, <1>2, <1>3, <1>4, <1>5, <2>1, <3>2, <3>3, UpAnswers
    <3> QED BY <3>2, <3>4 DEF IsConn
  <2>2. CASE c.st = "OPEN"
    <3>1. v = SetState(b, d, c, F)
      BY <2>2
    <3> HIDE DEF v, F
    <3>2. /\ IsUp(v, v.cs, up.chan, up.rpf, up.globreq, up.drained, Append(up.out, y), up.fault)
          /\ Moves(up.cs, v.cs, d)
          /\ IsConn(v.cs[d], "live", up.cs[d].half, (up.cs[d].chans \ {c}) \cup {NewRec(c.us, c.sid, F)},
                    up.cs[d].fwds, up.cs[d].globreq_head)
      <4>1. /\ IsUp(v, v.cs, b.chan, b.rpf, b.globreq, b.drained, b.out, b.fault)
            /\ Moves(b.cs, v.cs, d)
            /\ IsConn(v.cs[d], b.cs[d].st, b.cs[d].half, (b.cs[d].chans \ {c}) \cup {NewRec(c.us, c.sid, F)},
                      b.cs[d].fwds, b.cs[d].globreq_head)
        BY <1>3, <1>8, <1>9, <3>1, SetStateIs
      <4> QED BY <1>2, <1>8, <4>1
    <3>3. Gets(up.cs, v.cs, d, (up.cs[d].chans \ {c}) \cup {NewRec(c.us, c.sid, "SENT_CLOSE")})
      BY <3>2 DEF Gets, Moves, IsConn, F
    <3>4. v.chan = up.chan
      BY <3>2 DEF IsUp
    <3>5. Channels(v.cs, v.chan, Append(toSrv, y), fromSrv, srv.ch)
      BY <1>1, <1>2, <1>3, <1>4, <1>5, <2>2, <3>3, <3>4, UpCloses
    <3> QED BY <3>2, <3>4, <3>5 DEF IsConn
  <2> QED BY <1>2, <2>1, <2>2
<1> HIDE DEF v
<1>11. v.cs[d].half = up.cs[d].half
  BY <1>10 DEF IsConn
<1>12. HalfKept(up, v, d, <<y>>)
  BY <1>11 DEF HalfKept
<1>13. IsConn(v.cs[d], "live", v.cs[d].half, v.cs[d].chans, up.cs[d].fwds, up.cs[d].globreq_head)
  BY <1>10, <1>11
<1>14. y.t \in {"open", "conf", "close"} /\ ops' \in Nat
  BY <1>1, <1>2, <1>5
<1> QED BY <1>2, <1>4, <1>6, <1>10, <1>12, <1>13, <1>14, ChanSent

\* A channel the server opens, and one that it closes.
LEMMA OpeningChannel ==
  ASSUME NEW d \in Downs, NEW c, c = [Free0 EXCEPT !.st = "opening", !.d = d]
  PROVE  c \in SrvChannel /\ c.st = "opening"
<1>1. d \in Opt(Downs) /\ None \in Opt(UpIds)
  BY DEF Opt
<1> DEFINE W == FALSE
<1>2. c = [st |-> "opening", us |-> None, d |-> d, sentClose |-> W] /\ W \in BOOLEAN
  BY DEF Free0
<1> HIDE DEF W
<1>3. c.st = "opening" /\ c.d = d
  BY <1>2
<1> QED BY <1>1, <1>2, <1>3 DEF SrvChannel

\* A channel of the server on which it has sent CHANNEL_CLOSE.
LEMMA ShutChannel ==
  ASSUME NEW c \in SrvChannel, c.st = "open", NEW t, t = [c EXCEPT !.sentClose = TRUE]
  PROVE  t \in SrvChannel /\ t.st = "open" /\ t.us = c.us /\ t.d = c.d /\ t.sentClose
<1>1. c \in [st : {"free", "opening", "open"}, us : Opt(UpIds), d : Opt(Downs), sentClose : BOOLEAN]
      /\ c.d \in Downs /\ c.us \in UpIds
  BY DEF SrvChannel
<1> DEFINE W == TRUE
<1>2. W \in BOOLEAN /\ W /\ t = [c EXCEPT !.sentClose = W]
  OBVIOUS
<1> HIDE DEF W
<1>3. /\ t \in [st : {"free", "opening", "open"}, us : Opt(UpIds), d : Opt(Downs), sentClose : BOOLEAN]
      /\ t.st = c.st /\ t.us = c.us /\ t.d = c.d /\ t.sentClose = W
  BY <1>1, <1>2
<1>4. t.st = "open" /\ t.us = c.us /\ t.d = c.d /\ t.sentClose
  BY <1>2, <1>3
<1> QED BY <1>1, <1>3, <1>4 DEF SrvChannel

\* Somebody connects to a port the server listens on.
LEMMA SrvOpenInv ==
  ASSUME IInv, Running, NEW p \in Ports, SrvOpen(p)
  PROVE  IInv'
<1>0. /\ Typed /\ up \in Upstream /\ toSrv \in Seq(ToMsg) /\ fromSrv \in Seq(FromMsg)
      /\ srv \in Server /\ srv.content /\ ops \in Nat /\ gentle \in BOOLEAN
      /\ Channels(up.cs, up.chan, toSrv, fromSrv, srv.ch)
      /\ Announced(up.cs, toSrv, fromSrv, srv.ch)
      /\ gentle => Forwardings(up.cs, up.rpf, up.globreq, toSrv, fromSrv, srv.fwd)
      /\ srv.fwd \in [Ports -> Opt(Downs)] /\ up.globreq \in Seq(Downs)
  BY Known, UpParts DEF Server
<1> DEFINE d == srv.fwd[p]
           c == [Free0 EXCEPT !.st = "opening", !.d = d]
           y(i) == [Msg("open", d) EXCEPT !.sid = i, !.p = p]
<1>1. PICK i \in SrvIds :
        /\ d # None /\ srv.ch[i].st = "free"
        /\ SetsCh(srv, srv', i, c)
        /\ fromSrv' = Append(fromSrv, y(i))
        /\ ops' = ops + 1 /\ up' = up /\ toSrv' = toSrv /\ gentle' = gentle
  BY DEF SrvOpen, SetsCh, Reply
<1> DEFINE m == y(i)
<1>2. d \in Downs
  BY <1>0, <1>1 DEF Opt
<1>3. c \in SrvChannel /\ c.st = "opening"
  BY <1>2, OpeningChannel
<1>30. m \in FromMsg /\ Fields(m, "open", d, None, i, p)
  BY <1>2, OpenFrom
<1>5. fromSrv' = Append(fromSrv, m)
  BY <1>1
<1> HIDE DEF c, m, y
<1>4. m \in FromMsg /\ m.t = "open" /\ m.sid = i /\ m.p = p
  BY <1>30 DEF Fields
<1>6. /\ srv' \in Server /\ fromSrv' \in Seq(FromMsg) /\ srv'.fwd = srv.fwd /\ srv'.ch[i] = c
      /\ \A h \in SrvIds : h # i => srv'.ch[h] = srv.ch[h]
  BY ChChange, <1>0, <1>1, <1>3, <1>4, <1>5
<1>7. Channels(up.cs, up.chan, toSrv, fromSrv', srv'.ch)
  <2>1. \A u \in UpIds : SameS(srv.ch, srv'.ch, u)
    <3>1. \A h \in SrvIds : srv'.ch[h] = srv.ch[h] \/ (srv.ch[h].st # "open" /\ srv'.ch[h].st # "open")
      BY <1>1, <1>3, <1>6
    <3> QED BY <3>1, SameChannels
  <2>2. SameTo(toSrv, toSrv) /\ SameFrom(fromSrv, fromSrv')
    <3>1. SameTo(toSrv, toSrv)
      BY <1>0, SameTos
    <3>2. SameFrom(fromSrv, fromSrv')
      BY <1>0, <1>4, <1>5, SameFroms
    <3> QED BY <3>1, <3>2
  <2> QED BY <1>0, <2>1, <2>2, ChannelsKept
<1>8. Announced(up.cs, toSrv, fromSrv', srv'.ch)
  <2> SUFFICES ASSUME NEW h \in SrvIds, srv'.ch[h].st = "opening"
               PROVE  Answers(toSrv, h) \/ Calls(fromSrv', h) \/ \E e \in Downs : h \in up.cs[e].half
    BY Announcing
  <2>1. CASE h = i
    BY <1>0, <1>4, <1>5, <2>1, Called
  <2>2. CASE h # i
    <3>1. Answers(toSrv, h) \/ Calls(fromSrv, h) \/ \E e \in Downs : h \in up.cs[e].half
      BY <1>0, <1>6, <2>2, Announcing
    <3>2. Calls(fromSrv, h) => Calls(fromSrv', h)
      BY <1>0, <1>4, <1>5, Called
    <3> QED BY <3>1, <3>2
  <2> QED BY <2>1, <2>2
<1>9. gentle => Forwardings(up.cs, up.rpf, up.globreq, toSrv, fromSrv', srv'.fwd)
  BY <1>0, <1>1, <1>4, <1>5, <1>6, ServerAnnounces
<1>10. ops' \in Nat
  BY <1>0, <1>1
<1> QED BY <1>0, <1>1, <1>6, <1>7, <1>8, <1>9, <1>10, ServerStep

\* The far end of a channel closes.
LEMMA SrvCloseInv ==
  ASSUME IInv, Running, SrvClose
  PROVE  IInv'
<1>0. /\ Typed /\ up \in Upstream /\ toSrv \in Seq(ToMsg) /\ fromSrv \in Seq(FromMsg)
      /\ srv \in Server /\ srv.content /\ ops \in Nat /\ gentle \in BOOLEAN
      /\ Channels(up.cs, up.chan, toSrv, fromSrv, srv.ch)
      /\ Announced(up.cs, toSrv, fromSrv, srv.ch)
      /\ gentle => Forwardings(up.cs, up.rpf, up.globreq, toSrv, fromSrv, srv.fwd)
      /\ \A h \in SrvIds : srv.ch[h] \in SrvChannel
  BY Known DEF Server
<1> DEFINE c(i) == [srv.ch[i] EXCEPT !.sentClose = TRUE]
           y(i) == [Msg("close", srv.ch[i].d) EXCEPT !.us = srv.ch[i].us]
<1>1. PICK i \in SrvIds :
        /\ srv.ch[i].st = "open" /\ ~srv.ch[i].sentClose
        /\ srv' = [srv EXCEPT !.ch[i].sentClose = TRUE]
        /\ fromSrv' = Append(fromSrv, y(i))
        /\ up' = up /\ toSrv' = toSrv /\ ops' = ops /\ gentle' = gentle
  BY DEF SrvClose, Reply
<1> DEFINE t == c(i)
           m == y(i)
           a == srv.ch[i].us
           d == srv.ch[i].d
<1>2. d \in Downs /\ a \in UpIds
  BY <1>0, <1>1 DEF SrvChannel
<1>3. t \in SrvChannel /\ t.st = "open" /\ t.us = a /\ t.d = d /\ t.sentClose
  BY <1>0, <1>1, ShutChannel
<1>30. m \in FromMsg /\ Fields(m, "close", d, a, None, None)
  BY <1>2, LastFrom DEF Kinds
<1>5. SetsCh(srv, srv', i, t) /\ fromSrv' = Append(fromSrv, m)
  BY <1>1 DEF SetsCh
<1> HIDE DEF t, m, y, c
<1>4. m \in FromMsg /\ m.t = "close" /\ m.us = a /\ m.d = d
  BY <1>30 DEF Fields
<1>6. /\ srv' \in Server /\ fromSrv' \in Seq(FromMsg) /\ srv'.fwd = srv.fwd /\ srv'.ch[i] = t
      /\ \A h \in SrvIds : h # i => srv'.ch[h] = srv.ch[h]
  BY ChChange, <1>0, <1>3, <1>4, <1>5
<1>7. Channels(up.cs, up.chan, toSrv, fromSrv', srv'.ch)
  <2>1. /\ srv.ch[i].st = "open" /\ srv.ch[i].us = a /\ ~srv.ch[i].sentClose
        /\ srv'.ch[i].st = "open" /\ srv'.ch[i].us = a /\ srv'.ch[i].d = srv.ch[i].d /\ srv'.ch[i].sentClose
        /\ m.us = a /\ m.d = srv.ch[i].d /\ m.t = "close"
    BY <1>1, <1>3, <1>4, <1>6
  <2>2. Channels(up.cs, up.chan, toSrv, Append(fromSrv, m), srv'.ch)
    BY <1>0, <1>2, <1>4, <1>6, <2>1, SMTT(60), SrvShuts
  <2> QED BY <1>5, <2>2
<1>8. Announced(up.cs, toSrv, fromSrv', srv'.ch)
  <2> SUFFICES ASSUME NEW h \in SrvIds, srv'.ch[h].st = "opening"
               PROVE  Answers(toSrv, h) \/ Calls(fromSrv', h) \/ \E e \in Downs : h \in up.cs[e].half
    BY Announcing
  <2>1. h # i
    BY <1>3, <1>6
  <2>2. Answers(toSrv, h) \/ Calls(fromSrv, h) \/ \E e \in Downs : h \in up.cs[e].half
    BY <1>0, <1>6, <2>1, Announcing
  <2>3. Calls(fromSrv, h) => Calls(fromSrv', h)
    BY <1>0, <1>4, <1>5, Called
  <2> QED BY <2>2, <2>3
<1>9. gentle => Forwardings(up.cs, up.rpf, up.globreq, toSrv, fromSrv', srv'.fwd)
  <2>1. SameToPorts(toSrv, toSrv) /\ SameFromPorts(fromSrv, fromSrv')
    <3>1. SameToPorts(toSrv, toSrv)
      BY <1>0, SameTos
    <3>2. SameFromPorts(fromSrv, fromSrv')
      BY <1>0, <1>4, <1>5, SameFroms
    <3> QED BY <3>1, <3>2
  <2>2. gentle => StateP(up.cs)
    BY <1>0, PortFacts
  <2> QED BY <1>0, <1>6, <2>1, <2>2, ForwardingsKept
<1> QED BY <1>0, <1>1, <1>6, <1>7, <1>8, <1>9, ServerStep

\* A global request: the packet, and the place in the upstream's list.
LEMMA RequestIs ==
  ASSUME NEW u \in Upstream, NEW d \in Downs, NEW t \in {"forward", "cancel"}, NEW p \in Ports,
         NEW v, v = Request(u, d, t, p)
  PROVE  \E y \in ToMsg :
           /\ Fields(y, t, d, None, None, p) /\ y.wr
           /\ IsUp(v, u.cs, u.chan, u.rpf, v.globreq, u.drained, Append(u.out, y), v.fault)
           /\ u.fault # "none" => v.fault = u.fault
           /\ u.fault = "none" =>
                \/ v.fault = "list"
                \/ v.fault = "none" /\ v.globreq = Append(u.globreq, d)
<1> DEFINE y == [Msg(t, d) EXCEPT !.p = p, !.wr = TRUE]
           a == Send(u, y)
<1>1. y \in ToMsg /\ Fields(y, t, d, None, None, p) /\ y.wr
  BY RequestTo
<1>2. v = QueueGlobal(a, d)
  BY DEF Request
<1> HIDE DEF y
<1>3. IsUp(a, u.cs, u.chan, u.rpf, u.globreq, u.drained, Append(u.out, y), u.fault)
  BY <1>1, SendIs
<1> HIDE DEF a
<1>4. a \in Upstream /\ a.globreq = u.globreq /\ a.fault = u.fault /\ a.cs = u.cs /\ a.chan = u.chan /\ a.rpf = u.rpf
      /\ a.drained = u.drained /\ a.out = Append(u.out, y)
  BY <1>3 DEF IsUp
<1>5. CASE a.drained
  <2> DEFINE why == "list"
  <2>1. v = Fault(a, why) /\ why \in Faults
    BY <1>2, <1>5 DEF QueueGlobal, Faults
  <2> HIDE DEF why
  <2>2. /\ IsUp(v, a.cs, a.chan, a.rpf, a.globreq, a.drained, a.out, v.fault)
        /\ a.fault = "none" => v.fault = why
        /\ a.fault # "none" => v.fault = a.fault
    BY <1>4, <2>1, FaultIs
  <2>3. v.globreq = u.globreq
    BY <1>4, <2>2 DEF IsUp
  <2> QED BY <1>1, <1>4, <2>2, <2>3 DEF why
<1>6. CASE ~a.drained
  <2> DEFINE g == Append(a.globreq, d)
  <2>1. v = [a EXCEPT !.globreq = g]
    BY <1>2, <1>6 DEF QueueGlobal
  <2>2. g \in Seq(Downs)
    BY <1>4, UpParts
  <2> HIDE DEF g
  <2>3. IsUp(v, u.cs, u.chan, u.rpf, g, u.drained, Append(u.out, y), u.fault)
    BY <1>3, <2>1, <2>2, PutList
  <2>4. v.globreq = g /\ v.fault = u.fault
    BY <2>3 DEF IsUp
  <2>5. g = Append(u.globreq, d)
    BY <1>4 DEF g
  <2> QED BY <1>1, <2>3, <2>4, <2>5
<1> QED BY <1>5, <1>6

\* A downstream's own record of it.
LEMMA EnqueueIs ==
  ASSUME NEW u \in Upstream, NEW d \in Downs, NEW t \in {"forward", "cancel"}, NEW p \in Ports,
         NEW v, v = Enqueue(u, d, t, p)
  PROVE  /\ IsUp(v, v.cs, u.chan, u.rpf, u.globreq, u.drained, u.out, u.fault)
         /\ Moves(u.cs, v.cs, d)
         /\ IsConn(v.cs[d], u.cs[d].st, u.cs[d].half, u.cs[d].chans, u.cs[d].fwds, v.cs[d].globreq_head)
         /\ Waits(v.cs[d], t, p)
<1> DEFINE g == [type |-> t, p |-> p]
<1>1. g \in ShareGlobreq /\ g.type = t /\ g.p = p
  BY DEF ShareGlobreq
<1>2. g # None
  BY <1>1, ConstAssumption DEF ShareGlobreq
<1>3. v = [u EXCEPT !.cs[d].globreq_head = g]
  BY DEF Enqueue
<1> HIDE DEF g
<1>4. g \in Opt(ShareGlobreq)
  BY <1>1 DEF Opt
<1>5. /\ IsUp(v, v.cs, u.chan, u.rpf, u.globreq, u.drained, u.out, u.fault)
      /\ Moves(u.cs, v.cs, d)
      /\ IsConn(v.cs[d], u.cs[d].st, u.cs[d].half, u.cs[d].chans, u.cs[d].fwds, g)
  BY <1>3, <1>4, PutHead
<1>6. v.cs[d].globreq_head = g
  BY <1>5 DEF IsConn
<1> QED BY <1>1, <1>2, <1>5, <1>6 DEF Waits

\* ssh2_rportfwd_remove() through the pointer of a forwarding.
LEMMA RpfRemoved ==
  ASSUME NEW u \in Upstream, NEW d \in Downs, NEW p \in Ports, NEW v, v = RportfwdRemove(u, d, p)
  PROVE  /\ ~u.cs[d].fwds[p].rpf =>
              /\ IsUp(v, u.cs, u.chan, u.rpf, u.globreq, u.drained, u.out, v.fault)
              /\ v.fault # "none"
         /\ u.cs[d].fwds[p].rpf =>
              /\ IsUp(v, v.cs, u.chan, v.rpf, u.globreq, u.drained, u.out, u.fault)
              /\ Moves(u.cs, v.cs, d)
              /\ IsConn(v.cs[d], u.cs[d].st, u.cs[d].half, u.cs[d].chans, v.cs[d].fwds, u.cs[d].globreq_head)
              /\ Sets(u.cs[d].fwds, v.cs[d].fwds, p, v.cs[d].fwds[p])
              /\ v.cs[d].fwds[p].st = u.cs[d].fwds[p].st /\ ~v.cs[d].fwds[p].rpf
              /\ Sets(u.rpf, v.rpf, p, None)
<1> DEFINE e == u.cs[d].fwds[p]
<1>1. e \in ShareForwarding /\ e.st \in {"none", "waiting", "active"} /\ e.rpf \in BOOLEAN
  <2>1. u.cs[d].fwds \in [Ports -> ShareForwarding]
    BY UpParts
  <2> QED BY <2>1, FwdFields DEF ShareForwarding
<1>2. CASE ~e.rpf
  <2> DEFINE why == "rpf"
  <2>1. v = Fault(u, why) /\ why \in Faults
    BY <1>2 DEF RportfwdRemove, Faults
  <2> HIDE DEF why
  <2>2. /\ IsUp(v, u.cs, u.chan, u.rpf, u.globreq, u.drained, u.out, v.fault)
        /\ u.fault = "none" => v.fault = why
        /\ u.fault # "none" => v.fault = u.fault
    BY <2>1, FaultIs
  <2>3. v.fault # "none"
    BY <2>2 DEF why
  <2> QED BY <1>2, <2>2, <2>3
<1>3. CASE e.rpf
  <2> DEFINE W == FALSE
             x == [e EXCEPT !.rpf = W]
             r == [u.rpf EXCEPT ![p] = None]
             a == [u EXCEPT !.rpf = r]
  <2>1. v = [a EXCEPT !.cs[d].fwds[p] = x]
    <3>1. v = [u EXCEPT !.rpf[p] = None, !.cs[d].fwds[p].rpf = FALSE]
      BY <1>3 DEF RportfwdRemove
    <3> QED BY <3>1 DEF Upstream
  <2>2. r \in [Ports -> Opt(Downs)] /\ Sets(u.rpf, r, p, None)
    <3>1. u.rpf \in [Ports -> Opt(Downs)] /\ None \in Opt(Downs)
      BY UpParts DEF Opt
    <3> QED BY <3>1 DEF Sets
  <2> W \in BOOLEAN /\ ~W
    OBVIOUS
  <2> HIDE DEF W
  <2>3. x \in ShareForwarding /\ x.st = e.st /\ x.rpf = W
    <3> HIDE DEF e
    <3> QED BY <1>1 DEF ShareForwarding
  <2> HIDE DEF x, r
  <2>4. IsUp(a, u.cs, u.chan, r, u.globreq, u.drained, u.out, u.fault)
    BY <2>2, UpParts, PutRpf
  <2> HIDE DEF a
  <2>5. a \in Upstream /\ a.cs = u.cs /\ a.chan = u.chan /\ a.rpf = r /\ a.globreq = u.globreq
        /\ a.drained = u.drained /\ a.out = u.out /\ a.fault = u.fault
    BY <2>4 DEF IsUp
  <2>6. /\ IsUp(v, v.cs, a.chan, a.rpf, a.globreq, a.drained, a.out, a.fault)
        /\ Moves(a.cs, v.cs, d)
        /\ IsConn(v.cs[d], a.cs[d].st, a.cs[d].half, a.cs[d].chans, v.cs[d].fwds, a.cs[d].globreq_head)
        /\ Sets(a.cs[d].fwds, v.cs[d].fwds, p, x)
    BY <2>1, <2>3, <2>5, PutFwd
  <2>7. v.rpf = r /\ v.cs[d].fwds[p] = x
    BY <2>5, <2>6 DEF IsUp, Sets
  <2>8. /\ IsUp(v, v.cs, u.chan, v.rpf, u.globreq, u.drained, u.out, u.fault)
        /\ Moves(u.cs, v.cs, d)
        /\ IsConn(v.cs[d], u.cs[d].st, u.cs[d].half, u.cs[d].chans, v.cs[d].fwds, u.cs[d].globreq_head)
        /\ Sets(u.cs[d].fwds, v.cs[d].fwds, p, v.cs[d].fwds[p])
    BY <2>5, <2>6, <2>7
  <2> QED BY <1>3, <2>2, <2>3, <2>7, <2>8
<1> QED BY <1>1, <1>2, <1>3

\* A downstream that is there makes a request.
LEMMA ReqSent ==
  ASSUME IInv, Running, NEW d \in Downs, up.cs[d].st = "live",
         NEW y \in ToMsg, y.t \in {"forward", "cancel"}, NEW v, NEW p \in Ports, NEW o \in {d, None},
         Sets(up.rpf, v.rpf, p, o),
         IsUp(v, v.cs, up.chan, v.rpf, v.globreq, v.drained, Append(up.out, y), v.fault),
         Moves(up.cs, v.cs, d),
         IsConn(v.cs[d], "live", up.cs[d].half, up.cs[d].chans, v.cs[d].fwds, v.cs[d].globreq_head),
         Apply(v), fromSrv' = fromSrv, srv' = srv, ops' \in Nat, gentle' \in BOOLEAN, gentle' => gentle,
         gentle' => v.fault \in {"none", "list"},
         gentle' /\ v.fault = "none" =>
            Forwardings(v.cs, v.rpf, v.globreq, Append(toSrv, y), fromSrv, srv.fwd)
  PROVE  IInv' /\ FreesStep
<1>1. /\ up \in Upstream /\ up.out = << >> /\ up.fault = "none" /\ toSrv \in Seq(ToMsg) /\ fromSrv \in Seq(FromMsg)
      /\ Sound(up, toSrv, fromSrv, srv)
      /\ gentle => SoundPorts(up, up.globreq, toSrv, fromSrv, srv) /\ Cleaned(up.cs)
  BY Known, Starts
<1> DEFINE x == <<y>>
           b == up.out
<1>2. b \in Seq(ToMsg) /\ b = << >>
  BY <1>1, UpParts
<1> HIDE DEF x, b
<1>3. x \in Seq(ToMsg) /\ Append(b, y) = b \o x /\ Append(toSrv, y) = toSrv \o x /\ Len(x) = 1 /\ x[1] = y
  BY <1>1, <1>2, OnePacket DEF x
<1>4. toSrv \o (b \o x) = toSrv \o x
  BY <1>1, <1>2, <1>3, Longer, Joined
<1>5. \A k \in 1..Len(x) : x[k].t \in AboutPort
  BY <1>3 DEF AboutPort
<1>6. IsUp(v, v.cs, up.chan, v.rpf, v.globreq, v.drained, up.out \o x, v.fault)
  BY <1>3 DEF b
<1>7. /\ v \in Upstream /\ v.cs[d].st = "live" /\ v.cs[d].half = up.cs[d].half /\ v.cs[d].chans = up.cs[d].chans
      /\ v.out = b \o x
  BY <1>6 DEF IsUp, IsConn, b
<1>8. Leaves(v)
  BY <1>7, Applied
<1>9. Sound(v, toSrv, fromSrv, srv)
  <2>1. \A q \in Ports : v.rpf[q] = up.rpf[q] \/ v.rpf[q] = None \/ (v.rpf[q] = d /\ v.cs[d].st # "none")
    BY <1>7 DEF Sets
  <2> DEFINE r == v.rpf
  <2>2. StructOnly(up, v, d, x, r)
    BY <1>5, <1>7, <2>1 DEF StructOnly
  <2>3. IsUp(v, v.cs, up.chan, r, v.globreq, v.drained, up.out \o x, v.fault)
    BY <1>6
  <2> HIDE DEF r
  <2> QED BY <1>1, <1>3, <2>2, <2>3, StructKept
<1>10. v.fault = "none" /\ gentle' => SoundPorts(v, v.globreq, toSrv, fromSrv, srv) /\ Cleaned(v.cs)
  <2> SUFFICES ASSUME v.fault = "none", gentle'
               PROVE  SoundPorts(v, v.globreq, toSrv, fromSrv, srv) /\ Cleaned(v.cs)
    OBVIOUS
  <2>1. Forwardings(v.cs, v.rpf, v.globreq, Append(toSrv, y), fromSrv, srv.fwd)
    OBVIOUS
  <2>2. toSrv \o v.out = Append(toSrv, y)
    BY <1>3, <1>4, <1>7
  <2>3. Cleaned(v.cs)
    BY <1>1, <1>7, CleanedMoves
  <2> QED BY <2>1, <2>2, <2>3 DEF SoundPorts
<1>11. FreesStep
  BY <1>7, <1>8, StructFreed DEF Tried
<1> QED BY <1>1, <1>7, <1>8, <1>9, <1>10, <1>11, UpStep

\* A downstream with no request under way has its forwardings in the table.
LEMMA QuietHas ==
  ASSUME IInv, Running, gentle, NEW d \in Downs, NEW p \in Ports, up.cs[d].globreq_head = None,
         up.cs[d].fwds[p].st # "none"
  PROVE  up.cs[d].fwds[p].rpf /\ up.rpf[p] = d
<1>1. FwdPq(up.cs, up.rpf, d, p)
  <2>1. FwdP(up.cs, up.rpf)
    BY Known, PortFacts
  <2> QED BY <2>1 DEF FwdP
<1> QED BY <1>1 DEF FwdPq, Waits

\* A downstream asks for a port.
LEMMA DownForwardInv ==
  ASSUME IInv, Running, NEW d \in Downs, NEW p \in Ports, DownForward(d, p)
  PROVE  IInv' /\ FreesStep
<1>1. /\ up \in Upstream /\ up.fault = "none" /\ toSrv \in Seq(ToMsg) /\ fromSrv \in Seq(FromMsg) /\ ops \in Nat
      /\ gentle \in BOOLEAN /\ up.cs \in [Downs -> ConnState] /\ up.globreq \in Seq(Downs)
      /\ gentle => Forwardings(up.cs, up.rpf, up.globreq, toSrv, fromSrv, srv.fwd)
  BY Known, UpParts
<1> DEFINE r == [up.rpf EXCEPT ![p] = d]
           a == [up EXCEPT !.rpf = r]
           b == Request(a, d, "forward", p)
           F == TRUE
           x == [st |-> "waiting", rpf |-> F]
           c == [b EXCEPT !.cs[d].fwds[p] = x]
           w == Enqueue(c, d, "forward", p)
           v == IF b.cs[d].fwds[p].st # "none" THEN b ELSE w
<1>2. /\ up.cs[d].st = "live" /\ up.rpf[p] = None /\ Apply(v) /\ ops' = ops + 1
      /\ gentle' \in BOOLEAN /\ (gentle' => gentle) /\ (gentle' => up.cs[d].globreq_head = None)
      /\ fromSrv' = fromSrv /\ srv' = srv
  <2>1. gentle' = (gentle /\ Quiet(d))
    BY DEF DownForward
  <2>2. gentle' \in BOOLEAN /\ (gentle' => gentle) /\ (gentle' => up.cs[d].globreq_head = None)
    BY Zenon, <2>1 DEF Quiet
  <2> QED BY <2>2 DEF DownForward
<1>3. r \in [Ports -> Opt(Downs)] /\ Sets(up.rpf, r, p, d)
  <2>1. up.rpf \in [Ports -> Opt(Downs)] /\ d \in Opt(Downs)
    BY <1>1, UpParts DEF Opt
  <2> QED BY <2>1 DEF Sets
<1>4. F \in BOOLEAN /\ F
  OBVIOUS
<1> HIDE DEF F
<1>5. x \in ShareForwarding /\ x.st = "waiting" /\ x.rpf
  BY <1>4 DEF ShareForwarding
<1> HIDE DEF r, x
<1>6. IsUp(a, up.cs, up.chan, r, up.globreq, up.drained, up.out, up.fault)
  BY <1>1, <1>3, UpParts, PutRpf
<1> HIDE DEF a
<1>7. /\ a \in Upstream /\ a.cs = up.cs /\ a.chan = up.chan /\ a.rpf = r /\ a.globreq = up.globreq
      /\ a.drained = up.drained /\ a.out = up.out /\ a.fault = "none"
  BY <1>1, <1>6 DEF IsUp
<1>8. PICK y \in ToMsg :
        /\ Fields(y, "forward", d, None, None, p) /\ y.wr
        /\ IsUp(b, up.cs, up.chan, r, b.globreq, up.drained, Append(up.out, y), b.fault)
        /\ b.fault = "list" \/ (b.fault = "none" /\ b.globreq = Append(up.globreq, d))
  <2>1. \E y \in ToMsg :
           /\ Fields(y, "forward", d, None, None, p) /\ y.wr
           /\ IsUp(b, a.cs, a.chan, a.rpf, b.globreq, a.drained, Append(a.out, y), b.fault)
           /\ a.fault # "none" => b.fault = a.fault
           /\ a.fault = "none" =>
                \/ b.fault = "list"
                \/ b.fault = "none" /\ b.globreq = Append(a.globreq, d)
    BY <1>7, RequestIs
  <2> HIDE DEF b
  <2> QED BY <1>7, <2>1
<1> HIDE DEF b
<1>9. b \in Upstream /\ b.cs = up.cs /\ b.chan = up.chan /\ b.rpf = r /\ b.drained = up.drained /\ b.out = Append(up.out, y)
  BY <1>8 DEF IsUp
<1>10. y.t = "forward" /\ y.d = d /\ y.p = p
  BY <1>8 DEF Fields
<1>11. /\ IsUp(v, v.cs, up.chan, r, b.globreq, up.drained, Append(up.out, y), b.fault)
       /\ Moves(up.cs, v.cs, d)
       /\ IsConn(v.cs[d], "live", up.cs[d].half, up.cs[d].chans, v.cs[d].fwds, v.cs[d].globreq_head)
       /\ up.cs[d].fwds[p].st = "none" =>
            Sets(up.cs[d].fwds, v.cs[d].fwds, p, x) /\ Waits(v.cs[d], "forward", p)
  <2>1. CASE up.cs[d].fwds[p].st # "none"
    <3>1. v = b
      BY <1>9, <2>1
    <3> HIDE DEF v
    <3>2. IsUp(v, v.cs, up.chan, r, b.globreq, up.drained, Append(up.out, y), b.fault) /\ v.cs = up.cs
      BY <1>8, <1>9, <3>1
    <3>3. Moves(up.cs, v.cs, d)
      BY <1>1, <3>2 DEF Moves
    <3>4. IsConn(v.cs[d], "live", up.cs[d].half, up.cs[d].chans, v.cs[d].fwds, v.cs[d].globreq_head)
      BY <1>1, <1>2, <3>2 DEF IsConn
    <3> QED BY <2>1, <3>2, <3>3, <3>4
  <2>2. CASE up.cs[d].fwds[p].st = "none"
    <3>1. v = w
      BY <1>9, <2>2
    <3>2. /\ IsUp(c, c.cs, b.chan, b.rpf, b.globreq, b.drained, b.out, b.fault)
          /\ Moves(b.cs, c.cs, d)
          /\ IsConn(c.cs[d], b.cs[d].st, b.cs[d].half, b.cs[d].chans, c.cs[d].fwds, b.cs[d].globreq_head)
          /\ Sets(b.cs[d].fwds, c.cs[d].fwds, p, x)
      BY <1>5, <1>9, PutFwd
    <3> HIDE DEF c
    <3>3. c \in Upstream
      BY <3>2 DEF IsUp
    <3>4. /\ IsUp(w, w.cs, c.chan, c.rpf, c.globreq, c.drained, c.out, c.fault)
          /\ Moves(c.cs, w.cs, d)
          /\ IsConn(w.cs[d], c.cs[d].st, c.cs[d].half, c.cs[d].chans, c.cs[d].fwds, w.cs[d].globreq_head)
          /\ Waits(w.cs[d], "forward", p)
      BY <3>3, EnqueueIs
    <3> HIDE DEF w, v
    <3>5. /\ c.chan = up.chan /\ c.rpf = r /\ c.globreq = b.globreq /\ c.drained = up.drained
          /\ c.out = Append(up.out, y) /\ c.fault = b.fault
          /\ c.cs[d].st = "live" /\ c.cs[d].half = up.cs[d].half /\ c.cs[d].chans = up.cs[d].chans
          /\ w.cs[d].fwds = c.cs[d].fwds
      BY <1>2, <1>9, <3>2, <3>4 DEF IsUp, IsConn
    <3>6. Moves(up.cs, w.cs, d)
      BY <1>9, <3>2, <3>4 DEF Moves
    <3>7. IsUp(w, w.cs, up.chan, r, b.globreq, up.drained, Append(up.out, y), b.fault)
      BY <3>4, <3>5
    <3>8. IsConn(w.cs[d], "live", up.cs[d].half, up.cs[d].chans, w.cs[d].fwds, w.cs[d].globreq_head)
      BY <3>4, <3>5
    <3>9. Sets(up.cs[d].fwds, w.cs[d].fwds, p, x)
      BY <1>9, <3>2, <3>5
    <3> QED BY <3>1, <3>4, <3>6, <3>7, <3>8, <3>9
  <2> QED BY <2>1, <2>2
<1> HIDE DEF v
<1>12. v.rpf = r /\ v.globreq = b.globreq /\ v.drained = up.drained /\ v.fault = b.fault /\ v.cs[d].st = "live"
  BY <1>11 DEF IsUp, IsConn
<1>13. gentle' => v.fault \in {"none", "list"}
  BY <1>8, <1>12
<1>14. gentle' /\ v.fault = "none" => Forwardings(v.cs, v.rpf, v.globreq, Append(toSrv, y), fromSrv, srv.fwd)
  <2> SUFFICES ASSUME gentle', v.fault = "none"
               PROVE  Forwardings(v.cs, r, Append(up.globreq, d), Append(toSrv, y), fromSrv, srv.fwd)
    BY <1>8, <1>12
  <2>1. up.cs[d].globreq_head = None /\ gentle
    BY <1>2
  <2>2. up.cs[d].fwds[p].st = "none"
    <3>1. d # None
      BY ConstAssumption
    <3> QED BY <1>2, <2>1, <3>1, QuietHas
  <2>3. Sets(up.cs[d].fwds, v.cs[d].fwds, p, x) /\ Waits(v.cs[d], "forward", p)
    BY <1>11, <2>2
  <2>4. OnlyPort(up.cs, v.cs, d, p)
    BY <1>11, <2>3 DEF OnlyPort, Moves, Sets
  <2>5. v.cs[d].fwds[p].st = "waiting" /\ v.cs[d].fwds[p].rpf
    BY <1>5, <2>3 DEF Sets
  <2> QED BY <1>1, <1>2, <1>3, <1>8, <1>10, <1>12, <2>1, <2>3, <2>4, <2>5, UpForwards
<1>15. ops' \in Nat /\ y.t \in {"forward", "cancel"}
  BY <1>1, <1>2, <1>10
<1>16. Sets(up.rpf, v.rpf, p, d)
  BY <1>3, <1>12
<1>17. IsUp(v, v.cs, up.chan, v.rpf, v.globreq, v.drained, Append(up.out, y), v.fault)
  BY <1>11, <1>12
<1>18. d \in {d, None}
  OBVIOUS
<1> QED BY <1>2, <1>11, <1>13, <1>14, <1>15, <1>16, <1>17, <1>18, ReqSent

\* A downstream gives a port up.
LEMMA DownCancelInv ==
  ASSUME IInv, Running, NEW d \in Downs, NEW p \in Ports, DownCancel(d, p)
  PROVE  IInv' /\ FreesStep
<1>1. /\ up \in Upstream /\ up.fault = "none" /\ toSrv \in Seq(ToMsg) /\ fromSrv \in Seq(FromMsg) /\ ops \in Nat
      /\ gentle \in BOOLEAN /\ up.cs \in [Downs -> ConnState] /\ up.globreq \in Seq(Downs)
      /\ gentle => Forwardings(up.cs, up.rpf, up.globreq, toSrv, fromSrv, srv.fwd)
  BY Known, UpParts
<1> DEFINE a == RportfwdRemove(up, d, p)
           b == Request(a, d, "cancel", p)
           v == Enqueue(b, d, "cancel", p)
<1>2. /\ up.cs[d].st = "live" /\ up.cs[d].fwds[p].st # "none" /\ Apply(v) /\ ops' = ops + 1
      /\ gentle' \in BOOLEAN /\ (gentle' => gentle) /\ (gentle' => up.cs[d].globreq_head = None)
      /\ fromSrv' = fromSrv /\ srv' = srv
  <2>1. gentle' = (gentle /\ Quiet(d))
    BY DEF DownCancel
  <2>2. gentle' \in BOOLEAN /\ (gentle' => gentle) /\ (gentle' => up.cs[d].globreq_head = None)
    BY Zenon, <2>1 DEF Quiet
  <2> QED BY <2>2 DEF DownCancel
<1>3. ops' \in Nat
  BY <1>1, <1>2
<1>4. /\ ~up.cs[d].fwds[p].rpf =>
           /\ IsUp(a, up.cs, up.chan, up.rpf, up.globreq, up.drained, up.out, a.fault)
           /\ a.fault # "none"
      /\ up.cs[d].fwds[p].rpf =>
           /\ IsUp(a, a.cs, up.chan, a.rpf, up.globreq, up.drained, up.out, up.fault)
           /\ Moves(up.cs, a.cs, d)
           /\ IsConn(a.cs[d], up.cs[d].st, up.cs[d].half, up.cs[d].chans, a.cs[d].fwds, up.cs[d].globreq_head)
           /\ Sets(up.cs[d].fwds, a.cs[d].fwds, p, a.cs[d].fwds[p])
           /\ a.cs[d].fwds[p].st = up.cs[d].fwds[p].st /\ ~a.cs[d].fwds[p].rpf
           /\ Sets(up.rpf, a.rpf, p, None)
  BY <1>1, RpfRemoved
<1>5. a \in Upstream
  <2> HIDE DEF a
  <2> QED BY <1>4 DEF IsUp
<1>6. PICK y \in ToMsg :
         /\ Fields(y, "cancel", d, None, None, p) /\ y.wr
         /\ IsUp(b, a.cs, a.chan, a.rpf, b.globreq, a.drained, Append(a.out, y), b.fault)
         /\ a.fault # "none" => b.fault = a.fault
         /\ a.fault = "none" =>
              \/ b.fault = "list"
              \/ b.fault = "none" /\ b.globreq = Append(a.globreq, d)
  BY <1>5, RequestIs
<1> HIDE DEF a, b
<1>7. b \in Upstream /\ b.cs = a.cs /\ b.chan = a.chan /\ b.rpf = a.rpf /\ b.drained = a.drained /\ b.out = Append(a.out, y)
  BY <1>6 DEF IsUp
<1>8. /\ IsUp(v, v.cs, b.chan, b.rpf, b.globreq, b.drained, b.out, b.fault)
      /\ Moves(b.cs, v.cs, d)
      /\ IsConn(v.cs[d], b.cs[d].st, b.cs[d].half, b.cs[d].chans, b.cs[d].fwds, v.cs[d].globreq_head)
      /\ Waits(v.cs[d], "cancel", p)
  BY <1>7, EnqueueIs
<1> HIDE DEF v
<1>9. v \in Upstream /\ v.fault = b.fault /\ v.rpf = a.rpf /\ v.globreq = b.globreq
  BY <1>7, <1>8 DEF IsUp
<1>10. CASE ~up.cs[d].fwds[p].rpf
  <2>1. v.fault # "none"
    BY <1>4, <1>6, <1>9, <1>10
  <2>2. ~gentle'
    BY <1>2, <1>10, QuietHas
  <2>3. Leaves(v)
    BY <1>2, <1>9, Applied
  <2>4. FreesStep
    BY <2>1, <2>3, StructFreed
  <2> QED BY <1>1, <1>2, <1>3, <1>9, <2>1, <2>2, <2>3, <2>4, UpStep
<1>11. CASE up.cs[d].fwds[p].rpf
  <2>1. /\ a.chan = up.chan /\ a.globreq = up.globreq /\ a.drained = up.drained /\ a.out = up.out /\ a.fault = "none"
        /\ a.cs[d].st = "live" /\ a.cs[d].half = up.cs[d].half /\ a.cs[d].chans = up.cs[d].chans
        /\ Moves(up.cs, a.cs, d) /\ Sets(up.cs[d].fwds, a.cs[d].fwds, p, a.cs[d].fwds[p])
        /\ a.cs[d].fwds[p].st = up.cs[d].fwds[p].st /\ ~a.cs[d].fwds[p].rpf
        /\ Sets(up.rpf, a.rpf, p, None)
    BY <1>1, <1>2, <1>4, <1>11 DEF IsUp, IsConn
  <2>2. b.fault = "list" \/ (b.fault = "none" /\ b.globreq = Append(up.globreq, d))
    BY <1>6, <2>1
  <2>3. y.t = "cancel" /\ y.d = d /\ y.p = p
    BY <1>6 DEF Fields
  <2>4. v.cs[d].fwds = a.cs[d].fwds /\ v.cs[d].st = "live" /\ v.drained = up.drained
    BY <1>7, <1>8, <2>1 DEF IsConn, IsUp
  <2>5. Moves(up.cs, v.cs, d)
    BY <1>7, <1>8, <2>1 DEF Moves
  <2>6. IsUp(v, v.cs, up.chan, v.rpf, v.globreq, v.drained, Append(up.out, y), v.fault)
    BY <1>7, <1>8, <1>9, <2>1, <2>4
  <2>7. IsConn(v.cs[d], "live", up.cs[d].half, up.cs[d].chans, v.cs[d].fwds, v.cs[d].globreq_head)
    BY <1>7, <1>8, <2>1, <2>4
  <2>8. gentle' => v.fault \in {"none", "list"}
    BY <1>9, <2>2
  <2>9. Sets(up.rpf, v.rpf, p, None)
    BY <1>9, <2>1
  <2>10. gentle' /\ v.fault = "none" => Forwardings(v.cs, v.rpf, v.globreq, Append(toSrv, y), fromSrv, srv.fwd)
    <3> SUFFICES ASSUME gentle', v.fault = "none"
                 PROVE  Forwardings(v.cs, v.rpf, Append(up.globreq, d), Append(toSrv, y), fromSrv, srv.fwd)
      BY <1>9, <2>2
    <3>1. up.cs[d].globreq_head = None /\ gentle
      BY <1>2
    <3>2. OnlyPort(up.cs, v.cs, d, p)
      BY <2>1, <2>4, <2>5 DEF OnlyPort, Moves, Sets
    <3>3. v.cs[d].fwds[p].st = up.cs[d].fwds[p].st /\ ~v.cs[d].fwds[p].rpf
      BY <2>1, <2>4
    <3> QED BY <1>1, <1>2, <1>6, <1>8, <2>3, <2>4, <2>9, <3>1, <3>2, <3>3, UpCancels
  <2>11. None \in {d, None} /\ y.t \in {"forward", "cancel"}
    BY <2>3
  <2> QED BY <1>2, <1>3, <1>6, <2>5, <2>6, <2>7, <2>8, <2>9, <2>10, <2>11, ReqSent
<1> QED BY <1>10, <1>11

\* What the upstream's record of the channel says when a message about it
\* arrives.
LEMMA HeadMeets ==
  ASSUME NEW cs, NEW own, NEW w, NEW f \in Seq(FromMsg), NEW sc, Channels(cs, own, w, f, sc),
         NEW d \in Downs, NEW c, c \in cs[d].chans, f # << >>, Head(f).us = c.us
  PROVE  Meets(Head(f), c)
<1> SUFFICES ASSUME Head(f).t \in {"conf", "close"}
             PROVE  /\ Head(f).t = "conf" => c.st = "UNACKNOWLEDGED"
                    /\ Head(f).t = "close" => c.st \in {"OPEN", "SENT_CLOSE"}
  BY DEF Meets
<1> DEFINE a == c.us
<1>1. PICK st, sid : \E bt, bf \in Int :
         Linked(cs, own, st, sid) /\ Numbers(own, st, sid, w, bt, f, bf, sc)
  BY DEF Channels
<1>2. PICK bt \in Int, bf \in Int :
         Linked(cs, own, st, sid) /\ Numbers(own, st, sid, w, bt, f, bf, sc)
  BY <1>1
<1> DEFINE T == Wire(w, bt, ToOf(a))
           F == Wire(f, bf, FromOf(a))
           F2 == Wire(Tail(f), bf + 1, FromOf(a))
<1>3. a \in UpIds /\ c.st = st[a]
  BY <1>2, Finds
<1>4. UInv(a, own[a], st[a], sid[a], T, F, sc)
  BY <1>2, <1>3 DEF Numbers
<1>5. Head(f) \in FromOf(a)
  <2>1. Head(f) \in FromMsg /\ Head(f).us = a /\ Head(f).t \in {"conf", "fail", "close"}
    OBVIOUS
  <2> HIDE DEF a
  <2> QED BY <2>1 DEF FromOf
<1>6. PICK z : z.m = Head(f) /\ Taken(F, z, F2)
  BY <1>5, TakeThis
<1> HIDE DEF T, F, F2
<1>7. CASE Head(f).t = "conf"
  <2>1. st[a] = "UNACKNOWLEDGED"
    BY <1>4, <1>6, <1>7, HearsConf
  <2> QED BY <1>3, <1>7, <2>1
<1>8. CASE Head(f).t = "close"
  <2>1. st[a] # "SENT_CLOSE" => st[a] = "OPEN"
    BY <1>4, <1>6, <1>8, HearsClose
  <2> QED BY <1>3, <1>8, <2>1
<1> QED BY <1>7, <1>8

\* An announced connection is to a port that is in the struct of the downstream
\* the upstream's table names.
LEMMA OpenFinds ==
  ASSUME NEW cs, NEW rpf, NEW gq, NEW w, NEW f \in Seq(FromMsg), NEW sf, Forwardings(cs, rpf, gq, w, f, sf),
         f # << >>, Head(f).t = "open", NEW d \in Downs, rpf[Head(f).p] = d
  PROVE  Head(f).p \in Ports /\ cs[d].fwds[Head(f).p].rpf /\ cs[d].fwds[Head(f).p].st # "none"
<1> DEFINE p == Head(f).p
<1>1. PICK bg \in Int, bt \in Int, bf \in Int :
         PInv(cs, rpf, Wire(gq, bg, Downs), Wire(w, bt, ToPorts), Wire(f, bf, FromPorts), sf)
  BY DEF Forwardings
<1> DEFINE T == Wire(w, bt, ToPorts)
           F == Wire(f, bf, FromPorts)
           F2 == Wire(Tail(f), bf + 1, FromPorts)
<1>2. Head(f) \in FromPorts /\ p \in Ports
  <2>1. Head(f) \in FromMsg
    OBVIOUS
  <2> QED BY <2>1 DEF FromPorts, FromMsg
<1>3. PICK z : z.m = Head(f) /\ Taken(F, z, F2)
  BY <1>2, TakeThis
<1>4. StaleP(cs, rpf, T, F, sf) /\ FwdP(cs, rpf)
  BY <1>1 DEF PInv
<1> HIDE DEF T, F, F2
<1>5. z \in F /\ OpenOn(z, p)
  BY <1>3 DEF Taken, OpenOn
<1>6. cs[d].fwds[p].rpf
  BY <1>2, <1>4, <1>5 DEF StaleP
<1>7. FwdPq(cs, rpf, d, p)
  BY <1>2, <1>4 DEF FwdP
<1> QED BY <1>2, <1>6, <1>7 DEF FwdPq

\* An announcement off the wire is answered or put into a struct.
LEMMA OpenHeard ==
  ASSUME NEW u, NEW v, NEW ts \in Seq(ToMsg), NEW f \in Seq(FromMsg), NEW s, Sound(u, ts, f, s),
         f # << >>, Head(f).t = "open", NEW x \in Seq(ToMsg), \A k \in 1..Len(x) : x[k].t = "fail",
         NEW g, NEW b, NEW t,
         IsUp(v, v.cs, u.chan, u.rpf, g, b, u.out \o x, t), HalfMore(u.cs, v.cs),
         Answers(x, Head(f).sid) \/ \E e \in Downs : Head(f).sid \in v.cs[e].half
  PROVE  /\ Sound(v, ts, Tail(f), s)
         /\ \A gq \in Seq(Downs) : SoundPorts(u, gq, ts, f, s) => SoundPorts(v, gq, ts, Tail(f), s)
<1> DEFINE w == ts \o u.out
           w2 == ts \o v.out
<1>0. /\ u \in Upstream /\ v \in Upstream /\ u.out \in Seq(ToMsg)
      /\ v.rpf = u.rpf /\ v.chan = u.chan /\ v.out = u.out \o x
  BY UpParts DEF Sound, IsUp
<1>1. w \in Seq(ToMsg) /\ w2 = w \o x
  <2> DEFINE a1 == u.out
             b1 == v.out
  <2>1. a1 \in Seq(ToMsg) /\ b1 = a1 \o x
    BY <1>0
  <2> HIDE DEF a1, b1
  <2>2. ts \o a1 \in Seq(ToMsg) /\ ts \o b1 = (ts \o a1) \o x
    BY <2>1, Longer
  <2> QED BY <2>2 DEF a1, b1
<1>2. Structs(u.cs, u.rpf) /\ Announced(u.cs, w, f, s.ch) /\ Channels(u.cs, u.chan, w, f, s.ch)
  BY DEF Sound, GoodChan
<1> HIDE DEF w, w2
<1>3. SameTo(w, w2) /\ SameToPorts(w, w2)
  <2>1. \A k \in 1..Len(x) : x[k].t \in AboutPort
    BY DEF AboutPort
  <2>2. \A k \in 1..Len(x) : x[k].t \in AboutChannel
    BY DEF AboutChannel
  <2>3. SameTo(w, w \o x) /\ SameToPorts(w, w \o x)
    BY <1>1, <2>1, <2>2, SameTos
  <2> QED BY <1>1, <2>3
<1>4. SameFrom(f, Tail(f)) /\ Tail(f) \in Seq(FromMsg) /\ SameFromPorts(Tail(f), Tail(f))
  <2>1. SameFrom(f, Tail(f))
    BY SameFroms
  <2>2. Tail(f) \in Seq(FromMsg)
    OBVIOUS
  <2>3. SameFromPorts(Tail(f), Tail(f))
    BY <2>2, SameFroms
  <2> QED BY <2>1, <2>2, <2>3
<1>5. Channels(v.cs, v.chan, w2, Tail(f), s.ch)
  <2>1. \A e \in Downs : v.cs[e].chans = u.cs[e].chans
    BY DEF HalfMore
  <2> DEFINE sc == s.ch
  <2>2. \A n \in UpIds : SameS(sc, sc, n)
    BY DEF SameS
  <2>3. Channels(u.cs, u.chan, w, f, sc)
    BY <1>2
  <2> HIDE DEF sc
  <2>4. Channels(v.cs, u.chan, w2, Tail(f), sc)
    BY <1>3, <1>4, <2>1, <2>2, <2>3, ChannelsKept
  <2> QED BY <1>0, <2>4 DEF sc
<1>6. Structs(v.cs, v.rpf)
  <2> SUFFICES ASSUME NEW e \in Downs
               PROVE  /\ v.cs[e].st \in {"none", "freed"} => v.cs[e].chans = {} /\ v.cs[e].half = {}
                      /\ v.cs[e].st = "none" => \A p \in Ports : v.rpf[p] # e
    BY DEF Structs
  <2>1. /\ u.cs[e].st \in {"none", "freed"} => u.cs[e].chans = {} /\ u.cs[e].half = {}
        /\ u.cs[e].st = "none" => \A p \in Ports : u.rpf[p] # e
    BY <1>2 DEF Structs
  <2>2. v.cs[e].st = u.cs[e].st /\ v.cs[e].chans = u.cs[e].chans
        /\ (v.cs[e].st \in {"none", "freed"} => v.cs[e].half = {})
    BY DEF HalfMore
  <2> QED BY <1>0, <2>1, <2>2
<1>7. Announced(v.cs, w2, Tail(f), s.ch)
  <2> SUFFICES ASSUME NEW i \in SrvIds, s.ch[i].st = "opening"
               PROVE  Answers(w2, i) \/ Calls(Tail(f), i) \/ \E e \in Downs : i \in v.cs[e].half
    BY Announcing
  <2>1. Answers(w, i) \/ Calls(f, i) \/ \E e \in Downs : i \in u.cs[e].half
    BY <1>2, Announcing
  <2>2. Answers(w, i) \/ Answers(x, i) => Answers(w2, i)
    BY <1>1, Answered
  <2>3. \A e \in Downs : i \in u.cs[e].half => i \in v.cs[e].half
    BY DEF HalfMore
  <2>4. Calls(f, i) => Calls(Tail(f), i) \/ Head(f).sid = i
    <3>1. Head(f) \in FromMsg
      OBVIOUS
    <3> QED BY <3>1, Called
  <2> QED BY <2>1, <2>2, <2>3, <2>4
<1>8. Sound(v, ts, Tail(f), s)
  BY <1>0, <1>5, <1>6, <1>7 DEF Sound, GoodChan, w2
<1>9. ASSUME NEW gq \in Seq(Downs), SoundPorts(u, gq, ts, f, s)
      PROVE  SoundPorts(v, gq, ts, Tail(f), s)
  <2>1. Forwardings(u.cs, u.rpf, gq, w, f, s.fwd)
    BY <1>9 DEF SoundPorts, w
  <2>2. Forwardings(u.cs, u.rpf, gq, w, Tail(f), s.fwd)
    BY <1>1, <2>1, TakesOpen
  <2>3. StateP(v.cs)
    <3>1. StateP(u.cs)
      BY <2>1, PortFacts
    <3> QED BY <3>1 DEF StateP, Waits, HalfMore
  <2>4. \A e \in Downs : v.cs[e].fwds = u.cs[e].fwds /\ v.cs[e].globreq_head = u.cs[e].globreq_head
    BY DEF HalfMore
  <2>5. Forwardings(v.cs, u.rpf, gq, w2, Tail(f), s.fwd)
    BY <1>3, <1>4, <2>2, <2>3, <2>4, ForwardingsKept
  <2> QED BY <1>0, <2>5 DEF SoundPorts, w2
<1> QED BY <1>8, <1>9

\* The upstream has dealt with the server's CHANNEL_OPEN: it is refused, or in
\* a struct.
LEMMA OpenStep ==
  ASSUME IInv, Running, fromSrv # << >>, Head(fromSrv).t = "open", fromSrv' = Tail(fromSrv),
         srv' = srv, ops' = ops, gentle' = gentle,
         NEW y \in ToMsg, y.t = "fail", NEW v,
         IsUp(v, v.cs, up.chan, up.rpf, up.globreq, up.drained, Append(up.out, y), up.fault),
         HalfMore(up.cs, v.cs),
         y.sid = Head(fromSrv).sid \/ \E e \in Downs : Head(fromSrv).sid \in v.cs[e].half,
         gentle => Cleaned(v.cs),
         Apply(v)
  PROVE  IInv' /\ FreesStep
<1>1. /\ up \in Upstream /\ up.out = << >> /\ up.fault = "none" /\ toSrv \in Seq(ToMsg) /\ fromSrv \in Seq(FromMsg)
      /\ ops \in Nat /\ gentle \in BOOLEAN /\ Sound(up, toSrv, fromSrv, srv) /\ up.globreq \in Seq(Downs)
      /\ gentle => SoundPorts(up, up.globreq, toSrv, fromSrv, srv)
  BY Known, Starts, UpParts
<1> DEFINE x == <<y>>
           o == up.out
<1>2. o \in Seq(ToMsg)
  BY <1>1, UpParts
<1> HIDE DEF o
<1>3. x \in Seq(ToMsg) /\ Append(o, y) = o \o x /\ Len(x) = 1 /\ x[1] = y
  BY <1>2, OnePacket
<1> HIDE DEF x
<1>4. IsUp(v, v.cs, up.chan, up.rpf, up.globreq, up.drained, up.out \o x, up.fault)
  BY <1>3 DEF o
<1>5. \A k \in 1..Len(x) : x[k].t = "fail"
  BY <1>3
<1>6. Answers(x, Head(fromSrv).sid) \/ \E e \in Downs : Head(fromSrv).sid \in v.cs[e].half
  BY <1>3 DEF Answers
<1>7. v \in Upstream /\ v.fault = "none" /\ v.globreq = up.globreq
  BY <1>1 DEF IsUp
<1>8. Leaves(v)
  BY <1>7, Applied
<1>9. Sound(v, toSrv, Tail(fromSrv), srv)
      /\ \A gq \in Seq(Downs) : SoundPorts(up, gq, toSrv, fromSrv, srv) => SoundPorts(v, gq, toSrv, Tail(fromSrv), srv)
  BY <1>1, <1>3, <1>4, <1>5, <1>6, OpenHeard
<1>10. fromSrv' \in Seq(FromMsg)
  BY <1>1
<1>11. gentle' => SoundPorts(v, v.globreq, toSrv, fromSrv', srv)
  BY <1>1, <1>7, <1>9
<1>12. FreesStep
  <2>1. up'.cs = v.cs
    BY <1>8 DEF Leaves, IsUp
  <2> QED BY <2>1 DEF FreesStep, Leftover, Idle, HalfMore
<1> QED BY <1>1, <1>7, <1>8, <1>9, <1>10, <1>11, <1>12, UpStep

\* The upstream hears of a connection to a forwarded port.
LEMMA RecvOpenInv ==
  ASSUME IInv, Running, fromSrv # << >>, fromSrv' = Tail(fromSrv), srv' = srv, ops' = ops, gentle' = gentle,
         NEW m, m = Head(fromSrv), m.t = "open", Apply(RecvOpen(up, m))
  PROVE  IInv' /\ FreesStep
<1> DEFINE d == up.rpf[m.p]
           v == RecvOpen(up, m)
<1>1. /\ up \in Upstream /\ up.fault = "none" /\ toSrv \in Seq(ToMsg) /\ fromSrv \in Seq(FromMsg) /\ ops \in Nat
      /\ gentle \in BOOLEAN /\ up.rpf \in [Ports -> Opt(Downs)] /\ Structs(up.cs, up.rpf)
      /\ up.cs \in [Downs -> ConnState]
      /\ gentle => Forwardings(up.cs, up.rpf, up.globreq, toSrv, fromSrv, srv.fwd) /\ Cleaned(up.cs)
  BY Known, UpParts
<1>2. m \in FromMsg /\ m.sid \in SrvIds /\ m.p \in Ports
  <2>1. m \in FromMsg
    BY <1>1
  <2> QED BY <2>1 DEF FromMsg
<1>3. Apply(v)
  OBVIOUS
<1>4. CASE d = None
  <2> DEFINE y == [Msg("fail", None) EXCEPT !.sid = m.sid]
  <2>1. v = Send(up, y)
    BY <1>4 DEF RecvOpen
  <2>2. y \in ToMsg /\ Fields(y, "fail", None, None, m.sid, None)
    <3>1. None \in Opt(Downs)
      BY DEF Opt
    <3> QED BY <1>2, <3>1, FailTo
  <2> HIDE DEF y, v
  <2>3. IsUp(v, up.cs, up.chan, up.rpf, up.globreq, up.drained, Append(up.out, y), up.fault)
    BY <1>1, <2>1, <2>2, SendIs
  <2>4. v.cs = up.cs
    BY <2>3 DEF IsUp
  <2>5. y.t = "fail" /\ y.sid = Head(fromSrv).sid
    BY <2>2 DEF Fields
  <2>6. HalfMore(up.cs, v.cs)
    BY <1>1, <2>4 DEF HalfMore, Structs
  <2> QED BY <1>1, <1>3, <2>2, <2>3, <2>4, <2>5, <2>6, OpenStep
<1>5. CASE d # None /\ up.cs[d].st = "freed"
  <2>1. d \in Downs
    BY <1>1, <1>2, <1>5 DEF Opt
  <2> DEFINE y == [Msg("fail", None) EXCEPT !.sid = 0]
             a == Fault(up, "cs")
  <2>2. v = Send(a, y)
    BY <1>5 DEF RecvOpen, ToDownstream
  <2>3. y \in ToMsg
    <3>1. None \in Opt(Downs) /\ 0 \in SrvIds
      BY ConstAssumption DEF Opt, SrvIds
    <3> QED BY <3>1, FailTo
  <2>4. a \in Upstream /\ a.fault = "cs"
    <3>1. "cs" \in Faults
      BY DEF Faults
    <3> QED BY <1>1, <3>1, FaultIs DEF IsUp
  <2> HIDE DEF y, a, v
  <2>5. v \in Upstream /\ v.fault = "cs"
    BY <2>2, <2>3, <2>4, SendIs DEF IsUp
  <2>6. Leaves(v)
    BY <1>3, <2>5, Applied
  <2>7. ~gentle
    <3> SUFFICES ASSUME gentle PROVE FALSE
      OBVIOUS
    <3>1. up.cs[d].fwds[m.p].st # "none"
      BY <1>1, <2>1, OpenFinds
    <3>2. StateP(up.cs)
      BY <1>1, PortFacts
    <3> QED BY <1>2, <1>5, <2>1, <3>1, <3>2 DEF StateP
  <2>8. fromSrv' \in Seq(FromMsg)
    BY <1>1
  <2>9. FreesStep
    BY <2>1, <2>5, <2>6, StructFreed
  <2> QED BY <1>1, <2>5, <2>6, <2>7, <2>8, <2>9, UpStep
<1>6. CASE d # None /\ up.cs[d].st # "freed"
  <2>1. d \in Downs
    BY <1>1, <1>2, <1>6 DEF Opt
  <2> DEFINE y == [Msg("fail", None) EXCEPT !.sid = 0]
             H == up.cs[d].half \cup {m.sid}
             a == [up EXCEPT !.cs[d].half = H]
  <2>2. v = Send(a, y)
    BY <1>6 DEF RecvOpen, ToDownstream
  <2>3. y \in ToMsg /\ Fields(y, "fail", None, None, 0, None)
    <3>1. None \in Opt(Downs) /\ 0 \in SrvIds
      BY ConstAssumption DEF Opt, SrvIds
    <3> QED BY <3>1, FailTo
  <2>4. H \in SUBSET SrvIds
    BY <1>1, <1>2, <2>1, UpParts
  <2> HIDE DEF y, v, H, d
  <2>5. /\ IsUp(a, a.cs, up.chan, up.rpf, up.globreq, up.drained, up.out, up.fault)
        /\ Moves(up.cs, a.cs, d)
        /\ IsConn(a.cs[d], up.cs[d].st, H, up.cs[d].chans, up.cs[d].fwds, up.cs[d].globreq_head)
    BY <1>1, <2>1, <2>4, PutHalf
  <2> HIDE DEF a
  <2>6. IsUp(v, v.cs, up.chan, up.rpf, up.globreq, up.drained, Append(up.out, y), up.fault) /\ v.cs = a.cs
    <3>1. a \in Upstream /\ a.chan = up.chan /\ a.rpf = up.rpf /\ a.globreq = up.globreq /\ a.drained = up.drained
          /\ a.out = up.out /\ a.fault = up.fault
      BY <2>5 DEF IsUp
    <3>2. IsUp(v, a.cs, a.chan, a.rpf, a.globreq, a.drained, Append(a.out, y), a.fault)
      BY <2>2, <2>3, <3>1, SendIs
    <3>3. v.cs = a.cs
      BY <3>2 DEF IsUp
    <3> QED BY <3>1, <3>2, <3>3
  <2>7. y.t = "fail"
    BY <2>3 DEF Fields
  <2>8. /\ \A e \in Downs : e # d => v.cs[e] = up.cs[e]
        /\ v.cs[d].st = up.cs[d].st /\ v.cs[d].half = H /\ v.cs[d].chans = up.cs[d].chans
        /\ v.cs[d].fwds = up.cs[d].fwds /\ v.cs[d].globreq_head = up.cs[d].globreq_head
    BY <2>5, <2>6 DEF Moves, IsConn
  <2>9. up.cs[d].st # "none" /\ up.cs[d].st # "freed"
    BY <1>1, <1>2, <1>6, <2>1 DEF Structs, d
  <2>10. up.cs[d].half \subseteq H /\ m.sid \in H
    BY DEF H
  <2>11. HalfMore(up.cs, v.cs)
    <3> SUFFICES ASSUME NEW e \in Downs
                 PROVE  /\ v.cs[e].st = up.cs[e].st /\ v.cs[e].chans = up.cs[e].chans /\ v.cs[e].fwds = up.cs[e].fwds
                        /\ v.cs[e].globreq_head = up.cs[e].globreq_head
                        /\ up.cs[e].half \subseteq v.cs[e].half
                        /\ v.cs[e].st \in {"none", "freed"} => v.cs[e].half = {}
      BY DEF HalfMore
    <3>1. CASE e = d
      BY <2>8, <2>9, <2>10, <3>1
    <3>2. CASE e # d
      BY <1>1, <2>8, <3>2 DEF Structs
    <3> QED BY <3>1, <3>2
  <2>12. Head(fromSrv).sid \in v.cs[d].half
    BY <2>8, <2>10
  <2>13. gentle => Cleaned(v.cs)
    <3> SUFFICES ASSUME gentle PROVE Cleaned(v.cs)
      OBVIOUS
    <3>1. v.cs[d].st = "dead" => CleanDown(v.cs[d])
      <4> SUFFICES ASSUME v.cs[d].st = "dead" PROVE CleanDown(v.cs[d])
        OBVIOUS
      <4> DEFINE p == m.p
      <4>1. CleanDown(up.cs[d])
        BY <1>1, <2>1, <2>8 DEF Cleaned
      <4>2. up.cs[d].fwds[p].st # "none"
        BY <1>1, <2>1, OpenFinds DEF d
      <4>3. FwdPq(up.cs, up.rpf, d, p)
        <5>1. FwdP(up.cs, up.rpf)
          BY <1>1, PortFacts
        <5> QED BY <1>2, <2>1, <5>1 DEF FwdP
      <4>4. up.cs[d].fwds[p].st # "active"
        BY <1>2, <4>1 DEF CleanDown
      <4>5. up.cs[d].globreq_head # None
        BY <4>2, <4>3, <4>4 DEF FwdPq, Waits
      <4> QED BY <2>8, <4>1, <4>5 DEF CleanDown
    <3>2. Cleaned(up.cs) /\ Moves(up.cs, v.cs, d)
      BY <1>1, <2>5, <2>6
    <3> QED BY <2>1, <3>1, <3>2, CleanedMoves
  <2> QED BY <1>1, <1>3, <2>1, <2>3, <2>6, <2>7, <2>11, <2>12, <2>13, OpenStep
<1> QED BY <1>4, <1>5, <1>6

\* A message about a channel finds its record.
LEMMA FindsRecord ==
  ASSUME Typed, GoodChan(up, toSrv, fromSrv, srv), NEW i \in 1..Len(fromSrv),
         fromSrv[i].t \in {"conf", "fail", "close"}
  PROVE  /\ up.chan[fromSrv[i].us] = fromSrv[i].d
         /\ up.cs[fromSrv[i].d].st \in {"live", "dead"}
         /\ \E c \in up.cs[fromSrv[i].d].chans : c.us = fromSrv[i].us
<1> DEFINE m == fromSrv[i]
           u == m.us
<1>1. m \in FromMsg /\ u \in UpIds /\ m.d \in Downs /\ m \in FromOf(u) /\ fromSrv \in Seq(FromMsg)
  BY DEF Typed, FromMsg, FromOf
<1>2. PICK st, sid : \E bt, bf \in Int :
         Linked(up.cs, up.chan, st, sid) /\ Numbers(up.chan, st, sid, toSrv, bt, fromSrv, bf, srv.ch)
  BY DEF GoodChan, Channels
<1>3. PICK bt \in Int, bf \in Int :
         Linked(up.cs, up.chan, st, sid) /\ Numbers(up.chan, st, sid, toSrv, bt, fromSrv, bf, srv.ch)
  BY <1>2
<1> DEFINE T == Wire(toSrv, bt, ToOf(u))
           F == Wire(fromSrv, bf, FromOf(u))
           x == [n |-> bf + i, m |-> m]
<1>4. UInv(u, up.chan[u], st[u], sid[u], T, F, srv.ch)
  BY <1>1, <1>3 DEF Numbers
<1>5. x \in F /\ x.m = m
  BY <1>1, OnWire
<1> HIDE DEF T, F, x
<1>6. FinalU(up.chan[u], st[u], F) /\ ConfU(u, up.chan[u], st[u], T, F, srv.ch)
  BY <1>4 DEF UInv
<1>7. up.chan[u] = m.d
  <2>1. CASE m.t = "conf"
    BY <1>5, <1>6, <2>1 DEF ConfU, Conf
  <2>2. CASE m.t \in {"fail", "close"}
    BY <1>5, <1>6, <2>2 DEF FinalU, Final
  <2> QED BY <2>1, <2>2
<1>8. m.d # None
  BY <1>1, ConstAssumption
<1>9. Rec(st, sid, u) \in up.cs[m.d].chans
  BY <1>1, <1>3, <1>7, <1>8 DEF Linked
<1>10. up.cs[m.d].st \in {"none", "live", "dead", "freed"}
  BY <1>1 DEF Typed, Upstream, ConnState
<1>11. up.cs[m.d].st \in {"live", "dead"}
  BY <1>1, <1>9, <1>10 DEF GoodChan, Structs
<1> QED BY <1>7, <1>9, <1>11 DEF Rec

\* The upstream has dealt with a message about a channel: only the channels of
\* d are touched, and d is cleaned up after if it has gone.
LEMMA ChanHeard ==
  ASSUME IInv, Running, fromSrv # << >>, Head(fromSrv).t \in {"conf", "fail", "close"}, fromSrv' = Tail(fromSrv),
         srv' = srv, ops' = ops, gentle' = gentle, NEW d \in Downs, up.cs[d].st \in {"live", "dead"}, NEW a,
         IsUp(a, a.cs, a.chan, up.rpf, up.globreq, up.drained, up.out, up.fault),
         Moves(up.cs, a.cs, d),
         IsConn(a.cs[d], up.cs[d].st, up.cs[d].half, a.cs[d].chans, up.cs[d].fwds, up.cs[d].globreq_head),
         Channels(a.cs, a.chan, toSrv, Tail(fromSrv), srv.ch),
         NEW v, v = RetryIfDead(a, d) \/ (v = a /\ (gentle /\ a.cs[d].st = "dead" => CleanDown(a.cs[d]))),
         Apply(v)
  PROVE  IInv' /\ Leaves(v) /\ Moves(up.cs, v.cs, d) /\ (v = RetryIfDead(a, d) => Tried(v.cs[d]))
<1> DEFINE x == << >>
           o == up.out
           f == Tail(fromSrv)
<1>1. /\ up \in Upstream /\ up.out = << >> /\ up.fault = "none" /\ toSrv \in Seq(ToMsg) /\ fromSrv \in Seq(FromMsg)
      /\ ops \in Nat /\ gentle \in BOOLEAN /\ Sound(up, toSrv, fromSrv, srv) /\ o \in Seq(ToMsg)
      /\ gentle => /\ SoundPorts(up, up.globreq, toSrv, fromSrv, srv) /\ Cleaned(up.cs)
                   /\ Forwardings(up.cs, up.rpf, up.globreq, toSrv, fromSrv, srv.fwd)
  BY Known, Starts, UpParts
<1>2. x \in Seq(ToMsg) /\ o \o x = o /\ toSrv \o o = toSrv /\ toSrv \o x = toSrv
  BY <1>1, Joined
<1>3. f \in Seq(FromMsg) /\ CallsKept(fromSrv, f)
  <2>1. \A i \in SrvIds : Calls(fromSrv, i) => Calls(Tail(fromSrv), i)
    <3>1. Head(fromSrv) \in FromMsg
      BY <1>1
    <3> QED BY <1>1, <3>1, Called
  <2> QED BY <1>1, <2>1 DEF CallsKept
<1> HIDE DEF x, o
<1>4. /\ a \in Upstream /\ a.rpf = up.rpf /\ a.globreq = up.globreq /\ a.out = up.out /\ a.fault = "none"
      /\ a.cs[d].st = up.cs[d].st /\ a.cs[d].half = up.cs[d].half /\ a.cs[d].fwds = up.cs[d].fwds
      /\ a.cs[d].globreq_head = up.cs[d].globreq_head
  BY <1>1 DEF IsUp, IsConn
<1>5. Sound(a, toSrv, f, srv)
  <2>1. HalfKept(up, a, d, x)
    BY <1>4 DEF HalfKept
  <2>2. IsUp(a, a.cs, a.chan, up.rpf, up.globreq, up.drained, up.out \o x, up.fault)
    BY <1>2 DEF o
  <2>3. (toSrv \o up.out) \o x = toSrv
    BY <1>2 DEF o
  <2>4. Channels(a.cs, a.chan, (toSrv \o up.out) \o x, f, srv.ch)
    BY <2>3
  <2>5. a.cs[d].st \in {"live", "dead"}
    BY <1>4
  <2> HIDE DEF f
  <2> QED BY <1>1, <1>2, <1>3, <2>1, <2>2, <2>4, <2>5, OthersKept
<1>6. gentle => SoundPorts(a, up.globreq, toSrv, f, srv)
  <2> SUFFICES ASSUME gentle PROVE SoundPorts(a, up.globreq, toSrv, f, srv)
    OBVIOUS
  <2>1. StateP(up.cs)
    BY <1>1, PortFacts
  <2>2. \A e \in Downs : a.cs[e].fwds = up.cs[e].fwds /\ a.cs[e].globreq_head = up.cs[e].globreq_head
                          /\ a.cs[e].st = up.cs[e].st
    BY <1>4 DEF Moves
  <2>3. StateP(a.cs)
    BY <2>1, <2>2 DEF StateP, Waits
  <2>4. SameToPorts(toSrv, toSrv)
    BY <1>1, SameTos
  <2>5. SameFromPorts(fromSrv, f)
    BY <1>1, SameFroms
  <2>6. Forwardings(a.cs, up.rpf, up.globreq, toSrv, f, srv.fwd)
    <3> HIDE DEF f
    <3>1. \A e \in Downs : a.cs[e].fwds = up.cs[e].fwds /\ a.cs[e].globreq_head = up.cs[e].globreq_head
      BY <2>2
    <3>2. Forwardings(up.cs, up.rpf, up.globreq, toSrv, fromSrv, srv.fwd)
      BY <1>1
    <3> QED BY <2>3, <2>4, <2>5, <3>1, <3>2, ForwardingsKept
  <2>7. toSrv \o a.out = toSrv
    BY <1>2, <1>4 DEF o
  <2> QED BY <1>4, <2>6, <2>7 DEF SoundPorts
<1> HIDE DEF f
<1>7. /\ v \in Upstream /\ v.globreq = up.globreq /\ Sound(v, toSrv, f, srv) /\ Moves(up.cs, v.cs, d)
      /\ gentle => /\ SoundPorts(v, up.globreq, toSrv, f, srv) /\ v.fault = "none"
                   /\ v.cs[d].st = "dead" => CleanDown(v.cs[d])
  <2>1. CASE v = RetryIfDead(a, d)
    <3>1. /\ Sound(v, toSrv, f, srv)
          /\ \A gq : SoundPorts(a, gq, toSrv, f, srv) => SoundPorts(v, gq, toSrv, f, srv) /\ v.fault = a.fault
          /\ IsUp(v, v.cs, v.chan, v.rpf, a.globreq, a.drained, v.out, v.fault)
          /\ Moves(a.cs, v.cs, d)
          /\ v.cs[d].st = "dead" => CleanDown(v.cs[d])
      BY <1>1, <1>3, <1>5, <2>1, Retries
    <3>2. v \in Upstream /\ v.globreq = up.globreq
      BY <1>4, <3>1 DEF IsUp
    <3>3. Moves(up.cs, v.cs, d)
      BY <3>1 DEF Moves
    <3> QED BY <1>4, <1>6, <3>1, <3>2, <3>3
  <2>2. CASE v = a /\ (gentle /\ a.cs[d].st = "dead" => CleanDown(a.cs[d]))
    BY <1>4, <1>5, <1>6, <2>2
  <2> QED BY <2>1, <2>2
<1>8. Leaves(v)
  BY <1>7, Applied
<1>9. gentle => Cleaned(v.cs)
  BY <1>1, <1>7, CleanedMoves
<1>10. fromSrv' = f /\ fromSrv' \in Seq(FromMsg)
  BY <1>3 DEF f
<1>11. gentle' => SoundPorts(v, v.globreq, toSrv, fromSrv', srv) /\ Cleaned(v.cs) /\ v.fault = "none"
  BY <1>7, <1>9, <1>10
<1>12. v = RetryIfDead(a, d) => Tried(v.cs[d])
  BY <1>1, <1>3, <1>5, Retries
<1>13. IInv'
  BY <1>1, <1>7, <1>8, <1>10, <1>11, UpStep
<1> QED BY <1>7, <1>8, <1>12, <1>13

\* It keeps the invariant.
LEMMA ChanFound ==
  ASSUME IInv, Running, fromSrv # << >>, Head(fromSrv).t \in {"conf", "fail", "close"},
         fromSrv' = Tail(fromSrv), srv' = srv, ops' = ops, gentle' = gentle,
         NEW d \in Downs, up.cs[d].st \in {"live", "dead"}, NEW c \in up.cs[d].chans, Head(fromSrv).us = c.us,
         NEW v, Hears(up, d, Head(fromSrv), c, v), Apply(v)
  PROVE  IInv' /\ Leaves(v) /\ Moves(up.cs, v.cs, d) /\ (Head(fromSrv).t # "fail" => Tried(v.cs[d]))
<1>1. /\ up \in Upstream /\ toSrv \in Seq(ToMsg) /\ fromSrv \in Seq(FromMsg) /\ gentle \in BOOLEAN
      /\ Channels(up.cs, up.chan, toSrv, fromSrv, srv.ch)
      /\ gentle => Cleaned(up.cs)
  BY Known
<1>2. c.us \in UpIds /\ (Head(fromSrv).t = "conf" => Head(fromSrv).sid \in SrvIds)
  <2>1. Head(fromSrv) \in FromMsg
    BY <1>1
  <2> QED BY <2>1 DEF FromMsg
<1>8. /\ Head(fromSrv).t = "conf" /\ c.st = "UNACKNOWLEDGED" =>
            v = RetryIfDead([up EXCEPT !.cs[d].chans = (@ \ {c}) \cup
                        {NewRec(c.us, Head(fromSrv).sid, "OPEN")}], d)
      /\ Head(fromSrv).t = "fail" => v = share_remove_channel(up, d, c)
      /\ Head(fromSrv).t = "close" /\ c.st = "SENT_CLOSE" => v = RetryIfDead(share_remove_channel(up, d, c), d)
      /\ Head(fromSrv).t = "close" /\ c.st # "SENT_CLOSE" => v = SetState(up, d, c, "RCVD_CLOSE")
  BY DEF Hears
<1>9. /\ Head(fromSrv).t = "conf" => c.st = "UNACKNOWLEDGED"
      /\ Head(fromSrv).t = "close" => c.st \in {"OPEN", "SENT_CLOSE"}
  <2>1. Meets(Head(fromSrv), c)
    BY <1>1, HeadMeets
  <2> QED BY <2>1 DEF Meets
<1>10. c \in ShareChannel /\ up.cs[d].chans \subseteq ShareChannel
  BY <1>1, UpParts
<1>11. CASE Head(fromSrv).t = "conf"
  <2> DEFINE r == NewRec(c.us, Head(fromSrv).sid, "OPEN")
             S == (up.cs[d].chans \ {c}) \cup {r}
             a == [up EXCEPT !.cs[d].chans = S]
  <2>1. v = RetryIfDead(a, d)
    BY <1>8, <1>9, <1>11
  <2>2. r \in ShareChannel
    <3>1. Head(fromSrv).sid \in SrvIds /\ Head(fromSrv).sid \in Opt(SrvIds) /\ "OPEN" \in ChanStates /\ "OPEN" \in Numbered
      BY <1>2, <1>11 DEF Opt, ChanStates, Numbered
    <3> QED BY <1>2, <3>1, RecIs
  <2> HIDE DEF r
  <2>3. S \in SUBSET ShareChannel
    BY <1>10, <2>2
  <2> HIDE DEF S
  <2>4. /\ IsUp(a, a.cs, up.chan, up.rpf, up.globreq, up.drained, up.out, up.fault)
        /\ Moves(up.cs, a.cs, d)
        /\ IsConn(a.cs[d], up.cs[d].st, up.cs[d].half, S, up.cs[d].fwds, up.cs[d].globreq_head)
    BY <1>1, <2>3, PutChans
  <2> HIDE DEF a
  <2>5. a.chan = up.chan /\ a.cs[d].chans = S
    BY <2>4 DEF IsUp, IsConn
  <2>6. Gets(up.cs, a.cs, d, (up.cs[d].chans \ {c}) \cup {NewRec(c.us, Head(fromSrv).sid, "OPEN")})
    BY <2>4, <2>5 DEF Gets, Moves, S, r
  <2>7. Channels(a.cs, a.chan, toSrv, Tail(fromSrv), srv.ch)
    BY <1>1, <1>2, <1>11, <2>5, <2>6, UpConfirmed
  <2> QED BY <2>1, <2>4, <2>5, <2>7, ChanHeard
<1> DEFINE a == share_remove_channel(up, d, c)
<1>12. /\ IsUp(a, a.cs, a.chan, up.rpf, up.globreq, up.drained, up.out, up.fault)
       /\ Moves(up.cs, a.cs, d)
       /\ IsConn(a.cs[d], up.cs[d].st, up.cs[d].half, up.cs[d].chans \ {c}, up.cs[d].fwds, up.cs[d].globreq_head)
       /\ Becomes(up.chan, a.chan, c.us, None)
  BY <1>1, <1>10, RemoveIs
<1>13. CASE Head(fromSrv).t = "fail" \/ (Head(fromSrv).t = "close" /\ c.st = "SENT_CLOSE")
  <2>1. v = RetryIfDead(a, d) \/ (v = a /\ Head(fromSrv).t = "fail")
    BY <1>8, <1>13
  <2> HIDE DEF a
  <2>2. a.cs[d].chans = up.cs[d].chans \ {c} /\ a.cs[d].half = up.cs[d].half /\ a.cs[d].fwds = up.cs[d].fwds
        /\ a.cs[d].globreq_head = up.cs[d].globreq_head /\ a.cs[d].st = up.cs[d].st
    BY <1>12 DEF IsConn
  <2>3. Gets(up.cs, a.cs, d, up.cs[d].chans \ {c})
    BY <1>12, <2>2 DEF Gets, Moves
  <2>4. Channels(a.cs, a.chan, toSrv, Tail(fromSrv), srv.ch)
    BY <1>1, <1>2, <1>12, <1>13, <2>3, UpRefused
  <2>5. gentle /\ a.cs[d].st = "dead" => CleanDown(a.cs[d])
    <3> SUFFICES ASSUME gentle, a.cs[d].st = "dead" PROVE CleanDown(a.cs[d])
      OBVIOUS
    <3>1. CleanDown(up.cs[d])
      BY <1>1, <2>2 DEF Cleaned
    <3> QED BY <2>2, <3>1 DEF CleanDown
  <2>6. v = RetryIfDead(a, d) \/ (v = a /\ (gentle /\ a.cs[d].st = "dead" => CleanDown(a.cs[d])))
    BY <2>1, <2>5
  <2>7. IsConn(a.cs[d], up.cs[d].st, up.cs[d].half, a.cs[d].chans, up.cs[d].fwds, up.cs[d].globreq_head)
    BY <1>12, <2>2
  <2> QED BY <1>12, <2>1, <2>4, <2>6, <2>7, ChanHeard
<1>14. CASE Head(fromSrv).t = "close" /\ c.st # "SENT_CLOSE"
  <2> DEFINE F == "RCVD_CLOSE"
  <2>1. v = SetState(up, d, c, F)
    BY <1>8, <1>14
  <2>2. F \in ChanStates /\ (c.sid \in SrvIds <=> F \in Numbered) /\ c.st = "OPEN"
    BY <1>9, <1>10, <1>14 DEF ChanStates, Numbered, ShareChannel
  <2> HIDE DEF F
  <2>3. /\ IsUp(v, v.cs, up.chan, up.rpf, up.globreq, up.drained, up.out, up.fault)
        /\ Moves(up.cs, v.cs, d)
        /\ IsConn(v.cs[d], up.cs[d].st, up.cs[d].half, (up.cs[d].chans \ {c}) \cup {NewRec(c.us, c.sid, F)},
                  up.cs[d].fwds, up.cs[d].globreq_head)
    BY <1>1, <1>10, <2>1, <2>2, SetStateIs
  <2>4. /\ v.chan = up.chan /\ v.cs[d].st = up.cs[d].st
        /\ v.cs[d].chans = (up.cs[d].chans \ {c}) \cup {NewRec(c.us, c.sid, F)}
    BY <2>3 DEF IsUp, IsConn
  <2>5. Gets(up.cs, v.cs, d, (up.cs[d].chans \ {c}) \cup {NewRec(c.us, c.sid, "RCVD_CLOSE")})
    BY <2>3, <2>4 DEF Gets, Moves, F
  <2>6. Channels(v.cs, v.chan, toSrv, Tail(fromSrv), srv.ch)
    <3>1. /\ Channels(up.cs, up.chan, toSrv, fromSrv, srv.ch) /\ fromSrv \in Seq(FromMsg) /\ fromSrv # << >>
          /\ toSrv \in Seq(ToMsg) /\ c.us \in UpIds /\ Head(fromSrv).us = c.us /\ Head(fromSrv).t = "close"
          /\ c.st = "OPEN" /\ v.chan = up.chan /\ c \in up.cs[d].chans
      BY <1>1, <1>2, <1>14, <2>2, <2>4
    <3> HIDE DEF a
    <3> QED BY <2>5, <3>1, UpClosed
  <2>7. gentle /\ v.cs[d].st = "dead" => CleanDown(v.cs[d])
    <3> SUFFICES ASSUME gentle, up.cs[d].st = "dead" PROVE FALSE
      BY <2>4
    <3>1. CleanDown(up.cs[d])
      BY <1>1 DEF Cleaned
    <3> QED BY <2>2, <3>1 DEF CleanDown
  <2>8. IsConn(v.cs[d], up.cs[d].st, up.cs[d].half, v.cs[d].chans, up.cs[d].fwds, up.cs[d].globreq_head)
        /\ IsUp(v, v.cs, v.chan, up.rpf, up.globreq, up.drained, up.out, up.fault)
    BY <2>3, <2>4
  <2>9. Tried(v.cs[d])
    BY <2>4 DEF Tried, Idle
  <2> QED BY <2>3, <2>6, <2>7, <2>8, <2>9, ChanHeard
<1> QED BY <1>11, <1>13, <1>14

\* The upstream hears of a channel.
LEMMA RecvChanInv ==
  ASSUME IInv, Running, fromSrv # << >>, fromSrv' = Tail(fromSrv), srv' = srv, ops' = ops, gentle' = gentle,
         NEW m, m = Head(fromSrv), m.t \in {"conf", "fail", "close"}, NEW d, d = up.chan[m.us],
         Apply(ToDownstream(up, d, ChannelMsg(up, d, m)))
  PROVE  IInv' /\ FreesStep
<1>1. Typed /\ fromSrv \in Seq(FromMsg) /\ GoodChan(up, toSrv, fromSrv, srv)
  BY Known DEF GoodChan
<1>2. m \in FromMsg /\ m.d \in Downs
  <2>1. m \in FromMsg
    BY <1>1
  <2> QED BY <2>1 DEF FromMsg
<1>3. d = m.d /\ up.cs[d].st \in {"live", "dead"} /\ \E c \in up.cs[d].chans : c.us = m.us
  <2>1. 1 \in 1..Len(fromSrv) /\ fromSrv[1] = m
    BY <1>1
  <2>2. /\ up.chan[fromSrv[1].us] = fromSrv[1].d
        /\ up.cs[fromSrv[1].d].st \in {"live", "dead"}
        /\ \E c \in up.cs[fromSrv[1].d].chans : c.us = fromSrv[1].us
    BY <1>1, <2>1, FindsRecord
  <2> QED BY <2>1, <2>2
<1> DEFINE cc == {c \in up.cs[d].chans : c.us = m.us}
           c == CHOOSE z \in cc : TRUE
           v == ChannelMsg(up, d, m)
<1>4. cc # {} /\ c \in cc
  BY <1>3
<1>5. c \in up.cs[d].chans /\ c.us = m.us
  BY <1>4
<1>6. Apply(v)
  BY <1>3 DEF ToDownstream
<1>7. Hears(up, d, m, c, v)
  BY <1>4 DEF ChannelMsg, Hears, NewRec
<1> HIDE DEF c, cc, v
<1>8. d \in Downs /\ up.cs[d].st \in {"live", "dead"} /\ c \in up.cs[d].chans /\ Head(fromSrv).us = c.us
      /\ Hears(up, d, Head(fromSrv), c, v) /\ Head(fromSrv).t \in {"conf", "fail", "close"}
  BY <1>2, <1>3, <1>5, <1>7
<1>9. IInv' /\ Leaves(v) /\ Moves(up.cs, v.cs, d) /\ (m.t # "fail" => Tried(v.cs[d]))
  BY <1>6, <1>8, ChanFound
<1>10. m.t = "fail" => Refused(d)
  BY DEF Refused
<1> QED BY <1>8, <1>9, <1>10, StructFreed

\* GlobreqReply does one or the other, and then retries the cleanup of a struct
\* whose downstream has gone.
LEMMA ReplyIs ==
  ASSUME NEW u \in Upstream, NEW d \in Downs, NEW ok \in BOOLEAN, NEW v, v = GlobreqReply(u, d, ok)
  PROVE  ReplyLost(u, v, d) \/ \E w : v = RetryIfDead(w, d) /\ ReplyOf(u, w, d, ok)
<1> DEFINE g == u.cs[d].globreq_head
           p == g.p
           a == [u EXCEPT !.cs[d].globreq_head = None]
<1>1. g \in Opt(ShareGlobreq) /\ (g # None => g.type \in {"forward", "cancel"} /\ p \in Ports)
  <2>1. g \in Opt(ShareGlobreq)
    BY UpParts
  <2> HIDE DEF g
  <2> QED BY <2>1 DEF Opt, ShareGlobreq
<1>2. ASSUME NEW why \in Faults \ {"none"}, v = Fault(u, why), g = None \/ u.cs[d].fwds[p].st = "none"
      PROVE  ReplyLost(u, v, d)
  <2>1. /\ IsUp(v, u.cs, u.chan, u.rpf, u.globreq, u.drained, u.out, v.fault)
        /\ u.fault = "none" => v.fault = why
    BY <1>2, FaultIs
  <2> QED BY <1>2, <2>1 DEF ReplyLost
<1>3. "globreq" \in Faults \ {"none"} /\ "fwd" \in Faults \ {"none"}
  BY DEF Faults
<1>4. /\ IsUp(a, a.cs, u.chan, u.rpf, u.globreq, u.drained, u.out, u.fault)
      /\ Moves(u.cs, a.cs, d)
      /\ IsConn(a.cs[d], u.cs[d].st, u.cs[d].half, u.cs[d].chans, u.cs[d].fwds, None)
  <2>1. None \in Opt(ShareGlobreq)
    BY DEF Opt
  <2> QED BY <2>1, PutHead
<1>5. CASE g = None
  <2>1. v = Fault(u, "globreq")
    BY <1>5 DEF GlobreqReply
  <2> QED BY <1>2, <1>3, <1>5, <2>1
<1>6. CASE g # None /\ g.type = "cancel" /\ ~ok
  <2>1. v = RetryIfDead(a, d)
    BY <1>6 DEF GlobreqReply
  <2> HIDE DEF a
  <2>2. OnlyPort(u.cs, a.cs, d, p)
    BY <1>4 DEF OnlyPort, Moves, IsConn
  <2>3. IsConn(a.cs[d], u.cs[d].st, u.cs[d].half, u.cs[d].chans, a.cs[d].fwds, None)
    BY <1>4 DEF IsConn
  <2>4. ReplyOf(u, a, d, ok)
    BY <1>1, <1>4, <1>6, <2>2, <2>3 DEF ReplyOf
  <2> QED BY <2>1, <2>4
<1>7. CASE g # None /\ ~(g.type = "cancel" /\ ~ok) /\ u.cs[d].fwds[p].st = "none"
  <2>1. v = Fault(u, "fwd")
    BY <1>7 DEF GlobreqReply
  <2> QED BY <1>2, <1>3, <1>7, <2>1
<1>8. CASE g # None /\ ~(g.type = "cancel" /\ ~ok) /\ u.cs[d].fwds[p].st # "none"
  <2> DEFINE e == a.cs[d].fwds[p]
             F == "active"
             x == IF g.type = "forward" /\ ok THEN [e EXCEPT !.st = F] ELSE Fwd0
             w == [a EXCEPT !.cs[d].fwds[p] = x]
  <2>1. v = RetryIfDead(w, d)
    BY <1>8 DEF GlobreqReply
  <2>2. e \in ShareForwarding /\ F \in {"none", "waiting", "active"} /\ p \in Ports
        /\ e = u.cs[d].fwds[p] /\ e.rpf = u.cs[d].fwds[p].rpf
    <3> HIDE DEF a
    <3>1. a.cs[d].fwds = u.cs[d].fwds /\ u.cs[d].fwds \in [Ports -> ShareForwarding]
      BY <1>4, UpParts DEF IsConn
    <3> QED BY <1>1, <1>8, <3>1
  <2> HIDE DEF e, F
  <2>3. x \in ShareForwarding /\ x.rpf \in BOOLEAN
    <3>1. [e EXCEPT !.st = F] \in ShareForwarding
      BY <2>2, FwdFields
    <3>2. x \in ShareForwarding
      BY <3>1, Forwardings0
    <3> HIDE DEF x
    <3> QED BY <3>2 DEF ShareForwarding
  <2>4. /\ g.type = "forward" /\ ok => x.st = F /\ x.rpf = e.rpf
        /\ ~(g.type = "forward" /\ ok) => x.st = "none" /\ ~x.rpf
    <3>1. [e EXCEPT !.st = F].st = F /\ [e EXCEPT !.st = F].rpf = e.rpf
      <4> TRUE \in BOOLEAN
        OBVIOUS
      <4> QED BY <2>2, FwdFields
    <3> QED BY <3>1, Forwardings0
  <2> HIDE DEF x, a
  <2>5. a \in Upstream
    BY <1>4 DEF IsUp
  <2>6. /\ IsUp(w, w.cs, a.chan, a.rpf, a.globreq, a.drained, a.out, a.fault)
        /\ Moves(a.cs, w.cs, d)
        /\ IsConn(w.cs[d], a.cs[d].st, a.cs[d].half, a.cs[d].chans, w.cs[d].fwds, a.cs[d].globreq_head)
        /\ Sets(a.cs[d].fwds, w.cs[d].fwds, p, x)
    BY <2>2, <2>3, <2>5, PutFwd
  <2> HIDE DEF w
  <2>7. /\ a.chan = u.chan /\ a.rpf = u.rpf /\ a.globreq = u.globreq /\ a.drained = u.drained /\ a.out = u.out
        /\ a.fault = u.fault /\ a.cs[d].st = u.cs[d].st /\ a.cs[d].half = u.cs[d].half
        /\ a.cs[d].chans = u.cs[d].chans /\ a.cs[d].fwds = u.cs[d].fwds /\ a.cs[d].globreq_head = None
    BY <1>4 DEF IsUp, IsConn
  <2>8. /\ IsUp(w, w.cs, u.chan, u.rpf, u.globreq, u.drained, u.out, u.fault)
        /\ IsConn(w.cs[d], u.cs[d].st, u.cs[d].half, u.cs[d].chans, w.cs[d].fwds, None)
    BY <2>6, <2>7
  <2>9. Moves(u.cs, w.cs, d)
    BY <1>4, <2>6 DEF Moves
  <2>10. OnlyPort(u.cs, w.cs, d, p)
    BY <2>6, <2>7, <2>9 DEF OnlyPort, Moves, Sets
  <2>11. w.cs[d].fwds[p] = x
    BY <2>6 DEF Sets
  <2>12. /\ g.type = "forward" /\ ok => w.cs[d].fwds[p].st = "active" /\ w.cs[d].fwds[p].rpf = u.cs[d].fwds[p].rpf
         /\ ~(g.type = "forward" /\ ok) => w.cs[d].fwds[p].st = "none" /\ ~w.cs[d].fwds[p].rpf
    BY <2>2, <2>4, <2>11 DEF F
  <2>13. ReplyOf(u, w, d, ok)
    BY <1>1, <1>8, <2>8, <2>9, <2>10, <2>12 DEF ReplyOf
  <2> QED BY <2>1, <2>13
<1> QED BY <1>5, <1>6, <1>7, <1>8

\* The upstream takes an answer off the wire.
LEMMA TailSound ==
  ASSUME NEW u, NEW ts \in Seq(ToMsg), NEW f \in Seq(FromMsg), NEW s, Sound(u, ts, f, s),
         f # << >>, Head(f).t \in {"success", "failure"}
  PROVE  Sound(u, ts, Tail(f), s)
<1> DEFINE w == ts \o u.out
           sc == s.ch
<1>1. u \in Upstream /\ Structs(u.cs, u.rpf) /\ Announced(u.cs, w, f, sc) /\ Channels(u.cs, u.chan, w, f, sc)
  BY DEF Sound, GoodChan
<1>2. w \in Seq(ToMsg)
  <2> DEFINE o == u.out
  <2>1. o \in Seq(ToMsg)
    BY <1>1, UpParts
  <2> HIDE DEF o
  <2>2. ts \o o \in Seq(ToMsg)
    BY <2>1
  <2> QED BY <2>2 DEF o
<1> HIDE DEF w, sc
<1>3. Channels(u.cs, u.chan, w, Tail(f), sc)
  <2>1. SameTo(w, w)
    BY <1>2, SameTos
  <2>2. SameFrom(f, Tail(f))
    BY SameFroms
  <2>3. \A n \in UpIds : SameS(sc, sc, n)
    BY DEF SameS
  <2>4. \A e \in Downs : u.cs[e].chans = u.cs[e].chans
    OBVIOUS
  <2> QED BY <1>1, <2>1, <2>2, <2>3, <2>4, ChannelsKept
<1>4. Announced(u.cs, w, Tail(f), sc)
  <2> SUFFICES ASSUME NEW i \in SrvIds, sc[i].st = "opening"
               PROVE  Answers(w, i) \/ Calls(Tail(f), i) \/ \E e \in Downs : i \in u.cs[e].half
    BY Announcing
  <2>1. Answers(w, i) \/ Calls(f, i) \/ \E e \in Downs : i \in u.cs[e].half
    BY <1>1, Announcing
  <2>2. Calls(f, i) => Calls(Tail(f), i)
    <3>1. Head(f) \in FromMsg
      OBVIOUS
    <3> QED BY <3>1, Called
  <2> QED BY <2>1, <2>2
<1> QED BY <1>1, <1>3, <1>4 DEF Sound, GoodChan, w, sc

\* What the answer made of the struct keeps the channels as they should be ...
LEMMA ReplySound ==
  ASSUME NEW u, NEW ts \in Seq(ToMsg), NEW f \in Seq(FromMsg), NEW s, Sound(u, ts, f, s),
         NEW d \in Downs, NEW ok, NEW w, ReplyOf(u, w, d, ok)
  PROVE  Sound(w, ts, f, s)
<1> DEFINE x == << >>
           o == u.out
<1>1. u \in Upstream /\ o \in Seq(ToMsg) /\ Structs(u.cs, u.rpf)
  BY UpParts DEF Sound, GoodChan
<1>2. x \in Seq(ToMsg) /\ o \o x = o /\ Len(x) = 0
  BY <1>1, Joined
<1> HIDE DEF x, o
<1>3. /\ IsUp(w, w.cs, u.chan, u.rpf, u.globreq, u.drained, u.out \o x, u.fault)
      /\ Moves(u.cs, w.cs, d)
      /\ IsConn(w.cs[d], u.cs[d].st, u.cs[d].half, u.cs[d].chans, w.cs[d].fwds, None)
  BY <1>2 DEF ReplyOf, o
<1>4. w.cs[d].st = u.cs[d].st /\ w.cs[d].half = u.cs[d].half /\ w.cs[d].chans = u.cs[d].chans
  BY <1>3 DEF IsConn
<1>5. StructOnly(u, w, d, x, u.rpf)
  BY <1>1, <1>2, <1>4 DEF StructOnly, Structs
<1> QED BY <1>2, <1>3, <1>5, StructKept

\* ... and, as long as the downstreams are gentle, the ports, too.
LEMMA ReplyPorts ==
  ASSUME NEW u \in Upstream, NEW gq \in Seq(Downs), NEW ts \in Seq(ToMsg), NEW f \in Seq(FromMsg), NEW s,
         SoundPorts(u, gq, ts, f, s), gq # << >>, f # << >>, Head(f).t \in {"success", "failure"},
         NEW d \in Downs, d = Head(gq)
  PROVE  /\ u.cs[d].globreq_head # None /\ u.cs[d].globreq_head.p = Head(f).p /\ Head(f).p \in Ports
         /\ u.cs[d].fwds[Head(f).p].st # "none"
         /\ u.cs[d].st \in {"live", "dead"}
         /\ \A w : ReplyOf(u, w, d, Head(f).t = "success") => SoundPorts(w, Tail(gq), ts, Tail(f), s)
<1> DEFINE p == Head(f).p
           t == Head(f).t
           k == ts \o u.out
           sf == s.fwd
           head == u.cs[d].globreq_head
<1>1. Forwardings(u.cs, u.rpf, gq, k, f, sf) /\ k \in Seq(ToMsg)
  <2> DEFINE o == u.out
  <2>1. o \in Seq(ToMsg)
    BY UpParts
  <2> HIDE DEF o
  <2>2. ts \o o \in Seq(ToMsg)
    BY <2>1
  <2> QED BY <2>2 DEF o, SoundPorts
<1> HIDE DEF k, sf
<1>2. p \in Ports /\ t \in {"success", "failure"}
  <2>1. Head(f) \in FromMsg
    OBVIOUS
  <2> QED BY <2>1 DEF FromMsg
<1>3. /\ Head(f).d = d
      /\ Waits(u.cs[d], "forward", p) \/ Waits(u.cs[d], "cancel", p)
      /\ t = "failure" => Waits(u.cs[d], "forward", p)
  BY <1>1, AnswerMeets
<1>4. head # None /\ head.p = p
      /\ (head.type = "forward" => Waits(u.cs[d], "forward", p))
      /\ (head.type = "cancel" => Waits(u.cs[d], "cancel", p))
      /\ (t = "failure" => head.type = "forward")
      /\ head.type \in {"forward", "cancel"}
  BY <1>3 DEF Waits
<1>5. FwdP(u.cs, u.rpf) /\ StateP(u.cs)
  BY <1>1, PortFacts
<1>6. u.cs[d].fwds[p].st # "none"
  BY <1>2, <1>3, <1>5 DEF FwdP, FwdPq
<1>7. u.cs[d].st \in {"live", "dead"}
  <2>1. u.cs[d].st \in {"none", "live", "dead", "freed"}
    BY UpParts
  <2> QED BY <1>4, <1>5, <2>1 DEF StateP
<1>8. ASSUME NEW w, ReplyOf(u, w, d, t = "success")
      PROVE  SoundPorts(w, Tail(gq), ts, Tail(f), s)
  <2>1. /\ IsUp(w, w.cs, u.chan, u.rpf, u.globreq, u.drained, u.out, u.fault)
        /\ IsConn(w.cs[d], u.cs[d].st, u.cs[d].half, u.cs[d].chans, w.cs[d].fwds, None)
        /\ OnlyPort(u.cs, w.cs, d, p)
        /\ head.type = "forward" /\ t = "success" =>
                w.cs[d].fwds[p].st = "active" /\ w.cs[d].fwds[p].rpf = u.cs[d].fwds[p].rpf
        /\ head.type = "forward" /\ t # "success" => w.cs[d].fwds[p].st = "none" /\ ~w.cs[d].fwds[p].rpf
        /\ head.type = "cancel" /\ t = "success" => w.cs[d].fwds[p].st = "none" /\ ~w.cs[d].fwds[p].rpf
    BY <1>4, <1>8 DEF ReplyOf
  <2>2. w.rpf = u.rpf /\ w.out = u.out /\ w.cs[d].globreq_head = None /\ w.cs[d].st = u.cs[d].st
    BY <2>1 DEF IsUp, IsConn
  <2>3. Forwardings(w.cs, u.rpf, Tail(gq), k, Tail(f), sf)
    <3> HIDE DEF head
    <3>1. CASE head.type = "forward" /\ t = "success"
      <4>1. /\ w.cs[d].fwds[p].st = "active" /\ w.cs[d].fwds[p].rpf = u.cs[d].fwds[p].rpf
            /\ Waits(u.cs[d], "forward", p) /\ Head(f).t = "success" /\ Head(f).d = d
        BY <1>3, <1>4, <2>1, <3>1
      <4> QED BY <1>1, <1>2, <2>1, <2>2, <4>1, UpGranted
    <3>2. CASE head.type = "forward" /\ t = "failure"
      <4>1. /\ w.cs[d].fwds[p].st = "none" /\ ~w.cs[d].fwds[p].rpf
            /\ Head(f).t = "failure" /\ Head(f).d = d
        BY <1>3, <1>4, <2>1, <3>2
      <4> QED BY <1>1, <1>2, <2>1, <2>2, <4>1, UpRefuses
    <3>3. CASE head.type = "cancel" /\ t = "success"
      <4>1. /\ w.cs[d].fwds[p].st = "none" /\ ~w.cs[d].fwds[p].rpf
            /\ Waits(u.cs[d], "cancel", p) /\ Head(f).t = "success" /\ Head(f).d = d
        BY <1>3, <1>4, <2>1, <3>3
      <4> QED BY <1>1, <1>2, <2>1, <2>2, <4>1, UpCancelled
    <3> QED BY <1>2, <1>4, <3>1, <3>2, <3>3
  <2> QED BY <2>2, <2>3 DEF SoundPorts, k, sf
<1> QED BY <1>2, <1>4, <1>6, <1>7, <1>8

\* The upstream hears the answer to a global request.
LEMMA RecvReplyInv ==
  ASSUME IInv, Running, fromSrv # << >>, fromSrv' = Tail(fromSrv), srv' = srv, ops' = ops, gentle' = gentle,
         NEW m, m = Head(fromSrv), m.t \in {"success", "failure"}, up.globreq # << >>, Apply(RecvReply(up, m))
  PROVE  IInv' /\ FreesStep
<1> DEFINE d == Head(up.globreq)
           tl == Tail(up.globreq)
           ok == m.t = "success"
           f == Tail(fromSrv)
           r == GlobreqReply(up, d, ok)
           b == ToDownstream(up, d, r)
           v == RecvReply(up, m)
<1>1. /\ up \in Upstream /\ up.fault = "none" /\ toSrv \in Seq(ToMsg) /\ fromSrv \in Seq(FromMsg) /\ ops \in Nat
      /\ gentle \in BOOLEAN /\ up.globreq \in Seq(Downs) /\ Sound(up, toSrv, fromSrv, srv)
      /\ gentle => SoundPorts(up, up.globreq, toSrv, fromSrv, srv) /\ Cleaned(up.cs)
  BY Known, Starts, UpParts
<1>2. d \in Downs /\ tl \in Seq(Downs) /\ f \in Seq(FromMsg) /\ ok \in BOOLEAN
  BY <1>1
<1>3. Sound(up, toSrv, f, srv)
  BY <1>1, TailSound
<1>4. v = [b EXCEPT !.globreq = Tail(@), !.drained = (tl = << >>)]
  BY DEF RecvReply
<1>5. Apply(v)
  OBVIOUS
\* What gentle downstreams are answered.
<1>6. gentle =>
        /\ up.cs[d].globreq_head # None /\ up.cs[d].globreq_head.p = m.p /\ up.cs[d].fwds[m.p].st # "none"
        /\ up.cs[d].st # "freed"
        /\ \A w : ReplyOf(up, w, d, ok) => SoundPorts(w, tl, toSrv, f, srv)
  <2> SUFFICES ASSUME gentle
               PROVE  /\ up.cs[d].globreq_head # None /\ up.cs[d].globreq_head.p = m.p
                      /\ up.cs[d].fwds[m.p].st # "none" /\ up.cs[d].st # "freed"
                      /\ \A w : ReplyOf(up, w, d, ok) => SoundPorts(w, tl, toSrv, f, srv)
    OBVIOUS
  <2>1. SoundPorts(up, up.globreq, toSrv, fromSrv, srv) /\ Head(fromSrv).t \in {"success", "failure"}
    BY <1>1
  <2>2. /\ up.cs[d].globreq_head # None /\ up.cs[d].globreq_head.p = Head(fromSrv).p /\ Head(fromSrv).p \in Ports
        /\ up.cs[d].fwds[Head(fromSrv).p].st # "none"
        /\ up.cs[d].st \in {"live", "dead"}
        /\ \A w : ReplyOf(up, w, d, Head(fromSrv).t = "success") => SoundPorts(w, Tail(up.globreq), toSrv, Tail(fromSrv), srv)
    BY <1>1, <1>2, <2>1, ReplyPorts
  <2> QED BY <2>2
<1>7. ReplyLost(up, r, d) \/ \E w : r = RetryIfDead(w, d) /\ ReplyOf(up, w, d, ok)
  BY <1>1, <1>2, ReplyIs
<1> HIDE DEF v, r, f, tl, ok, d
\* What is left of it once it is off the list.
<1>8. ASSUME IsUp(b, b.cs, b.chan, b.rpf, up.globreq, b.drained, b.out, b.fault)
      PROVE  /\ v \in Upstream /\ v.cs = b.cs /\ v.chan = b.chan /\ v.rpf = b.rpf /\ v.out = b.out
             /\ v.fault = b.fault /\ v.globreq = tl
  <2> HIDE DEF b
  <2>1. b \in Upstream /\ b.globreq = up.globreq
    BY <1>8 DEF IsUp
  <2> DEFINE W == (tl = << >>)
             c == [b EXCEPT !.globreq = tl]
  <2>2. v = [c EXCEPT !.drained = W]
    <3>1. v = [b EXCEPT !.globreq = tl, !.drained = W]
      BY <1>4, <2>1 DEF tl
    <3> QED BY <3>1 DEF Upstream
  <2>3. W \in BOOLEAN
    OBVIOUS
  <2> HIDE DEF W
  <2>4. IsUp(c, b.cs, b.chan, b.rpf, tl, b.drained, b.out, b.fault)
    BY <1>2, <1>8, PutList
  <2> HIDE DEF c
  <2>5. IsUp(v, b.cs, b.chan, b.rpf, tl, W, b.out, b.fault)
    BY <2>2, <2>3, <2>4, PutDrained
  <2> QED BY <2>5 DEF IsUp
<1>9. f = fromSrv' /\ fromSrv' \in Seq(FromMsg)
  BY <1>2 DEF f
\* The answer is for nobody.
<1>10. ASSUME ~gentle, IsUp(b, b.cs, b.chan, b.rpf, up.globreq, b.drained, b.out, b.fault), b.fault # "none"
       PROVE  IInv' /\ FreesStep
  <2>1. v \in Upstream /\ v.fault # "none"
    BY <1>8, <1>10
  <2>2. Leaves(v)
    BY <1>5, <2>1, Applied
  <2>3. FreesStep
    BY <1>2, <2>1, <2>2, StructFreed
  <2> QED BY <1>1, <1>9, <1>10, <2>1, <2>2, <2>3, UpStep
<1>11. CASE up.cs[d].st = "freed"
  <2>1. b = Fault(up, "cs")
    BY <1>11 DEF ToDownstream
  <2>2. "cs" \in Faults
    BY DEF Faults
  <2> HIDE DEF b
  <2>3. IsUp(b, up.cs, up.chan, up.rpf, up.globreq, up.drained, up.out, b.fault) /\ b.fault # "none"
    BY <1>1, <2>1, <2>2, FaultIs
  <2>4. IsUp(b, b.cs, b.chan, b.rpf, up.globreq, b.drained, b.out, b.fault)
    BY <2>3 DEF IsUp
  <2>5. ~gentle
    BY <1>6, <1>11
  <2> QED BY <1>10, <2>3, <2>4, <2>5
<1>12. CASE up.cs[d].st # "freed" /\ ReplyLost(up, r, d)
  <2>1. b = r
    BY <1>12 DEF ToDownstream
  <2> HIDE DEF b
  <2>2. /\ IsUp(b, up.cs, up.chan, up.rpf, up.globreq, up.drained, up.out, b.fault) /\ b.fault # "none"
        /\ up.cs[d].globreq_head = None \/ up.cs[d].fwds[up.cs[d].globreq_head.p].st = "none"
    BY <1>1, <1>12, <2>1 DEF ReplyLost
  <2>3. IsUp(b, b.cs, b.chan, b.rpf, up.globreq, b.drained, b.out, b.fault)
    BY <2>2 DEF IsUp
  <2>4. ~gentle
    BY <1>6, <2>2
  <2> QED BY <1>10, <2>2, <2>3, <2>4
<1>13. CASE up.cs[d].st # "freed" /\ \E w : r = RetryIfDead(w, d) /\ ReplyOf(up, w, d, ok)
  <2>1. PICK w : r = RetryIfDead(w, d) /\ ReplyOf(up, w, d, ok)
    BY <1>13
  <2>2. b = RetryIfDead(w, d)
    BY <1>13, <2>1 DEF ToDownstream
  <2> HIDE DEF b
  <2>3. /\ w.globreq = up.globreq /\ w.fault = "none" /\ Moves(up.cs, w.cs, d)
    BY <1>1, <2>1 DEF ReplyOf, IsUp
  <2>4. Sound(w, toSrv, f, srv)
    BY <1>1, <1>2, <1>3, <2>1, ReplySound
  <2>5. /\ Sound(b, toSrv, f, srv)
        /\ \A gq : SoundPorts(w, gq, toSrv, f, srv) => SoundPorts(b, gq, toSrv, f, srv) /\ b.fault = w.fault
        /\ IsUp(b, b.cs, b.chan, b.rpf, w.globreq, w.drained, b.out, b.fault)
        /\ Moves(w.cs, b.cs, d)
        /\ (b.cs[d].st = "dead" => CleanDown(b.cs[d])) /\ Tried(b.cs[d])
        /\ w.fault # "none" => b.fault = w.fault
    <3>1. toSrv \in Seq(ToMsg) /\ f \in Seq(FromMsg) /\ d \in Downs
      BY <1>1, <1>2
    <3> QED BY <2>2, <2>4, <3>1, Retries
  <2>6. IsUp(b, b.cs, b.chan, b.rpf, up.globreq, b.drained, b.out, b.fault)
    BY <2>3, <2>5 DEF IsUp
  <2>7. /\ v \in Upstream /\ v.cs = b.cs /\ v.chan = b.chan /\ v.rpf = b.rpf /\ v.out = b.out
        /\ v.fault = b.fault /\ v.globreq = tl
    BY <1>8, <2>6
  <2>8. Leaves(v)
    BY <1>5, <2>7, Applied
  <2>9. Sound(v, toSrv, f, srv)
    BY <2>5, <2>7 DEF Sound, GoodChan
  <2>10. gentle => SoundPorts(v, v.globreq, toSrv, f, srv) /\ Cleaned(v.cs) /\ v.fault = "none"
    <3> SUFFICES ASSUME gentle PROVE SoundPorts(v, tl, toSrv, f, srv) /\ Cleaned(v.cs) /\ v.fault = "none"
      BY <2>7
    <3>1. SoundPorts(w, tl, toSrv, f, srv)
      BY <1>6, <2>1
    <3>2. SoundPorts(b, tl, toSrv, f, srv) /\ b.fault = "none"
      BY <2>3, <2>5, <3>1
    <3>3. SoundPorts(v, tl, toSrv, f, srv)
      BY <2>7, <3>2 DEF SoundPorts
    <3>4. Moves(up.cs, b.cs, d)
      BY <2>3, <2>5 DEF Moves
    <3>5. Cleaned(b.cs)
      BY <1>1, <1>2, <2>5, <3>4, CleanedMoves
    <3> QED BY <2>7, <3>2, <3>3, <3>5
  <2>11. FreesStep
    <3>1. Moves(up.cs, v.cs, d) /\ Tried(v.cs[d])
      BY <2>3, <2>5, <2>7 DEF Moves
    <3> QED BY <1>2, <2>8, <3>1, StructFreed
  <2> QED BY <1>1, <1>9, <2>7, <2>8, <2>9, <2>10, <2>11, UpStep
<1> QED BY <1>7, <1>11, <1>12, <1>13

---------------------------------------------------------------------------
(* What the invariant says.                                                *)

\* A channel the server has open for a downstream that has gone is being
\* closed, and no CHANNEL_OPEN of it is on its way.
LEMMA FreedChannels ==
  ASSUME Typed, GoodChan(up, toSrv, fromSrv, srv), NEW d \in Downs, up.cs[d].st = "freed"
  PROVE  /\ \A i \in SrvIds : srv.ch[i].st = "open" /\ srv.ch[i].d = d =>
                Has(toSrv, [Msg("close", d) EXCEPT !.sid = i, !.us = srv.ch[i].us])
         /\ \A k \in 1..Len(toSrv) : toSrv[k].d = d => toSrv[k].t # "open"
<1>0. toSrv \in Seq(ToMsg) /\ fromSrv \in Seq(FromMsg) /\ up.cs[d].chans = {} /\ d # None
  BY ConstAssumption DEF Typed, GoodChan, Structs
<1>2. PICK st, sid : \E bt, bf \in Int :
         Linked(up.cs, up.chan, st, sid) /\ Numbers(up.chan, st, sid, toSrv, bt, fromSrv, bf, srv.ch)
  BY DEF GoodChan, Channels
<1>3. PICK bt \in Int, bf \in Int :
         Linked(up.cs, up.chan, st, sid) /\ Numbers(up.chan, st, sid, toSrv, bt, fromSrv, bf, srv.ch)
  BY <1>2
<1>4. \A u \in UpIds : up.chan[u] # d
  BY <1>0, <1>3 DEF Linked
<1>5. ASSUME NEW i \in SrvIds, srv.ch[i].st = "open", srv.ch[i].d = d
      PROVE  Has(toSrv, [Msg("close", d) EXCEPT !.sid = i, !.us = srv.ch[i].us])
  <2> DEFINE u == srv.ch[i].us
             T == Wire(toSrv, bt, ToOf(u))
             F == Wire(fromSrv, bf, FromOf(u))
  <2>1. u \in UpIds
    BY <1>5 DEF Typed, Server, SrvChannel
  <2>2. UInv(u, up.chan[u], st[u], sid[u], T, F, srv.ch)
    BY <2>1, <1>3 DEF Numbers
  <2>3. HeldU(u, up.chan[u], st[u], sid[u], T, F, srv.ch) /\ Held(srv.ch[i], u)
    BY <2>2, <1>5 DEF UInv, Held
  <2>4. \E x \in T : Close(x, i) /\ x.m.d = d
    <3> HIDE DEF T, F
    <3> QED BY <2>1, <2>3, <1>4, <1>5 DEF HeldU
  <2>5. PICK k \in 1..Len(toSrv) : toSrv[k].t = "close" /\ toSrv[k].sid = i /\ toSrv[k].d = d /\ toSrv[k].us = u
    BY <2>4, <1>0, OnWire DEF Close, ToOf
  <2>6. toSrv[k] = Pkt("close", d, u, i, None, FALSE)
    <3>1. toSrv[k] \in ToMsg
      BY <1>0
    <3>2. toSrv[k] \in Packet /\ toSrv[k].p = None /\ toSrv[k].wr = FALSE
      BY <2>5, <3>1 DEF ToMsg
    <3> QED BY <2>5, <3>2, PacketIs
  <2>7. [Msg("close", d) EXCEPT !.sid = i, !.us = u] = toSrv[k]
    BY <2>6, MsgSidUs
  <2> QED BY <2>7 DEF Has
<1>6. ASSUME NEW k \in 1..Len(toSrv), toSrv[k].d = d, toSrv[k].t = "open" PROVE FALSE
  <2> DEFINE u == toSrv[k].us
             T == Wire(toSrv, bt, ToOf(u))
             F == Wire(fromSrv, bf, FromOf(u))
             x == [n |-> bt + k, m |-> toSrv[k]]
  <2>1. u \in UpIds /\ toSrv[k] \in ToOf(u)
    BY <1>6, <1>0 DEF ToMsg, ToOf
  <2>2. BirthU(u, up.chan[u], st[u], sid[u], T, F, srv.ch)
    BY <2>1, <1>3 DEF Numbers, UInv
  <2>3. x \in T /\ x.m = toSrv[k]
    BY <2>1, <1>0, OnWire
  <2> HIDE DEF T, F, x
  <2> QED BY <2>1, <2>2, <2>3, <1>4, <1>6 DEF BirthU, Birth
<1> QED BY <1>5, <1>6

\* Of a downstream that has gone the server has no port that is not being
\* cancelled, and no request is on its way.
LEMMA FreedPorts ==
  ASSUME Typed, GoodPort(up, toSrv, fromSrv, srv), NEW d \in Downs, up.cs[d].st = "freed"
  PROVE  /\ \A p \in Ports : srv.fwd[p] = d => Has(toSrv, [Msg("cancel", d) EXCEPT !.p = p])
         /\ \A k \in 1..Len(toSrv) : toSrv[k].d = d => toSrv[k].t # "forward"
<1>0. toSrv \in Seq(ToMsg) /\ fromSrv \in Seq(FromMsg) /\ d # None
  BY ConstAssumption DEF Typed
<1>1. PICK bg \in Int, bt \in Int, bf \in Int :
         PInv(up.cs, up.rpf, Wire(up.globreq, bg, Downs), Wire(toSrv, bt, ToPorts),
              Wire(fromSrv, bf, FromPorts), srv.fwd)
  BY DEF GoodPort, Forwardings
<1> DEFINE T == Wire(toSrv, bt, ToPorts)
           F == Wire(fromSrv, bf, FromPorts)
<1>2. StateP(up.cs) /\ AskP(up.cs, T, F) /\ MsgsP(T, srv.fwd) /\ ListenP(up.cs, T, F, srv.fwd)
  BY <1>1 DEF PInv
<1>3. up.cs[d].globreq_head = None /\ \A p \in Ports : up.cs[d].fwds[p].st = "none"
  BY <1>2 DEF StateP
<1>4. \A x \in T : x.m.d = d => ~x.m.wr
  <2> HIDE DEF T, F
  <2> QED BY <1>2, <1>3 DEF AskP, Waits
<1>5. ASSUME NEW p \in Ports, srv.fwd[p] = d
      PROVE  Has(toSrv, [Msg("cancel", d) EXCEPT !.p = p])
  <2>1. PICK x \in T : x.m.t = "cancel" /\ x.m.p = p
    <3> HIDE DEF T, F
    <3> QED BY <1>0, <1>2, <1>3, <1>5 DEF ListenP, Waits, Listens
  <2>2. x.m.d = d /\ ~x.m.wr
    <3> HIDE DEF T, F
    <3> QED BY <1>2, <1>4, <1>5, <2>1 DEF MsgsP
  <2>3. PICK k \in 1..Len(toSrv) : toSrv[k] = x.m
    BY <1>0, OnWire
  <2>4. toSrv[k] \in ToMsg
    BY <1>0
  <2>a. toSrv[k].wr = FALSE
    BY <2>2, <2>3, <2>4 DEF ToMsg, Packet
  <2>5. toSrv[k] = Pkt("cancel", d, None, None, p, FALSE)
    <3>1. toSrv[k] \in Packet /\ toSrv[k].us = None /\ toSrv[k].sid = None
      BY <2>1, <2>3, <2>4 DEF ToMsg
    <3> QED BY <2>1, <2>2, <2>3, <2>a, <3>1, PacketIs
  <2>6. [Msg("cancel", d) EXCEPT !.p = p] = toSrv[k]
    BY <2>5, MsgP
  <2> QED BY <2>6 DEF Has
<1>6. ASSUME NEW k \in 1..Len(toSrv), toSrv[k].d = d, toSrv[k].t = "forward" PROVE FALSE
  <2> DEFINE x == [n |-> bt + k, m |-> toSrv[k]]
  <2>1. toSrv[k] \in ToPorts
    BY <1>6, <1>0 DEF ToPorts
  <2>2. x \in T /\ x.m = toSrv[k]
    BY <2>1, <1>0, OnWire
  <2> HIDE DEF x, T, F
  <2> QED BY <2>2, <1>2, <1>4, <1>6 DEF AskP
<1> QED BY <1>5, <1>6

\* The invariant gives NothingLeftBehind: what the server has is in a record,
\* or has a message under way that ends it.
LEMMA InvLeftBehind ==
  ASSUME IInv PROVE NothingLeftBehind
<1> SUFFICES ASSUME Running, gentle PROVE NothingLeftBehind
  BY DEF NothingLeftBehind
<1>1. Typed /\ GoodChan(up, toSrv, fromSrv, srv) /\ GoodPort(up, toSrv, fromSrv, srv)
  BY DEF IInv
<1>2. ASSUME NEW d \in Downs, up.cs[d].st = "freed"
      PROVE  /\ \A i \in SrvIds : srv.ch[i].st = "open" /\ srv.ch[i].d = d =>
                    Has(toSrv, [Msg("close", d) EXCEPT !.sid = i, !.us = srv.ch[i].us])
             /\ \A p \in Ports : srv.fwd[p] = d => Has(toSrv, [Msg("cancel", d) EXCEPT !.p = p])
             /\ \A k \in 1..Len(toSrv) : toSrv[k].d = d => toSrv[k].t \notin {"open", "forward"}
  BY <1>1, <1>2, FreedChannels, FreedPorts
<1>3. ASSUME NEW i \in SrvIds, srv.ch[i].st = "opening"
      PROVE  \/ \E k \in 1..Len(toSrv) : toSrv[k].t \in {"conf", "fail"} /\ toSrv[k].sid = i
             \/ \E k \in 1..Len(fromSrv) : fromSrv[k].t = "open" /\ fromSrv[k].sid = i
             \/ \E d \in Downs : i \in up.cs[d].half /\ up.cs[d].st \in {"live", "dead"}
  <2>1. \A d \in Downs : i \in up.cs[d].half => up.cs[d].st \in {"live", "dead"}
    BY <1>1 DEF Typed, Upstream, ConnState, GoodChan, Structs
  <2> QED BY <1>1, <1>3, <2>1 DEF GoodChan, Announced
<1> QED BY <1>2, <1>3 DEF NothingLeftBehind

\* The list of outstanding requests against what is on the wires.
LEMMA ListAgrees ==
  ASSUME Typed, GoodPort(up, toSrv, fromSrv, srv)
  PROVE  /\ \A k, l \in 1..Len(up.globreq) : up.globreq[k] = up.globreq[l] => k = l
         /\ \A k \in 1..Len(up.globreq) : \E i \in Requests : InFlight[i].d = up.globreq[k]
         /\ \A i \in Requests : \E k \in 1..Len(up.globreq) :
                /\ up.globreq[k] = InFlight[i].d
                /\ \A j \in Requests : i < j =>
                    \E l \in k + 1..Len(up.globreq) : up.globreq[l] = InFlight[j].d
<1> DEFINE gq == up.globreq
<1>0. /\ toSrv \in Seq(ToMsg) /\ fromSrv \in Seq(FromMsg) /\ gq \in Seq(Downs)
      /\ Len(toSrv) \in Nat /\ Len(fromSrv) \in Nat /\ Len(gq) \in Nat
  BY DEF Typed, Upstream
<1>1. PICK bg \in Int, bt \in Int, bf \in Int :
         PInv(up.cs, up.rpf, Wire(gq, bg, Downs), Wire(toSrv, bt, ToPorts),
              Wire(fromSrv, bf, FromPorts), srv.fwd)
  BY DEF GoodPort, Forwardings
<1> DEFINE G == Wire(gq, bg, Downs)
           T == Wire(toSrv, bt, ToPorts)
           F == Wire(fromSrv, bf, FromPorts)
<1>2. /\ ListP(up.cs, G) /\ OrderP(G, T, F) /\ WaitP(up.cs, T, F)
      /\ AskP(up.cs, T, F) /\ AnswerP(up.cs, T, F, srv.fwd)
  BY <1>1 DEF PInv
<1> HIDE DEF gq
\* The three sets by place.
<1>3. /\ \A k \in 1..Len(gq) : [n |-> bg + k, m |-> gq[k]] \in G
      /\ \A x \in G : \E k \in 1..Len(gq) : x.n = bg + k /\ x.m = gq[k]
  BY <1>0, OnWire
<1>4. /\ \A k \in 1..Len(toSrv) : toSrv[k].wr => [n |-> bt + k, m |-> toSrv[k]] \in T
      /\ \A x \in T : \E k \in 1..Len(toSrv) : x.n = bt + k /\ x.m = toSrv[k]
  <2>1. \A k \in 1..Len(toSrv) : toSrv[k].wr => toSrv[k] \in ToPorts
    <3> SUFFICES ASSUME NEW k \in 1..Len(toSrv), toSrv[k].wr PROVE toSrv[k] \in ToPorts
      OBVIOUS
    <3>1. toSrv[k] \in ToMsg
      BY <1>0
    <3>2. toSrv[k].t \in {"forward", "cancel"}
      BY <3>1 DEF ToMsg
    <3> QED BY <3>1, <3>2 DEF ToPorts
  <2> QED BY <1>0, <2>1, OnWire
<1>5. /\ \A k \in 1..Len(fromSrv) : fromSrv[k].t \in {"success", "failure"} =>
            [n |-> bf + k, m |-> fromSrv[k]] \in F
      /\ \A x \in F : \E k \in 1..Len(fromSrv) : x.n = bf + k /\ x.m = fromSrv[k]
      /\ \A k \in 1..Len(fromSrv) : ~fromSrv[k].wr
  <2>1. \A k \in 1..Len(fromSrv) : fromSrv[k].t \in {"success", "failure"} => fromSrv[k] \in FromPorts
    BY <1>0 DEF FromPorts
  <2>2. \A k \in 1..Len(fromSrv) : ~fromSrv[k].wr
    BY <1>0 DEF FromMsg
  <2> QED BY <1>0, <2>1, <2>2, OnWire
<1>6. \A k \in 1..Len(toSrv) : toSrv[k].t \notin {"success", "failure"}
  BY <1>0 DEF ToMsg
<1>7. /\ Len(InFlight) = Len(fromSrv) + Len(toSrv)
      /\ \A i \in 1..Len(fromSrv) : InFlight[i] = fromSrv[i]
      /\ \A i \in 1..Len(toSrv) : InFlight[Len(fromSrv) + i] = toSrv[i]
  BY <1>0 DEF InFlight
<1> DEFINE a == Len(fromSrv)
\* A place in what is under way is a place on one of the wires.
<1>8. \A i \in Requests :
        \/ /\ i \in 1..a /\ [n |-> bf + i, m |-> InFlight[i]] \in F
           /\ InFlight[i].t \in {"success", "failure"}
        \/ /\ i - a \in 1..Len(toSrv) /\ i \in Int /\ [n |-> bt + (i - a), m |-> InFlight[i]] \in T
           /\ InFlight[i].wr
  <2> SUFFICES ASSUME NEW i \in Requests
               PROVE  \/ /\ i \in 1..a /\ [n |-> bf + i, m |-> InFlight[i]] \in F
                         /\ InFlight[i].t \in {"success", "failure"}
                      \/ /\ i - a \in 1..Len(toSrv) /\ i \in Int /\ [n |-> bt + (i - a), m |-> InFlight[i]] \in T
                         /\ InFlight[i].wr
    OBVIOUS
  <2>1. i \in 1..Len(InFlight) /\ (InFlight[i].t \in {"success", "failure"} \/ InFlight[i].wr)
    BY DEF Requests
  <2>2. CASE i <= a
    <3>1. i \in 1..a /\ InFlight[i] = fromSrv[i]
      BY <1>0, <1>7, <2>1, <2>2
    <3> QED BY <1>5, <2>1, <3>1
  <2>3. CASE i > a
    <3>1. i - a \in 1..Len(toSrv) /\ i \in Int /\ InFlight[i] = toSrv[i - a]
      <4> DEFINE j == i - a
      <4>1. j \in 1..Len(toSrv) /\ i = a + j /\ i \in Int
        BY <1>0, <1>7, <2>1, <2>3
      <4> QED BY <4>1, <1>7
    <3>2. toSrv[i - a].wr
      BY <2>1, <3>1, <1>6
    <3> QED BY <1>4, <3>1, <3>2
  <2> QED BY <1>0, <1>7, <2>1, <2>2, <2>3
<1> HIDE DEF G, T, F
<1>9. ASSUME NEW i \in Requests PROVE \E k \in 1..Len(gq) : gq[k] = InFlight[i].d
  <2>1. \/ \E x \in F : Answer(x) /\ x.m = InFlight[i]
        \/ \E x \in T : x.m.wr /\ x.m = InFlight[i]
    <3>1. CASE [n |-> bf + i, m |-> InFlight[i]] \in F /\ InFlight[i].t \in {"success", "failure"}
      BY <3>1 DEF Answer
    <3>2. CASE [n |-> bt + (i - a), m |-> InFlight[i]] \in T /\ InFlight[i].wr
      BY <3>2
    <3> QED BY <1>8, <3>1, <3>2
  <2>2. InFlight[i].d \in Downs /\ up.cs[InFlight[i].d].globreq_head # None
    BY <1>2, <2>1 DEF AskP, AnswerP, Waits
  <2>3. PICK x \in G : x.m = InFlight[i].d
    BY <1>2, <2>2 DEF ListP
  <2> QED BY <1>3, <2>3
<1>10. \A k, l \in 1..Len(gq) : gq[k] = gq[l] => k = l
  <2> SUFFICES ASSUME NEW k \in 1..Len(gq), NEW l \in 1..Len(gq), gq[k] = gq[l] PROVE k = l
    OBVIOUS
  <2> DEFINE x == [n |-> bg + k, m |-> gq[k]]
             y == [n |-> bg + l, m |-> gq[l]]
  <2>1. x \in G /\ y \in G /\ x.m = y.m /\ x.n = bg + k /\ y.n = bg + l
    BY <1>3
  <2> HIDE DEF x, y
  <2>2. x = y
    BY <1>2, <2>1 DEF ListP
  <2> QED BY <2>1, <2>2
<1>11. ASSUME NEW k \in 1..Len(gq) PROVE \E i \in Requests : InFlight[i].d = gq[k]
  <2> DEFINE x == [n |-> bg + k, m |-> gq[k]]
  <2>1. x \in G /\ x.m = gq[k]
    BY <1>3
  <2> HIDE DEF x
  <2>2. gq[k] \in Downs /\ up.cs[gq[k]].globreq_head # None
    BY <1>2, <2>1 DEF ListP
  <2>3. CASE \E y \in T : y.m.wr /\ y.m.d = gq[k]
    <3>1. PICK j \in 1..Len(toSrv) : toSrv[j].wr /\ toSrv[j].d = gq[k]
      BY <1>4, <2>3
    <3>2. a + j \in 1..Len(InFlight) /\ InFlight[a + j] = toSrv[j]
      BY <1>0, <1>7
    <3> QED BY <3>1, <3>2 DEF Requests
  <2>4. CASE \E y \in F : Answer(y) /\ y.m.d = gq[k]
    <3>1. PICK j \in 1..Len(fromSrv) : fromSrv[j].t \in {"success", "failure"} /\ fromSrv[j].d = gq[k]
      BY <1>5, <2>4 DEF Answer
    <3>2. j \in 1..Len(InFlight) /\ InFlight[j] = fromSrv[j]
      BY <1>0, <1>7
    <3> QED BY <3>1, <3>2 DEF Requests
  <2> QED BY <1>2, <2>2, <2>3, <2>4 DEF WaitP
\* Two requests under way are in the list in the same order.
<1>12. ASSUME NEW i \in Requests, NEW j \in Requests, i < j,
              NEW k \in 1..Len(gq), NEW l \in 1..Len(gq), gq[k] = InFlight[i].d, gq[l] = InFlight[j].d
       PROVE  k < l
  <2> SUFFICES ASSUME ~(k < l) PROVE FALSE
    OBVIOUS
  <2> DEFINE v == [n |-> bg + k, m |-> gq[k]]
             w == [n |-> bg + l, m |-> gq[l]]
             fi == [n |-> bf + i, m |-> InFlight[i]]
             fj == [n |-> bf + j, m |-> InFlight[j]]
             ti == [n |-> bt + (i - a), m |-> InFlight[i]]
             tj == [n |-> bt + (j - a), m |-> InFlight[j]]
  <2>1. v \in G /\ w \in G /\ v.m = gq[k] /\ w.m = gq[l] /\ v.n = bg + k /\ w.n = bg + l
    BY <1>3
  <2>2. /\ fi.n = bf + i /\ fi.m = InFlight[i] /\ fj.n = bf + j /\ fj.m = InFlight[j]
        /\ ti.n = bt + (i - a) /\ ti.m = InFlight[i] /\ tj.n = bt + (j - a) /\ tj.m = InFlight[j]
    OBVIOUS
  <2> HIDE DEF v, w, fi, fj, ti, tj
  <2>3. /\ \/ i \in 1..a /\ fi \in F /\ Answer(fi)
           \/ i - a \in 1..Len(toSrv) /\ i \in Int /\ ti \in T /\ ti.m.wr
        /\ \/ j \in 1..a /\ fj \in F /\ Answer(fj)
           \/ j - a \in 1..Len(toSrv) /\ j \in Int /\ tj \in T /\ tj.m.wr
    BY <1>8, <2>2 DEF Answer, fi, fj, ti, tj
  <2>4. w.n < v.n \/ (v = w /\ gq[k] = gq[l])
    <3>1. CASE l < k
      <4>1. bg + l < bg + k
        BY <1>0, <3>1
      <4> QED BY <2>1, <4>1
    <3>2. CASE k = l
      BY <3>2 DEF v, w
    <3> QED BY <1>0, <3>1, <3>2
  <2>5. i \in Int /\ j \in Int /\ (i \in 1..a \/ j \notin 1..a)
    BY <2>3, <1>0, <1>12
  <2>6. CASE i \in 1..a /\ j \in 1..a /\ fi \in F /\ Answer(fi) /\ fj \in F /\ Answer(fj)
    <3>1. fi.n < fj.n /\ fi.n \in Int /\ fj.n \in Int /\ ~(fj.n < fi.n) /\ fi # fj
      BY <2>2, <2>6, <1>12
    <3>2. fi.m.d = v.m /\ fj.m.d = w.m
      BY <1>12, <2>1, <2>2
    <3> QED BY <1>2, <2>1, <2>4, <2>6, <3>1, <3>2 DEF OrderP, AnswerP
  <2>7. CASE fi \in F /\ Answer(fi) /\ tj \in T /\ tj.m.wr
    <3>2. fi.m.d = v.m /\ tj.m.d = w.m
      BY <1>12, <2>1, <2>2
    <3> QED BY <1>2, <2>1, <2>4, <2>7, <3>2 DEF OrderP, AskP
  <2>8. CASE i \in Int /\ j \in Int /\ ti \in T /\ ti.m.wr /\ tj \in T /\ tj.m.wr
    <3>1. ti.n < tj.n /\ ti.n \in Int /\ tj.n \in Int /\ ~(tj.n < ti.n) /\ ti # tj
      <4>1. bt + (i - a) < bt + (j - a) /\ bt + (i - a) \in Int /\ bt + (j - a) \in Int
        BY <2>8, <1>12, <1>0
      <4> QED BY <2>2, <4>1
    <3>2. ti.m.d = v.m /\ tj.m.d = w.m
      BY <1>12, <2>1, <2>2
    <3> QED BY <1>2, <2>1, <2>4, <2>8, <3>1, <3>2 DEF OrderP, AskP
  <2> QED BY <2>3, <2>5, <2>6, <2>7, <2>8, <1>12, <1>0
<1>13. ASSUME NEW i \in Requests
       PROVE  \E k \in 1..Len(gq) :
                /\ gq[k] = InFlight[i].d
                /\ \A j \in Requests : i < j => \E l \in k + 1..Len(gq) : gq[l] = InFlight[j].d
  <2>1. PICK k \in 1..Len(gq) : gq[k] = InFlight[i].d
    BY <1>9
  <2>2. ASSUME NEW j \in Requests, i < j PROVE \E l \in k + 1..Len(gq) : gq[l] = InFlight[j].d
    <3>1. PICK l \in 1..Len(gq) : gq[l] = InFlight[j].d
      BY <1>9
    <3>2. k < l
      BY <1>12, <2>1, <2>2, <3>1
    <3>3. l \in k + 1..Len(gq)
      BY <1>0, <3>2
    <3> QED BY <3>1, <3>3
  <2> QED BY <2>1, <2>2
<1> QED BY <1>10, <1>11, <1>13 DEF gq

\* The invariant gives GentleIsSafe: the places of the requests on the wires
\* are the places of their senders in the upstream's list.
LEMMA InvSafe ==
  ASSUME IInv PROVE GentleIsSafe
<1>1. gentle /\ Running => Typed /\ GoodPort(up, toSrv, fromSrv, srv)
  BY DEF IInv
<1>2. gentle => up.fault \in {"none", "list"}
  BY DEF IInv
<1> QED BY <1>1, <1>2, ListAgrees DEF GentleIsSafe

\* With nothing on the wires no channel waits for its closing, and no request
\* for its answer.
LEMMA InvFinishes ==
  ASSUME IInv PROVE gentle => Emptied
<1> SUFFICES ASSUME Running, gentle, toSrv = << >>, fromSrv = << >>,
                    NEW d \in Downs, up.cs[d].st = "dead"
             PROVE  Idle(up.cs[d])
  BY DEF Emptied
<1>1. /\ Typed /\ GoodChan(up, toSrv, fromSrv, srv) /\ GoodPort(up, toSrv, fromSrv, srv)
      /\ CleanDown(up.cs[d]) /\ d # None
  BY ConstAssumption DEF IInv, Cleaned
<1>2. PICK st, sid : \E bt, bf \in Int :
         Linked(up.cs, up.chan, st, sid) /\ Numbers(up.chan, st, sid, toSrv, bt, fromSrv, bf, srv.ch)
  BY <1>1 DEF GoodChan, Channels
<1>3. PICK bt \in Int, bf \in Int :
         Linked(up.cs, up.chan, st, sid) /\ Numbers(up.chan, st, sid, toSrv, bt, fromSrv, bf, srv.ch)
  BY <1>2
<1>4. \A b, M : Wire(toSrv, b, M) = {} /\ Wire(fromSrv, b, M) = {}
  BY DEF Wire
<1>5. \A u \in UpIds : st[u] # "UNACKNOWLEDGED" /\ st[u] # "SENT_CLOSE"
  BY <1>3, <1>4 DEF Numbers, UInv, AwaitU, SentU
<1>6. up.cs[d].chans = {}
  <2>1. \A c \in up.cs[d].chans : c.us \in UpIds /\ c = Rec(st, sid, c.us) /\ c.st \in {"UNACKNOWLEDGED", "SENT_CLOSE"}
    BY <1>1, <1>3 DEF Linked, CleanDown
  <2>2. \A c \in up.cs[d].chans : c.st = st[c.us]
    BY <2>1 DEF Rec
  <2> QED BY <1>5, <2>1, <2>2
<1>7. PICK bg \in Int, ct \in Int, cf \in Int :
         PInv(up.cs, up.rpf, Wire(up.globreq, bg, Downs), Wire(toSrv, ct, ToPorts),
              Wire(fromSrv, cf, FromPorts), srv.fwd)
  BY <1>1 DEF GoodPort, Forwardings
<1>8. FwdP(up.cs, up.rpf) /\ WaitP(up.cs, {}, {})
  BY <1>4, <1>7 DEF PInv
<1>9. up.cs[d].globreq_head = None
  BY <1>8 DEF WaitP
<1>10. up.cs[d].half = {} /\ \A p \in Ports : up.cs[d].fwds[p].st = "none"
  BY <1>1, <1>8, <1>9 DEF CleanDown, FwdP, FwdPq, Waits
<1> QED BY <1>6, <1>10 DEF Idle

\* The invariant gives NeverMisrouted: the number of a channel in a message
\* from the server is that of a record of the downstream it is for.
LEMMA InvMisrouted ==
  ASSUME IInv PROVE NeverMisrouted
  BY FindsRecord DEF IInv, NeverMisrouted

\* The invariant gives TypeOK.
LEMMA InvTypeOK ==
  ASSUME IInv PROVE TypeOK
<1>1. up \in Upstream /\ up.out = << >>
  BY DEF IInv, Typed
<1>2. ASSUME NEW d \in Downs
      PROVE  LET c == up.cs[d] IN
             /\ c.st \in {"none", "live", "dead", "freed"}
             /\ c.half \subseteq SrvIds
             /\ \A h \in c.chans : /\ h.us \in UpIds /\ h.st \in ChanStates
                                   /\ h.sid \in SrvIds <=> h.st # "UNACKNOWLEDGED"
             /\ \A p \in Ports : c.fwds[p].st \in {"none", "waiting", "active"}
  BY <1>1 DEF Upstream, ConnState, ShareChannel, ShareForwarding, ChanStates, Numbered
<1>3. up.chan \in [UpIds -> Downs \cup {None}] /\ up.rpf \in [Ports -> Downs \cup {None}]
  BY <1>1 DEF Upstream, Opt
<1> QED BY <1>1, <1>2, <1>3 DEF TypeOK

---------------------------------------------------------------------------
(* The theorems.                                                           *)

\* At the start nothing is under way.
LEMMA NothingUnderWay ==
  ASSUME NEW b \in Int, NEW M
  PROVE  Wire(<< >>, b, M) = {}
  BY DEF Wire

\* A channel number nobody has.
LEMMA Unused ==
  ASSUME NEW u, NEW o, NEW i, NEW sc, \A h \in SrvIds : sc[h].st = "free"
  PROVE  UInv(u, o, "FREE", i, {}, {}, sc)
<1>1. \A h \in SrvIds : ~Held(sc[h], u) /\ ~Live(sc[h], u)
  BY DEF Held, Live
<1>2. /\ BirthU(u, o, "FREE", i, {}, {}, sc) /\ FinalU(o, "FREE", {}) /\ ConfU(u, o, "FREE", {}, {}, sc)
      /\ AwaitU("FREE", {}, {}) /\ OpenU(u, o, "FREE", i, {}, {}, sc) /\ SentU(u, o, "FREE", i, {}, {}, sc)
      /\ RcvdU(u, o, "FREE", i, {}, sc) /\ CloseU(u, {}, sc) /\ NumberU("FREE", i)
  BY DEF BirthU, FinalU, ConfU, AwaitU, OpenU, SentU, RcvdU, CloseU, NumberU
<1>3. LiveU(u, o, "FREE", i, {}, sc) /\ HeldU(u, o, "FREE", i, {}, {}, sc)
  BY <1>1 DEF LiveU, HeldU
<1> QED BY <1>2, <1>3 DEF UInv

\* Structs and ports nobody has.
LEMMA NoPort ==
  ASSUME NEW cs, NEW rpf, NEW sf,
         \A d \in Downs : /\ cs[d].globreq_head = None /\ cs[d].st = "none"
                          /\ \A p \in Ports : cs[d].fwds[p].st = "none" /\ ~cs[d].fwds[p].rpf,
         \A p \in Ports : rpf[p] = None /\ sf[p] = None
  PROVE  PInv(cs, rpf, {}, {}, {}, sf)
<1>1. None \notin Downs
  BY ConstAssumption
<1>2. \A d \in Downs : \A p \in Ports : ~Waits(cs[d], "forward", p) /\ ~Waits(cs[d], "cancel", p) /\ ~Listens(cs[d], p)
  BY DEF Waits, Listens
<1>3. FwdP(cs, rpf)
  <2> SUFFICES ASSUME NEW d \in Downs, NEW p \in Ports PROVE FwdPq(cs, rpf, d, p)
    BY DEF FwdP
  <2> QED BY <1>2 DEF FwdPq
<1>4. StateP(cs)
  BY <1>2 DEF StateP
<1>5. ListP(cs, {}) /\ OrderP({}, {}, {}) /\ WaitP(cs, {}, {})
  BY DEF ListP, OrderP, WaitP
<1>6. AskP(cs, {}, {}) /\ AnswerP(cs, {}, {}, sf) /\ MsgsP({}, sf)
  BY DEF AskP, AnswerP, MsgsP
<1>7. ActiveP(cs, {}, sf) /\ ListenP(cs, {}, {}, sf)
  BY <1>2 DEF ActiveP, ListenP
<1>8. StaleP(cs, rpf, {}, {}, sf)
  BY <1>1 DEF StaleP
<1> QED BY <1>3, <1>4, <1>5, <1>6, <1>7, <1>8 DEF PInv

\* The invariant holds at the start.
LEMMA InitInv ==
  ASSUME Init
  PROVE  IInv
<1>1. /\ up.cs = [d \in Downs |-> [st |-> "none", half |-> {}, chans |-> {},
                        fwds |-> [p \in Ports |-> Fwd0], globreq_head |-> None]]
      /\ up.chan = [i \in UpIds |-> None] /\ up.rpf = [p \in Ports |-> None]
      /\ up.globreq = << >> /\ up.drained = FALSE /\ up.out = << >> /\ up.fault = "none"
      /\ toSrv = << >> /\ fromSrv = << >> /\ ops = 0 /\ gentle = TRUE
      /\ srv.ch = [i \in SrvIds |-> Free0] /\ srv.fwd = [p \in Ports |-> None] /\ srv.content = TRUE
  BY DEF Init
<1>2. up \in Upstream
  <2> DEFINE c == [st |-> "none", half |-> {}, chans |-> {}, fwds |-> [p \in Ports |-> Fwd0], globreq_head |-> None]
  <2>1. c \in ConnState
    <3>1. [p \in Ports |-> Fwd0] \in [Ports -> ShareForwarding]
      BY Forwardings0
    <3> QED BY <3>1 DEF ConnState, Opt
  <2>2. up = [cs |-> [d \in Downs |-> c], chan |-> [i \in UpIds |-> None], rpf |-> [p \in Ports |-> None],
              globreq |-> << >>, drained |-> FALSE, out |-> << >>, fault |-> "none"]
    BY DEF Init
  <2> HIDE DEF c
  <2>3. [d \in Downs |-> c] \in [Downs -> ConnState]
    BY <2>1
  <2>4. [i \in UpIds |-> None] \in [UpIds -> Opt(Downs)] /\ [p \in Ports |-> None] \in [Ports -> Opt(Downs)]
    BY DEF Opt
  <2>5. << >> \in Seq(Downs) /\ << >> \in Seq(ToMsg) /\ FALSE \in BOOLEAN /\ "none" \in Faults
    BY DEF Faults
  <2> QED BY <2>2, <2>3, <2>4, <2>5 DEF Upstream
<1>3. srv \in Server
  <2>1. [i \in SrvIds |-> Free0] \in [SrvIds -> SrvChannel]
    BY FreeChannel
  <2>2. [p \in Ports |-> None] \in [Ports -> Opt(Downs)]
    BY DEF Opt
  <2>3. srv = [ch |-> [i \in SrvIds |-> Free0], fwd |-> [p \in Ports |-> None], content |-> TRUE]
    BY DEF Init
  <2> QED BY <2>1, <2>2, <2>3 DEF Server
<1>4. Typed
  BY <1>1, <1>2, <1>3 DEF Typed
<1>5. /\ \A d \in Downs : /\ up.cs[d].st = "none" /\ up.cs[d].half = {} /\ up.cs[d].chans = {}
                          /\ up.cs[d].globreq_head = None
                          /\ \A p \in Ports : up.cs[d].fwds[p].st = "none" /\ ~up.cs[d].fwds[p].rpf
      /\ \A i \in UpIds : up.chan[i] = None
      /\ \A p \in Ports : up.rpf[p] = None /\ srv.fwd[p] = None
      /\ \A h \in SrvIds : srv.ch[h].st = "free"
  BY <1>1, Forwardings0, FreeChannel
<1>6. Channels(up.cs, up.chan, toSrv, fromSrv, srv.ch)
  <2> DEFINE st == [i \in UpIds |-> "FREE"]
             sid == [i \in UpIds |-> None]
             sc == srv.ch
  <2>1. None \notin SrvIds
    BY ConstAssumption DEF SrvIds
  <2>2. /\ \A i \in UpIds : st[i] = "FREE" /\ sid[i] = None
        /\ st \in [UpIds -> ChanStates \cup {"FREE"}] /\ sid \in [UpIds -> Opt(SrvIds)]
    BY DEF Opt
  <2>3. up.chan \in [UpIds -> Opt(Downs)]
    BY <1>2, UpParts
  <2> HIDE DEF st, sid, sc
  <2>4. Linked(up.cs, up.chan, st, sid)
    BY <1>5, <2>1, <2>2, <2>3 DEF Linked, Numbered
  <2>5. Numbers(up.chan, st, sid, << >>, 0, << >>, 0, sc)
    <3> SUFFICES ASSUME NEW u \in UpIds
                 PROVE  UInv(u, up.chan[u], st[u], sid[u], Wire(<< >>, 0, ToOf(u)), Wire(<< >>, 0, FromOf(u)), sc)
      BY DEF Numbers
    <3>1. Wire(<< >>, 0, ToOf(u)) = {} /\ Wire(<< >>, 0, FromOf(u)) = {}
      BY NothingUnderWay
    <3>2. UInv(u, up.chan[u], "FREE", sid[u], {}, {}, sc)
      BY <1>5, Unused DEF sc
    <3> QED BY <2>2, <3>1, <3>2
  <2>6. 0 \in Int
    OBVIOUS
  <2>7. Channels(up.cs, up.chan, << >>, << >>, sc)
    BY <2>4, <2>5, <2>6 DEF Channels
  <2> QED BY <1>1, <2>7 DEF sc
<1>7. Structs(up.cs, up.rpf)
  BY <1>5, ConstAssumption DEF Structs
<1>8. Announced(up.cs, toSrv, fromSrv, srv.ch)
  BY <1>5 DEF Announced
<1>9. Forwardings(up.cs, up.rpf, up.globreq, toSrv, fromSrv, srv.fwd)
  <2>1. PInv(up.cs, up.rpf, {}, {}, {}, srv.fwd)
    BY <1>5, NoPort
  <2>2. Wire(<< >>, 0, Downs) = {} /\ Wire(<< >>, 0, ToPorts) = {} /\ Wire(<< >>, 0, FromPorts) = {}
    BY NothingUnderWay
  <2>3. PInv(up.cs, up.rpf, Wire(<< >>, 0, Downs), Wire(<< >>, 0, ToPorts), Wire(<< >>, 0, FromPorts), srv.fwd)
    BY <2>1, <2>2
  <2>4. 0 \in Int
    OBVIOUS
  <2>5. Forwardings(up.cs, up.rpf, << >>, << >>, << >>, srv.fwd)
    BY <2>3, <2>4 DEF Forwardings
  <2> QED BY <1>1, <2>5
<1>10. Cleaned(up.cs)
  BY <1>5 DEF Cleaned
<1>11. up.fault \in {"none", "list"}
  BY <1>1
<1> QED BY <1>4, <1>6, <1>7, <1>8, <1>9, <1>10, <1>11 DEF IInv, GoodChan, GoodPort

\* Every step preserves it.
LEMMA NextInv ==
  ASSUME IInv, [Next]_vars
  PROVE  IInv' /\ FreesStep
<1>0. up' = up => FreesStep
  BY DEF FreesStep, Leftover
<1>1. CASE UpRecv
  <2>1. Running /\ fromSrv # << >> /\ fromSrv' = Tail(fromSrv) /\ srv' = srv /\ ops' = ops /\ gentle' = gentle
    BY <1>1 DEF UpRecv
  <2> DEFINE m == Head(fromSrv)
  <2>2. \/ m.t = "open" /\ Apply(RecvOpen(up, m))
        \/ m.t \in {"success", "failure"} /\ up.globreq # << >> /\ Apply(RecvReply(up, m))
        \/ /\ m.t \in {"conf", "fail", "close"}
           /\ Apply(ToDownstream(up, up.chan[m.us], ChannelMsg(up, up.chan[m.us], m)))
    BY <1>1 DEF UpRecv
  <2>3. CASE m.t = "open" /\ Apply(RecvOpen(up, m))
    BY <2>1, <2>3, RecvOpenInv
  <2>4. CASE m.t \in {"success", "failure"} /\ up.globreq # << >> /\ Apply(RecvReply(up, m))
    BY <2>1, <2>4, RecvReplyInv
  <2>5. CASE /\ m.t \in {"conf", "fail", "close"}
             /\ Apply(ToDownstream(up, up.chan[m.us], ChannelMsg(up, up.chan[m.us], m)))
    BY <2>1, <2>5, RecvChanInv
  <2> QED BY <2>2, <2>3, <2>4, <2>5
<1>2. CASE SrvRecv
  BY <1>0, <1>2, SrvRecvInv DEF SrvRecv
<1>3. CASE SrvClose
  <2>1. Running
    BY <1>3 DEF SrvClose
  <2> QED BY <1>0, <1>3, <2>1, SrvCloseInv DEF SrvClose
<1>4. ASSUME NEW d \in Downs,
             \/ Connect(d) \/ Lost(d) \/ DownOpen(d) \/ DownConfirm(d) \/ DownRefuse(d) \/ DownClose(d)
             \/ \E p \in Ports : DownForward(d, p) \/ DownCancel(d, p)
      PROVE  IInv' /\ FreesStep
  <2>1. Running
    BY <1>4 DEF Connect, Lost, DownOpen, DownConfirm, DownRefuse, DownClose, DownForward, DownCancel
  <2>2. CASE Connect(d)
    BY <2>1, <2>2, ConnectInv
  <2>3. CASE Lost(d)
    BY <2>1, <2>3, LostInv
  <2>4. CASE DownOpen(d)
    BY <2>1, <2>4, DownOpenInv
  <2>5. CASE DownConfirm(d)
    BY <2>1, <2>5, DownConfirmInv
  <2>6. CASE DownRefuse(d)
    BY <2>1, <2>6, DownRefuseInv
  <2>7. CASE DownClose(d)
    BY <2>1, <2>7, DownCloseInv
  <2>8. CASE \E p \in Ports : DownForward(d, p) \/ DownCancel(d, p)
    BY <2>1, <2>8, DownForwardInv, DownCancelInv
  <2> QED BY <1>4, <2>2, <2>3, <2>4, <2>5, <2>6, <2>7, <2>8
<1>5. ASSUME NEW p \in Ports, SrvOpen(p)
      PROVE  IInv' /\ FreesStep
  <2>1. Running
    BY <1>5 DEF SrvOpen
  <2> QED BY <1>0, <1>5, <2>1, SrvOpenInv DEF SrvOpen
<1>6. CASE UNCHANGED vars
  <2>1. up' = up /\ toSrv' = toSrv /\ fromSrv' = fromSrv /\ srv' = srv /\ ops' = ops /\ gentle' = gentle
    BY <1>6 DEF vars
  <2>2. Typed' = Typed
    BY <2>1 DEF Typed
  <2>3. Running' = Running
    BY <2>1 DEF Running
  <2> QED BY <1>0, <2>1, <2>2, <2>3 DEF IInv
<1> QED BY <1>1, <1>2, <1>3, <1>4, <1>5, <1>6 DEF Next

\* The invariant of connection sharing.
THEOREM Invariance == Spec => []IInv
  BY InitInv, NextInv, PTL DEF Spec

\* The upstream's record keeps its types, and every packet made in a step is on
\* the wire when the step ends.
THEOREM TypeCorrect == Spec => []TypeOK
  BY Invariance, InvTypeOK, PTL

\* Every message the server sends about a channel finds the record of the
\* downstream it is meant for: share_find_channel_by_upstream never fails, and
\* never finds another's.
THEOREM Routed == Spec => []NeverMisrouted
  BY Invariance, InvMisrouted, PTL

\* When share_try_cleanup() frees a struct the server keeps nothing on that
\* downstream's behalf that it has not been told to give up.
THEOREM CleanedUp == Spec => []NothingLeftBehind
  BY Invariance, InvLeftBehind, PTL

\* Downstreams that make one global request at a time never bring sharing into
\* an undefined state, and the upstream's list of outstanding requests names
\* them in the order of the answers.
THEOREM SafeWhenGentle == Spec => []GentleIsSafe
  BY Invariance, InvSafe, PTL

\* Cleaning up does not get stuck: with nothing under way a downstream that has
\* gone holds nothing.  This is for downstreams that make one global request at a
\* time and are not lost with a cancellation unanswered.
THEOREM CleansUp == Spec => [](gentle => Emptied)
  BY Invariance, InvFinishes, PTL

\* The step that takes the last of what a downstream that has gone still holds
\* frees its struct, unless it is the OPEN_FAILURE after which the code does not
\* try again.
THEOREM FreesStruct == Spec => [][FreesStep]_vars
<1>1. IInv /\ [Next]_vars => [FreesStep]_vars
  BY NextInv
<1> QED BY <1>1, Invariance, PTL DEF Spec

=============================================================================
