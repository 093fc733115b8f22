------------------------ MODULE RemoteForwardProofs ------------------------
(***************************************************************************)
(* Proofs about RemoteForward, for every number of rules, ports and        *)
(* changes of the configuration.  The invariant relates the three tables   *)
(* with each other, with the list as it lies in memory, and with what is   *)
(* on its way in the two directions.  It is stated of a record and a       *)
(* sequence of requests, since it holds after every turn of the two loops  *)
(* of portfwdmgr_config as well.                                           *)
(***************************************************************************)
EXTENDS RemoteForward, SequenceTheorems, WellFoundedInduction, TLAPS

---------------------------------------------------------------------------
(* Induction up to a bound, in a form the provers can use: over a set of   *)
(* numbers instead of a predicate.                                         *)

\* Every nonempty set of naturals has a least element.
LEMMA LeastNatural ==
  ASSUME NEW T \in SUBSET Nat, T # {}
  PROVE  \E low \in T : \A n \in T : low <= n
<1>1. PICK low \in T : \A n \in T : ~(<<n, low>> \in OpToRel(<, Nat))
  BY WFMin, NatLessThanWellFounded
<1>2. ASSUME NEW n \in T, n < low PROVE FALSE
  <2> DEFINE pair == <<n, low>>
  <2>1. pair \in Nat \X Nat /\ pair[1] < pair[2]
    BY <1>2
  <2>2. pair \in OpToRel(<, Nat)
    <3> HIDE DEF pair
    <3> QED
      BY <2>1 DEF OpToRel
  <2> QED
    BY <1>1, <2>2
<1>3. \A n \in T : low \in Nat /\ n \in Nat
  OBVIOUS
<1> QED
  BY <1>2, <1>3

\* A set that holds 0 and, with any number below n, the next one holds n.
LEMMA Reaches ==
  ASSUME NEW n \in Nat, NEW T, 0 \in T,
         \A i \in 0..n : i > 0 /\ i - 1 \in T => i \in T
  PROVE  \A i \in 0..n : i \in T
<1> DEFINE B == {i \in 0..n : i \notin T}
<1>1. SUFFICES ASSUME B # {} PROVE FALSE
  OBVIOUS
<1>2. B \in SUBSET Nat
  OBVIOUS
<1> HIDE DEF B
<1>3. PICK low \in B : \A i \in B : low <= i
  BY <1>1, <1>2, LeastNatural
<1>4. low \in 0..n /\ low \notin T
  BY DEF B
<1>5. low > 0
  BY <1>4
<1>6. low - 1 \in 0..n /\ ~(low <= low - 1)
  BY <1>4, <1>5
<1>7. low - 1 \in T
  BY <1>3, <1>6 DEF B
<1> QED
  BY <1>4, <1>5, <1>7

-----------------------------------------------------------------------------
(* The inductive invariant.                                                *)

Request == [type : {"forward", "cancel"}, port : Port, n : Nat]
Reply == [type : {"success", "failure"}, port : {NoPort}, n : Nat]
Opening == [type : {"open"}, port : Port, n : {0}]
Answer == Reply \cup Opening

Manager ==
  [conf : SUBSET Rule, confs : Nat, forwardings : SUBSET Rule,
   dangling : SUBSET Rule, remote : [Rule -> Nat], rportfwds : [Port -> Nat],
   rule : Seq(Rule), rpfs : SUBSET Nat, head : Int, tail : Nat,
   next : Seq(Int), ogrs : SUBSET Nat, answers : Nat, accepted : Nat,
   gentle : BOOLEAN, out : Seq(Request),
   fault : {"none", "assert_realpf", "stale_rpf", "stale_pfr", "proto_error",
            "wild_pointer"}]

\* Every number stands for a request that has been made.
Shape(r) ==
  /\ r.forwardings \subseteq r.conf /\ r.dangling \subseteq r.forwardings
  /\ Len(r.next) = Len(r.rule) /\ r.answers <= Len(r.rule)
  /\ r.rpfs \subseteq 1..Len(r.rule) /\ r.ogrs \subseteq 1..Len(r.rule)
  /\ r.tail <= Len(r.rule) /\ \A i \in Rule : r.remote[i] <= Len(r.rule)
  /\ r.accepted \in {0} \cup Rule

\* The rules of S and the rpfs belong to each other, one to one.
Linked(r, S) ==
  /\ \A i \in S : /\ r.remote[i] \in r.rpfs
                  /\ r.rule[r.remote[i]] = i
                  /\ r.rportfwds[Source[i]] = r.remote[i]
  /\ \A n \in r.rpfs : r.rule[n] \in S /\ r.remote[r.rule[n]] = n
  /\ \A port \in Port : r.rportfwds[port] # 0 =>
        /\ r.rportfwds[port] \in r.rpfs
        /\ Source[r.rule[r.rportfwds[port]]] = port

\* The list holds the unanswered requests in order.
Intact(r) ==
  /\ r.head = r.answers + 1 /\ r.head <= Len(r.rule) /\ r.tail = Len(r.rule)
  /\ \A i \in r.head..Len(r.rule) : i \in r.ogrs
  /\ \A i \in r.head..Len(r.rule) - 1 : r.next[i] = i + 1
  /\ r.next[Len(r.rule)] = -1

\* It does, or it has never been used, or it is empty for good: the tail is
\* left over.
List(r) ==
  \/ Intact(r)
  \/ r.rule = <<>> /\ r.head = 0 /\ r.tail = 0
  \/ r.head \in {0, -1} /\ r.tail # 0

IsReply(x) == x.type \in {"success", "failure"}

\* What is asked in q or answered in s are the requests after the last one
\* answered, in order and each of them once.
Numbered(r, q, s) ==
  /\ \A i \in DOMAIN q :
        /\ q[i].type = "cancel" => q[i].n = 0
        /\ q[i].type = "forward" => /\ q[i].n \in r.answers + 1..Len(r.rule)
                                    /\ q[i].port = Source[r.rule[q[i].n]]
  /\ \A i \in DOMAIN s : IsReply(s[i]) => s[i].n \in r.answers + 1..Len(r.rule)
  /\ \A i, j \in DOMAIN q :
        i < j /\ q[i].type = "forward" /\ q[j].type = "forward" => q[i].n < q[j].n
  /\ \A i, j \in DOMAIN s :
        i < j /\ IsReply(s[i]) /\ IsReply(s[j]) => s[i].n < s[j].n
  /\ \A i \in DOMAIN s, j \in DOMAIN q :
        IsReply(s[i]) /\ q[j].type = "forward" => s[i].n < q[j].n
  /\ \A n \in r.answers + 1..Len(r.rule) :
        \/ \E i \in DOMAIN q : q[i].type = "forward" /\ q[i].n = n
        \/ \E i \in DOMAIN s : IsReply(s[i]) /\ s[i].n = n

Silent(q, port) == \A i \in DOMAIN q : q[i].port # port

\* q[i] is the last word about its port.
LastWord(q, i) == \A j \in DOMAIN q : j > i => q[j].port # q[i].port

\* When q[j] reaches the server it does not listen on that port.
Fresh(q, j, listens) ==
  \/ \E i \in DOMAIN q : /\ i < j /\ q[i].port = q[j].port /\ q[i].type = "cancel"
                         /\ \A l \in DOMAIN q : i < l /\ l < j => q[l].port # q[j].port
  \/ /\ \A i \in DOMAIN q : i < j => q[i].port # q[j].port
     /\ q[j].port \notin listens

\* The server listens, or its answer says whether it does.
Accounted(r, s, port, listens) ==
  \/ r.rportfwds[port] <= r.answers /\ port \in listens
  \/ \E i \in DOMAIN s : /\ IsReply(s[i]) /\ s[i].n = r.rportfwds[port]
                         /\ s[i].type = "success" <=> port \in listens

\* What the server will be told last about a port is what the table says.
Balanced(r, q, s, listens) ==
  /\ \A i \in DOMAIN q : LastWord(q, i) => r.rportfwds[q[i].port] = q[i].n
  /\ \A j \in DOMAIN q : q[j].type = "forward" => Fresh(q, j, listens)
  /\ \A port \in Port : Silent(q, port) =>
        IF r.rportfwds[port] = 0 THEN port \notin listens
        ELSE Accounted(r, s, port, listens)

\* What a gentle user can rely on.
Smooth(r) ==
  /\ r.dangling = {}
  /\ r.answers + 1..Len(r.rule) \subseteq r.rpfs
  /\ r.answers < Len(r.rule) => Intact(r)

Sound(r) == r.forwardings \ r.dangling

IndInv ==
  /\ m \in Manager /\ c2s \in Seq(Request) /\ s2c \in Seq(Answer)
  /\ srv \in [listens : SUBSET Port, opens : Nat]
  /\ m.out = <<>> /\ Shape(m) /\ Linked(m, Sound(m))
  /\ Running => /\ List(m) /\ Numbered(m, c2s, s2c)
                /\ Balanced(m, c2s, s2c, srv.listens)
                /\ m.gentle => Smooth(m)
  /\ m.gentle => Running

-----------------------------------------------------------------------------
(* Sequences.                                                              *)

\* NRules counts the rules, and each has its port.
LEMMA Rules ==
  NRules \in Nat /\ \A i \in Rule : i \in 1..NRules /\ i \in Nat /\ Source[i] \in Port
BY ForwardAssumption DEF Rule, Port

\* p is q with x at its end.
Extends(p, q, x) ==
  /\ Len(p) = Len(q) + 1 /\ DOMAIN p = 1..Len(q) + 1 /\ DOMAIN q = 1..Len(q)
  /\ Len(q) \in Nat /\ p[Len(q) + 1] = x
  /\ \A i \in 1..Len(q) : p[i] = q[i]

\* Append does this.
LEMMA Appended ==
  ASSUME NEW T, NEW q \in Seq(T), NEW x \in T
  PROVE  Append(q, x) \in Seq(T) /\ Extends(Append(q, x), q, x)
BY AppendProperties DEF Extends

\* p is q without its first element.
Shortens(p, q) ==
  /\ Len(p) = Len(q) - 1 /\ Len(q) >= 1 /\ Len(q) \in Nat
  /\ DOMAIN p = 1..Len(q) - 1 /\ DOMAIN q = 1..Len(q)
  /\ Head(q) = q[1] /\ \A i \in 1..Len(q) - 1 : p[i] = q[i + 1]

\* Tail does this.
LEMMA Taken ==
  ASSUME NEW T, NEW q \in Seq(T), q # <<>>
  PROVE  Tail(q) \in Seq(T) /\ Shortens(Tail(q), q) /\ Head(q) \in T
BY DEF Shortens

\* What is sent last comes last.
LEMMA SentLast ==
  ASSUME NEW T, NEW q \in Seq(T), NEW w \in Seq(T), NEW x \in T
  PROVE  q \o Append(w, x) = Append(q \o w, x)
<1>1. q \o (w \o <<x>>) = (q \o w) \o <<x>>
  BY ConcatAssociative
<1>2. Append(w, x) = w \o <<x>> /\ Append(q \o w, x) = (q \o w) \o <<x>>
  BY AppendIsConcat
<1> QED
  BY <1>1, <1>2

\* A set of numbers up to n has a greatest one.
LEMMA Greatest ==
  ASSUME NEW n \in Nat, NEW T \in SUBSET (1..n), T # {}
  PROVE  \E i \in T : \A j \in T : j <= i
<1> DEFINE D == {n - i : i \in T}
<1>0. \A i \in T : n - i \in Nat
  OBVIOUS
<1>1. D \in SUBSET Nat /\ D # {}
  <2>1. D # {}
    OBVIOUS
  <2> QED
    BY <1>0, <2>1
<1>2. PICK d \in D : \A e \in D : d <= e
  <2> HIDE DEF D
  <2> QED
    BY <1>1, LeastNatural
<1>3. PICK i \in T : d = n - i
  OBVIOUS
<1>4. ASSUME NEW j \in T PROVE j <= i
  <2>1. n - i <= n - j
    BY <1>2, <1>3
  <2> QED
    BY <2>1
<1> QED
  BY <1>4

\* Somebody has the last word about a port that is mentioned.
LEMMA SomeLastWord ==
  ASSUME NEW q \in Seq(Request), NEW port, ~Silent(q, port)
  PROVE  \E i \in DOMAIN q : q[i].port = port /\ LastWord(q, i)
<1> DEFINE T == {i \in 1..Len(q) : q[i].port = port}
<1>1. Len(q) \in Nat /\ DOMAIN q = 1..Len(q)
  OBVIOUS
<1>2. T # {} /\ T \in SUBSET (1..Len(q))
  BY <1>1 DEF Silent
<1>3. PICK i \in T : \A j \in T : j <= i
  <2> HIDE DEF T
  <2> QED
    BY <1>1, <1>2, Greatest
<1>4. \A j \in DOMAIN q : j > i => q[j].port # q[i].port
  <2> SUFFICES ASSUME NEW j \in DOMAIN q, j > i, q[j].port = q[i].port PROVE FALSE
    OBVIOUS
  <2>1. j \in T /\ i \in 1..Len(q)
    BY <1>1
  <2>2. j <= i
    BY <1>3, <2>1
  <2> QED
    BY <2>1, <2>2, <1>1
<1> QED
  BY <1>1, <1>4 DEF LastWord

-----------------------------------------------------------------------------
(* What is on its way.                                                     *)

\* v numbers the requests as r does.
SameCount(r, v) == v.answers = r.answers /\ v.rule = r.rule

\* Messages have the types of their parts.
LEMMA Words ==
  /\ \A x \in Request : x.type \in {"forward", "cancel"} /\ x.port \in Port /\ x.n \in Nat
  /\ \A x \in Answer : /\ x.type \in {"success", "failure", "open"} /\ x.n \in Nat
                       /\ x.type = "open" => x.port \in Port
BY DEF Request, Answer, Reply, Opening

\* Of a longer sequence, what is said of the shorter one holds again.
LEMMA StillFresh ==
  ASSUME NEW p, NEW q, NEW x, Extends(p, q, x), NEW j \in 1..Len(q), NEW listens,
         Fresh(q, j, listens)
  PROVE  Fresh(p, j, listens)
<1> DEFINE n == Len(q)
<1>0. /\ n \in Nat /\ DOMAIN p = 1..n + 1 /\ DOMAIN q = 1..n
      /\ \A i \in 1..n : p[i] = q[i]
  BY DEF Extends
<1> HIDE DEF n
<1>j. j \in 1..n
  BY DEF n
<1>e. \A i \in 1..n + 1 : i < j => i \in 1..n
  BY <1>0, <1>j
<1>1. CASE \E i \in DOMAIN q : /\ i < j /\ q[i].port = q[j].port /\ q[i].type = "cancel"
                             /\ \A l \in DOMAIN q : i < l /\ l < j => q[l].port # q[j].port
  <2>1. PICK i \in DOMAIN q : /\ i < j /\ q[i].port = q[j].port /\ q[i].type = "cancel"
                             /\ \A l \in DOMAIN q : i < l /\ l < j => q[l].port # q[j].port
    BY <1>1
  <2>2. \A l \in DOMAIN p : i < l /\ l < j => p[l].port # p[j].port
    BY <2>1, <1>0, <1>j, <1>e
  <2>3. i \in DOMAIN p /\ p[i] = q[i] /\ p[j] = q[j]
    BY <1>0, <1>j
  <2> QED
    BY <2>1, <2>2, <2>3 DEF Fresh
<1>2. CASE (\A i \in DOMAIN q : i < j => q[i].port # q[j].port) /\ q[j].port \notin listens
  <2>1. \A i \in DOMAIN p : i < j => p[i].port # p[j].port
    BY <1>2, <1>0, <1>j, <1>e
  <2> QED
    BY <2>1, <1>2, <1>0, <1>j DEF Fresh
<1> QED
  BY <1>1, <1>2 DEF Fresh

\* Who has the last word in the longer one had it in the shorter one.
LEMMA StillLast ==
  ASSUME NEW p, NEW q, NEW x, Extends(p, q, x), NEW i \in 1..Len(q), LastWord(p, i)
  PROVE  LastWord(q, i) /\ x.port # q[i].port
<1> DEFINE n == Len(q)
<1>0. /\ n \in Nat /\ DOMAIN p = 1..n + 1 /\ DOMAIN q = 1..n /\ p[n + 1] = x
      /\ \A j \in 1..n : p[j] = q[j] /\ j \in 1..n + 1
  BY DEF Extends
<1>1. i \in 1..n /\ n + 1 \in 1..n + 1 /\ n + 1 > i
  BY <1>0
<1> HIDE DEF n
<1>2. \A j \in 1..n + 1 : j > i => p[j].port # p[i].port
  BY <1>0 DEF LastWord
<1>3. \A j \in DOMAIN q : j > i => q[j].port # q[i].port
  BY <1>0, <1>1, <1>2
<1> QED
  BY <1>0, <1>1, <1>2, <1>3 DEF LastWord

\* PuTTY cancels a forwarding: its word is the last one about the port.
LEMMA CancelWire ==
  ASSUME NEW r, NEW v, NEW q \in Seq(Request), NEW s, NEW listens,
         NEW port \in Port, NEW p,
         Extends(p, q, Msg("cancel", port, 0)), SameCount(r, v),
         r.rportfwds \in [Port -> Nat],
         v.rportfwds = [r.rportfwds EXCEPT ![port] = 0],
         Numbered(r, q, s), Balanced(r, q, s, listens)
  PROVE  Numbered(v, p, s) /\ Balanced(v, p, s, listens)
<1> DEFINE n == Len(q)
           x == Msg("cancel", port, 0)
<1>0. /\ n \in Nat /\ DOMAIN p = 1..n + 1 /\ DOMAIN q = 1..n
      /\ p[n + 1] = x /\ \A i \in 1..n : p[i] = q[i]
  BY DEF Extends
<1>x. x.type = "cancel" /\ x.port = port /\ x.n = 0
  BY DEF Msg
<1>q. \A i \in 1..n : q[i].port \in Port
  <2> SUFFICES ASSUME NEW i \in 1..n PROVE q[i] \in Request
    BY Words
  <2> QED
    BY <1>0
<1> HIDE DEF n, x
<1>d. \A i \in 1..n + 1 : i \in 1..n \/ i = n + 1
  BY <1>0
<1>1. Numbered(v, p, s)
  <2>0. /\ \A i \in DOMAIN p : p[i].type = "forward" => i \in DOMAIN q /\ p[i] = q[i]
        /\ \A i \in DOMAIN q : i \in DOMAIN p /\ p[i] = q[i]
    BY <1>0, <1>x, <1>d
  <2>1. \A i \in DOMAIN p : p[i].type = "cancel" => p[i].n = 0
    <3> SUFFICES ASSUME NEW i \in DOMAIN p, p[i].type = "cancel" PROVE p[i].n = 0
      OBVIOUS
    <3>1. CASE i = n + 1
      BY <3>1, <1>0, <1>x
    <3>2. CASE i \in 1..n
      BY <3>2, <1>0 DEF Numbered
    <3> QED
      BY <3>1, <3>2, <1>0, <1>d
  <2>2. \A i \in DOMAIN p : p[i].type = "forward" =>
            /\ p[i].n \in v.answers + 1..Len(v.rule)
            /\ p[i].port = Source[v.rule[p[i].n]]
    BY <2>0 DEF Numbered, SameCount
  <2>3. \A i, j \in DOMAIN p :
           i < j /\ p[i].type = "forward" /\ p[j].type = "forward" => p[i].n < p[j].n
    BY <2>0 DEF Numbered
  <2>4. \A i \in DOMAIN s, j \in DOMAIN p :
           IsReply(s[i]) /\ p[j].type = "forward" => s[i].n < p[j].n
    BY <2>0 DEF Numbered
  <2>5. \A u \in v.answers + 1..Len(v.rule) :
          \/ \E i \in DOMAIN p : p[i].type = "forward" /\ p[i].n = u
          \/ \E i \in DOMAIN s : IsReply(s[i]) /\ s[i].n = u
    <3> SUFFICES ASSUME NEW u \in v.answers + 1..Len(v.rule),
                        NEW i \in DOMAIN q, q[i].type = "forward", q[i].n = u
                 PROVE  \E j \in DOMAIN p : p[j].type = "forward" /\ p[j].n = u
      BY DEF Numbered, SameCount
    <3> QED
      BY <2>0
  <2> QED
    BY <2>1, <2>2, <2>3, <2>4, <2>5 DEF Numbered, SameCount
<1>2. ASSUME NEW i \in DOMAIN p, LastWord(p, i) PROVE v.rportfwds[p[i].port] = p[i].n
  <2>1. CASE i = n + 1
    BY <2>1, <1>0, <1>x
  <2>2. CASE i \in 1..n
    <3>1. q[i].port # port
      BY <1>2, <1>x, <2>2, StillLast DEF n, x
    <3>2. LastWord(q, i)
      BY <1>2, <2>2, StillLast DEF n, x
    <3>3. r.rportfwds[q[i].port] = q[i].n
      BY <1>0, <2>2, <3>2 DEF Balanced
    <3> QED
      BY <1>0, <1>q, <2>2, <3>1, <3>3
  <2> QED
    BY <1>0, <1>d, <2>1, <2>2
<1>3. ASSUME NEW j \in DOMAIN p, p[j].type = "forward" PROVE Fresh(p, j, listens)
  <2>1. j \in 1..n
    BY <1>0, <1>d, <1>3, <1>x
  <2>2. Fresh(q, j, listens)
    BY <1>0, <1>3, <2>1 DEF Balanced
  <2> QED
    BY <2>1, <2>2, StillFresh DEF n, x
<1>4. ASSUME NEW o \in Port, Silent(p, o)
      PROVE  IF v.rportfwds[o] = 0 THEN o \notin listens ELSE Accounted(v, s, o, listens)
  <2>1. o # port /\ Silent(q, o)
    BY <1>0, <1>4, <1>x DEF Silent
  <2>2. IF r.rportfwds[o] = 0 THEN o \notin listens ELSE Accounted(r, s, o, listens)
    BY <2>1 DEF Balanced
  <2>3. v.rportfwds[o] = r.rportfwds[o]
    BY <2>1
  <2> QED
    BY <2>2, <2>3 DEF Accounted, SameCount
<1> QED
  BY <1>1, <1>2, <1>3, <1>4 DEF Balanced

\* PuTTY asks for a forwarding, on a port that has none.
LEMMA ForwardWire ==
  ASSUME NEW r, NEW v, NEW q \in Seq(Request), NEW s \in Seq(Answer), NEW listens,
         NEW port \in Port, NEW p, NEW i0 \in Rule, Source[i0] = port,
         r.rule \in Seq(Rule), r.answers \in Nat, r.answers <= Len(r.rule),
         Extends(p, q, Msg("forward", port, Len(r.rule) + 1)),
         v.answers = r.answers, v.rule = Append(r.rule, i0),
         r.rportfwds \in [Port -> Nat], r.rportfwds[port] = 0,
         v.rportfwds = [r.rportfwds EXCEPT ![port] = Len(r.rule) + 1],
         Numbered(r, q, s), Balanced(r, q, s, listens)
  PROVE  Numbered(v, p, s) /\ Balanced(v, p, s, listens)
<1> DEFINE n == Len(q)
           k == Len(r.rule)
           x == Msg("forward", port, k + 1)
<1>0. /\ n \in Nat /\ DOMAIN p = 1..n + 1 /\ DOMAIN q = 1..n
      /\ p[n + 1] = x /\ \A i \in 1..n : p[i] = q[i]
  BY DEF Extends
<1>x. x.type = "forward" /\ x.port = port /\ x.n = k + 1
  BY DEF Msg
<1>q. \A i \in 1..n : q[i].port \in Port /\ q[i].type \in {"forward", "cancel"} /\ q[i].n \in Nat
  <2> SUFFICES ASSUME NEW i \in 1..n PROVE q[i] \in Request
    BY Words
  <2> QED
    BY <1>0
<1>k. /\ k \in Nat /\ Len(v.rule) = k + 1 /\ v.rule[k + 1] = i0
      /\ \A i \in 1..k : v.rule[i] = r.rule[i]
  OBVIOUS
<1>e. Extends(p, q, x)
  OBVIOUS
<1> HIDE DEF n, x, k
<1>d. \A i \in 1..n + 1 : i \in 1..n \/ i = n + 1
  BY <1>0
<1>1. Numbered(v, p, s)
  <2>1. ASSUME NEW i \in DOMAIN p
        PROVE  /\ p[i].type = "cancel" => p[i].n = 0
               /\ p[i].type = "forward" => /\ p[i].n \in v.answers + 1..Len(v.rule)
                                           /\ p[i].port = Source[v.rule[p[i].n]]
    <3>1. CASE i = n + 1
      BY <3>1, <1>0, <1>x, <1>k DEF k
    <3>2. CASE i \in 1..n
      <4>1. /\ q[i].type = "cancel" => q[i].n = 0
            /\ q[i].type = "forward" => /\ q[i].n \in r.answers + 1..k
                                        /\ q[i].port = Source[r.rule[q[i].n]]
        BY <1>0, <3>2 DEF Numbered, k
      <4> QED
        BY <3>2, <4>1, <1>0, <1>k, SMTT(30)
    <3> QED
      BY <3>1, <3>2, <1>0, <1>d
  <2>2. \A i \in DOMAIN s : IsReply(s[i]) => s[i].n \in v.answers + 1..Len(v.rule)
    BY <1>k DEF Numbered, k
  <2>3. ASSUME NEW i \in DOMAIN p, NEW j \in DOMAIN p, i < j,
               p[i].type = "forward", p[j].type = "forward"
        PROVE  p[i].n < p[j].n
    <3>0. i \in 1..n
      BY <1>0, <2>3
    <3>1. CASE j = n + 1
      <4>1. q[i].n \in r.answers + 1..k
        BY <1>0, <2>3, <3>0 DEF Numbered, k
      <4> QED
        BY <4>1, <3>1, <3>0, <1>0, <1>x, <1>k
    <3>2. CASE j \in 1..n
      BY <3>0, <3>2, <1>0, <2>3 DEF Numbered
    <3> QED
      BY <3>1, <3>2, <1>0, <1>d
  <2>4. \A i, j \in DOMAIN s :
          i < j /\ IsReply(s[i]) /\ IsReply(s[j]) => s[i].n < s[j].n
    BY DEF Numbered
  <2>5. ASSUME NEW i \in DOMAIN s, NEW j \in DOMAIN p, IsReply(s[i]), p[j].type = "forward"
        PROVE  s[i].n < p[j].n
    <3>1. CASE j = n + 1
      <4>1. s[i].n \in r.answers + 1..k
        BY <2>5 DEF Numbered, k
      <4> QED
        BY <4>1, <3>1, <1>0, <1>x, <1>k
    <3>2. CASE j \in 1..n
      BY <3>2, <1>0, <2>5 DEF Numbered
    <3> QED
      BY <3>1, <3>2, <1>0, <1>d
  <2>6. ASSUME NEW u \in v.answers + 1..Len(v.rule)
        PROVE  \/ \E i \in DOMAIN p : p[i].type = "forward" /\ p[i].n = u
               \/ \E i \in DOMAIN s : IsReply(s[i]) /\ s[i].n = u
    <3>1. CASE u = k + 1
      BY <3>1, <1>0, <1>x, SMTT(30)
    <3>2. CASE u # k + 1
      <4>1. u \in r.answers + 1..k
        BY <3>2, <1>k
      <4>2. \/ \E i \in DOMAIN q : q[i].type = "forward" /\ q[i].n = u
            \/ \E i \in DOMAIN s : IsReply(s[i]) /\ s[i].n = u
        BY <4>1 DEF Numbered, k
      <4> QED
        BY <4>2, <1>0
    <3> QED
      BY <3>1, <3>2
  <2> QED
    BY <2>1, <2>2, <2>3, <2>4, <2>5, <2>6 DEF Numbered
<1>2. ASSUME NEW i \in DOMAIN p, LastWord(p, i) PROVE v.rportfwds[p[i].port] = p[i].n
  <2>1. CASE i = n + 1
    BY <2>1, <1>0, <1>x DEF k
  <2>2. CASE i \in 1..n
    <3>1. q[i].port # port
      BY <1>2, <1>x, <1>e, <2>2, StillLast DEF n
    <3>2. LastWord(q, i)
      BY <1>2, <1>e, <2>2, StillLast DEF n
    <3>3. r.rportfwds[q[i].port] = q[i].n
      BY <1>0, <2>2, <3>2 DEF Balanced
    <3> QED
      BY <1>0, <1>q, <2>2, <3>1, <3>3
  <2> QED
    BY <1>0, <1>d, <2>1, <2>2
<1>3. ASSUME NEW j \in DOMAIN p, p[j].type = "forward" PROVE Fresh(p, j, listens)
  <2>1. CASE j \in 1..n
    <3>1. Fresh(q, j, listens)
      BY <1>0, <1>3, <2>1 DEF Balanced
    <3> QED
      BY <2>1, <3>1, <1>e, StillFresh DEF n
  <2>2. CASE j = n + 1 /\ Silent(q, port)
    <3>1. port \notin listens
      BY <2>2 DEF Balanced
    <3>2. \A i \in DOMAIN p : i < j => p[i].port # port
      BY <2>2, <1>0 DEF Silent
    <3> QED
      BY <3>1, <3>2, <2>2, <1>0, <1>x DEF Fresh
  <2>3. CASE j = n + 1 /\ ~Silent(q, port)
    <3>1. PICK i \in DOMAIN q : q[i].port = port /\ LastWord(q, i)
      BY <2>3, SomeLastWord
    <3>2. q[i].n = 0
      BY <3>1 DEF Balanced
    <3>3. q[i].type = "cancel"
      <4>1. q[i].type # "forward"
        BY <3>2, <3>1 DEF Numbered
      <4> QED
        BY <4>1, <1>q, <1>0
    <3>4. \A l \in DOMAIN p : i < l /\ l < j => p[l].port # port
      BY <3>1, <2>3, <1>0 DEF LastWord
    <3>5. i \in DOMAIN p /\ i < j /\ p[i] = q[i]
      BY <2>3, <1>0
    <3> QED
      BY <3>1, <3>3, <3>4, <3>5, <2>3, <1>0, <1>x DEF Fresh
  <2> QED
    BY <2>1, <2>2, <2>3, <1>0, <1>d
<1>4. ASSUME NEW o \in Port, Silent(p, o)
      PROVE  IF v.rportfwds[o] = 0 THEN o \notin listens ELSE Accounted(v, s, o, listens)
  <2>1. o # port /\ Silent(q, o)
    BY <1>0, <1>4, <1>x DEF Silent
  <2>2. IF r.rportfwds[o] = 0 THEN o \notin listens ELSE Accounted(r, s, o, listens)
    BY <2>1 DEF Balanced
  <2>3. v.rportfwds[o] = r.rportfwds[o]
    BY <2>1
  <2> QED
    BY <2>2, <2>3 DEF Accounted
<1> QED
  BY <1>1, <1>2, <1>3, <1>4 DEF Balanced

\* Without the first word, the others come as before.
LEMMA FreshAfter ==
  ASSUME NEW p, NEW q, Shortens(p, q), NEW j \in DOMAIN p, NEW old, NEW new,
         Fresh(q, j + 1, old),
         q[1].type # "cancel" => q[1].port # q[j + 1].port,
         \A port : port # q[1].port => (port \in new <=> port \in old),
         q[1].type = "cancel" => q[1].port \notin new
  PROVE  Fresh(p, j, new)
<1> DEFINE n == Len(q)
           port == q[j + 1].port
<1>0. /\ n \in Nat /\ n >= 1 /\ DOMAIN p = 1..n - 1 /\ DOMAIN q = 1..n
      /\ \A i \in 1..n - 1 : p[i] = q[i + 1] /\ i + 1 \in 1..n
      /\ \A i \in 1..n : i = 1 \/ (i - 1 \in 1..n - 1 /\ q[i] = p[i - 1])
  BY DEF Shortens
<1> HIDE DEF n
<1>j. j \in 1..n - 1 /\ p[j].port = port
  BY <1>0
<1>1. CASE \E i \in DOMAIN q : /\ i < j + 1 /\ q[i].port = port /\ q[i].type = "cancel"
                             /\ \A l \in DOMAIN q : i < l /\ l < j + 1 => q[l].port # port
  <2>1. PICK i \in DOMAIN q : /\ i < j + 1 /\ q[i].port = port /\ q[i].type = "cancel"
                             /\ \A l \in DOMAIN q : i < l /\ l < j + 1 => q[l].port # port
    BY <1>1
  <2> HIDE DEF port
  <2>2. CASE i = 1
    <3>1. port \notin new
      BY <2>1, <2>2
    <3>2. ASSUME NEW l \in DOMAIN p, l < j PROVE p[l].port # port
      <4>1. l + 1 \in 1..n /\ 1 < l + 1 /\ l + 1 < j + 1 /\ p[l] = q[l + 1]
        BY <1>0, <1>j, <3>2
      <4> QED
        BY <4>1, <2>1, <2>2, <1>0
    <3> QED
      BY <3>1, <3>2, <1>j DEF Fresh
  <2>3. CASE i # 1
    <3>1. i - 1 \in DOMAIN p /\ i - 1 < j /\ p[i - 1] = q[i]
      BY <2>1, <2>3, <1>0, <1>j
    <3>2. ASSUME NEW l \in DOMAIN p, i - 1 < l, l < j PROVE p[l].port # port
      <4>1. l + 1 \in 1..n /\ i < l + 1 /\ l + 1 < j + 1 /\ p[l] = q[l + 1]
        BY <1>0, <1>j, <3>2
      <4> QED
        BY <4>1, <2>1, <1>0
    <3> QED
      BY <3>1, <3>2, <2>1, <1>j DEF Fresh
  <2> QED
    BY <2>2, <2>3
<1>2. CASE (\A i \in DOMAIN q : i < j + 1 => q[i].port # port) /\ port \notin old
  <2> HIDE DEF port
  <2>0. 1 \in DOMAIN q /\ 1 < j + 1
    BY <1>0, <1>j
  <2>1. q[1].port # port
    BY <1>2, <2>0
  <2>2. port \notin new
    BY <1>2, <2>1
  <2>3. ASSUME NEW l \in DOMAIN p, l < j PROVE p[l].port # port
    <3>1. l + 1 \in 1..n /\ l + 1 < j + 1 /\ p[l] = q[l + 1]
      BY <1>0, <1>j, <2>3
    <3> QED
      BY <3>1, <1>2, <1>0
  <2> QED
    BY <2>2, <2>3, <1>j DEF Fresh
<1> QED
  BY <1>1, <1>2 DEF Fresh

\* The last words of the rest were so before.
LEMMA LastBefore ==
  ASSUME NEW p, NEW q, Shortens(p, q), NEW i \in DOMAIN p, LastWord(p, i)
  PROVE  i + 1 \in DOMAIN q /\ LastWord(q, i + 1) /\ p[i] = q[i + 1]
<1> DEFINE n == Len(q)
<1>0. /\ n \in Nat /\ n >= 1 /\ DOMAIN p = 1..n - 1 /\ DOMAIN q = 1..n
      /\ \A j \in 1..n - 1 : p[j] = q[j + 1] /\ j + 1 \in 1..n
      /\ \A j \in 1..n : j = 1 \/ (j - 1 \in 1..n - 1 /\ q[j] = p[j - 1])
  BY DEF Shortens
<1> HIDE DEF n
<1>1. ASSUME NEW j \in DOMAIN q, j > i + 1 PROVE q[j].port # q[i + 1].port
  <2>1. j - 1 \in DOMAIN p /\ j - 1 > i /\ q[j] = p[j - 1]
    BY <1>0, <1>1
  <2> QED
    BY <2>1, <1>0 DEF LastWord
<1> QED
  BY <1>0, <1>1 DEF LastWord

\* A port that is only mentioned first has its last word there.
LEMMA FirstAndLast ==
  ASSUME NEW p, NEW q, Shortens(p, q), Silent(p, q[1].port)
  PROVE  1 \in DOMAIN q /\ LastWord(q, 1)
<1> DEFINE n == Len(q)
<1>0. /\ n \in Nat /\ n >= 1 /\ DOMAIN p = 1..n - 1 /\ DOMAIN q = 1..n
      /\ \A j \in 1..n : j = 1 \/ (j - 1 \in 1..n - 1 /\ q[j] = p[j - 1])
  BY DEF Shortens
<1> HIDE DEF n
<1>1. ASSUME NEW j \in DOMAIN q, j > 1 PROVE q[j].port # q[1].port
  <2>1. j - 1 \in DOMAIN p /\ q[j] = p[j - 1]
    BY <1>0, <1>1
  <2> QED
    BY <2>1 DEF Silent
<1> QED
  BY <1>0, <1>1 DEF LastWord

\* A port the rest is silent about was mentioned first, or not at all.
LEMMA SilentBefore ==
  ASSUME NEW p, NEW q, Shortens(p, q), NEW port, Silent(p, port), port # q[1].port
  PROVE  Silent(q, port)
<1> DEFINE n == Len(q)
<1>0. /\ n \in Nat /\ n >= 1 /\ DOMAIN p = 1..n - 1 /\ DOMAIN q = 1..n
      /\ \A j \in 1..n : j = 1 \/ (j - 1 \in 1..n - 1 /\ q[j] = p[j - 1])
  BY DEF Shortens
<1> HIDE DEF n
<1> QED
  BY <1>0 DEF Silent

\* The server takes a cancellation.
LEMMA CancelTaken ==
  ASSUME NEW r, NEW p, NEW q, NEW s, NEW listens,
         Shortens(p, q), q[1].type = "cancel",
         Numbered(r, q, s), Balanced(r, q, s, listens)
  PROVE  Numbered(r, p, s) /\ Balanced(r, p, s, listens \ {q[1].port})
<1> DEFINE n == Len(q)
           new == listens \ {q[1].port}
<1>0. /\ n \in Nat /\ n >= 1 /\ DOMAIN p = 1..n - 1 /\ DOMAIN q = 1..n
      /\ \A j \in 1..n - 1 : p[j] = q[j + 1] /\ j + 1 \in 1..n
      /\ \A j \in 1..n : j = 1 \/ (j - 1 \in 1..n - 1 /\ q[j] = p[j - 1])
  BY DEF Shortens
<1> HIDE DEF n
<1>1. Numbered(r, p, s)
  <2>1. \A i \in DOMAIN p :
           /\ p[i].type = "cancel" => p[i].n = 0
           /\ p[i].type = "forward" => /\ p[i].n \in r.answers + 1..Len(r.rule)
                                       /\ p[i].port = Source[r.rule[p[i].n]]
    <3> SUFFICES ASSUME NEW i \in DOMAIN p
                 PROVE  i + 1 \in DOMAIN q /\ p[i] = q[i + 1]
      BY DEF Numbered
    <3> QED
      BY <1>0
  <2>2. \A i, j \in DOMAIN p :
           i < j /\ p[i].type = "forward" /\ p[j].type = "forward" => p[i].n < p[j].n
    <3> SUFFICES ASSUME NEW i \in DOMAIN p, NEW j \in DOMAIN p, i < j
                 PROVE  /\ i + 1 \in DOMAIN q /\ p[i] = q[i + 1]
                        /\ j + 1 \in DOMAIN q /\ p[j] = q[j + 1] /\ i + 1 < j + 1
      BY DEF Numbered
    <3> QED
      BY <1>0
  <2>3. \A i \in DOMAIN s, j \in DOMAIN p :
           IsReply(s[i]) /\ p[j].type = "forward" => s[i].n < p[j].n
    <3> SUFFICES ASSUME NEW j \in DOMAIN p
                 PROVE  j + 1 \in DOMAIN q /\ p[j] = q[j + 1]
      BY DEF Numbered
    <3> QED
      BY <1>0
  <2>4. \A u \in r.answers + 1..Len(r.rule) :
          \/ \E i \in DOMAIN p : p[i].type = "forward" /\ p[i].n = u
          \/ \E i \in DOMAIN s : IsReply(s[i]) /\ s[i].n = u
    <3> SUFFICES ASSUME NEW i \in DOMAIN q, q[i].type = "forward"
                 PROVE  \E j \in DOMAIN p : p[j] = q[i]
      BY DEF Numbered
    <3>1. i - 1 \in DOMAIN p /\ p[i - 1] = q[i]
      BY <1>0
    <3> QED
      BY <3>1
  <2> QED
    BY <2>1, <2>2, <2>3, <2>4 DEF Numbered
<1>2. ASSUME NEW i \in DOMAIN p, LastWord(p, i) PROVE r.rportfwds[p[i].port] = p[i].n
  BY <1>2, LastBefore DEF Balanced
<1>3. ASSUME NEW j \in DOMAIN p, p[j].type = "forward" PROVE Fresh(p, j, new)
  <2>1. Fresh(q, j + 1, listens)
    BY <1>0, <1>3 DEF Balanced
  <2> QED
    BY <2>1, FreshAfter
<1>4. ASSUME NEW o \in Port, Silent(p, o)
      PROVE  IF r.rportfwds[o] = 0 THEN o \notin new ELSE Accounted(r, s, o, new)
  <2>1. CASE o = q[1].port
    <3>1. r.rportfwds[o] = q[1].n
      BY <2>1, <1>4, FirstAndLast DEF Balanced
    <3>2. q[1].n = 0
      BY <1>0 DEF Numbered
    <3> QED
      BY <3>1, <3>2, <2>1
  <2>2. CASE o # q[1].port
    <3>1. Silent(q, o)
      BY <2>2, <1>4, SilentBefore
    <3>2. IF r.rportfwds[o] = 0 THEN o \notin listens ELSE Accounted(r, s, o, listens)
      BY <3>1 DEF Balanced
    <3>3. o \in new <=> o \in listens
      BY <2>2
    <3> QED
      BY <3>2, <3>3 DEF Accounted
  <2> QED
    BY <2>1, <2>2
<1> QED
  BY <1>1, <1>2, <1>3, <1>4 DEF Balanced

\* The server's answers in p are those in s, and last one more, numbered n.
Answers(p, s, x, n) ==
  /\ Extends(p, s, x) /\ IsReply(x) /\ x.n = n

\* The server takes a request, and answers it.
LEMMA ForwardTaken ==
  ASSUME NEW r, NEW p, NEW q \in Seq(Request), NEW s, NEW t, NEW x, NEW listens,
         Shortens(p, q), q[1].type = "forward",
         Len(r.rule) \in Nat, r.answers \in Nat,
         Answers(t, s, x, q[1].n),
         Numbered(r, q, s), Balanced(r, q, s, listens),
         NEW new, new = IF x.type = "success" THEN listens \cup {q[1].port} ELSE listens
  PROVE  Numbered(r, p, t) /\ Balanced(r, p, t, new)
<1> DEFINE n == Len(q)
           port == q[1].port
           k == Len(s)
<1>0. /\ n \in Nat /\ n >= 1 /\ DOMAIN p = 1..n - 1 /\ DOMAIN q = 1..n
      /\ \A j \in 1..n - 1 : p[j] = q[j + 1] /\ j + 1 \in 1..n
      /\ \A j \in 1..n : j = 1 \/ (j - 1 \in 1..n - 1 /\ q[j] = p[j - 1])
  BY DEF Shortens
<1>s. /\ k \in Nat /\ DOMAIN t = 1..k + 1 /\ DOMAIN s = 1..k
      /\ t[k + 1] = x /\ (\A i \in 1..k : t[i] = s[i]) /\ IsReply(x) /\ x.n = q[1].n
  BY DEF Answers, Extends
<1> HIDE DEF n, k
<1>d. \A i \in 1..k + 1 : i \in 1..k \/ i = k + 1
  BY <1>s
<1>q. 1 \in DOMAIN q /\ q[1] \in Request
  BY <1>0
<1>p. port \in Port
  BY <1>q, Words
<1>n. /\ q[1].n \in r.answers + 1..Len(r.rule) /\ q[1].n # 0 /\ q[1].n \in Int
      /\ Source[r.rule[q[1].n]] = port
  <2>1. q[1].n \in r.answers + 1..Len(r.rule) /\ Source[r.rule[q[1].n]] = port
    BY <1>q DEF Numbered
  <2> QED
    BY <2>1
<1>1. Numbered(r, p, t)
  <2>1. \A i \in DOMAIN p :
           /\ p[i].type = "cancel" => p[i].n = 0
           /\ p[i].type = "forward" => /\ p[i].n \in r.answers + 1..Len(r.rule)
                                       /\ p[i].port = Source[r.rule[p[i].n]]
    <3> SUFFICES ASSUME NEW i \in DOMAIN p
                 PROVE  i + 1 \in DOMAIN q /\ p[i] = q[i + 1]
      BY DEF Numbered
    <3> QED
      BY <1>0
  <2>2. \A i, j \in DOMAIN p :
           i < j /\ p[i].type = "forward" /\ p[j].type = "forward" => p[i].n < p[j].n
    <3> SUFFICES ASSUME NEW i \in DOMAIN p, NEW j \in DOMAIN p, i < j
                 PROVE  /\ i + 1 \in DOMAIN q /\ p[i] = q[i + 1]
                        /\ j + 1 \in DOMAIN q /\ p[j] = q[j + 1] /\ i + 1 < j + 1
      BY DEF Numbered
    <3> QED
      BY <1>0
  <2>3. ASSUME NEW i \in DOMAIN t, NEW j \in DOMAIN p, IsReply(t[i]), p[j].type = "forward"
        PROVE  t[i].n < p[j].n
    <3>0. j + 1 \in DOMAIN q /\ p[j] = q[j + 1] /\ 1 < j + 1
      BY <1>0
    <3>1. CASE i = k + 1
      BY <3>0, <3>1, <2>3, <1>q, <1>s DEF Numbered
    <3>2. CASE i \in 1..k
      BY <3>0, <3>2, <2>3, <1>s DEF Numbered
    <3> QED
      BY <3>1, <3>2, <1>s, <1>d
  <2>4. ASSUME NEW u \in r.answers + 1..Len(r.rule)
        PROVE  \/ \E i \in DOMAIN p : p[i].type = "forward" /\ p[i].n = u
               \/ \E i \in DOMAIN t : IsReply(t[i]) /\ t[i].n = u
    <3>1. CASE \E i \in DOMAIN q : q[i].type = "forward" /\ q[i].n = u
      <4>1. PICK i \in DOMAIN q : q[i].type = "forward" /\ q[i].n = u
        BY <3>1
      <4>2. CASE i = 1
        <5>1. k + 1 \in DOMAIN t
          BY <1>s
        <5> QED
          BY <5>1, <4>1, <4>2, <1>s
      <4>3. CASE i # 1
        <5>1. i - 1 \in DOMAIN p /\ p[i - 1] = q[i]
          BY <1>0, <4>3
        <5> QED
          BY <5>1, <4>1
      <4> QED
        BY <4>2, <4>3
    <3>2. CASE \E i \in DOMAIN s : IsReply(s[i]) /\ s[i].n = u
      <4>1. PICK i \in DOMAIN s : IsReply(s[i]) /\ s[i].n = u
        BY <3>2
      <4>2. i \in DOMAIN t /\ t[i] = s[i]
        BY <1>s
      <4> QED
        BY <4>1, <4>2
    <3> QED
      BY <3>1, <3>2 DEF Numbered
  <2>5. ASSUME NEW i \in DOMAIN t, IsReply(t[i]) PROVE t[i].n \in r.answers + 1..Len(r.rule)
    <3>1. CASE i = k + 1
      BY <3>1, <1>n, <1>s
    <3>2. CASE i \in 1..k
      BY <3>2, <2>5, <1>s DEF Numbered
    <3> QED
      BY <3>1, <3>2, <1>s, <1>d
  <2>6. ASSUME NEW i \in DOMAIN t, NEW j \in DOMAIN t, i < j, IsReply(t[i]), IsReply(t[j])
        PROVE  t[i].n < t[j].n
    <3>0. i \in 1..k
      BY <2>6, <1>s
    <3>1. CASE j = k + 1
      BY <3>0, <3>1, <2>6, <1>q, <1>s DEF Numbered
    <3>2. CASE j \in 1..k
      BY <3>0, <3>2, <2>6, <1>s DEF Numbered
    <3> QED
      BY <3>1, <3>2, <1>s, <1>d
  <2> QED
    BY <2>1, <2>2, <2>3, <2>4, <2>5, <2>6 DEF Numbered
<1>2. ASSUME NEW i \in DOMAIN p, LastWord(p, i) PROVE r.rportfwds[p[i].port] = p[i].n
  BY <1>2, LastBefore DEF Balanced
<1>f. port \notin listens
  <2>1. Fresh(q, 1, listens)
    BY <1>q DEF Balanced
  <2>2. ~\E i \in DOMAIN q : i < 1
    BY <1>0
  <2> QED
    BY <2>1, <2>2 DEF Fresh
<1>o. \A o : o # port => (o \in new <=> o \in listens)
  OBVIOUS
<1>3. ASSUME NEW j \in DOMAIN p, p[j].type = "forward" PROVE Fresh(p, j, new)
  <2>0. j + 1 \in DOMAIN q /\ p[j] = q[j + 1] /\ 1 < j + 1
    BY <1>0
  <2>1. Fresh(q, j + 1, listens)
    BY <2>0, <1>3 DEF Balanced
  <2>2. CASE q[1].port # q[j + 1].port
    BY <2>1, <2>2, <1>o, FreshAfter
  <2>3. CASE q[1].port = q[j + 1].port
    <3>1. PICK i \in DOMAIN q :
              /\ i < j + 1 /\ q[i].port = q[j + 1].port /\ q[i].type = "cancel"
              /\ \A l \in DOMAIN q : i < l /\ l < j + 1 => q[l].port # q[j + 1].port
      BY <2>1, <2>0, <2>3, <1>q DEF Fresh
    <3>2. i - 1 \in DOMAIN p /\ i - 1 < j /\ p[i - 1] = q[i]
      BY <3>1, <1>0, <1>q
    <3>3. ASSUME NEW l \in DOMAIN p, i - 1 < l, l < j PROVE p[l].port # p[j].port
      <4>1. l + 1 \in DOMAIN q /\ i < l + 1 /\ l + 1 < j + 1 /\ p[l] = q[l + 1]
        BY <3>3, <1>0, SMTT(30)
      <4> QED
        BY <4>1, <3>1, <2>0
    <3> QED
      BY <3>1, <3>2, <3>3, <2>0 DEF Fresh
  <2> QED
    BY <2>2, <2>3
<1>4. ASSUME NEW o \in Port, Silent(p, o)
      PROVE  IF r.rportfwds[o] = 0 THEN o \notin new ELSE Accounted(r, t, o, new)
  <2>1. CASE o = port
    <3>1. r.rportfwds[o] = q[1].n
      BY <2>1, <1>4, FirstAndLast DEF Balanced
    <3>2. x.type = "success" <=> o \in new
      BY <2>1, <1>f
    <3>3. k + 1 \in DOMAIN t
      BY <1>s
    <3> QED
      BY <3>1, <3>2, <3>3, <1>n, <1>s DEF Accounted
  <2>2. CASE o # port
    <3>1. Silent(q, o)
      BY <2>2, <1>4, SilentBefore
    <3>2. IF r.rportfwds[o] = 0 THEN o \notin listens ELSE Accounted(r, s, o, listens)
      BY <3>1 DEF Balanced
    <3>3. o \in new <=> o \in listens
      BY <2>2, <1>o
    <3>4. Accounted(r, s, o, listens) => Accounted(r, t, o, new)
      <4>1. \A i \in DOMAIN s : i \in DOMAIN t /\ t[i] = s[i]
        BY <1>s
      <4> QED
        BY <4>1, <3>3 DEF Accounted
    <3> QED
      BY <3>2, <3>3, <3>4
  <2> QED
    BY <2>1, <2>2
<1> QED
  BY <1>1, <1>2, <1>3, <1>4 DEF Balanced

\* The server announces a connection: it answers nothing.
LEMMA OpenSaid ==
  ASSUME NEW r, NEW q, NEW s, NEW t, NEW x, NEW listens,
         Extends(t, s, x), ~IsReply(x),
         Numbered(r, q, s), Balanced(r, q, s, listens)
  PROVE  Numbered(r, q, t) /\ Balanced(r, q, t, listens)
<1>0. /\ \A i \in DOMAIN s : i \in DOMAIN t /\ t[i] = s[i]
      /\ \A i \in DOMAIN t : IsReply(t[i]) => i \in DOMAIN s /\ t[i] = s[i]
  <2>1. ASSUME NEW i \in DOMAIN t, IsReply(t[i]) PROVE i \in 1..Len(s)
    BY <2>1 DEF Extends
  <2> QED
    BY <2>1 DEF Extends
<1>1. Numbered(r, q, t)
  <2>1. \A i \in DOMAIN t : IsReply(t[i]) => t[i].n \in r.answers + 1..Len(r.rule)
    BY <1>0 DEF Numbered
  <2>2. \A i, j \in DOMAIN t :
           i < j /\ IsReply(t[i]) /\ IsReply(t[j]) => t[i].n < t[j].n
    BY <1>0 DEF Numbered
  <2>3. \A i \in DOMAIN t, j \in DOMAIN q :
           IsReply(t[i]) /\ q[j].type = "forward" => t[i].n < q[j].n
    BY <1>0 DEF Numbered
  <2>4. \A u \in r.answers + 1..Len(r.rule) :
          \/ \E i \in DOMAIN q : q[i].type = "forward" /\ q[i].n = u
          \/ \E i \in DOMAIN t : IsReply(t[i]) /\ t[i].n = u
    <3> SUFFICES ASSUME NEW i \in DOMAIN s, IsReply(s[i])
                 PROVE  \E j \in DOMAIN t : t[j] = s[i]
      BY DEF Numbered
    <3> QED
      BY <1>0
  <2> QED
    BY <2>1, <2>2, <2>3, <2>4 DEF Numbered
<1>2. ASSUME NEW port, Accounted(r, s, port, listens) PROVE Accounted(r, t, port, listens)
  BY <1>0, <1>2 DEF Accounted
<1> QED
  BY <1>1, <1>2 DEF Balanced

\* PuTTY takes the announcement of a connection.
LEMMA OpenTaken ==
  ASSUME NEW r, NEW v, NEW q, NEW s, NEW t, NEW listens,
         Shortens(t, s), ~IsReply(s[1]),
         SameCount(r, v), v.rportfwds = r.rportfwds,
         Numbered(r, q, s), Balanced(r, q, s, listens)
  PROVE  Numbered(v, q, t) /\ Balanced(v, q, t, listens)
<1>0. /\ \A i \in DOMAIN t : i + 1 \in DOMAIN s /\ t[i] = s[i + 1]
      /\ \A i \in DOMAIN s : IsReply(s[i]) => i - 1 \in DOMAIN t /\ s[i] = t[i - 1]
      /\ \A i, j \in DOMAIN t : i < j => i + 1 < j + 1
  <2>1. ASSUME NEW i \in DOMAIN s, IsReply(s[i]) PROVE i - 1 \in DOMAIN t /\ s[i] = t[i - 1]
    <3>1. i # 1 /\ i \in 1..Len(s) /\ Len(s) \in Nat
      BY <2>1 DEF Shortens
    <3>2. i - 1 \in 1..Len(s) - 1 /\ (i - 1) + 1 = i
      BY <3>1
    <3> QED
      BY <3>2 DEF Shortens
  <2>2. \A i \in DOMAIN t : i + 1 \in DOMAIN s /\ t[i] = s[i + 1]
    BY DEF Shortens
  <2>3. \A i, j \in DOMAIN t : i < j => i + 1 < j + 1
    BY DEF Shortens
  <2> QED
    BY <2>1, <2>2, <2>3
<1>1. Numbered(v, q, t)
  <2>1. \A i \in DOMAIN t : IsReply(t[i]) => t[i].n \in r.answers + 1..Len(r.rule)
    BY <1>0 DEF Numbered
  <2>2. \A i, j \in DOMAIN t :
           i < j /\ IsReply(t[i]) /\ IsReply(t[j]) => t[i].n < t[j].n
    BY <1>0 DEF Numbered
  <2>3. \A i \in DOMAIN t, j \in DOMAIN q :
           IsReply(t[i]) /\ q[j].type = "forward" => t[i].n < q[j].n
    BY <1>0 DEF Numbered
  <2>4. \A u \in r.answers + 1..Len(r.rule) :
          \/ \E i \in DOMAIN q : q[i].type = "forward" /\ q[i].n = u
          \/ \E i \in DOMAIN t : IsReply(t[i]) /\ t[i].n = u
    <3> SUFFICES ASSUME NEW i \in DOMAIN s, IsReply(s[i])
                 PROVE  \E j \in DOMAIN t : t[j] = s[i]
      BY DEF Numbered
    <3> QED
      BY <1>0
  <2> QED
    BY <2>1, <2>2, <2>3, <2>4 DEF Numbered, SameCount
<1>2. ASSUME NEW port, Accounted(r, s, port, listens) PROVE Accounted(v, t, port, listens)
  BY <1>0, <1>2 DEF Accounted, SameCount
<1> QED
  BY <1>1, <1>2 DEF Balanced, SameCount

\* The first answer is to the first request without one.
LEMMA FirstReply ==
  ASSUME NEW r, NEW q, NEW s, 1 \in DOMAIN s, \A i \in DOMAIN s : i \in Nat /\ i >= 1,
         IsReply(s[1]), r.answers \in Nat, Len(r.rule) \in Nat,
         Numbered(r, q, s)
  PROVE  s[1].n = r.answers + 1 /\ r.answers < Len(r.rule)
<1> DEFINE a == r.answers + 1
<1>1. s[1].n \in a..Len(r.rule) /\ a \in Int
  BY DEF Numbered
<1>2. a \in a..Len(r.rule) /\ s[1].n \in Int /\ s[1].n >= a /\ r.answers < Len(r.rule)
  BY <1>1
<1> HIDE DEF a
<1>3. CASE \E i \in DOMAIN q : q[i].type = "forward" /\ q[i].n = a
  <2>1. PICK i \in DOMAIN q : q[i].type = "forward" /\ q[i].n = a
    BY <1>3
  <2>2. s[1].n < a
    BY <2>1 DEF Numbered
  <2> QED
    BY <2>2, <1>1, <1>2
<1>4. CASE \E i \in DOMAIN s : IsReply(s[i]) /\ s[i].n = a
  <2>1. PICK i \in DOMAIN s : IsReply(s[i]) /\ s[i].n = a
    BY <1>4
  <2>2. CASE i = 1
    BY <2>1, <2>2, <1>2 DEF a
  <2>3. CASE i # 1
    <3>1. 1 < i
      BY <2>3
    <3>2. s[1].n < a
      BY <3>1, <2>1 DEF Numbered
    <3> QED
      BY <3>2, <1>1, <1>2
  <2> QED
    BY <2>2, <2>3
<1> QED
  BY <1>2, <1>3, <1>4 DEF Numbered, a

\* What an answer does to the table of forwardings.
Settles(r, v, x) ==
  IF x.type = "success" THEN v.rportfwds = r.rportfwds
  ELSE /\ r.rportfwds[Source[r.rule[x.n]]] = x.n
       /\ v.rportfwds = [r.rportfwds EXCEPT ![Source[r.rule[x.n]]] = 0]

\* PuTTY takes an answer.
LEMMA ReplyTaken ==
  ASSUME NEW r, NEW v, NEW q \in Seq(Request), NEW s, NEW t, NEW listens,
         Shortens(t, s), IsReply(s[1]),
         r.answers \in Nat, r.rule \in Seq(Rule), r.rportfwds \in [Port -> Nat],
         \A port \in Port : r.rportfwds[port] # 0 =>
             Source[r.rule[r.rportfwds[port]]] = port,
         v.answers = r.answers + 1, v.rule = r.rule, Settles(r, v, s[1]),
         Numbered(r, q, s), Balanced(r, q, s, listens)
  PROVE  Numbered(v, q, t) /\ Balanced(v, q, t, listens)
<1> DEFINE a == r.answers + 1
           k == Len(r.rule)
<1>k. k \in Nat /\ a \in Nat /\ a # 0 /\ Len(v.rule) = k /\ v.answers = a
  OBVIOUS
<1>0. /\ \A i \in DOMAIN t : i + 1 \in DOMAIN s /\ t[i] = s[i + 1] /\ 1 < i + 1
      /\ \A i \in DOMAIN s : i = 1 \/ (i - 1 \in DOMAIN t /\ s[i] = t[i - 1])
      /\ \A i, j \in DOMAIN t : i < j => i + 1 < j + 1
      /\ 1 \in DOMAIN s /\ \A i \in DOMAIN s : i \in Nat /\ i >= 1
  <2>1. ASSUME NEW i \in DOMAIN s, i # 1 PROVE i - 1 \in DOMAIN t /\ s[i] = t[i - 1]
    <3>1. i - 1 \in 1..Len(s) - 1 /\ (i - 1) + 1 = i
      BY <2>1 DEF Shortens
    <3> QED
      BY <3>1 DEF Shortens
  <2>2. \A i \in DOMAIN t : i + 1 \in DOMAIN s /\ t[i] = s[i + 1] /\ 1 < i + 1
    BY DEF Shortens
  <2>3. \A i, j \in DOMAIN t : i < j => i + 1 < j + 1
    BY DEF Shortens
  <2>4. 1 \in DOMAIN s /\ \A i \in DOMAIN s : i \in Nat /\ i >= 1
    BY DEF Shortens
  <2> QED
    BY <2>1, <2>2, <2>3, <2>4
<1>a. s[1].n = a /\ r.answers < k
  BY <1>0, <1>k, FirstReply
<1>r. \A u : u \in r.answers + 1..k /\ a < u => u \in a + 1..k
  BY <1>k
<1>u. \A u : u \in a + 1..k => u \in r.answers + 1..k /\ u # a
  BY <1>k
<1>q. \A i \in DOMAIN q : q[i] \in Request
  OBVIOUS
<1>e. \A i \in DOMAIN q : q[i].n # a
  <2> SUFFICES ASSUME NEW i \in DOMAIN q, q[i].n = a PROVE FALSE
    OBVIOUS
  <2>1. CASE q[i].type = "cancel"
    BY <2>1, <1>k DEF Numbered
  <2>2. CASE q[i].type = "forward"
    <3>1. s[1].n < q[i].n
      BY <2>2, <1>0 DEF Numbered
    <3> QED
      BY <3>1, <1>a, <1>k
  <2> QED
    BY <2>1, <2>2, <1>q, Words
<1>1. Numbered(v, q, t)
  <2>0. ASSUME NEW i \in DOMAIN q, q[i].type = "forward"
        PROVE  q[i].n \in a + 1..k
    <3>1. q[i].n \in r.answers + 1..k /\ s[1].n < q[i].n
      BY <2>0, <1>0 DEF Numbered
    <3> QED
      BY <3>1, <1>a, <1>r
  <2>1. \A i \in DOMAIN t : IsReply(t[i]) => t[i].n \in a + 1..k
    <3> SUFFICES ASSUME NEW i \in DOMAIN t, IsReply(t[i]) PROVE t[i].n \in a + 1..k
      OBVIOUS
    <3>1. s[1].n < t[i].n /\ t[i].n \in r.answers + 1..k
      BY <1>0 DEF Numbered
    <3> QED
      BY <3>1, <1>a, <1>r
  <2>2. \A i, j \in DOMAIN t :
           i < j /\ IsReply(t[i]) /\ IsReply(t[j]) => t[i].n < t[j].n
    BY <1>0 DEF Numbered
  <2>3. \A i \in DOMAIN t, j \in DOMAIN q :
           IsReply(t[i]) /\ q[j].type = "forward" => t[i].n < q[j].n
    BY <1>0 DEF Numbered
  <2>4. ASSUME NEW u \in a + 1..k
        PROVE  \/ \E i \in DOMAIN q : q[i].type = "forward" /\ q[i].n = u
               \/ \E i \in DOMAIN t : IsReply(t[i]) /\ t[i].n = u
    <3>1. u \in r.answers + 1..k /\ u # a
      BY <1>u
    <3>2. \/ \E i \in DOMAIN q : q[i].type = "forward" /\ q[i].n = u
          \/ \E i \in DOMAIN s : IsReply(s[i]) /\ s[i].n = u
      BY <3>1 DEF Numbered
    <3>3. ASSUME NEW i \in DOMAIN s, IsReply(s[i]), s[i].n = u
          PROVE  \E j \in DOMAIN t : IsReply(t[j]) /\ t[j].n = u
      <4>1. i - 1 \in DOMAIN t /\ t[i - 1] = s[i]
        BY <3>1, <3>3, <1>a, <1>0
      <4> QED
        BY <4>1, <3>3
    <3> QED
      BY <3>2, <3>3
  <2> HIDE DEF a, k
  <2>5. \A i \in DOMAIN q : /\ q[i].type = "cancel" => q[i].n = 0
                            /\ q[i].type = "forward" => q[i].port = Source[r.rule[q[i].n]]
    BY DEF Numbered
  <2>6. \A i, j \in DOMAIN q :
           i < j /\ q[i].type = "forward" /\ q[j].type = "forward" => q[i].n < q[j].n
    BY DEF Numbered
  <2> QED
    BY <2>0, <2>1, <2>2, <2>3, <2>4, <2>5, <2>6, <1>k DEF Numbered
<1> HIDE DEF a, k
<1>2. ASSUME NEW i \in DOMAIN q, LastWord(q, i) PROVE v.rportfwds[q[i].port] = q[i].n
  <2>1. r.rportfwds[q[i].port] = q[i].n /\ q[i].n # a /\ q[i].port \in Port
    BY <1>2, <1>e, <1>q, Words DEF Balanced
  <2> QED
    BY <2>1, <1>a DEF Settles
<1>3. ASSUME NEW port \in Port, Silent(q, port)
      PROVE  IF v.rportfwds[port] = 0 THEN port \notin listens
             ELSE Accounted(v, t, port, listens)
  <2>0. IF r.rportfwds[port] = 0 THEN port \notin listens
        ELSE Accounted(r, s, port, listens)
    BY <1>3 DEF Balanced
  <2>a. r.rportfwds[port] = a => Source[r.rule[a]] = port
    BY <1>k
  <2>u. \A i \in DOMAIN s : IsReply(s[i]) /\ s[i].n = a => i = 1
    <3> SUFFICES ASSUME NEW i \in DOMAIN s, IsReply(s[i]), s[i].n = a, i # 1 PROVE FALSE
      OBVIOUS
    <3>1. 1 < i
      BY <1>0
    <3>2. s[1].n < s[i].n
      BY <3>1, <1>0 DEF Numbered
    <3> QED
      BY <3>2, <1>a, <1>k
  <2>n. \A port1 \in Port : r.rportfwds[port1] \in Nat
    OBVIOUS
  <2>1. CASE r.rportfwds[port] = a
    <3>1. s[1].type = "success" <=> port \in listens
      <4>1. Accounted(r, s, port, listens) /\ ~(a <= r.answers)
        BY <2>0, <2>1, <1>k DEF a
      <4>2. PICK i \in DOMAIN s : /\ IsReply(s[i]) /\ s[i].n = a
                                  /\ s[i].type = "success" <=> port \in listens
        BY <4>1, <2>1 DEF Accounted
      <4> QED
        BY <4>2, <2>u
    <3>2. CASE s[1].type = "success"
      BY <3>1, <3>2, <2>1, <1>k DEF Settles, Accounted
    <3>3. CASE s[1].type # "success"
      <4>1. v.rportfwds[port] = 0
        BY <3>3, <2>1, <2>a, <1>a DEF Settles
      <4> QED
        BY <4>1, <3>3, <3>1
    <3> QED
      BY <3>2, <3>3
  <2>2. CASE r.rportfwds[port] # a
    <3>1. v.rportfwds[port] = r.rportfwds[port]
      BY <2>2, <1>a DEF Settles
    <3>2. ASSUME Accounted(r, s, port, listens) PROVE Accounted(v, t, port, listens)
      <4>1. CASE r.rportfwds[port] <= r.answers /\ port \in listens
        <5>1. r.rportfwds[port] <= a
          BY <4>1, <2>n DEF a
        <5> QED
          BY <5>1, <4>1, <3>1, <1>k DEF Accounted
      <4>2. CASE \E i \in DOMAIN s : /\ IsReply(s[i]) /\ s[i].n = r.rportfwds[port]
                                     /\ s[i].type = "success" <=> port \in listens
        <5>1. PICK i \in DOMAIN s : /\ IsReply(s[i]) /\ s[i].n = r.rportfwds[port]
                                    /\ s[i].type = "success" <=> port \in listens
          BY <4>2
        <5>2. i - 1 \in DOMAIN t /\ t[i - 1] = s[i]
          BY <5>1, <2>2, <1>a, <1>0
        <5> QED
          BY <5>1, <5>2, <3>1 DEF Accounted
      <4> QED
        BY <4>1, <4>2, <3>2 DEF Accounted
    <3> QED
      BY <3>1, <3>2, <2>0
  <2> QED
    BY <2>1, <2>2
<1> QED
  BY <1>1, <1>2, <1>3 DEF Balanced

-----------------------------------------------------------------------------
(* What the functions do.                                                  *)

\* The parts of a record have their types.
LEMMA Fields ==
  ASSUME NEW r \in Manager
  PROVE  /\ r.conf \in SUBSET Rule /\ r.confs \in Nat /\ r.forwardings \in SUBSET Rule
         /\ r.dangling \in SUBSET Rule /\ r.remote \in [Rule -> Nat]
         /\ r.rportfwds \in [Port -> Nat] /\ r.rule \in Seq(Rule)
         /\ r.rpfs \in SUBSET Nat /\ r.head \in Int /\ r.tail \in Nat
         /\ r.next \in Seq(Int) /\ r.ogrs \in SUBSET Nat /\ r.answers \in Nat
         /\ r.accepted \in Nat /\ r.gentle \in BOOLEAN /\ r.out \in Seq(Request)
         /\ Len(r.rule) \in Nat /\ DOMAIN r.rule = 1..Len(r.rule)
BY DEF Manager

\* What neither loop of portfwdmgr_config touches.
SameUser(r, v) ==
  /\ v.conf = r.conf /\ v.confs = r.confs /\ v.answers = r.answers
  /\ v.accepted = r.accepted /\ v.gentle = r.gentle /\ v.fault = r.fault

\* The list of requests is as it was.
SameList(r, v) ==
  v.head = r.head /\ v.tail = r.tail /\ v.next = r.next /\ v.ogrs = r.ogrs

\* An element of a sequence can be overwritten.
LEMMA Overwritten ==
  ASSUME NEW q \in Seq(Int), NEW i \in Nat, NEW x \in Int
  PROVE  /\ [q EXCEPT ![i] = x] \in Seq(Int) /\ Len([q EXCEPT ![i] = x]) = Len(q)
         /\ \A j \in 1..Len(q) : [q EXCEPT ![i] = x][j] = IF j = i THEN x ELSE q[j]
<1> DEFINE f == [q EXCEPT ![i] = x]
           n == Len(q)
<1>1. n \in Nat /\ DOMAIN q = 1..n /\ \A j \in 1..n : q[j] \in Int
  OBVIOUS
<1>2. f = [j \in 1..n |-> IF j = i THEN x ELSE q[j]]
  BY <1>1
<1>3. \A j \in 1..n : f[j] = IF j = i THEN x ELSE q[j]
  BY <1>2
<1>4. f \in [1..n -> Int]
  BY <1>1, <1>2
<1> HIDE DEF f, n
<1>5. f \in Seq(Int) /\ Len(f) = n
  <2>1. \A s \in [1..n -> Int] : s \in Seq(Int) /\ DOMAIN s = 1..n
    BY <1>1
  <2>2. f \in Seq(Int) /\ DOMAIN f = 1..n
    BY <1>4, <2>1
  <2> QED
    BY <2>2, <1>1
<1> QED
  BY <1>3, <1>5 DEF f, n

\* What a cancellation does to the tables.
Removed(r, v, i) ==
  /\ v.out = Append(r.out, Msg("cancel", Source[i], 0))
  /\ v.rportfwds = [r.rportfwds EXCEPT ![Source[i]] = 0]
  /\ v.rpfs = r.rpfs \ {r.remote[i]} /\ v.remote = [r.remote EXCEPT ![i] = 0]
  /\ v.forwardings = r.forwardings \ {i} /\ v.dangling = r.dangling /\ v.rule = r.rule
  /\ v.conf = r.conf /\ v.confs = r.confs /\ v.answers = r.answers
  /\ v.accepted = r.accepted /\ v.gentle = r.gentle

\* ssh2_rportfwd_remove does this, and fails its assertion only if the table
\* holds another rpf.
LEMMA RemoveIs ==
  ASSUME NEW r \in Manager, NEW i \in Rule
  PROVE  LET v == ssh2_rportfwd_remove(r, i) IN
         /\ v \in Manager /\ Removed(r, v, i) /\ SameList(r, v)
         /\ v.fault = IF r.rportfwds[Source[i]] = r.remote[i] \/ r.fault # "none"
                      THEN r.fault ELSE "assert_realpf"
<1> DEFINE c == Check(r, r.rportfwds[Source[i]] = r.remote[i], "assert_realpf")
           x == Msg("cancel", Source[i], 0)
           v == ssh2_rportfwd_remove(r, i)
<1>1. /\ c \in Manager
      /\ c.fault = IF r.rportfwds[Source[i]] = r.remote[i] \/ r.fault # "none"
                   THEN r.fault ELSE "assert_realpf"
      /\ c.out = r.out /\ c.rportfwds = r.rportfwds /\ c.rpfs = r.rpfs
      /\ c.remote = r.remote /\ c.forwardings = r.forwardings
      /\ c.dangling = r.dangling /\ c.rule = r.rule /\ c.conf = r.conf
      /\ c.confs = r.confs /\ c.answers = r.answers /\ c.accepted = r.accepted
      /\ c.gentle = r.gentle /\ SameList(r, c)
  BY DEF Manager, Check, SameList
<1>2. v = [c EXCEPT !.out = Append(r.out, x), !.rportfwds = [r.rportfwds EXCEPT ![Source[i]] = 0],
                    !.rpfs = r.rpfs \ {r.remote[i]},
                    !.remote = [r.remote EXCEPT ![i] = 0],
                    !.forwardings = r.forwardings \ {i}]
  BY <1>1, Rules DEF ssh2_rportfwd_remove, Manager
<1>3. x \in Request
  BY Rules DEF Msg, Request
<1>4. Append(r.out, x) \in Seq(Request)
  BY <1>3, Fields
<1>5. [r.rportfwds EXCEPT ![Source[i]] = 0] \in [Port -> Nat]
  BY Fields
<1>6. [r.remote EXCEPT ![i] = 0] \in [Rule -> Nat]
  BY Fields
<1> HIDE DEF c, x, v
<1>7. v \in Manager /\ SameList(c, v)
  BY <1>1, <1>2, <1>4, <1>5, <1>6, Fields DEF Manager, SameList
<1>8. Removed(r, v, i)
  BY <1>1, <1>2 DEF Removed, Manager, x
<1>9. v.fault = c.fault
  BY <1>1, <1>2 DEF Manager
<1> QED
  BY <1>1, <1>7, <1>8, <1>9 DEF SameList, v

\* What a request does to the tables.
Asked(r, v, i) ==
  LET n == Len(r.rule) + 1 IN
  /\ v.out = Append(r.out, Msg("forward", Source[i], n))
  /\ v.rportfwds = [r.rportfwds EXCEPT ![Source[i]] = n]
  /\ v.rpfs = r.rpfs \cup {n} /\ v.remote = [r.remote EXCEPT ![i] = n]
  /\ v.rule = Append(r.rule, i)
  /\ v.forwardings = r.forwardings /\ v.dangling = r.dangling

\* What it does to the list: the entry is linked in, unless the tail is left over.
Queued(r, v) ==
  LET n == Len(r.rule) + 1 IN
  /\ v.head = (IF r.tail = 0 THEN n ELSE r.head) /\ v.tail = n
  /\ v.ogrs = r.ogrs \cup {n} /\ Len(v.next) = n /\ v.next[n] = -1
  /\ \A i \in 1..n - 1 : v.next[i] = IF i = r.tail /\ i \in r.ogrs THEN n ELSE r.next[i]

\* ssh2_queue_global_request_handler does this.
LEMMA QueueIs ==
  ASSUME NEW r \in Manager, NEW n \in Nat
  PROVE  LET v == ssh2_queue_global_request_handler(r, n)
             s == Append(r.next, -1)
         IN  /\ v = [r EXCEPT !.ogrs = r.ogrs \cup {n}, !.tail = n,
                              !.head = IF r.tail = 0 THEN n ELSE r.head,
                              !.next = IF r.tail # 0 /\ r.tail \in r.ogrs
                                       THEN [s EXCEPT ![r.tail] = n] ELSE s]
             /\ v \in Manager
<1> DEFINE v == ssh2_queue_global_request_handler(r, n)
           s == Append(r.next, -1)
           o == r.ogrs \cup {n}
           f == [s EXCEPT ![r.tail] = n]
<1>1. s \in Seq(Int) /\ f \in Seq(Int) /\ o \in SUBSET Nat
  <2>1. s \in Seq(Int)
    BY Fields
  <2> HIDE DEF s
  <2> QED
    BY <2>1, Fields, Overwritten
<1>2. v = [r EXCEPT !.ogrs = o, !.tail = n,
                    !.head = IF r.tail = 0 THEN n ELSE r.head,
                    !.next = IF r.tail # 0 /\ r.tail \in r.ogrs THEN f ELSE s]
  <2>1. CASE r.tail = 0
    BY <2>1 DEF ssh2_queue_global_request_handler, Manager
  <2>2. CASE r.tail # 0 /\ r.tail \in r.ogrs
    BY <2>2 DEF ssh2_queue_global_request_handler, Manager
  <2>3. CASE r.tail # 0 /\ r.tail \notin r.ogrs
    BY <2>3 DEF ssh2_queue_global_request_handler, Manager
  <2> QED
    BY <2>1, <2>2, <2>3
<1> DEFINE h == IF r.tail = 0 THEN n ELSE r.head
           e == IF r.tail # 0 /\ r.tail \in r.ogrs THEN f ELSE s
<1>a. h \in Int /\ e \in Seq(Int)
  <2> HIDE DEF s, f
  <2> QED
    BY <1>1, Fields
<1>b. v = [r EXCEPT !.ogrs = o, !.tail = n, !.head = h, !.next = e]
  BY <1>2
<1> HIDE DEF v, s, o, f, h, e
<1>3. v \in Manager
  BY <1>1, <1>a, <1>b DEF Manager
<1> QED
  BY <1>2, <1>3 DEF v, s, o, f

\* ssh2_rportfwd_alloc refuses a port that has a forwarding, and otherwise makes
\* the request.
LEMMA AllocIs ==
  ASSUME NEW r \in Manager, NEW i \in Rule
  PROVE  LET v == ssh2_rportfwd_alloc(r, i) IN
         /\ v \in Manager /\ SameUser(r, v)
         /\ r.rportfwds[Source[i]] # 0 =>
               v = [r EXCEPT !.dangling = r.dangling \cup {i}]
         /\ r.rportfwds[Source[i]] = 0 =>
               /\ Asked(r, v, i)
               /\ Len(r.next) = Len(r.rule) /\ r.tail <= Len(r.rule) => Queued(r, v)
<1> DEFINE v == ssh2_rportfwd_alloc(r, i)
           n == Len(r.rule) + 1
           x == Msg("forward", Source[i], n)
           w == [r EXCEPT !.rule = Append(r.rule, i), !.rpfs = r.rpfs \cup {n},
                          !.rportfwds = [r.rportfwds EXCEPT ![Source[i]] = n],
                          !.remote = [r.remote EXCEPT ![i] = n],
                          !.out = Append(r.out, x)]
           u == ssh2_queue_global_request_handler(w, n)
           s == Append(r.next, -1)
<1>0. n \in Nat /\ Source[i] \in Port
  BY Fields, Rules
<1>1. CASE r.rportfwds[Source[i]] # 0
  <2>1. v = [r EXCEPT !.dangling = r.dangling \cup {i}]
    BY <1>1 DEF ssh2_rportfwd_alloc
  <2>2. r.dangling \cup {i} \in SUBSET Rule
    BY Fields
  <2> HIDE DEF v
  <2>3. v \in Manager /\ SameUser(r, v)
    BY <2>1, <2>2 DEF Manager, SameUser
  <2> QED
    BY <2>1, <2>3, <1>1 DEF v
<1>2. CASE r.rportfwds[Source[i]] = 0
  <2>1. v = u
    BY <1>2 DEF ssh2_rportfwd_alloc
  <2>2. x \in Request
    BY <1>0 DEF Msg, Request
  <2>3. /\ Append(r.rule, i) \in Seq(Rule) /\ Append(r.out, x) \in Seq(Request)
        /\ r.rpfs \cup {n} \in SUBSET Nat
        /\ [r.rportfwds EXCEPT ![Source[i]] = n] \in [Port -> Nat]
        /\ [r.remote EXCEPT ![i] = n] \in [Rule -> Nat]
    BY <1>0, <2>2, Fields
  <2> HIDE DEF x, n
  <2>4. /\ w \in Manager /\ SameUser(r, w) /\ SameList(r, w)
        /\ w.out = Append(r.out, x)
        /\ w.rportfwds = [r.rportfwds EXCEPT ![Source[i]] = n]
        /\ w.rpfs = r.rpfs \cup {n} /\ w.remote = [r.remote EXCEPT ![i] = n]
        /\ w.rule = Append(r.rule, i)
        /\ w.forwardings = r.forwardings /\ w.dangling = r.dangling
    BY <2>3 DEF Manager, SameUser, SameList
  <2> HIDE DEF w
  <2>5. /\ u = [w EXCEPT !.ogrs = r.ogrs \cup {n}, !.tail = n,
                         !.head = IF r.tail = 0 THEN n ELSE r.head,
                         !.next = IF r.tail # 0 /\ r.tail \in r.ogrs
                                  THEN [s EXCEPT ![r.tail] = n] ELSE s]
        /\ u \in Manager
    <3>1. LET z == Append(w.next, -1) IN
          /\ u = [w EXCEPT !.ogrs = w.ogrs \cup {n}, !.tail = n,
                           !.head = IF w.tail = 0 THEN n ELSE w.head,
                           !.next = IF w.tail # 0 /\ w.tail \in w.ogrs
                                    THEN [z EXCEPT ![w.tail] = n] ELSE z]
          /\ u \in Manager
      BY <1>0, <2>4, QueueIs
    <3>2. w.ogrs = r.ogrs /\ w.tail = r.tail /\ w.head = r.head /\ w.next = r.next
      BY <2>4 DEF SameList
    <3> HIDE DEF u
    <3> QED
      BY <3>1, <3>2
  <2> HIDE DEF u, v
  <2>6. SameUser(w, u) /\ u.out = w.out /\ u.rportfwds = w.rportfwds
        /\ u.rpfs = w.rpfs /\ u.remote = w.remote /\ u.rule = w.rule
        /\ u.forwardings = w.forwardings /\ u.dangling = w.dangling
    <3> DEFINE o == r.ogrs \cup {n}
               h == IF r.tail = 0 THEN n ELSE r.head
               f == IF r.tail # 0 /\ r.tail \in r.ogrs THEN [s EXCEPT ![r.tail] = n] ELSE s
    <3>1. w \in Manager /\ u = [w EXCEPT !.ogrs = o, !.tail = n, !.head = h, !.next = f]
      BY <2>4, <2>5
    <3> HIDE DEF o, h, f
    <3> QED
      BY <3>1 DEF Manager, SameUser
  <2>7. /\ u.head = (IF r.tail = 0 THEN n ELSE r.head) /\ u.tail = n
        /\ u.ogrs = r.ogrs \cup {n}
        /\ u.next = IF r.tail # 0 /\ r.tail \in r.ogrs THEN [s EXCEPT ![r.tail] = n] ELSE s
    BY <2>4, <2>5 DEF Manager
  <2>8. ASSUME Len(r.next) = Len(r.rule), r.tail <= Len(r.rule) PROVE Queued(r, u)
    <3>1. /\ s \in Seq(Int) /\ Len(s) = n /\ s[n] = -1
          /\ \A j \in 1..n - 1 : s[j] = r.next[j] /\ j \in 1..n
      BY <2>8, <1>0, Fields DEF n
    <3> HIDE DEF s
    <3> DEFINE f == [s EXCEPT ![r.tail] = n]
    <3>2. /\ f \in Seq(Int) /\ Len(f) = n
          /\ \A j \in 1..n : f[j] = IF j = r.tail THEN n ELSE s[j]
      BY <3>1, <1>0, Fields, Overwritten
    <3>n. n \in 1..n
      BY <1>0, Fields DEF n
    <3> HIDE DEF f
    <3>3. Len(u.next) = n
      BY <2>7, <3>1, <3>2 DEF f
    <3>4. ASSUME NEW j \in 1..n - 1
          PROVE  u.next[j] = IF j = r.tail /\ j \in r.ogrs THEN n ELSE r.next[j]
      <4>1. j # 0
        BY <1>0
      <4>2. CASE r.tail # 0 /\ r.tail \in r.ogrs
        BY <4>1, <4>2, <2>7, <3>1, <3>2 DEF f
      <4>3. CASE ~(r.tail # 0 /\ r.tail \in r.ogrs)
        BY <4>1, <4>3, <2>7, <3>1
      <4> QED
        BY <4>2, <4>3
    <3>5. u.next[n] = -1
      <4>1. n # r.tail
        BY <2>8, Fields DEF n
      <4> QED
        BY <4>1, <3>1, <3>2, <3>n, <2>7 DEF f
    <3> QED
      BY <2>7, <3>3, <3>4, <3>5 DEF Queued, n
  <2> QED
    BY <2>1, <2>4, <2>5, <2>6, <2>8, <1>2 DEF SameUser, Asked, x, n, v
<1> QED
  BY <1>1, <1>2

-----------------------------------------------------------------------------
(* What the functions preserve.                                            *)

\* The invariant within portfwdmgr_config: S are the rules dealt with and in
\* force, and out comes after q.
Good(r, S, q, s, listens) ==
  /\ r \in Manager /\ Shape(r) /\ S \subseteq Rule /\ Linked(r, S) /\ List(r)
  /\ Numbered(r, q \o r.out, s) /\ Balanced(r, q \o r.out, s, listens)

\* The record of rule i and its rpf leave the tables.
Unlinked(r, v, i) ==
  /\ v.rportfwds = [r.rportfwds EXCEPT ![Source[i]] = 0]
  /\ v.rpfs = r.rpfs \ {r.remote[i]} /\ v.remote = [r.remote EXCEPT ![i] = 0]
  /\ v.rule = r.rule

\* The record and the rpf go together.
LEMMA RemoveLinked ==
  ASSUME NEW r \in Manager, NEW v \in Manager, NEW S \in SUBSET Rule, NEW i \in S,
         Unlinked(r, v, i), Linked(r, S)
  PROVE  Linked(v, S \ {i})
<1> DEFINE n == r.remote[i]
<1>0. /\ n \in r.rpfs /\ r.rule[n] = i /\ r.rportfwds[Source[i]] = n
      /\ \A j \in S : j \in Rule /\ Source[j] \in Port
  BY Rules DEF Linked
<1>f. /\ v.rpfs = r.rpfs \ {n} /\ v.rule = r.rule
      /\ \A j \in Rule : v.remote[j] = IF j = i THEN 0 ELSE r.remote[j]
      /\ \A port \in Port : v.rportfwds[port] = IF port = Source[i] THEN 0
                                                ELSE r.rportfwds[port]
  BY Fields DEF Unlinked
<1> HIDE DEF n
<1>1. ASSUME NEW j \in S \ {i}
      PROVE  /\ v.remote[j] \in v.rpfs /\ v.rule[v.remote[j]] = j
             /\ v.rportfwds[Source[j]] = v.remote[j]
  <2>1. /\ r.remote[j] \in r.rpfs /\ r.rule[r.remote[j]] = j
        /\ r.rportfwds[Source[j]] = r.remote[j]
    BY DEF Linked
  <2>2. r.remote[j] # n /\ Source[j] # Source[i]
    BY <1>0, <2>1
  <2> QED
    BY <1>0, <1>f, <2>1, <2>2
<1>2. ASSUME NEW u \in v.rpfs PROVE v.rule[u] \in S \ {i} /\ v.remote[v.rule[u]] = u
  <2>1. u \in r.rpfs /\ u # n /\ r.rule[u] \in S /\ r.remote[r.rule[u]] = u
    BY <1>f DEF Linked
  <2>2. r.rule[u] # i
    BY <2>1 DEF n
  <2> QED
    BY <1>0, <1>f, <2>1, <2>2
<1>3. ASSUME NEW port \in Port, v.rportfwds[port] # 0
      PROVE  v.rportfwds[port] \in v.rpfs /\ Source[v.rule[v.rportfwds[port]]] = port
  <2>1. port # Source[i] /\ v.rportfwds[port] = r.rportfwds[port]
    BY <1>3, <1>f
  <2>2. r.rportfwds[port] \in r.rpfs /\ Source[r.rule[r.rportfwds[port]]] = port
    BY <1>3, <2>1 DEF Linked
  <2>3. r.rportfwds[port] # n
    BY <1>0, <2>1, <2>2
  <2> QED
    BY <1>f, <2>1, <2>2, <2>3
<1> QED
  BY <1>1, <1>2, <1>3 DEF Linked

\* They come together, too.
LEMMA AllocLinked ==
  ASSUME NEW r \in Manager, NEW v \in Manager, NEW S \in SUBSET Rule, NEW i \in Rule,
         i \notin S, Shape(r), Asked(r, v, i), r.rportfwds[Source[i]] = 0, Linked(r, S)
  PROVE  Linked(v, S \cup {i})
<1> DEFINE k == Len(r.rule)
           n == k + 1
<1>0. k \in Nat /\ n \in Nat /\ n # 0 /\ n \notin 1..k /\ r.rpfs \subseteq 1..k /\ 0 \notin r.rpfs
  BY Fields DEF Shape
<1>s. \A j \in S \cup {i} : j \in Rule /\ Source[j] \in Port
  BY Rules
<1>f. /\ v.rpfs = r.rpfs \cup {n} /\ v.rule[n] = i
      /\ \A j \in 1..k : v.rule[j] = r.rule[j]
      /\ \A j \in Rule : v.remote[j] = IF j = i THEN n ELSE r.remote[j]
      /\ \A port \in Port : v.rportfwds[port] = IF port = Source[i] THEN n
                                                ELSE r.rportfwds[port]
  BY Fields DEF Asked
<1> HIDE DEF n, k
<1>1. ASSUME NEW j \in S \cup {i}
      PROVE  /\ v.remote[j] \in v.rpfs /\ v.rule[v.remote[j]] = j
             /\ v.rportfwds[Source[j]] = v.remote[j]
  <2>1. CASE j = i
    BY <2>1, <1>f, <1>s
  <2>2. CASE j # i
    <3>1. /\ r.remote[j] \in r.rpfs /\ r.rule[r.remote[j]] = j
          /\ r.rportfwds[Source[j]] = r.remote[j]
      BY <2>2 DEF Linked
    <3>2. Source[j] # Source[i] /\ r.remote[j] \in 1..k
      BY <1>0, <3>1
    <3> QED
      BY <1>s, <1>f, <3>1, <3>2, <2>2
  <2> QED
    BY <2>1, <2>2
<1>2. ASSUME NEW u \in v.rpfs PROVE v.rule[u] \in S \cup {i} /\ v.remote[v.rule[u]] = u
  <2>1. CASE u = n
    BY <2>1, <1>f
  <2>2. CASE u # n
    <3>1. u \in r.rpfs /\ u \in 1..k /\ r.rule[u] \in S /\ r.remote[r.rule[u]] = u
      BY <2>2, <1>f, <1>0 DEF Linked
    <3> QED
      BY <1>s, <1>f, <3>1
  <2> QED
    BY <2>1, <2>2
<1>3. ASSUME NEW port \in Port, v.rportfwds[port] # 0
      PROVE  v.rportfwds[port] \in v.rpfs /\ Source[v.rule[v.rportfwds[port]]] = port
  <2>1. CASE port = Source[i]
    BY <2>1, <1>f
  <2>2. CASE port # Source[i]
    <3>1. v.rportfwds[port] = r.rportfwds[port]
      BY <2>2, <1>f
    <3>2. r.rportfwds[port] \in r.rpfs /\ Source[r.rule[r.rportfwds[port]]] = port
      BY <1>3, <3>1 DEF Linked
    <3> QED
      BY <1>0, <1>f, <3>1, <3>2
  <2> QED
    BY <2>1, <2>2
<1> QED
  BY <1>1, <1>2, <1>3 DEF Linked

\* A request lengthens the list, or is lost with those before it.
LEMMA QueuedList ==
  ASSUME NEW r \in Manager, NEW v \in Manager, NEW i \in Rule,
         Shape(r), v.rule = Append(r.rule, i), v.answers = r.answers,
         Queued(r, v), List(r)
  PROVE  /\ List(v)
         /\ Intact(r) \/ (r.rule = <<>> /\ r.tail = 0) => Intact(v)
         /\ Len(v.next) = Len(v.rule) /\ v.tail <= Len(v.rule)
         /\ v.ogrs \subseteq 1..Len(v.rule)
<1> DEFINE k == Len(r.rule)
           n == k + 1
<1>0. /\ k \in Nat /\ n \in Nat /\ Len(v.rule) = n /\ r.ogrs \subseteq 1..k
      /\ Len(r.next) = k /\ r.answers \in Nat /\ r.head \in Int /\ r.tail \in Nat
      /\ r.answers <= k
  BY Fields DEF Shape
<1>q. /\ v.head = (IF r.tail = 0 THEN n ELSE r.head) /\ v.tail = n
      /\ v.ogrs = r.ogrs \cup {n} /\ Len(v.next) = n /\ v.next[n] = -1
      /\ \A j \in 1..n - 1 : v.next[j] = IF j = r.tail /\ j \in r.ogrs THEN n ELSE r.next[j]
  BY DEF Queued
<1>e. r.rule = <<>> => k = 0
  OBVIOUS
<1> HIDE DEF n
<1>n. n = k + 1
  BY DEF n
<1> HIDE DEF k
<1>1. ASSUME Intact(r) PROVE Intact(v)
  <2>1. /\ r.head = r.answers + 1 /\ r.head <= k /\ r.tail = k /\ k # 0
        /\ \A j \in r.head..k : j \in r.ogrs
        /\ \A j \in r.head..k - 1 : r.next[j] = j + 1
    BY <1>1, <1>0, SMTT(30) DEF Intact, k
  <2>2. v.head = v.answers + 1 /\ v.head <= n /\ v.head = r.head
    BY <1>0, <1>q, <1>n, <2>1
  <2>3. ASSUME NEW j \in v.head..n PROVE j \in v.ogrs
    <3>1. j = n \/ j \in r.head..k
      BY <2>2, <1>n, <1>0
    <3> QED
      BY <3>1, <2>1, <1>q
  <2>4. ASSUME NEW j \in v.head..n - 1 PROVE v.next[j] = j + 1
    <3>0. j \in 1..n - 1 /\ j \in r.head..k /\ (j = k \/ j \in r.head..k - 1)
      BY <2>1, <2>2, <1>n, <1>0
    <3>1. CASE j = k
      BY <3>0, <3>1, <2>1, <1>q, <1>n
    <3>2. CASE j \in r.head..k - 1
      <4>1. j # k
        BY <3>2, <1>0
      <4> QED
        BY <3>0, <3>2, <4>1, <2>1, <1>q
    <3> QED
      BY <3>0, <3>1, <3>2
  <2> QED
    BY <2>2, <2>3, <2>4, <1>0, <1>q DEF Intact
<1>2. ASSUME r.rule = <<>>, r.tail = 0 PROVE Intact(v)
  <2>1. k = 0 /\ n = 1 /\ r.answers = 0 /\ v.head = 1
    BY <1>2, <1>e, <1>0, <1>n, <1>q
  <2>2. /\ \A j \in v.head..n : j \in v.ogrs
        /\ \A j \in v.head..n - 1 : v.next[j] = j + 1
    BY <2>1, <1>q
  <2> QED
    BY <2>1, <2>2, <1>0, <1>q DEF Intact
<1>3. ASSUME r.head \in {0, -1}, r.tail # 0 PROVE List(v)
  BY <1>3, <1>q, <1>0, <1>n DEF List
<1>4. \A j \in v.ogrs : j \in 1..n
  BY <1>0, <1>q, <1>n
<1> QED
  BY <1>0, <1>1, <1>2, <1>3, <1>4, <1>q DEF List

\* What is on its way concerns numbers and ports alone.
LEMMA SameWire ==
  ASSUME NEW r, NEW v, NEW p, NEW s, NEW listens,
         SameCount(r, v), v.rportfwds = r.rportfwds,
         Numbered(r, p, s), Balanced(r, p, s, listens)
  PROVE  Numbered(v, p, s) /\ Balanced(v, p, s, listens)
BY DEF Numbered, Balanced, Accounted, SameCount

\* A turn of the first loop.
LEMMA RemoveGood ==
  ASSUME NEW r, NEW S, NEW q \in Seq(Request), NEW s \in Seq(Answer), NEW listens,
         Good(r, S, q, s, listens), NEW i \in S, i \notin r.dangling
  PROVE  LET v == ssh2_rportfwd_remove(r, i) IN
         /\ Good(v, S \ {i}, q, s, listens) /\ Removed(r, v, i) /\ v.fault = r.fault
<1> DEFINE v == ssh2_rportfwd_remove(r, i)
           x == Msg("cancel", Source[i], 0)
<1>0. r \in Manager /\ Shape(r) /\ Linked(r, S) /\ List(r) /\ i \in Rule
  BY DEF Good
<1>1. /\ v \in Manager /\ Removed(r, v, i) /\ SameList(r, v)
      /\ v.fault = IF r.rportfwds[Source[i]] = r.remote[i] \/ r.fault # "none"
                   THEN r.fault ELSE "assert_realpf"
  BY <1>0, RemoveIs
<1>2. v.fault = r.fault
  BY <1>0, <1>1 DEF Linked
<1>x. x \in Request
  BY <1>0, Rules DEF Msg, Request
<1> HIDE DEF v
<1>3. Linked(v, S \ {i})
  <2>1. Unlinked(r, v, i) /\ S \in SUBSET Rule
    BY <1>1 DEF Removed, Unlinked, Good
  <2> QED
    BY <2>1, <1>0, <1>1, RemoveLinked
<1>4. Shape(v)
  <2>1. /\ v.rpfs \subseteq r.rpfs /\ v.rule = r.rule /\ v.answers = r.answers
        /\ v.forwardings = r.forwardings \ {i} /\ v.dangling = r.dangling
        /\ v.conf = r.conf /\ v.accepted = r.accepted
        /\ \A j \in Rule : v.remote[j] = 0 \/ v.remote[j] = r.remote[j]
    BY <1>0, <1>1, Fields DEF Removed
  <2>2. Len(r.rule) \in Nat /\ \A j \in Rule : r.remote[j] \in Nat
    BY <1>0, Fields
  <2>3. \A j \in Rule : v.remote[j] <= Len(v.rule)
    BY <1>0, <2>1, <2>2 DEF Shape
  <2>4. v.forwardings \subseteq v.conf /\ v.dangling \subseteq v.forwardings
    BY <1>0, <2>1 DEF Shape
  <2> QED
    BY <1>0, <1>1, <2>1, <2>3, <2>4 DEF Shape, SameList
<1>5. List(v)
  BY <1>0, <1>1 DEF List, Intact, SameList, Removed
<1>6. Numbered(v, q \o v.out, s) /\ Balanced(v, q \o v.out, s, listens)
  <2>1. r.out \in Seq(Request) /\ q \o r.out \in Seq(Request)
    BY <1>0, Fields, ConcatProperties
  <2>2. q \o v.out = Append(q \o r.out, x)
    BY <1>1, <1>x, <2>1, SentLast, SMTT(30) DEF Removed
  <2>3. Extends(q \o v.out, q \o r.out, Msg("cancel", Source[i], 0))
    BY <1>x, <2>1, <2>2, Appended
  <2> HIDE DEF x
  <2>4. /\ SameCount(r, v) /\ r.rportfwds \in [Port -> Nat] /\ Source[i] \in Port
        /\ v.rportfwds = [r.rportfwds EXCEPT ![Source[i]] = 0]
    BY <1>0, <1>1, Fields, Rules DEF Removed, SameCount
  <2>5. Numbered(r, q \o r.out, s) /\ Balanced(r, q \o r.out, s, listens)
    BY DEF Good
  <2> QED
    BY <2>1, <2>3, <2>4, <2>5, CancelWire
<1> QED
  BY <1>1, <1>2, <1>3, <1>4, <1>5, <1>6 DEF Good, v

\* A turn of the second.
LEMMA AllocGood ==
  ASSUME NEW r, NEW S, NEW q \in Seq(Request), NEW s \in Seq(Answer), NEW listens,
         Good(r, S, q, s, listens), NEW i \in Rule, i \notin S, i \in r.forwardings,
         r.rportfwds[Source[i]] = 0
  PROVE  LET v == ssh2_rportfwd_alloc(r, i) IN
         /\ Good(v, S \cup {i}, q, s, listens) /\ Asked(r, v, i) /\ SameUser(r, v)
         /\ Intact(r) \/ (r.rule = <<>> /\ r.tail = 0) => Intact(v)
<1> DEFINE v == ssh2_rportfwd_alloc(r, i)
           n == Len(r.rule) + 1
           x == Msg("forward", Source[i], n)
<1>0. r \in Manager /\ Shape(r) /\ Linked(r, S) /\ List(r) /\ S \in SUBSET Rule
  BY DEF Good
<1>1. v \in Manager /\ SameUser(r, v) /\ Asked(r, v, i) /\ Queued(r, v)
  BY <1>0, AllocIs DEF Shape
<1>x. x \in Request /\ n \in Nat
  BY <1>0, Fields, Rules DEF Msg, Request
<1> HIDE DEF v
<1>r. v.rule = Append(r.rule, i) /\ v.answers = r.answers
  BY <1>1 DEF Asked, SameUser
<1>2. /\ List(v) /\ Len(v.next) = Len(v.rule) /\ v.tail <= Len(v.rule)
      /\ v.ogrs \subseteq 1..Len(v.rule)
      /\ Intact(r) \/ (r.rule = <<>> /\ r.tail = 0) => Intact(v)
  BY <1>0, <1>1, <1>r, QueuedList
<1>3. Linked(v, S \cup {i})
  BY <1>0, <1>1, AllocLinked
<1>4. Shape(v)
  <2>1. Len(v.rule) = n /\ Len(r.rule) \in Nat /\ v.answers \in Nat
    BY <1>0, <1>1, <1>r, Fields
  <2>2. /\ v.rpfs = r.rpfs \cup {n} /\ v.forwardings = r.forwardings
        /\ v.dangling = r.dangling /\ v.conf = r.conf /\ v.accepted = r.accepted
        /\ \A j \in Rule : v.remote[j] = n \/ v.remote[j] = r.remote[j]
    BY <1>0, <1>1, Fields DEF Asked, SameUser
  <2>3. \A j \in v.rpfs : j \in 1..n
    BY <1>0, <2>1, <2>2 DEF Shape
  <2>4. \A j \in Rule : v.remote[j] <= n
    <3>1. \A j \in Rule : r.remote[j] \in Nat /\ r.remote[j] <= Len(r.rule)
      BY <1>0, Fields DEF Shape
    <3> QED
      BY <2>1, <2>2, <3>1
  <2>5. v.answers <= n
    BY <1>0, <1>r, <2>1, Fields DEF Shape
  <2> QED
    BY <1>0, <1>2, <2>1, <2>2, <2>3, <2>4, <2>5 DEF Shape
<1>6. Numbered(v, q \o v.out, s) /\ Balanced(v, q \o v.out, s, listens)
  <2>1. r.out \in Seq(Request) /\ q \o r.out \in Seq(Request)
    BY <1>0, Fields, ConcatProperties
  <2>2. q \o v.out = Append(q \o r.out, x)
    BY <1>1, <1>x, <2>1, SentLast DEF Asked
  <2>3. Extends(q \o v.out, q \o r.out, Msg("forward", Source[i], Len(r.rule) + 1))
    BY <1>x, <2>1, <2>2, Appended
  <2> HIDE DEF x
  <2>4. /\ r.rportfwds \in [Port -> Nat] /\ Source[i] \in Port
        /\ r.rule \in Seq(Rule) /\ r.answers \in Nat /\ r.answers <= Len(r.rule)
        /\ v.rportfwds = [r.rportfwds EXCEPT ![Source[i]] = Len(r.rule) + 1]
    BY <1>0, <1>1, Fields, Rules DEF Asked, Shape
  <2>5. Numbered(r, q \o r.out, s) /\ Balanced(r, q \o r.out, s, listens)
    BY DEF Good
  <2> QED
    BY <2>1, <2>3, <2>4, <2>5, <1>r, ForwardWire
<1> QED
  BY <1>0, <1>1, <1>2, <1>3, <1>4, <1>6 DEF Good, v

\* The same turn for a port that is taken.
LEMMA RefuseGood ==
  ASSUME NEW r, NEW S, NEW q, NEW s, NEW listens,
         Good(r, S, q, s, listens), NEW i \in Rule, i \in r.forwardings,
         r.rportfwds[Source[i]] # 0
  PROVE  LET v == ssh2_rportfwd_alloc(r, i) IN
         /\ Good(v, S, q, s, listens) /\ SameUser(r, v)
         /\ v.dangling = r.dangling \cup {i} /\ v.forwardings = r.forwardings
<1> DEFINE v == ssh2_rportfwd_alloc(r, i)
<1>0. r \in Manager /\ Shape(r) /\ Linked(r, S) /\ List(r) /\ S \in SUBSET Rule
  BY DEF Good
<1>1. v \in Manager /\ SameUser(r, v) /\ v = [r EXCEPT !.dangling = r.dangling \cup {i}]
  BY <1>0, AllocIs
<1> HIDE DEF v
<1>2. /\ v.dangling = r.dangling \cup {i} /\ v.forwardings = r.forwardings
      /\ SameList(r, v) /\ v.rule = r.rule /\ v.rpfs = r.rpfs /\ v.remote = r.remote
      /\ v.rportfwds = r.rportfwds /\ v.out = r.out
  BY <1>0, <1>1 DEF Manager, SameList
<1>3. Linked(v, S)
  BY <1>0, <1>2 DEF Linked
<1>4. Shape(v)
  BY <1>0, <1>1, <1>2 DEF Shape, SameUser, SameList
<1>5. List(v)
  BY <1>0, <1>1, <1>2 DEF List, Intact, SameUser, SameList
<1>6. Numbered(v, q \o v.out, s) /\ Balanced(v, q \o v.out, s, listens)
  BY <1>1, <1>2, SameWire DEF Good, SameUser, SameCount
<1> QED
  BY <1>0, <1>1, <1>2, <1>3, <1>4, <1>5, <1>6 DEF Good, v

-----------------------------------------------------------------------------
(* The loops of portfwdmgr_config.                                         *)

Turn(kind, e, i, rules) ==
  IF i \in rules
  THEN IF kind = "cancel" THEN ssh2_rportfwd_remove(e, i) ELSE ssh2_rportfwd_alloc(e, i)
  ELSE e

\* f gives the record after each turn of the loop over the first n rules.
LoopsTo(f, kind, e, rules, n) ==
  /\ f = [i \in 0..n |-> f[i]] /\ f[0] = e
  /\ \A i \in 1..n : f[i] = Turn(kind, f[i - 1], i, rules)

Loops(f, kind, e, rules) == LoopsTo(f, kind, e, rules, NRules)

\* The loop runs over all the rules.
LEMMA LoopEnds ==
  ASSUME NEW kind, NEW e, NEW rules
  PROVE  \E f : Loops(f, kind, e, rules)
<1> DEFINE T == {n \in Nat : \E f : LoopsTo(f, kind, e, rules, n)}
<1>1. 0 \in T
  <2> DEFINE f == [i \in 0..0 |-> e]
  <2>1. f = [i \in 0..0 |-> f[i]] /\ f[0] = e
    OBVIOUS
  <2> HIDE DEF f
  <2>2. LoopsTo(f, kind, e, rules, 0)
    BY <2>1 DEF LoopsTo
  <2> QED
    BY <2>2
<1>2. ASSUME NEW n \in 0..NRules, n > 0, n - 1 \in T PROVE n \in T
  <2>0. n \in Nat /\ n - 1 \in 0..n - 1 /\ n \notin 0..n - 1
    BY <1>2, Rules
  <2>1. PICK f : LoopsTo(f, kind, e, rules, n - 1)
    BY <1>2
  <2> DEFINE u == Turn(kind, f[n - 1], n, rules)
             g == [i \in 0..n |-> IF i = n THEN u ELSE f[i]]
  <2> HIDE DEF u
  <2>2. \A i \in 0..n - 1 : g[i] = f[i]
    BY <2>0
  <2>3. g[n] = u /\ g[0] = e /\ g = [i \in 0..n |-> g[i]]
    BY <2>0, <2>1, <2>2 DEF LoopsTo
  <2> HIDE DEF g
  <2>4. ASSUME NEW i \in 1..n PROVE g[i] = Turn(kind, g[i - 1], i, rules)
    <3>1. CASE i = n
      BY <3>1, <2>0, <2>2, <2>3 DEF u
    <3>2. CASE i # n
      <4>1. i \in 0..n - 1 /\ i - 1 \in 0..n - 1 /\ i \in 1..n - 1
        BY <3>2, <2>0
      <4>2. g[i] = f[i] /\ g[i - 1] = f[i - 1]
        BY <2>2, <4>1
      <4> QED
        BY <4>1, <4>2, <2>1 DEF LoopsTo
    <3> QED
      BY <3>1, <3>2
  <2>5. LoopsTo(g, kind, e, rules, n)
    BY <2>3, <2>4 DEF LoopsTo
  <2> QED
    BY <2>0, <2>5
<1> HIDE DEF T
<1>3. NRules \in T
  <2>0. NRules \in Nat /\ NRules \in 0..NRules
    BY Rules
  <2>1. \A n \in 0..NRules : n > 0 /\ n - 1 \in T => n \in T
    BY <1>2
  <2>2. \A n \in 0..NRules : n \in T
    BY <2>0, <1>1, <2>1, Reaches
  <2> QED
    BY <2>0, <2>2
<1> QED
  BY <1>3 DEF T, Loops

\* Between the two loops the new configuration is taken over.
Between(r, conf) == [r EXCEPT !.forwardings = conf, !.conf = conf, !.confs = @ + 1]

\* portfwdmgr_config is its two loops.
LEMMA ConfigIs ==
  ASSUME NEW r, NEW conf
  PROVE  \E f, g :
           /\ Loops(f, "cancel", Check(r, r.dangling = {}, "stale_pfr"), r.forwardings \ conf)
           /\ Loops(g, "alloc", Between(f[NRules], conf), conf \ r.forwardings)
           /\ portfwdmgr_config(r, conf) = g[NRules]
<1> DEFINE gone == r.forwardings \ conf
           new == conf \ r.forwardings
           e == Check(r, r.dangling = {}, "stale_pfr")
           c == CHOOSE c : c = [i \in 0..NRules |->
                   IF i = 0 THEN e
                   ELSE IF i \in gone THEN ssh2_rportfwd_remove(c[i - 1], i) ELSE c[i - 1]]
           b == Between(c[NRules], conf)
           a == CHOOSE a : a = [i \in 0..NRules |->
                   IF i = 0 THEN b
                   ELSE IF i \in new THEN ssh2_rportfwd_alloc(a[i - 1], i) ELSE a[i - 1]]
<1>0. portfwdmgr_config(r, conf) = a[NRules]
  BY DEF portfwdmgr_config, Between
<1>n. \A i \in 0..NRules : i = 0 \/ i \in 1..NRules
  BY Rules
<1>z. 0 \in 0..NRules /\ \A i \in 1..NRules : i \in 0..NRules /\ i # 0
  BY Rules
<1> HIDE DEF gone, new, e, b
<1>1. Loops(c, "cancel", e, gone)
  <2>1. PICK f : Loops(f, "cancel", e, gone)
    BY LoopEnds
  <2>2. f = [i \in 0..NRules |-> f[i]]
    BY <2>1 DEF Loops, LoopsTo
  <2>3. \A i \in 0..NRules :
           f[i] = IF i = 0 THEN e
                  ELSE IF i \in gone THEN ssh2_rportfwd_remove(f[i - 1], i) ELSE f[i - 1]
    BY <2>1, <1>n DEF Loops, LoopsTo, Turn
  <2>4. f = [i \in 0..NRules |->
                IF i = 0 THEN e
                ELSE IF i \in gone THEN ssh2_rportfwd_remove(f[i - 1], i) ELSE f[i - 1]]
    <3>1. [i \in 0..NRules |-> f[i]] = [i \in 0..NRules |->
                IF i = 0 THEN e
                ELSE IF i \in gone THEN ssh2_rportfwd_remove(f[i - 1], i) ELSE f[i - 1]]
      BY <2>3
    <3> QED
      BY <2>2, <3>1
  <2>5. c = [i \in 0..NRules |->
                IF i = 0 THEN e
                ELSE IF i \in gone THEN ssh2_rportfwd_remove(c[i - 1], i) ELSE c[i - 1]]
    BY <2>4
  <2> HIDE DEF c
  <2>6. \A i \in 0..NRules :
           c[i] = IF i = 0 THEN e
                  ELSE IF i \in gone THEN ssh2_rportfwd_remove(c[i - 1], i) ELSE c[i - 1]
    BY <2>5
  <2>7. c = [i \in 0..NRules |-> c[i]]
    BY <2>5, <2>6
  <2>8. \A i \in 1..NRules : c[i] = Turn("cancel", c[i - 1], i, gone)
    BY <2>6, <1>z DEF Turn
  <2> QED
    BY <2>6, <2>7, <2>8, <1>z DEF Loops, LoopsTo
<1>2. Loops(a, "alloc", b, new)
  <2>1. PICK f : Loops(f, "alloc", b, new)
    BY LoopEnds
  <2>2. f = [i \in 0..NRules |-> f[i]]
    BY <2>1 DEF Loops, LoopsTo
  <2>3. \A i \in 0..NRules :
           f[i] = IF i = 0 THEN b
                  ELSE IF i \in new THEN ssh2_rportfwd_alloc(f[i - 1], i) ELSE f[i - 1]
    BY <2>1, <1>n DEF Loops, LoopsTo, Turn
  <2>4. f = [i \in 0..NRules |->
                IF i = 0 THEN b
                ELSE IF i \in new THEN ssh2_rportfwd_alloc(f[i - 1], i) ELSE f[i - 1]]
    <3>1. [i \in 0..NRules |-> f[i]] = [i \in 0..NRules |->
                IF i = 0 THEN b
                ELSE IF i \in new THEN ssh2_rportfwd_alloc(f[i - 1], i) ELSE f[i - 1]]
      BY <2>3
    <3> QED
      BY <2>2, <3>1
  <2>5. a = [i \in 0..NRules |->
                IF i = 0 THEN b
                ELSE IF i \in new THEN ssh2_rportfwd_alloc(a[i - 1], i) ELSE a[i - 1]]
    BY <2>4
  <2> HIDE DEF a
  <2>6. \A i \in 0..NRules :
           a[i] = IF i = 0 THEN b
                  ELSE IF i \in new THEN ssh2_rportfwd_alloc(a[i - 1], i) ELSE a[i - 1]
    BY <2>5
  <2>7. a = [i \in 0..NRules |-> a[i]]
    BY <2>5, <2>6
  <2>8. \A i \in 1..NRules : a[i] = Turn("alloc", a[i - 1], i, new)
    BY <2>6, <1>z DEF Turn
  <2> QED
    BY <2>6, <2>7, <2>8, <1>z DEF Loops, LoopsTo
<1> QED
  BY <1>0, <1>1, <1>2 DEF e, gone, new, b

\* The forwardings that remain after the first loop has come to rule i.
Left(r, i, conf) == {j \in r.forwardings : j \in conf \/ j > i}

\* What holds of the record e when the first loop has come to rule i.
HalfCancelled(r, e, i, conf, q, s, listens) ==
  /\ Good(e, Left(r, i, conf), q, s, listens)
  /\ e.forwardings = Left(r, i, conf) /\ e.dangling = {} /\ e.rule = r.rule
  /\ SameUser(r, e)
  /\ r.forwardings \subseteq conf => e = r

\* The first loop cancels what is gone and keeps the invariant.
LEMMA FirstLoop ==
  ASSUME NEW r, NEW q \in Seq(Request), NEW s \in Seq(Answer), NEW listens, NEW conf,
         Good(r, r.forwardings, q, s, listens), r.dangling = {},
         NEW f, Loops(f, "cancel", r, r.forwardings \ conf)
  PROVE  HalfCancelled(r, f[NRules], NRules, conf, q, s, listens)
<1> DEFINE gone == r.forwardings \ conf
           T == {i \in 0..NRules : HalfCancelled(r, f[i], i, conf, q, s, listens)}
<1>0. /\ NRules \in Nat /\ r \in Manager /\ f[0] = r
      /\ \A i \in 1..NRules : f[i] = Turn("cancel", f[i - 1], i, gone)
      /\ \A j \in r.forwardings : j \in 1..NRules
  <2>1. r \in Manager
    BY DEF Good
  <2>2. r.forwardings \in SUBSET Rule
    BY <2>1, Fields
  <2> QED
    BY <2>1, <2>2, Rules DEF Loops, LoopsTo
<1>1. 0 \in T
  <2>1. Left(r, 0, conf) = r.forwardings
    BY <1>0 DEF Left
  <2>2. HalfCancelled(r, f[0], 0, conf, q, s, listens)
    BY <2>1, <1>0 DEF HalfCancelled, SameUser
  <2> QED
    BY <2>2, <1>0
<1>2. ASSUME NEW i \in 0..NRules, i > 0, i - 1 \in T PROVE i \in T
  <2>0. i \in 1..NRules /\ i \in Nat /\ i \in Rule
    BY <1>0, <1>2 DEF Rule
  <2> DEFINE e == f[i - 1]
             v == f[i]
             old == Left(r, i - 1, conf)
             new == Left(r, i, conf)
  <2>1. HalfCancelled(r, e, i - 1, conf, q, s, listens)
    BY <1>2
  <2>2. v = Turn("cancel", e, i, gone)
    BY <1>0, <2>0
  <2>3. new = old \ (IF i \in gone THEN {i} ELSE {})
    <3>1. \A j \in r.forwardings : j > i - 1 <=> j = i \/ j > i
      BY <1>0, <2>0
    <3> QED
      BY <3>1 DEF Left
  <2>4. i \in gone => i \in old
    BY <2>0 DEF Left
  <2> HIDE DEF e, v, old, new
  <2>5. HalfCancelled(r, v, i, conf, q, s, listens)
    <3>1. CASE i \in gone
      <4>0. /\ Good(e, old, q, s, listens) /\ e.forwardings = old /\ e.dangling = {}
            /\ e.rule = r.rule /\ SameUser(r, e)
        BY <2>1 DEF HalfCancelled, old
      <4>1. v = ssh2_rportfwd_remove(e, i)
        BY <3>1, <2>2 DEF Turn
      <4>2. Good(v, old \ {i}, q, s, listens) /\ Removed(e, v, i) /\ v.fault = e.fault
        BY <3>1, <4>0, <4>1, <2>4, RemoveGood
      <4>3. new = old \ {i}
        BY <3>1, <2>3
      <4>4. ~(r.forwardings \subseteq conf)
        BY <3>1
      <4>5. SameUser(r, v) /\ v.forwardings = new /\ v.dangling = {} /\ v.rule = r.rule
        BY <4>0, <4>2, <4>3 DEF Removed, SameUser
      <4> QED
        BY <4>2, <4>3, <4>4, <4>5 DEF HalfCancelled, new
    <3>2. CASE i \notin gone
      <4>1. v = e /\ new = old
        BY <3>2, <2>2, <2>3 DEF Turn
      <4> QED
        BY <4>1, <2>1 DEF HalfCancelled, old, new
    <3> QED
      BY <3>1, <3>2
  <2> QED
    BY <2>5 DEF v
<1> HIDE DEF T
<1>3. \A i \in 0..NRules : i \in T
  <2>1. \A i \in 0..NRules : i > 0 /\ i - 1 \in T => i \in T
    BY <1>2
  <2> QED
    BY <1>0, <1>1, <2>1, Reaches
<1> QED
  BY <1>0, <1>3 DEF T

\* Each port is asked for by one rule of conf.
Distinct(conf) == \A i, j \in conf : Source[i] = Source[j] => i = j

\* The rules dealt with when the second loop has come to rule i.
Dealt(S, i, conf) == {j \in conf : j \in S \/ j <= i}

\* What holds of the record e when the second loop has come to rule i.
HalfAsked(b, e, S, i, conf, q, s, listens) ==
  /\ Good(e, Dealt(S, i, conf) \ e.dangling, q, s, listens)
  /\ e.forwardings = conf /\ SameUser(b, e)
  /\ e.dangling \subseteq Dealt(S, i, conf) \ S
  /\ conf \subseteq S => e = b
  /\ Smooth(b) /\ Distinct(conf) /\ b.answers = 0 => Smooth(e)

\* A gentle user's request is made, and linked in.
LEMMA AllocSmooth ==
  ASSUME NEW e \in Manager, NEW v \in Manager, NEW i \in Rule, Shape(e), Smooth(e),
         Asked(e, v, i), SameUser(e, v), e.answers = 0,
         Intact(e) \/ (e.rule = <<>> /\ e.tail = 0) => Intact(v)
  PROVE  Smooth(v)
<1> DEFINE k == Len(e.rule)
<1>0. /\ k \in Nat /\ e.tail \in Nat /\ e.tail <= k /\ v.answers = 0 /\ Len(v.rule) = k + 1
      /\ v.rpfs = e.rpfs \cup {k + 1} /\ v.dangling = {}
      /\ e.rule = <<>> <=> k = 0
  BY Fields DEF Shape, Smooth, Asked, SameUser
<1>1. Intact(v)
  <2>1. CASE k = 0
    BY <2>1, <1>0
  <2>2. CASE k # 0
    <3>1. e.answers < k
      BY <2>2, <1>0
    <3> QED
      BY <3>1 DEF Smooth
  <2> QED
    BY <2>1, <2>2
<1>2. \A n \in e.answers + 1..k : n \in e.rpfs
  BY DEF Smooth
<1> HIDE DEF k
<1>3. \A n \in v.answers + 1..Len(v.rule) : n \in v.rpfs
  <2> SUFFICES ASSUME NEW n \in 1..k + 1 PROVE n \in v.rpfs
    BY <1>0
  <2>1. n = k + 1 \/ n \in e.answers + 1..k
    BY <1>0
  <2> QED
    BY <2>1, <1>0, <1>2
<1> QED
  BY <1>0, <1>1, <1>3 DEF Smooth

\* No rule of a gentle user is refused.
LEMMA NoRefusal ==
  ASSUME NEW e \in Manager, NEW S, Linked(e, S), NEW conf, S \subseteq conf, Distinct(conf),
         NEW i \in Rule, i \in conf, i \notin S
  PROVE  e.rportfwds[Source[i]] = 0
<1> SUFFICES ASSUME e.rportfwds[Source[i]] # 0 PROVE FALSE
  OBVIOUS
<1> DEFINE n == e.rportfwds[Source[i]]
<1>1. n \in e.rpfs /\ Source[e.rule[n]] = Source[i]
  BY Rules DEF Linked
<1>2. e.rule[n] \in S
  BY <1>1 DEF Linked
<1> QED
  BY <1>1, <1>2 DEF Distinct

\* The second loop asks for what is new and keeps the invariant.
LEMMA SecondLoop ==
  ASSUME NEW b, NEW q \in Seq(Request), NEW s \in Seq(Answer), NEW listens,
         NEW conf \in SUBSET Rule, NEW S \in SUBSET conf,
         Good(b, S, q, s, listens), b.dangling = {}, b.forwardings = conf,
         NEW g, Loops(g, "alloc", b, conf \ S)
  PROVE  HalfAsked(b, g[NRules], S, NRules, conf, q, s, listens)
<1> DEFINE more == conf \ S
           T == {i \in 0..NRules : HalfAsked(b, g[i], S, i, conf, q, s, listens)}
<1>0. /\ NRules \in Nat /\ b \in Manager /\ g[0] = b
      /\ \A i \in 1..NRules : g[i] = Turn("alloc", g[i - 1], i, more)
      /\ \A j \in conf : j \in 1..NRules
  BY Rules DEF Loops, LoopsTo, Good
<1>1. 0 \in T
  <2>1. Dealt(S, 0, conf) = S
    BY <1>0 DEF Dealt
  <2>2. HalfAsked(b, g[0], S, 0, conf, q, s, listens)
    <3>1. S \ b.dangling = S
      OBVIOUS
    <3> QED
      BY <2>1, <3>1, <1>0 DEF HalfAsked, SameUser
  <2> QED
    BY <2>2, <1>0
<1>2. ASSUME NEW i \in 0..NRules, i > 0, i - 1 \in T PROVE i \in T
  <2>0. i \in 1..NRules /\ i \in Nat /\ i \in Rule
    BY <1>0, <1>2 DEF Rule
  <2> DEFINE e == g[i - 1]
             v == g[i]
             old == Dealt(S, i - 1, conf)
             new == Dealt(S, i, conf)
  <2>1. HalfAsked(b, e, S, i - 1, conf, q, s, listens)
    BY <1>2
  <2>2. v = Turn("alloc", e, i, more)
    BY <1>0, <2>0
  <2>3. new = old \cup (IF i \in more THEN {i} ELSE {})
    <3>1. \A j \in conf : j <= i <=> j = i \/ j <= i - 1
      BY <1>0, <2>0
    <3> QED
      BY <3>1 DEF Dealt
  <2>4. old \subseteq conf /\ (i \in more => i \notin old /\ i \in conf /\ i \notin S)
    <3>1. ~(i <= i - 1)
      BY <2>0
    <3> QED
      BY <3>1 DEF Dealt
  <2> HIDE DEF e, v, old, new
  <2>5. /\ Good(e, old \ e.dangling, q, s, listens) /\ e.forwardings = conf /\ SameUser(b, e)
        /\ e.dangling \subseteq old \ S
        /\ conf \subseteq S => e = b
        /\ Smooth(b) /\ Distinct(conf) /\ b.answers = 0 => Smooth(e)
    BY <2>1 DEF HalfAsked, old
  <2>6. HalfAsked(b, v, S, i, conf, q, s, listens)
    <3>1. CASE i \notin more
      <4>1. v = e /\ new = old
        BY <3>1, <2>2, <2>3 DEF Turn
      <4> QED
        BY <4>1, <2>1 DEF HalfAsked, old, new
    <3>2. CASE i \in more /\ e.rportfwds[Source[i]] = 0
      <4>1. v = ssh2_rportfwd_alloc(e, i)
        BY <3>2, <2>2 DEF Turn
      <4>2. i \notin old \ e.dangling /\ i \in e.forwardings
        BY <3>2, <2>4, <2>5
      <4>3. /\ Good(v, (old \ e.dangling) \cup {i}, q, s, listens) /\ Asked(e, v, i)
            /\ SameUser(e, v)
            /\ Intact(e) \/ (e.rule = <<>> /\ e.tail = 0) => Intact(v)
        BY <3>2, <4>1, <4>2, <2>0, <2>5, AllocGood
      <4>4. v.dangling = e.dangling /\ v.forwardings = conf /\ i \notin e.dangling
        BY <4>3, <2>4, <2>5, <3>2 DEF Asked
      <4>5. (old \ e.dangling) \cup {i} = new \ v.dangling
        BY <2>3, <3>2, <4>4
      <4>6. ASSUME Smooth(e), e.answers = 0 PROVE Smooth(v)
        BY <4>3, <4>6, <2>0, <2>5, AllocSmooth DEF Good
      <4>7. e.answers = b.answers /\ SameUser(b, v)
        BY <2>5, <4>3 DEF SameUser
      <4>8. v.dangling \subseteq new \ S /\ ~(conf \subseteq S)
        BY <2>3, <2>4, <2>5, <3>2, <4>4
      <4>9. Good(v, new \ v.dangling, q, s, listens)
        BY <4>3, <4>5
      <4> QED
        BY <2>5, <4>4, <4>6, <4>7, <4>8, <4>9 DEF HalfAsked, new
    <3>3. CASE i \in more /\ e.rportfwds[Source[i]] # 0
      <4>1. v = ssh2_rportfwd_alloc(e, i)
        BY <3>3, <2>2 DEF Turn
      <4>2. /\ Good(v, old \ e.dangling, q, s, listens) /\ SameUser(e, v)
            /\ v.dangling = e.dangling \cup {i} /\ v.forwardings = e.forwardings
        BY <3>3, <4>1, <2>0, <2>4, <2>5, RefuseGood
      <4>3. old \ e.dangling = new \ v.dangling
        BY <2>3, <2>4, <3>3, <4>2
      <4>4. ~(Smooth(b) /\ Distinct(conf) /\ b.answers = 0)
        <5> SUFFICES ASSUME Smooth(e), Distinct(conf) PROVE FALSE
          BY <2>5
        <5>1. Linked(e, old \ e.dangling) /\ e \in Manager
          BY <2>5 DEF Good
        <5>2. old \ e.dangling \subseteq conf /\ i \notin old \ e.dangling /\ i \in conf
          BY <3>3, <2>4
        <5> QED
          BY <5>1, <5>2, <3>3, <2>0, NoRefusal
      <4>5. v.dangling \subseteq new \ S /\ ~(conf \subseteq S)
        BY <2>3, <2>4, <2>5, <3>3, <4>2
      <4>6. SameUser(b, v) /\ v.forwardings = conf
        BY <2>5, <4>2 DEF SameUser
      <4>7. Good(v, new \ v.dangling, q, s, listens)
        BY <4>2, <4>3
      <4> QED
        BY <4>4, <4>5, <4>6, <4>7 DEF HalfAsked, new
    <3> QED
      BY <3>1, <3>2, <3>3
  <2> QED
    BY <2>6 DEF v
<1> HIDE DEF T
<1>3. \A i \in 0..NRules : i \in T
  <2>1. \A i \in 0..NRules : i > 0 /\ i - 1 \in T => i \in T
    BY <1>2
  <2> QED
    BY <1>0, <1>1, <2>1, Reaches
<1> QED
  BY <1>0, <1>3 DEF T

\* What taking over the configuration does to the record.
Adopted(u, b, conf) ==
  /\ SameList(u, b) /\ SameCount(u, b) /\ b.rportfwds = u.rportfwds
  /\ b.rpfs = u.rpfs /\ b.remote = u.remote /\ b.out = u.out /\ b.dangling = u.dangling
  /\ b.forwardings = conf /\ b.conf = conf /\ b.accepted = u.accepted
  /\ b.fault = u.fault /\ b.gentle = u.gentle

\* Between does this.
LEMMA BetweenIs ==
  ASSUME NEW u \in Manager, NEW conf \in SUBSET Rule
  PROVE  Between(u, conf) \in Manager /\ Adopted(u, Between(u, conf), conf)
<1> DEFINE k == u.confs + 1
           b == Between(u, conf)
<1>1. k \in Nat
  BY Fields
<1>2. b = [u EXCEPT !.forwardings = conf, !.conf = conf, !.confs = k]
  BY DEF Between
<1> HIDE DEF k, b
<1>3. b \in Manager
  BY <1>1, <1>2 DEF Manager
<1>4. Adopted(u, b, conf)
  BY <1>2 DEF Manager, Adopted, SameList, SameCount
<1> QED
  BY <1>3, <1>4 DEF b

\* Taking over the configuration changes none of this.
LEMMA BetweenGood ==
  ASSUME NEW u, NEW S, NEW q, NEW s, NEW listens, NEW conf \in SUBSET Rule, S \subseteq conf,
         Good(u, S, q, s, listens), u.dangling = {}
  PROVE  LET b == Between(u, conf) IN
         /\ Good(b, S, q, s, listens) /\ b.dangling = {} /\ b.forwardings = conf
         /\ b.answers = u.answers /\ b.fault = u.fault /\ b.gentle = u.gentle
         /\ b.accepted = u.accepted
         /\ Smooth(u) => Smooth(b)
<1> DEFINE b == Between(u, conf)
<1>0. u \in Manager /\ Shape(u) /\ Linked(u, S) /\ List(u)
  BY DEF Good
<1>1. /\ b \in Manager /\ SameList(u, b) /\ SameCount(u, b) /\ b.rportfwds = u.rportfwds
      /\ b.rpfs = u.rpfs /\ b.remote = u.remote /\ b.out = u.out /\ b.dangling = {}
      /\ b.forwardings = conf /\ b.conf = conf /\ b.accepted = u.accepted
      /\ b.fault = u.fault /\ b.gentle = u.gentle
  BY <1>0, BetweenIs DEF Adopted
<1> HIDE DEF b
<1>2. Shape(b) /\ Linked(b, S)
  BY <1>0, <1>1 DEF Shape, Linked, SameList, SameCount
<1>3. List(b) /\ (Intact(u) => Intact(b))
  BY <1>0, <1>1 DEF List, Intact, SameList, SameCount
<1>4. Numbered(b, q \o b.out, s) /\ Balanced(b, q \o b.out, s, listens)
  BY <1>1, SameWire DEF Good
<1>5. Smooth(u) => Smooth(b)
  BY <1>1, <1>3 DEF Smooth, SameCount
<1> QED
  BY <1>1, <1>2, <1>3, <1>4, <1>5 DEF Good, SameCount, b

\* What a gentle user may do in the state r.
GentleStep(r, conf) ==
  /\ conf \subseteq r.forwardings \/ r.answers = 0
  /\ r.forwardings \subseteq conf \/ r.answers >= Len(r.rule)
  /\ Distinct(conf)

\* With no record freed in its tree, portfwdmgr_config keeps the invariant.
LEMMA ConfigGood ==
  ASSUME NEW r, NEW q \in Seq(Request), NEW s \in Seq(Answer), NEW listens,
         NEW conf \in SUBSET Rule,
         Good(r, r.forwardings, q, s, listens), r.dangling = {}
  PROVE  LET v == portfwdmgr_config(r, conf) IN
         /\ Good(v, Sound(v), q, s, listens) /\ v.fault = r.fault /\ v.gentle = r.gentle
         /\ v.accepted = r.accepted
         /\ Smooth(r) /\ GentleStep(r, conf) => Smooth(v)
<1> DEFINE S == r.forwardings \cap conf
           v == portfwdmgr_config(r, conf)
<1>1. PICK f, g :
           /\ Loops(f, "cancel", Check(r, r.dangling = {}, "stale_pfr"), r.forwardings \ conf)
           /\ Loops(g, "alloc", Between(f[NRules], conf), conf \ r.forwardings)
           /\ portfwdmgr_config(r, conf) = g[NRules]
  BY ConfigIs
<1> DEFINE u == f[NRules]
           b == Between(u, conf)
<1>2. Loops(f, "cancel", r, r.forwardings \ conf) /\ conf \ r.forwardings = conf \ S
  BY <1>1 DEF Check
<1>3. Loops(g, "alloc", b, conf \ S) /\ v = g[NRules]
  BY <1>1, <1>2
<1> HIDE DEF v
<1>n. /\ \A j \in Rule : j <= NRules /\ ~(j > NRules)
      /\ r \in Manager /\ r.forwardings \in SUBSET Rule
  <2>1. r \in Manager
    BY DEF Good
  <2> QED
    BY <2>1, Rules, Fields
<1>4. /\ Good(u, S, q, s, listens) /\ u.dangling = {} /\ u.rule = r.rule /\ SameUser(r, u)
      /\ r.forwardings \subseteq conf => u = r
  <2>1. HalfCancelled(r, u, NRules, conf, q, s, listens)
    BY <1>2, FirstLoop
  <2>2. Left(r, NRules, conf) = S
    BY <1>n DEF Left
  <2> QED
    BY <2>1, <2>2 DEF HalfCancelled
<1>5. ASSUME Smooth(r), GentleStep(r, conf) PROVE Smooth(u)
  <2>1. CASE r.forwardings \subseteq conf
    BY <2>1, <1>4, <1>5
  <2>2. CASE r.answers >= Len(r.rule)
    <3>1. u.answers >= Len(u.rule) /\ u.answers \in Nat /\ Len(u.rule) \in Nat
      BY <2>2, <1>4, <1>n, Fields DEF SameUser
    <3>2. /\ ~(u.answers < Len(u.rule))
          /\ \A j \in u.answers + 1..Len(u.rule) : j \in u.rpfs
      BY <3>1
    <3> QED
      BY <3>2, <1>4 DEF Smooth
  <2> QED
    BY <1>5, <2>1, <2>2 DEF GentleStep
<1> HIDE DEF u
<1>6. /\ Good(b, S, q, s, listens) /\ b.dangling = {} /\ b.forwardings = conf
      /\ b.answers = u.answers /\ b.fault = u.fault /\ b.gentle = u.gentle
      /\ b.accepted = u.accepted
      /\ Smooth(u) => Smooth(b)
  <2>1. S \subseteq conf
    OBVIOUS
  <2> HIDE DEF S
  <2> QED
    BY <1>4, <2>1, BetweenGood
<1> HIDE DEF b
<1>7. HalfAsked(b, v, S, NRules, conf, q, s, listens)
  <2>1. S \in SUBSET conf
    OBVIOUS
  <2> HIDE DEF S
  <2> QED
    BY <1>3, <1>6, <2>1, SecondLoop
<1>8. Dealt(S, NRules, conf) = conf
  BY <1>n DEF Dealt
<1>9. /\ Good(v, Sound(v), q, s, listens) /\ SameUser(b, v)
      /\ conf \subseteq S => v = b
      /\ Smooth(b) /\ Distinct(conf) /\ b.answers = 0 => Smooth(v)
  <2> HIDE DEF S
  <2> QED
    BY <1>7, <1>8 DEF HalfAsked, Sound
<1>a. /\ v.fault = r.fault /\ v.gentle = r.gentle /\ b.answers = r.answers
      /\ v.accepted = r.accepted
  BY <1>4, <1>6, <1>9 DEF SameUser
<1>b. ASSUME Smooth(r), GentleStep(r, conf) PROVE Smooth(v)
  <2>1. Smooth(b)
    BY <1>5, <1>6, <1>b
  <2> QED
    BY <2>1, <1>9, <1>a, <1>b DEF GentleStep
<1> QED
  BY <1>9, <1>a, <1>b DEF v

\* With one, it fails.
LEMMA ConfigFaults ==
  ASSUME NEW r \in Manager, NEW conf \in SUBSET Rule, r.dangling # {}
  PROVE  LET v == portfwdmgr_config(r, conf) IN
         /\ v.gentle = r.gentle /\ v.fault # "none"
         /\ v.fault \in {"assert_realpf", "stale_rpf", "stale_pfr", "proto_error",
                         "wild_pointer"}
<1> DEFINE c == Check(r, r.dangling = {}, "stale_pfr")
           F == {e \in Manager : e.gentle = r.gentle /\ e.fault # "none"}
<1>1. PICK f, g :
           /\ Loops(f, "cancel", c, r.forwardings \ conf)
           /\ Loops(g, "alloc", Between(f[NRules], conf), conf \ r.forwardings)
           /\ portfwdmgr_config(r, conf) = g[NRules]
  BY ConfigIs
<1>2. c \in F
  BY DEF Check, Manager
<1>3. ASSUME NEW e \in F, NEW i \in Rule
      PROVE  ssh2_rportfwd_remove(e, i) \in F /\ ssh2_rportfwd_alloc(e, i) \in F
  <2>1. ssh2_rportfwd_remove(e, i) \in F
    <3> DEFINE v == ssh2_rportfwd_remove(e, i)
    <3>1. /\ v \in Manager /\ Removed(e, v, i)
          /\ v.fault = IF e.rportfwds[Source[i]] = e.remote[i] \/ e.fault # "none"
                       THEN e.fault ELSE "assert_realpf"
      BY RemoveIs
    <3> HIDE DEF v
    <3>2. v \in F
      BY <3>1 DEF Removed
    <3> QED
      BY <3>2 DEF v
  <2>2. ssh2_rportfwd_alloc(e, i) \in F
    <3> DEFINE v == ssh2_rportfwd_alloc(e, i)
    <3>1. v \in Manager /\ SameUser(e, v)
      BY AllocIs
    <3> HIDE DEF v
    <3>2. v \in F
      BY <3>1 DEF SameUser
    <3> QED
      BY <3>2 DEF v
  <2> QED
    BY <2>1, <2>2
<1> HIDE DEF F, c
<1>4. ASSUME NEW h, NEW kind, NEW e \in F, NEW rules, Loops(h, kind, e, rules),
             rules \subseteq Rule
      PROVE  h[NRules] \in F
  <2> DEFINE T == {i \in 0..NRules : h[i] \in F}
  <2>1. /\ NRules \in Nat /\ h[0] = e
        /\ \A i \in 1..NRules : h[i] = Turn(kind, h[i - 1], i, rules)
    BY <1>4, Rules DEF Loops, LoopsTo
  <2>2. ASSUME NEW i \in 0..NRules, i > 0, i - 1 \in T PROVE i \in T
    <3>1. i \in 1..NRules /\ h[i - 1] \in F
      BY <2>1, <2>2
    <3>2. h[i] = Turn(kind, h[i - 1], i, rules)
      BY <2>1, <3>1
    <3>3. Turn(kind, h[i - 1], i, rules) \in F
      BY <1>3, <1>4, <3>1 DEF Turn
    <3> QED
      BY <3>2, <3>3
  <2>3. 0 \in T
    BY <2>1
  <2> HIDE DEF T
  <2>4. \A i \in 0..NRules : i > 0 /\ i - 1 \in T => i \in T
    BY <2>2
  <2>5. \A i \in 0..NRules : i \in T
    BY <2>1, <2>3, <2>4, Reaches
  <2> QED
    BY <2>1, <2>5 DEF T
<1>5. r.forwardings \in SUBSET Rule
  BY Fields
<1>6. f[NRules] \in F
  <2>1. r.forwardings \ conf \subseteq Rule
    BY <1>5
  <2> QED
    BY <1>1, <1>2, <1>4, <2>1
<1>7. Between(f[NRules], conf) \in F
  <2>1. f[NRules] \in Manager
    BY <1>6 DEF F
  <2>2. /\ Between(f[NRules], conf) \in Manager
        /\ Adopted(f[NRules], Between(f[NRules], conf), conf)
    BY <2>1, BetweenIs
  <2> QED
    BY <1>6, <2>2 DEF F, Adopted
<1>8. g[NRules] \in F
  <2>1. conf \ r.forwardings \subseteq Rule
    OBVIOUS
  <2> QED
    BY <1>1, <1>4, <1>7, <2>1
<1>9. \A e \in F : e.fault \in {"assert_realpf", "stale_rpf", "stale_pfr", "proto_error",
                                "wild_pointer"}
  BY DEF F, Manager
<1> QED
  BY <1>1, <1>8, <1>9 DEF F

-----------------------------------------------------------------------------
(* The steps.                                                              *)

Faults == {"assert_realpf", "stale_rpf", "stale_pfr", "proto_error", "wild_pointer"}

\* What Running and the properties see of a record.
LEMMA OnlyOut ==
  ASSUME NEW r \in Manager
  PROVE  LET v == [r EXCEPT !.out = <<>>] IN
         /\ v \in Manager /\ v.out = <<>> /\ v.fault = r.fault /\ v.gentle = r.gentle
         /\ v.accepted = r.accepted
         /\ Shape(r) => Shape(v)
         /\ Linked(r, Sound(r)) => Linked(v, Sound(v))
         /\ List(r) => List(v)
         /\ Smooth(r) => Smooth(v)
         /\ SameCount(r, v) /\ v.rportfwds = r.rportfwds
<1> DEFINE v == [r EXCEPT !.out = <<>>]
<1>0. <<>> \in Seq(Request)
  OBVIOUS
<1>1. v \in Manager /\ SameList(r, v) /\ v.out = <<>>
  BY <1>0 DEF Manager, SameList
<1>2. /\ v.rpfs = r.rpfs /\ v.remote = r.remote /\ v.rportfwds = r.rportfwds
      /\ v.forwardings = r.forwardings /\ v.dangling = r.dangling /\ v.conf = r.conf
      /\ v.accepted = r.accepted /\ v.fault = r.fault /\ v.gentle = r.gentle
      /\ v.rule = r.rule /\ v.answers = r.answers
  BY DEF Manager
<1> HIDE DEF v
<1>3. Shape(r) => Shape(v)
  BY <1>1, <1>2 DEF Shape, SameList
<1>4. Linked(r, Sound(r)) => Linked(v, Sound(v))
  BY <1>1, <1>2 DEF Linked, Sound
<1>5. Intact(r) => Intact(v)
  BY <1>1, <1>2 DEF Intact, SameList
<1>6. List(r) => List(v)
  BY <1>1, <1>2, <1>5 DEF List, SameList
<1>7. Smooth(r) => Smooth(v)
  BY <1>2, <1>5 DEF Smooth
<1> QED
  BY <1>1, <1>2, <1>3, <1>4, <1>6, <1>7 DEF SameCount, v

\* A step that succeeds keeps the invariant if the record it makes has it.
LEMMA StepGood ==
  ASSUME IndInv, NEW r, NEW L, Good(r, Sound(r), c2s, s2c', L), r.fault = "none",
         r.gentle => Smooth(r), Step(r),
         s2c' \in Seq(Answer), srv' \in [listens : SUBSET Port, opens : Nat],
         srv'.listens = L
  PROVE  IndInv' /\ m'.accepted = r.accepted
<1> DEFINE v == [r EXCEPT !.out = <<>>]
<1>1. m' = v /\ c2s' = c2s \o r.out
  BY DEF Step
<1>2. /\ r \in Manager /\ Shape(r) /\ Linked(r, Sound(r)) /\ List(r)
      /\ Numbered(r, c2s \o r.out, s2c') /\ Balanced(r, c2s \o r.out, s2c', L)
  BY DEF Good
<1>3. /\ v \in Manager /\ v.out = <<>> /\ v.fault = r.fault /\ v.gentle = r.gentle
      /\ Shape(v) /\ Linked(v, Sound(v)) /\ List(v) /\ (Smooth(r) => Smooth(v))
      /\ SameCount(r, v) /\ v.rportfwds = r.rportfwds /\ v.accepted = r.accepted
  BY <1>2, OnlyOut
<1> HIDE DEF v
<1>4. Numbered(v, c2s \o r.out, s2c') /\ Balanced(v, c2s \o r.out, s2c', L)
  BY <1>2, <1>3, SameWire
<1>5. c2s \o r.out \in Seq(Request)
  BY <1>2, Fields, ConcatProperties DEF IndInv
<1> QED
  BY <1>1, <1>3, <1>4, <1>5 DEF IndInv, Running

\* A step that fails stops PuTTY as it is, if the user was not gentle.
LEMMA StepFails ==
  ASSUME IndInv, NEW r, r.fault \in Faults, r.gentle = FALSE, Step(r),
         s2c' \in Seq(Answer), UNCHANGED srv
  PROVE  IndInv' /\ m'.accepted = m.accepted
<1> DEFINE v == [m EXCEPT !.fault = r.fault, !.gentle = r.gentle]
<1>0. r.fault # "none"
  BY DEF Faults
<1>1. m' = v /\ c2s' = c2s
  BY <1>0 DEF Step
<1>2. m \in Manager /\ m.out = <<>> /\ Shape(m) /\ Linked(m, Sound(m))
  BY DEF IndInv
<1>3. v \in Manager /\ SameList(m, v) /\ v.out = <<>>
  BY <1>2 DEF Manager, SameList, Faults
<1>4. /\ v.rpfs = m.rpfs /\ v.remote = m.remote /\ v.rportfwds = m.rportfwds
      /\ v.forwardings = m.forwardings /\ v.dangling = m.dangling /\ v.conf = m.conf
      /\ v.accepted = m.accepted /\ v.fault = r.fault /\ v.gentle = FALSE
      /\ v.rule = m.rule /\ v.answers = m.answers
  BY <1>2 DEF Manager
<1> HIDE DEF v
<1>5. Shape(v)
  BY <1>2, <1>3, <1>4 DEF Shape, SameList
<1>6. Linked(v, Sound(v))
  BY <1>2, <1>3, <1>4 DEF Linked, Sound
<1> QED
  BY <1>0, <1>1, <1>3, <1>4, <1>5, <1>6 DEF IndInv, Running

\* The record before a step has the invariant.
LEMMA Before ==
  ASSUME IndInv, Running
  PROVE  Good(m, Sound(m), c2s, s2c, srv.listens)
<1>1. c2s \o m.out = c2s
  BY EmptySeq, ConcatEmptySeq DEF IndInv
<1>2. Sound(m) \subseteq Rule
  BY Fields DEF IndInv, Sound
<1> QED
  BY <1>1, <1>2 DEF IndInv, Good

\* The user changes the configuration.
LEMMA ReconfigureKeeps ==
  ASSUME IndInv, Reconfigure
  PROVE  IndInv' /\ m'.accepted = m.accepted
<1>1. PICK conf \in SUBSET Rule :
         Step(portfwdmgr_config([m EXCEPT !.gentle = @ /\ GentleChange(conf)], conf))
  BY DEF Reconfigure
<1> DEFINE g == m.gentle /\ GentleChange(conf)
           r == [m EXCEPT !.gentle = g]
           v == portfwdmgr_config(r, conf)
<1>2. Step(v) /\ Running /\ s2c' = s2c /\ srv' = srv
  BY <1>1 DEF Reconfigure, Step
<1>3. /\ m \in Manager /\ s2c \in Seq(Answer) /\ c2s \in Seq(Request)
      /\ srv \in [listens : SUBSET Port, opens : Nat] /\ m.gentle \in BOOLEAN
      /\ m.gentle => Smooth(m)
  BY <1>2, Fields DEF IndInv
<1>4. g \in BOOLEAN
  BY <1>3, Fields
<1> HIDE DEF g
<1>5. /\ r \in Manager /\ SameList(m, r) /\ r.gentle = g /\ r.fault = "none"
      /\ r.rpfs = m.rpfs /\ r.remote = m.remote /\ r.rportfwds = m.rportfwds
      /\ r.forwardings = m.forwardings /\ r.dangling = m.dangling /\ r.conf = m.conf
      /\ r.accepted = m.accepted /\ r.rule = m.rule /\ r.answers = m.answers /\ r.out = m.out
  BY <1>2, <1>3, <1>4 DEF Manager, SameList, Running
<1> HIDE DEF v, r
<1>6. ASSUME r.dangling # {} PROVE IndInv' /\ m'.accepted = m.accepted
  <2>1. v.gentle = r.gentle /\ v.fault \in Faults
    BY <1>5, <1>6, ConfigFaults DEF v, Faults
  <2>2. v.gentle = FALSE
    <3>1. m.gentle = FALSE
      BY <1>3, <1>5, <1>6 DEF Smooth
    <3>2. g = FALSE
      BY ONLY <3>1, Zenon DEF g
    <3> QED
      BY <3>2, <2>1, <1>5
  <2> QED
    BY <2>1, <2>2, <1>2, <1>3, StepFails
<1>7. ASSUME r.dangling = {} PROVE IndInv' /\ m'.accepted = m.accepted
  <2>1. Good(r, r.forwardings, c2s, s2c, srv.listens)
    <3>0. Good(m, Sound(m), c2s, s2c, srv.listens)
      BY <1>2, Before
    <3>s. Sound(m) = r.forwardings
      BY <1>5, <1>7 DEF Sound
    <3>1. Shape(r) /\ Linked(r, r.forwardings)
      BY <3>0, <3>s, <1>5 DEF Good, Shape, Linked, SameList
    <3>2. List(r)
      BY <3>0, <1>5 DEF Good, List, Intact, SameList
    <3>3. Numbered(r, c2s \o r.out, s2c) /\ Balanced(r, c2s \o r.out, s2c, srv.listens)
      BY <3>0, <1>5, SameWire DEF Good, SameCount
    <3> QED
      BY <3>0, <3>s, <3>1, <3>2, <3>3, <1>5 DEF Good
  <2>2. /\ Good(v, Sound(v), c2s, s2c, srv.listens) /\ v.fault = r.fault
        /\ v.gentle = r.gentle /\ v.accepted = r.accepted
        /\ Smooth(r) /\ GentleStep(r, conf) => Smooth(v)
    <3> DEFINE L == srv.listens
    <3> HIDE DEF L
    <3>1. Good(r, r.forwardings, c2s, s2c, L)
      BY <2>1 DEF L
    <3>2. LET w == portfwdmgr_config(r, conf) IN
          /\ Good(w, Sound(w), c2s, s2c, L) /\ w.fault = r.fault /\ w.gentle = r.gentle
          /\ w.accepted = r.accepted
          /\ Smooth(r) /\ GentleStep(r, conf) => Smooth(w)
      BY <3>1, <1>3, <1>7, ConfigGood
    <3> QED
      BY <3>2 DEF v, L
  <2>3. ASSUME v.gentle PROVE Smooth(v)
    <3>0. g
      BY <2>3, <2>2, <1>5
    <3>1. m.gentle /\ GentleChange(conf) /\ Smooth(m)
      BY <3>0, <1>3, Zenon DEF g
    <3>2. Smooth(r)
      BY <3>1, <1>5 DEF Smooth, Intact, SameList
    <3>3. GentleStep(r, conf)
      <4>1. Unanswered = {} => r.answers >= Len(r.rule)
        <5> SUFFICES ASSUME ~(m.answers >= Len(m.rule)) PROVE Unanswered # {}
          BY <1>5
        <5>1. Len(m.rule) \in DOMAIN m.rule /\ Len(m.rule) > m.answers
          BY <1>3, Fields
        <5> QED
          BY <5>1 DEF Unanswered
      <4> QED
        BY <3>1, <4>1, <1>5 DEF GentleChange, GentleStep, Distinct
    <3> QED
      BY <3>2, <3>3, <2>2
  <2>4. Good(v, Sound(v), c2s, s2c', srv'.listens) /\ v.fault = "none"
    BY <2>2, <1>2, <1>5
  <2>5. s2c' \in Seq(Answer) /\ srv' \in [listens : SUBSET Port, opens : Nat]
    BY <1>2, <1>3
  <2> QED
    BY <2>2, <2>3, <2>4, <2>5, <1>2, <1>5, StepGood
<1> QED
  BY <1>6, <1>7

\* What an answer to the forwarding n does to the tables.
Responds(r, v, n, success) ==
  /\ v \in Manager /\ SameUser(r, v) /\ SameList(r, v) /\ v.out = r.out
  /\ v.dangling = r.dangling /\ v.rule = r.rule
  /\ r.rule[n] \in Sound(r) /\ r.rportfwds[Source[r.rule[n]]] = n
  /\ IF success THEN v = r
     ELSE Unlinked(r, v, r.rule[n]) /\ v.forwardings = r.forwardings \ {r.rule[n]}

\* An answer is to the forwarding n, whose record and rpf go together: a refusal
\* removes both, no assertion fails.
LEMMA ResponseIs ==
  ASSUME NEW r \in Manager, Shape(r), Linked(r, Sound(r)), NEW n \in r.rpfs,
         NEW success \in BOOLEAN
  PROVE  Responds(r, ssh2_rportfwd_globreq_response(r, n, success), n, success)
<1> DEFINE v == ssh2_rportfwd_globreq_response(r, n, success)
           i == r.rule[n]
<1>1. i \in Sound(r) /\ r.remote[i] = n /\ r.rportfwds[Source[i]] = n
  BY DEF Linked
<1>2. i \in Rule /\ Source[i] \in Port
  <2>1. i \in r.forwardings /\ r.forwardings \in SUBSET Rule
    BY <1>1, Fields DEF Sound
  <2> QED
    BY <2>1, Rules
<1>3. CASE success
  <2>1. v = r
    BY <1>3 DEF ssh2_rportfwd_globreq_response
  <2> HIDE DEF v
  <2>2. v \in Manager /\ SameUser(r, v) /\ SameList(r, v)
    BY <2>1 DEF SameUser, SameList
  <2> QED
    BY <1>1, <1>3, <2>1, <2>2 DEF v, Responds
<1>4. CASE ~success
  <2>1. v = [r EXCEPT !.rportfwds = [r.rportfwds EXCEPT ![Source[i]] = 0],
                      !.rpfs = r.rpfs \ {n}, !.remote = [r.remote EXCEPT ![i] = 0],
                      !.forwardings = r.forwardings \ {i}]
    BY <1>1, <1>4 DEF ssh2_rportfwd_globreq_response, Check
  <2>2. /\ [r.rportfwds EXCEPT ![Source[i]] = 0] \in [Port -> Nat]
        /\ [r.remote EXCEPT ![i] = 0] \in [Rule -> Nat]
    BY Fields
  <2> HIDE DEF v, i
  <2>3. v \in Manager /\ SameUser(r, v) /\ SameList(r, v)
    BY <2>1, <2>2 DEF Manager, SameUser, SameList
  <2>4. /\ v.out = r.out /\ v.dangling = r.dangling /\ v.rule = r.rule
        /\ Unlinked(r, v, i) /\ v.forwardings = r.forwardings \ {i}
    BY <2>1, <1>1 DEF Manager, Unlinked
  <2> QED
    BY <1>1, <1>4, <2>3, <2>4 DEF v, i, Responds
<1> QED
  BY <1>3, <1>4

\* The entry of the list that has been answered leaves it.
Popped(v, w, h, nx) ==
  /\ w.head = nx /\ w.ogrs = v.ogrs \ {h} /\ w.answers = v.answers + 1
  /\ w.tail = v.tail /\ w.next = v.next /\ w.rule = v.rule /\ w.rpfs = v.rpfs
  /\ w.remote = v.remote /\ w.rportfwds = v.rportfwds /\ w.out = v.out
  /\ w.forwardings = v.forwardings /\ w.dangling = v.dangling /\ w.conf = v.conf
  /\ w.accepted = v.accepted /\ w.gentle = v.gentle /\ w.fault = v.fault

\* RcvdReply does this.
LEMMA PopIs ==
  ASSUME NEW v \in Manager, NEW h, NEW nx \in Int
  PROVE  LET w == [v EXCEPT !.head = nx, !.ogrs = @ \ {h}, !.answers = @ + 1] IN
         w \in Manager /\ Popped(v, w, h, nx)
<1> DEFINE k == v.answers + 1
           o == v.ogrs \ {h}
           w == [v EXCEPT !.head = nx, !.ogrs = o, !.answers = k]
<1>1. k \in Nat /\ o \in SUBSET Nat
  BY Fields
<1> HIDE DEF k, o
<1>2. w \in Manager
  BY <1>1 DEF Manager
<1>3. Popped(v, w, h, nx)
  BY DEF Manager, Popped, k, o
<1> QED
  BY <1>2, <1>3 DEF k, o

\* The list without its first entry begins with the next one, or is empty for good.
LEMMA PopList ==
  ASSUME NEW r \in Manager, NEW v \in Manager, NEW w \in Manager, NEW nx \in Int,
         Shape(r), Intact(r), SameList(r, v), v.answers = r.answers, v.rule = r.rule,
         nx \in Pointer(r.next[r.head]), Popped(v, w, r.head, nx)
  PROVE  /\ List(w) /\ w.answers <= Len(w.rule) /\ w.ogrs \subseteq 1..Len(w.rule)
         /\ w.answers < Len(w.rule) => Intact(w)
<1> DEFINE k == Len(r.rule)
           h == r.head
<1>0. /\ k \in Nat /\ h \in Int /\ h = r.answers + 1 /\ r.answers \in Nat /\ h <= k
      /\ r.tail = k /\ \A i \in h..k : i \in r.ogrs
      /\ \A i \in h..k - 1 : r.next[i] = i + 1
      /\ r.next[k] = -1 /\ r.ogrs \subseteq 1..k
  BY Fields DEF Intact, Shape
<1>1. /\ w.head = nx /\ w.ogrs = r.ogrs \ {h} /\ w.answers = h /\ w.tail = k
      /\ w.next = r.next /\ w.rule = r.rule
  BY <1>0 DEF Popped, SameList
<1>p. nx \in Pointer(r.next[h])
  OBVIOUS
<1> HIDE DEF k, h
<1>2. CASE h = k
  <2>1. nx \in {0, -1} /\ w.tail # 0 /\ ~(w.answers < k)
    BY <1>0, <1>1, <1>2, <1>p DEF Pointer
  <2> QED
    BY <2>1, <1>0, <1>1, <1>2 DEF List, k
<1>3. CASE h # k
  <2>1. h \in h..k - 1 /\ nx = h + 1 /\ h + 1 <= k
    <3>1. h \in h..k - 1 /\ h + 1 # -1 /\ h + 1 <= k
      BY <1>0, <1>3
    <3> QED
      BY <3>1, <1>0, <1>p DEF Pointer
  <2>2. \A i \in nx..k : i \in h..k /\ i # h
    BY <1>0, <2>1
  <2>3. \A i \in nx..k - 1 : i \in h..k - 1
    BY <1>0, <2>1
  <2>4. Intact(w)
    BY <1>0, <1>1, <2>1, <2>2, <2>3 DEF Intact, k
  <2> QED
    BY <2>1, <2>4, <1>0, <1>1 DEF List, k
<1> QED
  BY <1>2, <1>3

\* What holds of the record w after the answer that came when it was r.
Answered(r, w, q, t, L) ==
  /\ Good(w, Sound(w), q, t, L) /\ w.fault = r.fault /\ (w.gentle => Smooth(w))
  /\ w.accepted = r.accepted

\* An answer that finds its entry and its rpf keeps the invariant.
LEMMA AnsweredGood ==
  ASSUME NEW r, NEW q \in Seq(Request), NEW s \in Seq(Answer), NEW t, NEW L,
         r \in Manager, Shape(r), Linked(r, Sound(r)), Intact(r), r.out = <<>>,
         Numbered(r, q, s), Balanced(r, q, s, L), r.gentle => Smooth(r),
         Shortens(t, s), IsReply(s[1]), s[1].n = r.head, r.head \in r.rpfs,
         NEW nx \in Int, nx \in Pointer(r.next[r.head]), NEW v, NEW w \in Manager,
         Responds(r, v, r.head, s[1].type = "success"), Popped(v, w, r.head, nx)
  PROVE  Answered(r, w, q, t, L)
<1> DEFINE h == r.head
           success == s[1].type = "success"
           i == r.rule[h]
<1>1. /\ v \in Manager /\ SameUser(r, v) /\ SameList(r, v) /\ v.out = r.out
      /\ v.dangling = r.dangling /\ v.rule = r.rule
      /\ i \in Sound(r) /\ r.rportfwds[Source[i]] = h
      /\ IF success THEN v = r
         ELSE Unlinked(r, v, i) /\ v.forwardings = r.forwardings \ {i}
  BY DEF Responds
<1>s. success <=> s[1].type = "success"
  OBVIOUS
<1> HIDE DEF success
<1>2. w \in Manager /\ Popped(v, w, h, nx)
  OBVIOUS
<1>3. /\ List(w) /\ w.answers <= Len(w.rule) /\ w.ogrs \subseteq 1..Len(w.rule)
      /\ w.answers < Len(w.rule) => Intact(w)
  <2>1. v.answers = r.answers /\ v.rule = r.rule /\ SameList(r, v)
    BY <1>1 DEF SameUser
  <2> QED
    BY <1>1, <1>2, <2>1, PopList
<1>4. /\ w.answers = r.answers + 1 /\ w.rule = r.rule /\ w.out = <<>> /\ w.next = r.next
      /\ w.dangling = r.dangling /\ w.conf = r.conf /\ w.accepted = r.accepted
      /\ w.fault = r.fault /\ w.gentle = r.gentle /\ w.tail = r.tail
      /\ w.remote = v.remote /\ w.rpfs = v.rpfs /\ w.rportfwds = v.rportfwds
      /\ w.forwardings = v.forwardings
  BY <1>1, <1>2 DEF Popped, SameUser, SameList
<1>i. i \in Rule /\ Sound(r) \in SUBSET Rule /\ r.remote[i] = h
  BY <1>1, Fields DEF Sound, Linked
<1>5. Linked(w, Sound(w)) /\ w.forwardings \subseteq r.forwardings
      /\ w.dangling \subseteq w.forwardings
  <2>1. CASE success
    <3>1. v = r
      BY <1>1, <2>1
    <3> QED
      BY <3>1, <1>4 DEF Linked, Sound, Shape
  <2>2. CASE ~success
    <3>1. Unlinked(r, w, i) /\ w.forwardings = r.forwardings \ {i}
      BY <1>1, <1>4, <2>2 DEF Unlinked
    <3>2. Linked(w, Sound(r) \ {i})
      BY <3>1, <1>1, <1>2, <1>i, RemoveLinked
    <3>3. Sound(w) = Sound(r) \ {i} /\ w.dangling \subseteq w.forwardings
      BY <3>1, <1>1, <1>4 DEF Sound, Shape
    <3> QED
      BY <3>1, <3>2, <3>3
  <2> QED
    BY <2>1, <2>2
<1>6. /\ w.rpfs \subseteq r.rpfs /\ r.rpfs \ {h} \subseteq w.rpfs
      /\ \A j \in Rule : w.remote[j] = r.remote[j] \/ w.remote[j] = 0
  <2>1. CASE success
    BY <1>1, <1>4, <2>1
  <2>2. CASE ~success
    <3>1. Unlinked(r, v, i) /\ r.remote \in [Rule -> Nat]
      BY <1>1, <2>2, Fields
    <3> HIDE DEF i
    <3>2. /\ v.rpfs = r.rpfs \ {h}
          /\ \A j \in Rule : v.remote[j] = r.remote[j] \/ v.remote[j] = 0
      BY <3>1, <1>i DEF Unlinked
    <3> QED
      BY <3>2, <1>4
  <2> QED
    BY <2>1, <2>2
<1>7. Shape(w)
  <2>1. Len(r.rule) \in Nat /\ \A j \in Rule : r.remote[j] <= Len(r.rule)
    BY Fields DEF Shape
  <2>2. \A j \in Rule : w.remote[j] <= Len(w.rule)
    BY <2>1, <1>4, <1>6
  <2> QED
    BY <2>2, <1>3, <1>4, <1>5, <1>6 DEF Shape
<1>8. Numbered(w, q, t) /\ Balanced(w, q, t, L)
  <2>1. Settles(r, w, s[1])
    <3>1. CASE success
      BY <1>1, <1>4, <1>s, <3>1 DEF Settles
    <3>2. CASE ~success
      BY <1>1, <1>4, <1>s, <3>2 DEF Settles, Unlinked
    <3> QED
      BY <3>1, <3>2
  <2>2. \A port \in Port : r.rportfwds[port] # 0 =>
           Source[r.rule[r.rportfwds[port]]] = port
    BY DEF Linked
  <2>3. r.answers \in Nat /\ r.rule \in Seq(Rule) /\ r.rportfwds \in [Port -> Nat]
    BY Fields
  <2> QED
    BY <2>1, <2>2, <2>3, <1>4, ReplyTaken
<1>9. ASSUME w.gentle PROVE Smooth(w)
  <2>1. Smooth(r) /\ h = r.answers + 1 /\ r.answers \in Nat /\ Len(r.rule) \in Nat
    BY <1>4, <1>9, Fields DEF Intact
  <2>2. \A j \in r.answers + 1..Len(r.rule) : j \in r.rpfs
    BY <2>1 DEF Smooth
  <2>3. ASSUME NEW j \in w.answers + 1..Len(w.rule) PROVE j \in w.rpfs
    <3>1. j \in r.answers + 1..Len(r.rule) /\ j # h
      BY <2>1, <1>4
    <3> QED
      BY <3>1, <2>2, <1>6
  <2> QED
    BY <2>1, <2>3, <1>3, <1>4 DEF Smooth
<1>a. q \o w.out = q
  BY <1>4, ConcatEmptySeq
<1>b. Sound(w) \subseteq Rule
  BY <1>2, Fields DEF Sound
<1> QED
  BY <1>2, <1>3, <1>4, <1>5, <1>7, <1>8, <1>9, <1>a, <1>b DEF Good, Answered

\* The server's answer arrives.
LEMMA ReplyKeeps ==
  ASSUME IndInv, RcvdReply
  PROVE  IndInv' /\ m'.accepted = m.accepted
<1> DEFINE h == m.head
           x == Head(s2c)
           r == ssh2_rportfwd_globreq_response(m, h, x.type = "success")
<1>0. /\ Running /\ s2c # <<>> /\ x.type \in {"success", "failure"}
      /\ s2c' = Tail(s2c) /\ srv' = srv
  BY DEF RcvdReply, Step
<1>1. /\ m \in Manager /\ c2s \in Seq(Request) /\ s2c \in Seq(Answer)
      /\ srv \in [listens : SUBSET Port, opens : Nat] /\ m.out = <<>> /\ Shape(m)
      /\ Linked(m, Sound(m)) /\ List(m) /\ Numbered(m, c2s, s2c)
      /\ Balanced(m, c2s, s2c, srv.listens) /\ (m.gentle => Smooth(m))
      /\ m.gentle \in BOOLEAN /\ m.answers \in Nat /\ Len(m.rule) \in Nat
      /\ m.rule \in Seq(Rule) /\ m.next \in Seq(Int) /\ m.head \in Int
      /\ m.fault = "none"
  BY <1>0, Fields DEF IndInv, Running
<1>2. /\ Tail(s2c) \in Seq(Answer) /\ Shortens(Tail(s2c), s2c) /\ x = s2c[1]
      /\ IsReply(s2c[1])
  <2>1. Tail(s2c) \in Seq(Answer) /\ Shortens(Tail(s2c), s2c)
    BY <1>0, <1>1, Taken
  <2>2. x = s2c[1]
    BY <2>1 DEF Shortens
  <2> QED
    BY <2>1, <2>2, <1>0 DEF IsReply
<1>3. s2c[1].n = m.answers + 1 /\ m.answers < Len(m.rule)
  <2>1. 1 \in DOMAIN s2c /\ \A i \in DOMAIN s2c : i \in Nat /\ i >= 1
    BY <1>2 DEF Shortens
  <2> QED
    BY <2>1, <1>1, <1>2, FirstReply
<1>4. m.rule # <<>> /\ (Intact(m) \/ m.head \in {0, -1}) /\ (m.gentle => Intact(m))
  <2>1. m.rule # <<>>
    BY <1>1, <1>3
  <2>2. m.gentle => Intact(m)
    BY <1>1, <1>3 DEF Smooth
  <2> QED
    BY <2>1, <2>2, <1>1 DEF List
<1>5. Intact(m) => m.head = m.answers + 1 /\ m.head # 0 /\ m.head # -1
  BY <1>1 DEF Intact
<1>f. \A e \in {"proto_error", "wild_pointer", "stale_rpf"} :
         /\ Check(m, FALSE, e).fault = e /\ Check(m, FALSE, e).gentle = m.gentle
  BY <1>1 DEF Check, Manager
<1>6. CASE m.head = 0
  <2> DEFINE e == Check(m, FALSE, "proto_error")
  <2>0. m.head = 0 /\ m.head # -1
    BY <1>6
  <2>1. Step(e)
    BY <2>0, Zenon DEF RcvdReply
  <2>2. m.gentle = FALSE
    BY <1>1, <1>4, <1>5, <1>6
  <2>3. e.fault \in Faults /\ e.gentle = FALSE
    BY <2>2, <1>f DEF Faults
  <2> HIDE DEF e
  <2> QED
    BY <2>1, <2>3, <1>0, <1>2, StepFails
<1>7. CASE m.head = -1
  <2> DEFINE e == Check(m, FALSE, "wild_pointer")
  <2>0. m.head = -1 /\ m.head # 0
    BY <1>7
  <2>1. Step(e)
    BY <2>0, Zenon DEF RcvdReply
  <2>2. m.gentle = FALSE
    BY <1>1, <1>4, <1>5, <1>7
  <2>3. e.fault \in Faults /\ e.gentle = FALSE
    BY <2>2, <1>f DEF Faults
  <2> HIDE DEF e
  <2> QED
    BY <2>1, <2>3, <1>0, <1>2, StepFails
<1>8. CASE m.head # 0 /\ m.head # -1
  <2>1. PICK nx \in Pointer(m.next[h]) :
           Step([r EXCEPT !.head = nx, !.ogrs = @ \ {h}, !.answers = @ + 1])
    BY <1>8 DEF RcvdReply
  <2> DEFINE w == [r EXCEPT !.head = nx, !.ogrs = @ \ {h}, !.answers = @ + 1]
  <2>2. Intact(m) /\ h = s2c[1].n /\ h \in 1..Len(m.rule)
    BY <1>1, <1>3, <1>4, <1>5, <1>8
  <2>3. nx \in Int
    <3>1. h \in DOMAIN m.next
      BY <2>2, <1>1 DEF Shape
    <3>2. m.next[h] \in Int
      BY <3>1, <1>1
    <3> QED
      BY <3>2 DEF Pointer
  <2>4. CASE h \in m.rpfs
    <3> DEFINE L == srv.listens
               t == Tail(s2c)
    <3>0. Responds(m, r, m.head, s2c[1].type = "success")
      <4> DEFINE success == s2c[1].type = "success"
      <4>1. success \in BOOLEAN /\ r = ssh2_rportfwd_globreq_response(m, m.head, success)
        BY <1>2
      <4> HIDE DEF success, r
      <4>2. Responds(m, r, m.head, success)
        BY <4>1, <2>4, <1>1, ResponseIs
      <4> QED
        BY <4>2 DEF success
    <3>w. w \in Manager /\ Popped(r, w, m.head, nx)
      <4>1. r \in Manager
        BY <3>0 DEF Responds
      <4> HIDE DEF r
      <4> QED
        BY <4>1, <2>3, PopIs
    <3>s. Step(w)
      BY <2>1
    <3>p. nx \in Pointer(m.next[m.head]) /\ s2c[1].n = m.head /\ m.head \in m.rpfs
      BY <2>2, <2>4
    <3>n. Numbered(m, c2s, s2c) /\ Balanced(m, c2s, s2c, L) /\ Shortens(t, s2c)
      BY <1>1, <1>2
    <3>l. srv'.listens = L /\ s2c' = t
      BY <1>0
    <3> HIDE DEF w, r, L, t
    <3>1. Answered(m, w, c2s, t, L)
      BY <1>1, <1>2, <2>2, <2>3, <3>0, <3>w, <3>p, <3>n, AnsweredGood
    <3>2. Good(w, Sound(w), c2s, s2c', L) /\ w.fault = "none"
      BY <3>1, <3>l, <1>1 DEF Answered
    <3>3. s2c' \in Seq(Answer) /\ srv' \in [listens : SUBSET Port, opens : Nat]
      BY <1>0, <1>1, <1>2
    <3> QED
      BY <3>1, <3>2, <3>3, <3>s, <3>l, StepGood DEF Answered
  <2>5. CASE h \notin m.rpfs
    <3>1. r = Check(m, FALSE, "stale_rpf")
      BY <2>5 DEF ssh2_rportfwd_globreq_response
    <3>2. w.fault = "stale_rpf" /\ w.gentle = m.gentle
      BY <3>1, <1>1 DEF Check, Manager
    <3>3. m.gentle = FALSE
      <4> SUFFICES ASSUME Smooth(m) PROVE h \in m.rpfs
        BY <1>1, <2>5
      <4>1. h \in m.answers + 1..Len(m.rule)
        BY <2>2, <1>1, <1>3
      <4> QED
        BY <4>1 DEF Smooth
    <3>s. Step(w)
      BY <2>1
    <3>4. w.fault \in Faults /\ w.gentle = FALSE
      BY <3>2, <3>3 DEF Faults
    <3> HIDE DEF w
    <3> QED
      BY <3>4, <3>s, <1>0, <1>2, StepFails
  <2> QED
    BY <2>4, <2>5
<1> QED
  BY <1>6, <1>7, <1>8

\* A connection to a forwarded port is announced: PuTTY takes it for the rule of
\* the forwarding the port has, or not at all.
LEMMA OpenKeeps ==
  ASSUME IndInv, RcvdOpen
  PROVE  IndInv' /\ (m'.accepted # 0 => m'.accepted \in m.conf)
<1> DEFINE port == Head(s2c).port
           n == m.rportfwds[port]
<1>0. /\ Running /\ s2c # <<>> /\ Head(s2c).type = "open"
      /\ s2c' = Tail(s2c) /\ srv' = srv
  BY DEF RcvdOpen, Step
<1>1. /\ m \in Manager /\ s2c \in Seq(Answer) /\ c2s \in Seq(Request)
      /\ srv \in [listens : SUBSET Port, opens : Nat] /\ m.out = <<>>
      /\ Linked(m, Sound(m)) /\ Good(m, Sound(m), c2s, s2c, srv.listens)
      /\ (m.gentle => Smooth(m)) /\ m.fault = "none" /\ Shape(m)
  BY <1>0, Before DEF IndInv, Running
<1>2. /\ Tail(s2c) \in Seq(Answer) /\ Shortens(Tail(s2c), s2c) /\ ~IsReply(s2c[1])
      /\ port \in Port
  <2>1. Tail(s2c) \in Seq(Answer) /\ Shortens(Tail(s2c), s2c) /\ Head(s2c) \in Answer
    BY <1>0, <1>1, Taken
  <2>2. s2c[1] = Head(s2c)
    BY <2>1 DEF Shortens
  <2> QED
    BY <2>1, <2>2, <1>0, Words DEF IsReply
<1>3. PICK k : Step([m EXCEPT !.accepted = k]) /\ (k = 0 \/ (n # 0 /\ k = m.rule[n]))
  BY DEF RcvdOpen
<1>4. k = 0 \/ (k \in Sound(m) /\ k \in m.conf /\ k \in Rule)
  <2>1. n # 0 => n \in m.rpfs /\ m.rule[n] \in Sound(m)
    BY <1>1, <1>2 DEF Linked
  <2>2. Sound(m) \subseteq m.conf /\ m.conf \in SUBSET Rule
    BY <1>1, Fields DEF Shape, Sound
  <2> QED
    BY <1>3, <2>1, <2>2
<1>5. k \in Nat /\ k \in {0} \cup Rule
  BY <1>4, Rules
<1> DEFINE r == [m EXCEPT !.accepted = k]
<1>6. /\ r \in Manager /\ SameList(m, r) /\ r.gentle = m.gentle /\ r.fault = m.fault
      /\ r.rpfs = m.rpfs /\ r.remote = m.remote /\ r.rportfwds = m.rportfwds
      /\ r.forwardings = m.forwardings /\ r.dangling = m.dangling /\ r.conf = m.conf
      /\ r.accepted = k /\ r.rule = m.rule /\ r.answers = m.answers /\ r.out = m.out
  BY <1>1, <1>5 DEF Manager, SameList
<1>7. Step(r)
  BY <1>3
<1> HIDE DEF r
<1>8. Good(r, Sound(r), c2s, s2c', srv'.listens)
  <2>1. Shape(r) /\ Linked(r, Sound(r)) /\ Sound(r) \subseteq Rule
    BY <1>1, <1>5, <1>6 DEF Good, Shape, Linked, SameList, Sound
  <2>2. List(r)
    BY <1>1, <1>6 DEF Good, List, Intact, SameList
  <2>3. Numbered(r, c2s, s2c') /\ Balanced(r, c2s, s2c', srv'.listens)
    <3> DEFINE L == srv.listens
               t == Tail(s2c)
    <3>1. Numbered(m, c2s, s2c) /\ Balanced(m, c2s, s2c, L) /\ Shortens(t, s2c)
      BY <1>0, <1>1, <1>2 DEF IndInv
    <3>2. s2c' = t /\ srv'.listens = L
      BY <1>0
    <3> HIDE DEF L, t
    <3>3. Numbered(r, c2s, t) /\ Balanced(r, c2s, t, L)
      BY <3>1, <1>2, <1>6, OpenTaken DEF SameCount
    <3> QED
      BY <3>2, <3>3
  <2>4. c2s \o r.out = c2s
    BY <1>1, <1>6, ConcatEmptySeq
  <2> QED
    BY <2>1, <2>2, <2>3, <2>4, <1>6 DEF Good
<1>9. r.gentle => Smooth(r)
  BY <1>1, <1>6 DEF Smooth, Intact, SameList
<1>a. s2c' \in Seq(Answer) /\ srv' \in [listens : SUBSET Port, opens : Nat] /\ r.fault = "none"
  BY <1>0, <1>1, <1>2, <1>6
<1>b. IndInv' /\ m'.accepted = r.accepted
  BY <1>7, <1>8, <1>9, <1>a, StepGood
<1> QED
  BY <1>b, <1>4, <1>6

\* The server answers a request.
LEMMA ServerForwardKeeps ==
  ASSUME IndInv, ServerForward
  PROVE  IndInv'
<1> DEFINE y == Head(c2s)
           L == srv.listens
<1>0. /\ Running /\ c2s # <<>> /\ y.type = "forward" /\ m' = m /\ c2s' = Tail(c2s)
  BY DEF ServerForward
<1>1. /\ m \in Manager /\ s2c \in Seq(Answer) /\ c2s \in Seq(Request)
      /\ srv \in [listens : SUBSET Port, opens : Nat]
      /\ Numbered(m, c2s, s2c) /\ Balanced(m, c2s, s2c, L)
      /\ m.answers \in Nat /\ Len(m.rule) \in Nat
  BY <1>0, Fields DEF IndInv
<1>2. /\ Tail(c2s) \in Seq(Request) /\ Shortens(Tail(c2s), c2s) /\ y = c2s[1]
      /\ y.port \in Port /\ y.n \in Nat
  <2>1. Tail(c2s) \in Seq(Request) /\ Shortens(Tail(c2s), c2s) /\ y \in Request
    BY <1>0, <1>1, Taken
  <2>2. y = c2s[1]
    BY <2>1 DEF Shortens
  <2> QED
    BY <2>1, <2>2, Words
<1>3. PICK type \in {"success", "failure"} :
        /\ s2c' = Append(s2c, Msg(type, NoPort, y.n))
        /\ srv' = IF type = "success" THEN [srv EXCEPT !.listens = @ \cup {y.port}] ELSE srv
  BY DEF ServerForward
<1> DEFINE x == Msg(type, NoPort, y.n)
<1>4. x \in Answer /\ x.type = type /\ x.n = y.n /\ IsReply(x)
  <2>1. x \in Reply
    BY <1>2 DEF Msg, Reply
  <2> QED
    BY <2>1 DEF Answer, Msg, IsReply
<1>5. s2c' = Append(s2c, x)
  BY <1>3
<1> HIDE DEF x
<1>6. s2c' \in Seq(Answer) /\ Answers(s2c', s2c, x, c2s[1].n)
  BY <1>1, <1>2, <1>4, <1>5, Appended DEF Answers
<1>7. /\ srv' \in [listens : SUBSET Port, opens : Nat]
      /\ srv'.listens = IF x.type = "success" THEN L \cup {c2s[1].port} ELSE L
  BY <1>1, <1>2, <1>3, <1>4
<1> HIDE DEF L
<1>8. Numbered(m, c2s', s2c') /\ Balanced(m, c2s', s2c', srv'.listens)
  <2>1. Shortens(c2s', c2s) /\ c2s[1].type = "forward"
    BY <1>0, <1>2
  <2> QED
    BY <2>1, <1>1, <1>6, <1>7, ForwardTaken
<1> QED
  BY <1>0, <1>1, <1>2, <1>6, <1>7, <1>8 DEF IndInv, Running

\* The server carries out a cancellation.
LEMMA ServerCancelKeeps ==
  ASSUME IndInv, ServerCancel
  PROVE  IndInv'
<1> DEFINE L == srv.listens
<1>0. /\ Running /\ c2s # <<>> /\ Head(c2s).type = "cancel" /\ m' = m
      /\ c2s' = Tail(c2s) /\ s2c' = s2c
      /\ srv' = [srv EXCEPT !.listens = L \ {Head(c2s).port}]
  BY DEF ServerCancel
<1>1. /\ s2c \in Seq(Answer) /\ c2s \in Seq(Request)
      /\ srv \in [listens : SUBSET Port, opens : Nat]
      /\ Numbered(m, c2s, s2c) /\ Balanced(m, c2s, s2c, L)
  BY <1>0 DEF IndInv
<1>2. Tail(c2s) \in Seq(Request) /\ Shortens(Tail(c2s), c2s) /\ Head(c2s) = c2s[1]
  <2>1. Tail(c2s) \in Seq(Request) /\ Shortens(Tail(c2s), c2s)
    BY <1>0, <1>1, Taken
  <2> QED
    BY <2>1 DEF Shortens
<1>3. /\ srv' \in [listens : SUBSET Port, opens : Nat]
      /\ srv'.listens = L \ {c2s[1].port}
  BY <1>0, <1>1, <1>2
<1> HIDE DEF L
<1>4. Numbered(m, c2s', s2c) /\ Balanced(m, c2s', s2c, srv'.listens)
  <2>1. Shortens(c2s', c2s) /\ c2s[1].type = "cancel"
    BY <1>0, <1>2
  <2>2. Numbered(m, c2s', s2c) /\ Balanced(m, c2s', s2c, L \ {c2s[1].port})
    BY <2>1, <1>1, CancelTaken
  <2> QED
    BY <2>2, <1>3
<1> QED
  BY <1>0, <1>1, <1>2, <1>3, <1>4 DEF IndInv, Running

\* Somebody connects to the server.
LEMMA ServerOpenKeeps ==
  ASSUME IndInv, ServerOpen
  PROVE  IndInv'
<1> DEFINE L == srv.listens
<1>0. PICK port \in L :
        /\ s2c' = Append(s2c, Msg("open", port, 0))
        /\ srv' = [srv EXCEPT !.opens = @ + 1]
  BY DEF ServerOpen
<1>1. /\ Running /\ m' = m /\ c2s' = c2s /\ s2c \in Seq(Answer)
      /\ srv \in [listens : SUBSET Port, opens : Nat] /\ port \in Port
      /\ Numbered(m, c2s, s2c) /\ Balanced(m, c2s, s2c, L)
  BY <1>0 DEF ServerOpen, IndInv
<1> DEFINE x == Msg("open", port, 0)
<1>2. x \in Answer /\ ~IsReply(x)
  BY <1>1 DEF Msg, Opening, Answer, IsReply
<1>3. s2c' = Append(s2c, x)
  BY <1>0
<1> HIDE DEF x
<1>4. s2c' \in Seq(Answer) /\ Extends(s2c', s2c, x)
  BY <1>1, <1>2, <1>3, Appended
<1>5. srv' \in [listens : SUBSET Port, opens : Nat] /\ srv'.listens = L
  BY <1>0, <1>1
<1> HIDE DEF L
<1>6. Numbered(m, c2s, s2c') /\ Balanced(m, c2s, s2c', L)
  BY <1>1, <1>2, <1>4, OpenSaid
<1> QED
  BY <1>1, <1>4, <1>5, <1>6 DEF IndInv, Running

\* At first there is nothing to relate.
LEMMA InitKeeps ==
  ASSUME Init
  PROVE  IndInv
<1>0. m = Start /\ c2s = <<>> /\ s2c = <<>> /\ srv = [listens |-> {}, opens |-> 0]
  BY DEF Init
<1>e. /\ \A T : <<>> \in Seq(T)
      /\ Len(<<>>) = 0 /\ DOMAIN <<>> = {} /\ 0 + 1..0 = {} /\ 1..0 = {}
  OBVIOUS
<1>1. /\ m.rule = <<>> /\ m.next = <<>> /\ m.out = <<>> /\ m.rpfs = {} /\ m.ogrs = {}
      /\ m.head = 0 /\ m.tail = 0 /\ m.answers = 0 /\ m.accepted = 0 /\ m.fault = "none"
      /\ m.forwardings = {} /\ m.dangling = {} /\ m.conf = {}
      /\ m.remote = [i \in Rule |-> 0] /\ m.rportfwds = [port \in Port |-> 0]
  BY <1>0 DEF Start
<1>2. m \in Manager
  <2>1. [i \in Rule |-> 0] \in [Rule -> Nat] /\ [port \in Port |-> 0] \in [Port -> Nat]
    OBVIOUS
  <2> QED
    BY <2>1, <1>0, <1>e DEF Start, Manager
<1>3. Shape(m)
  BY <1>1, <1>e DEF Shape
<1>4. Linked(m, Sound(m))
  BY <1>1 DEF Linked, Sound
<1>5. List(m)
  BY <1>1 DEF List
<1>6. Numbered(m, c2s, s2c)
  BY <1>0, <1>1, <1>e DEF Numbered
<1>7. Balanced(m, c2s, s2c, srv.listens)
  BY <1>0, <1>1, <1>e DEF Balanced
<1>8. Smooth(m) /\ Running
  BY <1>1, <1>e DEF Smooth, Running
<1> QED
  BY <1>0, <1>1, <1>2, <1>3, <1>4, <1>5, <1>6, <1>7, <1>8, <1>e DEF IndInv

\* Every step keeps the invariant, and takes a connection only for a rule of the
\* configuration.
LEMMA NextKeeps ==
  ASSUME IndInv, [Next]_vars
  PROVE  /\ IndInv'
         /\ RcvdOpen /\ m'.accepted # 0 => m'.accepted \in m.conf
<1>0. RcvdOpen /\ m'.accepted # 0 => m'.accepted \in m.conf
  BY OpenKeeps
<1>1. CASE Reconfigure
  BY <1>0, <1>1, ReconfigureKeeps
<1>2. CASE RcvdReply
  BY <1>0, <1>2, ReplyKeeps
<1>3. CASE RcvdOpen
  BY <1>0, <1>3, OpenKeeps
<1>4. CASE ServerForward
  <2>1. m' = m
    BY <1>4 DEF ServerForward
  <2> QED
    BY <1>0, <2>1, <1>4, ServerForwardKeeps
<1>5. CASE ServerCancel
  <2>1. m' = m
    BY <1>5 DEF ServerCancel
  <2> QED
    BY <1>0, <2>1, <1>5, ServerCancelKeeps
<1>6. CASE ServerOpen
  <2>1. m' = m
    BY <1>6 DEF ServerOpen
  <2> QED
    BY <1>0, <2>1, <1>6, ServerOpenKeeps
<1>7. CASE UNCHANGED vars
  <2>1. m' = m /\ c2s' = c2s /\ s2c' = s2c /\ srv' = srv
    BY <1>7 DEF vars
  <2> QED
    BY <1>0, <2>1 DEF IndInv, Running
<1> QED
  BY <1>0, <1>1, <1>2, <1>3, <1>4, <1>5, <1>6, <1>7 DEF Next

\* The invariant holds in every reachable state.
THEOREM Invariance == Spec => []IndInv
<1>1. Init => IndInv
  BY InitKeeps
<1>2. IndInv /\ [Next]_vars => IndInv'
  BY NextKeeps
<1> QED
  BY <1>1, <1>2, PTL DEF Spec

\* Every variable of the forwardings keeps its type: no step through the two
\* tables and the list makes a pointer to something that was never allocated.
THEOREM TypeCorrect == Spec => []TypeOK
<1>1. IndInv => TypeOK
  <2> SUFFICES ASSUME IndInv PROVE TypeOK
    OBVIOUS
  <2>1. m \in Manager /\ Shape(m) /\ Linked(m, Sound(m))
        /\ srv \in [listens : SUBSET Port, opens : Nat]
    BY DEF IndInv
  <2>2. m.remote \in [Rule -> {0} \cup DOMAIN m.rule]
    <3>1. /\ m.remote \in [Rule -> Nat] /\ Len(m.rule) \in Nat
          /\ DOMAIN m.rule = 1..Len(m.rule)
      BY <2>1, Fields
    <3>2. \A i \in Rule : m.remote[i] \in {0} \cup DOMAIN m.rule
      BY <2>1, <3>1 DEF Shape
    <3> QED
      BY <3>1, <3>2
  <2>3. m.rportfwds \in [Port -> {0} \cup m.rpfs]
    <3>1. m.rportfwds \in [Port -> Nat]
      BY <2>1, Fields
    <3>2. \A port \in Port : m.rportfwds[port] \in {0} \cup m.rpfs
      BY <2>1 DEF Linked
    <3> QED
      BY <3>1, <3>2
  <2>4. m.forwardings \subseteq Rule /\ m.fault \in {"none"} \cup Faults
    BY <2>1 DEF Manager, Faults
  <2>5. DOMAIN m.rule = 1..Len(m.rule)
    BY <2>1, Fields
  <2> QED
    BY <2>1, <2>2, <2>3, <2>4, <2>5 DEF TypeOK, Shape, Faults
<1> QED
  BY <1>1, Invariance, PTL

\* The records of the two tables point at each other: a step through
\* portfwdmgr_config or a refusal by the server changes both or neither, whatever
\* the user does and whatever the server answers.
THEOREM RecordsStayLinked == Spec => []RecordsAgree
<1>1. IndInv => RecordsAgree
  <2> SUFFICES ASSUME IndInv PROVE RecordsAgree
    OBVIOUS
  <2> DEFINE S == m.forwardings \ m.dangling
  <2>1. Linked(m, S)
    BY DEF IndInv, Sound
  <2> HIDE DEF S
  <2>2. \A i \in S : m.remote[i] \in m.rpfs /\ m.rportfwds[Source[i]] = m.remote[i]
    BY <2>1 DEF Linked
  <2>3. m.rpfs = {m.remote[i] : i \in S}
    <3>1. \A n \in m.rpfs : m.rule[n] \in S /\ m.remote[m.rule[n]] = n
      BY <2>1 DEF Linked
    <3> QED
      BY <2>2, <3>1
  <2> QED
    BY <2>2, <2>3 DEF RecordsAgree, S
<1> QED
  BY <1>1, Invariance, PTL

\* Once everything that was sent has been dealt with, PuTTY and the server agree
\* about the ports that are forwarded, whatever was cancelled, asked for again and
\* refused meanwhile.
THEOREM ServerFollows == Spec => []ServerAgrees
<1>1. IndInv => ServerAgrees
  <2> SUFFICES ASSUME IndInv, Running, c2s = <<>>, s2c = <<>>
               PROVE  srv.listens = {port \in Port : m.rportfwds[port] # 0}
    BY DEF ServerAgrees
  <2>1. Balanced(m, c2s, s2c, srv.listens) /\ srv.listens \in SUBSET Port
    BY DEF IndInv
  <2>2. DOMAIN c2s = {} /\ DOMAIN s2c = {}
    OBVIOUS
  <2>3. ASSUME NEW port \in Port
        PROVE  port \in srv.listens <=> m.rportfwds[port] # 0
    <3>1. Silent(c2s, port)
      BY <2>2 DEF Silent
    <3>2. IF m.rportfwds[port] = 0 THEN port \notin srv.listens
          ELSE Accounted(m, s2c, port, srv.listens)
      BY <2>1, <3>1 DEF Balanced
    <3> QED
      BY <2>2, <3>2 DEF Accounted
  <2> QED
    BY <2>1, <2>3
<1> QED
  BY <1>1, Invariance, PTL

\* A gentle user meets none of the faults: each answer finds its entry at the
\* head of the list, and a record there; no record is freed in its tree.
THEOREM GentleUsersAreSafe == Spec => []GentleIsSafe
<1>1. IndInv => GentleIsSafe
  BY DEF IndInv, GentleIsSafe
<1> QED
  BY <1>1, Invariance, PTL

\* Every connection that the server announces is taken for a rule the user has
\* or refused, never taken for one that has been cancelled (portfwd.c:956-959).
THEOREM CancelledStaysRejected == Spec => CancelledIsRejected
<1>1. IndInv /\ [Next]_vars =>
        [RcvdOpen /\ m'.accepted # 0 => m'.accepted \in m.conf]_vars
  BY NextKeeps
<1> QED
  BY <1>1, Invariance, PTL DEF Spec, CancelledIsRejected
=============================================================================
