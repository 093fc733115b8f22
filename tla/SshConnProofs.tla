--------------------------- MODULE SshConnProofs ---------------------------
(***************************************************************************)
(* Proofs about SshConn, for every size of the buffers, every limit, every *)
(* set of channels and every number of packets: no callback of a freed     *)
(* object is left in the queue, every byte is accounted for, and neither   *)
(* the input nor the output of the connection stalls.                      *)
(***************************************************************************)
EXTENDS SshConn, WellFoundedInduction, TLAPS

---------------------------------------------------------------------------
(* Induction up to a bound, in a form the provers can use: over a set of   *)
(* numbers instead of a predicate.                                         *)

\* Every nonempty set of naturals has a least element.
LEMMA LeastNatural ==
  ASSUME NEW T \in SUBSET Nat, T # {}
  PROVE  \E m \in T : \A n \in T : m <= n
<1>1. PICK m \in T : \A n \in T : ~(<<n, m>> \in OpToRel(<, Nat))
  BY WFMin, NatLessThanWellFounded
<1>2. ASSUME NEW n \in T, n < m PROVE FALSE
  <2> DEFINE pair == <<n, m>>
  <2>1. pair \in Nat \X Nat /\ pair[1] < pair[2]
    BY <1>2
  <2>2. pair \in OpToRel(<, Nat)
    <3> HIDE DEF pair
    <3> QED
      BY <2>1 DEF OpToRel
  <2> QED
    BY <1>1, <2>2
<1>3. \A n \in T : m \in Nat /\ n \in Nat
  OBVIOUS
<1> QED
  BY <1>2, <1>3

\* A set that holds 0 and, with any number below n, the next one holds n.
LEMMA Reaches ==
  ASSUME NEW n \in Nat, NEW T, 0 \in T,
         \A i \in 0..n : i > 0 /\ i - 1 \in T => i \in T
  PROVE  \A i \in 0..n : i \in T
<1> DEFINE B == {i \in 0..n : i \notin T}
<1>1. SUFFICES ASSUME B # {} PROVE FALSE
  OBVIOUS
<1>2. B \in SUBSET Nat
  OBVIOUS
<1> HIDE DEF B
<1>3. PICK m \in B : \A i \in B : m <= i
  BY <1>1, <1>2, LeastNatural
<1>4. m \in 0..n /\ m \notin T
  BY DEF B
<1>5. m > 0
  BY <1>4
<1>6. m - 1 \in 0..n /\ ~(m <= m - 1)
  BY <1>4, <1>5
<1>7. m - 1 \in T
  BY <1>3, <1>6 DEF B
<1> QED
  BY <1>4, <1>5, <1>7

---------------------------------------------------------------------------
(* Sequences.                                                              *)

\* The elements of a sequence with one more.
LEMMA AppendRange ==
  ASSUME NEW S, NEW q \in Seq(S), NEW e \in S
  PROVE  /\ Append(q, e) \in Seq(S) /\ Range(Append(q, e)) = Range(q) \cup {e}
         /\ IsInjective(q) /\ e \notin Range(q) => IsInjective(Append(q, e))
<1>1. /\ Append(q, e) \in Seq(S) /\ Len(Append(q, e)) = Len(q) + 1 /\ Len(q) \in Nat
      /\ DOMAIN Append(q, e) = 1..Len(q) + 1 /\ DOMAIN q = 1..Len(q)
      /\ \A i \in 1..Len(q) : Append(q, e)[i] = q[i]
      /\ Append(q, e)[Len(q) + 1] = e
  OBVIOUS
<1> DEFINE r == Append(q, e)
<1> HIDE DEF r
<1>2. Range(r) = Range(q) \cup {e}
  <2>1. \A i \in 1..Len(q) + 1 : i \in 1..Len(q) \/ i = Len(q) + 1
    BY <1>1
  <2>2. \A i \in 1..Len(q) : i \in 1..Len(q) + 1
    BY <1>1
  <2>3. Len(q) + 1 \in 1..Len(q) + 1
    BY <1>1
  <2> QED
    BY <1>1, <2>1, <2>2, <2>3 DEF Range, r
<1>3. ASSUME IsInjective(q), e \notin Range(q) PROVE IsInjective(r)
  <2> SUFFICES ASSUME NEW a \in 1..Len(q) + 1, NEW b \in 1..Len(q) + 1, r[a] = r[b]
               PROVE  a = b
    BY <1>1 DEF IsInjective, r
  <2>1. CASE a \in 1..Len(q) /\ b \in 1..Len(q)
    BY <1>1, <1>3, <2>1 DEF IsInjective, r
  <2>2. CASE a \in 1..Len(q) /\ b = Len(q) + 1
    BY <1>1, <1>3, <2>2 DEF Range, r
  <2>3. CASE a = Len(q) + 1 /\ b \in 1..Len(q)
    BY <1>1, <1>3, <2>3 DEF Range, r
  <2> QED
    BY <1>1, <2>1, <2>2, <2>3
<1> QED
  BY <1>1, <1>2, <1>3 DEF r

\* The elements of a sequence are its head and those of its tail.
LEMMA TailRange ==
  ASSUME NEW S, NEW q \in Seq(S), q # <<>>
  PROVE  /\ Head(q) \in S /\ Tail(q) \in Seq(S) /\ Range(q) = {Head(q)} \cup Range(Tail(q))
         /\ IsInjective(q) => IsInjective(Tail(q)) /\ Head(q) \notin Range(Tail(q))
<1> DEFINE r == Tail(q)
<1>1. /\ Head(q) \in S /\ r \in Seq(S) /\ Len(q) \in Nat /\ Len(q) > 0 /\ Len(r) = Len(q) - 1
      /\ Head(q) = q[1] /\ DOMAIN q = 1..Len(q) /\ DOMAIN r = 1..Len(q) - 1
      /\ \A i \in 1..Len(q) - 1 : r[i] = q[i + 1]
  OBVIOUS
<1> HIDE DEF r
<1>2. \A i \in 1..Len(q) : i = 1 \/ (i - 1 \in 1..Len(q) - 1 /\ i - 1 + 1 = i)
  BY <1>1
<1>3. \A i \in 1..Len(q) - 1 : i + 1 \in 1..Len(q)
  BY <1>1
<1>4. 1 \in 1..Len(q)
  BY <1>1
<1>5. Range(q) = {Head(q)} \cup Range(r)
  <2>1. ASSUME NEW i \in 1..Len(q) PROVE q[i] \in {Head(q)} \cup Range(r)
    <3>1. CASE i = 1
      BY <3>1, <1>1
    <3>2. CASE i # 1
      <4>1. i - 1 \in 1..Len(q) - 1 /\ i - 1 + 1 = i
        BY <3>2, <1>2
      <4>2. r[i - 1] = q[i]
        BY <4>1, <1>1
      <4> QED
        BY <4>1, <4>2, <1>1 DEF Range
    <3> QED
      BY <3>1, <3>2
  <2>2. ASSUME NEW i \in 1..Len(q) - 1 PROVE r[i] \in Range(q)
    BY <1>1, <1>3 DEF Range
  <2>3. Head(q) \in Range(q)
    BY <1>1, <1>4 DEF Range
  <2> QED
    BY <1>1, <2>1, <2>2, <2>3 DEF Range
<1>6. ASSUME IsInjective(q) PROVE IsInjective(r) /\ Head(q) \notin Range(r)
  <2>1. \A a, b \in 1..Len(q) - 1 : r[a] = r[b] => a = b
    <3> SUFFICES ASSUME NEW a \in 1..Len(q) - 1, NEW b \in 1..Len(q) - 1, r[a] = r[b]
                 PROVE  a = b
      OBVIOUS
    <3>1. q[a + 1] = q[b + 1] /\ a + 1 \in 1..Len(q) /\ b + 1 \in 1..Len(q)
      BY <1>1, <1>3
    <3>2. a + 1 = b + 1
      BY <3>1, <1>1, <1>6 DEF IsInjective
    <3> QED
      BY <3>2
  <2>2. \A a \in 1..Len(q) - 1 : r[a] # q[1]
    <3> SUFFICES ASSUME NEW a \in 1..Len(q) - 1, r[a] = q[1]
                 PROVE  FALSE
      OBVIOUS
    <3>1. q[a + 1] = q[1] /\ a + 1 \in 1..Len(q)
      BY <1>1, <1>3
    <3>2. a + 1 = 1
      BY <3>1, <1>1, <1>4, <1>6 DEF IsInjective
    <3> QED
      BY <3>2
  <2> QED
    BY <1>1, <2>1, <2>2 DEF IsInjective, Range
<1> QED
  BY <1>1, <1>5, <1>6 DEF r

\* One turn of the loop of delete_callbacks_for_context, the results of the
\* earlier turns being in g.
Turn(q, cbs, g, i) ==
  IF i = 0 THEN <<>> ELSE IF q[i] \in cbs THEN g[i - 1] ELSE Append(g[i - 1], q[i])

\* The walk is well defined: there is a result for every turn up to the last.
LEMMA WalkExists ==
  ASSUME NEW S, NEW q \in Seq(S), NEW cbs
  PROVE  \E g \in [0..Len(q) -> Seq(S)] : \A i \in 0..Len(q) : g[i] = Turn(q, cbs, g, i)
<1> DEFINE P(m) == \E g \in [0..m -> Seq(S)] : \A i \in 0..m : g[i] = Turn(q, cbs, g, i)
           T == {m \in Nat : P(m)}
<1>0. Len(q) \in Nat /\ \A i \in 1..Len(q) : q[i] \in S
  OBVIOUS
<1>1. 0 \in T
  <2> DEFINE g == [i \in 0..0 |-> <<>>]
  <2>1. <<>> \in Seq(S)
    OBVIOUS
  <2>2. g \in [0..0 -> Seq(S)] /\ \A i \in 0..0 : g[i] = Turn(q, cbs, g, i)
    BY <2>1 DEF Turn
  <2> HIDE DEF g
  <2> QED
    BY <2>2
<1>2. ASSUME NEW i \in 0..Len(q), i > 0, i - 1 \in T PROVE i \in T
  <2>0. i \in 1..Len(q) /\ i \in Nat /\ q[i] \in S /\ i - 1 \in 0..i - 1 /\ i \notin 0..i - 1
    BY <1>0, <1>2
  <2>1. PICK g \in [0..i - 1 -> Seq(S)] : \A j \in 0..i - 1 : g[j] = Turn(q, cbs, g, j)
    BY <1>2
  <2> DEFINE e == Turn(q, cbs, g, i)
             h == [j \in 0..i |-> IF j = i THEN e ELSE g[j]]
  <2>2. e \in Seq(S)
    <3>1. g[i - 1] \in Seq(S)
      BY <2>0
    <3>2. Append(g[i - 1], q[i]) \in Seq(S)
      BY <2>0, <3>1
    <3> QED
      BY <2>0, <3>1, <3>2, <1>2 DEF Turn
  <2>3. \A j \in 0..i : j = i \/ j \in 0..i - 1
    BY <2>0
  <2> HIDE DEF e
  <2>4. h \in [0..i -> Seq(S)]
    BY <2>2, <2>3
  <2>5. \A j \in 0..i - 1 : h[j] = g[j]
    BY <2>0
  <2>6. h[i] = e
    BY <2>0
  <2> HIDE DEF h
  <2>7. ASSUME NEW j \in 0..i PROVE h[j] = Turn(q, cbs, h, j)
    <3>1. CASE j = i
      BY <3>1, <2>0, <2>5, <2>6 DEF e, Turn
    <3>2. CASE j # i
      <4>1. j \in 0..i - 1 /\ (j # 0 => j - 1 \in 0..i - 1)
        BY <3>2, <2>0
      <4>2. Turn(q, cbs, h, j) = Turn(q, cbs, g, j)
        BY <4>1, <2>5 DEF Turn
      <4> QED
        BY <4>1, <4>2, <2>1, <2>5
    <3> QED
      BY <3>1, <3>2
  <2> QED
    BY <2>0, <2>4, <2>7
<1> HIDE DEF T
<1>3. Len(q) \in T
  <2>1. \A i \in 0..Len(q) : i > 0 /\ i - 1 \in T => i \in T
    BY <1>2
  <2>2. \A i \in 0..Len(q) : i \in T
    BY <1>0, <1>1, <2>1, Reaches
  <2> QED
    BY <1>0, <2>2
<1> QED
  BY <1>3 DEF T

\* What delete_callbacks_for_context leaves: the other callbacks, each as often
\* as before.
LEMMA WithoutProps ==
  ASSUME NEW S, NEW q \in Seq(S), NEW cbs
  PROVE  /\ Without(q, cbs) \in Seq(S)
         /\ Range(Without(q, cbs)) = Range(q) \ cbs
         /\ IsInjective(q) => IsInjective(Without(q, cbs))
<1> DEFINE n == Len(q)
           k == CHOOSE k : k = [i \in 0..n |->
                  IF i = 0 THEN <<>>
                  ELSE IF q[i] \in cbs THEN k[i - 1] ELSE Append(k[i - 1], q[i])]
           T == {i \in Nat : /\ k[i] \in Seq(S) /\ Range(k[i]) = {q[j] : j \in 1..i} \ cbs
                             /\ IsInjective(q) => IsInjective(k[i])}
<1>0. n \in Nat /\ DOMAIN q = 1..n /\ \A i \in 1..n : q[i] \in S
  OBVIOUS
<1>1. Without(q, cbs) = k[n]
  BY DEF Without
<1>2. k = [i \in 0..n |-> IF i = 0 THEN <<>>
                          ELSE IF q[i] \in cbs THEN k[i - 1] ELSE Append(k[i - 1], q[i])]
  <2>1. PICK g \in [0..n -> Seq(S)] : \A i \in 0..n : g[i] = Turn(q, cbs, g, i)
    BY WalkExists
  <2>2. g = [i \in 0..n |-> IF i = 0 THEN <<>>
                            ELSE IF q[i] \in cbs THEN g[i - 1] ELSE Append(g[i - 1], q[i])]
    BY <2>1 DEF Turn
  <2> QED
    BY <2>2
<1>3. \A i \in 0..n : k[i] = IF i = 0 THEN <<>>
                             ELSE IF q[i] \in cbs THEN k[i - 1] ELSE Append(k[i - 1], q[i])
  BY <1>2
<1> HIDE DEF k
<1>4. 0 \in T
  <2>1. k[0] = <<>>
    BY <1>0, <1>3
  <2>2. k[0] \in Seq(S) /\ Range(k[0]) = {} /\ IsInjective(k[0]) /\ 1..0 = {}
    BY <2>1 DEF Range, IsInjective
  <2> QED
    BY <2>2
<1>5. ASSUME NEW i \in 0..n, i > 0, i - 1 \in T PROVE i \in T
  <2>0. i \in 1..n /\ i \in Nat /\ q[i] \in S /\ i # 0
    BY <1>0, <1>5
  <2>1. /\ k[i - 1] \in Seq(S) /\ Range(k[i - 1]) = {q[j] : j \in 1..i - 1} \ cbs
        /\ IsInjective(q) => IsInjective(k[i - 1])
    BY <1>5
  <2>2. {q[j] : j \in 1..i} = {q[j] : j \in 1..i - 1} \cup {q[i]}
    <3>1. \A j \in 1..i : j \in 1..i - 1 \/ j = i
      BY <2>0
    <3>2. \A j \in 1..i - 1 : j \in 1..i
      BY <2>0
    <3>3. i \in 1..i
      BY <2>0
    <3> QED
      BY <3>1, <3>2, <3>3
  <2>3. CASE q[i] \in cbs
    <3>1. k[i] = k[i - 1]
      BY <1>3, <2>0, <2>3
    <3>2. {q[j] : j \in 1..i} \ cbs = {q[j] : j \in 1..i - 1} \ cbs
      BY <2>2, <2>3
    <3> QED
      BY <2>0, <2>1, <3>1, <3>2
  <2>4. CASE q[i] \notin cbs
    <3>1. k[i] = Append(k[i - 1], q[i])
      BY <1>3, <2>0, <2>4
    <3>2. {q[j] : j \in 1..i} \ cbs = ({q[j] : j \in 1..i - 1} \ cbs) \cup {q[i]}
      BY <2>2, <2>4
    <3>3. IsInjective(q) => q[i] \notin Range(k[i - 1])
      <4> SUFFICES ASSUME IsInjective(q), NEW j \in 1..i - 1, q[j] = q[i] PROVE FALSE
        BY <2>1
      <4>1. j \in 1..n /\ j # i
        BY <1>0, <2>0
      <4> QED
        BY <4>1, <1>0, <2>0 DEF IsInjective
    <3>4. /\ k[i] \in Seq(S) /\ Range(k[i]) = Range(k[i - 1]) \cup {q[i]}
          /\ IsInjective(k[i - 1]) /\ q[i] \notin Range(k[i - 1]) => IsInjective(k[i])
      BY <2>0, <2>1, <3>1, AppendRange
    <3>5. k[i] \in Seq(S)
      BY <3>4
    <3>6. Range(k[i]) = {q[j] : j \in 1..i} \ cbs
      BY <2>1, <3>2, <3>4
    <3>7. IsInjective(q) => IsInjective(k[i])
      BY <2>1, <3>3, <3>4
    <3> QED
      BY <2>0, <3>5, <3>6, <3>7
  <2> QED
    BY <2>3, <2>4
<1> HIDE DEF T
<1>6. n \in T
  <2>1. \A i \in 0..n : i > 0 /\ i - 1 \in T => i \in T
    BY <1>5
  <2>2. \A i \in 0..n : i \in T
    BY <1>0, <1>4, <2>1, Reaches
  <2> QED
    BY <1>0, <2>2
<1>7. {q[j] : j \in 1..n} = Range(q)
  BY <1>0 DEF Range
<1> QED
  BY <1>1, <1>6, <1>7 DEF T

---------------------------------------------------------------------------
(* struct Ssh: its type, and what each function on it keeps.               *)

States == {"length", "body", "pending_newkeys", "eof"}
Kinds == {"data", "NEWKEYS", "DISCONNECT"}

Conn == [s : BOOLEAN, bpp : BOOLEAN, layers : BOOLEAN,
         in_raw : Nat, parsed : Nat, state : States, in_pq : Seq(Kinds),
         input_eof : BOOLEAN, throttling : SUBSET Channels,
         logically_frozen : BOOLEAN, socket_frozen : BOOLEAN,
         out_pq : Nat, out_raw : Nat, backlog : Nat,
         throttled_all : BOOLEAN, pending_close : BOOLEAN,
         cbq : Seq(Callbacks), cbcurr : Callbacks \cup {"NULL"}, fault : BOOLEAN]

\* The struct is well formed and each callback is queued once.
Sane(x) == x \in Conn /\ IsInjective(x.cbq)

\* The callbacks that are queued.
Calls(x) == Range(x.cbq)

SameInput(x, y) == /\ y.in_raw = x.in_raw /\ y.parsed = x.parsed /\ y.state = x.state
                   /\ y.in_pq = x.in_pq /\ y.input_eof = x.input_eof
SameFreeze(x, y) == /\ y.throttling = x.throttling /\ y.logically_frozen = x.logically_frozen
                    /\ y.socket_frozen = x.socket_frozen
SameOutput(x, y) == /\ y.out_pq = x.out_pq /\ y.out_raw = x.out_raw /\ y.backlog = x.backlog
                    /\ y.throttled_all = x.throttled_all
SameLife(x, y) == /\ y.s = x.s /\ y.bpp = x.bpp /\ y.layers = x.layers
                  /\ y.pending_close = x.pending_close

\* A queue of callbacks put in the place of the one there was.
LEMMA NewQueue ==
  ASSUME NEW x \in Conn, NEW q \in Seq(Callbacks), IsInjective(q),
         NEW y, y = [x EXCEPT !.cbq = q]
  PROVE  /\ Sane(y) /\ Calls(y) = Range(q) /\ y.cbcurr = x.cbcurr /\ y.fault = x.fault
         /\ SameInput(x, y) /\ SameFreeze(x, y) /\ SameOutput(x, y) /\ SameLife(x, y)
BY DEF Conn, Sane, Calls, SameInput, SameFreeze, SameOutput, SameLife

\* What queue_idempotent_callback does: cb is queued, once.
Queues(x, y, cb) ==
  /\ Sane(y) /\ Calls(y) = Calls(x) \cup {cb} /\ y.cbcurr = x.cbcurr /\ y.fault = x.fault
  /\ SameInput(x, y) /\ SameFreeze(x, y) /\ SameOutput(x, y) /\ SameLife(x, y)

\* queue_idempotent_callback does just that.
LEMMA QueueOne ==
  ASSUME NEW x, Sane(x), NEW cb \in Callbacks
  PROVE  Queues(x, queue_idempotent_callback(x, cb), cb)
<1> DEFINE y == queue_idempotent_callback(x, cb)
<1>1. x \in Conn /\ x.cbq \in Seq(Callbacks) /\ IsInjective(x.cbq)
  BY DEF Sane, Conn
<1>2. CASE cb \in Range(x.cbq)
  <2>1. y = x /\ Calls(x) = Calls(x) \cup {cb}
    BY <1>2 DEF queue_idempotent_callback, Calls
  <2> HIDE DEF y
  <2> QED
    BY <2>1 DEF Queues, SameInput, SameFreeze, SameOutput, SameLife, y
<1>3. CASE cb \notin Range(x.cbq)
  <2> DEFINE q == Append(x.cbq, cb)
  <2>1. y = [x EXCEPT !.cbq = q]
    BY <1>3 DEF queue_idempotent_callback
  <2>2. q \in Seq(Callbacks) /\ Range(q) = Range(x.cbq) \cup {cb} /\ IsInjective(q)
    BY <1>1, <1>3, AppendRange
  <2> HIDE DEF q, y
  <2> QED
    BY <1>1, <2>1, <2>2, NewQueue DEF Queues, Calls, y
<1> QED
  BY <1>2, <1>3

\* delete_callbacks_for_context: the callbacks cbs are not queued any more.
LEMMA DeleteSome ==
  ASSUME NEW x, Sane(x), NEW cbs
  PROVE  LET y == delete_callbacks(x, cbs)
         IN  /\ Sane(y) /\ Calls(y) = Calls(x) \ cbs /\ y.cbcurr = x.cbcurr
             /\ y.fault = x.fault
             /\ SameInput(x, y) /\ SameFreeze(x, y) /\ SameOutput(x, y) /\ SameLife(x, y)
<1> DEFINE y == delete_callbacks(x, cbs)
           q == Without(x.cbq, cbs)
<1>1. x \in Conn /\ x.cbq \in Seq(Callbacks) /\ IsInjective(x.cbq)
  BY DEF Sane, Conn
<1>2. q \in Seq(Callbacks) /\ Range(q) = Range(x.cbq) \ cbs /\ IsInjective(q)
  BY <1>1, WithoutProps
<1>3. y = [x EXCEPT !.cbq = q]
  BY DEF delete_callbacks
<1> HIDE DEF y, q
<1> QED
  BY <1>1, <1>2, <1>3, NewQueue DEF Calls, y

\* Whether the socket is to be frozen.
Full(x) == x.logically_frozen \/ x.in_raw > SSH_MAX_BACKLOG

\* What ssh_check_frozen does: while the socket is open, it is frozen from now
\* on just if it is to be, and ic_in_raw is queued if this has thawed it.
Checks(x, y) ==
  /\ Sane(y) /\ y.cbcurr = x.cbcurr /\ y.fault = x.fault
  /\ SameInput(x, y) /\ SameOutput(x, y) /\ SameLife(x, y)
  /\ y.throttling = x.throttling /\ y.logically_frozen = x.logically_frozen
  /\ Calls(y) = Calls(x) \/ (x.s /\ Calls(y) = Calls(x) \cup {"ic_in_raw"})
  /\ x.s => /\ y.socket_frozen => Full(x)
            /\ Full(x) => y.socket_frozen
            /\ x.socket_frozen /\ ~y.socket_frozen => "ic_in_raw" \in Calls(y)

\* ssh_check_frozen does just that, whether it freezes, thaws or finds no socket.
LEMMA CheckFrozen ==
  ASSUME NEW x, Sane(x)
  PROVE  Checks(x, ssh_check_frozen(x))
<1> DEFINE y == ssh_check_frozen(x)
           b == x.logically_frozen \/ x.in_raw > SSH_MAX_BACKLOG
           z == [x EXCEPT !.socket_frozen = b]
<1>1. x \in Conn
  BY DEF Sane
<1>2. b \in BOOLEAN /\ (b <=> Full(x))
  BY DEF Full
<1>3. y = CASE ~x.s -> x
            [] x.s /\ x.socket_frozen /\ ~b -> queue_idempotent_callback(z, "ic_in_raw")
            [] OTHER -> z
  BY DEF ssh_check_frozen
<1> HIDE DEF b, y
<1>4. /\ Sane(z) /\ Calls(z) = Calls(x) /\ z.cbcurr = x.cbcurr /\ z.fault = x.fault
      /\ SameInput(x, z) /\ SameOutput(x, z) /\ SameLife(x, z)
      /\ z.throttling = x.throttling /\ z.logically_frozen = x.logically_frozen
      /\ z.socket_frozen = b
  BY <1>1, <1>2 DEF Sane, Conn, Calls, SameInput, SameOutput, SameLife
<1> HIDE DEF z
<1>5. CASE ~x.s
  <2>1. y = x
    BY <1>3, <1>5
  <2> QED
    BY <1>5, <2>1 DEF Checks, SameInput, SameOutput, SameLife, y
<1>6. CASE x.s /\ x.socket_frozen /\ ~b
  <2>1. y = queue_idempotent_callback(z, "ic_in_raw")
    BY <1>3, <1>6
  <2>2. Queues(z, y, "ic_in_raw")
    BY <1>4, <2>1, QueueOne DEF Callbacks
  <2>3. /\ Sane(y) /\ y.cbcurr = x.cbcurr /\ y.fault = x.fault
        /\ SameInput(x, y) /\ SameOutput(x, y) /\ SameLife(x, y)
        /\ y.throttling = x.throttling /\ y.logically_frozen = x.logically_frozen
        /\ Calls(y) = Calls(x) \cup {"ic_in_raw"} /\ y.socket_frozen = b
    BY <1>4, <2>2 DEF Queues, SameInput, SameFreeze, SameOutput, SameLife
  <2>4. "ic_in_raw" \in Calls(y) /\ ~y.socket_frozen /\ ~Full(x)
    BY <1>2, <1>6, <2>3
  <2> QED
    BY <1>6, <2>3, <2>4 DEF Checks, y
<1>7. CASE x.s /\ ~(x.socket_frozen /\ ~b)
  <2>1. y = z
    BY <1>3, <1>7
  <2> QED
    BY <1>2, <1>4, <1>7, <2>1 DEF Checks, y
<1> QED
  BY <1>5, <1>6, <1>7

\* What ssh_throttle_conn does: the channels T throttle the connection from now
\* on; if that makes a difference, the socket is frozen or thawed accordingly.
Throttles(x, y, T) ==
  /\ Sane(y) /\ y.cbcurr = x.cbcurr /\ y.fault = x.fault
  /\ SameInput(x, y) /\ SameOutput(x, y) /\ SameLife(x, y)
  /\ y.throttling = T
  /\ Calls(y) = Calls(x) \/ (x.s /\ Calls(y) = Calls(x) \cup {"ic_in_raw"})
  /\ \/ /\ y.logically_frozen = x.logically_frozen
        /\ y.socket_frozen = x.socket_frozen
     \/ x.s => /\ y.socket_frozen => Full(y)
               /\ Full(y) => y.socket_frozen
               /\ x.socket_frozen /\ ~y.socket_frozen => "ic_in_raw" \in Calls(y)

\* ssh_throttle_conn does just that, whether or not the count passes zero.
LEMMA ThrottleConn ==
  ASSUME NEW x, Sane(x), NEW T \in SUBSET Channels
  PROVE  Throttles(x, ssh_throttle_conn(x, T), T)
<1> DEFINE y == [x EXCEPT !.throttling = T]
           b == T # {}
           z == [y EXCEPT !.logically_frozen = b]
           r == ssh_throttle_conn(x, T)
<1>1. x \in Conn /\ b \in BOOLEAN
  BY DEF Sane
<1>2. r = IF (T = {}) = (x.throttling = {}) THEN y ELSE ssh_check_frozen(z)
  BY DEF ssh_throttle_conn
<1> HIDE DEF b
<1>3. /\ Sane(y) /\ Calls(y) = Calls(x) /\ y.cbcurr = x.cbcurr /\ y.fault = x.fault
      /\ SameInput(x, y) /\ SameOutput(x, y) /\ SameLife(x, y)
      /\ y.throttling = T /\ y.logically_frozen = x.logically_frozen
      /\ y.socket_frozen = x.socket_frozen
  BY <1>1 DEF Sane, Conn, Calls, SameInput, SameOutput, SameLife
<1> HIDE DEF y
<1>4. /\ Sane(z) /\ Calls(z) = Calls(y) /\ z.cbcurr = y.cbcurr /\ z.fault = y.fault
      /\ SameInput(y, z) /\ SameOutput(y, z) /\ SameLife(y, z)
      /\ z.throttling = y.throttling /\ z.socket_frozen = y.socket_frozen
  BY <1>1, <1>3 DEF Sane, Conn, Calls, SameInput, SameOutput, SameLife
<1> HIDE DEF z, r
<1>5. CASE (T = {}) = (x.throttling = {})
  <2>1. r = y
    BY <1>2, <1>5
  <2> QED
    BY <1>3, <2>1 DEF Throttles, r
<1>6. CASE ~((T = {}) = (x.throttling = {}))
  <2>1. r = ssh_check_frozen(z)
    BY <1>2, <1>6
  <2>2. Checks(z, r)
    BY <1>4, <2>1, CheckFrozen
  <2>3. /\ Sane(r) /\ r.cbcurr = x.cbcurr /\ r.fault = x.fault
        /\ SameInput(x, r) /\ SameOutput(x, r) /\ SameLife(x, r)
        /\ r.throttling = T
        /\ Calls(r) = Calls(x) \/ (x.s /\ Calls(r) = Calls(x) \cup {"ic_in_raw"})
    BY <1>3, <1>4, <2>2 DEF Checks, SameInput, SameOutput, SameLife
  <2>4. x.s => /\ r.socket_frozen => Full(r)
               /\ Full(r) => r.socket_frozen
               /\ x.socket_frozen /\ ~r.socket_frozen => "ic_in_raw" \in Calls(r)
    BY <1>3, <1>4, <2>2 DEF Checks, Full, SameInput, SameLife
  <2> QED
    BY <2>3, <2>4 DEF Throttles, r
<1> QED
  BY <1>5, <1>6

\* What ssh_throttle_all does.
ThrottlesAll(x, y, enable) ==
  /\ Sane(y) /\ Calls(y) = Calls(x) /\ y.cbcurr = x.cbcurr
  /\ SameInput(x, y) /\ SameFreeze(x, y) /\ SameLife(x, y)
  /\ y.out_pq = x.out_pq /\ y.out_raw = x.out_raw /\ y.backlog = x.backlog
  /\ y.throttled_all = enable

\* ssh_throttle_all does just that, and nothing if the streams are so already.
LEMMA ThrottleAll ==
  ASSUME NEW x, Sane(x), NEW enable \in BOOLEAN
  PROVE  ThrottlesAll(x, ssh_throttle_all(x, enable), enable)
<1> DEFINE y == ssh_throttle_all(x, enable)
           b == ~x.layers
           z == [x EXCEPT !.throttled_all = enable, !.fault = b]
<1>1. x \in Conn /\ b \in BOOLEAN
  BY DEF Sane
<1>2. y = IF enable = x.throttled_all THEN x ELSE z
  BY DEF ssh_throttle_all
<1> HIDE DEF y, b
<1>3. CASE enable = x.throttled_all
  <2>1. y = x
    BY <1>2, <1>3
  <2> QED
    BY <1>3, <2>1 DEF ThrottlesAll, SameInput, SameFreeze, SameLife, y
<1>4. CASE enable # x.throttled_all
  <2>1. y = z
    BY <1>2, <1>4
  <2>2. ThrottlesAll(x, z, enable)
    BY <1>1 DEF ThrottlesAll, Sane, Conn, Calls, SameInput, SameFreeze, SameLife
  <2> HIDE DEF z
  <2> QED
    BY <2>1, <2>2 DEF y
<1> QED
  BY <1>3, <1>4

\* What ssh_bpp_handle_output does: packets become bytes in out_raw, and then
\* ic_out_raw is queued.
Formats(x, y) ==
  /\ Sane(y) /\ y.cbcurr = x.cbcurr /\ y.fault = x.fault
  /\ SameInput(x, y) /\ SameFreeze(x, y) /\ SameLife(x, y)
  /\ y.out_pq = 0 /\ y.backlog = x.backlog /\ y.throttled_all = x.throttled_all
  /\ \/ Calls(y) = Calls(x) /\ y.out_raw = x.out_raw
     \/ Calls(y) = Calls(x) \cup {"ic_out_raw"}

\* ssh_bpp_handle_output does just that, with or without packets to format.
LEMMA HandleOutput ==
  ASSUME NEW x, Sane(x)
  PROVE  Formats(x, ssh_bpp_handle_output(x))
<1> DEFINE y == ssh_bpp_handle_output(x)
           k == x.out_raw + x.out_pq * OutLen
           z == [x EXCEPT !.out_raw = k, !.out_pq = 0]
<1>1. x \in Conn /\ x.out_raw \in Nat /\ x.out_pq \in Nat
  BY DEF Sane, Conn
<1>2. k \in Nat
  <2>1. OutLen \in Nat
    BY ConstAssumption
  <2>2. x.out_pq * OutLen \in Nat
    BY <1>1, <2>1
  <2> QED
    BY <1>1, <2>2
<1>3. x.out_pq = 0 => k = x.out_raw
  <2>1. OutLen \in Nat
    BY ConstAssumption
  <2>2. 0 * OutLen = 0
    BY <2>1
  <2> QED
    BY <1>1, <2>2
<1>4. y = IF x.out_pq > 0 THEN queue_idempotent_callback(z, "ic_out_raw") ELSE z
  BY DEF ssh_bpp_handle_output
<1> HIDE DEF y, k
<1>5. /\ Sane(z) /\ Calls(z) = Calls(x) /\ z.cbcurr = x.cbcurr /\ z.fault = x.fault
      /\ SameInput(x, z) /\ SameFreeze(x, z) /\ SameLife(x, z)
      /\ z.out_pq = 0 /\ z.out_raw = k /\ z.backlog = x.backlog
      /\ z.throttled_all = x.throttled_all
  BY <1>1, <1>2 DEF Sane, Conn, Calls, SameInput, SameFreeze, SameLife
<1> HIDE DEF z
<1>6. CASE x.out_pq > 0
  <2>1. y = queue_idempotent_callback(z, "ic_out_raw")
    BY <1>4, <1>6
  <2>2. Queues(z, y, "ic_out_raw")
    BY <1>5, <2>1, QueueOne DEF Callbacks
  <2> QED
    BY <1>5, <2>2 DEF Formats, Queues, SameInput, SameFreeze, SameOutput, SameLife, y
<1>7. CASE ~(x.out_pq > 0)
  <2>1. y = z /\ x.out_pq = 0
    BY <1>1, <1>4, <1>7
  <2> QED
    BY <1>3, <1>5, <2>1 DEF Formats, y
<1> QED
  BY <1>6, <1>7

\* What ssh_shutdown_internal does: the layers are freed, and no callback of
\* theirs is left.
InternalShut(x, y) ==
  /\ Sane(y) /\ Calls(y) = Calls(x) \ {"ic_process_queue"} /\ y.cbcurr = x.cbcurr
  /\ SameInput(x, y) /\ SameFreeze(x, y) /\ SameOutput(x, y)
  /\ y.s = x.s /\ y.bpp = x.bpp /\ y.layers = FALSE /\ y.pending_close = x.pending_close

\* ssh_shutdown_internal does just that.
LEMMA ShutInternal ==
  ASSUME NEW x, Sane(x)
  PROVE  InternalShut(x, ssh_shutdown_internal(x))
<1> DEFINE y == delete_callbacks(x, {"ic_process_queue"})
           z == [y EXCEPT !.layers = FALSE]
<1>1. /\ Sane(y) /\ Calls(y) = Calls(x) \ {"ic_process_queue"} /\ y.cbcurr = x.cbcurr
      /\ SameInput(x, y) /\ SameFreeze(x, y) /\ SameOutput(x, y) /\ SameLife(x, y)
  BY DeleteSome
<1>2. ssh_shutdown_internal(x) = z
  BY DEF ssh_shutdown_internal
<1> HIDE DEF y
<1>3. /\ Sane(z) /\ Calls(z) = Calls(y) /\ z.cbcurr = y.cbcurr
      /\ SameInput(y, z) /\ SameFreeze(y, z) /\ SameOutput(y, z)
      /\ z.s = y.s /\ z.bpp = y.bpp /\ z.layers = FALSE /\ z.pending_close = y.pending_close
  BY <1>1 DEF Sane, Conn, Calls, SameInput, SameFreeze, SameOutput
<1> HIDE DEF z
<1> QED
  BY <1>1, <1>2, <1>3 DEF InternalShut, SameInput, SameFreeze, SameOutput, SameLife

\* What ssh_shutdown does: socket, layers and BPP are gone, and of the callbacks
\* only ic_out_raw, which belongs to the struct itself, can be left.
Shut(x, y) ==
  /\ Sane(y) /\ y.cbcurr = x.cbcurr
  /\ Calls(y) = Calls(x) \ {"ic_process_queue", "ic_in_raw", "ic_out_pq"}
  /\ y.s = FALSE /\ y.bpp = FALSE /\ y.layers = FALSE /\ y.out_pq = 0
  /\ y.in_pq = <<>> /\ y.parsed = x.parsed /\ y.state = x.state

\* ssh_shutdown does just that.
LEMMA ShutDown ==
  ASSUME NEW x, Sane(x)
  PROVE  Shut(x, ssh_shutdown(x))
<1> DEFINE y == ssh_shutdown_internal(x)
           z == delete_callbacks(y, {"ic_in_raw", "ic_out_pq"})
           w == [z EXCEPT !.bpp = FALSE, !.s = FALSE, !.in_pq = <<>>, !.out_pq = 0,
                          !.in_raw = 0, !.out_raw = 0, !.backlog = 0]
<1>1. InternalShut(x, y)
  BY ShutInternal
<1>2. ssh_shutdown(x) = w
  BY DEF ssh_shutdown
<1> HIDE DEF y
<1>3. /\ Sane(z) /\ Calls(z) = Calls(y) \ {"ic_in_raw", "ic_out_pq"} /\ z.cbcurr = y.cbcurr
      /\ SameInput(y, z) /\ SameFreeze(y, z) /\ SameOutput(y, z) /\ SameLife(y, z)
  BY <1>1, DeleteSome DEF InternalShut
<1> HIDE DEF z
<1>4. /\ Sane(w) /\ Calls(w) = Calls(z) /\ w.cbcurr = z.cbcurr /\ w.out_pq = 0
      /\ w.s = FALSE /\ w.bpp = FALSE /\ w.layers = z.layers
      /\ w.in_pq = <<>> /\ w.parsed = z.parsed /\ w.state = z.state
  <2> DEFINE no == <<>>
             zero == 0
             off == FALSE
  <2>1. no \in Seq(Kinds) /\ zero \in Nat /\ off \in BOOLEAN
    OBVIOUS
  <2>2. w = [z EXCEPT !.bpp = off, !.s = off, !.in_pq = no, !.out_pq = zero,
                      !.in_raw = zero, !.out_raw = zero, !.backlog = zero]
    OBVIOUS
  <2>3. z \in Conn
    BY <1>3 DEF Sane
  <2> HIDE DEF w, no, zero, off
  <2>4. /\ w \in Conn /\ w.cbq = z.cbq /\ w.cbcurr = z.cbcurr /\ w.out_pq = zero
        /\ w.s = off /\ w.bpp = off /\ w.layers = z.layers
        /\ w.in_pq = no /\ w.parsed = z.parsed /\ w.state = z.state
    BY <2>1, <2>2, <2>3 DEF Conn
  <2> QED
    BY <1>3, <2>4 DEF Sane, Calls, no, zero, off
<1> HIDE DEF w
<1>5. Calls(w) = Calls(x) \ {"ic_process_queue", "ic_in_raw", "ic_out_pq"}
  BY <1>1, <1>3, <1>4 DEF InternalShut
<1> QED
  BY <1>1, <1>2, <1>3, <1>4, <1>5 DEF Shut, InternalShut, SameInput, SameLife

\* What ssh_initiate_connection_close does: the layers are freed, what they have
\* sent is formatted, and ic_out_raw will close the socket.
Closes(x, y) ==
  /\ Sane(y) /\ y.cbcurr = x.cbcurr
  /\ SameInput(x, y) /\ SameFreeze(x, y)
  /\ y.s = x.s /\ y.bpp = x.bpp /\ y.layers = FALSE /\ y.pending_close = TRUE
  /\ y.out_pq = 0 /\ y.backlog = x.backlog /\ y.throttled_all = x.throttled_all
  /\ Calls(y) = (Calls(x) \ {"ic_process_queue"}) \cup {"ic_out_raw"}

\* ssh_initiate_connection_close does just that.
LEMMA InitiateClose ==
  ASSUME NEW x, Sane(x)
  PROVE  Closes(x, ssh_initiate_connection_close(x))
<1> DEFINE y == ssh_shutdown_internal(x)
           z == ssh_bpp_handle_output(y)
           w == [z EXCEPT !.pending_close = TRUE]
           r == queue_idempotent_callback(w, "ic_out_raw")
<1>1. InternalShut(x, y)
  BY ShutInternal
<1>2. ssh_initiate_connection_close(x) = r
  BY DEF ssh_initiate_connection_close
<1> HIDE DEF y
<1>3. Formats(y, z)
  BY <1>1, HandleOutput DEF InternalShut
<1> HIDE DEF z
<1>4. /\ Sane(w) /\ Calls(w) = Calls(z) /\ w.cbcurr = z.cbcurr
      /\ SameInput(z, w) /\ SameFreeze(z, w) /\ SameOutput(z, w)
      /\ w.s = z.s /\ w.bpp = z.bpp /\ w.layers = z.layers /\ w.pending_close = TRUE
  BY <1>3 DEF Formats, Sane, Conn, Calls, SameInput, SameFreeze, SameOutput
<1> HIDE DEF w
<1>5. Queues(w, r, "ic_out_raw")
  BY <1>4, QueueOne DEF Callbacks
<1> HIDE DEF r
<1>6. Calls(r) = (Calls(x) \ {"ic_process_queue"}) \cup {"ic_out_raw"}
  BY <1>1, <1>3, <1>4, <1>5 DEF InternalShut, Formats, Queues
<1>7. SameInput(x, r) /\ SameFreeze(x, r)
  BY <1>1, <1>3, <1>4, <1>5
     DEF InternalShut, Formats, Queues, SameInput, SameFreeze
<1> QED
  BY <1>1, <1>2, <1>3, <1>4, <1>5, <1>6, <1>7
     DEF Closes, InternalShut, Formats, Queues, SameOutput, SameLife

\* What SendPacket does.
Sends(x, y) ==
  /\ Sane(y) /\ Calls(y) = Calls(x) \cup {"ic_out_pq"} /\ y.cbcurr = x.cbcurr
  /\ SameInput(x, y) /\ SameFreeze(x, y) /\ SameLife(x, y)
  /\ y.out_raw = x.out_raw /\ y.backlog = x.backlog /\ y.throttled_all = x.throttled_all

\* A packet put on out_pq does just that.
LEMMA SendOne ==
  ASSUME NEW x, Sane(x)
  PROVE  Sends(x, SendPacket(x))
<1> DEFINE y == [x EXCEPT !.out_pq = @ + 1]
           r == queue_idempotent_callback(y, "ic_out_pq")
<1>1. x \in Conn /\ x.out_pq + 1 \in Nat
  BY DEF Sane, Conn
<1>2. /\ Sane(y) /\ Calls(y) = Calls(x) /\ y.cbcurr = x.cbcurr
      /\ SameInput(x, y) /\ SameFreeze(x, y) /\ SameLife(x, y)
      /\ y.out_raw = x.out_raw /\ y.backlog = x.backlog /\ y.throttled_all = x.throttled_all
  BY <1>1 DEF Sane, Conn, Calls, SameInput, SameFreeze, SameLife
<1>3. SendPacket(x) = r
  BY DEF SendPacket
<1> HIDE DEF y
<1>4. Queues(y, r, "ic_out_pq")
  BY <1>2, QueueOne DEF Callbacks
<1> HIDE DEF r
<1> QED
  BY <1>2, <1>3, <1>4
     DEF Sends, Queues, SameInput, SameFreeze, SameOutput, SameLife

\* What ssh_receive does: n bytes more in in_raw, the socket frozen if there are
\* now too many, and ic_in_raw queued unless a channel throttles.
Receives(x, y, n) ==
  /\ Sane(y) /\ y.cbcurr = x.cbcurr /\ y.fault = x.fault
  /\ y.in_raw = x.in_raw + n /\ y.parsed = x.parsed /\ y.state = x.state
  /\ y.in_pq = x.in_pq /\ y.input_eof = x.input_eof
  /\ SameOutput(x, y) /\ SameLife(x, y)
  /\ y.throttling = x.throttling /\ y.logically_frozen = x.logically_frozen
  /\ Calls(y) = Calls(x) \/ Calls(y) = Calls(x) \cup {"ic_in_raw"}
  /\ ~x.logically_frozen => "ic_in_raw" \in Calls(y)
  /\ x.s => /\ y.socket_frozen => Full(y)
            /\ Full(y) => y.socket_frozen
            /\ x.socket_frozen /\ ~y.socket_frozen => "ic_in_raw" \in Calls(y)

\* ssh_receive does just that, frozen or not.
LEMMA Receive ==
  ASSUME NEW x, Sane(x), NEW n \in Nat
  PROVE  Receives(x, ssh_receive(x, n), n)
<1> DEFINE k == x.in_raw + n
           y == [x EXCEPT !.in_raw = k]
           z == IF x.logically_frozen THEN y ELSE queue_idempotent_callback(y, "ic_in_raw")
           r == ssh_check_frozen(z)
<1>1. x \in Conn /\ k \in Nat
  BY DEF Sane, Conn
<1> HIDE DEF k
<1>2. /\ Sane(y) /\ Calls(y) = Calls(x) /\ y.cbcurr = x.cbcurr /\ y.fault = x.fault
      /\ y.in_raw = k /\ y.parsed = x.parsed /\ y.state = x.state
      /\ y.in_pq = x.in_pq /\ y.input_eof = x.input_eof
      /\ SameFreeze(x, y) /\ SameOutput(x, y) /\ SameLife(x, y)
  BY <1>1 DEF Sane, Conn, Calls, SameFreeze, SameOutput, SameLife
<1>3. ssh_receive(x, n) = r
  BY DEF ssh_receive, k
<1> HIDE DEF y
<1>4. (z = y /\ x.logically_frozen) \/ Queues(y, z, "ic_in_raw")
  BY <1>2, QueueOne DEF Callbacks
<1> HIDE DEF z
<1>5. /\ Sane(z) /\ z.cbcurr = x.cbcurr /\ z.fault = x.fault
      /\ z.in_raw = k /\ z.parsed = x.parsed /\ z.state = x.state
      /\ z.in_pq = x.in_pq /\ z.input_eof = x.input_eof
      /\ SameFreeze(x, z) /\ SameOutput(x, z) /\ SameLife(x, z)
      /\ Calls(z) = Calls(x) \/ Calls(z) = Calls(x) \cup {"ic_in_raw"}
      /\ ~x.logically_frozen => "ic_in_raw" \in Calls(z)
  BY <1>2, <1>4 DEF Queues, SameInput, SameFreeze, SameOutput, SameLife
<1>6. Checks(z, r)
  BY <1>5, CheckFrozen
<1> HIDE DEF r
<1>7. /\ Calls(r) = Calls(x) \/ Calls(r) = Calls(x) \cup {"ic_in_raw"}
      /\ ~x.logically_frozen => "ic_in_raw" \in Calls(r)
  BY <1>5, <1>6 DEF Checks
<1>8. x.s => /\ r.socket_frozen => Full(r)
             /\ Full(r) => r.socket_frozen
             /\ x.socket_frozen /\ ~r.socket_frozen => "ic_in_raw" \in Calls(r)
  BY <1>5, <1>6 DEF Checks, Full, SameInput, SameFreeze, SameLife
<1>9. SameOutput(x, r) /\ SameLife(x, r)
  BY <1>5, <1>6 DEF Checks, SameOutput, SameLife
<1>10. /\ Sane(r) /\ r.cbcurr = x.cbcurr /\ r.fault = x.fault
       /\ r.in_raw = k /\ r.parsed = x.parsed /\ r.state = x.state
       /\ r.in_pq = x.in_pq /\ r.input_eof = x.input_eof
       /\ r.throttling = x.throttling /\ r.logically_frozen = x.logically_frozen
  BY <1>5, <1>6 DEF Checks, SameInput, SameFreeze
<1> QED
  BY <1>3, <1>7, <1>8, <1>9, <1>10 DEF Receives, k

\* What ssh_sent does: enough left to send, or the streams let go and another
\* turn for out_raw.
Reports(x, y, bufsize) ==
  /\ Sane(y) /\ y.cbcurr = x.cbcurr
  /\ SameInput(x, y) /\ SameFreeze(x, y) /\ SameLife(x, y)
  /\ y.out_pq = x.out_pq /\ y.out_raw = x.out_raw /\ y.backlog = bufsize
  /\ \/ y.backlog >= SSH_MAX_BACKLOG /\ Calls(y) = Calls(x)
     \/ y.throttled_all = FALSE /\ Calls(y) = Calls(x) \cup {"ic_out_raw"}

\* ssh_sent does just that.
LEMMA Sent ==
  ASSUME NEW x, Sane(x), NEW bufsize \in Nat
  PROVE  Reports(x, ssh_sent(x, bufsize), bufsize)
<1> DEFINE y == [x EXCEPT !.backlog = bufsize]
           z == ssh_throttle_all(y, FALSE)
           w == queue_idempotent_callback(z, "ic_out_raw")
           r == ssh_sent(x, bufsize)
<1>1. x \in Conn /\ SSH_MAX_BACKLOG \in Nat
  BY ConstAssumption DEF Sane
<1>2. /\ Sane(y) /\ Calls(y) = Calls(x) /\ y.cbcurr = x.cbcurr
      /\ SameInput(x, y) /\ SameFreeze(x, y) /\ SameLife(x, y)
      /\ y.out_pq = x.out_pq /\ y.out_raw = x.out_raw /\ y.backlog = bufsize
  BY <1>1 DEF Sane, Conn, Calls, SameInput, SameFreeze, SameLife
<1>3. r = IF bufsize < SSH_MAX_BACKLOG THEN w ELSE y
  BY DEF ssh_sent
<1> HIDE DEF y, r
<1>4. ThrottlesAll(y, z, FALSE)
  BY <1>2, ThrottleAll
<1> HIDE DEF z
<1>5. Queues(z, w, "ic_out_raw")
  BY <1>4, QueueOne DEF ThrottlesAll, Callbacks
<1> HIDE DEF w
<1>6. CASE bufsize < SSH_MAX_BACKLOG
  <2>1. r = w
    BY <1>3, <1>6
  <2>2. SameInput(x, w) /\ SameFreeze(x, w) /\ SameLife(x, w)
    BY <1>2, <1>4, <1>5 DEF ThrottlesAll, Queues, SameInput, SameFreeze, SameLife
  <2>3. /\ Sane(w) /\ w.cbcurr = x.cbcurr
        /\ w.out_pq = x.out_pq /\ w.out_raw = x.out_raw /\ w.backlog = bufsize
        /\ w.throttled_all = FALSE /\ Calls(w) = Calls(x) \cup {"ic_out_raw"}
    BY <1>2, <1>4, <1>5 DEF ThrottlesAll, Queues, SameOutput
  <2> QED
    BY <2>1, <2>2, <2>3 DEF Reports, r
<1>7. CASE ~(bufsize < SSH_MAX_BACKLOG)
  <2>1. r = y /\ y.backlog >= SSH_MAX_BACKLOG
    BY <1>1, <1>2, <1>3, <1>7
  <2> QED
    BY <1>2, <2>1 DEF Reports, r
<1> QED
  BY <1>6, <1>7

\* What PushPacket does: a packet more in in_pq, and ic_process_queue queued for
\* it if there is still a layer to take it.
Pushes(x, y, kind) ==
  /\ Sane(y) /\ y.cbcurr = x.cbcurr
  /\ y.in_pq = Append(x.in_pq, kind)
  /\ y.in_raw = x.in_raw /\ y.parsed = x.parsed /\ y.state = x.state
  /\ SameFreeze(x, y) /\ SameOutput(x, y) /\ SameLife(x, y)
  /\ \/ x.layers /\ Calls(y) = Calls(x) \cup {"ic_process_queue"}
     \/ Calls(y) = Calls(x)

\* A packet put on in_pq does just that.
LEMMA PushOne ==
  ASSUME NEW x, Sane(x), NEW kind \in Kinds
  PROVE  Pushes(x, PushPacket(x, kind), kind)
<1> DEFINE q == Append(x.in_pq, kind)
           y == [x EXCEPT !.in_pq = q]
           z == [y EXCEPT !.fault = TRUE]
           w == queue_idempotent_callback(y, "ic_process_queue")
           r == PushPacket(x, kind)
<1>1. x \in Conn /\ q \in Seq(Kinds)
  BY DEF Sane, Conn
<1>2. r = IF y.layers THEN w ELSE z
  BY DEF PushPacket
<1> HIDE DEF q, r
<1>3. /\ Sane(y) /\ Calls(y) = Calls(x) /\ y.cbcurr = x.cbcurr /\ y.in_pq = q
      /\ y.in_raw = x.in_raw /\ y.parsed = x.parsed /\ y.state = x.state
      /\ SameFreeze(x, y) /\ SameOutput(x, y) /\ SameLife(x, y)
  BY <1>1 DEF Sane, Conn, Calls, SameFreeze, SameOutput, SameLife
<1> HIDE DEF y
<1>4. CASE y.layers
  <2>1. r = w
    BY <1>2, <1>4
  <2>2. Queues(y, w, "ic_process_queue")
    BY <1>3, QueueOne DEF Callbacks
  <2> HIDE DEF w
  <2>3. SameFreeze(x, w) /\ SameOutput(x, w) /\ SameLife(x, w)
    BY <1>3, <2>2 DEF Queues, SameFreeze, SameOutput, SameLife
  <2> QED
    BY <1>3, <1>4, <2>1, <2>2, <2>3 DEF Pushes, Queues, SameInput, SameLife, q, r
<1>5. CASE ~y.layers
  <2>1. r = z
    BY <1>2, <1>5
  <2>2. /\ Sane(z) /\ Calls(z) = Calls(y) /\ z.cbcurr = y.cbcurr
        /\ SameInput(y, z) /\ SameFreeze(y, z) /\ SameOutput(y, z) /\ SameLife(y, z)
    BY <1>3 DEF Sane, Conn, Calls, SameInput, SameFreeze, SameOutput, SameLife
  <2> HIDE DEF z
  <2>3. SameFreeze(x, z) /\ SameOutput(x, z) /\ SameLife(x, z)
    BY <1>3, <2>2 DEF SameFreeze, SameOutput, SameLife
  <2> QED
    BY <1>3, <2>1, <2>2, <2>3 DEF Pushes, SameInput, q, r
<1> QED
  BY <1>4, <1>5

\* The end of a callback.
LEMMA Returns ==
  ASSUME NEW x, Sane(x)
  PROVE  /\ Sane(Return(x)) /\ Calls(Return(x)) = Calls(x) /\ Return(x).cbcurr = "NULL"
         /\ SameInput(x, Return(x)) /\ SameFreeze(x, Return(x))
         /\ SameOutput(x, Return(x)) /\ SameLife(x, Return(x))
<1>1. x \in Conn
  BY DEF Sane
<1> DEFINE y == [x EXCEPT !.cbcurr = "NULL"]
<1>2. /\ Sane(y) /\ Calls(y) = Calls(x) /\ y.cbcurr = "NULL"
      /\ SameInput(x, y) /\ SameFreeze(x, y) /\ SameOutput(x, y) /\ SameLife(x, y)
  BY <1>1 DEF Sane, Conn, Calls, SameInput, SameFreeze, SameOutput, SameLife
<1> HIDE DEF y
<1> QED
  BY <1>2 DEF Return, y

---------------------------------------------------------------------------
(* The inductive invariant.                                                *)

\* Callback cb is running or still to run.
Pending(x, cb) == cb \in Calls(x) \/ x.cbcurr = cb

\* The BPP outlives the layers and the socket, the callbacks of a freed object
\* are gone, and the layers are freed only when the socket is or is to be.
Owned(x) ==
  /\ x.layers \/ x.s => x.bpp
  /\ Pending(x, "ic_process_queue") => x.layers
  /\ Pending(x, "ic_in_raw") => x.bpp
  /\ x.s /\ ~x.layers => x.pending_close

\* NoOutputStall, in the middle of a callback too.
Flows(x) == x.s =>
  /\ x.throttled_all => x.backlog >= SSH_MAX_BACKLOG
  /\ x.out_raw > 0 => Pending(x, "ic_out_raw") \/ x.backlog >= SSH_MAX_BACKLOG

\* The new keys are awaited just while their packet is the last one in in_pq.
KeysLast(x) ==
  \A i \in 1..Len(x.in_pq) :
    x.in_pq[i] = "NEWKEYS" => i = Len(x.in_pq) /\ x.state = "pending_newkeys"

\* f gives, for every number of packets of q, how many bytes they are.
Offsets(f, q) ==
  /\ f \in [0..Len(q) -> Nat] /\ f[0] = 0
  /\ \A i \in 1..Len(q) : f[i] = f[i - 1] + 1 + q[i].body

\* Every byte of the packets q sent is unread, in in_raw, or of a packet, or
\* a length field, that has been parsed; n bytes are unread.
Counted(x, q, n) ==
  x.bpp /\ x.state # "eof" =>
    \E f \in [0..Len(q) -> Nat] :
      /\ Offsets(f, q)
      /\ n + x.in_raw + f[x.parsed] + (IF x.state = "body" THEN 1 ELSE 0) = f[Len(q)]

\* What a read is asked for next, as Wanted.
NextLen(x, q) == IF x.state = "length" THEN 1 ELSE q[x.parsed + 1].body
Parsing(x) == x.state \in {"length", "body"}

\* While the BPP does not run and is not to run, it has parsed all that can be
\* parsed, and the socket is frozen for one of the three reasons.
Drained(x, q) ==
  /\ x.s /\ x.logically_frozen => x.socket_frozen
  /\ x.s /\ ~x.pending_close /\ x.state # "eof" /\ ~Pending(x, "ic_in_raw") =>
       /\ Parsing(x) => x.in_raw < NextLen(x, q)
       /\ x.socket_frozen =>
            \/ x.logically_frozen \/ x.state = "pending_newkeys"
            \/ x.state = "body" /\ NextLen(x, q) > SSH_MAX_BACKLOG

ConnInv(x, q, n) ==
  /\ Sane(x) /\ Owned(x) /\ Flows(x) /\ KeysLast(x)
  /\ x.parsed <= Len(q) /\ Counted(x, q, n) /\ Drained(x, q)

IndInv ==
  /\ sent \in Seq(Packets) /\ unread \in Nat /\ fin \in BOOLEAN /\ produced \in 0..MaxOut
  /\ ConnInv(ssh, sent, unread)

\* A function that does not touch the input leaves it accounted for.
LEMMA SameAccount ==
  ASSUME NEW x, NEW y, NEW q, NEW n, SameInput(x, y), y.bpp => x.bpp
  PROVE  /\ KeysLast(x) => KeysLast(y)
         /\ x.parsed <= Len(q) => y.parsed <= Len(q)
         /\ Counted(x, q, n) => Counted(y, q, n)
         /\ NextLen(y, q) = NextLen(x, q) /\ (Parsing(y) <=> Parsing(x))
BY DEF SameInput, KeysLast, Counted, NextLen, Parsing

\* Every packet has a body.
LEMMA PacketBody ==
  ASSUME NEW p \in Packets
  PROVE  p.body \in Nat /\ p.body >= 1
<1>1. Bodies \subseteq Nat \ {0}
  BY ConstAssumption
<1>2. p.body \in Bodies \cup {1}
  BY DEF Packets
<1> DEFINE b == p.body
<1> HIDE DEF b
<1>3. CASE b \in Bodies
  <2>1. b \in Nat /\ b # 0
    BY <1>1, <1>3
  <2> QED
    BY <2>1 DEF b
<1>4. CASE b = 1
  BY <1>4 DEF b
<1> QED
  BY <1>2, <1>3, <1>4 DEF b

\* What is in in_raw, and what is being parsed, is of a packet that was sent.
LEMMA InBounds ==
  ASSUME NEW q \in Seq(Packets), NEW n \in Nat, NEW x \in Conn, x.bpp,
         x.parsed <= Len(q), Counted(x, q, n), Parsing(x),
         x.state = "body" \/ x.in_raw >= 1
  PROVE  /\ x.parsed + 1 \in 1..Len(q) /\ q[x.parsed + 1] \in Packets
         /\ NextLen(x, q) \in Nat /\ NextLen(x, q) >= 1
<1>0. /\ x.parsed \in Nat /\ x.in_raw \in Nat /\ Len(q) \in Nat
      /\ x.state = "length" \/ x.state = "body"
  BY DEF Conn, Parsing
<1>1. x.parsed # Len(q)
  <2> SUFFICES ASSUME x.parsed = Len(q) PROVE FALSE
    OBVIOUS
  <2>1. PICK f \in [0..Len(q) -> Nat] :
          n + x.in_raw + f[x.parsed] + (IF x.state = "body" THEN 1 ELSE 0) = f[Len(q)]
    BY <1>0 DEF Counted
  <2>2. f[Len(q)] \in Nat
    BY <1>0
  <2> DEFINE k == IF x.state = "body" THEN 1 ELSE 0
  <2>3. k \in Nat /\ n + x.in_raw + f[Len(q)] + k = f[Len(q)] /\ (k >= 1 \/ x.in_raw >= 1)
    BY <2>1
  <2> HIDE DEF k
  <2> QED
    BY <1>0, <2>2, <2>3
<1>2. x.parsed + 1 \in 1..Len(q)
  BY <1>0, <1>1
<1>3. q[x.parsed + 1] \in Packets
  BY <1>2
<1>4. q[x.parsed + 1].body \in Nat /\ q[x.parsed + 1].body >= 1
  BY <1>3, PacketBody
<1> QED
  BY <1>2, <1>3, <1>4 DEF NextLen

\* A packet that is read to its end is one more that is accounted for.
LEMMA NextCounted ==
  ASSUME NEW q \in Seq(Packets), NEW n \in Nat, NEW x \in Conn, x.bpp,
         x.parsed <= Len(q), Counted(x, q, n), Parsing(x),
         x.in_raw >= NextLen(x, q), x.state = "body" \/ x.in_raw >= 1,
         NEW y, y.in_raw = x.in_raw - NextLen(x, q),
         \/ x.state = "length" /\ y.parsed = x.parsed /\ y.state = "body"
         \/ x.state = "body" /\ y.parsed = x.parsed + 1 /\ y.state # "body"
  PROVE  /\ y.in_raw \in Nat /\ y.parsed \in Nat /\ y.parsed <= Len(q)
         /\ Counted(y, q, n)
<1> DEFINE k == NextLen(x, q)
<1>0. /\ x.parsed \in Nat /\ x.in_raw \in Nat /\ Len(q) \in Nat
  BY DEF Conn
<1>1. x.parsed + 1 \in 1..Len(q) /\ k \in Nat
  BY InBounds
<1>2. x.state # "eof"
  BY DEF Parsing
<1>3. PICK f \in [0..Len(q) -> Nat] :
        /\ Offsets(f, q)
        /\ n + x.in_raw + f[x.parsed] + (IF x.state = "body" THEN 1 ELSE 0) = f[Len(q)]
  BY <1>2 DEF Counted
<1>4. /\ x.parsed \in 0..Len(q) /\ x.parsed + 1 \in 0..Len(q)
      /\ f[x.parsed] \in Nat /\ f[x.parsed + 1] \in Nat /\ f[Len(q)] \in Nat
  BY <1>0, <1>1
<1>5. x.parsed + 1 - 1 = x.parsed
  BY <1>0
<1>6. f[x.parsed + 1] = f[x.parsed] + 1 + q[x.parsed + 1].body
  <2> DEFINE i == x.parsed + 1
  <2>1. f[i] = f[i - 1] + 1 + q[i].body
    <3>1. i \in 1..Len(q)
      BY <1>1
    <3> HIDE DEF i
    <3> QED
      BY <1>3, <3>1 DEF Offsets
  <2>2. i - 1 = x.parsed
    BY <1>0
  <2> HIDE DEF i
  <2>3. f[i] = f[x.parsed] + 1 + q[i].body
    BY <2>1, <2>2
  <2> QED
    BY <2>3 DEF i
<1>7. CASE x.state = "length"
  <2>1. k = 1
    BY <1>7 DEF NextLen
  <2>2. y.in_raw = x.in_raw - 1 /\ y.parsed = x.parsed /\ y.state = "body"
    BY <1>7, <2>1
  <2>3. n + x.in_raw + f[x.parsed] = f[Len(q)]
    BY <1>0, <1>3, <1>4, <1>7
  <2>4. n + y.in_raw + f[y.parsed] + 1 = f[Len(q)]
    BY SMTT(30), <1>0, <1>4, <2>2, <2>3
  <2>5. y.in_raw \in Nat /\ y.parsed \in Nat /\ y.parsed <= Len(q)
    BY <1>0, <1>1, <1>7, <2>2
  <2> QED
    BY <1>3, <2>2, <2>4, <2>5 DEF Counted
<1>8. CASE x.state = "body"
  <2>1. k = q[x.parsed + 1].body
    BY <1>8 DEF NextLen
  <2>2. y.in_raw = x.in_raw - k /\ y.parsed = x.parsed + 1 /\ y.state # "body"
    BY <1>8
  <2>3. n + x.in_raw + f[x.parsed] + 1 = f[Len(q)]
    BY <1>3, <1>8
  <2> HIDE DEF k
  <2>4. n + y.in_raw + f[y.parsed] + 0 = f[Len(q)]
    <3> DEFINE r == x.in_raw
               a == f[x.parsed]
               z == f[Len(q)]
    <3>0. /\ r \in Nat /\ a \in Nat /\ z \in Nat /\ k \in Nat /\ n \in Nat
          /\ n + r + a + 1 = z
      BY <1>0, <1>1, <1>4, <2>3
    <3>1. n + (x.in_raw - k) + (f[x.parsed] + 1 + k) + 0 = f[Len(q)]
      <4> HIDE DEF r, a, z
      <4>1. n + (r - k) + (a + 1 + k) + 0 = z
        BY <3>0
      <4> QED
        BY <4>1 DEF r, a, z
    <3>2. f[y.parsed] = f[x.parsed] + 1 + k
      BY <1>6, <2>1, <2>2
    <3> QED
      BY <2>2, <3>1, <3>2
  <2>5. y.in_raw \in Nat /\ y.parsed \in Nat /\ y.parsed <= Len(q)
    BY <1>0, <1>1, <2>2 DEF k
  <2> QED
    BY <1>3, <2>2, <2>4, <2>5 DEF Counted
<1> QED
  BY <1>7, <1>8 DEF Parsing

\* Bytes that are read from the socket are accounted for where they are.
LEMMA MovedCounted ==
  ASSUME NEW q, NEW n \in Nat, NEW k \in Nat, k <= n, NEW x, x.in_raw \in Nat,
         Counted(x, q, n),
         NEW y, y.in_raw = x.in_raw + k, y.parsed = x.parsed, y.state = x.state,
         y.bpp = x.bpp
  PROVE  Counted(y, q, n - k)
<1> SUFFICES ASSUME y.bpp, y.state # "eof" PROVE Counted(y, q, n - k)
  BY DEF Counted
<1>1. PICK f \in [0..Len(q) -> Nat] :
        /\ Offsets(f, q)
        /\ n + x.in_raw + f[x.parsed] + (IF x.state = "body" THEN 1 ELSE 0) = f[Len(q)]
  BY DEF Counted
<1>2. (n - k) + (x.in_raw + k) = n + x.in_raw
  OBVIOUS
<1>3. (n - k) + y.in_raw + f[y.parsed] + (IF y.state = "body" THEN 1 ELSE 0) = f[Len(q)]
  BY <1>1, <1>2
<1> QED
  BY <1>1, <1>3 DEF Counted

\* A packet that the server sends is accounted for as unread.
LEMMA SentCounted ==
  ASSUME NEW q \in Seq(Packets), NEW n \in Nat, NEW p \in Packets, NEW x \in Conn,
         x.parsed <= Len(q), Counted(x, q, n)
  PROVE  Counted(x, Append(q, p), n + 1 + p.body)
<1> DEFINE r == Append(q, p)
           m == Len(q)
<1> SUFFICES ASSUME x.bpp, x.state # "eof" PROVE Counted(x, r, n + 1 + p.body)
  BY DEF Counted
<1>0. /\ x.parsed \in Nat /\ x.in_raw \in Nat /\ m \in Nat
      /\ r \in Seq(Packets) /\ Len(r) = m + 1 /\ r[m + 1] = p
      /\ \A i \in 1..m : r[i] = q[i]
  BY DEF Conn
<1>1. p.body \in Nat
  BY ConstAssumption DEF Packets
<1>2. PICK f \in [0..m -> Nat] :
        /\ Offsets(f, q)
        /\ n + x.in_raw + f[x.parsed] + (IF x.state = "body" THEN 1 ELSE 0) = f[m]
  BY DEF Counted
<1>3. f[m] \in Nat /\ x.parsed \in 0..m /\ f[x.parsed] \in Nat
  BY <1>0
<1> DEFINE e == f[m] + 1 + p.body
           g == [i \in 0..m + 1 |-> IF i = m + 1 THEN e ELSE f[i]]
<1>4. e \in Nat
  BY <1>1, <1>3
<1> HIDE DEF e, r
<1>5. g \in [0..m + 1 -> Nat]
  <2>1. \A i \in 0..m + 1 : i = m + 1 \/ i \in 0..m
    BY <1>0
  <2> QED
    BY <1>4, <2>1
<1>6. g[m + 1] = e /\ \A i \in 0..m : g[i] = f[i]
  BY <1>0
<1> HIDE DEF g
<1>7. Offsets(g, r)
  <2>1. g[0] = 0
    BY <1>0, <1>2, <1>6 DEF Offsets
  <2>2. ASSUME NEW i \in 1..m + 1 PROVE g[i] = g[i - 1] + 1 + r[i].body
    <3>1. CASE i = m + 1
      <4>1. i - 1 = m /\ m \in 0..m
        BY <1>0, <3>1
      <4> QED
        BY <1>0, <1>6, <3>1, <4>1 DEF e
    <3>2. CASE i # m + 1
      <4>1. i \in 1..m /\ i \in 0..m /\ i - 1 \in 0..m
        BY <1>0, <3>2
      <4> QED
        BY <1>0, <1>2, <1>6, <4>1 DEF Offsets
    <3> QED
      BY <3>1, <3>2
  <2> QED
    BY <1>0, <1>5, <2>1, <2>2 DEF Offsets
<1> DEFINE k == IF x.state = "body" THEN 1 ELSE 0
<1>8. k \in Nat /\ n + x.in_raw + f[x.parsed] + k = f[m]
  BY <1>2
<1> HIDE DEF k
<1>9. (n + 1 + p.body) + x.in_raw + g[x.parsed] + k = g[m + 1]
  <2>1. (n + 1 + p.body) + x.in_raw + f[x.parsed] + k = f[m] + 1 + p.body
    <3> DEFINE u == x.in_raw
               a == f[x.parsed]
               z == f[m]
               b == p.body
    <3>1. /\ u \in Nat /\ a \in Nat /\ z \in Nat /\ k \in Nat /\ n \in Nat /\ b \in Nat
          /\ n + u + a + k = z
      BY <1>0, <1>1, <1>3, <1>8
    <3> HIDE DEF u, a, z, b
    <3>2. (n + 1 + b) + u + a + k = z + 1 + b
      BY <3>1
    <3> QED
      BY <3>2 DEF u, a, z, b
  <2> QED
    BY <1>3, <1>6, <2>1 DEF e
<1> QED
  BY <1>0, <1>5, <1>7, <1>9 DEF Counted, k, r

---------------------------------------------------------------------------
(* Steps that keep the invariant.                                          *)

Keeps(x, y, q, n) == ConnInv(x, q, n) => ConnInv(y, q, n)

\* A step that does not touch the input, that leaves the queued ic_in_raw alone
\* and that leaves the socket as it was, or frozen as ssh_check_frozen does.
Mild(x, y) ==
  /\ Sane(y) /\ SameInput(x, y) /\ SameLife(x, y)
  /\ Flows(x) => Flows(y)
  /\ Pending(y, "ic_process_queue") => Pending(x, "ic_process_queue")
  /\ Pending(y, "ic_in_raw") => Pending(x, "ic_in_raw") \/ x.s
  /\ Pending(x, "ic_in_raw") => Pending(y, "ic_in_raw")
  /\ \/ y.logically_frozen = x.logically_frozen /\ y.socket_frozen = x.socket_frozen
     \/ y.s => (y.socket_frozen => Full(y)) /\ (Full(y) => y.socket_frozen)

\* What ssh_check_frozen freezes the socket for, when no read can go on.
LEMMA FrozenReason ==
  ASSUME NEW q \in Seq(Packets), NEW n \in Nat, NEW x \in Conn, x.bpp,
         x.parsed <= Len(q), Counted(x, q, n), Full(x), x.state # "eof",
         Parsing(x) => x.in_raw < NextLen(x, q)
  PROVE  \/ x.logically_frozen \/ x.state = "pending_newkeys"
         \/ x.state = "body" /\ NextLen(x, q) > SSH_MAX_BACKLOG
<1> SUFFICES ASSUME ~x.logically_frozen, x.state # "pending_newkeys"
             PROVE  x.state = "body" /\ NextLen(x, q) > SSH_MAX_BACKLOG
  OBVIOUS
<1>0. SSH_MAX_BACKLOG \in Nat /\ SSH_MAX_BACKLOG >= 1 /\ x.in_raw \in Nat
  BY ConstAssumption DEF Conn
<1>1. x.in_raw > SSH_MAX_BACKLOG
  BY DEF Full
<1>2. Parsing(x)
  BY DEF Conn, States, Parsing
<1>3. NextLen(x, q) \in Nat
  <2>1. x.in_raw >= 1
    BY <1>0, <1>1
  <2> QED
    BY <1>2, <2>1, InBounds
<1>4. NextLen(x, q) > SSH_MAX_BACKLOG /\ NextLen(x, q) # 1
  BY <1>0, <1>1, <1>2, <1>3
<1>5. x.state = "body"
  BY <1>2, <1>4 DEF NextLen, Parsing
<1> QED
  BY <1>4, <1>5

\* Such a step keeps the invariant.
LEMMA MildKeeps ==
  ASSUME NEW q \in Seq(Packets), NEW n \in Nat, NEW x, NEW y, Mild(x, y)
  PROVE  Keeps(x, y, q, n)
<1> SUFFICES ASSUME ConnInv(x, q, n) PROVE ConnInv(y, q, n)
  BY DEF Keeps
<1>1. Sane(y) /\ y \in Conn /\ Flows(y)
  BY DEF Mild, Sane, ConnInv
<1>2. Owned(y)
  BY DEF Mild, ConnInv, Owned, SameLife
<1>3. SameInput(x, y) /\ y.bpp = x.bpp
  BY DEF Mild, SameLife
<1>4. KeysLast(y) /\ y.parsed <= Len(q) /\ Counted(y, q, n)
  <2>1. KeysLast(x) /\ x.parsed <= Len(q) /\ Counted(x, q, n)
    BY DEF ConnInv
  <2> QED
    BY <1>3, <2>1, SameAccount
<1>5. NextLen(y, q) = NextLen(x, q) /\ (Parsing(y) <=> Parsing(x))
  BY <1>3, SameAccount
<1>6. Drained(x, q)
  BY DEF ConnInv
<1>7. CASE y.logically_frozen = x.logically_frozen /\ y.socket_frozen = x.socket_frozen
  <2>1. Drained(y, q)
    BY <1>3, <1>5, <1>6, <1>7 DEF Drained, Mild, SameInput, SameLife
  <2> QED
    BY <1>1, <1>2, <1>4, <2>1 DEF ConnInv
<1>8. CASE y.s => (y.socket_frozen => Full(y)) /\ (Full(y) => y.socket_frozen)
  <2>1. y.s /\ y.logically_frozen => y.socket_frozen
    BY <1>8 DEF Full
  <2>2. ASSUME y.s, ~y.pending_close, y.state # "eof", ~Pending(y, "ic_in_raw")
        PROVE  Parsing(y) => y.in_raw < NextLen(y, q)
    BY <1>3, <1>5, <1>6, <2>2 DEF Drained, Mild, SameInput, SameLife
  <2>3. ASSUME y.s, ~y.pending_close, y.state # "eof", ~Pending(y, "ic_in_raw"),
               y.socket_frozen
        PROVE  \/ y.logically_frozen \/ y.state = "pending_newkeys"
               \/ y.state = "body" /\ NextLen(y, q) > SSH_MAX_BACKLOG
    <3>1. Full(y) /\ y.bpp
      BY <1>2, <1>8, <2>3 DEF Owned
    <3> QED
      BY <1>1, <1>4, <2>2, <2>3, <3>1, FrozenReason
  <2>4. Drained(y, q)
    BY <2>1, <2>2, <2>3 DEF Drained
  <2> QED
    BY <1>1, <1>2, <1>4, <2>4 DEF ConnInv
<1> QED
  BY <1>7, <1>8 DEF Mild

\* Between callbacks, or as the last thing in one, with all else as in x.
Returned(x, y) ==
  /\ Sane(y) /\ Calls(y) = Calls(x) /\ y.cbcurr = "NULL"
  /\ SameInput(x, y) /\ SameFreeze(x, y) /\ SameOutput(x, y) /\ SameLife(x, y)

\* A connection that has been shut down has little left that could be wrong.
LEMMA ShutKeeps ==
  ASSUME NEW q, NEW n, NEW x, NEW y, Shut(x, y), NEW z, Returned(y, z),
         x.parsed <= Len(q)
  PROVE  ConnInv(z, q, n)
<1>1. /\ Sane(z) /\ z.cbcurr = "NULL" /\ z.s = FALSE /\ z.bpp = FALSE /\ z.layers = FALSE
      /\ z.in_pq = <<>> /\ z.parsed = x.parsed
      /\ Calls(z) = Calls(x) \ {"ic_process_queue", "ic_in_raw", "ic_out_pq"}
  BY DEF Shut, Returned, SameInput, SameLife
<1>2. Owned(z)
  BY <1>1 DEF Owned, Pending
<1>3. Flows(z) /\ Counted(z, q, n) /\ Drained(z, q)
  BY <1>1 DEF Flows, Counted, Drained
<1>4. KeysLast(z)
  <2>1. 1..Len(<<>>) = {}
    OBVIOUS
  <2> QED
    BY <1>1, <2>1 DEF KeysLast
<1> QED
  BY <1>1, <1>2, <1>3, <1>4 DEF ConnInv

\* A connection that is to be closed keeps what it has to send, and its input is
\* not read for anybody any more.
LEMMA CloseKeeps ==
  ASSUME NEW q, NEW n, NEW x, NEW y, Closes(x, y), NEW z, Returned(y, z),
         ConnInv(x, q, n)
  PROVE  ConnInv(z, q, n)
<1>1. /\ Sane(z) /\ z.cbcurr = "NULL" /\ SameInput(x, z) /\ SameFreeze(x, z)
      /\ z.s = x.s /\ z.bpp = x.bpp /\ z.layers = FALSE /\ z.pending_close = TRUE
      /\ z.backlog = x.backlog /\ z.throttled_all = x.throttled_all
      /\ Calls(z) = (Calls(x) \ {"ic_process_queue"}) \cup {"ic_out_raw"}
  BY DEF Closes, Returned, SameInput, SameFreeze, SameLife, SameOutput
<1>2. Owned(z)
  BY <1>1 DEF ConnInv, Owned, Pending
<1>3. Flows(z)
  BY <1>1 DEF ConnInv, Flows, Pending
<1>4. KeysLast(z) /\ z.parsed <= Len(q) /\ Counted(z, q, n)
  <2>1. KeysLast(x) /\ x.parsed <= Len(q) /\ Counted(x, q, n)
    BY DEF ConnInv
  <2> QED
    BY <1>1, <2>1, SameAccount
<1>5. Drained(z, q)
  BY <1>1 DEF ConnInv, Drained, SameFreeze
<1> QED
  BY <1>1, <1>2, <1>3, <1>4, <1>5 DEF ConnInv

---------------------------------------------------------------------------
(* The actions.                                                            *)

\* What the invariant says of the struct, in the form the lemmas above ask for.
LEMMA StructFacts ==
  ASSUME IndInv
  PROVE  /\ Sane(ssh) /\ ssh \in Conn /\ Owned(ssh) /\ Flows(ssh) /\ KeysLast(ssh)
         /\ ssh.parsed <= Len(sent) /\ Counted(ssh, sent, unread) /\ Drained(ssh, sent)
         /\ ssh.parsed \in Nat /\ ssh.in_raw \in Nat /\ ssh.out_raw \in Nat
         /\ ssh.backlog \in Nat /\ ssh.out_pq \in Nat
         /\ ssh.cbq \in Seq(Callbacks) /\ ssh.in_pq \in Seq(Kinds)
         /\ sent \in Seq(Packets) /\ unread \in Nat
         /\ SSH_MAX_BACKLOG \in Nat /\ SSH_MAX_BACKLOG >= 1
<1>1. ConnInv(ssh, sent, unread) /\ sent \in Seq(Packets) /\ unread \in Nat
  BY DEF IndInv
<1>2. Sane(ssh) /\ ssh \in Conn
  BY <1>1 DEF ConnInv, Sane
<1>3. /\ ssh.parsed \in Nat /\ ssh.in_raw \in Nat /\ ssh.out_raw \in Nat
      /\ ssh.backlog \in Nat /\ ssh.out_pq \in Nat
      /\ ssh.cbq \in Seq(Callbacks) /\ ssh.in_pq \in Seq(Kinds)
  BY <1>2 DEF Conn
<1> QED
  BY <1>1, <1>2, <1>3, ConstAssumption DEF ConnInv

\* A mild step of the struct alone.
LEMMA MildStep ==
  ASSUME IndInv, Mild(ssh, ssh')
  PROVE  ConnInv(ssh', sent, unread)
<1>1. Keeps(ssh, ssh', sent, unread)
  BY MildKeeps DEF IndInv
<1> QED
  BY <1>1 DEF Keeps, IndInv

\* A callback that begins: it was queued and is running now.
LEMMA RunCallbackKeeps ==
  ASSUME IndInv, RunCallback
  PROVE  ConnInv(ssh', sent, unread)
<1>1. ssh.cbcurr = "NULL" /\ ssh.cbq # <<>>
  BY DEF RunCallback, Idle
<1> DEFINE h == Head(ssh.cbq)
           r == Tail(ssh.cbq)
           y == [ssh EXCEPT !.cbcurr = h, !.cbq = r]
<1>2. ssh' = y
  BY DEF RunCallback
<1>3. ssh \in Conn /\ ssh.cbq \in Seq(Callbacks) /\ IsInjective(ssh.cbq)
  BY StructFacts DEF Sane
<1>4. /\ h \in Callbacks /\ r \in Seq(Callbacks) /\ Calls(ssh) = {h} \cup Range(r)
      /\ IsInjective(r)
  BY <1>1, <1>3, TailRange DEF Calls
<1> HIDE DEF h, r
<1>5. /\ Sane(y) /\ Calls(y) = Range(r) /\ y.cbcurr = h
      /\ SameInput(ssh, y) /\ SameFreeze(ssh, y) /\ SameOutput(ssh, y) /\ SameLife(ssh, y)
  BY <1>3, <1>4 DEF Sane, Conn, Calls, SameInput, SameFreeze, SameOutput, SameLife
<1> HIDE DEF y
<1>6. \A cb \in Callbacks : Pending(y, cb) <=> Pending(ssh, cb)
  BY <1>1, <1>4, <1>5 DEF Pending, Callbacks
<1>7. /\ Pending(y, "ic_out_raw") <=> Pending(ssh, "ic_out_raw")
      /\ Pending(y, "ic_in_raw") <=> Pending(ssh, "ic_in_raw")
      /\ Pending(y, "ic_process_queue") <=> Pending(ssh, "ic_process_queue")
  BY <1>6 DEF Callbacks
<1>8. Mild(ssh, y)
  BY <1>5, <1>7 DEF Mild, Flows, SameOutput, SameLife, SameFreeze
<1> QED
  BY <1>2, <1>8, MildStep

\* The callback of the base layer has found nothing to do.
LEMMA ProcessDoneKeeps ==
  ASSUME IndInv, ProcessDone
  PROVE  ConnInv(ssh', sent, unread)
<1> DEFINE y == Return(ssh)
<1>1. ssh' = y /\ ssh.cbcurr = "ic_process_queue" /\ Sane(ssh)
  BY StructFacts DEF ProcessDone, Running
<1>2. /\ Sane(y) /\ Calls(y) = Calls(ssh) /\ y.cbcurr = "NULL"
      /\ SameInput(ssh, y) /\ SameFreeze(ssh, y) /\ SameOutput(ssh, y) /\ SameLife(ssh, y)
  BY <1>1, Returns
<1> HIDE DEF y
<1>3. Mild(ssh, y)
  BY <1>1, <1>2 DEF Mild, Pending, Flows, SameOutput, SameLife, SameFreeze
<1> QED
  BY <1>1, <1>3, MildStep

\* Packets become bytes, and ic_out_raw is queued for them.
LEMMA FormatPacketsKeeps ==
  ASSUME IndInv, FormatPackets
  PROVE  ConnInv(ssh', sent, unread)
<1> DEFINE y == ssh_bpp_handle_output(ssh)
           z == Return(y)
<1>1. ssh' = z /\ ssh.cbcurr = "ic_out_pq" /\ Sane(ssh)
  BY StructFacts DEF FormatPackets, Running
<1>2. Formats(ssh, y)
  BY <1>1, HandleOutput
<1> HIDE DEF y
<1>3. /\ Sane(z) /\ Calls(z) = Calls(y) /\ z.cbcurr = "NULL"
      /\ SameInput(y, z) /\ SameFreeze(y, z) /\ SameOutput(y, z) /\ SameLife(y, z)
  BY <1>2, Returns DEF Formats
<1> HIDE DEF z
<1>4. SameInput(ssh, z) /\ SameFreeze(ssh, z) /\ SameLife(ssh, z)
  BY <1>2, <1>3 DEF Formats, SameInput, SameFreeze, SameLife
<1>5. Flows(ssh) => Flows(z)
  BY <1>1, <1>2, <1>3, <1>4 DEF Formats, Flows, Pending, SameOutput, SameLife
<1>6. /\ "ic_in_raw" \in Calls(z) <=> "ic_in_raw" \in Calls(ssh)
      /\ "ic_process_queue" \in Calls(z) <=> "ic_process_queue" \in Calls(ssh)
  BY <1>2, <1>3 DEF Formats
<1>7. Mild(ssh, z)
  BY <1>1, <1>3, <1>4, <1>5, <1>6 DEF Mild, Pending, SameFreeze
<1> QED
  BY <1>1, <1>7, MildStep

\* The socket reports what is left to send.
LEMMA FD_WRITEKeeps ==
  ASSUME IndInv, FD_WRITE
  PROVE  ConnInv(ssh', sent, unread)
<1>1. PICK bufsize \in 0..(ssh.backlog - 1) : ssh' = ssh_sent(ssh, bufsize)
  BY DEF FD_WRITE
<1>2. bufsize \in Nat /\ Sane(ssh) /\ ssh.cbcurr = "NULL"
  BY <1>1, StructFacts DEF FD_WRITE, Idle
<1> DEFINE y == ssh_sent(ssh, bufsize)
<1>3. Reports(ssh, y, bufsize)
  BY <1>2, Sent
<1> HIDE DEF y
<1>4. Flows(ssh) => Flows(y)
  BY <1>2, <1>3 DEF Reports, Flows, Pending, SameLife
<1>5. /\ "ic_in_raw" \in Calls(y) <=> "ic_in_raw" \in Calls(ssh)
      /\ "ic_process_queue" \in Calls(y) <=> "ic_process_queue" \in Calls(ssh)
  BY <1>3 DEF Reports
<1>6. Mild(ssh, y)
  BY <1>2, <1>3, <1>4, <1>5 DEF Mild, Reports, Pending, SameFreeze
<1> QED
  BY <1>1, <1>6, MildStep DEF y

\* A packet of this side is queued.
LEMMA SendMild ==
  ASSUME NEW x, NEW y, Sends(x, y)
  PROVE  Mild(x, y)
<1>1. Flows(x) => Flows(y)
  BY DEF Sends, Flows, Pending, SameLife
<1>2. /\ Pending(y, "ic_in_raw") <=> Pending(x, "ic_in_raw")
      /\ Pending(y, "ic_process_queue") <=> Pending(x, "ic_process_queue")
  BY DEF Sends, Pending
<1> QED
  BY <1>1, <1>2 DEF Mild, Sends, SameFreeze

\* A channel begins or ends to throttle the connection.
LEMMA ThrottleMild ==
  ASSUME NEW x, NEW y, NEW T, Throttles(x, y, T)
  PROVE  Mild(x, y)
<1>1. Flows(x) => Flows(y)
  BY DEF Throttles, Flows, Pending, SameLife, SameOutput
<1>2. /\ Pending(x, "ic_in_raw") => Pending(y, "ic_in_raw")
      /\ Pending(y, "ic_in_raw") => Pending(x, "ic_in_raw") \/ x.s
      /\ Pending(y, "ic_process_queue") <=> Pending(x, "ic_process_queue")
  BY DEF Throttles, Pending
<1>3. y.s = x.s
  BY DEF Throttles, SameLife
<1> QED
  BY <1>1, <1>2, <1>3 DEF Mild, Throttles

\* A local stream sends.
LEMMA LocalDataKeeps ==
  ASSUME IndInv, LocalData
  PROVE  ConnInv(ssh', sent, unread)
<1>1. ssh' = SendPacket(ssh) /\ Sane(ssh)
  BY StructFacts DEF LocalData
<1>2. Sends(ssh, ssh')
  BY <1>1, SendOne
<1> QED
  BY <1>2, SendMild, MildStep

\* A channel lets go.
LEMMA UnthrottleKeeps ==
  ASSUME IndInv, Unthrottle
  PROVE  ConnInv(ssh', sent, unread)
<1>1. PICK c \in ssh.throttling : ssh' = ssh_throttle_conn(ssh, ssh.throttling \ {c})
  BY DEF Unthrottle
<1> DEFINE T == ssh.throttling \ {c}
<1>2. Sane(ssh) /\ T \in SUBSET Channels
  BY StructFacts DEF Conn
<1> HIDE DEF T
<1>3. Throttles(ssh, ssh_throttle_conn(ssh, T), T)
  BY <1>2, ThrottleConn
<1>4. Throttles(ssh, ssh', T)
  BY <1>1, <1>3 DEF T
<1> QED
  BY <1>4, ThrottleMild, MildStep

\* The user closes the session.
LEMMA UserCloseKeeps ==
  ASSUME IndInv, ssh_user_close
  PROVE  ConnInv(ssh', sent, unread)
<1>1. ssh' = ssh_initiate_connection_close(ssh) /\ Sane(ssh) /\ ssh.cbcurr = "NULL"
  BY StructFacts DEF ssh_user_close, Idle
<1>2. Closes(ssh, ssh')
  BY <1>1, InitiateClose
<1>3. Returned(ssh', ssh')
  BY <1>1, <1>2 DEF Closes, Returned, SameInput, SameFreeze, SameOutput, SameLife
<1> QED
  BY <1>2, <1>3, CloseKeeps DEF IndInv

\* The connection breaks.
LEMMA NetworkErrorKeeps ==
  ASSUME IndInv, NetworkError
  PROVE  ConnInv(ssh', sent, unread)
<1>1. /\ ssh' = ssh_shutdown(ssh) /\ Sane(ssh) /\ ssh.cbcurr = "NULL"
      /\ ssh.parsed <= Len(sent)
  BY StructFacts DEF NetworkError, Idle
<1>2. Shut(ssh, ssh')
  BY <1>1, ShutDown
<1>3. Returned(ssh', ssh')
  BY <1>1, <1>2 DEF Shut, Returned, SameInput, SameFreeze, SameOutput, SameLife
<1> QED
  BY <1>1, <1>2, <1>3, ShutKeeps

\* A block of out_raw goes to the socket.
LEMMA WriteRawKeeps ==
  ASSUME IndInv, WriteRaw
  PROVE  ConnInv(ssh', sent, unread)
<1>1. /\ Sane(ssh) /\ ssh \in Conn /\ ssh.cbcurr = "ic_out_raw" /\ ssh.s
      /\ ssh.out_raw \in Nat /\ ssh.backlog \in Nat /\ Flows(ssh)
      /\ SSH_MAX_BACKLOG \in Nat /\ SSH_MAX_BACKLOG >= 1
  BY StructFacts DEF WriteRaw, Running
<1>2. PICK n \in 1..ssh.out_raw :
      \E backlog \in (IF ssh.backlog > 0 THEN {ssh.backlog + n} ELSE 0..n) :
        LET x == [ssh EXCEPT !.out_raw = @ - n, !.backlog = backlog]
        IN  ssh' = IF backlog > SSH_MAX_BACKLOG
                     THEN Return(ssh_throttle_all(x, TRUE)) ELSE x
  BY DEF WriteRaw
<1>3. PICK backlog \in (IF ssh.backlog > 0 THEN {ssh.backlog + n} ELSE 0..n) :
        LET x == [ssh EXCEPT !.out_raw = @ - n, !.backlog = backlog]
        IN  ssh' = IF backlog > SSH_MAX_BACKLOG
                     THEN Return(ssh_throttle_all(x, TRUE)) ELSE x
  BY <1>2
<1> DEFINE k == ssh.out_raw - n
           x == [ssh EXCEPT !.out_raw = k, !.backlog = backlog]
           y == ssh_throttle_all(x, TRUE)
           z == Return(y)
<1>4. k \in Nat /\ backlog \in Nat /\ (ssh.backlog > 0 => backlog >= ssh.backlog)
  BY <1>1
<1>5. ssh' = IF backlog > SSH_MAX_BACKLOG THEN z ELSE x
  BY <1>3
<1> HIDE DEF k
<1>6. /\ Sane(x) /\ Calls(x) = Calls(ssh) /\ x.cbcurr = "ic_out_raw"
      /\ SameInput(ssh, x) /\ SameFreeze(ssh, x) /\ SameLife(ssh, x)
      /\ x.backlog = backlog /\ x.throttled_all = ssh.throttled_all
  BY <1>1, <1>4 DEF Sane, Conn, Calls, SameInput, SameFreeze, SameLife
<1> HIDE DEF x
<1>7. CASE backlog > SSH_MAX_BACKLOG
  <2>1. ssh' = z
    BY <1>5, <1>7
  <2>2. ThrottlesAll(x, y, TRUE)
    BY <1>6, ThrottleAll
  <2> HIDE DEF y
  <2>3. /\ Sane(z) /\ Calls(z) = Calls(y) /\ z.cbcurr = "NULL"
        /\ SameInput(y, z) /\ SameFreeze(y, z) /\ SameOutput(y, z) /\ SameLife(y, z)
    BY <2>2, Returns DEF ThrottlesAll
  <2> HIDE DEF z
  <2>4. SameInput(ssh, z) /\ SameFreeze(ssh, z) /\ SameLife(ssh, z)
    BY <1>6, <2>2, <2>3 DEF ThrottlesAll, SameInput, SameFreeze, SameLife
  <2>5. Calls(z) = Calls(ssh) /\ z.backlog = backlog
    BY <1>6, <2>2, <2>3 DEF ThrottlesAll, SameOutput
  <2>6. z.backlog >= SSH_MAX_BACKLOG
    BY <1>1, <1>4, <1>7, <2>5
  <2>7. Flows(z)
    BY <2>6 DEF Flows
  <2>8. Mild(ssh, z)
    BY <1>1, <2>3, <2>4, <2>5, <2>7 DEF Mild, Pending, SameFreeze
  <2> QED
    BY <2>1, <2>8, MildStep
<1>8. CASE ~(backlog > SSH_MAX_BACKLOG)
  <2>1. ssh' = x
    BY <1>5, <1>8
  <2>2. x.throttled_all => x.backlog >= SSH_MAX_BACKLOG
    <3>1. ssh.throttled_all => ssh.backlog >= SSH_MAX_BACKLOG
      BY <1>1 DEF Flows
    <3>2. ssh.throttled_all => backlog >= SSH_MAX_BACKLOG
      BY <1>1, <1>4, <3>1
    <3> QED
      BY <1>6, <3>2
  <2>3. Flows(x)
    BY <1>6, <2>2 DEF Flows, Pending
  <2>4. Mild(ssh, x)
    BY <1>1, <1>6, <2>3 DEF Mild, Pending, SameFreeze
  <2> QED
    BY <2>1, <2>4, MildStep
<1> QED
  BY <1>7, <1>8

\* All of out_raw is written; a close that was pending closes the socket.
LEMMA WriteDoneKeeps ==
  ASSUME IndInv, WriteDone
  PROVE  ConnInv(ssh', sent, unread)
<1>1. /\ Sane(ssh) /\ ssh.cbcurr = "ic_out_raw" /\ (ssh.s => ssh.out_raw = 0)
      /\ Flows(ssh) /\ sent \in Seq(Packets) /\ unread \in Nat /\ ConnInv(ssh, sent, unread)
  BY StructFacts DEF WriteDone, Running, IndInv
<1> DEFINE x == ssh_check_frozen(ssh)
           w == [x EXCEPT !.s = FALSE, !.backlog = 0]
           y == IF ssh.s /\ ssh.pending_close THEN w ELSE x
           z == Return(y)
<1>2. ssh' = z
  BY DEF WriteDone
<1>3. Checks(ssh, x)
  BY <1>1, CheckFrozen
<1> HIDE DEF x
<1>4. CASE ~(ssh.s /\ ssh.pending_close)
  <2>1. y = x
    BY <1>4
  <2> DEFINE u == Return(x)
  <2>2. /\ Sane(u) /\ Calls(u) = Calls(x) /\ u.cbcurr = "NULL"
        /\ SameInput(x, u) /\ SameFreeze(x, u) /\ SameOutput(x, u) /\ SameLife(x, u)
    BY <1>3, Returns DEF Checks
  <2>3. ssh' = u
    BY <1>2, <2>1
  <2> HIDE DEF u
  <2>4. SameInput(ssh, u) /\ SameOutput(ssh, u) /\ SameLife(ssh, u)
    BY <1>3, <2>2 DEF Checks, SameInput, SameOutput, SameLife
  <2>5. Flows(u)
    <3>1. ssh.s => ~(ssh.out_raw > 0)
      BY <1>1
    <3> QED
      BY <1>1, <2>4, <3>1 DEF Flows, SameOutput, SameLife
  <2>6. /\ Pending(ssh, "ic_in_raw") => Pending(u, "ic_in_raw")
        /\ Pending(u, "ic_in_raw") => Pending(ssh, "ic_in_raw") \/ ssh.s
        /\ Pending(u, "ic_process_queue") => Pending(ssh, "ic_process_queue")
    BY <1>1, <1>3, <2>2 DEF Checks, Pending
  <2>7. u.s => (u.socket_frozen => Full(u)) /\ (Full(u) => u.socket_frozen)
    BY <1>3, <2>2 DEF Checks, Full, SameInput, SameFreeze, SameLife
  <2>8. Mild(ssh, u)
    BY <2>2, <2>4, <2>5, <2>6, <2>7 DEF Mild
  <2> QED
    BY <2>3, <2>8, MildStep
<1>5. CASE ssh.s /\ ssh.pending_close
  <2>1. y = w
    BY <1>5
  <2>2. /\ Sane(w) /\ Calls(w) = Calls(x) /\ w.cbcurr = x.cbcurr
        /\ SameInput(x, w) /\ w.s = FALSE /\ w.bpp = x.bpp /\ w.layers = x.layers
    BY <1>3 DEF Checks, Sane, Conn, Calls, SameInput
  <2> HIDE DEF w
  <2> DEFINE u == Return(w)
  <2>3. /\ Sane(u) /\ Calls(u) = Calls(w) /\ u.cbcurr = "NULL"
        /\ SameInput(w, u) /\ SameLife(w, u)
    BY <2>2, Returns
  <2>4. ssh' = u
    BY <1>2, <2>1
  <2> HIDE DEF u
  <2>5. /\ SameInput(ssh, u) /\ u.s = FALSE /\ u.bpp = ssh.bpp /\ u.layers = ssh.layers
        /\ Calls(u) = Calls(ssh) \/ Calls(u) = Calls(ssh) \cup {"ic_in_raw"}
    BY <1>3, <2>2, <2>3 DEF Checks, SameInput, SameLife
  <2>6. Owned(ssh)
    BY <1>1 DEF ConnInv
  <2>7. Owned(u)
    BY <1>1, <1>5, <2>3, <2>5, <2>6 DEF Owned, Pending
  <2>8. Flows(u) /\ Drained(u, sent)
    BY <2>5 DEF Flows, Drained
  <2>9. KeysLast(u) /\ u.parsed <= Len(sent) /\ Counted(u, sent, unread)
    <3>1. KeysLast(ssh) /\ ssh.parsed <= Len(sent) /\ Counted(ssh, sent, unread)
      BY <1>1 DEF ConnInv
    <3> QED
      BY <2>5, <3>1, SameAccount
  <2>10. ConnInv(u, sent, unread)
    BY <2>3, <2>7, <2>8, <2>9 DEF ConnInv
  <2> QED
    BY <2>4, <2>10
<1> QED
  BY <1>4, <1>5

\* What ssh_receive leaves is accounted for, if the socket was not frozen or is
\* frozen just if it is to be and the BPP is to run.
LEMMA ReceiveKeeps ==
  ASSUME NEW q \in Seq(Packets), NEW n \in Nat, NEW k \in Nat, k <= n,
         NEW x, ConnInv(x, q, n), x.s, NEW y, Receives(x, y, k)
  PROVE  /\ Sane(y) /\ Owned(y) /\ Flows(y) /\ KeysLast(y) /\ y.parsed <= Len(q)
         /\ Counted(y, q, n - k) /\ y.s /\ y.bpp
         /\ y.logically_frozen => y.socket_frozen
<1>1. Sane(y) /\ SameOutput(x, y) /\ SameLife(x, y)
  BY DEF Receives
<1>2. x \in Conn /\ x.in_raw \in Nat /\ x.bpp
  BY DEF ConnInv, Sane, Conn, Owned
<1>3. Owned(y)
  BY <1>1, <1>2 DEF ConnInv, Owned, Pending, SameLife, Receives
<1>4. Flows(y)
  BY <1>1 DEF ConnInv, Flows, Pending, SameLife, SameOutput, Receives
<1>5. KeysLast(y) /\ y.parsed <= Len(q)
  BY DEF ConnInv, KeysLast, Receives
<1>6. Counted(y, q, n - k)
  <2>1. Counted(x, q, n)
    BY DEF ConnInv
  <2>2. /\ y.in_raw = x.in_raw + k /\ y.parsed = x.parsed /\ y.state = x.state
        /\ y.bpp = x.bpp
    BY <1>1 DEF Receives, SameLife
  <2> QED
    BY <1>2, <2>1, <2>2, MovedCounted
<1>7. y.logically_frozen => y.socket_frozen
  BY DEF Receives, Full
<1> QED
  BY <1>1, <1>2, <1>3, <1>4, <1>5, <1>6, <1>7 DEF SameLife

\* The socket delivers some of the stream: it was not frozen, so no channel
\* throttled and ic_in_raw is queued.
LEMMA FD_READKeeps ==
  ASSUME IndInv, FD_READ
  PROVE  ConnInv(ssh', sent, unread') /\ unread' \in Nat
<1>1. PICK n \in 1..RecvBuf : n <= unread /\ unread' = unread - n /\ ssh' = ssh_receive(ssh, n)
  BY DEF FD_READ
<1>2. RecvBuf \in Nat
  BY ConstAssumption
<1>3. /\ n \in Nat /\ unread \in Nat /\ sent \in Seq(Packets) /\ ConnInv(ssh, sent, unread)
      /\ Sane(ssh) /\ ssh.s /\ ~ssh.socket_frozen
  BY <1>2, StructFacts DEF IndInv, FD_READ
<1>4. Receives(ssh, ssh', n)
  BY <1>1, <1>3, Receive
<1>5. /\ Sane(ssh') /\ Owned(ssh') /\ Flows(ssh') /\ KeysLast(ssh')
      /\ ssh'.parsed <= Len(sent)
      /\ Counted(ssh', sent, unread - n) /\ (ssh'.logically_frozen => ssh'.socket_frozen)
  BY <1>1, <1>3, <1>4, ReceiveKeeps
<1>6. ~ssh.logically_frozen
  BY <1>3 DEF ConnInv, Drained
<1>7. Pending(ssh', "ic_in_raw")
  BY <1>4, <1>6 DEF Receives, Pending
<1>8. Drained(ssh', sent)
  BY <1>5, <1>7 DEF Drained
<1>9. unread' \in Nat /\ unread' = unread - n
  BY <1>1, <1>3
<1> QED
  BY <1>5, <1>8, <1>9 DEF ConnInv

\* The stream ends: what is left of it is read, and ic_in_raw is queued.
LEMMA FD_CLOSEKeeps ==
  ASSUME IndInv, FD_CLOSE
  PROVE  ConnInv(ssh', sent, unread') /\ unread' \in Nat
<1> DEFINE x == IF unread > 0 THEN ssh_receive(ssh, unread) ELSE ssh
           y == [x EXCEPT !.input_eof = TRUE]
           z == queue_idempotent_callback(y, "ic_in_raw")
<1>1. ssh' = z /\ unread' = 0
  BY DEF FD_CLOSE
<1>2. /\ unread \in Nat /\ sent \in Seq(Packets) /\ ConnInv(ssh, sent, unread)
      /\ Sane(ssh) /\ ssh.s
  BY StructFacts DEF IndInv, FD_CLOSE
<1>3. /\ Sane(x) /\ Owned(x) /\ Flows(x) /\ KeysLast(x) /\ x.parsed <= Len(sent)
      /\ Counted(x, sent, 0) /\ x.s /\ x.bpp /\ (x.logically_frozen => x.socket_frozen)
  <2>1. CASE unread > 0
    <3>1. x = ssh_receive(ssh, unread)
      BY <2>1
    <3>2. Receives(ssh, x, unread)
      BY <1>2, <3>1, Receive
    <3>3. unread <= unread /\ unread - unread = 0
      BY <1>2
    <3> HIDE DEF x
    <3>4. /\ Sane(x) /\ Owned(x) /\ Flows(x) /\ KeysLast(x) /\ x.parsed <= Len(sent)
          /\ Counted(x, sent, unread - unread) /\ x.s /\ x.bpp
          /\ x.logically_frozen => x.socket_frozen
      BY <1>2, <3>2, <3>3, ReceiveKeeps
    <3> QED
      BY <3>3, <3>4
  <2>2. CASE ~(unread > 0)
    <3>1. x = ssh /\ unread = 0
      BY <1>2, <2>2
    <3> HIDE DEF x
    <3> QED
      BY <1>2, <3>1 DEF ConnInv, Owned, Drained
  <2> QED
    BY <2>1, <2>2
<1> HIDE DEF x
<1>4. /\ Sane(y) /\ Calls(y) = Calls(x) /\ y.cbcurr = x.cbcurr
      /\ y.in_raw = x.in_raw /\ y.parsed = x.parsed /\ y.state = x.state
      /\ y.in_pq = x.in_pq
      /\ SameFreeze(x, y) /\ SameOutput(x, y) /\ SameLife(x, y)
  BY <1>3 DEF Sane, Conn, Calls, SameFreeze, SameOutput, SameLife
<1> HIDE DEF y
<1>5. Queues(y, z, "ic_in_raw")
  BY <1>4, QueueOne DEF Callbacks
<1> HIDE DEF z
<1>6. /\ Sane(z) /\ Calls(z) = Calls(x) \cup {"ic_in_raw"} /\ z.cbcurr = x.cbcurr
      /\ z.in_raw = x.in_raw /\ z.parsed = x.parsed /\ z.state = x.state
      /\ z.in_pq = x.in_pq
      /\ SameFreeze(x, z) /\ SameOutput(x, z) /\ SameLife(x, z)
  BY <1>4, <1>5 DEF Queues, SameInput, SameFreeze, SameOutput, SameLife
<1>7. Owned(z)
  BY <1>3, <1>6 DEF Owned, Pending, SameLife
<1>8. Flows(z)
  BY <1>3, <1>6 DEF Flows, Pending, SameLife, SameOutput
<1>9. KeysLast(z) /\ z.parsed <= Len(sent)
  BY <1>3, <1>6 DEF KeysLast
<1>10. Counted(z, sent, 0)
  BY <1>3, <1>6 DEF Counted, SameLife
<1>11. Drained(z, sent)
  BY <1>3, <1>6 DEF Drained, Pending, SameFreeze, SameLife
<1> QED
  BY <1>1, <1>6, <1>7, <1>8, <1>9, <1>10, <1>11 DEF ConnInv

\* The server sends a packet; what is being parsed stays what it was.
LEMMA ServerSendsKeeps ==
  ASSUME IndInv, ServerSends
  PROVE  ConnInv(ssh', sent', unread') /\ sent' \in Seq(Packets) /\ unread' \in Nat
<1>1. PICK p \in Packets : sent' = Append(sent, p) /\ unread' = unread + 1 + p.body
  BY DEF ServerSends
<1>2. ssh' = ssh /\ ssh.s
  BY DEF ServerSends
<1>3. /\ unread \in Nat /\ sent \in Seq(Packets) /\ ConnInv(ssh, sent, unread)
      /\ Sane(ssh) /\ ssh \in Conn /\ Owned(ssh) /\ Flows(ssh) /\ KeysLast(ssh)
      /\ ssh.parsed <= Len(sent) /\ Counted(ssh, sent, unread) /\ Drained(ssh, sent)
      /\ ssh.parsed \in Nat
  BY StructFacts DEF IndInv
<1>4. p.body \in Nat
  BY PacketBody
<1> DEFINE r == Append(sent, p)
           b == p.body
           m == unread + 1 + b
<1>5. /\ r \in Seq(Packets) /\ Len(r) = Len(sent) + 1 /\ Len(sent) \in Nat
      /\ \A i \in 1..Len(sent) : r[i] = sent[i]
  BY <1>3
<1>6. Counted(ssh, r, m)
  BY <1>3, SentCounted
<1>7. m \in Nat
  <2> HIDE DEF b
  <2> QED
    BY <1>3, <1>4 DEF b
<1>8. sent' = r /\ unread' = m
  BY <1>1
<1> HIDE DEF r, m
<1>9. ssh.parsed <= Len(r)
  BY <1>3, <1>5
<1>10. ssh.state = "length" \/ ssh.state = "body" => NextLen(ssh, r) = NextLen(ssh, sent)
  <2>1. CASE ssh.state = "length"
    BY <2>1 DEF NextLen
  <2>2. CASE ssh.state = "body"
    <3>1. ssh.bpp
      BY <1>2, <1>3 DEF Owned
    <3>2. Parsing(ssh)
      BY <2>2 DEF Parsing
    <3>3. ssh.parsed + 1 \in 1..Len(sent)
      BY <1>3, <2>2, <3>1, <3>2, InBounds
    <3>4. r[ssh.parsed + 1] = sent[ssh.parsed + 1]
      BY <1>5, <3>3
    <3> QED
      BY <3>4 DEF NextLen
  <2> QED
    BY <2>1, <2>2
<1>11. Drained(ssh, r)
  BY <1>3, <1>10 DEF Drained, Parsing
<1>12. ConnInv(ssh, r, m)
  BY <1>3, <1>6, <1>9, <1>11 DEF ConnInv
<1> QED
  BY <1>2, <1>5, <1>7, <1>8, <1>12

\* The coroutine of the BPP gives up for now: no read can go on.
LEMMA BppWaitKeeps ==
  ASSUME IndInv, BppWait
  PROVE  ConnInv(ssh', sent, unread)
<1> DEFINE x == ssh_check_frozen(ssh)
           y == Return(x)
<1>1. ssh' = y /\ ssh.cbcurr = "ic_in_raw"
  BY DEF BppWait, Running
<1>2. /\ Sane(ssh) /\ ssh \in Conn /\ Owned(ssh) /\ Flows(ssh) /\ KeysLast(ssh)
      /\ ssh.parsed <= Len(sent) /\ Counted(ssh, sent, unread)
      /\ sent \in Seq(Packets) /\ unread \in Nat
  BY StructFacts
<1>3. Checks(ssh, x)
  BY <1>2, CheckFrozen
<1> HIDE DEF x
<1>4. /\ Sane(y) /\ Calls(y) = Calls(x) /\ y.cbcurr = "NULL"
      /\ SameInput(x, y) /\ SameFreeze(x, y) /\ SameOutput(x, y) /\ SameLife(x, y)
  BY <1>3, Returns DEF Checks
<1> HIDE DEF y
<1>5. SameInput(ssh, y) /\ SameOutput(ssh, y) /\ SameLife(ssh, y)
  BY <1>3, <1>4 DEF Checks, SameInput, SameOutput, SameLife
<1>6. Calls(y) = Calls(ssh) \/ Calls(y) = Calls(ssh) \cup {"ic_in_raw"}
  BY <1>3, <1>4 DEF Checks
<1>7. Owned(y)
  BY <1>1, <1>2, <1>4, <1>5, <1>6 DEF Owned, Pending, SameLife
<1>8. Flows(y)
  BY <1>1, <1>2, <1>4, <1>5, <1>6 DEF Flows, Pending, SameLife, SameOutput
<1>9. KeysLast(y) /\ y.parsed <= Len(sent) /\ Counted(y, sent, unread)
  BY <1>2, <1>5, SameAccount DEF SameLife
<1>10. NextLen(y, sent) = NextLen(ssh, sent) /\ (Parsing(y) <=> Parsing(ssh))
  BY <1>5, SameAccount DEF SameLife
<1>11. Parsing(y) => y.in_raw < NextLen(y, sent)
  <2>1. ssh.state = "pending_newkeys" \/ ssh.in_raw < NextLen(ssh, sent)
    BY DEF BppWait, Wanted, NextLen
  <2>2. Parsing(ssh) => ssh.state # "pending_newkeys"
    BY DEF Parsing
  <2> QED
    BY <1>5, <1>10, <2>1, <2>2 DEF SameInput
<1>12. y.s => (y.socket_frozen => Full(y)) /\ (Full(y) => y.socket_frozen)
  BY <1>3, <1>4 DEF Checks, Full, SameInput, SameFreeze, SameLife
<1>13. y \in Conn
  BY <1>4 DEF Sane
<1>14. ASSUME y.s, y.socket_frozen, y.state # "eof"
       PROVE  \/ y.logically_frozen \/ y.state = "pending_newkeys"
              \/ y.state = "body" /\ NextLen(y, sent) > SSH_MAX_BACKLOG
  <2>1. y.bpp /\ Full(y)
    BY <1>7, <1>12, <1>14 DEF Owned
  <2> QED
    BY <1>2, <1>9, <1>11, <1>13, <1>14, <2>1, FrozenReason
<1>15. Drained(y, sent)
  BY <1>11, <1>12, <1>14 DEF Drained, Full
<1> QED
  BY <1>1, <1>4, <1>7, <1>8, <1>9, <1>15 DEF ConnInv

\* The input has ended: the BPP waits for in_pq, or the connection is shut down.
LEMMA BppEofKeeps ==
  ASSUME IndInv, BppEof
  PROVE  ConnInv(ssh', sent, unread)
<1>1. /\ Sane(ssh) /\ ssh \in Conn /\ Owned(ssh) /\ Flows(ssh) /\ KeysLast(ssh)
      /\ ssh.parsed <= Len(sent) /\ ssh.cbcurr = "ic_in_raw"
  BY StructFacts DEF BppEof, Running
<1>2. CASE ssh.in_pq # <<>>
  <2> DEFINE x == [ssh EXCEPT !.state = "eof"]
             y == ssh_check_frozen(x)
             z == Return(y)
  <2>1. ssh' = z
    BY <1>2 DEF BppEof
  <2>2. /\ Sane(x) /\ Calls(x) = Calls(ssh) /\ x.cbcurr = ssh.cbcurr
        /\ x.state = "eof" /\ x.in_pq = ssh.in_pq /\ x.parsed = ssh.parsed
        /\ SameFreeze(ssh, x) /\ SameOutput(ssh, x) /\ SameLife(ssh, x)
    BY <1>1 DEF Sane, Conn, States, Calls, SameFreeze, SameOutput, SameLife
  <2> HIDE DEF x
  <2>3. Checks(x, y)
    BY <2>2, CheckFrozen
  <2> HIDE DEF y
  <2>4. /\ Sane(z) /\ Calls(z) = Calls(y) /\ z.cbcurr = "NULL"
        /\ SameInput(y, z) /\ SameFreeze(y, z) /\ SameOutput(y, z) /\ SameLife(y, z)
    BY <2>3, Returns DEF Checks
  <2> HIDE DEF z
  <2>5. /\ z.state = "eof" /\ z.in_pq = ssh.in_pq /\ z.parsed = ssh.parsed
        /\ SameOutput(ssh, z) /\ SameLife(ssh, z)
        /\ Calls(z) = Calls(ssh) \/ Calls(z) = Calls(ssh) \cup {"ic_in_raw"}
    BY <2>2, <2>3, <2>4 DEF Checks, SameInput, SameOutput, SameLife
  <2>6. Owned(z)
    BY <1>1, <2>4, <2>5 DEF Owned, Pending, SameLife
  <2>7. Flows(z)
    BY <1>1, <2>4, <2>5 DEF Flows, Pending, SameLife, SameOutput
  <2>8. KeysLast(z)
    <3>1. ssh.state # "pending_newkeys"
      BY DEF BppEof, Reading
    <3> QED
      BY <1>1, <2>5, <3>1 DEF KeysLast
  <2>9. z.s /\ z.logically_frozen => z.socket_frozen
    BY <2>2, <2>3, <2>4 DEF Checks, Full, SameInput, SameFreeze, SameLife
  <2>10. Counted(z, sent, unread) /\ Drained(z, sent)
    BY <2>5, <2>9 DEF Counted, Drained
  <2> QED
    BY <1>1, <2>1, <2>4, <2>5, <2>6, <2>7, <2>8, <2>10 DEF ConnInv
<1>3. CASE ssh.in_pq = <<>>
  <2> DEFINE x == ssh_shutdown(ssh)
             y == Return(x)
  <2>1. ssh' = y
    BY <1>3 DEF BppEof
  <2>2. Shut(ssh, x)
    BY <1>1, ShutDown
  <2> HIDE DEF x
  <2>3. Returned(x, y)
    BY <2>2, Returns DEF Shut, Returned
  <2> HIDE DEF y
  <2> QED
    BY <1>1, <2>1, <2>2, <2>3, ShutKeeps
<1> QED
  BY <1>2, <1>3

\* What taking a packet off in_pq leaves; after NEWKEYS that is an empty in_pq.
Takes(x, y) ==
  /\ Sane(y) /\ Calls(y) = Calls(x) /\ y.cbcurr = x.cbcurr
  /\ SameFreeze(x, y) /\ SameOutput(x, y) /\ SameLife(x, y)
  /\ y.in_raw = x.in_raw /\ y.parsed = x.parsed /\ y.state = x.state
  /\ Head(x.in_pq) = "NEWKEYS" => y.in_pq = <<>> /\ x.state = "pending_newkeys"

\* The invariant holds without the packet, too.
LEMMA TakeKeeps ==
  ASSUME NEW q, NEW n, NEW x, ConnInv(x, q, n), x.in_pq # <<>>,
         NEW y, y = [x EXCEPT !.in_pq = Tail(x.in_pq)]
  PROVE  ConnInv(y, q, n) /\ Takes(x, y)
<1> DEFINE p == x.in_pq
           r == Tail(p)
<1>1. Sane(x) /\ x \in Conn /\ p \in Seq(Kinds) /\ p # <<>>
  BY DEF ConnInv, Sane, Conn
<1>2. /\ r \in Seq(Kinds) /\ Len(p) \in Nat /\ Len(p) > 0 /\ Len(r) = Len(p) - 1
      /\ Head(p) = p[1] /\ \A i \in 1..Len(p) - 1 : r[i] = p[i + 1]
      /\ Len(r) = 0 => r = <<>>
  <2>1. r \in Seq(Kinds) /\ Len(p) \in Nat /\ Len(p) > 0 /\ Head(p) = p[1]
    <3> HIDE DEF p
    <3> QED
      BY <1>1
  <2>2. Len(r) = Len(p) - 1 /\ \A i \in 1..Len(p) - 1 : r[i] = p[i + 1]
    <3> HIDE DEF p
    <3> QED
      BY <1>1
  <2>3. Len(r) = 0 => r = <<>>
    <3> HIDE DEF r
    <3> QED
      BY <2>1
  <2> QED
    BY <2>1, <2>2, <2>3
<1>3. y = [x EXCEPT !.in_pq = r]
  OBVIOUS
<1> HIDE DEF r
<1>4. /\ Sane(y) /\ Calls(y) = Calls(x) /\ y.cbcurr = x.cbcurr /\ y.in_pq = r
      /\ SameFreeze(x, y) /\ SameOutput(x, y) /\ SameLife(x, y)
      /\ y.in_raw = x.in_raw /\ y.parsed = x.parsed /\ y.state = x.state
  BY <1>1, <1>2, <1>3 DEF Sane, Conn, Calls, SameFreeze, SameOutput, SameLife
<1>5. Owned(y)
  BY <1>4 DEF ConnInv, Owned, Pending, SameLife
<1>6. Flows(y)
  BY <1>4 DEF ConnInv, Flows, Pending, SameLife, SameOutput
<1>7. KeysLast(x)
  BY DEF ConnInv
<1>8. KeysLast(y)
  <2> SUFFICES ASSUME NEW i \in 1..Len(r), r[i] = "NEWKEYS"
               PROVE  i = Len(r) /\ y.state = "pending_newkeys"
    BY <1>4 DEF KeysLast
  <2>1. i \in 1..Len(p) - 1 /\ i + 1 \in 1..Len(p)
    BY <1>2
  <2>2. p[i + 1] = "NEWKEYS"
    BY <1>2, <2>1
  <2>3. i + 1 = Len(p) /\ x.state = "pending_newkeys"
    BY <1>7, <2>1, <2>2 DEF KeysLast
  <2> QED
    BY <1>2, <1>4, <2>3
<1>9. y.parsed <= Len(q) /\ Counted(y, q, n)
  BY <1>4 DEF ConnInv, Counted, SameLife
<1>10. Drained(y, q)
  BY <1>4 DEF ConnInv, Drained, Pending, Parsing, NextLen, SameFreeze, SameLife
<1>11. ConnInv(y, q, n)
  BY <1>4, <1>5, <1>6, <1>8, <1>9, <1>10 DEF ConnInv
<1>12. ASSUME Head(p) = "NEWKEYS" PROVE y.in_pq = <<>> /\ x.state = "pending_newkeys"
  <2>1. 1 \in 1..Len(p)
    BY <1>2
  <2>2. 1 = Len(p) /\ x.state = "pending_newkeys"
    BY <1>2, <1>7, <1>12, <2>1 DEF KeysLast
  <2> QED
    BY <1>2, <1>4, <2>2
<1> QED
  BY <1>4, <1>11, <1>12 DEF Takes

\* What taking a data packet comes to.
LEMMA DataKeeps ==
  ASSUME NEW q \in Seq(Packets), NEW n \in Nat, NEW x, ConnInv(x, q, n),
         NEW y, y \in TakeData(x)
  PROVE  /\ ConnInv(y, q, n)
         /\ produced < MaxOut \/ ~(y.out_pq > x.out_pq)
<1>1. Sane(x) /\ x \in Conn /\ x.out_pq \in Nat /\ x.throttling \in SUBSET Channels
  BY DEF ConnInv, Sane, Conn
<1>2. CASE y = x
  BY <1>1, <1>2
<1>3. CASE produced < MaxOut /\ y = SendPacket(x)
  <2>1. Sends(x, y)
    BY <1>1, <1>3, SendOne
  <2>2. Keeps(x, y, q, n)
    BY <2>1, SendMild, MildKeeps
  <2> QED
    BY <1>3, <2>2 DEF Keeps
<1>4. ASSUME NEW c \in Channels \ x.throttling, y = ssh_throttle_conn(x, x.throttling \cup {c})
      PROVE  ConnInv(y, q, n) /\ ~(y.out_pq > x.out_pq)
  <2> DEFINE T == x.throttling \cup {c}
  <2>1. T \in SUBSET Channels
    BY <1>1
  <2>2. y = ssh_throttle_conn(x, T)
    BY <1>4
  <2> HIDE DEF T
  <2>3. Throttles(x, y, T)
    BY <1>1, <2>1, <2>2, ThrottleConn
  <2>4. Keeps(x, y, q, n)
    BY <2>3, ThrottleMild, MildKeeps
  <2>5. y.out_pq = x.out_pq
    BY <2>3 DEF Throttles, SameOutput
  <2> QED
    BY <1>1, <2>4, <2>5 DEF Keeps
<1>5. CASE y = Return(ssh_initiate_connection_close(x))
  <2> DEFINE z == ssh_initiate_connection_close(x)
  <2>1. Closes(x, z)
    BY <1>1, InitiateClose
  <2>2. y = Return(z)
    BY <1>5
  <2> HIDE DEF z
  <2>3. Returned(z, y)
    BY <2>1, <2>2, Returns DEF Closes, Returned
  <2>4. ConnInv(y, q, n)
    BY <2>1, <2>3, CloseKeeps
  <2>5. y.out_pq = 0
    BY <2>1, <2>3 DEF Closes, Returned, SameOutput
  <2> QED
    BY <1>1, <2>4, <2>5
<1>6. \/ y = x
      \/ produced < MaxOut /\ y = SendPacket(x)
      \/ \E c \in Channels \ x.throttling : y = ssh_throttle_conn(x, x.throttling \cup {c})
      \/ y = Return(ssh_initiate_connection_close(x))
  BY DEF TakeData
<1> QED
  BY <1>2, <1>3, <1>4, <1>5, <1>6

\* The layers take a packet.
LEMMA ProcessPacketKeeps ==
  ASSUME IndInv, ProcessPacket
  PROVE  ConnInv(ssh', sent, unread) /\ produced' \in 0..MaxOut
<1> DEFINE x == [ssh EXCEPT !.in_pq = Tail(ssh.in_pq)]
<1>1. /\ Sane(ssh) /\ ConnInv(ssh, sent, unread) /\ sent \in Seq(Packets) /\ unread \in Nat
      /\ ssh.in_pq # <<>> /\ ssh.out_pq \in Nat /\ ssh.parsed <= Len(sent)
      /\ ssh.cbcurr = "ic_process_queue" /\ Owned(ssh) /\ produced \in 0..MaxOut
      /\ MaxOut \in Nat
  BY StructFacts, ConstAssumption DEF IndInv, ProcessPacket, Running
<1>2. /\ ConnInv(x, sent, unread) /\ Sane(x) /\ Calls(x) = Calls(ssh)
      /\ x.cbcurr = ssh.cbcurr
      /\ SameFreeze(ssh, x) /\ SameOutput(ssh, x) /\ SameLife(ssh, x)
      /\ x.in_raw = ssh.in_raw /\ x.parsed = ssh.parsed /\ x.state = ssh.state
      /\ Head(ssh.in_pq) = "NEWKEYS" => x.in_pq = <<>> /\ ssh.state = "pending_newkeys"
  <2>1. x = [ssh EXCEPT !.in_pq = Tail(ssh.in_pq)]
    OBVIOUS
  <2> HIDE DEF x
  <2>2. ConnInv(x, sent, unread) /\ Takes(ssh, x)
    BY <1>1, <2>1, TakeKeeps
  <2> QED
    BY <2>2 DEF Takes
<1>3. \/ ssh' \in TakeData(x)
      \/ Head(ssh.in_pq) = "NEWKEYS" /\ ssh' = ssh2_bpp_new_incoming_crypto(x)
      \/ ssh' = Return(ssh_shutdown(ssh))
  BY DEF ProcessPacket
<1>4. produced' = IF ssh'.out_pq > ssh.out_pq THEN produced + 1 ELSE produced
  BY DEF ProcessPacket
<1> HIDE DEF x
<1>5. ASSUME produced < MaxOut \/ ~(ssh'.out_pq > ssh.out_pq) PROVE produced' \in 0..MaxOut
  <2>1. CASE produced < MaxOut
    BY <1>1, <1>4, <2>1
  <2>2. CASE ~(ssh'.out_pq > ssh.out_pq)
    BY <1>1, <1>4, <2>2
  <2> QED
    BY <1>5, <2>1, <2>2
<1>6. CASE ssh' \in TakeData(x)
  <2>1. ConnInv(ssh', sent, unread) /\ (produced < MaxOut \/ ~(ssh'.out_pq > x.out_pq))
    BY <1>1, <1>2, <1>6, DataKeeps
  <2>2. x.out_pq = ssh.out_pq
    BY <1>2 DEF SameOutput
  <2> QED
    BY <1>5, <2>1, <2>2
<1>7. CASE Head(ssh.in_pq) = "NEWKEYS" /\ ssh' = ssh2_bpp_new_incoming_crypto(x)
  <2> DEFINE y == [x EXCEPT !.state = "length"]
             z == queue_idempotent_callback(y, "ic_in_raw")
  <2>1. ssh' = z
    BY <1>7 DEF ssh2_bpp_new_incoming_crypto
  <2>2. /\ Sane(y) /\ Calls(y) = Calls(x) /\ y.cbcurr = x.cbcurr
        /\ y.in_raw = x.in_raw /\ y.parsed = x.parsed /\ y.state = "length"
        /\ y.in_pq = x.in_pq
        /\ SameFreeze(x, y) /\ SameOutput(x, y) /\ SameLife(x, y)
    BY <1>2 DEF Sane, Conn, States, Calls, SameFreeze, SameOutput, SameLife
  <2> HIDE DEF y
  <2>3. Queues(y, z, "ic_in_raw")
    BY <2>2, QueueOne DEF Callbacks
  <2> HIDE DEF z
  <2>4. /\ Sane(z) /\ Calls(z) = Calls(x) \cup {"ic_in_raw"} /\ z.cbcurr = x.cbcurr
        /\ z.in_raw = x.in_raw /\ z.parsed = x.parsed /\ z.state = "length"
        /\ z.in_pq = <<>>
        /\ SameFreeze(x, z) /\ SameOutput(x, z) /\ SameLife(x, z)
    BY <1>2, <1>7, <2>2, <2>3
       DEF Queues, SameInput, SameFreeze, SameOutput, SameLife
  <2>5. ssh.layers /\ ssh.bpp
    BY <1>1 DEF Owned, Pending
  <2>6. Owned(z)
    BY <1>2, <2>4, <2>5 DEF Owned, SameLife
  <2>7. Flows(z)
    BY <1>2, <2>4 DEF ConnInv, Flows, Pending, SameLife, SameOutput
  <2>8. KeysLast(z)
    <3>1. 1..Len(<<>>) = {}
      OBVIOUS
    <3> QED
      BY <2>4, <3>1 DEF KeysLast
  <2>9. z.parsed <= Len(sent)
    BY <1>1, <1>2, <2>4
  <2>10. Counted(z, sent, unread)
    <3>1. x.state = "pending_newkeys" /\ x.bpp
      BY <1>2, <1>7, <2>5 DEF SameLife
    <3>2. PICK f \in [0..Len(sent) -> Nat] :
            /\ Offsets(f, sent)
            /\ unread + x.in_raw + f[x.parsed]
                 + (IF x.state = "body" THEN 1 ELSE 0) = f[Len(sent)]
      BY <1>2, <3>1 DEF ConnInv, Counted
    <3>3. unread + z.in_raw + f[z.parsed] + (IF z.state = "body" THEN 1 ELSE 0)
            = f[Len(sent)]
      BY <2>4, <3>1, <3>2
    <3> QED
      BY <3>2, <3>3 DEF Counted
  <2>11. Drained(z, sent)
    BY <1>2, <2>4 DEF ConnInv, Drained, Pending, SameFreeze, SameLife
  <2>12. ConnInv(z, sent, unread)
    BY <2>4, <2>6, <2>7, <2>8, <2>9, <2>10, <2>11 DEF ConnInv
  <2>13. z.out_pq = ssh.out_pq
    BY <1>2, <2>4 DEF SameOutput
  <2>14. ~(ssh'.out_pq > ssh.out_pq)
    BY <1>1, <2>1, <2>13
  <2> QED
    BY <1>5, <2>1, <2>12, <2>14
<1>8. CASE ssh' = Return(ssh_shutdown(ssh))
  <2> DEFINE y == ssh_shutdown(ssh)
  <2>1. Shut(ssh, y)
    BY <1>1, ShutDown
  <2>2. ssh' = Return(y)
    BY <1>8
  <2> HIDE DEF y
  <2>3. Returned(y, ssh')
    BY <2>1, <2>2, Returns DEF Shut, Returned
  <2>4. ConnInv(ssh', sent, unread)
    BY <1>1, <2>1, <2>3, ShutKeeps
  <2>5. ssh'.out_pq = 0
    BY <2>1, <2>3 DEF Shut, Returned, SameOutput
  <2>6. ~(ssh'.out_pq > ssh.out_pq)
    BY <1>1, <2>5
  <2> QED
    BY <1>5, <2>4, <2>6
<1> QED
  BY <1>3, <1>6, <1>7, <1>8

\* A packet is of one of four kinds.
LEMMA PacketKind ==
  ASSUME NEW p \in Packets
  PROVE  p.kind = "bad" \/ p.kind \in Kinds
BY DEF Packets, Kinds

\* What a read leaves that is followed by another one in the same callback.
ReadsOn(x, y) ==
  /\ Sane(y) /\ y.cbcurr = "ic_in_raw" /\ SameOutput(x, y) /\ SameLife(x, y)
  /\ "ic_process_queue" \in Calls(y) => "ic_process_queue" \in Calls(x) \/ x.layers
  /\ "ic_out_raw" \in Calls(x) => "ic_out_raw" \in Calls(y)
  /\ y.s /\ y.logically_frozen => y.socket_frozen

\* It keeps the invariant, if the packets and the bytes are accounted for.
LEMMA ReadsOnKeeps ==
  ASSUME NEW q, NEW n, NEW x, NEW y, ReadsOn(x, y), ConnInv(x, q, n),
         x.cbcurr = "ic_in_raw", KeysLast(y), y.parsed <= Len(q), Counted(y, q, n)
  PROVE  ConnInv(y, q, n)
<1>1. x.bpp
  BY DEF ConnInv, Owned, Pending
<1>2. Owned(y)
  BY <1>1 DEF ConnInv, Owned, Pending, ReadsOn, SameLife
<1>3. Flows(y)
  BY DEF ConnInv, Flows, Pending, ReadsOn, SameOutput, SameLife
<1>4. Drained(y, q)
  BY DEF Drained, Pending, ReadsOn
<1> QED
  BY <1>2, <1>3, <1>4 DEF ConnInv, ReadsOn

\* A packet pushed on in_pq keeps the new keys last, if none are awaited yet.
LEMMA PushKeysLast ==
  ASSUME NEW p \in Seq(Kinds), \A i \in 1..Len(p) : p[i] # "NEWKEYS",
         NEW kind \in Kinds, NEW y, y.in_pq = Append(p, kind),
         kind = "NEWKEYS" => y.state = "pending_newkeys"
  PROVE  KeysLast(y)
<1> DEFINE r == Append(p, kind)
<1>1. /\ Len(p) \in Nat /\ Len(r) = Len(p) + 1 /\ r[Len(p) + 1] = kind
      /\ \A i \in 1..Len(p) : r[i] = p[i]
  OBVIOUS
<1> HIDE DEF r
<1> SUFFICES ASSUME NEW i \in 1..Len(r), r[i] = "NEWKEYS"
             PROVE  i = Len(r) /\ y.state = "pending_newkeys"
  BY DEF KeysLast, r
<1>2. ~(i \in 1..Len(p))
  BY <1>1
<1>3. i = Len(p) + 1
  BY <1>1, <1>2
<1> QED
  BY <1>1, <1>3

\* What taking the bytes of a read out of in_raw leaves.
Consumes(x, y, k) ==
  /\ Sane(y) /\ y.cbcurr = "ic_in_raw" /\ y.in_raw = x.in_raw - k
  /\ y.parsed = x.parsed /\ y.state = x.state /\ y.in_pq = x.in_pq
  /\ Calls(y) = Calls(x) \/ Calls(y) = Calls(x) \cup {"ic_in_raw"}
  /\ SameOutput(x, y) /\ SameLife(x, y)
  /\ y.s /\ y.logically_frozen => y.socket_frozen

\* The length field or the body of a packet is taken out of in_raw.
LEMMA ConsumesBytes ==
  ASSUME IndInv, BppRead
  PROVE  /\ NextLen(ssh, sent) \in Nat /\ ssh.in_raw >= NextLen(ssh, sent)
         /\ ssh.parsed + 1 \in 1..Len(sent) /\ sent[ssh.parsed + 1] \in Packets
         /\ ssh.state = "body" \/ ssh.in_raw >= 1
         /\ ssh.bpp /\ Parsing(ssh) /\ ssh.cbcurr = "ic_in_raw"
         /\ Wanted = NextLen(ssh, sent)
         /\ Consumes(ssh, ssh_check_frozen([ssh EXCEPT !.in_raw = ssh.in_raw - Wanted]), Wanted)
<1>1. /\ Sane(ssh) /\ ssh \in Conn /\ Owned(ssh) /\ ssh.in_raw \in Nat
      /\ ssh.parsed <= Len(sent) /\ Counted(ssh, sent, unread)
      /\ sent \in Seq(Packets) /\ unread \in Nat
  BY StructFacts
<1>2. /\ ssh.cbcurr = "ic_in_raw" /\ Parsing(ssh) /\ ssh.in_raw >= Wanted
      /\ Wanted = NextLen(ssh, sent)
  BY DEF BppRead, Running, Reading, Parsing, Wanted, NextLen
<1>3. ssh.bpp
  BY <1>1, <1>2 DEF Owned, Pending
<1>4. ssh.state = "body" \/ ssh.in_raw >= 1
  BY <1>2 DEF Parsing, NextLen
<1>5. /\ ssh.parsed + 1 \in 1..Len(sent) /\ sent[ssh.parsed + 1] \in Packets
      /\ NextLen(ssh, sent) \in Nat
  BY <1>1, <1>2, <1>3, <1>4, InBounds
<1> DEFINE k == ssh.in_raw - Wanted
           w == [ssh EXCEPT !.in_raw = k]
           y == ssh_check_frozen(w)
<1>6. k \in Nat
  BY <1>1, <1>2, <1>5
<1> HIDE DEF k
<1>7. /\ Sane(w) /\ Calls(w) = Calls(ssh) /\ w.cbcurr = ssh.cbcurr
      /\ w.in_raw = k /\ w.parsed = ssh.parsed /\ w.state = ssh.state
      /\ w.in_pq = ssh.in_pq
      /\ SameFreeze(ssh, w) /\ SameOutput(ssh, w) /\ SameLife(ssh, w)
  BY <1>1, <1>6 DEF Sane, Conn, Calls, SameFreeze, SameOutput, SameLife
<1> HIDE DEF w
<1>8. Checks(w, y)
  BY <1>7, CheckFrozen
<1> HIDE DEF y
<1>9. /\ Sane(y) /\ y.cbcurr = "ic_in_raw" /\ y.in_raw = k
      /\ y.parsed = ssh.parsed /\ y.state = ssh.state /\ y.in_pq = ssh.in_pq
      /\ Calls(y) = Calls(ssh) \/ Calls(y) = Calls(ssh) \cup {"ic_in_raw"}
      /\ SameOutput(ssh, y) /\ SameLife(ssh, y)
  BY <1>2, <1>7, <1>8 DEF Checks, SameInput, SameOutput, SameLife
<1>10. y.s /\ y.logically_frozen => y.socket_frozen
  BY <1>8 DEF Checks, Full, SameLife
<1>11. Consumes(ssh, y, Wanted)
  BY <1>9, <1>10 DEF Consumes, k
<1> QED
  BY <1>2, <1>3, <1>4, <1>5, <1>11 DEF y, w, k

\* The BPP reads on.
LEMMA BppReadKeeps ==
  ASSUME IndInv, BppRead
  PROVE  ConnInv(ssh', sent, unread)
<1> DEFINE x == ssh_check_frozen([ssh EXCEPT !.in_raw = ssh.in_raw - Wanted])
           one == ssh.parsed + 1
           y == [x EXCEPT !.parsed = one, !.state = "length"]
           kind == sent[ssh.parsed + 1].kind
           z == [x EXCEPT !.state = "body"]
           u == IF y.layers THEN ssh_initiate_connection_close(y) ELSE y
           v == [y EXCEPT !.state = "pending_newkeys"]
<1>1. /\ NextLen(ssh, sent) \in Nat /\ ssh.in_raw >= NextLen(ssh, sent)
      /\ one \in 1..Len(sent) /\ sent[ssh.parsed + 1] \in Packets
      /\ ssh.state = "body" \/ ssh.in_raw >= 1
      /\ ssh.bpp /\ Parsing(ssh) /\ ssh.cbcurr = "ic_in_raw"
      /\ Wanted = NextLen(ssh, sent)
      /\ Consumes(ssh, x, Wanted)
  BY ConsumesBytes
<1>2. /\ ConnInv(ssh, sent, unread) /\ sent \in Seq(Packets) /\ unread \in Nat
      /\ ssh \in Conn /\ ssh.in_pq \in Seq(Kinds) /\ Owned(ssh) /\ Flows(ssh)
      /\ ssh.parsed <= Len(sent) /\ Counted(ssh, sent, unread) /\ KeysLast(ssh)
      /\ ssh.parsed \in Nat
  BY StructFacts DEF IndInv
<1>3. x.parsed = ssh.parsed /\ x.in_raw = ssh.in_raw - NextLen(ssh, sent)
  BY <1>1 DEF Consumes
<1>4. ssh' = CASE ssh.state = "length" -> z
               [] ssh.state = "body" /\ kind = "bad" -> Return(ssh_check_frozen(u))
               [] ssh.state = "body" /\ kind = "NEWKEYS" -> PushPacket(v, kind)
               [] OTHER -> PushPacket(y, kind)
  BY <1>3 DEF BppRead
<1>5. kind = "bad" \/ kind \in Kinds
  BY <1>1, PacketKind
<1>6. ssh.state = "length" \/ ssh.state = "body"
  BY <1>1 DEF Parsing
<1>7. \A i \in 1..Len(ssh.in_pq) : ssh.in_pq[i] # "NEWKEYS"
  BY <1>2, <1>6 DEF KeysLast
<1> HIDE DEF x, kind
<1>8. CASE ssh.state = "length"
  <2>1. ssh' = z
    BY <1>4, <1>8
  <2>2. /\ Sane(z) /\ Calls(z) = Calls(x) /\ z.cbcurr = "ic_in_raw" /\ z.state = "body"
        /\ z.in_raw = x.in_raw /\ z.parsed = x.parsed /\ z.in_pq = x.in_pq
        /\ SameFreeze(x, z) /\ SameOutput(x, z) /\ SameLife(x, z)
    BY <1>1 DEF Consumes, Sane, Conn, States, Calls, SameFreeze, SameOutput, SameLife
  <2> HIDE DEF z
  <2>3. z.in_raw = ssh.in_raw - NextLen(ssh, sent) /\ z.parsed = ssh.parsed
    BY <1>3, <2>2
  <2>4. z.parsed <= Len(sent) /\ Counted(z, sent, unread)
    BY <1>1, <1>2, <1>8, <2>2, <2>3, NextCounted
  <2>5. KeysLast(z)
    BY <1>1, <1>7, <2>2 DEF Consumes, KeysLast
  <2>6. ReadsOn(ssh, z)
    BY <1>1, <2>2 DEF Consumes, ReadsOn, SameFreeze, SameOutput, SameLife
  <2> QED
    BY <1>1, <1>2, <2>1, <2>4, <2>5, <2>6, ReadsOnKeeps
<1>9. CASE ssh.state = "body"
  <2>0. one \in Nat
    BY <1>2
  <2> HIDE DEF one
  <2>1. /\ Sane(y) /\ Calls(y) = Calls(x) /\ y.cbcurr = "ic_in_raw" /\ y.state = "length"
        /\ y.in_raw = x.in_raw /\ y.parsed = one /\ y.in_pq = x.in_pq
        /\ SameFreeze(x, y) /\ SameOutput(x, y) /\ SameLife(x, y)
    BY <1>1, <2>0 DEF Consumes, Sane, Conn, States, Calls, SameFreeze, SameOutput, SameLife
  <2> HIDE DEF y
  <2>2. y.in_raw = ssh.in_raw - NextLen(ssh, sent) /\ y.parsed = ssh.parsed + 1
    BY <1>3, <2>1 DEF one
  <2>3. y.parsed <= Len(sent) /\ Counted(y, sent, unread)
    BY <1>1, <1>2, <1>9, <2>1, <2>2, NextCounted
  <2>4. y.in_pq = ssh.in_pq
    BY <1>1, <2>1 DEF Consumes
  <2>5. ReadsOn(ssh, y)
    BY <1>1, <2>1 DEF Consumes, ReadsOn, SameFreeze, SameOutput, SameLife
  <2>6. CASE kind = "NEWKEYS"
    <3> DEFINE w == PushPacket(v, kind)
    <3>1. ssh' = w
      BY <1>4, <1>9, <2>6
    <3>2. /\ Sane(v) /\ Calls(v) = Calls(y) /\ v.cbcurr = "ic_in_raw"
          /\ v.state = "pending_newkeys"
          /\ v.in_raw = y.in_raw /\ v.parsed = y.parsed /\ v.in_pq = y.in_pq
          /\ SameFreeze(y, v) /\ SameOutput(y, v) /\ SameLife(y, v)
      BY <2>1 DEF Sane, Conn, States, Calls, SameFreeze, SameOutput, SameLife
    <3> HIDE DEF v
    <3>3. kind \in Kinds
      BY <2>6 DEF Kinds
    <3>4. Pushes(v, w, kind)
      BY <3>2, <3>3, PushOne
    <3> HIDE DEF w
    <3>5. /\ w.in_raw = y.in_raw /\ w.parsed = y.parsed /\ w.state = "pending_newkeys"
          /\ w.in_pq = Append(ssh.in_pq, kind)
      BY <2>4, <3>2, <3>4 DEF Pushes
    <3>6. KeysLast(w)
      BY <1>2, <1>7, <3>3, <3>5, PushKeysLast
    <3>7. Counted(w, sent, unread) /\ w.parsed <= Len(sent)
      <4>1. w.in_raw = ssh.in_raw - NextLen(ssh, sent) /\ w.parsed = ssh.parsed + 1
        BY <2>2, <3>5
      <4> QED
        BY <1>1, <1>2, <1>9, <3>5, <4>1, NextCounted
    <3>8. ReadsOn(ssh, w)
      BY <2>5, <3>2, <3>4 DEF ReadsOn, Pushes, SameFreeze, SameOutput, SameLife
    <3> QED
      BY <1>1, <1>2, <3>1, <3>6, <3>7, <3>8, ReadsOnKeeps
  <2>7. CASE kind # "NEWKEYS" /\ kind # "bad"
    <3> DEFINE w == PushPacket(y, kind)
    <3>1. ssh' = w
      BY <1>4, <1>9, <2>7
    <3>2. kind \in Kinds
      BY <1>5, <2>7
    <3>3. Pushes(y, w, kind)
      BY <2>1, <3>2, PushOne
    <3> HIDE DEF w
    <3>4. /\ w.in_raw = y.in_raw /\ w.parsed = y.parsed /\ w.state = "length"
          /\ w.in_pq = Append(ssh.in_pq, kind)
      BY <2>1, <2>4, <3>3 DEF Pushes
    <3>5. KeysLast(w)
      BY <1>2, <1>7, <2>7, <3>2, <3>4, PushKeysLast
    <3>6. Counted(w, sent, unread) /\ w.parsed <= Len(sent)
      <4>1. w.in_raw = ssh.in_raw - NextLen(ssh, sent) /\ w.parsed = ssh.parsed + 1
        BY <2>2, <3>4
      <4> QED
        BY <1>1, <1>2, <1>9, <3>4, <4>1, NextCounted
    <3>7. ReadsOn(ssh, w)
      BY <2>1, <2>5, <3>3 DEF ReadsOn, Pushes, SameFreeze, SameOutput, SameLife
    <3> QED
      BY <1>1, <1>2, <3>1, <3>5, <3>6, <3>7, ReadsOnKeeps
  <2>8. CASE kind = "bad"
    <3> DEFINE w == ssh_check_frozen(u)
               r == Return(w)
    <3>1. ssh' = r
      BY <1>4, <1>9, <2>8
    <3>2. /\ Sane(u) /\ u.cbcurr = "ic_in_raw" /\ SameInput(y, u)
          /\ u.s = ssh.s /\ u.bpp = ssh.bpp /\ u.layers = FALSE
          /\ u.s => u.pending_close
          /\ u.backlog = ssh.backlog /\ u.throttled_all = ssh.throttled_all
          /\ "ic_process_queue" \notin Calls(u)
          /\ \/ "ic_out_raw" \in Calls(u)
             \/ u.out_raw = ssh.out_raw /\ "ic_out_raw" \notin Calls(ssh)
      <4>1. CASE y.layers
        <5>1. u = ssh_initiate_connection_close(y)
          BY <4>1
        <5>2. Closes(y, u)
          BY <2>1, <5>1, InitiateClose
        <5> HIDE DEF u
        <5> QED
          BY <2>1, <2>5, <5>2 DEF Closes, ReadsOn, SameLife, SameOutput
      <4>2. CASE ~y.layers
        <5>1. u = y
          BY <4>2
        <5> HIDE DEF u
        <5>2. SameInput(y, u)
          BY <5>1 DEF SameInput
        <5>3. y.layers = FALSE /\ ssh.layers = FALSE
          BY <1>2, <2>1, <2>5, <4>2 DEF Sane, Conn, ReadsOn, SameLife
        <5>4. ssh.s => ssh.pending_close
          BY <1>2, <5>3 DEF Owned
        <5>5. "ic_process_queue" \notin Calls(y)
          BY <1>2, <2>5, <5>3 DEF Owned, Pending, ReadsOn
        <5>6. \/ "ic_out_raw" \in Calls(y)
              \/ y.out_raw = ssh.out_raw /\ "ic_out_raw" \notin Calls(ssh)
          BY <2>5 DEF ReadsOn, SameOutput
        <5> QED
          BY <2>1, <2>5, <5>1, <5>2, <5>3, <5>4, <5>5, <5>6
             DEF ReadsOn, SameLife, SameOutput
      <4> QED
        BY <4>1, <4>2
    <3> HIDE DEF u
    <3>3. Checks(u, w)
      BY <3>2, CheckFrozen
    <3> HIDE DEF w
    <3>4. /\ Sane(r) /\ Calls(r) = Calls(w) /\ r.cbcurr = "NULL"
          /\ SameInput(w, r) /\ SameFreeze(w, r) /\ SameOutput(w, r) /\ SameLife(w, r)
      BY <3>3, Returns DEF Checks
    <3> HIDE DEF r
    <3>5. /\ SameInput(y, r) /\ r.s = ssh.s /\ r.bpp = ssh.bpp /\ r.layers = FALSE
          /\ r.s => r.pending_close
          /\ r.backlog = ssh.backlog /\ r.throttled_all = ssh.throttled_all
          /\ "ic_process_queue" \notin Calls(r)
          /\ \/ "ic_out_raw" \in Calls(r)
             \/ r.out_raw = ssh.out_raw /\ "ic_out_raw" \notin Calls(ssh)
      BY <3>2, <3>3, <3>4 DEF Checks, SameInput, SameLife, SameOutput
    <3>6. Owned(r)
      BY <1>1, <1>2, <3>4, <3>5 DEF Owned, Pending
    <3>7. Flows(r)
      BY <1>1, <1>2, <3>4, <3>5 DEF Flows, Pending
    <3>8. KeysLast(r) /\ r.parsed <= Len(sent) /\ Counted(r, sent, unread)
      <4>1. KeysLast(y)
        BY <1>7, <2>4 DEF KeysLast
      <4>2. r.bpp => y.bpp
        BY <2>5, <3>5 DEF ReadsOn, SameLife
      <4> QED
        BY <2>3, <3>5, <4>1, <4>2, SameAccount
    <3>9. r.s /\ r.logically_frozen => r.socket_frozen
      BY <3>3, <3>4 DEF Checks, Full, SameFreeze, SameLife
    <3>10. Drained(r, sent)
      BY <3>5, <3>9 DEF Drained
    <3>11. ConnInv(r, sent, unread)
      BY <3>4, <3>6, <3>7, <3>8, <3>10 DEF ConnInv
    <3> QED
      BY <3>1, <3>11
  <2> QED
    BY <2>6, <2>7, <2>8
<1> QED
  BY <1>6, <1>8, <1>9

---------------------------------------------------------------------------
(* The theorems.                                                           *)

\* A new connection: nothing sent, nothing to parse, nothing queued.
LEMMA InitIndInv ==
  ASSUME Init
  PROVE  IndInv
<1>0. MaxOut \in Nat
  BY ConstAssumption
<1>1. /\ sent = <<>> /\ unread = 0 /\ fin = FALSE /\ produced = 0
      /\ ssh.s = TRUE /\ ssh.bpp = TRUE /\ ssh.layers = TRUE
      /\ ssh.in_raw = 0 /\ ssh.parsed = 0 /\ ssh.state = "length" /\ ssh.in_pq = <<>>
      /\ ssh.logically_frozen = FALSE /\ ssh.socket_frozen = FALSE
      /\ ssh.out_raw = 0 /\ ssh.throttled_all = FALSE /\ ssh.pending_close = FALSE
      /\ ssh.cbq = <<>> /\ ssh.cbcurr = "NULL"
  BY DEF Init
<1>2. /\ sent \in Seq(Packets) /\ unread \in Nat /\ fin \in BOOLEAN /\ produced \in 0..MaxOut
      /\ Len(sent) = 0 /\ 1..0 = {} /\ Len(<<>>) = 0
  <2>1. <<>> \in Seq(Packets) /\ Len(<<>>) = 0 /\ 1..0 = {}
    OBVIOUS
  <2>2. unread \in Nat /\ produced \in 0..MaxOut
    BY <1>0, <1>1
  <2>3. fin \in BOOLEAN
    BY <1>1
  <2> QED
    BY <1>1, <2>1, <2>2, <2>3
<1>3. ssh \in Conn
  <2> DEFINE no == <<>>
             none == {}
  <2>1. no \in Seq(Kinds) /\ no \in Seq(Callbacks) /\ none \in SUBSET Channels
    OBVIOUS
  <2>2. ssh = [s |-> TRUE, bpp |-> TRUE, layers |-> TRUE,
               in_raw |-> 0, parsed |-> 0, state |-> "length", in_pq |-> no,
               input_eof |-> FALSE, throttling |-> none,
               logically_frozen |-> FALSE, socket_frozen |-> FALSE,
               out_pq |-> 0, out_raw |-> 0, backlog |-> 0,
               throttled_all |-> FALSE, pending_close |-> FALSE,
               cbq |-> no, cbcurr |-> "NULL", fault |-> FALSE]
    BY DEF Init
  <2> HIDE DEF no, none
  <2> QED
    BY <2>1, <2>2 DEF Conn, States
<1>4. Range(<<>>) = {} /\ IsInjective(<<>>)
  BY DEF Range, IsInjective
<1>5. Sane(ssh) /\ Calls(ssh) = {}
  BY <1>1, <1>3, <1>4 DEF Sane, Calls
<1>6. Owned(ssh) /\ Flows(ssh) /\ KeysLast(ssh) /\ Drained(ssh, sent)
  BY <1>1, <1>2, <1>5 DEF Owned, Flows, KeysLast, Drained, Pending, Parsing, NextLen
<1>7. Counted(ssh, sent, unread)
  <2> DEFINE f == [i \in 0..Len(sent) |-> 0]
  <2>1. f \in [0..Len(sent) -> Nat] /\ f[0] = 0
    BY <1>2
  <2> HIDE DEF f
  <2>2. Offsets(f, sent)
    BY <1>2, <2>1 DEF Offsets
  <2>3. unread + ssh.in_raw + f[ssh.parsed] + (IF ssh.state = "body" THEN 1 ELSE 0)
          = f[Len(sent)]
    BY <1>1, <1>2, <2>1
  <2> QED
    BY <2>1, <2>2, <2>3 DEF Counted
<1>8. ssh.parsed <= Len(sent)
  BY <1>1, <1>2
<1> QED
  BY <1>2, <1>5, <1>6, <1>7, <1>8 DEF IndInv, ConnInv

\* Every step keeps the invariant.
LEMMA NextIndInv ==
  ASSUME IndInv, [Next]_vars
  PROVE  IndInv'
<1>0. /\ sent \in Seq(Packets) /\ unread \in Nat /\ fin \in BOOLEAN
      /\ produced \in 0..MaxOut /\ ConnInv(ssh, sent, unread) /\ MaxOut \in Nat
  BY ConstAssumption DEF IndInv
<1> SUFFICES /\ sent' \in Seq(Packets) /\ unread' \in Nat /\ fin' \in BOOLEAN
             /\ produced' \in 0..MaxOut /\ ConnInv(ssh', sent', unread')
  BY DEF IndInv
<1>1. CASE RunCallback
  BY <1>0, <1>1, RunCallbackKeeps DEF RunCallback
<1>2. CASE BppRead
  BY <1>0, <1>2, BppReadKeeps DEF BppRead
<1>3. CASE BppWait
  BY <1>0, <1>3, BppWaitKeeps DEF BppWait
<1>4. CASE BppEof
  BY <1>0, <1>4, BppEofKeeps DEF BppEof
<1>5. CASE ProcessPacket
  BY <1>0, <1>5, ProcessPacketKeeps DEF ProcessPacket
<1>6. CASE ProcessDone
  BY <1>0, <1>6, ProcessDoneKeeps DEF ProcessDone
<1>7. CASE FormatPackets
  BY <1>0, <1>7, FormatPacketsKeeps DEF FormatPackets
<1>8. CASE WriteRaw
  BY <1>0, <1>8, WriteRawKeeps DEF WriteRaw
<1>9. CASE WriteDone
  BY <1>0, <1>9, WriteDoneKeeps DEF WriteDone
<1>10. CASE FD_READ
  BY <1>0, <1>10, FD_READKeeps DEF FD_READ
<1>11. CASE FD_CLOSE
  BY <1>0, <1>11, FD_CLOSEKeeps DEF FD_CLOSE
<1>12. CASE FD_WRITE
  BY <1>0, <1>12, FD_WRITEKeeps DEF FD_WRITE
<1>13. CASE NetworkError
  BY <1>0, <1>13, NetworkErrorKeeps DEF NetworkError
<1>14. CASE LocalData
  <2>1. produced' \in 0..MaxOut
    BY <1>0, <1>14 DEF LocalData
  <2> QED
    BY <1>0, <1>14, <2>1, LocalDataKeeps DEF LocalData
<1>15. CASE Unthrottle
  BY <1>0, <1>15, UnthrottleKeeps DEF Unthrottle
<1>16. CASE ssh_user_close
  BY <1>0, <1>16, UserCloseKeeps DEF ssh_user_close
<1>17. CASE ServerSends
  BY <1>0, <1>17, ServerSendsKeeps DEF ServerSends
<1>18. CASE ServerEnds
  BY <1>0, <1>18 DEF ServerEnds
<1>19. CASE UNCHANGED vars
  BY <1>0, <1>19 DEF vars
<1> QED
  BY <1>1, <1>2, <1>3, <1>4, <1>5, <1>6, <1>7, <1>8, <1>9, <1>10, <1>11, <1>12,
     <1>13, <1>14, <1>15, <1>16, <1>17, <1>18, <1>19 DEF Next, Callback

\* The inductive invariant of the connection holds in every behaviour.
THEOREM Invariance == Spec => []IndInv
<1>1. Init => IndInv
  BY InitIndInv
<1>2. IndInv /\ [Next]_vars => IndInv'
  BY NextIndInv
<1> QED
  BY <1>1, <1>2, PTL DEF Spec

\* The struct is well formed, the BPP outlives layers and socket, and the queue
\* holds each callback once and none of an object that ssh_shutdown or
\* ssh_shutdown_internal has freed.
THEOREM TypeCorrect == Spec => []TypeOK
<1>1. IndInv => TypeOK
  <2> SUFFICES ASSUME IndInv PROVE TypeOK
    OBVIOUS
  <2>1. /\ Sane(ssh) /\ ssh \in Conn /\ Owned(ssh) /\ ssh.parsed <= Len(sent)
        /\ sent \in Seq(Packets) /\ ssh.parsed \in Nat
    BY StructFacts
  <2>2. /\ sent \in Seq(Packets) /\ unread \in Nat /\ fin \in BOOLEAN
        /\ produced \in 0..MaxOut
    BY DEF IndInv
  <2>3. ssh.parsed \in 0..Len(sent)
    BY <2>1
  <2>4. /\ ssh.in_raw \in Nat
        /\ ssh.state \in {"length", "body", "pending_newkeys", "eof"}
        /\ ssh.in_pq \in Seq({"data", "NEWKEYS", "DISCONNECT"})
        /\ ssh.throttling \subseteq Channels
        /\ ssh.out_pq \in Nat /\ ssh.out_raw \in Nat /\ ssh.backlog \in Nat
        /\ ssh.cbq \in Seq(Callbacks)
    BY <2>1 DEF Conn, States, Kinds
  <2>5. Range(ssh.cbq) \subseteq Callbacks
    BY <2>4 DEF Range
  <2>6. /\ ssh.layers \/ ssh.s => ssh.bpp
        /\ "ic_process_queue" \in Range(ssh.cbq) => ssh.layers
        /\ "ic_in_raw" \in Range(ssh.cbq) => ssh.bpp
    BY <2>1 DEF Owned, Pending, Calls
  <2>7. IsInjective(ssh.cbq)
    BY <2>1 DEF Sane
  <2> QED
    BY <2>2, <2>3, <2>4, <2>5, <2>6, <2>7 DEF TypeOK
<1> QED
  BY <1>1, Invariance, PTL

\* Between callbacks, input that a read could use is waited for by ic_in_raw, and
\* the socket is frozen only for one of the reasons NoInputStall names
\* (ssh_check_frozen, ssh_receive, BPP_READ).
THEOREM InputNeverStalls == Spec => []NoInputStall
<1>1. IndInv => NoInputStall
  <2> SUFFICES ASSUME IndInv, Idle, ssh.s, ~ssh.pending_close, ssh.state # "eof",
                      "ic_in_raw" \notin Range(ssh.cbq)
               PROVE  /\ Reading => ssh.in_raw < Wanted
                      /\ ssh.socket_frozen => \/ ssh.logically_frozen \/ Huge
                                              \/ ssh.state = "pending_newkeys"
    BY DEF NoInputStall
  <2>1. Drained(ssh, sent) /\ ~Pending(ssh, "ic_in_raw")
    BY StructFacts DEF Idle, Pending, Calls
  <2>2. Wanted = NextLen(ssh, sent) /\ (Reading <=> Parsing(ssh))
    BY DEF Wanted, NextLen, Reading, Parsing
  <2> QED
    BY <2>1, <2>2 DEF Drained, Huge
<1> QED
  BY <1>1, Invariance, PTL

\* Between callbacks, local streams are stopped, and output is left in out_raw,
\* only while the socket has enough to send to come back through ssh_sent
\* (ssh_throttle_all, ssh_bpp_output_raw_data_callback).
THEOREM OutputNeverStalls == Spec => []NoOutputStall
<1>1. IndInv => NoOutputStall
  <2>1. IndInv => Flows(ssh)
    BY DEF IndInv, ConnInv
  <2> QED
    BY <2>1 DEF NoOutputStall, Flows, Pending, Calls, Idle
<1> QED
  BY <1>1, Invariance, PTL
=============================================================================
