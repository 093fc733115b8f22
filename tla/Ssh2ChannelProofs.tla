------------------------- MODULE Ssh2ChannelProofs -------------------------
(***************************************************************************)
(* Proofs about Ssh2Channel, for every window, every kind of channel and   *)
(* every amount of data: the two sides count both windows alike, nothing   *)
(* is sent after CLOSE, EOF comes after the data, nothing waits for what   *)
(* will not come, and closing meets no assertion of a port forwarding.     *)
(*                                                                         *)
(* The handlers are operators from channel to channel, so the proof goes   *)
(* function by function: a lemma says that each one Does keep the Core of  *)
(* the invariant, or stop PuTTY in a way its kind of channel allows, and   *)
(* the lemmas compose as the functions do.                                 *)
(***************************************************************************)
EXTENDS Ssh2Channel, WellFoundedInduction, TLAPS

---------------------------------------------------------------------------
(* Induction up to a bound, in a form the provers can use: over a set of   *)
(* numbers instead of a predicate.                                         *)

\* Every nonempty set of naturals has a least element.
LEMMA LeastNatural ==
  ASSUME NEW T \in SUBSET Nat, T # {}
  PROVE  \E m \in T : \A n \in T : m <= n
<1>1. PICK m \in T : \A n \in T : ~(<<n, m>> \in OpToRel(<, Nat))
  BY WFMin, NatLessThanWellFounded
<1>2. ASSUME NEW n \in T, n < m PROVE FALSE
  <2> DEFINE pair == <<n, m>>
  <2>1. pair \in Nat \X Nat /\ pair[1] < pair[2]
    BY <1>2
  <2>2. pair \in OpToRel(<, Nat)
    <3> HIDE DEF pair
    <3> QED
      BY <2>1 DEF OpToRel
  <2> QED
    BY <1>1, <2>2
<1>3. \A n \in T : m \in Nat /\ n \in Nat
  OBVIOUS
<1> QED
  BY <1>2, <1>3

\* A set that holds 0 and, with any number below n, the next one holds n.
LEMMA Reaches ==
  ASSUME NEW n \in Nat, NEW T, 0 \in T,
         \A i \in 0..n : i > 0 /\ i - 1 \in T => i \in T
  PROVE  \A i \in 0..n : i \in T
<1> DEFINE B == {i \in 0..n : i \notin T}
<1>1. SUFFICES ASSUME B # {} PROVE FALSE
  OBVIOUS
<1>2. B \in SUBSET Nat
  OBVIOUS
<1> HIDE DEF B
<1>3. PICK m \in B : \A i \in B : m <= i
  BY <1>1, <1>2, LeastNatural
<1>4. m \in 0..n /\ m \notin T
  BY DEF B
<1>5. m > 0
  BY <1>4
<1>6. m - 1 \in 0..n /\ ~(m <= m - 1)
  BY <1>4, <1>5
<1>7. m - 1 \in T
  BY <1>3, <1>6 DEF B
<1> QED
  BY <1>4, <1>5, <1>7

-----------------------------------------------------------------------------
(* Sums over queues.                                                       *)

\* f gives the sums of the first numbers of w, as many as one likes.
Sums(f, w) ==
  /\ f \in [0..Len(w) -> Nat] /\ f[0] = 0
  /\ \A i \in 1..Len(w) : f[i] = f[i - 1] + w[i]

\* There are such sums.
LEMMA SumsExist ==
  ASSUME NEW w \in Seq(Nat)
  PROVE  \E f : Sums(f, w)
<1> DEFINE P(m) == \E f \in [0..m -> Nat] : f[0] = 0 /\ \A i \in 1..m : f[i] = f[i - 1] + w[i]
           T == {m \in Nat : P(m)}
<1>0. Len(w) \in Nat /\ \A i \in 1..Len(w) : w[i] \in Nat
  OBVIOUS
<1>1. 0 \in T
  <2> DEFINE f == [i \in 0..0 |-> 0]
  <2>1. f \in [0..0 -> Nat] /\ f[0] = 0 /\ \A i \in 1..0 : f[i] = f[i - 1] + w[i]
    OBVIOUS
  <2> HIDE DEF f
  <2> QED
    BY <2>1
<1>2. ASSUME NEW i \in 0..Len(w), i > 0, i - 1 \in T PROVE i \in T
  <2>0. i \in 1..Len(w) /\ i \in Nat /\ w[i] \in Nat /\ i - 1 \in 0..i - 1 /\ i \notin 0..i - 1
    BY <1>0, <1>2
  <2>1. PICK f \in [0..i - 1 -> Nat] : f[0] = 0 /\ \A j \in 1..i - 1 : f[j] = f[j - 1] + w[j]
    BY <1>2
  <2> DEFINE e == f[i - 1] + w[i]
             g == [j \in 0..i |-> IF j = i THEN e ELSE f[j]]
  <2>2. e \in Nat
    <3>1. f[i - 1] \in Nat
      BY <2>0
    <3> QED
      BY <2>0, <3>1
  <2>3. \A j \in 0..i : j = i \/ j \in 0..i - 1
    BY <2>0
  <2> HIDE DEF e
  <2>4. g \in [0..i -> Nat]
    BY <2>2, <2>3
  <2>5. \A j \in 0..i - 1 : g[j] = f[j]
    BY <2>0
  <2>6. g[i] = e /\ g[0] = 0
    BY <2>0, <2>1
  <2> HIDE DEF g
  <2>7. ASSUME NEW j \in 1..i PROVE g[j] = g[j - 1] + w[j]
    <3>1. CASE j = i
      BY <3>1, <2>0, <2>5, <2>6 DEF e
    <3>2. CASE j # i
      <4>1. j \in 0..i - 1 /\ j - 1 \in 0..i - 1 /\ j \in 1..i - 1
        BY <3>2, <2>0
      <4> QED
        BY <4>1, <2>1, <2>5
    <3> QED
      BY <3>1, <3>2
  <2> QED
    BY <2>0, <2>4, <2>6, <2>7
<1> HIDE DEF T
<1>3. Len(w) \in T
  <2>1. \A i \in 0..Len(w) : i > 0 /\ i - 1 \in T => i \in T
    BY <1>2
  <2>2. \A i \in 0..Len(w) : i \in T
    BY <1>0, <1>1, <2>1, Reaches
  <2> QED
    BY <1>0, <2>2
<1> QED
  BY <1>3 DEF T, Sums

\* Total is the last of them.
LEMMA TotalSums ==
  ASSUME NEW w \in Seq(Nat)
  PROVE  \E f : Sums(f, w) /\ Total(w) = f[Len(w)]
<1> DEFINE n == Len(w)
           k == CHOOSE k : k = [i \in 0..n |-> IF i = 0 THEN 0 ELSE k[i - 1] + w[i]]
<1>0. n \in Nat
  OBVIOUS
<1>1. Total(w) = k[n]
  BY DEF Total
<1>2. PICK f : Sums(f, w)
  BY SumsExist
<1>3. f = [i \in 0..n |-> IF i = 0 THEN 0 ELSE f[i - 1] + w[i]]
  <2>1. \A i \in 0..n : i = 0 \/ i \in 1..n
    BY <1>0
  <2> QED
    BY <1>2, <2>1 DEF Sums
<1>4. k = [i \in 0..n |-> IF i = 0 THEN 0 ELSE k[i - 1] + w[i]]
  BY <1>3
<1>5. \A i \in 0..n : k[i] = IF i = 0 THEN 0 ELSE k[i - 1] + w[i]
  BY <1>4
<1> HIDE DEF k
<1> DEFINE T == {i \in Nat : k[i] = f[i]}
<1>6. 0 \in T
  BY <1>0, <1>2, <1>5 DEF Sums
<1>7. \A i \in 0..n : i > 0 /\ i - 1 \in T => i \in T
  <2> SUFFICES ASSUME NEW i \in 0..n, i > 0, i - 1 \in T PROVE i \in T
    OBVIOUS
  <2>1. i \in 1..n /\ i \in Nat /\ k[i - 1] = f[i - 1]
    BY <1>0
  <2>2. k[i] = k[i - 1] + w[i]
    BY <1>5, <2>1
  <2> QED
    BY <1>2, <2>1, <2>2 DEF Sums
<1> HIDE DEF T
<1>8. n \in T
  <2>1. \A i \in 0..n : i \in T
    BY <1>0, <1>6, <1>7, Reaches
  <2> QED
    BY <1>0, <2>1
<1> QED
  BY <1>1, <1>2, <1>8 DEF T

\* Sums over the same numbers agree, wherever they start.
LEMMA SumsShifted ==
  ASSUME NEW w \in Seq(Nat), NEW v \in Seq(Nat), NEW f, NEW g, Sums(f, w), Sums(g, v),
         NEW d \in Nat, Len(w) = Len(v) + d, \A i \in 1..Len(v) : w[i + d] = v[i]
  PROVE  f[Len(w)] = f[d] + g[Len(v)]
<1> DEFINE n == Len(v)
           T == {i \in Nat : f[i + d] = f[d] + g[i]}
<1>a. /\ f \in [0..Len(w) -> Nat] /\ f[0] = 0
      /\ \A i \in 1..Len(w) : f[i] = f[i - 1] + w[i]
  BY DEF Sums
<1>b. /\ g \in [0..n -> Nat] /\ g[0] = 0
      /\ \A i \in 1..n : g[i] = g[i - 1] + v[i] /\ v[i] \in Nat
  <2>1. /\ g \in [0..n -> Nat] /\ g[0] = 0
        /\ \A i \in 1..n : g[i] = g[i - 1] + v[i]
    BY DEF Sums
  <2>2. \A i \in 1..n : v[i] \in Nat
    OBVIOUS
  <2> QED
    BY <2>1, <2>2
<1>0. n \in Nat /\ Len(w) \in Nat /\ d \in 0..Len(w)
  OBVIOUS
<1>c. f[d] \in Nat
  BY <1>0, <1>a
<1>1. 0 \in T
  BY <1>0, <1>b, <1>c
<1>2. \A i \in 0..n : i > 0 /\ i - 1 \in T => i \in T
  <2> SUFFICES ASSUME NEW i \in 0..n, i > 0, i - 1 \in T PROVE i \in T
    OBVIOUS
  <2>1. i \in 1..n /\ i \in Nat /\ i + d \in 1..Len(w) /\ i - 1 \in 0..n
        /\ i - 1 + d = i + d - 1 /\ i - 1 + d \in 0..Len(w)
    BY <1>0
  <2>2. f[i - 1 + d] = f[d] + g[i - 1]
    OBVIOUS
  <2>3. g[i] = g[i - 1] + v[i] /\ v[i] \in Nat /\ g[i - 1] \in Nat
    BY <1>b, <2>1
  <2>4. f[i + d] = f[i + d - 1] + w[i + d] /\ w[i + d] = v[i]
    <3> DEFINE j == i + d
    <3>1. w[j] = v[i] /\ j \in 1..Len(w)
      BY <2>1
    <3> HIDE DEF j
    <3>2. f[j] = f[j - 1] + w[j]
      BY <1>a, <3>1
    <3> QED
      BY <3>1, <3>2 DEF j
  <2>5. f[i + d] = f[d] + g[i]
    <3> DEFINE x == f[i + d]
               y == f[i - 1 + d]
               a == f[d]
               b == g[i - 1]
               e == v[i]
    <3>1. x = y + e /\ y = a + b /\ g[i] = b + e /\ a \in Nat /\ b \in Nat /\ e \in Nat
      BY <1>c, <2>1, <2>2, <2>3, <2>4
    <3> HIDE DEF x, y, a, b, e
    <3>2. x = a + g[i]
      BY <3>1
    <3> QED
      BY <3>2 DEF x, a
  <2> QED
    BY <2>1, <2>5
<1> HIDE DEF T
<1>3. n \in T
  <2>1. \A i \in 0..n : i \in T
    BY <1>0, <1>1, <1>2, Reaches
  <2> QED
    BY <1>0, <2>1
<1> QED
  BY <1>3 DEF T

\* The total of nothing, of one number more, and of all but the first.
LEMMA TotalProps ==
  ASSUME NEW w \in Seq(Nat)
  PROVE  /\ Total(w) \in Nat /\ Total(<<>>) = 0
         /\ \A k \in Nat : Total(Append(w, k)) = Total(w) + k
         /\ w # <<>> => Total(w) = Head(w) + Total(Tail(w))
<1>1. PICK f : Sums(f, w) /\ Total(w) = f[Len(w)]
  BY TotalSums
<1>2. Total(w) \in Nat
  BY <1>1 DEF Sums
<1>3. Total(<<>>) = 0
  <2> DEFINE e == <<>>
  <2>1. e \in Seq(Nat) /\ Len(e) = 0
    OBVIOUS
  <2> HIDE DEF e
  <2>2. Total(e) = 0
    BY <2>1, TotalSums DEF Sums
  <2> QED
    BY <2>2 DEF e
<1>4. ASSUME NEW k \in Nat PROVE Total(Append(w, k)) = Total(w) + k
  <2> DEFINE v == Append(w, k)
  <2>1. /\ v \in Seq(Nat) /\ Len(w) \in Nat /\ Len(v) = Len(w) + 1 /\ v[Len(v)] = k
        /\ \A i \in 1..Len(w) : v[i] = w[i]
    OBVIOUS
  <2> HIDE DEF v
  <2>2. PICK g : Sums(g, v) /\ Total(v) = g[Len(v)]
    BY <2>1, TotalSums
  <2>3. g[Len(v)] = g[Len(w)] + k
    <3>1. Len(v) \in 1..Len(v) /\ Len(v) - 1 = Len(w)
      BY <2>1
    <3> QED
      BY <3>1, <2>1, <2>2 DEF Sums
  <2>4. g[Len(w)] = f[Len(w)]
    <3> DEFINE T == {i \in Nat : g[i] = f[i]}
    <3>1. 0 \in T
      BY <1>1, <2>2 DEF Sums
    <3>2. \A i \in 0..Len(w) : i > 0 /\ i - 1 \in T => i \in T
      <4> SUFFICES ASSUME NEW i \in 0..Len(w), i > 0, i - 1 \in T PROVE i \in T
        OBVIOUS
      <4>1. i \in 1..Len(w) /\ i \in 1..Len(v) /\ i \in Nat
        BY <2>1
      <4> QED
        BY <4>1, <1>1, <2>1, <2>2 DEF Sums
    <3> HIDE DEF T
    <3>3. Len(w) \in T
      <4>1. \A i \in 0..Len(w) : i \in T
        BY <2>1, <3>1, <3>2, Reaches
      <4> QED
        BY <2>1, <4>1
    <3> QED
      BY <3>3 DEF T
  <2>5. Total(v) = Total(w) + k
    BY <1>1, <2>2, <2>3, <2>4
  <2> QED
    BY <2>5 DEF v
<1>5. ASSUME w # <<>> PROVE Total(w) = Head(w) + Total(Tail(w))
  <2> DEFINE v == Tail(w)
  <2>1. /\ v \in Seq(Nat) /\ Len(v) \in Nat /\ Len(w) = Len(v) + 1 /\ Head(w) = w[1]
        /\ \A i \in 1..Len(v) : w[i + 1] = v[i]
    BY <1>5
  <2> HIDE DEF v
  <2>2. PICK g : Sums(g, v) /\ Total(v) = g[Len(v)]
    BY <2>1, TotalSums
  <2>3. f[Len(w)] = f[1] + g[Len(v)]
    BY <1>1, <2>1, <2>2, SumsShifted
  <2>4. f[1] = w[1]
    <3>1. 1 \in 1..Len(w) /\ w[1] \in Nat /\ f[1 - 1] = 0
      BY <2>1, <1>1 DEF Sums
    <3> QED
      BY <3>1, <1>1 DEF Sums
  <2>5. Total(w) = Head(w) + Total(v)
    BY <1>1, <2>1, <2>2, <2>3, <2>4
  <2> QED
    BY <2>5 DEF v
<1> QED
  BY <1>2, <1>3, <1>4, <1>5

\* Nothing but zeros adds up to nothing.
LEMMA TotalZero ==
  ASSUME NEW w \in Seq(Nat), \A i \in 1..Len(w) : w[i] = 0
  PROVE  Total(w) = 0
<1>1. PICK f : Sums(f, w) /\ Total(w) = f[Len(w)]
  BY TotalSums
<1> DEFINE T == {i \in Nat : f[i] = 0}
<1>2. 0 \in T
  BY <1>1 DEF Sums
<1>3. \A i \in 0..Len(w) : i > 0 /\ i - 1 \in T => i \in T
  <2> SUFFICES ASSUME NEW i \in 0..Len(w), i > 0, i - 1 \in T PROVE i \in T
    OBVIOUS
  <2>1. i \in 1..Len(w) /\ i \in Nat
    OBVIOUS
  <2> QED
    BY <2>1, <1>1 DEF Sums
<1> HIDE DEF T
<1>4. Len(w) \in T
  <2>1. Len(w) \in Nat /\ Len(w) \in 0..Len(w)
    OBVIOUS
  <2>2. \A i \in 0..Len(w) : i \in T
    BY <1>2, <1>3, <2>1, Reaches
  <2> QED
    BY <2>1, <2>2
<1> QED
  BY <1>1, <1>4 DEF T

-----------------------------------------------------------------------------
(* Queues of messages.                                                     *)

ClientTypes == {"OPEN", "OPEN_CONFIRMATION", "DATA", "ADJUST", "REQUEST", "REPLY",
                "EOF", "CLOSE"}
ServerTypes == ClientTypes \cup {"OPEN_FAILURE"}
Message == [type : ServerTypes, n : Nat]

\* The types of messages.
LEMMA Types ==
  /\ "OPEN" \in ServerTypes /\ "OPEN_CONFIRMATION" \in ServerTypes /\ "DATA" \in ServerTypes
  /\ "ADJUST" \in ServerTypes /\ "REQUEST" \in ServerTypes /\ "REPLY" \in ServerTypes
  /\ "EOF" \in ServerTypes /\ "CLOSE" \in ServerTypes /\ "OPEN_FAILURE" \in ServerTypes
  /\ 0 \in Nat /\ 1 \in Nat
BY DEF ServerTypes, ClientTypes

\* What each message of a queue counts for, if k says what a message does.
Weights(q, k) == [i \in 1..Len(q) |-> k[q[i]]]

\* How many messages of the queue have the type.
Count(q, type) == Total([i \in 1..Len(q) |-> IF q[i].type = type THEN 1 ELSE 0])

\* No message of the queue has the type.
No(q, type) == \A i \in 1..Len(q) : q[i].type # type

\* The opening is over.
Plain(q) == No(q, "OPEN") /\ No(q, "OPEN_CONFIRMATION") /\ No(q, "OPEN_FAILURE")

CloseLast(q) == \A i \in 1..Len(q) : q[i].type = "CLOSE" => i = Len(q)

EofLate(q) == \A i, j \in 1..Len(q) : q[i].type = "EOF" /\ q[j].type = "DATA" => j < i

\* Weights follow the queue.
LEMMA WeightsProps ==
  ASSUME NEW k \in [Message -> Nat], NEW q \in Seq(Message)
  PROVE  /\ Weights(q, k) \in Seq(Nat) /\ Len(Weights(q, k)) = Len(q)
         /\ \A m \in Message : Weights(Append(q, m), k) = Append(Weights(q, k), k[m])
         /\ q # <<>> => /\ Weights(q, k) # <<>> /\ Head(Weights(q, k)) = k[Head(q)]
                        /\ Tail(Weights(q, k)) = Weights(Tail(q), k)
<1> DEFINE w == Weights(q, k)
<1>0. Len(q) \in Nat /\ \A i \in 1..Len(q) : q[i] \in Message
  OBVIOUS
<1>1. w \in Seq(Nat) /\ Len(w) = Len(q) /\ \A i \in 1..Len(q) : w[i] = k[q[i]]
  BY <1>0 DEF Weights
<1> HIDE DEF w
<1>2. ASSUME NEW m \in Message PROVE Weights(Append(q, m), k) = Append(w, k[m])
  <2> DEFINE r == Append(q, m)
             u == Append(w, k[m])
  <2>1. /\ Len(r) = Len(q) + 1 /\ r[Len(q) + 1] = m
        /\ \A i \in 1..Len(q) : r[i] = q[i]
    BY <1>0
  <2>2. k[m] \in Nat
    OBVIOUS
  <2>3. /\ u \in Seq(Nat) /\ Len(u) = Len(q) + 1 /\ u[Len(q) + 1] = k[m]
        /\ \A i \in 1..Len(q) : u[i] = w[i]
    BY <1>0, <1>1, <2>2
  <2> HIDE DEF r, u
  <2>4. u = [i \in 1..Len(q) + 1 |-> u[i]]
    BY <2>3, <1>0
  <2>5. \A i \in 1..Len(q) + 1 : u[i] = k[r[i]]
    <3>1. \A i \in 1..Len(q) + 1 : i \in 1..Len(q) \/ i = Len(q) + 1
      BY <1>0
    <3> QED
      BY <3>1, <1>1, <2>1, <2>3
  <2>6. Weights(r, k) = u
    BY <2>1, <2>4, <2>5 DEF Weights
  <2> QED
    BY <2>6 DEF r, u
<1>3. ASSUME q # <<>>
      PROVE  w # <<>> /\ Head(w) = k[Head(q)] /\ Tail(w) = Weights(Tail(q), k)
  <2> DEFINE r == Tail(q)
             u == Tail(w)
  <2>1. /\ Len(q) > 0 /\ Len(r) = Len(q) - 1 /\ Head(q) = q[1]
        /\ \A i \in 1..Len(q) - 1 : r[i] = q[i + 1]
    BY <1>0, <1>3
  <2>2. w # <<>> /\ Head(w) = w[1] /\ 1 \in 1..Len(q)
    BY <1>0, <1>1, <2>1
  <2>3. /\ u \in Seq(Nat) /\ Len(u) = Len(q) - 1
        /\ \A i \in 1..Len(q) - 1 : u[i] = w[i + 1]
    BY <1>0, <1>1, <2>1, <2>2
  <2> HIDE DEF r, u
  <2>4. u = [i \in 1..Len(q) - 1 |-> u[i]]
    BY <2>3, <1>0
  <2>5. \A i \in 1..Len(q) - 1 : u[i] = k[r[i]]
    <3>1. \A i \in 1..Len(q) - 1 : i + 1 \in 1..Len(q)
      BY <1>0
    <3> QED
      BY <3>1, <1>1, <2>1, <2>3
  <2>6. Weights(r, k) = u
    BY <2>1, <2>4, <2>5 DEF Weights
  <2> QED
    BY <1>1, <2>1, <2>2, <2>6 DEF r, u
<1> QED
  BY <1>1, <1>2, <1>3 DEF w

\* What queues carry, as messages come and go.
LEMMA FlightProps ==
  ASSUME NEW q \in Seq(Message), NEW type
  PROVE  /\ InFlight(q, type) \in Nat /\ InFlight(<<>>, type) = 0
         /\ \A m \in Message : InFlight(Append(q, m), type) =
               InFlight(q, type) + (IF m.type = type THEN m.n ELSE 0)
         /\ q # <<>> => InFlight(q, type) =
               (IF Head(q).type = type THEN Head(q).n ELSE 0) + InFlight(Tail(q), type)
         /\ No(q, type) => InFlight(q, type) = 0
<1> DEFINE k == [m \in Message |-> IF m.type = type THEN m.n ELSE 0]
<1>1. k \in [Message -> Nat] /\ \A m \in Message : k[m] = IF m.type = type THEN m.n ELSE 0
  BY DEF Message
<1>2. ASSUME NEW r \in Seq(Message) PROVE InFlight(r, type) = Total(Weights(r, k))
  <2>1. \A i \in 1..Len(r) : r[i] \in Message
    OBVIOUS
  <2>2. [i \in 1..Len(r) |-> IF r[i].type = type THEN r[i].n ELSE 0] = Weights(r, k)
    BY <1>1, <2>1 DEF Weights
  <2> QED
    BY <2>2 DEF InFlight
<1> HIDE DEF k
<1>3. /\ Weights(q, k) \in Seq(Nat) /\ Len(Weights(q, k)) = Len(q)
      /\ \A m \in Message : Weights(Append(q, m), k) = Append(Weights(q, k), k[m])
      /\ q # <<>> => /\ Weights(q, k) # <<>> /\ Head(Weights(q, k)) = k[Head(q)]
                     /\ Tail(Weights(q, k)) = Weights(Tail(q), k)
  BY <1>1, WeightsProps
<1>4. InFlight(q, type) = Total(Weights(q, k)) /\ InFlight(q, type) \in Nat
  BY <1>2, <1>3, TotalProps
<1>5. InFlight(<<>>, type) = 0
  <2>1. [i \in 1..Len(<<>>) |-> IF <<>>[i].type = type THEN <<>>[i].n ELSE 0] = <<>>
    OBVIOUS
  <2>2. Total(<<>>) = 0
    BY <1>3, TotalProps
  <2> QED
    BY <2>1, <2>2 DEF InFlight
<1>6. ASSUME NEW m \in Message
      PROVE  InFlight(Append(q, m), type) =
               InFlight(q, type) + (IF m.type = type THEN m.n ELSE 0)
  <2>1. Append(q, m) \in Seq(Message) /\ k[m] \in Nat
    BY <1>1
  <2>2. InFlight(Append(q, m), type) = Total(Append(Weights(q, k), k[m]))
    BY <2>1, <1>2, <1>3
  <2>3. Total(Append(Weights(q, k), k[m])) = Total(Weights(q, k)) + k[m]
    BY <2>1, <1>3, TotalProps
  <2> QED
    BY <2>2, <2>3, <1>1, <1>4
<1>7. ASSUME q # <<>>
      PROVE  InFlight(q, type) =
               (IF Head(q).type = type THEN Head(q).n ELSE 0) + InFlight(Tail(q), type)
  <2>1. Tail(q) \in Seq(Message) /\ Head(q) \in Message
    BY <1>7
  <2>2. Total(Weights(q, k)) = k[Head(q)] + Total(Weights(Tail(q), k))
    BY <1>7, <1>3, TotalProps
  <2> QED
    BY <2>1, <2>2, <1>1, <1>2, <1>4
<1>8. ASSUME No(q, type) PROVE InFlight(q, type) = 0
  <2>1. \A i \in 1..Len(q) : Weights(q, k)[i] = 0
    <3>1. \A i \in 1..Len(q) : q[i] \in Message
      OBVIOUS
    <3> QED
      BY <3>1, <1>1, <1>8 DEF Weights, No
  <2> QED
    BY <2>1, <1>3, <1>4, TotalZero
<1> QED
  BY <1>4, <1>5, <1>6, <1>7, <1>8

\* The same of how many they are.
LEMMA CountProps ==
  ASSUME NEW q \in Seq(Message), NEW type
  PROVE  /\ Count(q, type) \in Nat
         /\ \A m \in Message : Count(Append(q, m), type) =
               Count(q, type) + (IF m.type = type THEN 1 ELSE 0)
         /\ q # <<>> => Count(q, type) =
               (IF Head(q).type = type THEN 1 ELSE 0) + Count(Tail(q), type)
         /\ No(q, type) => Count(q, type) = 0
<1> DEFINE k == [m \in Message |-> IF m.type = type THEN 1 ELSE 0]
<1>1. k \in [Message -> Nat] /\ \A m \in Message : k[m] = IF m.type = type THEN 1 ELSE 0
  OBVIOUS
<1>2. ASSUME NEW r \in Seq(Message) PROVE Count(r, type) = Total(Weights(r, k))
  <2>1. \A i \in 1..Len(r) : r[i] \in Message
    OBVIOUS
  <2>2. [i \in 1..Len(r) |-> IF r[i].type = type THEN 1 ELSE 0] = Weights(r, k)
    BY <1>1, <2>1 DEF Weights
  <2> QED
    BY <2>2 DEF Count
<1> HIDE DEF k
<1>3. /\ Weights(q, k) \in Seq(Nat) /\ Len(Weights(q, k)) = Len(q)
      /\ \A m \in Message : Weights(Append(q, m), k) = Append(Weights(q, k), k[m])
      /\ q # <<>> => /\ Weights(q, k) # <<>> /\ Head(Weights(q, k)) = k[Head(q)]
                     /\ Tail(Weights(q, k)) = Weights(Tail(q), k)
  BY <1>1, WeightsProps
<1>4. Count(q, type) = Total(Weights(q, k)) /\ Count(q, type) \in Nat
  BY <1>2, <1>3, TotalProps
<1>6. ASSUME NEW m \in Message
      PROVE  Count(Append(q, m), type) = Count(q, type) + (IF m.type = type THEN 1 ELSE 0)
  <2>1. Append(q, m) \in Seq(Message) /\ k[m] \in Nat
    BY <1>1
  <2>2. Count(Append(q, m), type) = Total(Append(Weights(q, k), k[m]))
    BY <2>1, <1>2, <1>3
  <2>3. Total(Append(Weights(q, k), k[m])) = Total(Weights(q, k)) + k[m]
    BY <2>1, <1>3, TotalProps
  <2> QED
    BY <2>2, <2>3, <1>1, <1>4
<1>7. ASSUME q # <<>>
      PROVE  Count(q, type) = (IF Head(q).type = type THEN 1 ELSE 0) + Count(Tail(q), type)
  <2>1. Tail(q) \in Seq(Message) /\ Head(q) \in Message
    BY <1>7
  <2>2. Total(Weights(q, k)) = k[Head(q)] + Total(Weights(Tail(q), k))
    BY <1>7, <1>3, TotalProps
  <2> QED
    BY <2>1, <2>2, <1>1, <1>2, <1>4
<1>8. ASSUME No(q, type) PROVE Count(q, type) = 0
  <2>1. \A i \in 1..Len(q) : Weights(q, k)[i] = 0
    <3>1. \A i \in 1..Len(q) : q[i] \in Message
      OBVIOUS
    <3> QED
      BY <3>1, <1>1, <1>8 DEF Weights, No
  <2> QED
    BY <2>1, <1>3, <1>4, TotalZero
<1> QED
  BY <1>4, <1>6, <1>7, <1>8

\* What a message at the end of a queue leaves in order.
LEMMA AppendQueue ==
  ASSUME NEW q \in Seq(Message), NEW m \in Message
  PROVE  /\ Append(q, m) \in Seq(Message) /\ Append(q, m) # <<>>
         /\ \A type : No(Append(q, m), type) <=> No(q, type) /\ m.type # type
         /\ No(q, "CLOSE") => CloseLast(Append(q, m))
         /\ EofLate(q) /\ (m.type # "DATA" \/ No(q, "EOF")) => EofLate(Append(q, m))
<1> DEFINE r == Append(q, m)
           n == Len(q)
<1>1. /\ r \in Seq(Message) /\ n \in Nat /\ Len(r) = n + 1 /\ r[n + 1] = m
      /\ \A i \in 1..n : r[i] = q[i]
  OBVIOUS
<1> HIDE DEF r
<1>2. /\ \A i \in 1..n + 1 : i \in 1..n \/ i = n + 1
      /\ \A i \in 1..n : i \in 1..n + 1
      /\ n + 1 \in 1..n + 1
  BY <1>1
<1>3. ASSUME NEW type PROVE No(r, type) <=> No(q, type) /\ m.type # type
  <2>1. ASSUME No(r, type) PROVE No(q, type) /\ m.type # type
    BY <1>1, <1>2, <2>1 DEF No
  <2>2. ASSUME No(q, type), m.type # type PROVE No(r, type)
    BY <1>1, <1>2, <2>2 DEF No
  <2> QED
    BY <2>1, <2>2
<1>4. ASSUME No(q, "CLOSE") PROVE CloseLast(r)
  BY <1>1, <1>2, <1>4 DEF No, CloseLast
<1>5. ASSUME EofLate(q), m.type # "DATA" \/ No(q, "EOF") PROVE EofLate(r)
  <2> SUFFICES ASSUME NEW i \in 1..n + 1, NEW j \in 1..n + 1,
                      r[i].type = "EOF", r[j].type = "DATA"
               PROVE  j < i
    BY <1>1 DEF EofLate
  <2>1. CASE i \in 1..n /\ j \in 1..n
    BY <1>1, <1>5, <2>1 DEF EofLate
  <2>2. CASE i = n + 1 /\ j \in 1..n
    BY <1>1, <2>2
  <2>3. CASE i \in 1..n /\ j = n + 1
    BY <1>1, <1>5, <2>3 DEF No
  <2>4. CASE i = n + 1 /\ j = n + 1
    BY <1>1, <2>4
  <2> QED
    BY <1>2, <2>1, <2>2, <2>3, <2>4
<1>6. r # <<>>
  BY <1>1
<1> QED
  BY <1>1, <1>3, <1>4, <1>5, <1>6 DEF r

\* What is left in order when the first message has been taken.
LEMMA TailQueue ==
  ASSUME NEW q \in Seq(Message), q # <<>>
  PROVE  /\ Tail(q) \in Seq(Message) /\ Head(q) \in Message
         /\ Len(q) \in Nat /\ Len(q) > 0 /\ Len(Tail(q)) = Len(q) - 1
         /\ \A type : No(q, type) <=> Head(q).type # type /\ No(Tail(q), type)
         /\ CloseLast(q) => CloseLast(Tail(q)) /\ (Head(q).type = "CLOSE" => Tail(q) = <<>>)
         /\ EofLate(q) => /\ EofLate(Tail(q))
                          /\ Head(q).type = "EOF" => No(Tail(q), "DATA")
<1> DEFINE r == Tail(q)
           n == Len(q) - 1
<1>1. /\ r \in Seq(Message) /\ Head(q) \in Message /\ Head(q) = q[1]
      /\ n \in Nat /\ Len(q) = n + 1 /\ Len(r) = n /\ \A i \in 1..n : r[i] = q[i + 1]
  OBVIOUS
<1> HIDE DEF r, n
<1>2. /\ \A i \in 1..n + 1 : i = 1 \/ (i - 1 \in 1..n /\ i - 1 + 1 = i)
      /\ \A i \in 1..n : i + 1 \in 1..n + 1
      /\ 1 \in 1..n + 1
  BY <1>1
<1>3. ASSUME NEW type PROVE No(q, type) <=> Head(q).type # type /\ No(r, type)
  <2>1. ASSUME No(q, type) PROVE Head(q).type # type /\ No(r, type)
    BY <1>1, <1>2, <2>1 DEF No
  <2>2. ASSUME Head(q).type # type, No(r, type) PROVE No(q, type)
    <3> SUFFICES ASSUME NEW i \in 1..n + 1 PROVE q[i].type # type
      BY <1>1 DEF No
    <3>1. CASE i = 1
      BY <1>1, <2>2, <3>1
    <3>2. CASE i # 1
      <4>1. i - 1 \in 1..n /\ r[i - 1] = q[i]
        BY <1>1, <1>2, <3>2
      <4> QED
        BY <4>1, <1>1, <2>2 DEF No
    <3> QED
      BY <3>1, <3>2
  <2> QED
    BY <2>1, <2>2
<1>4. ASSUME CloseLast(q) PROVE CloseLast(r) /\ (Head(q).type = "CLOSE" => r = <<>>)
  <2>1. CloseLast(r)
    BY <1>1, <1>2, <1>4 DEF CloseLast
  <2>2. ASSUME Head(q).type = "CLOSE" PROVE r = <<>>
    <3>1. 1 = n + 1
      BY <1>1, <1>2, <1>4, <2>2 DEF CloseLast
    <3>2. Len(r) = 0
      BY <3>1, <1>1
    <3> QED
      BY <3>2, <1>1
  <2> QED
    BY <2>1, <2>2
<1>5. ASSUME EofLate(q)
      PROVE  EofLate(r) /\ (Head(q).type = "EOF" => No(r, "DATA"))
  <2>1. EofLate(r)
    BY <1>1, <1>2, <1>5 DEF EofLate
  <2>2. ASSUME Head(q).type = "EOF" PROVE No(r, "DATA")
    <3> SUFFICES ASSUME NEW i \in 1..n, r[i].type = "DATA" PROVE FALSE
      BY <1>1 DEF No
    <3>1. i + 1 < 1
      BY <1>1, <1>2, <1>5, <2>2 DEF EofLate
    <3> QED
      BY <3>1
  <2> QED
    BY <2>1, <2>2
<1>6. Len(q) \in Nat /\ Len(q) > 0 /\ Len(r) = Len(q) - 1
  BY <1>1
<1> QED
  BY <1>1, <1>3, <1>4, <1>5, <1>6 DEF r

\* An empty queue is in order.
LEMMA EmptyQueue ==
  /\ <<>> \in Seq(Message) /\ CloseLast(<<>>) /\ EofLate(<<>>) /\ Plain(<<>>)
  /\ \A type : No(<<>>, type)
BY DEF CloseLast, EofLate, Plain, No

-----------------------------------------------------------------------------
(* A channel, and what holds of it between any two functions.              *)

Stops == Faults \cup {"none", "aborted"}

\* What the main session may be waiting for.
RequestNames == {"x11", "agent", "pty", "env", "primary", "fallback"}

Chan == [kind : Kinds, st : {"none", "live", "freed"}, halfopen : BOOLEAN,
         closes : SUBSET Closes, pending_eof : BOOLEAN, outbuffer : Nat,
         remwindow : Nat, locwindow : Nat, locmaxwin : Nat, remlocwin : Int,
         chanreq : Seq(Nat),
         throttle_state : {"THROTTLED", "UNTHROTTLING", "UNTHROTTLED"},
         throttling_conn : BOOLEAN, throttled_by_backlog : BOOLEAN,
         all_channels_throttled : BOOLEAN, conn_throttle_count : Int,
         chan : {"live", "zombie"}, fixed : BOOLEAN,
         xauth : {"none", "wait", "ok", "refused", "failed"}, held : Nat,
         input_wanted : BOOLEAN, localeof : BOOLEAN, req : SUBSET RequestNames,
         got_pty : BOOLEAN, ready : BOOLEAN, eof_pending : BOOLEAN,
         eof_sent : BOOLEAN, written : Nat, out : Seq(Message), crash : Stops]

\* How the flags of closing go together.  The last close of both sides frees
\* the channel, and so does a refused opening.
Flags(r) ==
  /\ Has(r, "SENT_CLOSE") => Has(r, "SENT_EOF") /\ r.chanreq = <<>>
  /\ Has(r, "RCVD_CLOSE") => r.st = "freed"
  /\ r.st = "freed" /\ ~r.halfopen => Has(r, "SENT_CLOSE")

\* No EOF is pending that has been sent or that a zombie would have to send.
Idle(r) == Has(r, "SENT_EOF") \/ (r.st = "live" /\ r.chan = "zombie") => ~r.pending_eof

\* Before the server has confirmed the channel.
Early(r) ==
  r.halfopen => /\ r.closes = {} /\ r.chanreq = <<>> /\ r.held = 0
                /\ r.kind # "x11" /\ (r.kind # "session" => r.outbuffer = 0)

\* What has been pushed and not delivered is in order.
Order(r) ==
  /\ CloseLast(r.out) /\ EofLate(r.out)
  /\ Has(r, "SENT_CLOSE") \/ No(r.out, "CLOSE")
  /\ (Has(r, "SENT_EOF") /\ r.outbuffer = 0) \/ No(r.out, "EOF")

\* Window and backlog stay within locmaxwin, but for X11 channels and the simple
\* session; the connection is throttled by a channel that knows.
Throttle(r) ==
  /\ r.conn_throttle_count = IF r.throttling_conn THEN 1 ELSE 0
  /\ r.st = "live" /\ r.kind # "x11" /\ ~ssh_is_simple =>
        r.held + r.locwindow <= r.locmaxwin /\ ~r.throttling_conn
  /\ r.locmaxwin > 0
  /\ r.chan = "zombie" => r.held = 0

\* Only the main session waits for replies other than winadj's; a window that
\* is being reopened waits for one of those.
Handlers(r) ==
  /\ r.kind # "session" => \A i \in 1..Len(r.chanreq) : r.chanreq[i] > 0
  /\ r.st = "live" /\ r.throttle_state = "UNTHROTTLING" =>
        \E i \in 1..Len(r.chanreq) : r.chanreq[i] > 0

Firm(r) == Flags(r) /\ Early(r) /\ Order(r) /\ Throttle(r) /\ Handlers(r)

Core(r) == Firm(r) /\ Idle(r)

\* Data wait only for window, and an EOF only for data.
Waits(r) ==
  r.st = "live" /\ r.kind # "session" /\ ~r.halfopen =>
     /\ r.outbuffer > 0 => r.remwindow = 0
     /\ r.pending_eof => r.outbuffer > 0

Ended(r) == Has(r, "SENT_EOF") \/ r.pending_eof

\* A forwarded socket sends nothing after its EOF.
Says(r) == r.kind = "pfd" /\ r.st = "live" /\ r.chan = "live" /\ Ended(r) => r.localeof

\* The ways in which a channel of the kind may stop PuTTY.
Allowed(kind) ==
  (IF kind # "pfd" THEN {"assert_write"} ELSE {})
     \cup (IF kind = "x11" THEN {"assert_x11"} ELSE {})
     \cup (IF kind = "session" THEN {"assert_chanreq_init", "null_reply", "aborted"} ELSE {})

-----------------------------------------------------------------------------
(* What a function may do to a channel.                                    *)

\* What a function leaves as it is.
SameClosing(r, s) ==
  /\ s.st = r.st /\ s.halfopen = r.halfopen /\ s.closes = r.closes
  /\ s.pending_eof = r.pending_eof /\ s.chan = r.chan /\ s.chanreq = r.chanreq
  /\ s.out = r.out
SameData(r, s) ==
  s.outbuffer = r.outbuffer /\ s.remwindow = r.remwindow /\ s.written = r.written
SameWindow(r, s) ==
  /\ s.locwindow = r.locwindow /\ s.locmaxwin = r.locmaxwin /\ s.held = r.held
  /\ s.throttle_state = r.throttle_state /\ s.throttling_conn = r.throttling_conn
  /\ s.conn_throttle_count = r.conn_throttle_count
SameLocal(r, s) == s.kind = r.kind /\ s.localeof = r.localeof

Same(r, s) == SameClosing(r, s) /\ SameData(r, s) /\ SameWindow(r, s) /\ SameLocal(r, s)

\* The accounts of data, window and requests are kept, nothing is pushed
\* before the channel is open or after CLOSE, and no data after EOF.
Moves(r, s) ==
  /\ s.st = r.st /\ s.halfopen = r.halfopen /\ (r.halfopen => s.out = r.out)
  /\ s.remwindow + InFlight(s.out, "DATA") = r.remwindow + InFlight(r.out, "DATA")
  /\ s.outbuffer + InFlight(s.out, "DATA") + r.written =
        r.outbuffer + InFlight(r.out, "DATA") + s.written
  /\ s.locwindow + InFlight(r.out, "ADJUST") = r.locwindow + InFlight(s.out, "ADJUST")
  /\ Len(s.chanreq) + InFlight(r.out, "REQUEST") = Len(r.chanreq) + InFlight(s.out, "REQUEST")
  /\ Len(r.chanreq) <= Len(s.chanreq)
  /\ Plain(r.out) => Plain(s.out)
  /\ Has(r, "SENT_EOF") => /\ Has(s, "SENT_EOF") /\ s.outbuffer = r.outbuffer
                           /\ No(r.out, "DATA") => No(s.out, "DATA")
  /\ Has(r, "SENT_CLOSE") => Has(s, "SENT_CLOSE") /\ s.out = r.out
  /\ Has(r, "RCVD_EOF") => Has(s, "RCVD_EOF")

Alive(r) == r.crash = "none" /\ Core(r) /\ r.st = "live"

\* It keeps the Core, or stops PuTTY as the kind of channel allows.
Does(r, s) ==
  /\ s \in Chan /\ s.kind = r.kind
  /\ r.crash # "none" => s.crash = r.crash
  /\ Alive(r) => /\ s.crash = "none" \/ s.crash \in Allowed(r.kind)
                 /\ s.crash = "none" => Core(s) /\ Moves(r, s) /\ (Waits(r) => Waits(s))

\* It leaves the local end alone.
Loyal(r, s) ==
  Alive(r) /\ s.crash = "none" => s.chan = r.chan /\ s.localeof = r.localeof

\* And does not end the sending of a forwarded socket.
Calm(r, s) ==
  /\ Loyal(r, s)
  /\ Alive(r) /\ s.crash = "none" /\ r.kind = "pfd" /\ r.chan = "live" /\ Ended(s) =>
        Ended(r)

\* It does nothing about windows and requests.
Quiet(r, s) ==
  Alive(r) /\ s.crash = "none" =>
     /\ s.chan = r.chan /\ s.localeof = r.localeof /\ s.chanreq = r.chanreq
     /\ SameWindow(r, s)

\* The numbers of a channel.
LEMMA Numbers ==
  ASSUME NEW r \in Chan
  PROVE  /\ r.outbuffer \in Nat /\ r.remwindow \in Nat /\ r.locwindow \in Nat
         /\ r.locmaxwin \in Nat /\ r.remlocwin \in Int /\ r.held \in Nat
         /\ r.written \in Nat /\ r.conn_throttle_count \in Int
         /\ r.chanreq \in Seq(Nat) /\ Len(r.chanreq) \in Nat /\ r.out \in Seq(Message)
         /\ \A type : InFlight(r.out, type) \in Nat
<1>1. r.chanreq \in Seq(Nat) /\ r.out \in Seq(Message)
  BY DEF Chan
<1>2. Len(r.chanreq) \in Nat
  BY <1>1
<1>3. \A type : InFlight(r.out, type) \in Nat
  BY <1>1, FlightProps
<1> QED
  BY <1>1, <1>2, <1>3 DEF Chan

\* Two functions one after the other.
LEMMA MovesTrans ==
  ASSUME NEW r \in Chan, NEW s \in Chan, NEW t \in Chan, Moves(r, s), Moves(s, t)
  PROVE  Moves(r, t)
<1> DEFINE rd == InFlight(r.out, "DATA")
           sd == InFlight(s.out, "DATA")
           td == InFlight(t.out, "DATA")
           ra == InFlight(r.out, "ADJUST")
           sa == InFlight(s.out, "ADJUST")
           ta == InFlight(t.out, "ADJUST")
           rr == InFlight(r.out, "REQUEST")
           sr == InFlight(s.out, "REQUEST")
           tr == InFlight(t.out, "REQUEST")
           rq == Len(r.chanreq)
           sq == Len(s.chanreq)
           tq == Len(t.chanreq)
<1>2. /\ rd \in Nat /\ sd \in Nat /\ td \in Nat /\ ra \in Nat /\ sa \in Nat /\ ta \in Nat
      /\ rr \in Nat /\ sr \in Nat /\ tr \in Nat /\ rq \in Nat /\ sq \in Nat /\ tq \in Nat
  BY Numbers
<1>3. /\ r.remwindow \in Nat /\ s.remwindow \in Nat /\ t.remwindow \in Nat
      /\ r.outbuffer \in Nat /\ s.outbuffer \in Nat /\ t.outbuffer \in Nat
      /\ r.written \in Nat /\ s.written \in Nat /\ t.written \in Nat
      /\ r.locwindow \in Nat /\ s.locwindow \in Nat /\ t.locwindow \in Nat
  BY Numbers
<1>4. /\ s.remwindow + sd = r.remwindow + rd /\ t.remwindow + td = s.remwindow + sd
      /\ s.outbuffer + sd + r.written = r.outbuffer + rd + s.written
      /\ t.outbuffer + td + s.written = s.outbuffer + sd + t.written
      /\ s.locwindow + ra = r.locwindow + sa /\ t.locwindow + sa = s.locwindow + ta
      /\ sq + rr = rq + sr /\ tq + sr = sq + tr
  BY DEF Moves
<1>8. rq <= sq /\ sq <= tq
  BY DEF Moves
<1> HIDE DEF rd, sd, td, ra, sa, ta, rr, sr, tr, rq, sq, tq
<1>5. /\ t.remwindow + td = r.remwindow + rd
      /\ t.outbuffer + td + r.written = r.outbuffer + rd + t.written
      /\ t.locwindow + ra = r.locwindow + ta
      /\ tq + rr = rq + tr
  BY <1>2, <1>3, <1>4
<1>7. rq <= tq
  BY <1>2, <1>8
<1>6. /\ t.st = r.st /\ t.halfopen = r.halfopen /\ (r.halfopen => t.out = r.out)
      /\ Plain(r.out) => Plain(t.out)
      /\ Has(r, "SENT_EOF") => /\ Has(t, "SENT_EOF") /\ t.outbuffer = r.outbuffer
                               /\ No(r.out, "DATA") => No(t.out, "DATA")
      /\ Has(r, "SENT_CLOSE") => Has(t, "SENT_CLOSE") /\ t.out = r.out
      /\ Has(r, "RCVD_EOF") => Has(t, "RCVD_EOF")
  BY DEF Moves
<1> QED
  BY <1>5, <1>6, <1>7 DEF Moves, rd, td, ra, ta, rr, tr, rq, tq

\* Two functions, each of which keeps the Core.
LEMMA DoesTrans ==
  ASSUME NEW r \in Chan, NEW s \in Chan, NEW t, Does(r, s), Does(s, t)
  PROVE  Does(r, t)
<1>1. t \in Chan /\ t.kind = r.kind /\ (r.crash # "none" => t.crash = r.crash)
  BY DEF Does
<1>2. ASSUME Alive(r)
      PROVE  /\ t.crash = "none" \/ t.crash \in Allowed(r.kind)
             /\ t.crash = "none" => Core(t) /\ Moves(r, t) /\ (Waits(r) => Waits(t))
  <2>1. CASE s.crash # "none"
    BY <1>2, <2>1 DEF Does
  <2>2. CASE s.crash = "none"
    <3>1. Alive(s) /\ Moves(r, s) /\ s.kind = r.kind /\ (Waits(r) => Waits(s))
      BY <1>2, <2>2 DEF Does, Moves, Alive
    <3>2. /\ t.crash = "none" \/ t.crash \in Allowed(r.kind)
          /\ t.crash = "none" => Core(t) /\ Moves(s, t) /\ (Waits(s) => Waits(t))
      BY <3>1 DEF Does
    <3> QED
      BY <1>1, <3>1, <3>2, MovesTrans
  <2> QED
    BY <2>1, <2>2
<1> QED
  BY <1>1, <1>2 DEF Does

\* The same of what they leave alone.
LEMMA CalmTrans ==
  ASSUME NEW r \in Chan, NEW s \in Chan, NEW t, Does(r, s), Does(s, t)
  PROVE  /\ Loyal(r, s) /\ Loyal(s, t) => Loyal(r, t)
         /\ Calm(r, s) /\ Calm(s, t) => Calm(r, t)
         /\ Quiet(r, s) /\ Quiet(s, t) => Quiet(r, t)
<1> SUFFICES ASSUME Alive(r), t.crash = "none"
             PROVE  /\ Loyal(r, s) /\ Loyal(s, t) => Loyal(r, t)
                    /\ Calm(r, s) /\ Calm(s, t) => Calm(r, t)
                    /\ Quiet(r, s) /\ Quiet(s, t) => Quiet(r, t)
  BY DEF Calm, Loyal, Quiet
<1>1. s.crash = "none" /\ s.kind = r.kind
  BY DEF Does
<1>2. Alive(s)
  BY <1>1 DEF Does, Moves, Alive
<1>3. Loyal(r, s) /\ Loyal(s, t) => Loyal(r, t)
  BY <1>1, <1>2 DEF Loyal
<1>4. Calm(r, s) /\ Calm(s, t) => Calm(r, t)
  BY <1>1, <1>2, <1>3 DEF Calm, Loyal
<1>5. Quiet(r, s) /\ Quiet(s, t) => Quiet(r, t)
  BY <1>1, <1>2 DEF Quiet, SameWindow
<1> QED
  BY <1>3, <1>4, <1>5

\* What does nothing about windows and requests leaves the local end alone.
LEMMA QuietLoyal ==
  ASSUME NEW r, NEW s, Quiet(r, s)
  PROVE  Loyal(r, s)
BY DEF Quiet, Loyal

\* Nothing is what some do.
LEMMA DoesNothing ==
  ASSUME NEW r \in Chan
  PROVE  Does(r, r) /\ Calm(r, r) /\ Quiet(r, r)
<1>1. Moves(r, r)
  BY DEF Moves
<1>2. Calm(r, r) /\ Quiet(r, r)
  BY DEF Calm, Loyal, Quiet, SameWindow
<1> QED
  BY <1>1, <1>2 DEF Does, Alive

-----------------------------------------------------------------------------
(* The functions on channels.                                              *)

\* A function that touches nothing of this does no harm.
LEMMA Aside ==
  ASSUME NEW r \in Chan, NEW s \in Chan, Same(r, s)
  PROVE  /\ Firm(r) => Firm(s)
         /\ Core(r) => Core(s)
         /\ Moves(r, s) /\ Calm(r, s) /\ Quiet(r, s)
         /\ Waits(r) => Waits(s)
         /\ Says(r) => Says(s)
         /\ s.crash = r.crash => Does(r, s)
<1>1. (Firm(r) => Firm(s)) /\ (Idle(r) => Idle(s))
  BY DEF Same, SameClosing, SameData, SameWindow, SameLocal, Firm, Flags, Idle, Early, Order,
         Throttle, Handlers, Has
<1>2. Moves(r, s)
  BY DEF Same, SameClosing, SameData, SameWindow, SameLocal, Moves, Has
<1>3. Calm(r, s) /\ (Waits(r) => Waits(s)) /\ (Says(r) => Says(s))
  BY DEF Same, SameClosing, SameData, SameWindow, SameLocal, Calm, Loyal, Waits, Says, Ended, Has
<1>4. Quiet(r, s)
  BY DEF Same, SameClosing, SameLocal, Quiet
<1> QED
  BY <1>1, <1>2, <1>3, <1>4 DEF Does, Same, SameLocal, Alive, Core

\* An assertion.
LEMMA CheckProps ==
  ASSUME NEW r \in Chan, NEW ok \in BOOLEAN, NEW fault \in Stops
  PROVE  /\ Check(r, ok, fault) \in Chan /\ Same(r, Check(r, ok, fault))
         /\ Check(r, ok, fault).crash =
               IF ok \/ r.crash # "none" THEN r.crash ELSE fault
         /\ ok \/ r.crash # "none" => Check(r, ok, fault) = r
<1> DEFINE x == [r EXCEPT !.crash = fault]
<1>1. x \in Chan /\ Same(r, x) /\ x.crash = fault
  BY DEF Chan, Same, SameClosing, SameData, SameWindow, SameLocal
<1>2. Same(r, r)
  BY DEF Same, SameClosing, SameData, SameWindow, SameLocal
<1> HIDE DEF x
<1> QED
  BY <1>1, <1>2 DEF Check, x

\* A channel that has not been freed.
LEMMA TouchProps ==
  ASSUME NEW r \in Chan
  PROVE  /\ Touch(r) \in Chan /\ Same(r, Touch(r))
         /\ r.st = "live" \/ r.crash # "none" => Touch(r) = r
<1>1. (r.st = "live") \in BOOLEAN /\ "use_after_free" \in Stops
  BY DEF Stops, Faults
<1> QED
  BY <1>1, CheckProps DEF Touch

Base(r, s) ==
  /\ s.kind = r.kind /\ s.st = r.st /\ s.halfopen = r.halfopen
  /\ s.localeof = r.localeof /\ s.crash = r.crash
Closing(r, s) == s.closes = r.closes /\ s.pending_eof = r.pending_eof /\ s.chan = r.chan

\* Messages are what they are made of.
LEMMA MsgProps ==
  ASSUME NEW type \in ServerTypes, NEW n \in Nat
  PROVE  Msg(type, n) \in Message /\ Msg(type, n).type = type /\ Msg(type, n).n = n
BY DEF Msg, Message

WithOut(r, q) == [r EXCEPT !.out = q]

\* Messages on their way are all that changes.
LEMMA SetOut ==
  ASSUME NEW r \in Chan, NEW q \in Seq(Message)
  PROVE  /\ WithOut(r, q) \in Chan /\ WithOut(r, q).out = q
         /\ Base(r, WithOut(r, q)) /\ Closing(r, WithOut(r, q))
         /\ SameData(r, WithOut(r, q)) /\ SameWindow(r, WithOut(r, q))
         /\ WithOut(r, q).chanreq = r.chanreq
BY DEF Chan, WithOut, Base, Closing, SameData, SameWindow

\* The messages on their way when one more has been pushed.
Queued(r, type, n) == Append(r.out, Msg(type, n))

\* A message is added to those on their way.
LEMMA PushProps ==
  ASSUME NEW r \in Chan, NEW type \in ServerTypes, NEW n \in Nat
  PROVE  /\ Push(r, type, n) \in Chan /\ Push(r, type, n).out = Queued(r, type, n)
         /\ Base(r, Push(r, type, n)) /\ Closing(r, Push(r, type, n))
         /\ SameData(r, Push(r, type, n)) /\ SameWindow(r, Push(r, type, n))
         /\ Push(r, type, n).chanreq = r.chanreq
<1> DEFINE q == Append(r.out, Msg(type, n))
<1>1. Push(r, type, n) = WithOut(r, q)
  BY DEF Push, WithOut
<1>2. q \in Seq(Message)
  BY MsgProps, Numbers, AppendQueue
<1> HIDE DEF q
<1>3. /\ Push(r, type, n) \in Chan /\ Push(r, type, n).out = q
      /\ Base(r, Push(r, type, n)) /\ Closing(r, Push(r, type, n))
      /\ SameData(r, Push(r, type, n)) /\ SameWindow(r, Push(r, type, n))
      /\ Push(r, type, n).chanreq = r.chanreq
  BY <1>1, <1>2, SetOut
<1> QED
  BY <1>3 DEF q, Queued

\* What it adds to the accounts, and to the order.
LEMMA PushQueue ==
  ASSUME NEW r \in Chan, NEW type \in ServerTypes, NEW n \in Nat
  PROVE  /\ \A t : type # t => InFlight(Queued(r, type, n), t) = InFlight(r.out, t)
         /\ InFlight(Queued(r, type, n), type) = InFlight(r.out, type) + n
         /\ \A t : No(Queued(r, type, n), t) <=> No(r.out, t) /\ type # t
         /\ No(r.out, "CLOSE") => CloseLast(Queued(r, type, n))
         /\ EofLate(r.out) /\ (type # "DATA" \/ No(r.out, "EOF")) => EofLate(Queued(r, type, n))
<1> DEFINE m == Msg(type, n)
           o == r.out
           q == Queued(r, type, n)
<1>1. m \in Message /\ m.type = type /\ m.n = n /\ o \in Seq(Message) /\ q = Append(o, m)
  BY MsgProps, Numbers DEF Queued
<1> HIDE DEF m, o, q
<1>a. /\ \A t : InFlight(q, t) = InFlight(o, t) + (IF m.type = t THEN m.n ELSE 0)
      /\ \A t : InFlight(o, t) \in Nat
  BY <1>1, FlightProps
<1>b. ASSUME NEW t, type # t PROVE InFlight(q, t) = InFlight(o, t)
  BY <1>1, <1>a, <1>b
<1>2. /\ \A t : type # t => InFlight(q, t) = InFlight(o, t)
      /\ InFlight(q, type) = InFlight(o, type) + n
  BY <1>1, <1>a, <1>b
<1>3. /\ \A t : No(q, t) <=> No(o, t) /\ m.type # t
      /\ No(o, "CLOSE") => CloseLast(q)
      /\ EofLate(o) /\ (m.type # "DATA" \/ No(o, "EOF")) => EofLate(q)
  BY <1>1, AppendQueue
<1> QED
  BY <1>1, <1>2, <1>3 DEF o, q

ClosingFlags == SUBSET Closes
WithCloses(r, cl) == [r EXCEPT !.closes = cl]

\* Flags of closing are all that changes.
LEMMA SetCloses ==
  ASSUME NEW r \in Chan, NEW cl \in ClosingFlags
  PROVE  /\ WithCloses(r, cl) \in Chan /\ WithCloses(r, cl).closes = cl
         /\ Base(r, WithCloses(r, cl)) /\ WithCloses(r, cl).out = r.out
         /\ WithCloses(r, cl).pending_eof = r.pending_eof
         /\ WithCloses(r, cl).chan = r.chan /\ WithCloses(r, cl).chanreq = r.chanreq
         /\ SameData(r, WithCloses(r, cl)) /\ SameWindow(r, WithCloses(r, cl))
BY DEF Chan, Base, SameData, SameWindow, WithCloses, ClosingFlags

\* CLOSE is sent, with nothing left to say.
LEMMA SendClose ==
  ASSUME NEW r \in Chan
  PROVE  /\ send_close(r) \in Chan /\ Base(r, send_close(r))
         /\ send_close(r).closes = r.closes \cup {"SENT_EOF", "SENT_CLOSE"}
         /\ send_close(r).pending_eof = r.pending_eof /\ send_close(r).chan = r.chan
         /\ send_close(r).chanreq = r.chanreq
         /\ send_close(r).out = Queued(r, "CLOSE", 0)
         /\ SameData(r, send_close(r)) /\ SameWindow(r, send_close(r))
<1> DEFINE ty == "CLOSE"
           z == 0
           x == Push(r, ty, z)
           cl == r.closes \cup {"SENT_EOF", "SENT_CLOSE"}
<1>0. /\ ty \in ServerTypes /\ z \in Nat
      /\ send_close(r) = WithCloses(x, x.closes \cup {"SENT_EOF", "SENT_CLOSE"})
  BY Types DEF send_close, WithCloses
<1> HIDE DEF ty, z
<1>1. /\ x \in Chan /\ x.out = Queued(r, ty, z) /\ Base(r, x) /\ Closing(r, x)
      /\ SameData(r, x) /\ SameWindow(r, x) /\ x.chanreq = r.chanreq
  BY <1>0, PushProps
<1> HIDE DEF x
<1>2. cl \in ClosingFlags /\ send_close(r) = WithCloses(x, cl)
  BY <1>0, <1>1 DEF Chan, Closes, Closing, ClosingFlags
<1> HIDE DEF cl
<1>3. /\ send_close(r) \in Chan /\ send_close(r).closes = cl
      /\ Base(x, send_close(r)) /\ send_close(r).out = x.out
      /\ send_close(r).pending_eof = x.pending_eof
      /\ send_close(r).chan = x.chan /\ send_close(r).chanreq = x.chanreq
      /\ SameData(x, send_close(r)) /\ SameWindow(x, send_close(r))
  BY <1>1, <1>2, SetCloses
<1> QED
  BY <1>1, <1>3 DEF ty, z, cl, Base, Closing, SameData, SameWindow

\* That keeps everything in order.
LEMMA SendCloseMoves ==
  ASSUME NEW r \in Chan, r.st = "live", ~r.halfopen, ~r.pending_eof, r.chanreq = <<>>,
         ~Has(r, "SENT_CLOSE"), Firm(r)
  PROVE  /\ Core(send_close(r)) /\ Moves(r, send_close(r))
         /\ Quiet(r, send_close(r)) /\ Waits(send_close(r)) = Waits(r)
<1> DEFINE ty == "CLOSE"
           z == 0
           x == send_close(r)
           q == Queued(r, ty, z)
<1>1. /\ x \in Chan /\ Base(r, x) /\ x.closes = r.closes \cup {"SENT_EOF", "SENT_CLOSE"}
      /\ x.pending_eof = r.pending_eof /\ x.chan = r.chan
      /\ x.chanreq = r.chanreq /\ x.out = q
      /\ SameData(r, x) /\ SameWindow(r, x)
  BY SendClose
<1>2. ty \in ServerTypes /\ z \in Nat
  BY Types
<1>c. \A t : t # "CLOSE" => ty # t
  OBVIOUS
<1> HIDE DEF x, ty, z
<1>3. /\ \A t : ty # t => InFlight(q, t) = InFlight(r.out, t)
      /\ \A t : No(q, t) <=> No(r.out, t) /\ ty # t
      /\ No(r.out, "CLOSE") => CloseLast(q)
      /\ EofLate(r.out) /\ (ty # "DATA" \/ No(r.out, "EOF")) => EofLate(q)
  BY <1>2, PushQueue
<1> HIDE DEF q
<1>4. /\ InFlight(x.out, "DATA") = InFlight(r.out, "DATA")
      /\ InFlight(x.out, "ADJUST") = InFlight(r.out, "ADJUST")
      /\ InFlight(x.out, "REQUEST") = InFlight(r.out, "REQUEST")
  BY <1>1, <1>c, <1>3
<1>5. Flags(x) /\ Idle(x)
  BY <1>1 DEF Firm, Flags, Idle, Has, Base
<1>6. Early(x) /\ Throttle(x) /\ Handlers(x)
  BY <1>1 DEF Firm, Early, Throttle, Handlers, SameData, SameWindow, Base
<1>7. Order(x)
  BY <1>1, <1>c, <1>3 DEF Firm, Order, SameData, Has
<1>8. Moves(r, x)
  BY <1>1, <1>c, <1>3, <1>4 DEF Moves, SameData, SameWindow, Plain, Has, Base
<1>9. Waits(x) = Waits(r) /\ Quiet(r, x)
  BY <1>1 DEF Waits, SameData, Base, Quiet
<1> QED
  BY <1>5, <1>6, <1>7, <1>8, <1>9 DEF Core, Firm, x

\* The local end goes.
LEMMA CloseLocal ==
  ASSUME NEW r \in Chan
  PROVE  /\ ssh2_channel_close_local(r) \in Chan
         /\ Base(r, ssh2_channel_close_local(r))
         /\ ssh2_channel_close_local(r).closes = r.closes
         /\ ssh2_channel_close_local(r).pending_eof = r.pending_eof
         /\ ssh2_channel_close_local(r).chan = "zombie"
         /\ ssh2_channel_close_local(r).held = 0
         /\ ssh2_channel_close_local(r).chanreq = r.chanreq
         /\ ssh2_channel_close_local(r).out = r.out
         /\ SameData(r, ssh2_channel_close_local(r))
         /\ ssh2_channel_close_local(r).locwindow = r.locwindow
         /\ ssh2_channel_close_local(r).locmaxwin = r.locmaxwin
         /\ ssh2_channel_close_local(r).throttle_state = r.throttle_state
         /\ ssh2_channel_close_local(r).throttling_conn = r.throttling_conn
         /\ ssh2_channel_close_local(r).conn_throttle_count = r.conn_throttle_count
BY DEF Chan, Base, SameData, ssh2_channel_close_local

WithSt(r, st) == [r EXCEPT !.st = st]

\* The state is all that changes.
LEMMA SetSt ==
  ASSUME NEW r \in Chan, NEW st \in {"none", "live", "freed"}
  PROVE  /\ WithSt(r, st) \in Chan /\ WithSt(r, st).st = st
         /\ WithSt(r, st).kind = r.kind /\ WithSt(r, st).halfopen = r.halfopen
         /\ WithSt(r, st).localeof = r.localeof /\ WithSt(r, st).crash = r.crash
         /\ Closing(r, WithSt(r, st)) /\ SameData(r, WithSt(r, st))
         /\ SameWindow(r, WithSt(r, st))
         /\ WithSt(r, st).chanreq = r.chanreq /\ WithSt(r, st).out = r.out
BY DEF Chan, Closing, SameData, SameWindow, WithSt

\* The channel goes.
LEMMA DestroyProps ==
  ASSUME NEW r \in Chan, NEW s, s = ssh2_channel_destroy(r)
  PROVE  /\ s \in Chan /\ s.kind = r.kind
         /\ r.crash # "none" \/ r.chanreq = <<>> => s.crash = r.crash
         /\ s.st = "freed" /\ s.halfopen = r.halfopen /\ s.closes = r.closes
         /\ s.pending_eof = r.pending_eof /\ s.chan = "zombie" /\ s.held = 0
         /\ s.chanreq = r.chanreq /\ s.out = r.out
         /\ SameData(r, s)
         /\ s.locwindow = r.locwindow /\ s.locmaxwin = r.locmaxwin
         /\ s.throttle_state = r.throttle_state /\ s.throttling_conn = r.throttling_conn
         /\ s.conn_throttle_count = r.conn_throttle_count
<1> DEFINE ok == r.chanreq = <<>>
           fault == "assert_chanreq"
           x == Check(r, ok, fault)
           y == ssh2_channel_close_local(x)
           st == "freed"
<1>1. ok \in BOOLEAN /\ fault \in Stops /\ st \in {"none", "live", "freed"}
  BY DEF Stops, Faults
<1>2. s = WithSt(y, st)
  BY DEF ssh2_channel_destroy, WithSt
<1>a. ok <=> r.chanreq = <<>>
  OBVIOUS
<1>b. st = "freed"
  OBVIOUS
<1> HIDE DEF ok, fault, st
<1>3. x \in Chan /\ Same(r, x) /\ (ok \/ r.crash # "none" => x = r)
      /\ (r.crash # "none" => x.crash = r.crash)
  BY <1>1, CheckProps
<1> HIDE DEF x
<1>4. /\ y \in Chan /\ Base(x, y) /\ y.closes = x.closes
      /\ y.pending_eof = x.pending_eof /\ y.chan = "zombie" /\ y.held = 0
      /\ y.chanreq = x.chanreq /\ y.out = x.out /\ SameData(x, y)
      /\ y.locwindow = x.locwindow /\ y.locmaxwin = x.locmaxwin
      /\ y.throttle_state = x.throttle_state /\ y.throttling_conn = x.throttling_conn
      /\ y.conn_throttle_count = x.conn_throttle_count
  BY <1>3, CloseLocal
<1> HIDE DEF y
<1>5. /\ s \in Chan /\ s.st = st
      /\ s.kind = y.kind /\ s.halfopen = y.halfopen
      /\ s.localeof = y.localeof /\ s.crash = y.crash
      /\ Closing(y, s) /\ SameData(y, s) /\ SameWindow(y, s)
      /\ s.chanreq = y.chanreq /\ s.out = y.out
  BY <1>1, <1>2, <1>4, SetSt
<1>6. /\ s \in Chan /\ s.kind = r.kind
      /\ (r.crash # "none" \/ r.chanreq = <<>> => s.crash = r.crash)
  BY <1>a, <1>3, <1>4, <1>5 DEF Base, Same, SameLocal
<1>7. /\ s.st = "freed" /\ s.halfopen = r.halfopen /\ s.closes = r.closes
      /\ s.pending_eof = r.pending_eof /\ s.chan = "zombie" /\ s.held = 0
      /\ s.chanreq = r.chanreq /\ s.out = r.out
  BY <1>b, <1>3, <1>4, <1>5 DEF Base, Closing, SameWindow, Same, SameClosing
<1>8. /\ SameData(r, s)
      /\ s.locwindow = r.locwindow /\ s.locmaxwin = r.locmaxwin
      /\ s.throttle_state = r.throttle_state /\ s.throttling_conn = r.throttling_conn
      /\ s.conn_throttle_count = r.conn_throttle_count
  BY <1>3, <1>4, <1>5 DEF SameData, SameWindow, Same
<1> QED
  BY <1>6, <1>7, <1>8

\* A channel that both sides could close is closed, on this side at least.
LEMMA CheckClose ==
  ASSUME NEW r \in Chan
  PROVE  /\ Does(r, ssh2_channel_check_close(r)) /\ Calm(r, ssh2_channel_check_close(r))
         /\ Quiet(r, ssh2_channel_check_close(r))
         /\ Alive(r) => ssh2_channel_check_close(r).crash = "none"
<1> DEFINE s == ssh2_channel_check_close(r)
           r0 == Touch(r)
           r1 == IF chan_want_close(r0) /\ r0.chanreq = <<>> /\ ~Has(r0, "SENT_CLOSE")
                 THEN send_close(r0) ELSE r0
           d == ssh2_channel_destroy(r1)
<1>1. /\ r0.halfopen => s = r0
      /\ ~r0.halfopen =>
           s = IF Has(r1, "SENT_CLOSE") /\ Has(r1, "RCVD_CLOSE") THEN d ELSE r1
  BY DEF ssh2_channel_check_close
<1>2. /\ r0 \in Chan /\ Same(r, r0)
      /\ r.st = "live" \/ r.crash # "none" => r0 = r
  BY TouchProps
<1>3. /\ r1 = r0 \/ (chan_want_close(r0) /\ r0.chanreq = <<>> /\ ~Has(r0, "SENT_CLOSE")
                     /\ r1 = send_close(r0))
  OBVIOUS
<1> HIDE DEF r1, r0
<1>4. /\ send_close(r0) \in Chan /\ Base(r0, send_close(r0))
      /\ send_close(r0).closes = r0.closes \cup {"SENT_EOF", "SENT_CLOSE"}
  BY <1>2, SendClose
<1>5. r1 \in Chan /\ r1.kind = r.kind /\ (r.crash # "none" => r1.crash = r.crash)
  BY <1>2, <1>3, <1>4 DEF Base, Same, SameLocal
<1>6. d \in Chan /\ d.kind = r1.kind /\ (r1.crash # "none" => d.crash = r1.crash)
  BY <1>5, DestroyProps
<1> HIDE DEF d, s
<1>7. s \in Chan /\ s.kind = r.kind /\ (r.crash # "none" => s.crash = r.crash)
  BY <1>1, <1>2, <1>5, <1>6 DEF Same, SameLocal
<1>8. ASSUME Alive(r)
      PROVE  /\ s.crash = "none" /\ Core(s) /\ Moves(r, s) /\ (Waits(r) => Waits(s))
             /\ Quiet(r, s) /\ (r.chan = "live" /\ Ended(s) => Ended(r))
  <2>1. r0 = r /\ r.st = "live" /\ r.crash = "none" /\ Core(r)
    BY <1>2, <1>8 DEF Alive
  <2>2. ~Has(r, "RCVD_CLOSE")
    BY <2>1 DEF Core, Firm, Flags
  <2>3. s = r \/ (/\ ~r.halfopen /\ s = send_close(r) /\ chan_want_close(r)
                  /\ r.chanreq = <<>> /\ ~Has(r, "SENT_CLOSE"))
    <3>1. ~Has(r1, "RCVD_CLOSE")
      BY <1>3, <1>4, <2>1, <2>2 DEF Has
    <3> QED
      BY <3>1, <1>1, <1>3, <2>1
  <2>4. CASE s = r
    BY <2>1, <2>4, DoesNothing, <1>8 DEF Does, Quiet, SameWindow
  <2>5. CASE /\ ~r.halfopen /\ s = send_close(r) /\ chan_want_close(r)
             /\ r.chanreq = <<>> /\ ~Has(r, "SENT_CLOSE")
    <3>1. ~r.pending_eof
      BY <2>1, <2>5 DEF chan_want_close, Core, Idle
    <3>2. Core(s) /\ Moves(r, s) /\ Quiet(r, s) /\ Waits(s) = Waits(r)
      BY <2>1, <2>5, <3>1, SendCloseMoves DEF Core
    <3>3. s.crash = "none"
      BY <1>4, <2>1, <2>5 DEF Base
    <3>4. r.chan = "live" => Ended(r)
      BY <2>5 DEF chan_want_close, Ended
    <3> QED
      BY <3>2, <3>3, <3>4
  <2> QED
    BY <2>3, <2>4, <2>5
<1> QED
  BY <1>7, <1>8 DEF Does, Calm, Loyal, Quiet, s

WithEof(r) == [r EXCEPT !.pending_eof = FALSE, !.closes = @ \cup {"SENT_EOF"}]

\* The pending EOF is noted as sent.
LEMMA SetEof ==
  ASSUME NEW r \in Chan
  PROVE  /\ WithEof(r) \in Chan /\ Base(r, WithEof(r))
         /\ WithEof(r).closes = r.closes \cup {"SENT_EOF"}
         /\ WithEof(r).pending_eof = FALSE /\ WithEof(r).chan = r.chan
         /\ WithEof(r).chanreq = r.chanreq /\ WithEof(r).out = r.out
         /\ SameData(r, WithEof(r)) /\ SameWindow(r, WithEof(r))
BY DEF Chan, Base, SameData, SameWindow, WithEof, Closes

\* EOF is sent.
SendEof(r) == WithEof(Push(r, "EOF", 0))

\* Nothing else changes.
LEMMA SendEofProps ==
  ASSUME NEW r \in Chan
  PROVE  /\ SendEof(r) \in Chan /\ Base(r, SendEof(r))
         /\ SendEof(r).closes = r.closes \cup {"SENT_EOF"}
         /\ SendEof(r).pending_eof = FALSE /\ SendEof(r).chan = r.chan
         /\ SendEof(r).chanreq = r.chanreq /\ SendEof(r).out = Queued(r, "EOF", 0)
         /\ SameData(r, SendEof(r)) /\ SameWindow(r, SendEof(r))
<1> DEFINE ty == "EOF"
           z == 0
           x == Push(r, ty, z)
           y == WithEof(x)
<1>0. ty \in ServerTypes /\ z \in Nat /\ SendEof(r) = y
  BY Types DEF SendEof
<1> HIDE DEF ty, z
<1>1. /\ x \in Chan /\ x.out = Queued(r, ty, z) /\ Base(r, x) /\ Closing(r, x)
      /\ SameData(r, x) /\ SameWindow(r, x) /\ x.chanreq = r.chanreq
  BY <1>0, PushProps
<1> HIDE DEF x
<1>2. /\ y \in Chan /\ Base(x, y)
      /\ y.closes = x.closes \cup {"SENT_EOF"} /\ y.pending_eof = FALSE /\ y.chan = x.chan
      /\ y.chanreq = x.chanreq /\ y.out = x.out
      /\ SameData(x, y) /\ SameWindow(x, y)
  BY <1>1, SetEof
<1> HIDE DEF y
<1> QED
  BY <1>0, <1>1, <1>2 DEF ty, z, Base, Closing, SameData, SameWindow

\* That keeps everything in order, if the data have been sent.
LEMMA SendEofMoves ==
  ASSUME NEW r \in Chan, r.st = "live", ~r.halfopen, r.outbuffer = 0,
         ~Has(r, "SENT_EOF"), Firm(r)
  PROVE  /\ Core(SendEof(r)) /\ Moves(r, SendEof(r)) /\ Waits(SendEof(r))
         /\ Quiet(r, SendEof(r))
<1> DEFINE ty == "EOF"
           z == 0
           x == SendEof(r)
           q == Queued(r, ty, z)
<1>1. /\ x \in Chan /\ Base(r, x) /\ x.closes = r.closes \cup {"SENT_EOF"}
      /\ x.pending_eof = FALSE /\ x.chan = r.chan
      /\ x.chanreq = r.chanreq /\ x.out = q
      /\ SameData(r, x) /\ SameWindow(r, x)
  BY SendEofProps
<1>2. ty \in ServerTypes /\ z \in Nat
  BY Types
<1>c. \A t : t # "EOF" => ty # t
  OBVIOUS
<1>d. ty # "DATA"
  OBVIOUS
<1> HIDE DEF x, ty, z
<1>3. /\ \A t : ty # t => InFlight(q, t) = InFlight(r.out, t)
      /\ \A t : No(q, t) <=> No(r.out, t) /\ ty # t
      /\ No(r.out, "CLOSE") => CloseLast(q)
      /\ EofLate(r.out) /\ (ty # "DATA" \/ No(r.out, "EOF")) => EofLate(q)
  BY <1>2, PushQueue
<1> HIDE DEF q
<1>4. /\ InFlight(x.out, "DATA") = InFlight(r.out, "DATA")
      /\ InFlight(x.out, "ADJUST") = InFlight(r.out, "ADJUST")
      /\ InFlight(x.out, "REQUEST") = InFlight(r.out, "REQUEST")
  BY <1>1, <1>c, <1>3
<1>a. ~Has(r, "SENT_CLOSE") /\ No(r.out, "CLOSE")
  BY DEF Firm, Flags, Order
<1>5. Flags(x) /\ Idle(x)
  BY <1>1, <1>a DEF Firm, Flags, Idle, Has, Base
<1>6. Early(x) /\ Throttle(x) /\ Handlers(x)
  BY <1>1 DEF Firm, Early, Throttle, Handlers, SameData, SameWindow, Base
<1>7. Order(x)
  BY <1>1, <1>a, <1>c, <1>d, <1>3 DEF Firm, Order, SameData, Has
<1>8. Moves(r, x)
  BY <1>1, <1>a, <1>c, <1>3, <1>4 DEF Moves, SameData, SameWindow, Plain, Has, Base
<1>9. Waits(x) /\ Quiet(r, x)
  BY <1>1 DEF Waits, SameData, Base, Quiet
<1> QED
  BY <1>5, <1>6, <1>7, <1>8, <1>9 DEF Core, Firm, x

\* The end of ssh2_channel_try_eof.
LEMMA TryEofNow ==
  ASSUME NEW r \in Chan, r.st = "live", ~r.halfopen, r.outbuffer = 0,
         ~Has(r, "SENT_EOF"), Firm(r), r.crash = "none",
         NEW s, s = ssh2_channel_check_close(SendEof(r))
  PROVE  /\ s \in Chan /\ s.kind = r.kind /\ s.crash = "none" /\ Core(s) /\ Moves(r, s)
         /\ Waits(s) /\ s.chan = r.chan /\ s.localeof = r.localeof
         /\ s.chanreq = r.chanreq /\ SameWindow(r, s) /\ Has(s, "SENT_EOF")
<1> DEFINE x == SendEof(r)
<1>1. x \in Chan /\ Base(r, x) /\ x.closes = r.closes \cup {"SENT_EOF"} /\ x.chan = r.chan
      /\ x.chanreq = r.chanreq /\ SameWindow(r, x)
  BY SendEofProps
<1>2. Core(x) /\ Moves(r, x) /\ Waits(x)
  BY SendEofMoves
<1> HIDE DEF x
<1>3. /\ Does(x, ssh2_channel_check_close(x)) /\ Quiet(x, ssh2_channel_check_close(x))
      /\ Alive(x) => ssh2_channel_check_close(x).crash = "none"
  BY <1>1, CheckClose
<1>a. s = ssh2_channel_check_close(x)
  BY DEF x
<1>b. Does(x, s) /\ Quiet(x, s) /\ (Alive(x) => s.crash = "none")
  BY <1>3, <1>a
<1>4. Alive(x)
  BY <1>1, <1>2 DEF Alive, Base
<1>5. s \in Chan /\ s.kind = r.kind
  BY <1>1, <1>b DEF Does, Base
<1>6. s.crash = "none"
  BY <1>4, <1>b
<1>7. Core(s) /\ Moves(x, s) /\ Waits(s)
  BY <1>2, <1>4, <1>6, <1>b DEF Does
<1>8. s.chan = r.chan /\ s.localeof = r.localeof /\ s.chanreq = r.chanreq /\ SameWindow(r, s)
  BY <1>1, <1>4, <1>6, <1>b DEF Quiet, SameWindow, Base
<1>9. Moves(r, s)
  BY <1>1, <1>2, <1>5, <1>7, MovesTrans
<1>10. Has(s, "SENT_EOF")
  BY <1>1, <1>7 DEF Moves, Has
<1> QED
  BY <1>5, <1>6, <1>7, <1>8, <1>9, <1>10

\* An EOF that is pending is sent once there are no data before it.
LEMMA TryEof ==
  ASSUME NEW r \in Chan, r.crash # "none" \/ r.pending_eof
  PROVE  /\ Does(r, ssh2_channel_try_eof(r)) /\ Calm(r, ssh2_channel_try_eof(r))
         /\ Quiet(r, ssh2_channel_try_eof(r))
         /\ Alive(r) /\ (r.halfopen \/ r.outbuffer = 0) => Waits(ssh2_channel_try_eof(r))
<1> DEFINE s == ssh2_channel_try_eof(r)
           t == ssh2_channel_check_close(SendEof(r))
<1>1. Check(r, r.pending_eof, "assert_eof") = r
  BY DEF Check
<1>2. (s = r /\ (r.halfopen \/ r.outbuffer > 0)) \/ (~r.halfopen /\ ~(r.outbuffer > 0) /\ s = t)
  BY <1>1 DEF ssh2_channel_try_eof, SendEof, WithEof
<1>3. CASE s = r /\ (r.halfopen \/ r.outbuffer > 0)
  <2>1. r.halfopen \/ r.outbuffer # 0
    BY <1>3
  <2> QED
    BY <1>3, <2>1, DoesNothing DEF s, Waits
<1>4. CASE ~r.halfopen /\ ~(r.outbuffer > 0) /\ s = t
  <2>1. SendEof(r) \in Chan /\ Base(r, SendEof(r))
    BY SendEofProps
  <2>2. t \in Chan /\ t.kind = r.kind /\ (r.crash # "none" => t.crash = r.crash)
    BY <2>1, CheckClose DEF Does, Base
  <2>a. t = ssh2_channel_check_close(SendEof(r))
    OBVIOUS
  <2> HIDE DEF t, s
  <2>3. ASSUME Alive(r)
        PROVE  /\ t.crash = "none" /\ Core(t) /\ Moves(r, t) /\ Waits(t)
               /\ t.chan = r.chan /\ t.localeof = r.localeof
               /\ t.chanreq = r.chanreq /\ SameWindow(r, t)
    <3>1. /\ r.crash = "none" /\ r.pending_eof /\ Firm(r) /\ r.st = "live"
          /\ ~Has(r, "SENT_EOF")
      BY <2>3 DEF Alive, Core, Idle
    <3>2. r.outbuffer = 0
      BY <1>4, Numbers
    <3> QED
      BY <1>4, <2>a, <3>1, <3>2, TryEofNow
  <2>4. Alive(r) => Ended(r)
    BY DEF Alive, Ended
  <2>5. Does(r, t)
    BY <2>2, <2>3 DEF Does
  <2>6. Quiet(r, t) /\ Calm(r, t)
    BY <2>3, <2>4 DEF Quiet, Calm, Loyal
  <2> QED
    BY <1>4, <2>3, <2>5, <2>6 DEF s
<1> QED
  BY <1>2, <1>3, <1>4

WithInput(r, b) == [r EXCEPT !.input_wanted = b]

\* The local end is told whether to go on reading.
LEMMA CheckThrottle ==
  ASSUME NEW r \in Chan
  PROVE  /\ ssh2_channel_check_throttle(r) \in Chan
         /\ Alive(r) => Same(r, ssh2_channel_check_throttle(r))
         /\ Alive(r) => ssh2_channel_check_throttle(r).xauth = r.xauth
         /\ Does(r, ssh2_channel_check_throttle(r)) /\ Calm(r, ssh2_channel_check_throttle(r))
         /\ Quiet(r, ssh2_channel_check_throttle(r))
         /\ Alive(r) => ssh2_channel_check_throttle(r).crash = "none"
<1> DEFINE s == ssh2_channel_check_throttle(r)
           x == Touch(r)
           b == ~x.throttled_by_backlog /\ ~x.all_channels_throttled /\ ~x.pending_eof
                /\ ~Has(x, "SENT_EOF")
           y == WithInput(x, b)
<1>1. s = x \/ s = y
  BY DEF ssh2_channel_check_throttle, WithInput
<1>2. x \in Chan /\ Same(r, x) /\ (r.st = "live" \/ r.crash # "none" => x = r)
  BY TouchProps
<1>3. b \in BOOLEAN
  OBVIOUS
<1> HIDE DEF x, b
<1>4. y \in Chan /\ Same(x, y) /\ y.crash = x.crash /\ y.xauth = x.xauth
  <2>1. y \in Chan /\ y.crash = x.crash /\ y.xauth = x.xauth
    BY <1>2, <1>3 DEF Chan, WithInput
  <2>2. Same(x, y)
    BY <1>2, <1>3 DEF Chan, WithInput, Same, SameClosing, SameData, SameWindow, SameLocal
  <2> QED
    BY <2>1, <2>2
<1> HIDE DEF y, s
<1>5. s \in Chan /\ Same(x, s) /\ s.crash = x.crash /\ s.xauth = x.xauth
  BY <1>1, <1>2, <1>4 DEF Same, SameClosing, SameData, SameWindow, SameLocal
<1>6. Same(r, s)
  BY <1>2, <1>5 DEF Same, SameClosing, SameData, SameWindow, SameLocal
<1>7. r.st = "live" \/ r.crash # "none" => s.crash = r.crash
  BY <1>2, <1>5
<1>8. Does(r, s) /\ Calm(r, s) /\ Quiet(r, s)
  <2>1. CASE s.crash = r.crash
    BY <1>5, <1>6, <2>1, Aside
  <2>2. CASE s.crash # r.crash
    <3>1. ~Alive(r) /\ r.crash = "none"
      BY <2>2, <1>7 DEF Alive
    <3> QED
      BY <3>1, <1>5, <1>6, Aside DEF Does, Same, SameLocal
  <2> QED
    BY <2>1, <2>2
<1>9. Alive(r) => s.crash = "none" /\ Same(r, s) /\ s.xauth = r.xauth
  BY <1>2, <1>5, <1>6 DEF Alive
<1> QED
  BY <1>5, <1>8, <1>9 DEF s

WithSent(r, n) == [r EXCEPT !.outbuffer = @ - n, !.remwindow = @ - n]

\* Data leave the buffer and use up window.
LEMMA SetSent ==
  ASSUME NEW r \in Chan, NEW n \in Nat, n <= r.outbuffer, n <= r.remwindow
  PROVE  /\ WithSent(r, n) \in Chan /\ Base(r, WithSent(r, n)) /\ Closing(r, WithSent(r, n))
         /\ WithSent(r, n).outbuffer = r.outbuffer - n
         /\ WithSent(r, n).remwindow = r.remwindow - n
         /\ WithSent(r, n).written = r.written
         /\ SameWindow(r, WithSent(r, n))
         /\ WithSent(r, n).chanreq = r.chanreq /\ WithSent(r, n).out = r.out
<1> DEFINE a == r.outbuffer - n
           b == r.remwindow - n
<1>1. a \in Nat /\ b \in Nat
  BY Numbers
<1>2. WithSent(r, n) = [r EXCEPT !.outbuffer = a, !.remwindow = b]
  BY DEF WithSent
<1> HIDE DEF a, b
<1>3. [r EXCEPT !.outbuffer = a, !.remwindow = b] \in Chan
  BY <1>1 DEF Chan
<1>4. /\ Base(r, WithSent(r, n)) /\ Closing(r, WithSent(r, n))
      /\ WithSent(r, n).outbuffer = a /\ WithSent(r, n).remwindow = b
      /\ WithSent(r, n).written = r.written
      /\ SameWindow(r, WithSent(r, n))
      /\ WithSent(r, n).chanreq = r.chanreq /\ WithSent(r, n).out = r.out
  BY <1>2 DEF Chan, Base, Closing, SameWindow
<1> QED
  BY <1>2, <1>3, <1>4 DEF a, b

SendData(r, n) == WithSent(Push(r, "DATA", n), n)

\* Data are sent.
LEMMA SendDataProps ==
  ASSUME NEW r \in Chan, NEW n \in Nat, n <= r.outbuffer, n <= r.remwindow
  PROVE  /\ SendData(r, n) \in Chan /\ Base(r, SendData(r, n)) /\ Closing(r, SendData(r, n))
         /\ SendData(r, n).outbuffer = r.outbuffer - n
         /\ SendData(r, n).remwindow = r.remwindow - n
         /\ SendData(r, n).written = r.written
         /\ SameWindow(r, SendData(r, n))
         /\ SendData(r, n).chanreq = r.chanreq /\ SendData(r, n).out = Queued(r, "DATA", n)
<1> DEFINE ty == "DATA"
           x == Push(r, ty, n)
           y == WithSent(x, n)
<1>0. ty \in ServerTypes /\ SendData(r, n) = y
  BY Types DEF SendData
<1> HIDE DEF ty
<1>1. /\ x \in Chan /\ x.out = Queued(r, ty, n) /\ Base(r, x) /\ Closing(r, x)
      /\ SameData(r, x) /\ SameWindow(r, x) /\ x.chanreq = r.chanreq
  BY <1>0, PushProps
<1> HIDE DEF x
<1>2. n <= x.outbuffer /\ n <= x.remwindow
  BY <1>1 DEF SameData
<1>3. /\ y \in Chan /\ Base(x, y) /\ Closing(x, y)
      /\ y.outbuffer = x.outbuffer - n /\ y.remwindow = x.remwindow - n
      /\ y.written = x.written /\ SameWindow(x, y)
      /\ y.chanreq = x.chanreq /\ y.out = x.out
  BY <1>1, <1>2, SetSent
<1> HIDE DEF y
<1> QED
  BY <1>0, <1>1, <1>3 DEF ty, Base, Closing, SameData, SameWindow

\* That keeps everything in order, and the accounts.
LEMMA SendDataMoves ==
  ASSUME NEW r \in Chan, NEW n \in Nat, n <= r.outbuffer, n <= r.remwindow,
         r.st = "live", ~r.halfopen, ~Has(r, "SENT_EOF"), Core(r)
  PROVE  /\ Core(SendData(r, n)) /\ Moves(r, SendData(r, n)) /\ Quiet(r, SendData(r, n))
<1> DEFINE ty == "DATA"
           x == SendData(r, n)
           q == Queued(r, ty, n)
<1>1. /\ x \in Chan /\ Base(r, x) /\ Closing(r, x)
      /\ x.outbuffer = r.outbuffer - n /\ x.remwindow = r.remwindow - n
      /\ x.written = r.written /\ SameWindow(r, x)
      /\ x.chanreq = r.chanreq /\ x.out = q
  BY SendDataProps
<1>2. ty \in ServerTypes
  BY Types
<1>c. \A t : t # "DATA" => ty # t
  OBVIOUS
<1>d. ty = "DATA"
  OBVIOUS
<1> HIDE DEF x, ty
<1>3. /\ \A t : ty # t => InFlight(q, t) = InFlight(r.out, t)
      /\ InFlight(q, ty) = InFlight(r.out, ty) + n
      /\ \A t : No(q, t) <=> No(r.out, t) /\ ty # t
      /\ No(r.out, "CLOSE") => CloseLast(q)
      /\ EofLate(r.out) /\ (ty # "DATA" \/ No(r.out, "EOF")) => EofLate(q)
  BY <1>2, PushQueue
<1> HIDE DEF q
<1>4. /\ InFlight(x.out, "DATA") = InFlight(r.out, "DATA") + n
      /\ InFlight(x.out, "ADJUST") = InFlight(r.out, "ADJUST")
      /\ InFlight(x.out, "REQUEST") = InFlight(r.out, "REQUEST")
  BY <1>1, <1>c, <1>d, <1>3
<1>a. ~Has(r, "SENT_CLOSE") /\ No(r.out, "CLOSE") /\ No(r.out, "EOF")
  BY DEF Core, Firm, Flags, Order
<1>5. Flags(x) /\ Idle(x)
  BY <1>1 DEF Core, Firm, Flags, Idle, Has, Base, Closing
<1>6. Early(x) /\ Throttle(x) /\ Handlers(x)
  BY <1>1 DEF Core, Firm, Early, Throttle, Handlers, SameWindow, Base, Closing
<1>7. Order(x)
  BY <1>1, <1>a, <1>c, <1>3 DEF Core, Firm, Order, Has, Closing
<1>8. /\ x.remwindow + InFlight(x.out, "DATA") = r.remwindow + InFlight(r.out, "DATA")
      /\ x.outbuffer + InFlight(x.out, "DATA") + r.written =
            r.outbuffer + InFlight(r.out, "DATA") + x.written
  <2> DEFINE f == InFlight(r.out, "DATA")
             ob == r.outbuffer
             rw == r.remwindow
             w == r.written
  <2>1. f \in Nat /\ ob \in Nat /\ rw \in Nat /\ w \in Nat /\ n \in Nat
    BY Numbers
  <2>2. x.outbuffer = ob - n /\ x.remwindow = rw - n /\ x.written = w
        /\ InFlight(x.out, "DATA") = f + n
    BY <1>1, <1>4
  <2> HIDE DEF f, ob, rw, w
  <2>3. /\ x.remwindow + InFlight(x.out, "DATA") = rw + f
        /\ x.outbuffer + InFlight(x.out, "DATA") + w = ob + f + x.written
    BY <2>1, <2>2
  <2> QED
    BY <2>3 DEF f, ob, rw, w
<1>9. Moves(r, x)
  BY <1>1, <1>a, <1>c, <1>3, <1>4, <1>8 DEF Moves, SameWindow, Plain, Has, Base, Closing
<1>10. Quiet(r, x)
  BY <1>1 DEF Base, Quiet, Closing
<1> QED
  BY <1>5, <1>6, <1>7, <1>9, <1>10 DEF Core, Firm, x

\* As much is sent as the server's window allows, and then perhaps EOF.
LEMMA TrySend ==
  ASSUME NEW r \in Chan, Alive(r) => ~Has(r, "SENT_EOF")
  PROVE  /\ Does(r, ssh2_try_send(r)) /\ Calm(r, ssh2_try_send(r)) /\ Quiet(r, ssh2_try_send(r))
         /\ Alive(r) /\ ssh2_try_send(r).crash = "none" => Waits(ssh2_try_send(r))
<1> DEFINE s == ssh2_try_send(r)
           n == SendNow(r)
           x == IF n = 0 THEN r ELSE SendData(r, n)
           t == ssh2_channel_try_eof(x)
<1>1. s = IF x.outbuffer = 0 /\ x.pending_eof THEN t ELSE x
  BY DEF ssh2_try_send, SendData, WithSent
<1>2. /\ n \in Nat /\ n <= r.outbuffer /\ n <= r.remwindow
      /\ r.halfopen => n = 0
      /\ r.halfopen \/ n = r.outbuffer \/ n = r.remwindow
  BY Numbers DEF SendNow, Least
<1>3. /\ n = 0 => x = r
      /\ n # 0 => x = SendData(r, n)
  OBVIOUS
<1> HIDE DEF x, n
<1>4. /\ SendData(r, n) \in Chan /\ Base(r, SendData(r, n)) /\ Closing(r, SendData(r, n))
      /\ SendData(r, n).outbuffer = r.outbuffer - n
      /\ SendData(r, n).remwindow = r.remwindow - n
  BY <1>2, SendDataProps
<1>5. x \in Chan /\ Base(r, x)
  BY <1>3, <1>4 DEF Base
<1>6. Alive(r) => Core(x) /\ Moves(r, x) /\ Quiet(r, x)
  <2>1. CASE n = 0
    BY <1>3, <2>1, DoesNothing DEF Does, Alive
  <2>2. CASE n # 0
    <3> SUFFICES ASSUME Alive(r) PROVE Core(x) /\ Moves(r, x) /\ Quiet(r, x)
      OBVIOUS
    <3>1. r.st = "live" /\ ~r.halfopen /\ ~Has(r, "SENT_EOF") /\ Core(r)
      BY <1>2, <2>2 DEF Alive
    <3> QED
      BY <1>2, <1>3, <2>2, <3>1, SendDataMoves
  <2> QED
    BY <2>1, <2>2
<1>7. r.halfopen \/ (x.outbuffer > 0 => x.remwindow = 0)
  <2> DEFINE ob == r.outbuffer
             rw == r.remwindow
  <2>1. ob \in Nat /\ rw \in Nat
    BY Numbers
  <2>2. \/ n = 0 /\ x.outbuffer = ob /\ x.remwindow = rw
        \/ x.outbuffer = ob - n /\ x.remwindow = rw - n
    BY <1>3, <1>4
  <2>3. r.halfopen \/ n = ob \/ n = rw
    BY <1>2
  <2> HIDE DEF ob, rw
  <2> QED
    BY <1>2, <2>1, <2>2, <2>3
<1>8. Closing(r, x)
  BY <1>3, <1>4 DEF Closing
<1>a. Alive(r) => Alive(x)
  BY <1>5, <1>6 DEF Alive, Base
<1>b. Alive(r) => (x.pending_eof /\ x.outbuffer = 0) \/ (x.pending_eof => x.outbuffer > 0)
  BY <1>5, Numbers
<1>9. CASE x.outbuffer = 0 /\ x.pending_eof
  <2>1. s = t
    BY <1>1, <1>9
  <2>2. /\ Does(x, t) /\ Calm(x, t) /\ Quiet(x, t)
        /\ Alive(x) /\ (x.halfopen \/ x.outbuffer = 0) => Waits(t)
    BY <1>5, <1>9, TryEof
  <2> HIDE DEF t, s
  <2>3. t \in Chan /\ t.kind = r.kind /\ (r.crash # "none" => t.crash = r.crash)
    BY <1>5, <2>2 DEF Does, Base
  <2>4. ASSUME Alive(r)
        PROVE  /\ t.crash = "none" \/ t.crash \in Allowed(r.kind)
               /\ t.crash = "none" => Core(t) /\ Moves(r, t) /\ Waits(t)
    <3>1. /\ t.crash = "none" \/ t.crash \in Allowed(x.kind)
          /\ t.crash = "none" => Core(t) /\ Moves(x, t)
      BY <1>a, <2>2, <2>4 DEF Does
    <3>2. Waits(t)
      BY <1>9, <1>a, <2>2, <2>4
    <3> QED
      BY <1>5, <1>6, <2>3, <2>4, <3>1, <3>2, MovesTrans DEF Base
  <2>5. Does(r, t)
    BY <2>3, <2>4 DEF Does
  <2>6. Quiet(r, t)
    BY <1>5, <1>6, <1>a, <1>8, <2>2 DEF Quiet, SameWindow, Base, Alive
  <2>7. Calm(r, t)
    <3>1. Loyal(r, t)
      BY <2>6, QuietLoyal
    <3>2. Alive(r) => Ended(r)
      BY <1>9, <1>8 DEF Ended, Closing
    <3> QED
      BY <3>1, <3>2 DEF Calm
  <2> QED
    BY <2>1, <2>4, <2>5, <2>6, <2>7 DEF s
<1>10. CASE ~(x.outbuffer = 0 /\ x.pending_eof)
  <2>1. s = x
    BY <1>1, <1>10
  <2> HIDE DEF s
  <2>2. Alive(r) => Waits(x)
    BY <1>5, <1>7, <1>10, <1>b DEF Waits, Base
  <2>3. Does(r, x)
    BY <1>5, <1>6, <1>a, <2>2 DEF Does, Base, Alive
  <2>4. Quiet(r, x)
    BY <1>6 DEF Quiet
  <2>5. Calm(r, x)
    BY <2>4, <1>8, QuietLoyal DEF Calm, Ended, Closing, Has
  <2> QED
    BY <2>1, <2>2, <2>3, <2>4, <2>5 DEF s
<1> QED
  BY <1>9, <1>10

WithBacklog(r, b) == [r EXCEPT !.throttled_by_backlog = b]

\* The local end may go on once its data have been sent.
LEMMA TrySendAndUnthrottle ==
  ASSUME NEW r \in Chan
  PROVE  /\ Does(r, ssh2_try_send_and_unthrottle(r))
         /\ Calm(r, ssh2_try_send_and_unthrottle(r))
         /\ Quiet(r, ssh2_try_send_and_unthrottle(r))
         /\ Alive(r) /\ ssh2_try_send_and_unthrottle(r).crash = "none" /\ ~Has(r, "SENT_EOF") =>
              Waits(ssh2_try_send_and_unthrottle(r))
<1> DEFINE s == ssh2_try_send_and_unthrottle(r)
           x == ssh2_try_send(r)
           b == FALSE
           y == WithBacklog(x, b)
           t == ssh2_channel_check_throttle(y)
<1>1. CASE Has(r, "SENT_EOF")
  <2>1. s = r
    BY <1>1 DEF ssh2_try_send_and_unthrottle
  <2> QED
    BY <1>1, <2>1, DoesNothing DEF s
<1>2. CASE ~Has(r, "SENT_EOF")
  <2>1. s = x \/ s = t
    BY <1>2 DEF ssh2_try_send_and_unthrottle, WithBacklog
  <2>2. /\ Does(r, x) /\ Calm(r, x) /\ Quiet(r, x)
        /\ Alive(r) /\ x.crash = "none" => Waits(x)
    BY <1>2, TrySend
  <2>3. x \in Chan
    BY <2>2 DEF Does
  <2>a. b \in BOOLEAN
    OBVIOUS
  <2> HIDE DEF x, b
  <2>4. y \in Chan /\ Same(x, y) /\ y.crash = x.crash
    BY <2>3, <2>a DEF Chan, WithBacklog, Same, SameClosing, SameData, SameWindow, SameLocal
  <2> HIDE DEF y
  <2>5. Does(x, y) /\ Calm(x, y) /\ Quiet(x, y)
    BY <2>3, <2>4, Aside
  <2>6. Does(y, t) /\ Calm(y, t) /\ Quiet(y, t)
    BY <2>4, CheckThrottle
  <2> HIDE DEF t, s
  <2>7. t \in Chan
    BY <2>6 DEF Does
  <2>8. Does(x, t) /\ Calm(x, t) /\ Quiet(x, t)
    BY <2>3, <2>4, <2>5, <2>6, <2>7, DoesTrans, CalmTrans
  <2>9. Does(r, t) /\ Calm(r, t) /\ Quiet(r, t)
    BY <2>2, <2>3, <2>7, <2>8, DoesTrans, CalmTrans
  <2>10. Alive(r) /\ t.crash = "none" => Waits(t)
    <3> SUFFICES ASSUME Alive(r), t.crash = "none" PROVE Waits(t)
      OBVIOUS
    <3>1. x.crash = "none"
      BY <2>8 DEF Does
    <3>2. Alive(x)
      BY <3>1, <2>2 DEF Does, Moves, Alive
    <3> QED
      BY <3>1, <3>2, <2>2, <2>8 DEF Does
  <2> QED
    BY <2>1, <2>2, <2>9, <2>10 DEF s
<1> QED
  BY <1>1, <1>2

-----------------------------------------------------------------------------
(* Requests and the window.                                                *)

\* The handlers when one may have been added.
Requested(r, want, h) == IF want THEN Append(r.chanreq, h) ELSE r.chanreq

\* One more if an answer is wanted, at the end.
LEMMA RequestedProps ==
  ASSUME NEW r \in Chan, NEW want \in BOOLEAN, NEW h \in Nat
  PROVE  /\ Requested(r, want, h) \in Seq(Nat)
         /\ Len(Requested(r, want, h)) = Len(r.chanreq) + (IF want THEN 1 ELSE 0)
         /\ (\A i \in 1..Len(r.chanreq) : r.chanreq[i] > 0) /\ (want => h > 0) =>
               \A i \in 1..Len(Requested(r, want, h)) : Requested(r, want, h)[i] > 0
         /\ (\E i \in 1..Len(r.chanreq) : r.chanreq[i] > 0) \/ (want /\ h > 0) =>
               \E i \in 1..Len(Requested(r, want, h)) : Requested(r, want, h)[i] > 0
<1> DEFINE q == r.chanreq
           n == Len(q)
           w == Append(q, h)
<1>1. q \in Seq(Nat) /\ n \in Nat
  BY Numbers
<1> HIDE DEF q
<1>2. /\ w \in Seq(Nat) /\ Len(w) = n + 1 /\ w[n + 1] = h
      /\ \A i \in 1..n : w[i] = q[i]
  BY <1>1
<1>3. /\ \A i \in 1..n + 1 : i \in 1..n \/ i = n + 1
      /\ \A i \in 1..n : i \in 1..n + 1
      /\ n + 1 \in 1..n + 1
  BY <1>1
<1> HIDE DEF w, n
<1>4. (\A i \in 1..n : q[i] > 0) /\ h > 0 => \A i \in 1..n + 1 : w[i] > 0
  BY <1>2, <1>3
<1>5. (\E i \in 1..n : q[i] > 0) \/ h > 0 => \E i \in 1..n + 1 : w[i] > 0
  BY <1>2, <1>3
<1>6. CASE want
  <2>1. Requested(r, want, h) = w
    BY <1>6 DEF Requested, w, q
  <2>2. Len(Requested(r, want, h)) = n + 1
    BY <1>2, <2>1
  <2> QED
    BY <1>2, <1>4, <1>5, <1>6, <2>1, <2>2 DEF n, q
<1>7. CASE ~want
  <2>1. Requested(r, want, h) = q
    BY <1>7 DEF Requested, q
  <2> QED
    BY <1>1, <1>7, <2>1 DEF n, q
<1> QED
  BY <1>6, <1>7

WithReq(r, q) == [r EXCEPT !.chanreq = q]

\* The handlers are all that changes.
LEMMA SetReq ==
  ASSUME NEW r \in Chan, NEW q \in Seq(Nat)
  PROVE  /\ WithReq(r, q) \in Chan /\ WithReq(r, q).chanreq = q
         /\ Base(r, WithReq(r, q)) /\ Closing(r, WithReq(r, q))
         /\ SameData(r, WithReq(r, q)) /\ SameWindow(r, WithReq(r, q))
         /\ WithReq(r, q).out = r.out
BY DEF Chan, WithReq, Base, Closing, SameData, SameWindow

\* What asking for something changes.
LEMMA ChanreqProps ==
  ASSUME NEW r \in Chan, NEW want \in BOOLEAN, NEW h \in Nat, NEW s,
         s = ssh2_chanreq_init(r, want, h)
  PROVE  /\ s \in Chan /\ s.kind = r.kind /\ s.st = r.st /\ s.halfopen = r.halfopen
         /\ s.localeof = r.localeof
         /\ s.crash = IF r.crash = "none" /\ (Has(r, "SENT_CLOSE") \/ Has(r, "RCVD_CLOSE"))
                      THEN "assert_chanreq_init" ELSE r.crash
         /\ Closing(r, s) /\ SameData(r, s) /\ SameWindow(r, s)
         /\ s.chanreq = Requested(r, want, h)
         /\ s.out = Queued(r, "REQUEST", IF want THEN 1 ELSE 0)
<1> DEFINE ok == ~Has(r, "SENT_CLOSE") /\ ~Has(r, "RCVD_CLOSE")
           fault == "assert_chanreq_init"
           x == Check(r, ok, fault)
           q == Requested(x, want, h)
           y == WithReq(x, q)
           ty == "REQUEST"
           k == IF want THEN 1 ELSE 0
<1>1. /\ ok \in BOOLEAN /\ fault \in Stops /\ ty \in ServerTypes /\ k \in Nat
      /\ s = Push(y, ty, k)
  BY Types DEF Stops, Faults, ssh2_chanreq_init, WithReq, Requested
<1>a. fault = "assert_chanreq_init"
  OBVIOUS
<1>b. ok <=> ~(Has(r, "SENT_CLOSE") \/ Has(r, "RCVD_CLOSE"))
  OBVIOUS
<1>c. Queued(r, "REQUEST", IF want THEN 1 ELSE 0) = Queued(r, ty, k)
  OBVIOUS
<1> HIDE DEF ok, fault, ty, k
<1>2. x \in Chan /\ Same(r, x) /\ x.crash = IF ok \/ r.crash # "none" THEN r.crash ELSE fault
  BY <1>1, CheckProps
<1> HIDE DEF x
<1>3. q \in Seq(Nat)
  BY <1>2, RequestedProps
<1>4. q = Requested(r, want, h)
  BY <1>2 DEF Requested, Same, SameClosing
<1> HIDE DEF q
<1>5. /\ y \in Chan /\ y.chanreq = q /\ Base(x, y) /\ Closing(x, y)
      /\ SameData(x, y) /\ SameWindow(x, y) /\ y.out = x.out
  BY <1>2, <1>3, SetReq
<1> HIDE DEF y
<1>6. /\ s \in Chan /\ s.out = Queued(y, ty, k) /\ Base(y, s) /\ Closing(y, s)
      /\ SameData(y, s) /\ SameWindow(y, s) /\ s.chanreq = y.chanreq
  BY <1>1, <1>5, PushProps
<1>7. s.out = Queued(r, ty, k)
  BY <1>2, <1>5, <1>6 DEF Queued, Same, SameClosing
<1>8. /\ s.kind = r.kind /\ s.st = r.st /\ s.halfopen = r.halfopen
      /\ s.localeof = r.localeof /\ s.crash = x.crash
  BY <1>2, <1>5, <1>6 DEF Base, Same, SameClosing, SameLocal
<1>9. Closing(r, s) /\ SameData(r, s) /\ SameWindow(r, s)
  BY <1>2, <1>5, <1>6 DEF Closing, SameData, SameWindow, Same, SameClosing
<1> QED
  BY <1>a, <1>b, <1>c, <1>2, <1>4, <1>5, <1>6, <1>7, <1>8, <1>9

\* A request keeps everything in order, or fails an assertion.
LEMMA ChanreqInit ==
  ASSUME NEW r \in Chan, NEW want \in BOOLEAN, NEW h \in Nat, NEW s,
         s = ssh2_chanreq_init(r, want, h),
         Alive(r) => ~r.halfopen,
         Alive(r) /\ r.kind # "session" => ~Has(r, "SENT_CLOSE") /\ (want => h > 0)
  PROVE  Does(r, s) /\ Calm(r, s)
<1> DEFINE ty == "REQUEST"
           k == IF want THEN 1 ELSE 0
           q == Queued(r, ty, k)
<1>0. ty \in ServerTypes /\ k \in Nat
  BY Types
<1>1. /\ s \in Chan /\ s.kind = r.kind /\ s.st = r.st /\ s.halfopen = r.halfopen
      /\ s.localeof = r.localeof
      /\ s.crash = IF r.crash = "none" /\ (Has(r, "SENT_CLOSE") \/ Has(r, "RCVD_CLOSE"))
                   THEN "assert_chanreq_init" ELSE r.crash
      /\ Closing(r, s) /\ SameData(r, s) /\ SameWindow(r, s)
      /\ s.chanreq = Requested(r, want, h)
      /\ s.out = q
  BY ChanreqProps
<1>c. \A t : t # "REQUEST" => ty # t
  OBVIOUS
<1>d. ty = "REQUEST"
  OBVIOUS
<1> HIDE DEF ty
<1>e. k = IF want THEN 1 ELSE 0
  OBVIOUS
<1> HIDE DEF k
<1>2. /\ \A t : ty # t => InFlight(q, t) = InFlight(r.out, t)
      /\ InFlight(q, ty) = InFlight(r.out, ty) + k
      /\ \A t : No(q, t) <=> No(r.out, t) /\ ty # t
      /\ No(r.out, "CLOSE") => CloseLast(q)
      /\ EofLate(r.out) /\ (ty # "DATA" \/ No(r.out, "EOF")) => EofLate(q)
  BY <1>0, PushQueue
<1> HIDE DEF q
<1>3. /\ InFlight(s.out, "REQUEST") = InFlight(r.out, "REQUEST") + k
      /\ InFlight(s.out, "ADJUST") = InFlight(r.out, "ADJUST")
      /\ InFlight(s.out, "DATA") = InFlight(r.out, "DATA")
  BY <1>1, <1>c, <1>d, <1>2
<1>4. /\ Len(s.chanreq) = Len(r.chanreq) + k
      /\ (\A i \in 1..Len(r.chanreq) : r.chanreq[i] > 0) /\ (want => h > 0) =>
               \A i \in 1..Len(s.chanreq) : s.chanreq[i] > 0
      /\ (\E i \in 1..Len(r.chanreq) : r.chanreq[i] > 0) \/ (want /\ h > 0) =>
               \E i \in 1..Len(s.chanreq) : s.chanreq[i] > 0
  <2> DEFINE w == Requested(r, want, h)
  <2>1. /\ Len(w) = Len(r.chanreq) + (IF want THEN 1 ELSE 0)
        /\ (\A i \in 1..Len(r.chanreq) : r.chanreq[i] > 0) /\ (want => h > 0) =>
                 \A i \in 1..Len(w) : w[i] > 0
        /\ (\E i \in 1..Len(r.chanreq) : r.chanreq[i] > 0) \/ (want /\ h > 0) =>
                 \E i \in 1..Len(w) : w[i] > 0
    BY RequestedProps
  <2>2. s.chanreq = w
    BY <1>1
  <2> HIDE DEF w
  <2>3. Len(w) = Len(r.chanreq) + k
    BY <1>e, <2>1
  <2> QED
    BY <2>1, <2>2, <2>3
<1>5. ASSUME Alive(r), s.crash = "none"
      PROVE  Core(s) /\ Moves(r, s) /\ (Waits(r) => Waits(s))
  <2>1. /\ ~Has(r, "SENT_CLOSE") /\ ~r.halfopen /\ Core(r) /\ r.st = "live"
        /\ r.kind # "session" => (want => h > 0)
    BY <1>1, <1>5 DEF Alive
  <2>2. No(r.out, "CLOSE")
    BY <2>1 DEF Core, Firm, Order
  <2>3. Flags(s) /\ Idle(s)
    BY <1>1, <2>1 DEF Core, Firm, Flags, Idle, Has, Closing
  <2>4. Early(s) /\ Throttle(s)
    BY <1>1, <2>1 DEF Core, Firm, Early, Throttle, SameWindow, Closing
  <2>5. Handlers(s)
    BY <1>1, <1>4, <2>1 DEF Core, Firm, Handlers, SameWindow
  <2>6. Order(s)
    BY <1>1, <1>c, <1>2, <2>1, <2>2 DEF Core, Firm, Order, Has, Closing, SameData
  <2>7. /\ Len(s.chanreq) + InFlight(r.out, "REQUEST") =
              Len(r.chanreq) + InFlight(s.out, "REQUEST")
        /\ Len(r.chanreq) <= Len(s.chanreq)
    <3> DEFINE a == Len(r.chanreq)
               b == InFlight(r.out, "REQUEST")
    <3>1. a \in Nat /\ b \in Nat
      BY Numbers
    <3>2. Len(s.chanreq) = a + k /\ InFlight(s.out, "REQUEST") = b + k
      BY <1>3, <1>4
    <3> HIDE DEF a, b
    <3>3. Len(s.chanreq) + b = a + InFlight(s.out, "REQUEST") /\ a <= Len(s.chanreq)
      BY <1>0, <3>1, <3>2
    <3> QED
      BY <3>3 DEF a, b
  <2>8. Moves(r, s)
    BY <1>1, <1>c, <1>2, <1>3, <2>1, <2>7 DEF Moves, SameData, SameWindow, Plain, Has, Closing
  <2>9. Waits(r) => Waits(s)
    BY <1>1 DEF Waits, SameData, Closing
  <2> QED
    BY <2>3, <2>4, <2>5, <2>6, <2>8, <2>9 DEF Core, Firm
<1>6. Alive(r) => s.crash = "none" \/ s.crash \in Allowed(r.kind)
  <2> SUFFICES ASSUME Alive(r), s.crash # "none" PROVE s.crash \in Allowed(r.kind)
    OBVIOUS
  <2>1. r.crash = "none" /\ Core(r) /\ r.st = "live"
    BY DEF Alive
  <2>2. ~Has(r, "RCVD_CLOSE")
    BY <2>1 DEF Core, Firm, Flags
  <2>3. s.crash = "assert_chanreq_init" /\ Has(r, "SENT_CLOSE")
    BY <1>1, <2>1, <2>2
  <2> QED
    BY <2>3 DEF Allowed
<1>7. Does(r, s)
  BY <1>1, <1>5, <1>6 DEF Does
<1>8. Calm(r, s)
  BY <1>1 DEF Calm, Loyal, Closing, Ended, Has
<1> QED
  BY <1>7, <1>8

\* The new window is worth announcing: it is at least twice the old one.
LEMMA GrantProps ==
  ASSUME NEW r \in Chan, NEW newwin \in Nat, ~(newwin \div 2 < r.locwindow)
  PROVE  /\ Grant(r, newwin) \in Nat /\ newwin = r.locwindow + Grant(r, newwin)
         /\ newwin > 0 => Grant(r, newwin) > 0
<1> DEFINE l == r.locwindow
           h == newwin \div 2
<1>1. l \in Nat
  BY Numbers
<1>2. h \in Nat /\ 2 * h <= newwin /\ ~(h < l)
  OBVIOUS
<1> HIDE DEF l, h
<1>3. newwin >= 2 * l
  BY <1>1, <1>2
<1>4. newwin - l \in Nat /\ newwin = l + (newwin - l) /\ (newwin > 0 => newwin - l > 0)
  BY <1>1, <1>3
<1> QED
  BY <1>4 DEF Grant, l

States == {"THROTTLED", "UNTHROTTLING", "UNTHROTTLED"}
SameHeld(r, s) ==
  /\ s.locmaxwin = r.locmaxwin /\ s.held = r.held /\ s.throttling_conn = r.throttling_conn
  /\ s.conn_throttle_count = r.conn_throttle_count

WithState(r, ts) == [r EXCEPT !.throttle_state = ts]
WithRemloc(r, w, ts) == [r EXCEPT !.remlocwin = w, !.throttle_state = ts]
WithWindow(r, w) == [r EXCEPT !.locwindow = w]

\* The state of throttling is all that changes.
LEMMA SetState ==
  ASSUME NEW r \in Chan, NEW ts \in States
  PROVE  /\ WithState(r, ts) \in Chan /\ WithState(r, ts).throttle_state = ts
         /\ Base(r, WithState(r, ts)) /\ Closing(r, WithState(r, ts))
         /\ SameData(r, WithState(r, ts)) /\ SameHeld(r, WithState(r, ts))
         /\ WithState(r, ts).locwindow = r.locwindow
         /\ WithState(r, ts).chanreq = r.chanreq /\ WithState(r, ts).out = r.out
BY DEF Chan, States, WithState, Base, Closing, SameData, SameHeld

\* And what the server is thought to have left.
LEMMA SetRemloc ==
  ASSUME NEW r \in Chan, NEW ts \in States, NEW w \in Int
  PROVE  /\ WithRemloc(r, w, ts) \in Chan /\ WithRemloc(r, w, ts).throttle_state = ts
         /\ Base(r, WithRemloc(r, w, ts)) /\ Closing(r, WithRemloc(r, w, ts))
         /\ SameData(r, WithRemloc(r, w, ts)) /\ SameHeld(r, WithRemloc(r, w, ts))
         /\ WithRemloc(r, w, ts).locwindow = r.locwindow
         /\ WithRemloc(r, w, ts).chanreq = r.chanreq /\ WithRemloc(r, w, ts).out = r.out
BY DEF Chan, States, WithRemloc, Base, Closing, SameData, SameHeld

\* The window is all that changes.
LEMMA SetLocwindow ==
  ASSUME NEW r \in Chan, NEW w \in Nat
  PROVE  /\ WithWindow(r, w) \in Chan /\ WithWindow(r, w).locwindow = w
         /\ Base(r, WithWindow(r, w)) /\ Closing(r, WithWindow(r, w))
         /\ SameData(r, WithWindow(r, w)) /\ SameHeld(r, WithWindow(r, w))
         /\ WithWindow(r, w).throttle_state = r.throttle_state
         /\ WithWindow(r, w).chanreq = r.chanreq /\ WithWindow(r, w).out = r.out
BY DEF Chan, WithWindow, Base, Closing, SameData, SameHeld

\* What granting window changes.
Granted(r, n, newwin) == WithWindow(Push(r, "ADJUST", n), newwin)

\* The message, and the window.
LEMMA GrantedProps ==
  ASSUME NEW r \in Chan, NEW n \in Nat, NEW w \in Nat
  PROVE  /\ Granted(r, n, w) \in Chan /\ Granted(r, n, w).locwindow = w
         /\ Base(r, Granted(r, n, w)) /\ Closing(r, Granted(r, n, w))
         /\ SameData(r, Granted(r, n, w)) /\ SameHeld(r, Granted(r, n, w))
         /\ Granted(r, n, w).throttle_state = r.throttle_state
         /\ Granted(r, n, w).chanreq = r.chanreq
         /\ Granted(r, n, w).out = Queued(r, "ADJUST", n)
<1> DEFINE ty == "ADJUST"
           x == Push(r, ty, n)
           y == WithWindow(x, w)
<1>0. ty \in ServerTypes /\ Granted(r, n, w) = y
  BY Types DEF Granted
<1> HIDE DEF ty
<1>1. /\ x \in Chan /\ x.out = Queued(r, ty, n) /\ Base(r, x) /\ Closing(r, x)
      /\ SameData(r, x) /\ SameWindow(r, x) /\ x.chanreq = r.chanreq
  BY <1>0, PushProps
<1> HIDE DEF x
<1>2. /\ y \in Chan /\ y.locwindow = w /\ Base(x, y) /\ Closing(x, y)
      /\ SameData(x, y) /\ SameHeld(x, y) /\ y.throttle_state = x.throttle_state
      /\ y.chanreq = x.chanreq /\ y.out = x.out
  BY <1>1, SetLocwindow
<1> HIDE DEF y
<1> QED
  BY <1>0, <1>1, <1>2 DEF ty, Base, Closing, SameData, SameWindow, SameHeld

\* Window and backlog fit.
Fits(r, newwin) == r.kind # "x11" /\ ~ssh_is_simple => r.held + newwin <= r.locmaxwin

\* Granting window keeps everything in order, and the accounts.
LEMMA GrantedDoes ==
  ASSUME NEW r \in Chan, NEW n \in Nat, NEW w \in Nat, w = r.locwindow + n,
         Alive(r) => ~r.halfopen /\ ~Has(r, "SENT_CLOSE") /\ Fits(r, w)
  PROVE  Does(r, Granted(r, n, w)) /\ Calm(r, Granted(r, n, w))
<1> DEFINE ty == "ADJUST"
           x == Granted(r, n, w)
           q == Queued(r, ty, n)
<1>1. /\ x \in Chan /\ x.locwindow = w /\ Base(r, x) /\ Closing(r, x)
      /\ SameData(r, x) /\ SameHeld(r, x) /\ x.throttle_state = r.throttle_state
      /\ x.chanreq = r.chanreq /\ x.out = q
  BY GrantedProps
<1>2. ty \in ServerTypes
  BY Types
<1>c. \A t : t # "ADJUST" => ty # t
  OBVIOUS
<1>d. ty = "ADJUST"
  OBVIOUS
<1> HIDE DEF x, ty
<1>3. /\ \A t : ty # t => InFlight(q, t) = InFlight(r.out, t)
      /\ InFlight(q, ty) = InFlight(r.out, ty) + n
      /\ \A t : No(q, t) <=> No(r.out, t) /\ ty # t
      /\ No(r.out, "CLOSE") => CloseLast(q)
      /\ EofLate(r.out) /\ (ty # "DATA" \/ No(r.out, "EOF")) => EofLate(q)
  BY <1>2, PushQueue
<1> HIDE DEF q
<1>4. /\ InFlight(x.out, "ADJUST") = InFlight(r.out, "ADJUST") + n
      /\ InFlight(x.out, "DATA") = InFlight(r.out, "DATA")
      /\ InFlight(x.out, "REQUEST") = InFlight(r.out, "REQUEST")
  BY <1>1, <1>c, <1>d, <1>3
<1>5. ASSUME Alive(r)
      PROVE  Core(x) /\ Moves(r, x) /\ (Waits(r) => Waits(x))
  <2>1. ~Has(r, "SENT_CLOSE") /\ ~r.halfopen /\ Core(r) /\ r.st = "live" /\ Fits(r, w)
    BY <1>5 DEF Alive
  <2>2. No(r.out, "CLOSE")
    BY <2>1 DEF Core, Firm, Order
  <2>3. Flags(x) /\ Idle(x)
    BY <1>1, <2>1 DEF Core, Firm, Flags, Idle, Has, Closing, Base
  <2>4. Early(x) /\ Handlers(x)
    BY <1>1, <2>1 DEF Core, Firm, Early, Handlers, Closing, Base
  <2>5. Throttle(x)
    BY <1>1, <2>1 DEF Core, Firm, Throttle, SameHeld, Base, Fits, Closing
  <2>6. Order(x)
    BY <1>1, <1>c, <1>3, <2>1, <2>2 DEF Core, Firm, Order, Has, Closing, SameData
  <2>7. x.locwindow + InFlight(r.out, "ADJUST") = r.locwindow + InFlight(x.out, "ADJUST")
    <3> DEFINE a == r.locwindow
               b == InFlight(r.out, "ADJUST")
    <3>1. a \in Nat /\ b \in Nat
      BY Numbers
    <3>2. x.locwindow = a + n /\ InFlight(x.out, "ADJUST") = b + n
      BY <1>1, <1>4
    <3> HIDE DEF a, b
    <3>3. x.locwindow + b = a + InFlight(x.out, "ADJUST")
      BY <3>1, <3>2
    <3> QED
      BY <3>3 DEF a, b
  <2>8. Moves(r, x)
    BY <1>1, <1>c, <1>3, <1>4, <2>1, <2>7 DEF Moves, SameData, Plain, Has, Closing, Base
  <2>9. Waits(r) => Waits(x)
    BY <1>1 DEF Waits, SameData, Closing, Base
  <2> QED
    BY <2>3, <2>4, <2>5, <2>6, <2>8, <2>9 DEF Core, Firm
<1>6. Does(r, x)
  BY <1>1, <1>5 DEF Does, Base, Alive
<1>7. Calm(r, x)
  BY <1>1 DEF Calm, Loyal, Closing, Ended, Has, Base
<1> QED
  BY <1>6, <1>7 DEF x

\* A window may wait to be reopened once a winadj is on its way.
LEMMA SetStateDoes ==
  ASSUME NEW r \in Chan, NEW ts \in States,
         ts = "UNTHROTTLING" => \E i \in 1..Len(r.chanreq) : r.chanreq[i] > 0
  PROVE  Does(r, WithState(r, ts)) /\ Calm(r, WithState(r, ts))
<1> DEFINE x == WithState(r, ts)
<1>1. /\ x \in Chan /\ x.throttle_state = ts /\ Base(r, x) /\ Closing(r, x)
      /\ SameData(r, x) /\ SameHeld(r, x) /\ x.locwindow = r.locwindow
      /\ x.chanreq = r.chanreq /\ x.out = r.out
  BY SetState
<1> HIDE DEF x
<1>2. Flags(r) /\ Idle(r) /\ Early(r) /\ Order(r) => Flags(x) /\ Idle(x) /\ Early(x) /\ Order(x)
  BY <1>1 DEF Flags, Idle, Early, Order, Has, Closing, Base, SameData, SameHeld
<1>3. Throttle(r) /\ Handlers(r) => Throttle(x) /\ Handlers(x)
  BY <1>1 DEF Throttle, Handlers, Closing, Base, SameHeld
<1>4. Moves(r, x) /\ (Waits(r) => Waits(x)) /\ Calm(r, x)
  BY <1>1 DEF Moves, Waits, Calm, Loyal, Ended, Has, Closing, Base, SameData, SameHeld
<1> QED
  BY <1>1, <1>2, <1>3, <1>4 DEF Does, Core, Firm, Alive, Base, x

\* Or stay throttled.
LEMMA SetRemlocDoes ==
  ASSUME NEW r \in Chan, NEW w \in Int
  PROVE  /\ Does(r, WithRemloc(r, w, "THROTTLED")) /\ Calm(r, WithRemloc(r, w, "THROTTLED"))
<1> DEFINE ts == "THROTTLED"
           x == WithRemloc(r, w, ts)
<1>0. ts \in States /\ ts # "UNTHROTTLING"
  BY DEF States
<1> HIDE DEF ts
<1>1. /\ x \in Chan /\ x.throttle_state = ts /\ Base(r, x) /\ Closing(r, x)
      /\ SameData(r, x) /\ SameHeld(r, x) /\ x.locwindow = r.locwindow
      /\ x.chanreq = r.chanreq /\ x.out = r.out
  BY <1>0, SetRemloc
<1> HIDE DEF x
<1>2. Flags(r) /\ Idle(r) /\ Early(r) /\ Order(r) => Flags(x) /\ Idle(x) /\ Early(x) /\ Order(x)
  BY <1>1 DEF Flags, Idle, Early, Order, Has, Closing, Base, SameData, SameHeld
<1>3. Throttle(r) /\ Handlers(r) => Throttle(x) /\ Handlers(x)
  BY <1>0, <1>1 DEF Throttle, Handlers, Closing, Base, SameHeld
<1>4. Moves(r, x) /\ (Waits(r) => Waits(x)) /\ Calm(r, x)
  BY <1>1 DEF Moves, Waits, Calm, Loyal, Ended, Has, Closing, Base, SameData, SameHeld
<1> QED
  BY <1>1, <1>2, <1>3, <1>4 DEF Does, Core, Firm, Alive, Base, x, ts

\* The window is opened as far as newwin, if that is worth it.
LEMMA SetWindow ==
  ASSUME NEW r \in Chan, NEW newwin \in Nat, newwin > 0,
         Alive(r) => ~r.halfopen /\ Fits(r, newwin),
         NEW s, s = ssh2_set_window(r, newwin)
  PROVE  /\ Does(r, s) /\ Calm(r, s) /\ Closing(r, s) /\ SameData(r, s) /\ SameHeld(r, s)
         /\ s.st = r.st /\ s.halfopen = r.halfopen
         /\ Alive(r) => s.crash = "none"
<1> DEFINE n == Grant(r, newwin)
           early == Has(r, "RCVD_EOF") \/ Has(r, "SENT_CLOSE") \/ r.fixed
                    \/ newwin \div 2 < r.locwindow
           yes == TRUE
           a == ssh2_chanreq_init(r, yes, n)
           ta == IF a.throttle_state = "UNTHROTTLED" THEN a.throttle_state ELSE "UNTHROTTLING"
           b == WithState(a, ta)
           d == WithRemloc(r, newwin, "THROTTLED")
           y == IF newwin = r.locmaxwin THEN b ELSE d
           z == Granted(y, n, newwin)
<1>1. s = IF early THEN r ELSE z
  BY DEF ssh2_set_window, Granted, WithState, WithRemloc, WithWindow
<1>2. CASE early
  <2>1. s = r
    BY <1>1, <1>2
  <2> QED
    BY <2>1, DoesNothing DEF Closing, SameData, SameHeld, Alive
<1>3. CASE ~early
  <2>1. n \in Nat /\ newwin = r.locwindow + n /\ n > 0 /\ ~Has(r, "SENT_CLOSE")
    BY <1>3, GrantProps
  <2>y. yes \in BOOLEAN /\ newwin \in Int
    OBVIOUS
  <2>t. yes
    OBVIOUS
  <2>a. a = ssh2_chanreq_init(r, yes, n)
    OBVIOUS
  <2> HIDE DEF n, yes, a
  <2>2. /\ a \in Chan /\ a.kind = r.kind /\ a.st = r.st /\ a.halfopen = r.halfopen
        /\ a.localeof = r.localeof
        /\ a.crash = IF r.crash = "none" /\ (Has(r, "SENT_CLOSE") \/ Has(r, "RCVD_CLOSE"))
                     THEN "assert_chanreq_init" ELSE r.crash
        /\ Closing(r, a) /\ SameData(r, a) /\ SameWindow(r, a)
        /\ a.chanreq = Requested(r, yes, n)
    BY <2>1, <2>y, <2>a, ChanreqProps
  <2>3. \E i \in 1..Len(a.chanreq) : a.chanreq[i] > 0
    <3> DEFINE w == Requested(r, yes, n)
    <3>1. \E i \in 1..Len(w) : w[i] > 0
      BY <2>1, <2>y, <2>t, RequestedProps
    <3>2. a.chanreq = w
      BY <2>2
    <3> HIDE DEF w
    <3> QED
      BY <3>1, <3>2
  <2>4. Does(r, a) /\ Calm(r, a)
    BY <2>1, <2>y, <2>a, ChanreqInit
  <2>5. ta \in States
    BY <2>2 DEF Chan, States
  <2>6. /\ b \in Chan /\ Base(a, b) /\ Closing(a, b) /\ SameData(a, b) /\ SameHeld(a, b)
        /\ b.locwindow = a.locwindow
    BY <2>2, <2>5, SetState
  <2>7. Does(a, b) /\ Calm(a, b)
    BY <2>2, <2>3, <2>5, SetStateDoes
  <2> HIDE DEF b, ta
  <2>8. Does(r, b) /\ Calm(r, b)
    BY <2>2, <2>4, <2>6, <2>7, DoesTrans, CalmTrans
  <2>9. d \in Chan /\ Base(r, d) /\ Closing(r, d) /\ SameData(r, d) /\ SameHeld(r, d)
        /\ d.locwindow = r.locwindow
    <3> DEFINE ts == "THROTTLED"
    <3>1. ts \in States /\ d = WithRemloc(r, newwin, ts)
      BY DEF States
    <3> HIDE DEF ts, d
    <3>2. WithRemloc(r, newwin, ts) \in Chan /\ Base(r, WithRemloc(r, newwin, ts))
          /\ Closing(r, WithRemloc(r, newwin, ts)) /\ SameData(r, WithRemloc(r, newwin, ts))
          /\ SameHeld(r, WithRemloc(r, newwin, ts))
          /\ WithRemloc(r, newwin, ts).locwindow = r.locwindow
      BY <3>1, <2>y, SetRemloc
    <3> QED
      BY <3>1, <3>2
  <2>10. Does(r, d) /\ Calm(r, d)
    BY <2>y, SetRemlocDoes
  <2> HIDE DEF d
  <2>11. y = b \/ y = d
    OBVIOUS
  <2> HIDE DEF y
  <2>12. /\ y \in Chan /\ y.kind = r.kind /\ y.st = r.st /\ y.halfopen = r.halfopen
         /\ Closing(r, y) /\ SameData(r, y) /\ SameHeld(r, y) /\ y.locwindow = r.locwindow
    BY <2>2, <2>6, <2>9, <2>11 DEF Base, Closing, SameData, SameHeld, SameWindow
  <2>13. Does(r, y) /\ Calm(r, y)
    BY <2>8, <2>10, <2>11
  <2>14. Alive(r) => y.crash = "none"
    <3> SUFFICES ASSUME Alive(r) PROVE y.crash = "none"
      OBVIOUS
    <3>1. r.crash = "none" /\ ~Has(r, "RCVD_CLOSE")
      BY DEF Alive, Core, Firm, Flags
    <3> QED
      BY <3>1, <2>1, <2>2, <2>6, <2>9, <2>11 DEF Base
  <2>15. /\ z \in Chan /\ Base(y, z) /\ Closing(y, z) /\ SameData(y, z) /\ SameHeld(y, z)
    BY <2>1, <2>12, GrantedProps
  <2>16. Alive(r) => Does(y, z) /\ Calm(y, z)
    <3> SUFFICES ASSUME Alive(r) PROVE Does(y, z) /\ Calm(y, z)
      OBVIOUS
    <3>1. ~y.halfopen /\ ~Has(y, "SENT_CLOSE") /\ Fits(y, newwin)
      BY <2>1, <2>12 DEF Has, Closing, Fits, SameHeld
    <3>2. newwin = y.locwindow + n
      BY <2>1, <2>12
    <3> QED
      BY <2>1, <2>12, <3>1, <3>2, GrantedDoes
  <2> HIDE DEF z
  <2>17. s = z
    BY <1>1, <1>3
  <2>18. Closing(r, z) /\ SameData(r, z) /\ SameHeld(r, z) /\ z.st = r.st /\ z.halfopen = r.halfopen
         /\ z.kind = r.kind /\ z.crash = y.crash
    BY <2>12, <2>15 DEF Base, Closing, SameData, SameHeld
  <2>19. Does(r, z) /\ Calm(r, z)
    <3>1. CASE Alive(r)
      BY <3>1, <2>12, <2>13, <2>15, <2>16, DoesTrans, CalmTrans
    <3>2. CASE ~Alive(r)
      <4>1. Does(r, z)
        BY <3>2, <2>13, <2>15, <2>18 DEF Does
      <4> QED
        BY <4>1, <3>2 DEF Calm, Loyal
    <3> QED
      BY <3>1, <3>2
  <2> QED
    BY <2>14, <2>17, <2>18, <2>19
<1> QED
  BY <1>2, <1>3

-----------------------------------------------------------------------------
(* What a Channel asks of its SshChannel.                                  *)

WithWritten(r, n) == [r EXCEPT !.outbuffer = @ + n, !.written = @ + n]

\* Data join the buffer.
LEMMA SetWritten ==
  ASSUME NEW r \in Chan, NEW n \in Nat
  PROVE  /\ WithWritten(r, n) \in Chan /\ Base(r, WithWritten(r, n))
         /\ Closing(r, WithWritten(r, n))
         /\ WithWritten(r, n).outbuffer = r.outbuffer + n
         /\ WithWritten(r, n).remwindow = r.remwindow
         /\ WithWritten(r, n).written = r.written + n
         /\ SameWindow(r, WithWritten(r, n))
         /\ WithWritten(r, n).chanreq = r.chanreq /\ WithWritten(r, n).out = r.out
<1> DEFINE a == r.outbuffer + n
           b == r.written + n
<1>1. a \in Nat /\ b \in Nat
  BY Numbers
<1>2. WithWritten(r, n) = [r EXCEPT !.outbuffer = a, !.written = b]
  BY DEF WithWritten
<1> HIDE DEF a, b
<1>3. [r EXCEPT !.outbuffer = a, !.written = b] \in Chan
  BY <1>1 DEF Chan
<1>4. /\ Base(r, WithWritten(r, n)) /\ Closing(r, WithWritten(r, n))
      /\ WithWritten(r, n).outbuffer = a /\ WithWritten(r, n).remwindow = r.remwindow
      /\ WithWritten(r, n).written = b
      /\ SameWindow(r, WithWritten(r, n))
      /\ WithWritten(r, n).chanreq = r.chanreq /\ WithWritten(r, n).out = r.out
  BY <1>2 DEF Chan, Base, Closing, SameWindow
<1> QED
  BY <1>2, <1>3, <1>4 DEF a, b

\* Data are taken from the local end and, if the window allows, sent.
LEMMA Write ==
  ASSUME NEW r \in Chan, NEW n \in Nat,
         Alive(r) => /\ r.kind # "pfd" \/ ~Has(r, "SENT_EOF")
                     /\ ~r.halfopen \/ r.kind = "session",
         NEW s, s = ssh2channel_write(r, n)
  PROVE  /\ Does(r, s) /\ Calm(r, s) /\ Quiet(r, s)
         /\ Alive(r) /\ s.crash = "none" => Waits(s)
<1> DEFINE ok == ~Has(r, "SENT_EOF")
           fault == "assert_write"
           x == Check(r, ok, fault)
           y == WithWritten(x, n)
           t == ssh2_try_send(y)
<1>1. ok \in BOOLEAN /\ fault \in Stops /\ s = t
  BY DEF Stops, Faults, ssh2channel_write, WithWritten
<1>a. fault = "assert_write"
  OBVIOUS
<1>b. ok <=> ~Has(r, "SENT_EOF")
  OBVIOUS
<1> HIDE DEF ok, fault
<1>2. /\ x \in Chan /\ Same(r, x)
      /\ x.crash = IF ok \/ r.crash # "none" THEN r.crash ELSE fault
  BY <1>1, CheckProps
<1> HIDE DEF x
<1>3. /\ y \in Chan /\ Base(x, y) /\ Closing(x, y)
      /\ y.outbuffer = x.outbuffer + n /\ y.remwindow = x.remwindow
      /\ y.written = x.written + n
      /\ SameWindow(x, y) /\ y.chanreq = x.chanreq /\ y.out = x.out
  BY <1>2, SetWritten
<1> HIDE DEF y
<1>4. /\ y.kind = r.kind /\ y.st = r.st /\ y.halfopen = r.halfopen
      /\ y.localeof = r.localeof /\ Closing(r, y) /\ SameWindow(r, y)
      /\ y.chanreq = r.chanreq /\ y.out = r.out
      /\ y.outbuffer = r.outbuffer + n /\ y.remwindow = r.remwindow
      /\ y.written = r.written + n
      /\ y.crash = IF ok \/ r.crash # "none" THEN r.crash ELSE fault
  BY <1>2, <1>3 DEF Same, SameClosing, SameLocal, SameData, SameWindow, Closing, Base
<1>5. y.crash = "none" => r.crash = "none" /\ ~Has(r, "SENT_EOF")
  BY <1>a, <1>b, <1>4
<1>6. Alive(y) => ~Has(y, "SENT_EOF")
  BY <1>4, <1>5 DEF Alive, Closing, Has
<1>7. /\ Does(y, t) /\ Calm(y, t) /\ Quiet(y, t)
      /\ Alive(y) /\ t.crash = "none" => Waits(t)
  BY <1>3, <1>6, TrySend
<1> HIDE DEF t
<1>8. ASSUME Alive(r), y.crash = "none"
      PROVE  Core(y) /\ Moves(r, y)
  <2>1. ~Has(r, "SENT_EOF") /\ Core(r) /\ r.st = "live" /\ (~r.halfopen \/ r.kind = "session")
    BY <1>5, <1>8 DEF Alive
  <2>2. Flags(y) /\ Idle(y)
    BY <1>4, <2>1 DEF Core, Firm, Flags, Idle, Has, Closing
  <2>3. Early(y) /\ Throttle(y) /\ Handlers(y)
    BY <1>4, <2>1 DEF Core, Firm, Early, Throttle, Handlers, SameWindow, Closing
  <2>4. Order(y)
    BY <1>4, <2>1 DEF Core, Firm, Order, Has, Closing
  <2>5. y.outbuffer + InFlight(y.out, "DATA") + r.written =
            r.outbuffer + InFlight(r.out, "DATA") + y.written
    <3> DEFINE a == r.outbuffer
               b == InFlight(r.out, "DATA")
               d == r.written
    <3>1. a \in Nat /\ b \in Nat /\ d \in Nat
      BY Numbers
    <3>2. y.outbuffer = a + n /\ InFlight(y.out, "DATA") = b /\ y.written = d + n
      BY <1>4
    <3> HIDE DEF a, b, d
    <3>3. y.outbuffer + InFlight(y.out, "DATA") + d = a + b + y.written
      BY <3>1, <3>2
    <3> QED
      BY <3>3 DEF a, b, d
  <2>6. Moves(r, y)
    BY <1>4, <2>1, <2>5 DEF Moves, SameWindow, Plain, Has, Closing
  <2> QED
    BY <2>2, <2>3, <2>4, <2>6 DEF Core, Firm
<1>9. Alive(r) /\ y.crash = "none" => Alive(y)
  BY <1>4, <1>8 DEF Alive
<1>10. t \in Chan /\ t.kind = r.kind /\ (y.crash # "none" => t.crash = y.crash)
  BY <1>4, <1>7 DEF Does
<1>11. r.crash # "none" => t.crash = r.crash
  BY <1>4, <1>10
<1>12. ASSUME Alive(r) PROVE t.crash = "none" \/ t.crash \in Allowed(r.kind)
  <2>1. CASE y.crash = "none"
    BY <1>4, <1>7, <1>9, <1>12, <2>1 DEF Does
  <2>2. CASE y.crash # "none"
    <3>1. t.crash = "assert_write" /\ Has(r, "SENT_EOF")
      BY <1>a, <1>b, <1>4, <1>10, <1>12, <2>2 DEF Alive
    <3>2. r.kind # "pfd"
      BY <1>12, <3>1
    <3> QED
      BY <3>1, <3>2 DEF Allowed
  <2> QED
    BY <2>1, <2>2
<1>13. ASSUME Alive(r), t.crash = "none" PROVE Core(t) /\ Moves(r, t) /\ Waits(t) /\ Alive(y)
  <2>1. y.crash = "none"
    BY <1>10, <1>13
  <2> QED
    BY <1>3, <1>7, <1>8, <1>9, <1>10, <1>13, <2>1, MovesTrans DEF Does
<1>14. Does(r, t)
  BY <1>10, <1>11, <1>12, <1>13 DEF Does
<1>15. Quiet(r, t)
  BY <1>4, <1>7, <1>13 DEF Quiet, Closing, SameWindow
<1>16. Calm(r, t)
  <2>1. Loyal(r, t)
    BY <1>15, QuietLoyal
  <2> QED
    BY <2>1, <1>4, <1>7, <1>13 DEF Calm, Ended, Closing, Has
<1> QED
  BY <1>1, <1>13, <1>14, <1>15, <1>16

WithPending(r, b) == [r EXCEPT !.pending_eof = b]

\* The pending EOF is all that changes.
LEMMA SetPending ==
  ASSUME NEW r \in Chan, NEW b \in BOOLEAN
  PROVE  /\ WithPending(r, b) \in Chan /\ Base(r, WithPending(r, b))
         /\ WithPending(r, b).pending_eof = b
         /\ WithPending(r, b).closes = r.closes /\ WithPending(r, b).chan = r.chan
         /\ SameData(r, WithPending(r, b)) /\ SameWindow(r, WithPending(r, b))
         /\ WithPending(r, b).chanreq = r.chanreq /\ WithPending(r, b).out = r.out
BY DEF Chan, WithPending, Base, SameData, SameWindow

\* Nothing but the pending EOF has to do with order or accounts.
LEMMA PendingKeeps ==
  ASSUME NEW r \in Chan, NEW b \in BOOLEAN
  PROVE  /\ Firm(r) => Firm(WithPending(r, b))
         /\ Moves(r, WithPending(r, b))
<1> DEFINE y == WithPending(r, b)
<1>1. /\ y \in Chan /\ Base(r, y) /\ y.closes = r.closes /\ y.chan = r.chan
      /\ SameData(r, y) /\ SameWindow(r, y) /\ y.chanreq = r.chanreq /\ y.out = r.out
  BY SetPending
<1> HIDE DEF y
<1>2. Moves(r, y)
  BY <1>1 DEF Moves, Has, Base, SameData, SameWindow
<1>3. Flags(r) /\ Early(r) /\ Order(r) => Flags(y) /\ Early(y) /\ Order(y)
  BY <1>1 DEF Flags, Early, Order, Has, Base, SameData, SameWindow
<1>4. Throttle(r) /\ Handlers(r) => Throttle(y) /\ Handlers(y)
  BY <1>1 DEF Throttle, Handlers, Base, SameWindow
<1> QED
  BY <1>2, <1>3, <1>4 DEF Firm, y

\* The local end has nothing more to say.
LEMMA WriteEof ==
  ASSUME NEW r \in Chan, Alive(r) => r.chan = "live",
         NEW s, s = ssh2channel_write_eof(r)
  PROVE  /\ Does(r, s) /\ Quiet(r, s)
         /\ r.kind # "pfd" => Calm(r, s)
<1>1. CASE Has(r, "SENT_EOF")
  <2>1. s = r
    BY <1>1 DEF ssh2channel_write_eof
  <2> QED
    BY <2>1, DoesNothing
<1>2. CASE ~Has(r, "SENT_EOF")
  <2> DEFINE b == TRUE
             y == WithPending(r, b)
             t == ssh2_channel_try_eof(y)
  <2>1. s = t /\ b \in BOOLEAN /\ b
    BY <1>2 DEF ssh2channel_write_eof, WithPending
  <2> HIDE DEF b
  <2>2. /\ y \in Chan /\ Base(r, y) /\ y.pending_eof = b /\ y.closes = r.closes
        /\ y.chan = r.chan /\ SameData(r, y) /\ SameWindow(r, y)
        /\ y.chanreq = r.chanreq /\ y.out = r.out
    BY <2>1, SetPending
  <2>3. (Firm(r) => Firm(y)) /\ Moves(r, y)
    BY <2>1, PendingKeeps
  <2> HIDE DEF y
  <2>4. Alive(r) => Core(y) /\ Alive(y)
    BY <1>2, <2>2, <2>3 DEF Alive, Core, Idle, Has, Base
  <2>5. /\ Does(y, t) /\ Quiet(y, t)
        /\ Alive(y) /\ (y.halfopen \/ y.outbuffer = 0) => Waits(t)
    BY <2>1, <2>2, TryEof
  <2> HIDE DEF t
  <2>6. t \in Chan /\ t.kind = r.kind /\ (r.crash # "none" => t.crash = r.crash)
    BY <2>2, <2>5 DEF Does, Base
  <2>7. ASSUME Alive(r)
        PROVE  /\ t.crash = "none" \/ t.crash \in Allowed(r.kind)
               /\ t.crash = "none" => Core(t) /\ Moves(r, t) /\ (Waits(r) => Waits(t))
    <3>1. /\ t.crash = "none" \/ t.crash \in Allowed(r.kind)
          /\ t.crash = "none" => Core(t) /\ Moves(y, t) /\ (Waits(y) => Waits(t))
      BY <2>2, <2>4, <2>5, <2>7 DEF Does, Base
    <3>2. Waits(r) /\ ~(y.halfopen \/ y.outbuffer = 0) => Waits(y)
      <4>1. y.outbuffer = 0 \/ y.outbuffer > 0
        BY <2>2, Numbers
      <4> QED
        BY <4>1, <2>2 DEF Waits, Base, SameData
    <3>3. t.crash = "none" => Moves(r, t)
      BY <2>2, <2>3, <2>6, <3>1, MovesTrans
    <3> QED
      BY <2>4, <2>5, <2>7, <3>1, <3>2, <3>3
  <2>8. Does(r, t)
    BY <2>6, <2>7 DEF Does
  <2>9. Quiet(r, t)
    BY <2>2, <2>4, <2>5 DEF Quiet, Base, SameWindow
  <2>10. r.kind # "pfd" => Calm(r, t)
    BY <2>9, QuietLoyal DEF Calm
  <2> QED
    BY <2>1, <2>8, <2>9, <2>10
<1> QED
  BY <1>1, <1>2

\* Whatever the channel, it remains one.
LEMMA WriteEofTyped ==
  ASSUME NEW r \in Chan, NEW s, s = ssh2channel_write_eof(r)
  PROVE  s \in Chan /\ s.kind = r.kind /\ (r.crash # "none" => s.crash = r.crash)
<1> DEFINE b == TRUE
           y == WithPending(r, b)
           t == ssh2_channel_try_eof(y)
<1>1. s = r \/ s = t
  BY DEF ssh2channel_write_eof, WithPending
<1>2. b \in BOOLEAN /\ b
  OBVIOUS
<1> HIDE DEF b
<1>3. y \in Chan /\ Base(r, y) /\ y.pending_eof = b
  BY <1>2, SetPending
<1> HIDE DEF y
<1>4. Does(y, t)
  BY <1>2, <1>3, TryEof
<1> HIDE DEF t
<1> QED
  BY <1>1, <1>3, <1>4 DEF Does, Base

\* The local end has died.
LEMMA InitiateClose ==
  ASSUME NEW r \in Chan, NEW s, s = ssh2channel_initiate_close(r)
  PROVE  /\ Does(r, s)
         /\ Alive(r) => s.crash = "none" /\ s.chan = "zombie"
<1> DEFINE x == ssh2_channel_close_local(r)
           b == FALSE
           y == WithPending(x, b)
           t == ssh2_channel_check_close(y)
<1>1. s = t /\ b \in BOOLEAN /\ ~b
  BY DEF ssh2channel_initiate_close, WithPending
<1> HIDE DEF b
<1>2. /\ x \in Chan /\ Base(r, x) /\ x.closes = r.closes /\ x.pending_eof = r.pending_eof
      /\ x.chan = "zombie" /\ x.held = 0 /\ x.chanreq = r.chanreq /\ x.out = r.out
      /\ SameData(r, x) /\ x.locwindow = r.locwindow /\ x.locmaxwin = r.locmaxwin
      /\ x.throttle_state = r.throttle_state /\ x.throttling_conn = r.throttling_conn
      /\ x.conn_throttle_count = r.conn_throttle_count
  BY CloseLocal
<1> HIDE DEF x
<1>3. /\ y \in Chan /\ Base(x, y) /\ y.pending_eof = b /\ y.closes = x.closes
      /\ y.chan = x.chan /\ SameData(x, y) /\ SameWindow(x, y)
      /\ y.chanreq = x.chanreq /\ y.out = x.out
  BY <1>1, <1>2, SetPending
<1> HIDE DEF y
<1>4. /\ y.kind = r.kind /\ y.st = r.st /\ y.halfopen = r.halfopen /\ y.crash = r.crash
      /\ y.closes = r.closes /\ ~y.pending_eof /\ y.chan = "zombie" /\ y.held = 0
      /\ y.chanreq = r.chanreq /\ y.out = r.out
      /\ y.outbuffer = r.outbuffer /\ y.remwindow = r.remwindow /\ y.written = r.written
  BY <1>1, <1>2, <1>3 DEF Base, SameData, SameWindow
<1>5. /\ y.locwindow = r.locwindow /\ y.locmaxwin = r.locmaxwin
      /\ y.throttle_state = r.throttle_state /\ y.throttling_conn = r.throttling_conn
      /\ y.conn_throttle_count = r.conn_throttle_count
  BY <1>2, <1>3 DEF SameWindow
<1>6. Moves(r, y) /\ (Waits(r) => Waits(y))
  BY <1>4, <1>5 DEF Moves, Waits, Has
<1>7. Core(r) => Core(y)
  <2>1. Flags(r) /\ Early(r) /\ Order(r) => Flags(y) /\ Idle(y) /\ Early(y) /\ Order(y)
    BY <1>4 DEF Flags, Idle, Early, Order, Has
  <2>2. Handlers(r) => Handlers(y)
    BY <1>4, <1>5 DEF Handlers
  <2>3. Throttle(r) => Throttle(y)
    <3>1. r.held + r.locwindow <= r.locmaxwin => 0 + r.locwindow <= r.locmaxwin
      BY Numbers
    <3> QED
      BY <3>1, <1>4, <1>5 DEF Throttle
  <2> QED
    BY <2>1, <2>2, <2>3 DEF Core, Firm
<1>8. Does(r, y)
  BY <1>3, <1>4, <1>6, <1>7 DEF Does, Alive
<1>9. Does(y, t) /\ Quiet(y, t) /\ (Alive(y) => t.crash = "none")
  BY <1>3, CheckClose
<1> HIDE DEF t
<1>10. Does(r, t)
  BY <1>3, <1>8, <1>9, DoesTrans
<1>11. Alive(r) => t.crash = "none" /\ t.chan = "zombie"
  BY <1>4, <1>7, <1>9 DEF Alive, Quiet
<1> QED
  BY <1>1, <1>10, <1>11

WithUnthrottled(r, k) == [r EXCEPT !.throttling_conn = FALSE, !.conn_throttle_count = k]

\* Part of the backlog has gone.
LEMMA Unthrottle ==
  ASSUME NEW r \in Chan, Alive(r) => ~r.halfopen,
         NEW s, s = ssh2channel_unthrottle(r, r.held)
  PROVE  Does(r, s) /\ Calm(r, s)
<1> DEFINE bufsize == r.held
           buflimit == IF ssh_is_simple THEN 0 ELSE r.locmaxwin
           w == buflimit - bufsize
           x == IF bufsize < buflimit THEN ssh2_set_window(r, w) ELSE r
           k == x.conn_throttle_count - 1
           y == WithUnthrottled(x, k)
<1>1. (s = y /\ x.throttling_conn) \/ s = x
  BY DEF ssh2channel_unthrottle, WithUnthrottled
<1>2. bufsize \in Nat /\ buflimit \in Nat /\ r.locmaxwin \in Nat
  BY Numbers
<1>3. bufsize < buflimit =>
         /\ w \in Nat /\ w > 0 /\ Fits(r, w)
  <2> DEFINE m == r.locmaxwin
  <2>1. m \in Nat /\ (~ssh_is_simple => buflimit = m) /\ bufsize = r.held
    BY <1>2
  <2> HIDE DEF m, bufsize, buflimit
  <2>2. bufsize < buflimit => w \in Nat /\ w > 0
    BY <1>2
  <2>3. ~ssh_is_simple => bufsize + w <= m
    BY <1>2, <2>1
  <2> QED
    BY <2>1, <2>2, <2>3 DEF Fits, m
<1> HIDE DEF bufsize, buflimit, w
<1>4. Does(r, x) /\ Calm(r, x)
  <2>1. CASE bufsize < buflimit
    <3> DEFINE v == ssh2_set_window(r, w)
    <3>1. v = ssh2_set_window(r, w) /\ x = v
      BY <2>1
    <3> HIDE DEF v, x
    <3>2. Does(r, v) /\ Calm(r, v)
      BY <1>3, <2>1, <3>1, SetWindow
    <3> QED
      BY <3>1, <3>2
  <2>2. CASE ~(bufsize < buflimit)
    BY <2>2, DoesNothing
  <2> QED
    BY <2>1, <2>2
<1> HIDE DEF x
<1>5. x \in Chan /\ k \in Int
  BY <1>4, Numbers DEF Does
<1>a. k = x.conn_throttle_count - 1
  OBVIOUS
<1> HIDE DEF k
<1>6. /\ y \in Chan /\ Base(x, y) /\ Closing(x, y) /\ SameData(x, y)
      /\ y.locwindow = x.locwindow /\ y.locmaxwin = x.locmaxwin /\ y.held = x.held
      /\ y.throttle_state = x.throttle_state /\ ~y.throttling_conn
      /\ y.conn_throttle_count = k
      /\ y.chanreq = x.chanreq /\ y.out = x.out
  BY ZenonT(60), <1>5 DEF Chan, WithUnthrottled, Base, Closing, SameData
<1> HIDE DEF y
<1>7. x.throttling_conn /\ Core(x) => Core(y)
  <2>1. Flags(x) /\ Idle(x) /\ Early(x) /\ Order(x) => Flags(y) /\ Idle(y) /\ Early(y) /\ Order(y)
    BY <1>6 DEF Flags, Idle, Early, Order, Has, Base, Closing, SameData
  <2>2. Handlers(x) => Handlers(y)
    BY <1>6 DEF Handlers, Base
  <2>3. x.throttling_conn /\ Throttle(x) => Throttle(y)
    <3>1. x.conn_throttle_count = 1 => k = 0
      BY <1>a
    <3> QED
      BY <3>1, <1>6 DEF Throttle, Base, Closing
  <2> QED
    BY <2>1, <2>2, <2>3 DEF Core, Firm
<1>8. Moves(x, y) /\ (Waits(x) => Waits(y)) /\ Calm(x, y)
  BY <1>6 DEF Moves, Waits, Calm, Loyal, Ended, Has, Base, Closing, SameData
<1>9. x.throttling_conn => Does(x, y)
  BY <1>6, <1>7, <1>8 DEF Does, Alive, Base
<1>10. x.throttling_conn => Does(r, y) /\ Calm(r, y)
  BY <1>4, <1>5, <1>6, <1>8, <1>9, DoesTrans, CalmTrans
<1> QED
  BY <1>1, <1>4, <1>10

-----------------------------------------------------------------------------
(* The local ends.                                                         *)

WithFixed(r, b) == [r EXCEPT !.fixed = b]
WithXauth(r, a) == [r EXCEPT !.xauth = a]
WithEofPending(r, b) == [r EXCEPT !.eof_pending = b]
WithReady(r, b) == [r EXCEPT !.ready = b]
WithEofSent(r, b) == [r EXCEPT !.eof_sent = b]
WithAsked(r, a) == [r EXCEPT !.req = a]
WithGotPty(r, a, g) == [r EXCEPT !.req = a, !.got_pty = g]

\* What local ends keep for themselves.
LEMMA SetLocal ==
  ASSUME NEW r \in Chan, NEW b \in BOOLEAN
  PROVE  /\ WithFixed(r, b) \in Chan /\ Same(r, WithFixed(r, b))
         /\ WithFixed(r, b).crash = r.crash
         /\ WithEofSent(r, b) \in Chan /\ Same(r, WithEofSent(r, b))
         /\ WithEofSent(r, b).crash = r.crash
         /\ WithInput(r, b) \in Chan /\ Same(r, WithInput(r, b))
         /\ WithInput(r, b).crash = r.crash
         /\ WithReady(r, b) \in Chan /\ Same(r, WithReady(r, b))
         /\ WithReady(r, b).crash = r.crash
         /\ WithEofPending(r, b) \in Chan /\ Same(r, WithEofPending(r, b))
         /\ WithEofPending(r, b).crash = r.crash
<1>1. /\ WithFixed(r, b) \in Chan /\ Same(r, WithFixed(r, b)) /\ WithFixed(r, b).crash = r.crash
  BY DEF Chan, WithFixed, Same, SameClosing, SameData, SameWindow, SameLocal
<1>2. /\ WithEofSent(r, b) \in Chan /\ Same(r, WithEofSent(r, b))
      /\ WithEofSent(r, b).crash = r.crash
  BY DEF Chan, WithEofSent, Same, SameClosing, SameData, SameWindow, SameLocal
<1>3. /\ WithInput(r, b) \in Chan /\ Same(r, WithInput(r, b)) /\ WithInput(r, b).crash = r.crash
  BY DEF Chan, WithInput, Same, SameClosing, SameData, SameWindow, SameLocal
<1>5. /\ WithReady(r, b) \in Chan /\ Same(r, WithReady(r, b)) /\ WithReady(r, b).crash = r.crash
  BY DEF Chan, WithReady, Same, SameClosing, SameData, SameWindow, SameLocal
<1>6. /\ WithEofPending(r, b) \in Chan /\ Same(r, WithEofPending(r, b))
      /\ WithEofPending(r, b).crash = r.crash
  BY DEF Chan, WithEofPending, Same, SameClosing, SameData, SameWindow, SameLocal
<1> QED
  BY <1>1, <1>2, <1>3, <1>5, <1>6

\* The same of the X11 channel and of the main session.
LEMMA SetMore ==
  ASSUME NEW r \in Chan
  PROVE  /\ \A a \in {"none", "wait", "ok", "refused", "failed"} :
               /\ WithXauth(r, a) \in Chan /\ Same(r, WithXauth(r, a))
               /\ WithXauth(r, a).crash = r.crash
         /\ \A a \in SUBSET RequestNames :
               /\ WithAsked(r, a) \in Chan /\ Same(r, WithAsked(r, a))
               /\ WithAsked(r, a).crash = r.crash
         /\ \A a \in SUBSET RequestNames, g \in BOOLEAN :
               /\ WithGotPty(r, a, g) \in Chan /\ Same(r, WithGotPty(r, a, g))
               /\ WithGotPty(r, a, g).crash = r.crash
<1>1. ASSUME NEW a \in {"none", "wait", "ok", "refused", "failed"}
      PROVE  /\ WithXauth(r, a) \in Chan /\ Same(r, WithXauth(r, a))
             /\ WithXauth(r, a).crash = r.crash
  BY DEF Chan, WithXauth, Same, SameClosing, SameData, SameWindow, SameLocal
<1>2. ASSUME NEW a \in SUBSET RequestNames
      PROVE  /\ WithAsked(r, a) \in Chan /\ Same(r, WithAsked(r, a))
             /\ WithAsked(r, a).crash = r.crash
  BY DEF Chan, WithAsked, Same, SameClosing, SameData, SameWindow, SameLocal
<1>3. ASSUME NEW a \in SUBSET RequestNames, NEW g \in BOOLEAN
      PROVE  /\ WithGotPty(r, a, g) \in Chan /\ Same(r, WithGotPty(r, a, g))
             /\ WithGotPty(r, a, g).crash = r.crash
  BY ZenonT(60) DEF Chan, WithGotPty, Same, SameClosing, SameData, SameWindow, SameLocal
<1> QED
  BY <1>1, <1>2, <1>3

\* The initial window.
LEMMA InitialWindowProps == InitialWindow \in Nat /\ InitialWindow > 0
BY ChannelAssumption DEF InitialWindow

\* An X11 channel that has been authorised gets the usual window.
LEMMA WindowOverride ==
  ASSUME NEW r \in Chan, Alive(r) => r.kind = "x11",
         NEW s, s = ssh2channel_window_override_removed(r)
  PROVE  Does(r, s) /\ Calm(r, s) /\ s.chan = r.chan
<1> DEFINE b == FALSE
           x == WithFixed(r, b)
           w == InitialWindow
<1>1. b \in BOOLEAN /\ s = ssh2_set_window(x, w)
  BY DEF ssh2channel_window_override_removed, WithFixed
<1> HIDE DEF b
<1>2. x \in Chan /\ Same(r, x) /\ x.crash = r.crash
  BY <1>1, SetLocal
<1> HIDE DEF x
<1>3. Does(r, x) /\ Calm(r, x)
  BY <1>2, Aside
<1>4. Alive(x) => ~x.halfopen /\ Fits(x, w)
  <2> SUFFICES ASSUME Alive(x) PROVE ~x.halfopen /\ Fits(x, w)
    OBVIOUS
  <2>a. Same(x, r)
    BY <1>2 DEF Same, SameClosing, SameData, SameWindow, SameLocal
  <2>1. Alive(r)
    BY <1>2, <2>a, Aside DEF Alive, Same, SameClosing
  <2>2. r.kind = "x11" /\ x.kind = r.kind /\ Early(r)
    BY <1>2, <2>1 DEF Alive, Core, Firm, Same, SameLocal
  <2> QED
    BY <1>2, <2>2 DEF Fits, Early, Same, SameClosing
<1>5. w \in Nat /\ w > 0
  BY InitialWindowProps
<1> HIDE DEF w
<1>6. Does(x, s) /\ Calm(x, s) /\ Closing(x, s)
  BY <1>1, <1>2, <1>4, <1>5, SetWindow
<1>7. s.chan = r.chan
  BY <1>2, <1>6 DEF Closing, Same, SameClosing
<1> QED
  BY <1>2, <1>3, <1>6, <1>7, DoesTrans, CalmTrans DEF Does

\* The X client is told why, and that is the end.
LEMMA X11InitError ==
  ASSUME NEW r \in Chan, Alive(r) => r.chan = "live" /\ r.kind = "x11",
         NEW s, s = x11_send_init_error(r)
  PROVE  Does(r, s) /\ Calm(r, s) /\ Quiet(r, s)
<1> DEFINE k == 1
           x == ssh2channel_write(r, k)
<1>1. k \in Nat /\ s = ssh2channel_write_eof(x) /\ x = ssh2channel_write(r, k)
  BY DEF x11_send_init_error
<1> HIDE DEF k, x
<1>2. Alive(r) => ~r.halfopen
  BY DEF Alive, Core, Firm, Early
<1>3. Does(r, x) /\ Calm(r, x) /\ Quiet(r, x)
  BY <1>1, <1>2, Write
<1>4. x \in Chan /\ x.kind = r.kind
  BY <1>3 DEF Does
<1>5. CASE Alive(r)
  <2>1. Alive(x) => x.chan = "live" /\ x.kind # "pfd"
    BY <1>3, <1>4, <1>5 DEF Quiet, Alive
  <2>2. Does(x, s) /\ Quiet(x, s) /\ Calm(x, s)
    BY <1>1, <1>4, <1>5, <2>1, WriteEof
  <2> QED
    BY <1>3, <1>4, <2>2, DoesTrans, CalmTrans DEF Does
<1>6. CASE ~Alive(r)
  <2>1. s \in Chan /\ s.kind = r.kind /\ (r.crash # "none" => s.crash = r.crash)
    BY <1>1, <1>3, <1>4, WriteEofTyped DEF Does
  <2> QED
    BY <1>6, <2>1 DEF Does, Calm, Loyal, Quiet
<1> QED
  BY <1>5, <1>6

\* Closing touches no data and no requests, and does not pend an EOF.
LEMMA CheckCloseData ==
  ASSUME NEW r \in Chan, NEW s, s = ssh2_channel_check_close(r)
  PROVE  SameData(r, s) /\ s.pending_eof = r.pending_eof /\ s.chanreq = r.chanreq
<1> DEFINE r0 == Touch(r)
           r1 == IF chan_want_close(r0) /\ r0.chanreq = <<>> /\ ~Has(r0, "SENT_CLOSE")
                 THEN send_close(r0) ELSE r0
           d == ssh2_channel_destroy(r1)
<1>1. s = r0 \/ s = r1 \/ s = d
  BY DEF ssh2_channel_check_close
<1>2. r0 \in Chan /\ Same(r, r0)
  BY TouchProps
<1>3. r1 = r0 \/ r1 = send_close(r0)
  OBVIOUS
<1> HIDE DEF r1, r0
<1>4. /\ send_close(r0) \in Chan /\ SameData(r0, send_close(r0))
      /\ send_close(r0).pending_eof = r0.pending_eof
      /\ send_close(r0).chanreq = r0.chanreq
  BY <1>2, SendClose
<1>5. /\ r1 \in Chan /\ SameData(r, r1) /\ r1.pending_eof = r.pending_eof
      /\ r1.chanreq = r.chanreq
  BY <1>2, <1>3, <1>4 DEF SameData, Same, SameClosing
<1>6. SameData(r1, d) /\ d.pending_eof = r1.pending_eof /\ d.chanreq = r1.chanreq
  BY <1>5, DestroyProps
<1> HIDE DEF d
<1> QED
  BY <1>1, <1>2, <1>5, <1>6 DEF SameData, Same, SameClosing

\* The main session asks for something, or does not.
LEMMA AskProps ==
  ASSUME NEW r \in Chan, ~r.halfopen, r.kind = "session",
         NEW q \in RequestNames, NEW s, s = mainchan_ask(r, q)
  PROVE  s \in Chan /\ s.kind = r.kind /\ ~s.halfopen /\ Does(r, s) /\ Calm(r, s)
<1> DEFINE yes == TRUE
           z == 0
           x == ssh2_chanreq_init(r, yes, z)
           a == x.req \cup {q}
           y == WithAsked(x, a)
<1>1. yes \in BOOLEAN /\ z \in Nat /\ (s = r \/ s = y)
  BY DEF mainchan_ask, WithAsked
<1>a. x = ssh2_chanreq_init(r, yes, z)
  OBVIOUS
<1> HIDE DEF yes, z, x
<1>2. x \in Chan /\ x.kind = r.kind /\ x.halfopen = r.halfopen /\ Does(r, x) /\ Calm(r, x)
  BY <1>1, <1>a, ChanreqProps, ChanreqInit
<1>3. a \in SUBSET RequestNames
  BY <1>2 DEF Chan
<1> HIDE DEF a
<1>4. y \in Chan /\ Same(x, y) /\ y.crash = x.crash
  BY <1>2, <1>3, SetMore
<1> HIDE DEF y
<1>5. y.kind = r.kind /\ ~y.halfopen /\ Does(x, y) /\ Calm(x, y)
  BY <1>2, <1>4, Aside DEF Same, SameClosing, SameLocal
<1>6. Does(r, y) /\ Calm(r, y)
  BY <1>2, <1>4, <1>5, DoesTrans, CalmTrans
<1> QED
  BY <1>1, <1>4, <1>5, <1>6, DoesNothing

\* A forwarded socket sends what its SOCKS exchange left over; the main session
\* makes its requests.
LEMMA OpenConfirm ==
  ASSUME NEW r \in Chan, NEW k \in Nat, ~r.halfopen, ~Has(r, "SENT_EOF"),
         NEW s, s = chan_open_confirmation(r, k)
  PROVE  /\ Does(r, s) /\ Calm(r, s)
         /\ Alive(r) /\ s.crash = "none" /\ (r.kind = "session" \/ r.outbuffer = 0) =>
               Waits(s) \/ s.outbuffer = 0
<1>1. CASE r.chan = "live" /\ r.kind = "pfd"
  <2> DEFINE b == TRUE
             x == WithInput(r, b)
             w == ssh2channel_write(x, k)
  <2>1. b \in BOOLEAN /\ s = IF k = 0 THEN x ELSE w
    BY <1>1 DEF chan_open_confirmation, WithInput
  <2> HIDE DEF b
  <2>2. x \in Chan /\ Same(r, x) /\ x.crash = r.crash
    BY <2>1, SetLocal
  <2> HIDE DEF x
  <2>3. Does(r, x) /\ Calm(r, x)
    BY <2>2, Aside
  <2>4. x.kind = r.kind /\ ~x.halfopen /\ ~Has(x, "SENT_EOF") /\ x.outbuffer = r.outbuffer
    BY <2>2 DEF Same, SameClosing, SameData, SameLocal, Has
  <2>5. Does(x, w) /\ Calm(x, w) /\ (Alive(x) /\ w.crash = "none" => Waits(w))
    BY <2>2, <2>4, Write
  <2> HIDE DEF w
  <2>6. Does(r, w) /\ Calm(r, w)
    BY <2>2, <2>3, <2>5, DoesTrans, CalmTrans
  <2>7. Alive(r) => Alive(x)
    BY <2>2, Aside DEF Alive, Same, SameClosing
  <2> QED
    BY <1>1, <2>1, <2>3, <2>4, <2>5, <2>6, <2>7
<1>2. CASE r.chan = "live" /\ r.kind = "session"
  <2> DEFINE no == FALSE
             z == 0
             t == ssh2_chanreq_init(r, no, z)
             x == IF ssh_is_simple THEN t ELSE r
             y1 == mainchan_ask(x, "x11")
             y2 == mainchan_ask(y1, "agent")
             y3 == mainchan_ask(y2, "pty")
             y4 == mainchan_ask(y3, "env")
  <2>1. no \in BOOLEAN /\ z \in Nat /\ s = mainchan_ask(y4, "primary")
    BY <1>2 DEF chan_open_confirmation
  <2>a. t = ssh2_chanreq_init(r, no, z) /\ (x = t \/ x = r)
    OBVIOUS
  <2>b. /\ y1 = mainchan_ask(x, "x11") /\ y2 = mainchan_ask(y1, "agent")
        /\ y3 = mainchan_ask(y2, "pty") /\ y4 = mainchan_ask(y3, "env")
    OBVIOUS
  <2>c. {"x11", "agent", "pty", "env", "primary"} \subseteq RequestNames
    BY DEF RequestNames
  <2> HIDE DEF no, z, t, x, y1, y2, y3, y4
  <2>2. t \in Chan /\ t.kind = r.kind /\ t.halfopen = r.halfopen /\ Does(r, t) /\ Calm(r, t)
    BY <1>2, <2>1, <2>a, ChanreqProps, ChanreqInit
  <2>3. x \in Chan /\ x.kind = r.kind /\ ~x.halfopen /\ Does(r, x) /\ Calm(r, x)
    BY <2>2, <2>a, DoesNothing
  <2>4. y1 \in Chan /\ y1.kind = r.kind /\ ~y1.halfopen /\ Does(r, y1) /\ Calm(r, y1)
    <3>1. y1 \in Chan /\ y1.kind = x.kind /\ ~y1.halfopen /\ Does(x, y1) /\ Calm(x, y1)
      BY <1>2, <2>3, <2>b, <2>c, AskProps
    <3> QED
      BY <2>3, <3>1, DoesTrans, CalmTrans
  <2>5. y2 \in Chan /\ y2.kind = r.kind /\ ~y2.halfopen /\ Does(r, y2) /\ Calm(r, y2)
    <3>1. y2 \in Chan /\ y2.kind = y1.kind /\ ~y2.halfopen /\ Does(y1, y2) /\ Calm(y1, y2)
      BY <1>2, <2>4, <2>b, <2>c, AskProps
    <3> QED
      BY <2>4, <3>1, DoesTrans, CalmTrans
  <2>6. y3 \in Chan /\ y3.kind = r.kind /\ ~y3.halfopen /\ Does(r, y3) /\ Calm(r, y3)
    <3>1. y3 \in Chan /\ y3.kind = y2.kind /\ ~y3.halfopen /\ Does(y2, y3) /\ Calm(y2, y3)
      BY <1>2, <2>5, <2>b, <2>c, AskProps
    <3> QED
      BY <2>5, <3>1, DoesTrans, CalmTrans
  <2>7. y4 \in Chan /\ y4.kind = r.kind /\ ~y4.halfopen /\ Does(r, y4) /\ Calm(r, y4)
    <3>1. y4 \in Chan /\ y4.kind = y3.kind /\ ~y4.halfopen /\ Does(y3, y4) /\ Calm(y3, y4)
      BY <1>2, <2>6, <2>b, <2>c, AskProps
    <3> QED
      BY <2>6, <3>1, DoesTrans, CalmTrans
  <2>8. s \in Chan /\ s.kind = r.kind /\ Does(r, s) /\ Calm(r, s)
    <3>1. s \in Chan /\ s.kind = y4.kind /\ Does(y4, s) /\ Calm(y4, s)
      BY <1>2, <2>1, <2>7, <2>c, AskProps
    <3> QED
      BY <2>7, <3>1, DoesTrans, CalmTrans
  <2>9. Waits(s)
    BY <1>2, <2>8 DEF Waits
  <2> QED
    BY <2>8, <2>9
<1>3. CASE r.chan # "live" \/ (r.kind # "pfd" /\ r.kind # "session")
  <2>1. s = r
    BY <1>3 DEF chan_open_confirmation
  <2>2. r.outbuffer = 0 \/ r.kind = "session" => Waits(r) \/ r.outbuffer = 0
    BY DEF Waits
  <2> QED
    BY <2>1, <2>2, DoesNothing
<1> QED
  BY <1>1, <1>2, <1>3

\* Writing EOF is calm but for a forwarded socket.
LEMMA WriteEofCalm ==
  ASSUME NEW r \in Chan, Alive(r) => r.chan = "live", r.kind # "pfd",
         NEW s, s = ssh2channel_write_eof(r),
         NEW b \in BOOLEAN
  PROVE  /\ Does(r, s) /\ Calm(r, s) /\ Quiet(r, s)
         /\ Does(r, WithEofSent(s, b)) /\ Calm(r, WithEofSent(s, b))
         /\ Quiet(r, WithEofSent(s, b))
<1>1. Does(r, s) /\ Calm(r, s) /\ Quiet(r, s)
  BY WriteEof
<1> DEFINE t == WithEofSent(s, b)
<1>2. s \in Chan
  BY <1>1 DEF Does
<1>3. t \in Chan /\ Same(s, t) /\ t.crash = s.crash
  BY <1>2, SetLocal
<1> HIDE DEF t
<1>4. Does(s, t) /\ Calm(s, t) /\ Quiet(s, t)
  BY <1>2, <1>3, Aside
<1>5. Does(r, t) /\ Calm(r, t) /\ Quiet(r, t)
  BY <1>1, <1>2, <1>3, <1>4, DoesTrans, CalmTrans
<1> QED
  BY <1>1, <1>5 DEF t

\* Writing EOF makes and answers no request, whatever happens.
LEMMA WriteEofReq ==
  ASSUME NEW r \in Chan, NEW s, s = ssh2channel_write_eof(r)
  PROVE  s.chanreq = r.chanreq
<1> DEFINE b == TRUE
           y == WithPending(r, b)
           x == SendEof(y)
           t == ssh2_channel_check_close(x)
<1>1. b \in BOOLEAN /\ b = TRUE
  OBVIOUS
<1>2. s = r \/ s = ssh2_channel_try_eof(y)
  BY DEF ssh2channel_write_eof, WithPending
<1> HIDE DEF b
<1>3. y \in Chan /\ y.pending_eof = b /\ y.chanreq = r.chanreq
  BY <1>1, SetPending
<1> HIDE DEF y
<1>4. Check(y, y.pending_eof, "assert_eof") = y
  BY <1>1, <1>3 DEF Check
<1>5. ssh2_channel_try_eof(y) = y \/ ssh2_channel_try_eof(y) = t
  BY <1>4 DEF ssh2_channel_try_eof, SendEof, WithEof
<1>6. x \in Chan /\ x.chanreq = y.chanreq
  BY <1>3, SendEofProps
<1> HIDE DEF x
<1>7. t.chanreq = x.chanreq
  BY <1>6, CheckCloseData
<1> QED
  BY <1>2, <1>3, <1>5, <1>6, <1>7

\* The local end hears of the server's EOF.
LEMMA ChanSendEof ==
  ASSUME NEW r \in Chan, NEW s, s = chan_send_eof(r)
  PROVE  Does(r, s) /\ Calm(r, s) /\ Quiet(r, s)
<1>1. CASE r.chan = "live" /\ r.kind = "x11" /\ r.xauth \notin {"ok", "failed"}
  <2>1. s = ssh2channel_write_eof(r)
    BY <1>1 DEF chan_send_eof
  <2>2. r.kind # "pfd" /\ TRUE \in BOOLEAN
    BY <1>1
  <2> QED
    BY <1>1, <2>1, <2>2, WriteEofCalm
<1>2. CASE r.chan = "live" /\ r.kind = "session" /\ ~r.eof_sent /\ (seat_eof \/ r.got_pty)
  <2> DEFINE yes == TRUE
             no == FALSE
             x == ssh2channel_write_eof(r)
             y == WithEofSent(x, yes)
             z == WithInput(y, no)
  <2>1. s = z
    BY <1>2 DEF chan_send_eof, WithEofSent, WithInput
  <2>2. r.kind # "pfd" /\ yes \in BOOLEAN /\ no \in BOOLEAN
    BY <1>2
  <2> HIDE DEF yes, no, x
  <2>3. Does(r, y) /\ Calm(r, y) /\ Quiet(r, y)
    BY <1>2, <2>2, WriteEofCalm DEF x
  <2>4. y \in Chan
    BY <2>3 DEF Does
  <2> HIDE DEF y
  <2>5. z \in Chan /\ Same(y, z) /\ z.crash = y.crash
    BY <2>2, <2>4, SetLocal
  <2> HIDE DEF z
  <2>6. Does(y, z) /\ Calm(y, z) /\ Quiet(y, z)
    BY <2>4, <2>5, Aside
  <2> QED
    BY <2>1, <2>3, <2>4, <2>5, <2>6, DoesTrans, CalmTrans
<1>3. CASE /\ ~(r.chan = "live" /\ r.kind = "x11" /\ r.xauth \notin {"ok", "failed"})
           /\ ~(r.chan = "live" /\ r.kind = "session" /\ ~r.eof_sent /\ (seat_eof \/ r.got_pty))
  <2>1. s = r
    BY <1>3 DEF chan_send_eof
  <2> QED
    BY <2>1, DoesNothing
<1> QED
  BY <1>1, <1>2, <1>3

\* The shell has started.
LEMMA MainchanReady ==
  ASSUME NEW r \in Chan, Alive(r) => r.chan = "live", r.kind = "session",
         NEW s, s = mainchan_ready(r)
  PROVE  Does(r, s) /\ Calm(r, s) /\ Quiet(r, s)
<1> DEFINE yes == TRUE
           no == FALSE
           x == WithReady(r, yes)
           y == WithInput(x, yes)
           z == WithEofPending(y, no)
           w == ssh2channel_write_eof(z)
           v == WithEofSent(w, yes)
<1>1. yes \in BOOLEAN /\ no \in BOOLEAN
  OBVIOUS
<1>2. s = z \/ s = v
  BY DEF mainchan_ready, WithReady, WithInput, WithEofPending, WithEofSent
<1> HIDE DEF yes, no, w
<1>3. x \in Chan /\ Same(r, x) /\ x.crash = r.crash
  BY <1>1, SetLocal
<1> HIDE DEF x
<1>4. y \in Chan /\ Same(x, y) /\ y.crash = x.crash
  BY <1>1, <1>3, SetLocal
<1> HIDE DEF y
<1>5. z \in Chan /\ Same(y, z) /\ z.crash = y.crash
  BY <1>1, <1>4, SetLocal
<1> HIDE DEF z
<1>6. Same(r, z) /\ Same(z, r) /\ z.crash = r.crash
  BY <1>3, <1>4, <1>5 DEF Same, SameClosing, SameData, SameWindow, SameLocal
<1>7. Does(r, z) /\ Calm(r, z) /\ Quiet(r, z)
  BY <1>5, <1>6, Aside
<1>8. z.kind # "pfd" /\ (Alive(z) => z.chan = "live")
  <2>1. Alive(z) => Alive(r)
    BY <1>5, <1>6, Aside DEF Alive, Same, SameClosing
  <2> QED
    BY <1>6, <2>1 DEF Same, SameClosing, SameLocal
<1>9. Does(z, v) /\ Calm(z, v) /\ Quiet(z, v)
  BY <1>1, <1>5, <1>8, WriteEofCalm DEF w
<1> HIDE DEF v
<1>10. Does(r, v) /\ Calm(r, v) /\ Quiet(r, v)
  BY <1>5, <1>7, <1>9, DoesTrans, CalmTrans DEF Does
<1> QED
  BY <1>2, <1>7, <1>10

WithCrash(r, fault) == [r EXCEPT !.crash = fault]

\* How PuTTY stopped is all that changes.
LEMMA SetCrash ==
  ASSUME NEW r \in Chan, NEW fault \in Stops
  PROVE  /\ WithCrash(r, fault) \in Chan /\ Same(r, WithCrash(r, fault))
         /\ WithCrash(r, fault).crash = fault
BY DEF WithCrash, Chan, Same, SameClosing, SameData, SameWindow, SameLocal

\* The second command is asked for.
LEMMA FallbackProps ==
  ASSUME NEW r \in Chan, Alive(r) => ~r.halfopen, r.kind = "session",
         NEW s, s = mainchan_try_fallback_command(r)
  PROVE  Does(r, s) /\ Calm(r, s) /\ SameWindow(r, s)
<1> DEFINE yes == TRUE
           z == 0
           x == ssh2_chanreq_init(r, yes, z)
           a == x.req \cup {"fallback"}
           y == WithAsked(x, a)
<1>1. yes \in BOOLEAN /\ z \in Nat /\ s = y
  BY DEF mainchan_try_fallback_command, WithAsked
<1>a. x = ssh2_chanreq_init(r, yes, z)
  OBVIOUS
<1> HIDE DEF yes, z, x
<1>2. x \in Chan /\ x.kind = r.kind /\ Does(r, x) /\ Calm(r, x) /\ SameWindow(r, x)
  BY <1>1, <1>a, ChanreqProps, ChanreqInit
<1>3. a \in SUBSET RequestNames
  BY <1>2 DEF Chan, RequestNames
<1> HIDE DEF a
<1>b. y \in Chan /\ Same(x, y) /\ y.crash = x.crash
  BY <1>2, <1>3, SetMore
<1> HIDE DEF y
<1>4. s \in Chan /\ Same(x, s) /\ s.crash = x.crash
  BY <1>1, <1>b
<1>5. Does(x, s) /\ Calm(x, s) /\ SameWindow(r, s)
  BY <1>2, <1>4, Aside DEF Same, SameWindow
<1> QED
  BY <1>2, <1>4, <1>5, DoesTrans, CalmTrans

\* The ways in which the main session takes an answer.
LEMMA ResponseCases ==
  ASSUME NEW r \in Chan, NEW success \in BOOLEAN,
         NEW s, s = mainchan_request_response(r, success)
  PROVE  \E a \in SUBSET RequestNames :
            \/ s = r \/ s = WithAsked(r, a) \/ s = WithGotPty(r, a, success)
            \/ s = mainchan_ready(WithAsked(r, a))
            \/ s = mainchan_try_fallback_command(WithAsked(r, a))
            \/ s = WithCrash(WithAsked(r, a), "aborted")
<1> DEFINE q == Head(SelectSeq(Requests, LAMBDA x : x \in r.req))
           a == r.req \ {q}
           r1 == WithAsked(r, a)
<1>1. s = IF r.req = {} THEN r
          ELSE CASE q \in {"x11", "agent", "env"} -> r1
                 [] q = "pty" -> [r1 EXCEPT !.got_pty = success]
                 [] q \in {"primary", "fallback"} /\ success -> mainchan_ready(r1)
                 [] q = "primary" /\ ~success /\ remote_cmd2 ->
                        mainchan_try_fallback_command(r1)
                 [] OTHER -> [r1 EXCEPT !.crash = "aborted"]
  BY DEF mainchan_request_response, WithAsked
<1>2. a \in SUBSET RequestNames
  BY DEF Chan
<1>3. [r1 EXCEPT !.got_pty = success] = WithGotPty(r, a, success)
  BY DEF WithAsked, WithGotPty, Chan
<1>4. [r1 EXCEPT !.crash = "aborted"] = WithCrash(r1, "aborted")
  BY DEF WithCrash
<1> HIDE DEF q, a
<1>5. \/ s = r \/ s = r1 \/ s = [r1 EXCEPT !.got_pty = success]
      \/ s = mainchan_ready(r1) \/ s = mainchan_try_fallback_command(r1)
      \/ s = [r1 EXCEPT !.crash = "aborted"]
  BY <1>1
<1> QED
  BY <1>2, <1>3, <1>4, <1>5

\* The server has answered a request of the main session.
LEMMA RequestResponse ==
  ASSUME NEW r \in Chan, Alive(r) => r.chan = "live" /\ ~r.halfopen, r.kind = "session",
         r.crash = "none", NEW success \in BOOLEAN,
         NEW s, s = mainchan_request_response(r, success)
  PROVE  /\ Does(r, s) /\ Calm(r, s)
         /\ Alive(r) /\ s.crash = "none" => SameWindow(r, s)
<1>1. PICK a \in SUBSET RequestNames :
            \/ s = r \/ s = WithAsked(r, a) \/ s = WithGotPty(r, a, success)
            \/ s = mainchan_ready(WithAsked(r, a))
            \/ s = mainchan_try_fallback_command(WithAsked(r, a))
            \/ s = WithCrash(WithAsked(r, a), "aborted")
  BY ResponseCases
<1> DEFINE x == WithAsked(r, a)
<1>2. x \in Chan /\ Same(r, x) /\ x.crash = r.crash
  BY <1>1, SetMore
<1>a. x = WithAsked(r, a)
  OBVIOUS
<1> HIDE DEF x
<1>3. Does(r, x) /\ Calm(r, x) /\ SameWindow(r, x) /\ x.kind = "session" /\ x.crash = "none"
  BY <1>2, Aside DEF Same, SameLocal
<1>4. Alive(x) => Alive(r) /\ x.chan = "live" /\ ~x.halfopen
  <2>1. Same(x, r)
    BY <1>2 DEF Same, SameClosing, SameData, SameWindow, SameLocal
  <2>2. Alive(x) => Alive(r)
    BY <1>2, <2>1, Aside DEF Alive, Same, SameClosing
  <2> QED
    BY <1>2, <2>2 DEF Same, SameClosing
<1>5. CASE s = r
  BY <1>5, DoesNothing DEF SameWindow
<1>6. CASE s = x
  BY <1>3, <1>6
<1>7. CASE s = WithGotPty(r, a, success)
  <2>1. s \in Chan /\ Same(r, s) /\ s.crash = r.crash
    BY <1>7, <1>1, SetMore
  <2> QED
    BY <2>1, Aside DEF Same
<1>8. CASE s = mainchan_ready(x)
  <2>1. Does(x, s) /\ Calm(x, s) /\ Quiet(x, s)
    BY <1>2, <1>3, <1>4, <1>8, MainchanReady
  <2>2. s \in Chan
    BY <2>1 DEF Does
  <2>3. Alive(r) => Alive(x)
    BY <1>2, Aside DEF Alive, Same, SameClosing
  <2>4. Alive(r) /\ s.crash = "none" => SameWindow(r, s)
    BY <1>3, <2>1, <2>3 DEF Quiet, SameWindow
  <2> QED
    BY <1>2, <1>3, <2>1, <2>2, <2>4, DoesTrans, CalmTrans
<1>9. CASE s = mainchan_try_fallback_command(x)
  <2>1. Does(x, s) /\ Calm(x, s) /\ SameWindow(x, s)
    BY <1>2, <1>3, <1>4, <1>9, FallbackProps
  <2>2. s \in Chan
    BY <2>1 DEF Does
  <2>3. SameWindow(r, s)
    BY <1>3, <2>1 DEF SameWindow
  <2> QED
    BY <1>2, <1>3, <2>1, <2>2, <2>3, DoesTrans, CalmTrans
<1>10. CASE s = WithCrash(x, "aborted")
  <2> DEFINE fault == "aborted"
             t == WithCrash(x, fault)
  <2>1. fault \in Stops /\ s = t /\ fault # "none" /\ fault \in Allowed("session")
    BY <1>10 DEF Stops, Allowed
  <2> HIDE DEF fault
  <2>2. t \in Chan /\ Same(x, t) /\ t.crash = fault
    BY <1>2, <2>1, SetCrash
  <2> HIDE DEF t
  <2> QED
    BY <1>3, <2>1, <2>2 DEF Does, Calm, Loyal, Same, SameLocal
<1> QED
  BY <1>a, <1>1, <1>5, <1>6, <1>7, <1>8, <1>9, <1>10

\* A winadj has been answered: the window is no longer being reopened.
LEMMA WinadjResponse ==
  ASSUME NEW r \in Chan, NEW n \in Nat, NEW s, s = ssh2_handle_winadj_response(r, n)
  PROVE  /\ Does(r, s) /\ Calm(r, s) /\ s.chanreq = r.chanreq
         /\ s.throttle_state # "UNTHROTTLING"
<1> DEFINE w == r.remlocwin + n
           ts == IF r.throttle_state = "UNTHROTTLING" THEN "UNTHROTTLED"
                 ELSE r.throttle_state
           x == WithState(r, ts)
           t == WithRemloc(r, w, ts)
<1>1. w \in Int /\ ts \in States /\ ts # "UNTHROTTLING"
  <2>1. r.remlocwin \in Int /\ r.throttle_state \in States
    BY DEF Chan, States
  <2> QED
    BY <2>1 DEF States
<1>2. s = t
  BY DEF ssh2_handle_winadj_response, WithRemloc
<1> HIDE DEF w, ts, t
<1>3. /\ t \in Chan /\ t.throttle_state = ts
      /\ Base(r, t) /\ Closing(r, t) /\ SameData(r, t) /\ SameHeld(r, t)
      /\ t.locwindow = r.locwindow /\ t.chanreq = r.chanreq /\ t.out = r.out
  BY <1>1, SetRemloc DEF t
<1>4. Core(r) => Core(t)
  BY <1>1, <1>3 DEF Core, Firm, Flags, Idle, Early, Order, Throttle, Handlers, Has, Base, Closing,
     SameData, SameHeld
<1>5. Moves(r, t)
  <2>1. Len(r.chanreq) <= Len(r.chanreq)
    BY Numbers
  <2> QED
    BY <1>3, <2>1 DEF Moves, Base, Closing, SameData, Has
<1>6. Waits(r) => Waits(t)
  BY <1>3 DEF Waits, Base, Closing, SameData
<1>7. Does(r, t)
  BY <1>3, <1>4, <1>5, <1>6 DEF Does, Alive, Base
<1>8. Calm(r, t)
  BY <1>3 DEF Calm, Loyal, Closing, Base, Ended, Has
<1> QED
  BY <1>1, <1>2, <1>3, <1>7, <1>8

\* The handler of an answer, or of its absence.  A winadj's is enough to finish
\* reopening the window.
LEMMA CallHandler ==
  ASSUME NEW r \in Chan, NEW h \in Nat, NEW reply, r.crash = "none" \/ reply = "null",
         Alive(r) /\ h = 0 =>
            r.kind = "session" /\ r.chan = "live" /\ (reply = "null" \/ ~r.halfopen),
         r.kind = "session" \/ h > 0,
         NEW s, s = call_handler(r, h, reply)
  PROVE  /\ Does(r, s) /\ Calm(r, s)
         /\ Alive(r) /\ s.crash = "none" /\ s.throttle_state = "UNTHROTTLING" =>
               h = 0 /\ r.throttle_state = "UNTHROTTLING"
<1>1. CASE h > 0
  <2>0. ~(h = 0) /\ (h > 0) = TRUE
    BY <1>1
  <2>1. s = ssh2_handle_winadj_response(r, h)
    BY <1>1, <2>0, Zenon DEF call_handler
  <2> QED
    BY <2>1, WinadjResponse
<1>2. CASE h = 0 /\ reply = "null"
  <2> DEFINE ok == FALSE
             fault == "null_reply"
             t == Check(r, ok, fault)
  <2>1. ok \in BOOLEAN /\ fault \in Stops /\ fault # "none" /\ fault \in Allowed("session")
    BY DEF Stops, Faults, Allowed
  <2>2. s = t /\ ~ok
    BY <1>2 DEF call_handler
  <2> HIDE DEF ok, fault
  <2>3. t \in Chan /\ Same(r, t) /\ t.crash = IF ok \/ r.crash # "none" THEN r.crash ELSE fault
    BY <2>1, CheckProps
  <2> HIDE DEF t
  <2>4. r.kind = "session"
    BY <1>2
  <2>5. t.crash # "none" /\ (r.crash # "none" => t.crash = r.crash)
        /\ (r.crash = "none" => t.crash = fault)
    BY <2>1, <2>2, <2>3
  <2> QED
    BY <2>1, <2>2, <2>3, <2>4, <2>5 DEF Does, Calm, Loyal, Same, SameLocal, Alive
<1>3. CASE h = 0 /\ reply # "null"
  <2> DEFINE ok == reply = "ok"
  <2>1. ok \in BOOLEAN /\ s = mainchan_request_response(r, ok)
    BY <1>3 DEF call_handler
  <2> HIDE DEF ok
  <2>2. Does(r, s) /\ Calm(r, s) /\ (Alive(r) /\ s.crash = "none" => SameWindow(r, s))
    BY <1>3, <2>1, RequestResponse
  <2> QED
    BY <1>3, <2>2 DEF SameWindow
<1> QED
  BY <1>1, <1>2, <1>3

\* The handler leaves the list of handlers alone, or adds one at its end.
LEMMA HandlerKeeps ==
  ASSUME NEW r \in Chan, NEW h \in Nat, NEW reply, NEW s, s = call_handler(r, h, reply)
  PROVE  s.chanreq = r.chanreq \/ (h = 0 /\ s.chanreq = Append(r.chanreq, 0))
<1>1. CASE h > 0
  <2>0. (h > 0) = TRUE /\ ~(h = 0)
    BY <1>1
  <2>1. s = ssh2_handle_winadj_response(r, h)
    BY <1>1, <2>0, Zenon DEF call_handler
  <2> QED
    BY <2>1, WinadjResponse
<1>2. CASE h = 0 /\ reply = "null"
  <2> DEFINE no == FALSE
             fault == "null_reply"
  <2>1. s = Check(r, no, fault)
    BY <1>2 DEF call_handler
  <2>2. no \in BOOLEAN /\ fault \in Stops
    BY DEF Stops, Faults
  <2> HIDE DEF no, fault
  <2>3. Same(r, Check(r, no, fault))
    BY <2>2, CheckProps
  <2> QED
    BY <2>1, <2>3 DEF Same, SameClosing
<1>3. CASE h = 0 /\ reply # "null"
  <2> DEFINE ok == reply = "ok"
  <2>1. s = mainchan_request_response(r, ok) /\ ok \in BOOLEAN
    BY <1>3 DEF call_handler
  <2> HIDE DEF ok
  <2>2. PICK a \in SUBSET RequestNames :
            \/ s = r \/ s = WithAsked(r, a) \/ s = WithGotPty(r, a, ok)
            \/ s = mainchan_ready(WithAsked(r, a))
            \/ s = mainchan_try_fallback_command(WithAsked(r, a))
            \/ s = WithCrash(WithAsked(r, a), "aborted")
    BY <2>1, ResponseCases
  <2> DEFINE b == WithAsked(r, a)
  <2>3. b \in Chan /\ b.chanreq = r.chanreq
    BY <2>2, SetMore DEF Same, SameClosing
  <2>a. b = WithAsked(r, a)
    OBVIOUS
  <2> HIDE DEF b
  <2>4. CASE s = WithGotPty(r, a, ok)
    BY <2>1, <2>2, <2>4, SetMore DEF Same, SameClosing
  <2>5. CASE s = mainchan_ready(b)
    <3> DEFINE yes == TRUE
               no == FALSE
               x == WithReady(b, yes)
               y == WithInput(x, yes)
               z == WithEofPending(y, no)
               w == ssh2channel_write_eof(z)
               v == WithEofSent(w, yes)
    <3>1. yes \in BOOLEAN /\ no \in BOOLEAN
      OBVIOUS
    <3>3. s = z \/ s = v
      BY <2>5 DEF mainchan_ready, WithReady, WithInput, WithEofPending, WithEofSent
    <3> HIDE DEF yes, no, w
    <3>4. x \in Chan /\ Same(b, x)
      BY <2>3, <3>1, SetLocal
    <3> HIDE DEF x
    <3>5. y \in Chan /\ Same(x, y)
      BY <3>1, <3>4, SetLocal
    <3> HIDE DEF y
    <3>6. z \in Chan /\ Same(y, z)
      BY <3>1, <3>5, SetLocal
    <3> HIDE DEF z
    <3>7. w \in Chan /\ w.chanreq = z.chanreq
      BY <3>6, WriteEofTyped, WriteEofReq DEF w
    <3>8. Same(w, v)
      BY <3>1, <3>7, SetLocal
    <3> HIDE DEF v
    <3> QED
      BY <2>3, <3>3, <3>4, <3>5, <3>6, <3>7, <3>8 DEF Same, SameClosing
  <2>6. CASE s = mainchan_try_fallback_command(b)
    <3> DEFINE yes == TRUE
               z == 0
               x == ssh2_chanreq_init(b, yes, z)
               d == x.req \cup {"fallback"}
    <3>1. yes \in BOOLEAN /\ z \in Nat /\ s = WithAsked(x, d) /\ yes /\ z = 0
      BY <2>6 DEF mainchan_try_fallback_command, WithAsked
    <3>a. x = ssh2_chanreq_init(b, yes, z)
      OBVIOUS
    <3> HIDE DEF yes, z, x
    <3>b. x \in Chan /\ x.chanreq = Requested(b, yes, z)
      BY <2>3, <3>1, <3>a, ChanreqProps
    <3>2. x \in Chan /\ x.chanreq = Append(b.chanreq, 0)
      BY <3>1, <3>b DEF Requested
    <3>3. d \in SUBSET RequestNames
      BY <3>2 DEF Chan, RequestNames
    <3> HIDE DEF d
    <3>4. s.chanreq = x.chanreq
      BY <3>1, <3>2, <3>3, SetMore DEF Same, SameClosing
    <3> QED
      BY <1>3, <2>3, <3>2, <3>4
  <2>7. CASE s = WithCrash(b, "aborted")
    <3>1. "aborted" \in Stops
      BY DEF Stops
    <3> QED
      BY <2>3, <2>7, <3>1, SetCrash DEF Same, SameClosing
  <2> QED
    BY <2>a, <2>2, <2>3, <2>4, <2>5, <2>6, <2>7
<1> QED
  BY <1>1, <1>2, <1>3

\* What the local end does with data, and the backlog it reports.
LEMMA ChanSend ==
  ASSUME NEW r \in Chan, NEW n \in Nat, NEW x \in chan_send(r, n)
  PROVE  /\ x[1] \in Chan /\ Does(r, x[1]) /\ Calm(r, x[1]) /\ x[2] \in Nat
         /\ x[1].chan = "zombie" => x[2] = 0
         /\ r.kind # "x11" => x[1] = r /\ x[2] <= r.held + n
<1> DEFINE taken(q) == {<<q, b>> : b \in IF q.held = 0 THEN 0..n ELSE {q.held + n}}
<1>0. r.held \in Nat
  BY Numbers
<1>1. ASSUME NEW q \in Chan, x \in taken(q), q.chan = "live"
      PROVE  /\ x[1] = q /\ x[2] \in Nat /\ x[2] <= q.held + n /\ x[1].chan # "zombie"
  <2>1. q.held \in Nat
    BY Numbers
  <2> QED
    BY <1>1, <2>1
<1>2. CASE r.chan = "zombie"
  <2>1. x[1] = r /\ x[2] = 0
    BY <1>2 DEF chan_send
  <2> QED
    BY <2>1, <1>0, DoesNothing
<1>3. CASE r.chan = "live" /\ r.kind = "x11" /\ r.xauth \in {"wait", "refused"}
  <2> DEFINE no == "refused"
             yes == "ok"
             not == "failed"
             u == WithXauth(r, no)
             v == x11_send_init_error(u)
             w == ssh2channel_window_override_removed(r)
             z == WithXauth(w, yes)
             y == WithXauth(w, not)
             e == x11_send_init_error(y)
  <2>1. {no, yes, not} \subseteq {"none", "wait", "ok", "refused", "failed"}
    OBVIOUS
  <2>2. x = <<r, 0>> \/ x = <<v, 0>> \/ x = <<e, 0>> \/ x \in taken(z)
    <3>1. CASE r.xauth = "wait"
      BY <1>3, <3>1 DEF chan_send, WithXauth
    <3>2. CASE r.xauth = "refused"
      BY <1>3, <3>2 DEF chan_send, WithXauth
    <3> QED
      BY <1>3, <3>1, <3>2
  <2> HIDE DEF no, yes, not, taken
  <2>3. u \in Chan /\ Same(r, u) /\ u.crash = r.crash
    BY <2>1, SetMore
  <2> HIDE DEF u
  <2>4. Does(r, u) /\ Calm(r, u) /\ u.chan = "live" /\ u.kind = "x11"
    BY <1>3, <2>3, Aside DEF Same, SameClosing, SameLocal
  <2>5. Does(u, v) /\ Calm(u, v)
    BY <2>3, <2>4, X11InitError
  <2> HIDE DEF v
  <2>6. v \in Chan /\ Does(r, v) /\ Calm(r, v)
    BY <2>3, <2>4, <2>5, DoesTrans, CalmTrans DEF Does
  <2>7. w \in Chan /\ Does(r, w) /\ Calm(r, w) /\ w.chan = r.chan /\ w.kind = r.kind
    BY <1>3, WindowOverride DEF Does
  <2> HIDE DEF w
  <2>8. /\ z \in Chan /\ Same(w, z) /\ z.crash = w.crash
        /\ y \in Chan /\ Same(w, y) /\ y.crash = w.crash
    BY <2>1, <2>7, SetMore
  <2> HIDE DEF z, y
  <2>9. Does(r, z) /\ Calm(r, z) /\ z.chan = "live"
    <3>1. Does(w, z) /\ Calm(w, z)
      BY <2>7, <2>8, Aside
    <3> QED
      BY <1>3, <2>7, <2>8, <3>1, DoesTrans, CalmTrans DEF Same, SameClosing
  <2>a. Does(r, y) /\ Calm(r, y) /\ y.chan = "live" /\ y.kind = "x11"
    <3>1. Does(w, y) /\ Calm(w, y)
      BY <2>7, <2>8, Aside
    <3> QED
      BY <1>3, <2>7, <2>8, <3>1, DoesTrans, CalmTrans DEF Same, SameClosing, SameLocal
  <2>b. Does(y, e) /\ Calm(y, e)
    BY <2>8, <2>a, X11InitError
  <2> HIDE DEF e
  <2>c. e \in Chan /\ Does(r, e) /\ Calm(r, e)
    BY <2>8, <2>a, <2>b, DoesTrans, CalmTrans DEF Does
  <2>10. CASE x = <<r, 0>>
    BY <1>0, <1>3, <2>10, DoesNothing
  <2>11. CASE x = <<v, 0>>
    BY <1>0, <1>3, <2>6, <2>11
  <2>12. CASE x = <<e, 0>>
    BY <1>0, <1>3, <2>c, <2>12
  <2>13. CASE x \in taken(z)
    BY <1>1, <1>3, <2>8, <2>9, <2>13
  <2> QED
    BY <2>2, <2>10, <2>11, <2>12, <2>13
<1>6. CASE r.chan = "live" /\ r.kind = "x11" /\ r.xauth = "failed"
  <2> DEFINE ok == FALSE
             fault == "assert_x11"
             t == Check(r, ok, fault)
  <2>1. /\ ok \in BOOLEAN /\ fault \in Stops /\ fault # "none"
        /\ r.kind = "x11" => fault \in Allowed(r.kind)
    BY DEF Stops, Faults, Allowed
  <2>2. x = <<t, 0>> /\ ~ok
    BY <1>6 DEF chan_send
  <2> HIDE DEF ok, fault
  <2>3. t \in Chan /\ Same(r, t) /\ t.crash = IF ok \/ r.crash # "none" THEN r.crash ELSE fault
    BY <2>1, CheckProps
  <2> HIDE DEF t
  <2>4. t.crash # "none" /\ (r.crash # "none" => t.crash = r.crash)
        /\ (r.crash = "none" => t.crash = fault)
    BY <2>1, <2>2, <2>3
  <2>5. Does(r, t) /\ Calm(r, t)
    BY <1>6, <2>1, <2>3, <2>4 DEF Does, Calm, Loyal, Same, SameLocal, Alive
  <2> QED
    BY <1>6, <2>2, <2>3, <2>5
<1>4. CASE r.chan = "live" /\ ~(r.kind = "x11" /\ r.xauth \in {"wait", "refused", "failed"})
  <2>1. x \in taken(r)
    BY <1>4 DEF chan_send
  <2> HIDE DEF taken
  <2> QED
    BY <1>1, <1>4, <2>1, DoesNothing
<1>5. r.chan = "live" \/ r.chan = "zombie"
  BY DEF Chan
<1> QED
  BY <1>2, <1>3, <1>4, <1>5, <1>6

-----------------------------------------------------------------------------
(* Messages from the server.                                               *)

WithHeld(r, h, m) == [r EXCEPT !.held = h, !.locmaxwin = m]
WithThrottling(r, k) == [r EXCEPT !.throttling_conn = TRUE, !.conn_throttle_count = k]

\* The backlog and the limit of the window are all that changes.
LEMMA SetHeld ==
  ASSUME NEW r \in Chan, NEW h \in Nat, NEW m \in Nat
  PROVE  /\ WithHeld(r, h, m) \in Chan /\ Base(r, WithHeld(r, h, m))
         /\ Closing(r, WithHeld(r, h, m)) /\ SameData(r, WithHeld(r, h, m))
         /\ WithHeld(r, h, m).held = h /\ WithHeld(r, h, m).locmaxwin = m
         /\ WithHeld(r, h, m).locwindow = r.locwindow
         /\ WithHeld(r, h, m).throttle_state = r.throttle_state
         /\ WithHeld(r, h, m).throttling_conn = r.throttling_conn
         /\ WithHeld(r, h, m).conn_throttle_count = r.conn_throttle_count
         /\ WithHeld(r, h, m).chanreq = r.chanreq /\ WithHeld(r, h, m).out = r.out
BY DEF WithHeld, Chan, Base, Closing, SameData

\* The channel freezes the connection.
LEMMA SetThrottling ==
  ASSUME NEW r \in Chan, NEW k \in Int
  PROVE  /\ WithThrottling(r, k) \in Chan /\ Base(r, WithThrottling(r, k))
         /\ Closing(r, WithThrottling(r, k)) /\ SameData(r, WithThrottling(r, k))
         /\ WithThrottling(r, k).held = r.held /\ WithThrottling(r, k).locmaxwin = r.locmaxwin
         /\ WithThrottling(r, k).locwindow = r.locwindow
         /\ WithThrottling(r, k).throttle_state = r.throttle_state
         /\ WithThrottling(r, k).throttling_conn = TRUE
         /\ WithThrottling(r, k).conn_throttle_count = k
         /\ WithThrottling(r, k).chanreq = r.chanreq /\ WithThrottling(r, k).out = r.out
BY DEF WithThrottling, Chan, Base, Closing, SameData

\* Backlog within the window does not matter to anything else.
LEMMA HeldDoes ==
  ASSUME NEW r \in Chan, NEW h \in Nat, NEW m \in Nat, m >= r.locmaxwin,
         Alive(r) => /\ ~r.halfopen /\ (r.chan = "zombie" => h = 0)
                     /\ r.kind # "x11" /\ ~ssh_is_simple => h + r.locwindow <= m
  PROVE  Does(r, WithHeld(r, h, m)) /\ Calm(r, WithHeld(r, h, m))
<1> DEFINE s == WithHeld(r, h, m)
<1>1. /\ s \in Chan /\ Base(r, s) /\ Closing(r, s) /\ SameData(r, s)
      /\ s.held = h /\ s.locmaxwin = m /\ s.locwindow = r.locwindow
      /\ s.throttle_state = r.throttle_state /\ s.throttling_conn = r.throttling_conn
      /\ s.conn_throttle_count = r.conn_throttle_count
      /\ s.chanreq = r.chanreq /\ s.out = r.out
  BY SetHeld
<1>2. r.locmaxwin \in Nat
  BY Numbers
<1> HIDE DEF s
<1>3. ASSUME Alive(r) PROVE Core(s)
  <2>1. Core(r) /\ ~r.halfopen
    BY <1>3 DEF Alive
  <2>2. Throttle(s)
    <3>1. m > 0
      BY <1>2, <2>1 DEF Core, Firm, Throttle
    <3>2. s.conn_throttle_count = IF s.throttling_conn THEN 1 ELSE 0
      BY <1>1, <2>1 DEF Core, Firm, Throttle
    <3>3. s.st = "live" /\ s.kind # "x11" /\ ~ssh_is_simple =>
            s.held + s.locwindow <= s.locmaxwin /\ ~s.throttling_conn
      BY <1>1, <1>3, <2>1 DEF Core, Firm, Throttle, Base
    <3> QED
      BY <1>1, <1>3, <3>1, <3>2, <3>3 DEF Throttle, Closing
  <2>3. Flags(s) /\ Early(s) /\ Order(s) /\ Handlers(s) /\ Idle(s)
    BY <1>1, <2>1 DEF Core, Firm, Flags, Early, Order, Handlers, Idle, Has, Base, Closing, SameData
  <2> QED
    BY <2>2, <2>3 DEF Core, Firm
<1>4. Moves(r, s)
  <2>1. Len(r.chanreq) <= Len(r.chanreq)
    BY Numbers
  <2> QED
    BY <1>1, <2>1 DEF Moves, Base, Closing, SameData, Has
<1>5. Waits(r) => Waits(s)
  BY <1>1 DEF Waits, Base, Closing, SameData
<1>6. Does(r, s)
  BY <1>1, <1>3, <1>4, <1>5 DEF Does, Alive, Base
<1>7. Calm(r, s)
  BY <1>1 DEF Calm, Loyal, Closing, Base, Ended, Has
<1> QED
  BY <1>6, <1>7 DEF s

\* Only an X11 channel or the simple session may freeze the connection.
LEMMA ThrottlingDoes ==
  ASSUME NEW r \in Chan, ~r.throttling_conn, NEW k, k = r.conn_throttle_count + 1,
         Alive(r) => r.kind = "x11" \/ ssh_is_simple
  PROVE  Does(r, WithThrottling(r, k)) /\ Calm(r, WithThrottling(r, k))
<1> DEFINE s == WithThrottling(r, k)
<1>0. k \in Int /\ ssh_is_simple \in BOOLEAN
  BY Numbers, ChannelAssumption
<1>1. /\ s \in Chan /\ Base(r, s) /\ Closing(r, s) /\ SameData(r, s)
      /\ s.held = r.held /\ s.locmaxwin = r.locmaxwin /\ s.locwindow = r.locwindow
      /\ s.throttle_state = r.throttle_state /\ s.throttling_conn = TRUE
      /\ s.conn_throttle_count = k
      /\ s.chanreq = r.chanreq /\ s.out = r.out
  BY <1>0, SetThrottling
<1> HIDE DEF s
<1>3. ASSUME Alive(r) PROVE Core(s)
  <2>1. Core(r) /\ (r.kind = "x11" \/ ssh_is_simple)
    BY <1>3 DEF Alive
  <2>2. Throttle(s)
    <3>1. r.conn_throttle_count = 0
      BY <2>1 DEF Core, Firm, Throttle
    <3>2. s.conn_throttle_count = IF s.throttling_conn THEN 1 ELSE 0
      BY <1>1, <3>1
    <3>3. ~(s.kind # "x11" /\ ~ssh_is_simple)
      BY <1>1, <2>1 DEF Base
    <3> QED
      BY <1>1, <2>1, <3>2, <3>3 DEF Core, Firm, Throttle, Closing
  <2>3. Flags(s) /\ Early(s) /\ Order(s) /\ Handlers(s) /\ Idle(s)
    BY <1>1, <2>1 DEF Core, Firm, Flags, Early, Order, Handlers, Idle, Has, Base, Closing, SameData
  <2> QED
    BY <2>2, <2>3 DEF Core, Firm
<1>4. Moves(r, s)
  <2>1. Len(r.chanreq) <= Len(r.chanreq)
    BY Numbers
  <2> QED
    BY <1>1, <2>1 DEF Moves, Base, Closing, SameData, Has
<1>5. Waits(r) => Waits(s)
  BY <1>1 DEF Waits, Base, Closing, SameData
<1>6. Does(r, s)
  BY <1>1, <1>3, <1>4, <1>5 DEF Does, Alive, Base
<1>7. Calm(r, s)
  BY <1>1 DEF Calm, Loyal, Closing, Base, Ended, Has
<1> QED
  BY <1>6, <1>7 DEF s

\* After data: the window is reopened, or the connection frozen.
LEMMA AfterChanSend ==
  ASSUME NEW r \in Chan, NEW b \in Nat, r.crash = "none" => Alive(r),
         Alive(r) => /\ ~r.halfopen /\ (r.chan = "zombie" => b = 0)
                     /\ r.kind # "x11" /\ ~ssh_is_simple => b + r.locwindow <= r.locmaxwin,
         NEW s, s = after_chan_send(r, b)
  PROVE  Does(r, s) /\ Calm(r, s)
<1> DEFINE h == IF r.chan = "zombie" THEN 0 ELSE b
           m == IF /\ r.remlocwin <= 0 /\ r.throttle_state = "UNTHROTTLED"
                   /\ r.locmaxwin < LOCMAX_LIMIT
                THEN r.locmaxwin + OUR_V2_WINSIZE ELSE r.locmaxwin
           r1 == WithHeld(r, h, m)
           w == r1.locmaxwin - b
           q == ssh2_set_window(r1, w)
           r2 == IF b < r1.locmaxwin THEN q ELSE r1
           k == r2.conn_throttle_count + 1
           t == WithThrottling(r2, k)
<1>1. s = IF (b > r2.locmaxwin \/ (ssh_is_simple /\ b > 0)) /\ ~r2.throttling_conn THEN t ELSE r2
  BY DEF after_chan_send, WithHeld, WithThrottling
<1>2. h \in Nat /\ m \in Nat /\ m >= r.locmaxwin /\ (r.chan = "zombie" => h = 0)
      /\ h <= b
  <2>1. r.locmaxwin \in Nat /\ r.remlocwin \in Int /\ OUR_V2_WINSIZE \in Nat /\ LOCMAX_LIMIT \in Nat
    BY Numbers, ChannelAssumption
  <2> QED
    BY <2>1
<1>4. q = ssh2_set_window(r1, w) /\ k = r2.conn_throttle_count + 1
  OBVIOUS
<1> HIDE DEF h, m, r1, q, r2, k, t
<1>3. (r2 = q /\ b < r1.locmaxwin) \/ (r2 = r1 /\ ~(b < r1.locmaxwin))
  BY DEF r2
<1>5. /\ r1 \in Chan /\ Base(r, r1) /\ Closing(r, r1) /\ r1.held = h /\ r1.locmaxwin = m
      /\ r1.locwindow = r.locwindow
  BY <1>2, SetHeld DEF r1
<1>6. Alive(r) /\ r.kind # "x11" /\ ~ssh_is_simple => h + r.locwindow <= m
  <2>1. r.locwindow \in Nat /\ r.locmaxwin \in Nat
    BY Numbers
  <2> QED
    BY <1>2, <2>1
<1>7. Does(r, r1) /\ Calm(r, r1)
  BY <1>2, <1>6, HeldDoes DEF r1
<1>8. CASE Alive(r)
  <2>1. ~r.halfopen /\ (r.kind # "x11" /\ ~ssh_is_simple => b + r.locwindow <= r.locmaxwin)
    BY <1>8
  <2>2. r1.kind = r.kind /\ ~r1.halfopen /\ r1.crash = "none"
    BY <1>5, <1>8, <2>1 DEF Base, Alive
  <2>3. b < r1.locmaxwin => w \in Nat /\ w > 0 /\ Fits(r1, w)
    <3>1. r1.locmaxwin \in Nat
      BY <1>2, <1>5
    <3> QED
      BY <1>2, <1>5, <3>1 DEF Fits
  <2>4. r2 \in Chan /\ Does(r1, r2) /\ Calm(r1, r2) /\ r2.locmaxwin = m /\ r2.kind = r.kind
        /\ r2.crash = "none"
    <3>1. CASE r2 = q /\ b < r1.locmaxwin
      <4>1. Alive(r1)
        BY <1>7, <1>8, <2>2 DEF Does, Alive, Moves
      <4>a. w \in Nat /\ w > 0 /\ Fits(r1, w)
        BY <2>3, <3>1
      <4> HIDE DEF w
      <4>2. Does(r1, q) /\ Calm(r1, q) /\ SameHeld(r1, q) /\ q.crash = "none"
        BY <1>4, <1>5, <2>2, <4>1, <4>a, SetWindow
      <4> QED
        BY <1>5, <2>2, <3>1, <4>2 DEF Does, SameHeld
    <3>2. CASE r2 = r1
      BY <1>5, <2>2, <3>2, DoesNothing
    <3> QED
      BY <1>3, <3>1, <3>2
  <2>5. Does(r, r2) /\ Calm(r, r2)
    BY <1>5, <1>7, <2>4, DoesTrans, CalmTrans
  <2>6. CASE (b > r2.locmaxwin \/ (ssh_is_simple /\ b > 0)) /\ ~r2.throttling_conn
    <3>1. r2.kind = "x11" \/ ssh_is_simple
      <4>1. r.locwindow \in Nat /\ r.locmaxwin \in Nat
        BY Numbers
      <4>2. ASSUME r.kind # "x11", ~ssh_is_simple PROVE FALSE
        <5>1. b + r.locwindow <= r.locmaxwin /\ b > m
          BY <2>1, <2>4, <2>6, <4>2
        <5> QED
          BY <1>2, <4>1, <5>1
      <4> QED
        BY <2>4, <4>2, ChannelAssumption
    <3>2. Does(r2, t) /\ Calm(r2, t)
      BY <1>4, <2>4, <2>6, <3>1, ThrottlingDoes DEF t
    <3> QED
      BY <1>1, <2>4, <2>5, <2>6, <3>2, DoesTrans, CalmTrans
  <2>7. CASE ~((b > r2.locmaxwin \/ (ssh_is_simple /\ b > 0)) /\ ~r2.throttling_conn)
    BY <1>1, <2>5, <2>7
  <2> QED
    BY <2>6, <2>7
<1>9. CASE ~Alive(r)
  <2>0. r1.crash # "none" /\ ~Alive(r1) /\ r1.kind = r.kind /\ r1.crash = r.crash
    BY <1>5, <1>9 DEF Base, Alive
  <2>1. ASSUME b < r1.locmaxwin
        PROVE  q \in Chan /\ q.kind = r.kind /\ (r.crash # "none" => q.crash = r.crash)
    <3>1. w \in Nat /\ w > 0
      BY <1>2, <1>5, <2>1
    <3> HIDE DEF w
    <3>2. Does(r1, q)
      BY <1>4, <1>5, <2>0, <3>1, SetWindow
    <3> QED
      BY <2>0, <3>2 DEF Does
  <2>2. r2 \in Chan /\ r2.kind = r.kind /\ (r.crash # "none" => r2.crash = r.crash)
    BY <1>3, <1>5, <2>1 DEF Base
  <2>3. k \in Int
    BY <1>4, <2>2, Numbers
  <2>4. t \in Chan /\ Base(r2, t)
    BY <2>2, <2>3, SetThrottling DEF t
  <2>5. s \in Chan /\ s.kind = r.kind /\ (r.crash # "none" => s.crash = r.crash)
    BY <1>1, <2>2, <2>4 DEF Base
  <2> QED
    BY <1>9, <2>5 DEF Does, Calm, Loyal
<1> QED
  BY <1>8, <1>9

-----------------------------------------------------------------------------
(* The two sides together.                                                 *)

Peer == [st : {"none", "open", "refused"}, win : Nat, rwin : Nat, sent : Nat,
         granted : Nat, reqs : Nat, got : Nat, sentEof : BOOLEAN,
         sentClose : BOOLEAN, gotEof : BOOLEAN, gotClose : BOOLEAN]

\* The main session outlives its channel.
Attends(r) == r.kind = "session" /\ r.st = "live" => r.chan = "live"

\* What holds of the channel alone.
Sound(r) == r \in Chan /\ Core(r) /\ Waits(r) /\ Says(r) /\ Attends(r)

\* And of what it has pushed.
Credits(r, q) ==
  /\ InFlight(r.out, "DATA") <= q.rwin
  /\ q.gotClose => r.out = <<>>

\* What the server has sent ends with CLOSE, if it has sent it.
Streams(s, q) ==
  /\ CloseLast(s)
  /\ q.sentClose \/ No(s, "CLOSE")

\* The life of a channel.  First it is a blank, or the X11 client's request.
Unopened(r, s, q) ==
  /\ r = Blank(r.kind)
  /\ s = IF r.kind = "x11" THEN <<Msg("OPEN", PeerWindow)>> ELSE <<>>
  /\ q = Server

\* PuTTY has asked for it.
Asked(r, s, q) ==
  /\ r.st = "live" /\ r.halfopen
  /\ r.out = <<Msg("OPEN", r.locwindow)>> /\ r.outbuffer = r.written
  /\ s = <<>> /\ q = Server

\* PuTTY has accepted an X11 channel.
Announced(r, s, q) ==
  /\ r.st = "live" /\ ~r.halfopen
  /\ r.kind = "x11" /\ r.xauth = "wait" /\ r.chan = "live"
  /\ r.closes = {} /\ r.chanreq = <<>> /\ r.held = 0 /\ r.outbuffer = 0
  /\ r.written = 0 /\ r.remwindow = PeerWindow
  /\ r.out = <<Msg("OPEN_CONFIRMATION", r.locwindow)>>
  /\ s = <<>> /\ q = Server

\* The server has refused.
Refused(r, s, q) ==
  /\ r.halfopen /\ r.out = <<>>
  /\ \/ r.st = "live" /\ s = <<Msg("OPEN_FAILURE", 0)>>
     \/ r.st = "freed" /\ s = <<>>
  /\ q.st = "refused" /\ ~q.gotEof /\ ~q.gotClose

\* The server has accepted, and may go on at once.
Answered(r, s, q) ==
  /\ r.st = "live" /\ r.halfopen /\ r.out = <<>> /\ r.outbuffer = r.written
  /\ s # <<>> /\ Head(s) = Msg("OPEN_CONFIRMATION", PeerWindow)
  /\ Plain(Tail(s)) /\ Streams(s, q)
  /\ q.st = "open" /\ ~q.gotEof /\ ~q.gotClose /\ q.got = 0
  /\ q.win + InFlight(s, "DATA") = r.locwindow
  /\ PeerWindow + InFlight(s, "ADJUST") = q.rwin
  /\ No(s, "REPLY")

\* The replies that are due, or on their way.
Due(r, s, q) == Count(s, "REPLY") + (IF q.sentClose THEN 0 ELSE InFlight(r.out, "REQUEST"))

\* The channel is open: all accounts balance.
Talking(r, s, q) ==
  /\ r.st = "live" /\ ~r.halfopen
  /\ Plain(r.out) /\ Plain(s) /\ Streams(s, q)
  /\ q.st = "open"
  /\ q.win + InFlight(s, "DATA") + InFlight(r.out, "ADJUST") = r.locwindow
  /\ r.remwindow + InFlight(r.out, "DATA") + InFlight(s, "ADJUST") <= q.rwin
  /\ Has(r, "SENT_EOF") \/
        r.remwindow + InFlight(r.out, "DATA") + InFlight(s, "ADJUST") = q.rwin
  /\ q.got + InFlight(r.out, "DATA") + r.outbuffer = r.written
  /\ q.gotEof => Has(r, "SENT_EOF") /\ r.outbuffer = 0 /\ No(r.out, "DATA")
  /\ q.gotClose => Has(r, "SENT_CLOSE")
  /\ Due(r, s, q) <= Len(r.chanreq)

\* Both sides have closed it.
Over(r, s, q) ==
  /\ r.st = "freed" /\ ~r.halfopen /\ s = <<>>
  /\ Plain(r.out)
  /\ q.st = "open" /\ q.sentClose

Phase(r, s, q) ==
  \/ Unopened(r, s, q) \/ Asked(r, s, q) \/ Announced(r, s, q) \/ Refused(r, s, q)
  \/ Answered(r, s, q) \/ Talking(r, s, q) \/ Over(r, s, q)

\* The inductive invariant.
IndInv ==
  /\ Sound(c) /\ p \in Peer /\ Credits(c, p) /\ ClosesCleanly
  /\ s2c \in Seq(Message) /\ decoded \in 0..Len(s2c)
  /\ Running => Phase(c, s2c, p)

\* What a handler may make of the channel.
Fine(r, t, s, q) ==
  /\ t \in Chan /\ t.kind = r.kind
  /\ \/ t.crash \in Allowed(r.kind)
     \/ t.crash = "none" /\ Sound(t) /\ Credits(t, q) /\ Phase(t, s, q)

\* The numbers of the server.
LEMMA PeerNumbers ==
  ASSUME NEW q \in Peer
  PROVE  q.win \in Nat /\ q.rwin \in Nat /\ q.got \in Nat
BY DEF Peer

\* What is in a queue is counted in natural numbers.
LEMMA QueueNumbers ==
  ASSUME NEW s \in Seq(Message)
  PROVE  \A type : InFlight(s, type) \in Nat /\ Count(s, type) \in Nat
BY FlightProps, CountProps

\* A function that keeps the Core keeps the accounts of an open channel.
LEMMA TalkingOn ==
  ASSUME NEW r \in Chan, NEW t \in Chan, NEW s \in Seq(Message), NEW q \in Peer,
         Talking(r, s, q), q.gotClose => r.out = <<>>, Moves(r, t)
  PROVE  Talking(t, s, q) /\ Credits(t, q)
<1> DEFINE rd == InFlight(r.out, "DATA")
           td == InFlight(t.out, "DATA")
           ra == InFlight(r.out, "ADJUST")
           ta == InFlight(t.out, "ADJUST")
           rr == InFlight(r.out, "REQUEST")
           tr == InFlight(t.out, "REQUEST")
           rq == Len(r.chanreq)
           tq == Len(t.chanreq)
           sd == InFlight(s, "DATA")
           sa == InFlight(s, "ADJUST")
           sr == Count(s, "REPLY")
           rw == r.remwindow
           tw == t.remwindow
           ro == r.outbuffer
           to == t.outbuffer
           rv == r.written
           tv == t.written
           rl == r.locwindow
           tl == t.locwindow
           qw == q.win
           qr == q.rwin
           qg == q.got
           over == Has(r, "SENT_EOF")
           mute == q.sentClose
<1>1. /\ rd \in Nat /\ td \in Nat /\ ra \in Nat /\ ta \in Nat /\ rr \in Nat /\ tr \in Nat
      /\ rq \in Nat /\ tq \in Nat /\ sd \in Nat /\ sa \in Nat /\ sr \in Nat
  BY Numbers, QueueNumbers
<1>2. /\ rw \in Nat /\ tw \in Nat /\ ro \in Nat /\ to \in Nat /\ rv \in Nat /\ tv \in Nat
      /\ rl \in Nat /\ tl \in Nat /\ qw \in Nat /\ qr \in Nat /\ qg \in Nat
  BY Numbers, PeerNumbers
<1>3. tw + td = rw + rd /\ to + td + rv = ro + rd + tv /\ tl + ra = rl + ta
      /\ tq + rr = rq + tr /\ rq <= tq
  BY DEF Moves
<1>4. /\ qw + sd + ra = rl /\ rw + rd + sa <= qr /\ (over \/ rw + rd + sa = qr)
      /\ qg + rd + ro = rv /\ sr + (IF mute THEN 0 ELSE rr) <= rq
  BY DEF Talking, Due
<1> HIDE DEF rd, td, ra, ta, rr, tr, rq, tq, sd, sa, sr, rw, tw, ro, to, rv, tv, rl, tl,
             qw, qr, qg, over, mute
<1>5. qw + sd + ta = tl /\ tw + td + sa <= qr /\ (over \/ tw + td + sa = qr)
  <2>1. qw + sd + ta = tl
    BY <1>1, <1>2, <1>3, <1>4
  <2>2. tw + td + sa = rw + rd + sa
    BY <1>1, <1>2, <1>3
  <2> QED
    BY <1>4, <2>1, <2>2
<1>a. qg + td + to = tv
  BY <1>1, <1>2, <1>3, <1>4
<1>6. sr + (IF mute THEN 0 ELSE tr) <= tq
  <2>1. CASE mute
    BY <1>1, <1>3, <1>4, <2>1
  <2>2. CASE ~mute
    BY <1>1, <1>3, <1>4, <2>2
  <2> QED
    BY <2>1, <2>2
<1>7. td <= qr
  BY <1>1, <1>2, <1>5
<1>8. /\ t.st = "live" /\ ~t.halfopen
      /\ Plain(t.out) /\ Plain(s) /\ Streams(s, q) /\ q.st = "open"
      /\ Has(r, "SENT_EOF") => Has(t, "SENT_EOF")
      /\ q.gotEof => Has(t, "SENT_EOF") /\ t.outbuffer = 0 /\ No(t.out, "DATA")
      /\ q.gotClose => Has(t, "SENT_CLOSE")
      /\ q.gotClose => t.out = <<>>
  BY DEF Talking, Moves
<1>9. /\ q.win + InFlight(s, "DATA") + InFlight(t.out, "ADJUST") = t.locwindow
      /\ t.remwindow + InFlight(t.out, "DATA") + InFlight(s, "ADJUST") <= q.rwin
      /\ Has(t, "SENT_EOF") \/
            t.remwindow + InFlight(t.out, "DATA") + InFlight(s, "ADJUST") = q.rwin
      /\ q.got + InFlight(t.out, "DATA") + t.outbuffer = t.written
      /\ Due(t, s, q) <= Len(t.chanreq)
      /\ InFlight(t.out, "DATA") <= q.rwin
  BY <1>5, <1>6, <1>7, <1>8, <1>a DEF td, ta, tr, tq, sd, sa, sr, Due, tw, to, tv, tl,
     qw, qr, qg, over, mute
<1> QED
  BY <1>8, <1>9 DEF Talking, Credits

\* A calm function leaves a live end, and what a forwarded socket has said.
LEMMA CalmSays ==
  ASSUME NEW r \in Chan, NEW t, Alive(r), Does(r, t), t.crash = "none"
  PROVE  /\ Loyal(r, t) /\ Attends(r) => Attends(t)
         /\ Calm(r, t) /\ Says(r) => Says(t)
         /\ Says(r) /\ r.kind # "pfd" => Says(t)
<1>1. t.kind = r.kind /\ t.st = r.st
  BY DEF Does, Moves
<1>2. Loyal(r, t) /\ Attends(r) => Attends(t)
  BY <1>1 DEF Loyal, Attends
<1>3. Calm(r, t) /\ Says(r) => Says(t)
  BY <1>1 DEF Calm, Loyal, Says
<1>4. r.kind # "pfd" => Says(t)
  BY <1>1 DEF Says
<1> QED
  BY <1>2, <1>3, <1>4

\* A handler that keeps the Core goes on talking.
LEMMA TalkingFine ==
  ASSUME NEW r \in Chan, NEW t, NEW s \in Seq(Message), NEW q \in Peer,
         Alive(r), Talking(r, s, q), q.gotClose => r.out = <<>>, Does(r, t),
         t.crash = "none" => Waits(t) /\ Says(t) /\ Attends(t)
  PROVE  Fine(r, t, s, q)
<1>1. /\ t \in Chan /\ t.kind = r.kind
      /\ t.crash = "none" \/ t.crash \in Allowed(r.kind)
      /\ t.crash = "none" => Core(t) /\ Moves(r, t)
  BY DEF Does
<1>2. ASSUME t.crash = "none" PROVE Sound(t) /\ Credits(t, q) /\ Phase(t, s, q)
  <2>1. Talking(t, s, q) /\ Credits(t, q)
    BY <1>1, <1>2, TalkingOn
  <2> QED
    BY <1>1, <1>2, <2>1 DEF Sound, Phase
<1> QED
  BY <1>1, <1>2 DEF Fine

\* A step of the local end keeps the phase.
LEMMA LocalFine ==
  ASSUME NEW r \in Chan, NEW t, NEW s \in Seq(Message), NEW q \in Peer,
         Alive(r), Sound(r), Credits(r, q), Phase(r, s, q), ~Announced(r, s, q), Does(r, t),
         t.crash = "none" => Says(t) /\ Attends(t)
  PROVE  Fine(r, t, s, q)
<1>1. /\ t \in Chan /\ t.kind = r.kind
      /\ t.crash = "none" \/ t.crash \in Allowed(r.kind)
      /\ t.crash = "none" => Core(t) /\ Moves(r, t) /\ Waits(t)
  BY DEF Does, Sound
<1>2. CASE Talking(r, s, q)
  BY <1>1, <1>2, TalkingFine DEF Credits
<1>3. CASE ~Talking(r, s, q)
  <2> SUFFICES ASSUME t.crash = "none" PROVE Credits(t, q) /\ Phase(t, s, q)
    BY <1>1 DEF Fine, Sound
  <2>1. r.st = "live"
    BY DEF Alive
  <2>2. ~Unopened(r, s, q)
    BY <2>1 DEF Unopened, Blank
  <2>3. r.halfopen /\ (Asked(r, s, q) \/ Refused(r, s, q) \/ Answered(r, s, q))
    <3>1. Asked(r, s, q) \/ Refused(r, s, q) \/ Answered(r, s, q)
      BY <1>3, <2>1, <2>2 DEF Phase, Over
    <3> QED
      BY <3>1 DEF Asked, Refused, Answered
  <2>4. t.st = r.st /\ t.halfopen = r.halfopen /\ t.out = r.out
    BY <1>1, <2>3 DEF Moves
  <2>5. t.locwindow = r.locwindow
    <3> DEFINE a == InFlight(r.out, "ADJUST")
               x == t.locwindow
               y == r.locwindow
    <3>1. a \in Nat /\ x \in Nat /\ y \in Nat
      BY <1>1, Numbers
    <3>2. x + a = y + a
      BY <1>1, <2>4 DEF Moves
    <3> HIDE DEF a, x, y
    <3>3. x = y
      BY <3>1, <3>2
    <3> QED
      BY <3>3 DEF x, y
  <2>6. r.outbuffer = r.written => t.outbuffer = t.written
    <3> DEFINE a == InFlight(r.out, "DATA")
               x == t.outbuffer
               y == r.outbuffer
               v == t.written
               w == r.written
    <3>1. a \in Nat /\ x \in Nat /\ y \in Nat /\ v \in Nat /\ w \in Nat
      BY <1>1, Numbers
    <3>2. x + a + w = y + a + v
      BY <1>1, <2>4 DEF Moves
    <3> HIDE DEF a, x, y, v, w
    <3>3. y = w => x = v
      BY <3>1, <3>2
    <3> QED
      BY <3>3 DEF x, y, v, w
  <2>7. Credits(t, q)
    BY <2>4 DEF Credits
  <2>8. CASE Asked(r, s, q)
    <3>1. Asked(t, s, q)
      BY <2>4, <2>5, <2>6, <2>8 DEF Asked
    <3> QED
      BY <2>7, <3>1 DEF Phase
  <2>9. CASE Refused(r, s, q)
    <3>1. Refused(t, s, q)
      BY <2>4, <2>9 DEF Refused
    <3> QED
      BY <2>7, <3>1 DEF Phase
  <2>10. CASE Answered(r, s, q)
    <3>1. Answered(t, s, q)
      BY <2>4, <2>5, <2>6, <2>10 DEF Answered
    <3> QED
      BY <2>7, <3>1 DEF Phase
  <2> QED
    BY <2>3, <2>8, <2>9, <2>10
<1> QED
  BY <1>2, <1>3

\* A channel of the kind that stopped PuTTY is as it was.
LEMMA StopFine ==
  ASSUME IndInv, Running, NEW t, NEW s \in Seq(Message), NEW q \in Peer,
         Fine(c, t, s, q), c' = Stop(t), q = p
  PROVE  /\ Sound(c)' /\ Credits(c', q) /\ ClosesCleanly'
         /\ c'.crash = "none" => Phase(c', s, q)
         /\ c'.kind = c.kind
<1>1. CASE t.crash = "none"
  <2>1. c' = t
    BY <1>1 DEF Stop
  <2>2. t.crash = "none" /\ Sound(t) /\ Credits(t, q) /\ Phase(t, s, q) /\ t.kind = c.kind
    BY <1>1 DEF Fine, Allowed
  <2> QED
    BY <2>1, <2>2 DEF Sound, ClosesCleanly
<1>2. CASE t.crash # "none"
  <2> DEFINE fault == t.crash
             u == WithCrash(c, fault)
  <2>1. c' = u /\ fault \in Allowed(c.kind) /\ fault \in Stops
    BY <1>2 DEF Fine, Stop, WithCrash, Chan
  <2> HIDE DEF fault
  <2>2. c \in Chan /\ Core(c) /\ Waits(c) /\ Says(c) /\ Attends(c)
    BY DEF IndInv, Sound
  <2>3. u \in Chan /\ Same(c, u) /\ u.crash = fault
    BY <2>1, <2>2, SetCrash
  <2> HIDE DEF u
  <2>4. Core(u) /\ Waits(u) /\ Says(u)
    BY <2>2, <2>3, Aside
  <2>5. u.kind = c.kind /\ u.out = c.out /\ Attends(u)
    BY <2>2, <2>3 DEF Same, SameClosing, SameLocal, Attends
  <2>6. Credits(u, q)
    BY <2>5 DEF Credits, IndInv
  <2>7. u.crash \in {"none"} \cup Allowed(u.kind) /\ u.crash # "none"
    BY <2>1, <2>3, <2>5, <1>2 DEF fault
  <2>8. ClosesCleanly'
    BY <2>1, <2>7 DEF ClosesCleanly, Allowed
  <2> QED
    BY <2>1, <2>3, <2>4, <2>5, <2>6, <2>7, <2>8 DEF Sound
<1> QED
  BY <1>1, <1>2

\* A step of the local end that makes of the channel what is fine.
LEMMA LocalInv ==
  ASSUME IndInv, NEW t, Local(t), Fine(c, t, s2c, p)
  PROVE  IndInv'
<1>1. Running /\ c' = Stop(t) /\ s2c' = s2c /\ p' = p
      /\ decoded' = IF Frozen(c') THEN decoded ELSE 0
  BY DEF Local
<1>2. s2c \in Seq(Message) /\ p \in Peer /\ decoded \in 0..Len(s2c) /\ Len(s2c) \in Nat
  BY DEF IndInv
<1>3. /\ Sound(c)' /\ Credits(c', p) /\ ClosesCleanly'
      /\ c'.crash = "none" => Phase(c', s2c, p)
  BY <1>1, <1>2, StopFine
<1>4. decoded' \in 0..Len(s2c)
  BY <1>1, <1>2
<1> QED
  BY <1>1, <1>2, <1>3, <1>4 DEF IndInv, Running

\* The same of a message.
LEMMA RcvdInv ==
  ASSUME IndInv, NEW type, NEW new, ClientRcvd(type, new),
         \A t \in new : Fine(c, t, Tail(s2c), p)
  PROVE  IndInv'
<1>1. /\ Running /\ s2c # <<>> /\ s2c' = Tail(s2c) /\ p' = p
      /\ c' \in {Stop(r) : r \in new}
      /\ Frozen(c) => decoded > 0
      /\ IF Frozen(c') /\ ~Frozen(c) THEN decoded' \in 0..Len(s2c')
         ELSE decoded' = IF Frozen(c') THEN decoded - 1 ELSE 0
  BY DEF ClientRcvd
<1>2. PICK t \in new : c' = Stop(t)
  BY <1>1
<1>3. s2c \in Seq(Message) /\ p \in Peer /\ decoded \in 0..Len(s2c)
  BY DEF IndInv
<1>4. Tail(s2c) \in Seq(Message) /\ Len(s2c) \in Nat /\ Len(Tail(s2c)) = Len(s2c) - 1
      /\ Len(s2c) > 0
  BY <1>1, <1>3, TailQueue
<1>5. /\ Sound(c)' /\ Credits(c', p) /\ ClosesCleanly'
      /\ c'.crash = "none" => Phase(c', Tail(s2c), p)
  BY <1>1, <1>2, <1>3, <1>4, StopFine
<1>6. decoded' \in 0..Len(s2c')
  <2>1. CASE Frozen(c') /\ ~Frozen(c)
    BY <1>1, <2>1
  <2>2. CASE ~Frozen(c')
    <3>1. decoded' = 0
      BY <1>1, <2>2
    <3> QED
      BY <1>1, <1>4, <3>1
  <2>3. CASE Frozen(c') /\ Frozen(c)
    <3>1. decoded' = decoded - 1 /\ decoded > 0
      BY <1>1, <2>3
    <3> QED
      BY <1>1, <1>3, <1>4, <3>1
  <2> QED
    BY <2>1, <2>2, <2>3
<1> QED
  BY <1>1, <1>3, <1>4, <1>5, <1>6 DEF IndInv, Running

-----------------------------------------------------------------------------
(* Opening.                                                                *)

\* The blank channel.
LEMMA BlankProps ==
  ASSUME NEW kind \in Kinds, NEW r, r = Blank(kind)
  PROVE  /\ r \in Chan /\ r.kind = kind /\ r.st = "none" /\ ~r.halfopen /\ r.closes = {}
         /\ ~r.pending_eof /\ r.outbuffer = 0 /\ r.locwindow = InitialWindow
         /\ r.locmaxwin = InitialWindow /\ r.chanreq = <<>>
         /\ r.throttle_state = "UNTHROTTLED" /\ ~r.throttling_conn
         /\ r.conn_throttle_count = 0 /\ r.chan = "live" /\ r.held = 0
         /\ ~r.localeof /\ r.written = 0 /\ r.out = <<>> /\ r.crash = "none"
<1>1. InitialWindow \in Nat
  BY InitialWindowProps
<1>2. <<>> \in Seq(Nat) /\ <<>> \in Seq(Message) /\ 0 \in Nat /\ 0 \in Int
      /\ InitialWindow \in Int /\ {} \in SUBSET Closes
  BY <1>1
<1>3. r \in Chan
  BY <1>1, <1>2 DEF Blank, Chan, Stops
<1> QED
  BY <1>3 DEF Blank

WithOpen(r) == [r EXCEPT !.st = "live", !.halfopen = TRUE]

\* The channel has been asked for.
LEMMA SetOpen ==
  ASSUME NEW r \in Chan
  PROVE  /\ WithOpen(r) \in Chan /\ WithOpen(r).st = "live" /\ WithOpen(r).halfopen
         /\ WithOpen(r).kind = r.kind /\ WithOpen(r).crash = r.crash
         /\ WithOpen(r).localeof = r.localeof
         /\ Closing(r, WithOpen(r)) /\ SameData(r, WithOpen(r))
         /\ SameWindow(r, WithOpen(r)) /\ WithOpen(r).chanreq = r.chanreq
         /\ WithOpen(r).out = r.out
BY DEF WithOpen, Chan, Closing, SameData, SameWindow

\* A queue of one message.
LEMMA OneMessage ==
  ASSUME NEW m \in Message
  PROVE  /\ <<m>> \in Seq(Message) /\ Len(<<m>>) = 1 /\ <<m>> # <<>> /\ Head(<<m>>) = m
         /\ Tail(<<m>>) = <<>> /\ <<m>> = Append(<<>>, m)
         /\ CloseLast(<<m>>) /\ EofLate(<<m>>)
         /\ \A type : No(<<m>>, type) <=> m.type # type
         /\ \A type : InFlight(<<m>>, type) = IF m.type = type THEN m.n ELSE 0
<1> DEFINE e == <<>>
           q == <<m>>
<1>1. /\ q \in Seq(Message) /\ Len(q) = 1 /\ q # <<>> /\ Head(q) = m
      /\ Tail(q) = <<>> /\ q = Append(e, m) /\ q[1] = m
  OBVIOUS
<1>2. e \in Seq(Message) /\ \A type : No(e, type) /\ EofLate(e)
  BY EmptyQueue
<1>3. \A type : InFlight(e, type) = 0 /\ m.n \in Nat
  BY <1>2, FlightProps DEF Message
<1> HIDE DEF e
<1>4. CloseLast(q) /\ EofLate(q) /\ \A type : No(q, type) <=> m.type # type
  BY ZenonT(60), <1>1, <1>2, AppendQueue
<1> HIDE DEF q
<1>5. ASSUME NEW type PROVE InFlight(q, type) = IF m.type = type THEN m.n ELSE 0
  <2> DEFINE k == IF m.type = type THEN m.n ELSE 0
  <2>1. k \in Nat /\ InFlight(e, type) = 0
    BY <1>3
  <2>2. InFlight(Append(e, m), type) = InFlight(e, type) + k
    BY <1>2, FlightProps
  <2> HIDE DEF k
  <2>3. InFlight(q, type) = k
    BY <1>1, <2>1, <2>2
  <2> QED
    BY <2>3 DEF k
<1> QED
  BY <1>1, <1>4, <1>5 DEF e, q

\* PuTTY asks for a channel.
LEMMA OpenChannelInv ==
  ASSUME IndInv, OpenChannel
  PROVE  IndInv'
<1> DEFINE x == WithOpen(c)
           n == c.locwindow
           ty == "OPEN"
           t == Push(x, ty, n)
<1>1. c.st = "none" /\ c.kind # "x11" /\ Local(t)
  BY DEF OpenChannel, WithOpen
<1>2. Running /\ c \in Chan
  BY <1>1 DEF Local, IndInv, Sound
<1>3. c = Blank(c.kind) /\ s2c = <<>> /\ p = Server /\ c.kind \in Kinds
  <2>1. Phase(c, s2c, p)
    BY <1>2 DEF IndInv
  <2>2. Unopened(c, s2c, p)
    BY <1>1, <2>1 DEF Phase, Asked, Announced, Refused, Answered, Talking, Over
  <2> QED
    BY <1>1, <1>2, <2>2 DEF Unopened, Chan
<1>4. /\ ~c.halfopen /\ c.closes = {} /\ ~c.pending_eof /\ c.outbuffer = 0
      /\ c.locwindow = InitialWindow /\ c.locmaxwin = InitialWindow /\ c.chanreq = <<>>
      /\ c.throttle_state = "UNTHROTTLED" /\ ~c.throttling_conn
      /\ c.conn_throttle_count = 0 /\ c.chan = "live" /\ c.held = 0
      /\ ~c.localeof /\ c.written = 0 /\ c.out = <<>> /\ c.crash = "none"
  BY <1>3, BlankProps
<1>5. /\ x \in Chan /\ x.st = "live" /\ x.halfopen /\ x.kind = c.kind /\ x.crash = c.crash
      /\ x.localeof = c.localeof /\ Closing(c, x) /\ SameData(c, x) /\ SameWindow(c, x)
      /\ x.chanreq = c.chanreq /\ x.out = c.out
  BY <1>2, SetOpen
<1>6. n \in Nat /\ n = InitialWindow /\ n > 0 /\ ty \in ServerTypes
  BY <1>4, InitialWindowProps, Types
<1>7. ty = "OPEN"
  OBVIOUS
<1> HIDE DEF x, ty
<1>8. /\ t \in Chan /\ t.out = Queued(x, ty, n) /\ Base(x, t) /\ Closing(x, t)
      /\ SameData(x, t) /\ SameWindow(x, t) /\ t.chanreq = x.chanreq
  BY <1>5, <1>6, PushProps
<1>9. Msg(ty, n) \in Message /\ Msg(ty, n).type = ty /\ Msg(ty, n).n = n
  BY <1>6, MsgProps
<1>10. t.out = <<Msg(ty, n)>>
  <2> DEFINE m == Msg(ty, n)
  <2> HIDE DEF m
  <2>1. Append(<<>>, m) = <<m>>
    OBVIOUS
  <2> QED
    BY <1>4, <1>5, <1>8, <2>1 DEF Queued, m
<1> HIDE DEF t, n
<1>11. /\ CloseLast(t.out) /\ EofLate(t.out) /\ No(t.out, "CLOSE") /\ No(t.out, "EOF")
       /\ InFlight(t.out, "DATA") = 0
  <2> DEFINE m == Msg(ty, n)
  <2>1. m \in Message /\ m.type = "OPEN" /\ t.out = <<m>>
    BY <1>7, <1>9, <1>10
  <2> HIDE DEF m
  <2>2. /\ CloseLast(<<m>>) /\ EofLate(<<m>>)
        /\ \A type : No(<<m>>, type) <=> m.type # type
        /\ \A type : InFlight(<<m>>, type) = IF m.type = type THEN m.n ELSE 0
    BY <2>1, OneMessage
  <2> QED
    BY <2>1, <2>2
<1>12. /\ t.kind = c.kind /\ t.st = "live" /\ t.halfopen /\ t.crash = "none" /\ ~t.localeof
       /\ t.closes = {} /\ ~t.pending_eof /\ t.chan = "live" /\ t.outbuffer = 0
       /\ t.written = 0 /\ t.held = 0 /\ t.locwindow = n /\ t.locmaxwin = n
       /\ t.throttle_state = "UNTHROTTLED" /\ ~t.throttling_conn
       /\ t.conn_throttle_count = 0 /\ t.chanreq = <<>>
  BY <1>4, <1>5, <1>6, <1>8 DEF Base, Closing, SameData, SameWindow
<1>13. Core(t)
  <2>1. Len(<<>>) = 0 /\ 1..0 = {} /\ 0 + n = n
    BY <1>6
  <2>2. Flags(t) /\ Idle(t) /\ Order(t) /\ Early(t)
    BY <1>1, <1>11, <1>12 DEF Flags, Idle, Order, Early, Has
  <2>3. Throttle(t) /\ Handlers(t)
    BY <1>6, <1>12, <2>1 DEF Throttle, Handlers
  <2> QED
    BY <2>2, <2>3 DEF Core, Firm
<1>14. Waits(t) /\ Says(t) /\ Attends(t)
  BY <1>12 DEF Waits, Says, Attends, Ended, Has
<1>15. p.rwin \in Nat /\ ~p.gotClose
  BY <1>3 DEF IndInv, Server, Peer
<1>16. Credits(t, p)
  BY <1>11, <1>15 DEF Credits
<1>17. Asked(t, s2c, p)
  BY <1>3, <1>7, <1>10, <1>12 DEF Asked
<1>18. Fine(c, t, s2c, p)
  BY <1>8, <1>12, <1>13, <1>14, <1>16, <1>17 DEF Fine, Sound, Phase
<1> QED
  BY <1>1, <1>18, LocalInv

WithAccept(r, win, b, w) ==
  [r EXCEPT !.st = "live", !.remwindow = win, !.fixed = b, !.xauth = "wait",
            !.locwindow = w, !.locmaxwin = w, !.remlocwin = w]

\* An X11 channel has been accepted.
LEMMA SetAccept ==
  ASSUME NEW r \in Chan, NEW win \in Nat, NEW b \in BOOLEAN, NEW w \in Nat
  PROVE  /\ WithAccept(r, win, b, w) \in Chan /\ WithAccept(r, win, b, w).st = "live"
         /\ WithAccept(r, win, b, w).halfopen = r.halfopen
         /\ WithAccept(r, win, b, w).kind = r.kind /\ WithAccept(r, win, b, w).crash = r.crash
         /\ WithAccept(r, win, b, w).localeof = r.localeof /\ Closing(r, WithAccept(r, win, b, w))
         /\ WithAccept(r, win, b, w).remwindow = win /\ WithAccept(r, win, b, w).xauth = "wait"
         /\ WithAccept(r, win, b, w).outbuffer = r.outbuffer
         /\ WithAccept(r, win, b, w).written = r.written
         /\ WithAccept(r, win, b, w).locwindow = w
         /\ WithAccept(r, win, b, w).locmaxwin = w
         /\ WithAccept(r, win, b, w).held = r.held
         /\ WithAccept(r, win, b, w).throttle_state = r.throttle_state
         /\ WithAccept(r, win, b, w).throttling_conn = r.throttling_conn
         /\ WithAccept(r, win, b, w).conn_throttle_count = r.conn_throttle_count
         /\ WithAccept(r, win, b, w).chanreq = r.chanreq /\ WithAccept(r, win, b, w).out = r.out
<1>1. w \in Int
  OBVIOUS
<1> QED
  BY <1>1 DEF WithAccept, Chan, Closing

\* Pushing leaves the X11 client as it is.
LEMMA PushXauth ==
  ASSUME NEW r \in Chan, NEW type, NEW n
  PROVE  Push(r, type, n).xauth = r.xauth
BY DEF Push, Chan

\* The phase in which a message of the type may come first.
LEMMA HeadPhase ==
  ASSUME NEW r, NEW s \in Seq(Message), NEW q, s # <<>>, Phase(r, s, q)
  PROVE  /\ Head(s).type = "OPEN" =>
               Unopened(r, s, q) /\ r.kind = "x11" /\ s = <<Msg("OPEN", PeerWindow)>>
         /\ Head(s).type = "OPEN_CONFIRMATION" => Answered(r, s, q)
         /\ Head(s).type = "OPEN_FAILURE" =>
               Refused(r, s, q) /\ r.st = "live" /\ s = <<Msg("OPEN_FAILURE", 0)>>
         /\ Head(s).type \notin {"OPEN", "OPEN_CONFIRMATION", "OPEN_FAILURE"} =>
               Talking(r, s, q)
<1>1. ~Asked(r, s, q) /\ ~Announced(r, s, q) /\ ~Over(r, s, q)
  BY DEF Asked, Announced, Over
<1>2. CASE Unopened(r, s, q)
  <2>1. r.kind = "x11" /\ s = <<Msg("OPEN", PeerWindow)>>
    BY <1>2 DEF Unopened
  <2>2. Head(s) = Msg("OPEN", PeerWindow)
    BY <2>1
  <2>3. Head(s).type = "OPEN"
    BY <2>2 DEF Msg
  <2> QED
    BY <1>2, <2>1, <2>3
<1>3. CASE Refused(r, s, q)
  <2>1. r.st = "live" /\ s = <<Msg("OPEN_FAILURE", 0)>>
    BY <1>3 DEF Refused
  <2>2. Head(s) = Msg("OPEN_FAILURE", 0)
    BY <2>1
  <2>3. Head(s).type = "OPEN_FAILURE"
    BY <2>2 DEF Msg
  <2> QED
    BY <1>3, <2>1, <2>3
<1>4. CASE Answered(r, s, q)
  <2>1. Head(s).type = "OPEN_CONFIRMATION"
    BY <1>4 DEF Answered, Msg
  <2> QED
    BY <1>4, <2>1
<1>5. CASE Talking(r, s, q)
  <2>1. Plain(s)
    BY <1>5 DEF Talking
  <2>2. Head(s).type \notin {"OPEN", "OPEN_CONFIRMATION", "OPEN_FAILURE"}
    BY <2>1, TailQueue DEF Plain
  <2> QED
    BY <1>5, <2>2
<1> QED
  BY <1>1, <1>2, <1>3, <1>4, <1>5 DEF Phase

\* The window of an X11 channel is fixed or the usual one, as connections are
\* shared or not.
LEMMA AcceptFine ==
  ASSUME IndInv, Running, s2c # <<>>, Head(s2c).type = "OPEN",
         NEW k \in {0, FIXED_WINDOW}
  PROVE  Fine(c, rcvd_OPEN(c, Arg, k), Tail(s2c), p)
<1> DEFINE win == Arg
           n == IF k = 0 THEN InitialWindow ELSE k
           b == k # 0
           x == WithAccept(c, win, b, n)
           ty == "OPEN_CONFIRMATION"
           t == Push(x, ty, n)
<1>1. rcvd_OPEN(c, Arg, k) = t /\ b \in BOOLEAN /\ n \in Nat /\ n > 0
  BY ChannelAssumption, InitialWindowProps DEF rcvd_OPEN, WithAccept
<1> HIDE DEF n, b
<1>2. c \in Chan /\ s2c \in Seq(Message) /\ Phase(c, s2c, p)
  BY DEF IndInv, Sound, Running
<1>3. /\ Unopened(c, s2c, p) /\ c.kind = "x11" /\ s2c = <<Msg("OPEN", PeerWindow)>>
      /\ c.kind \in Kinds
  BY <1>2, HeadPhase DEF Chan
<1>4. c = Blank(c.kind) /\ p = Server
  BY <1>3 DEF Unopened
<1>5. /\ ~c.halfopen /\ c.closes = {} /\ ~c.pending_eof /\ c.outbuffer = 0
      /\ c.chanreq = <<>>
      /\ c.throttle_state = "UNTHROTTLED" /\ ~c.throttling_conn
      /\ c.conn_throttle_count = 0 /\ c.chan = "live" /\ c.held = 0
      /\ ~c.localeof /\ c.written = 0 /\ c.out = <<>> /\ c.crash = "none"
  BY <1>3, <1>4, BlankProps
<1>6. win = PeerWindow /\ Tail(s2c) = <<>> /\ win \in Nat
  <2> DEFINE m == Msg("OPEN", PeerWindow)
  <2>1. m.n = PeerWindow /\ s2c = <<m>>
    BY <1>3 DEF Msg
  <2> HIDE DEF m
  <2> QED
    BY <2>1, ChannelAssumption DEF Arg
<1> HIDE DEF win
<1>7. /\ x \in Chan /\ x.st = "live" /\ x.halfopen = c.halfopen /\ x.kind = c.kind
      /\ x.crash = c.crash /\ x.localeof = c.localeof /\ Closing(c, x)
      /\ x.remwindow = win /\ x.xauth = "wait" /\ x.outbuffer = c.outbuffer
      /\ x.written = c.written /\ x.locwindow = n /\ x.locmaxwin = n /\ x.held = c.held
      /\ x.throttle_state = c.throttle_state /\ x.throttling_conn = c.throttling_conn
      /\ x.conn_throttle_count = c.conn_throttle_count
      /\ x.chanreq = c.chanreq /\ x.out = c.out
  BY <1>1, <1>2, <1>6, SetAccept
<1>8. n \in Nat /\ n > 0 /\ ty \in ServerTypes
  BY <1>1, Types
<1>9. ty = "OPEN_CONFIRMATION"
  OBVIOUS
<1> HIDE DEF x, ty
<1>10. /\ t \in Chan /\ t.out = Queued(x, ty, n) /\ Base(x, t) /\ Closing(x, t)
       /\ SameData(x, t) /\ SameWindow(x, t) /\ t.chanreq = x.chanreq /\ t.xauth = x.xauth
  BY <1>7, <1>8, PushProps, PushXauth
<1>11. Msg(ty, n) \in Message /\ Msg(ty, n).type = ty /\ Msg(ty, n).n = n
  BY <1>8, MsgProps
<1>12. t.out = <<Msg(ty, n)>>
  <2> DEFINE m == Msg(ty, n)
  <2> HIDE DEF m
  <2>1. Append(<<>>, m) = <<m>>
    OBVIOUS
  <2> QED
    BY <1>5, <1>7, <1>10, <2>1 DEF Queued, m
<1> HIDE DEF t
<1>13. /\ CloseLast(t.out) /\ EofLate(t.out) /\ No(t.out, "CLOSE") /\ No(t.out, "EOF")
       /\ InFlight(t.out, "DATA") = 0
  <2> DEFINE m == Msg(ty, n)
  <2>1. m \in Message /\ m.type = "OPEN_CONFIRMATION" /\ t.out = <<m>>
    BY <1>9, <1>11, <1>12
  <2> HIDE DEF m
  <2>2. /\ CloseLast(<<m>>) /\ EofLate(<<m>>)
        /\ \A type : No(<<m>>, type) <=> m.type # type
        /\ \A type : InFlight(<<m>>, type) = IF m.type = type THEN m.n ELSE 0
    BY <2>1, OneMessage
  <2> QED
    BY <2>1, <2>2
<1>14. /\ t.kind = "x11" /\ t.st = "live" /\ ~t.halfopen /\ t.crash = "none" /\ ~t.localeof
       /\ t.closes = {} /\ ~t.pending_eof /\ t.chan = "live" /\ t.outbuffer = 0
       /\ t.written = 0 /\ t.held = 0 /\ t.locwindow = n /\ t.locmaxwin = n
       /\ t.throttle_state = "UNTHROTTLED" /\ ~t.throttling_conn
       /\ t.conn_throttle_count = 0 /\ t.chanreq = <<>> /\ t.remwindow = PeerWindow
       /\ t.xauth = "wait"
  BY <1>3, <1>5, <1>6, <1>7, <1>10 DEF Base, Closing, SameData, SameWindow
<1>15. Core(t)
  <2>1. Len(<<>>) = 0 /\ 1..0 = {}
    OBVIOUS
  <2>2. Flags(t) /\ Idle(t) /\ Order(t) /\ Early(t)
    BY <1>13, <1>14 DEF Flags, Idle, Order, Early, Has
  <2>3. Throttle(t) /\ Handlers(t)
    BY <1>8, <1>14, <2>1 DEF Throttle, Handlers
  <2> QED
    BY <2>2, <2>3 DEF Core, Firm
<1>16. Waits(t) /\ Says(t) /\ Attends(t)
  BY <1>14 DEF Waits, Says, Attends, Ended, Has
<1>17. p.rwin \in Nat /\ ~p.gotClose
  BY <1>4 DEF IndInv, Server, Peer
<1>18. Credits(t, p)
  BY <1>13, <1>17 DEF Credits
<1>19. Announced(t, Tail(s2c), p)
  BY <1>4, <1>6, <1>9, <1>12, <1>14 DEF Announced
<1>20. Fine(c, t, Tail(s2c), p)
  BY <1>3, <1>10, <1>14, <1>15, <1>16, <1>18, <1>19 DEF Fine, Sound, Phase
<1> QED
  BY <1>1, <1>20

\* The server opens an X11 channel.
LEMMA RcvdOpenInv ==
  ASSUME IndInv, RcvdOpen
  PROVE  IndInv'
<1> DEFINE new == {rcvd_OPEN(c, Arg, k) : k \in {0, FIXED_WINDOW}}
<1>a. ClientRcvd("OPEN", new) /\ Running /\ s2c # <<>> /\ Head(s2c).type = "OPEN"
  BY DEF RcvdOpen, ClientRcvd
<1>b. ASSUME NEW k \in {0, FIXED_WINDOW}
      PROVE  Fine(c, rcvd_OPEN(c, Arg, k), Tail(s2c), p)
  BY <1>a, <1>b, AcceptFine
<1> HIDE DEF new
<1> QED
  BY <1>a, <1>b, RcvdInv DEF new

WithConfirm(r, win) == [r EXCEPT !.halfopen = FALSE, !.remwindow = win]

\* The channel has been confirmed.
LEMMA SetConfirm ==
  ASSUME NEW r \in Chan, NEW win \in Nat
  PROVE  /\ WithConfirm(r, win) \in Chan /\ WithConfirm(r, win).kind = r.kind
         /\ WithConfirm(r, win).st = r.st /\ ~WithConfirm(r, win).halfopen
         /\ WithConfirm(r, win).localeof = r.localeof /\ WithConfirm(r, win).crash = r.crash
         /\ Closing(r, WithConfirm(r, win)) /\ WithConfirm(r, win).remwindow = win
         /\ WithConfirm(r, win).outbuffer = r.outbuffer
         /\ WithConfirm(r, win).written = r.written /\ SameWindow(r, WithConfirm(r, win))
         /\ WithConfirm(r, win).chanreq = r.chanreq /\ WithConfirm(r, win).out = r.out
BY DEF WithConfirm, Chan, Closing, SameWindow

\* What of a queue a message stands for that is none of the accounted ones.
LEMMA HeadOut ==
  ASSUME NEW s \in Seq(Message), s # <<>>, NEW q, Streams(s, q)
  PROVE  /\ Tail(s) \in Seq(Message) /\ Head(s) \in Message /\ Head(s).n \in Nat
         /\ Streams(Tail(s), q)
         /\ Head(s).type = "CLOSE" => q.sentClose /\ Tail(s) = <<>>
         /\ \A type : /\ Head(s).type # type =>
                            /\ InFlight(Tail(s), type) = InFlight(s, type)
                            /\ Count(Tail(s), type) = Count(s, type)
                      /\ Head(s).type = type =>
                            /\ InFlight(s, type) = Head(s).n + InFlight(Tail(s), type)
                            /\ Count(s, type) = 1 + Count(Tail(s), type)
<1>1. /\ Tail(s) \in Seq(Message) /\ Head(s) \in Message
      /\ \A type : No(s, type) <=> Head(s).type # type /\ No(Tail(s), type)
      /\ CloseLast(s) => CloseLast(Tail(s)) /\ (Head(s).type = "CLOSE" => Tail(s) = <<>>)
  BY TailQueue
<1>2. Streams(Tail(s), q) /\ (Head(s).type = "CLOSE" => q.sentClose /\ Tail(s) = <<>>)
  BY <1>1 DEF Streams
<1>3. Head(s).n \in Nat
  BY <1>1 DEF Message
<1>4. ASSUME NEW type
      PROVE /\ Head(s).type # type => /\ InFlight(Tail(s), type) = InFlight(s, type)
                                      /\ Count(Tail(s), type) = Count(s, type)
            /\ Head(s).type = type => /\ InFlight(s, type) = Head(s).n + InFlight(Tail(s), type)
                                      /\ Count(s, type) = 1 + Count(Tail(s), type)
  <2> DEFINE a == IF Head(s).type = type THEN Head(s).n ELSE 0
             b == IF Head(s).type = type THEN 1 ELSE 0
             x == InFlight(Tail(s), type)
             y == Count(Tail(s), type)
  <2>1. InFlight(s, type) = a + x /\ x \in Nat
    BY <1>1, FlightProps
  <2>2. Count(s, type) = b + y /\ y \in Nat
    BY <1>1, CountProps
  <2>3. CASE Head(s).type = type
    BY <2>1, <2>2, <2>3
  <2>4. CASE Head(s).type # type
    <3>1. a = 0 /\ b = 0
      BY <2>4
    <3> HIDE DEF a, b, x, y
    <3>2. a + x = x /\ b + y = y
      BY <2>1, <2>2, <3>1
    <3> QED
      BY <2>1, <2>2, <2>4, <3>2 DEF x, y
  <2> QED
    BY <2>3, <2>4
<1> QED
  BY <1>1, <1>2, <1>3, <1>4

\* The channel that has been answered, as soon as it is confirmed.
LEMMA Confirmed ==
  ASSUME NEW r, Sound(r), NEW s \in Seq(Message), NEW q \in Peer, Answered(r, s, q),
         r.crash = "none", NEW y, y = WithConfirm(r, PeerWindow)
  PROVE  /\ y \in Chan /\ Alive(y) /\ Says(y) /\ Attends(y) /\ Talking(y, Tail(s), q)
         /\ y.kind = r.kind /\ ~y.halfopen /\ y.out = <<>> /\ ~Has(y, "SENT_EOF")
         /\ y.kind = "session" \/ y.outbuffer = 0
<1>0. PeerWindow \in Nat
  BY ChannelAssumption
<1>1. r \in Chan /\ Core(r) /\ Says(r) /\ Attends(r)
  BY DEF Sound
<1>2. /\ y \in Chan /\ y.kind = r.kind /\ y.st = r.st /\ ~y.halfopen
      /\ y.localeof = r.localeof /\ y.crash = r.crash /\ Closing(r, y)
      /\ y.remwindow = PeerWindow /\ y.outbuffer = r.outbuffer /\ y.written = r.written
      /\ SameWindow(r, y) /\ y.chanreq = r.chanreq /\ y.out = r.out
  BY <1>0, <1>1, SetConfirm
<1>3. /\ r.st = "live" /\ r.halfopen /\ r.out = <<>> /\ r.outbuffer = r.written
      /\ s # <<>> /\ Head(s) = Msg("OPEN_CONFIRMATION", PeerWindow)
      /\ Plain(Tail(s)) /\ Streams(s, q)
      /\ q.st = "open" /\ ~q.gotEof /\ ~q.gotClose /\ q.got = 0
      /\ q.win + InFlight(s, "DATA") = r.locwindow
      /\ PeerWindow + InFlight(s, "ADJUST") = q.rwin
      /\ No(s, "REPLY")
  BY DEF Answered
<1>4. r.closes = {} /\ r.chanreq = <<>> /\ (r.kind # "session" => r.outbuffer = 0)
  BY <1>1, <1>3 DEF Core, Firm, Early
<1>5. Core(y)
  <2>1. Flags(y) /\ Idle(y) /\ Early(y) /\ Order(y)
    BY <1>1, <1>2, <1>3, <1>4 DEF Core, Firm, Flags, Idle, Early, Order, Has, Closing
  <2>2. Throttle(y) /\ Handlers(y)
    BY <1>1, <1>2 DEF Core, Firm, Throttle, Handlers, Closing, SameWindow
  <2> QED
    BY <2>1, <2>2 DEF Core, Firm
<1>6. Says(y) /\ Attends(y)
  BY <1>1, <1>2 DEF Says, Attends, Ended, Has, Closing
<1>7. Talking(y, Tail(s), q)
  <2>1. Head(s).type = "OPEN_CONFIRMATION"
    BY <1>3 DEF Msg
  <2>2. /\ Tail(s) \in Seq(Message) /\ Streams(Tail(s), q)
        /\ InFlight(Tail(s), "DATA") = InFlight(s, "DATA")
        /\ InFlight(Tail(s), "ADJUST") = InFlight(s, "ADJUST")
        /\ Count(Tail(s), "REPLY") = Count(s, "REPLY")
    BY <1>3, <2>1, HeadOut
  <2>3. Count(s, "REPLY") = 0
    BY <1>3, CountProps
  <2>4. /\ Plain(y.out) /\ InFlight(y.out, "DATA") = 0 /\ InFlight(y.out, "ADJUST") = 0
        /\ InFlight(y.out, "REQUEST") = 0
    <3> DEFINE e == <<>>
    <3>1. e \in Seq(Message) /\ Plain(e) /\ y.out = e
      BY <1>2, <1>3, EmptyQueue
    <3>2. \A type : InFlight(e, type) = 0
      BY <3>1, FlightProps
    <3> HIDE DEF e
    <3> QED
      BY <3>1, <3>2
  <2>5. Len(y.chanreq) = 0
    BY <1>2, <1>4
  <2> DEFINE d == InFlight(Tail(s), "DATA")
             a == InFlight(Tail(s), "ADJUST")
  <2>6. /\ d \in Nat /\ a \in Nat /\ q.win \in Nat /\ q.rwin \in Nat /\ y.outbuffer \in Nat
    BY <1>2, <2>2, QueueNumbers, PeerNumbers, Numbers
  <2>7. /\ q.win + d = y.locwindow /\ PeerWindow + a = q.rwin
    BY <1>2, <1>3, <2>2 DEF SameWindow
  <2>8. Due(y, Tail(s), q) <= Len(y.chanreq)
    BY <2>2, <2>3, <2>4, <2>5 DEF Due
  <2> HIDE DEF d, a
  <2>9. /\ q.win + d + 0 = y.locwindow /\ PeerWindow + 0 + a = q.rwin
        /\ PeerWindow + 0 + a <= q.rwin /\ 0 + 0 + y.outbuffer = y.outbuffer
    BY <1>0, <2>6, <2>7
  <2> QED
    BY <1>2, <1>3, <2>2, <2>4, <2>8, <2>9 DEF Talking, d, a
<1> QED
  BY <1>2, <1>3, <1>4, <1>5, <1>6, <1>7 DEF Alive, Has, Closing

\* The server confirms.
LEMMA RcvdOpenConfirmationInv ==
  ASSUME IndInv, RcvdOpenConfirmation
  PROVE  IndInv'
<1> DEFINE ks == 0..Least(1, MaxOut - c.written)
           new == {rcvd_OPEN_CONFIRMATION(c, Arg, k) : k \in ks}
           ty == "OPEN_CONFIRMATION"
<1>1. ClientRcvd(ty, Channel(TRUE, new)) /\ Running /\ s2c # <<>> /\ Head(s2c).type = ty
  BY DEF RcvdOpenConfirmation, ClientRcvd
<1>2. /\ Sound(c) /\ c \in Chan /\ s2c \in Seq(Message) /\ p \in Peer /\ Phase(c, s2c, p)
      /\ c.crash = "none"
  BY <1>1 DEF IndInv, Sound, Running
<1>3. Answered(c, s2c, p)
  BY <1>1, <1>2, HeadPhase
<1>4. Channel(TRUE, new) = new /\ Arg = PeerWindow
  BY <1>3 DEF Answered, Channel, Arg, Msg
<1>5. ks \subseteq Nat
  BY <1>2, Numbers, ChannelAssumption DEF Least
<1> HIDE DEF ks
<1>6. ASSUME NEW k \in ks PROVE Fine(c, rcvd_OPEN_CONFIRMATION(c, Arg, k), Tail(s2c), p)
  <2> DEFINE y == WithConfirm(c, PeerWindow)
             r0 == chan_open_confirmation(y, k)
             r1 == ssh2_channel_check_close(r0)
             e == ssh2_channel_try_eof(r1)
             t == rcvd_OPEN_CONFIRMATION(c, Arg, k)
  <2>1. t = IF r1.pending_eof THEN e ELSE r1
    BY <1>4 DEF rcvd_OPEN_CONFIRMATION, WithConfirm
  <2>2. k \in Nat /\ Tail(s2c) \in Seq(Message)
    BY <1>1, <1>2, <1>5, TailQueue
  <2>3. /\ y \in Chan /\ Alive(y) /\ Says(y) /\ Attends(y) /\ Talking(y, Tail(s2c), p)
        /\ y.kind = c.kind /\ ~y.halfopen /\ y.out = <<>> /\ ~Has(y, "SENT_EOF")
        /\ y.kind = "session" \/ y.outbuffer = 0
    BY <1>2, <1>3, Confirmed
  <2> HIDE DEF y
  <2>4. /\ Does(y, r0) /\ Calm(y, r0)
        /\ r0.crash = "none" => Waits(r0) \/ r0.outbuffer = 0
    BY <2>2, <2>3, OpenConfirm
  <2> HIDE DEF r0
  <2>5. r0 \in Chan /\ r0.kind = y.kind
    BY <2>4 DEF Does
  <2>6. Does(r0, r1) /\ Calm(r0, r1) /\ SameData(r0, r1) /\ r1.pending_eof = r0.pending_eof
    BY <2>5, CheckClose, CheckCloseData
  <2> HIDE DEF r1
  <2>7. r1 \in Chan /\ Does(y, r1) /\ Calm(y, r1)
    BY <2>3, <2>4, <2>5, <2>6, DoesTrans, CalmTrans DEF Does
  <2>8. r1.pending_eof =>
          /\ Does(r1, e) /\ Calm(r1, e)
          /\ Alive(r1) /\ (r1.halfopen \/ r1.outbuffer = 0) => Waits(e)
    BY <2>7, TryEof
  <2> HIDE DEF e, t
  <2>9. Does(y, t) /\ Calm(y, t)
    <3>1. CASE r1.pending_eof
      BY <2>1, <2>3, <2>7, <2>8, <3>1, DoesTrans, CalmTrans
    <3>2. CASE ~r1.pending_eof
      BY <2>1, <2>7, <3>2
    <3> QED
      BY <3>1, <3>2
  <2>10. ASSUME t.crash = "none" PROVE Waits(t) /\ Says(t) /\ Attends(t)
    <3>1. r1.crash = "none"
      BY <2>1, <2>8, <2>10 DEF Does
    <3>2. r0.crash = "none"
      BY <2>6, <3>1 DEF Does
    <3>3. Alive(r0) /\ Alive(r1)
      BY <2>3, <2>4, <2>7, <3>1, <3>2 DEF Alive, Does, Moves
    <3>4. Waits(r0) => Waits(r1)
      BY <2>6, <3>1, <3>3 DEF Does
    <3>5. Waits(t)
      <4>1. CASE Waits(r0) /\ r1.pending_eof
        BY <2>1, <2>8, <2>10, <3>3, <3>4, <4>1 DEF Does
      <4>2. CASE Waits(r0) /\ ~r1.pending_eof
        BY <2>1, <3>4, <4>2
      <4>3. CASE r0.outbuffer = 0 /\ r1.pending_eof
        BY <2>1, <2>6, <2>8, <3>3, <4>3 DEF SameData
      <4>4. CASE r0.outbuffer = 0 /\ ~r1.pending_eof
        BY <2>1, <2>6, <4>4 DEF SameData, Waits
      <4> QED
        BY <2>4, <3>2, <4>1, <4>2, <4>3, <4>4
    <3> QED
      BY <2>3, <2>9, <2>10, <3>5, CalmSays DEF Calm
  <2>11. Fine(y, t, Tail(s2c), p)
    BY <2>2, <2>3, <2>9, <2>10, <1>2, TalkingFine
  <2> QED
    BY <2>3, <2>11 DEF Fine, t
<1>7. \A t \in Channel(TRUE, new) : Fine(c, t, Tail(s2c), p)
  BY <1>4, <1>6
<1> HIDE DEF new
<1> QED
  BY <1>1, <1>7, RcvdInv

WithFailure(r, fault) ==
  [r EXCEPT !.st = "freed", !.chan = "zombie", !.held = 0, !.crash = fault]

\* The channel has been refused.
LEMMA SetFailure ==
  ASSUME NEW r \in Chan, NEW fault \in Stops
  PROVE  /\ WithFailure(r, fault) \in Chan /\ WithFailure(r, fault).kind = r.kind
         /\ WithFailure(r, fault).st = "freed"
         /\ WithFailure(r, fault).halfopen = r.halfopen
         /\ WithFailure(r, fault).closes = r.closes
         /\ WithFailure(r, fault).chan = "zombie" /\ WithFailure(r, fault).held = 0
         /\ WithFailure(r, fault).outbuffer = r.outbuffer
         /\ WithFailure(r, fault).locmaxwin = r.locmaxwin
         /\ WithFailure(r, fault).throttling_conn = r.throttling_conn
         /\ WithFailure(r, fault).conn_throttle_count = r.conn_throttle_count
         /\ WithFailure(r, fault).chanreq = r.chanreq
         /\ WithFailure(r, fault).out = r.out /\ WithFailure(r, fault).crash = fault
BY DEF WithFailure, Chan

\* The server refuses.
LEMMA RcvdOpenFailureInv ==
  ASSUME IndInv, RcvdOpenFailure
  PROVE  IndInv'
<1> DEFINE new == {rcvd_OPEN_FAILURE(c)}
           fault == IF c.kind = "session" THEN "aborted" ELSE c.crash
           t == WithFailure(c, fault)
           ty == "OPEN_FAILURE"
<1>1. ClientRcvd(ty, Channel(TRUE, new)) /\ Running /\ s2c # <<>> /\ Head(s2c).type = ty
  BY DEF RcvdOpenFailure, ClientRcvd
<1>2. /\ Sound(c) /\ c \in Chan /\ s2c \in Seq(Message) /\ p \in Peer /\ Phase(c, s2c, p)
      /\ c.crash = "none" /\ Core(c)
  BY <1>1 DEF IndInv, Sound, Running
<1>3. Refused(c, s2c, p) /\ c.st = "live" /\ s2c = <<Msg("OPEN_FAILURE", 0)>>
  BY <1>1, <1>2, HeadPhase
<1>4. Channel(TRUE, new) = new
  BY <1>3 DEF Refused, Channel
<1>5. rcvd_OPEN_FAILURE(c) = t
  BY DEF rcvd_OPEN_FAILURE, WithFailure
<1>6. fault \in Stops /\ (fault = "none" \/ fault \in Allowed(c.kind))
  BY <1>2 DEF Stops, Allowed
<1> HIDE DEF fault
<1>7. /\ t \in Chan /\ t.kind = c.kind /\ t.st = "freed" /\ t.halfopen = c.halfopen
      /\ t.closes = c.closes /\ t.chan = "zombie" /\ t.held = 0
      /\ t.outbuffer = c.outbuffer /\ t.locmaxwin = c.locmaxwin
      /\ t.throttling_conn = c.throttling_conn
      /\ t.conn_throttle_count = c.conn_throttle_count
      /\ t.chanreq = c.chanreq /\ t.out = c.out /\ t.crash = fault
  BY <1>2, <1>6, SetFailure
<1> HIDE DEF t
<1>8. c.halfopen /\ c.out = <<>> /\ p.st = "refused" /\ ~p.gotEof /\ ~p.gotClose
      /\ c.closes = {} /\ c.chanreq = <<>>
  BY <1>2, <1>3 DEF Refused, Core, Firm, Early
<1>9. Tail(s2c) = <<>>
  BY <1>3
<1>10. Core(t)
  <2>1. Len(<<>>) = 0 /\ 1..0 = {}
    OBVIOUS
  <2>2. Flags(t) /\ Idle(t) /\ Order(t) /\ Early(t)
    BY <1>2, <1>7, <1>8 DEF Core, Firm, Flags, Idle, Order, Early, Has
  <2>3. Throttle(t) /\ Handlers(t)
    BY <1>2, <1>7, <1>8, <2>1 DEF Core, Firm, Throttle, Handlers
  <2> QED
    BY <2>2, <2>3 DEF Core, Firm
<1>11. Sound(t)
  BY <1>7, <1>10 DEF Sound, Waits, Says, Attends
<1>12. Credits(t, p)
  BY <1>7, <1>8 DEF Credits, IndInv
<1>13. Refused(t, Tail(s2c), p)
  BY <1>7, <1>8, <1>9 DEF Refused
<1>14. Fine(c, t, Tail(s2c), p)
  BY <1>6, <1>7, <1>11, <1>12, <1>13 DEF Fine, Phase
<1>15. \A x \in Channel(TRUE, new) : Fine(c, x, Tail(s2c), p)
  BY <1>4, <1>5, <1>14
<1> HIDE DEF new
<1> QED
  BY <1>1, <1>15, RcvdInv

-----------------------------------------------------------------------------
(* Talking.                                                                *)

\* What is known when a message comes for an open channel.
LEMMA OpenMessage ==
  ASSUME IndInv, NEW type, NEW new, ClientRcvd(type, Channel(FALSE, new)),
         type \notin {"OPEN", "OPEN_CONFIRMATION", "OPEN_FAILURE"}
  PROVE  /\ Sound(c) /\ c \in Chan /\ Alive(c) /\ ~c.halfopen /\ Credits(c, p) /\ p \in Peer
         /\ s2c \in Seq(Message) /\ s2c # <<>> /\ Head(s2c).type = type
         /\ Tail(s2c) \in Seq(Message) /\ Arg = Head(s2c).n /\ Arg \in Nat
         /\ Talking(c, s2c, p)
         /\ Channel(FALSE, new) = new
         /\ (\A t \in new : Fine(c, t, Tail(s2c), p)) => IndInv'
<1>1. Running /\ s2c # <<>> /\ Head(s2c).type = type
  BY DEF ClientRcvd
<1>2. /\ Sound(c) /\ c \in Chan /\ s2c \in Seq(Message) /\ p \in Peer /\ Phase(c, s2c, p)
      /\ c.crash = "none" /\ Core(c) /\ Credits(c, p)
  BY <1>1 DEF IndInv, Sound, Running
<1>3. Talking(c, s2c, p)
  BY <1>1, <1>2, HeadPhase
<1>4. Channel(FALSE, new) = new /\ ~c.halfopen /\ c.st = "live"
  BY <1>3 DEF Talking, Channel
<1>5. Tail(s2c) \in Seq(Message) /\ Head(s2c) \in Message
  BY <1>1, <1>2, TailQueue
<1>6. Arg = Head(s2c).n /\ Arg \in Nat
  BY <1>5 DEF Arg, Message
<1>7. ASSUME \A t \in new : Fine(c, t, Tail(s2c), p) PROVE IndInv'
  BY <1>4, <1>7, RcvdInv
<1> QED
  BY <1>1, <1>2, <1>3, <1>4, <1>5, <1>6, <1>7 DEF Alive

WithLess(r, w, v) == [r EXCEPT !.locwindow = w, !.remlocwin = v]
WithMore(r, w) == [r EXCEPT !.remwindow = w]

\* The window that PuTTY gives is all that changes.
LEMMA SetLess ==
  ASSUME NEW r \in Chan, NEW w \in Nat, NEW v \in Int
  PROVE  /\ WithLess(r, w, v) \in Chan /\ Base(r, WithLess(r, w, v))
         /\ Closing(r, WithLess(r, w, v)) /\ SameData(r, WithLess(r, w, v))
         /\ SameHeld(r, WithLess(r, w, v)) /\ WithLess(r, w, v).locwindow = w
         /\ WithLess(r, w, v).throttle_state = r.throttle_state
         /\ WithLess(r, w, v).chanreq = r.chanreq /\ WithLess(r, w, v).out = r.out
BY DEF WithLess, Chan, Base, Closing, SameData, SameHeld

\* The window that PuTTY has is all that changes.
LEMMA SetMoreWindow ==
  ASSUME NEW r \in Chan, NEW w \in Nat
  PROVE  /\ WithMore(r, w) \in Chan /\ Base(r, WithMore(r, w)) /\ Closing(r, WithMore(r, w))
         /\ WithMore(r, w).remwindow = w /\ WithMore(r, w).outbuffer = r.outbuffer
         /\ WithMore(r, w).written = r.written /\ SameWindow(r, WithMore(r, w))
         /\ WithMore(r, w).chanreq = r.chanreq /\ WithMore(r, w).out = r.out
BY DEF WithMore, Chan, Base, Closing, SameWindow

\* The phase when the first message has been taken into account.
LEMMA TalkingNext ==
  ASSUME NEW r \in Chan, NEW y \in Chan, NEW s \in Seq(Message), s # <<>>, NEW q \in Peer,
         Talking(r, s, q),
         y.st = r.st, y.halfopen = r.halfopen, Has(r, "SENT_EOF") => Has(y, "SENT_EOF"),
         Has(r, "SENT_CLOSE") => Has(y, "SENT_CLOSE"),
         y.outbuffer = r.outbuffer, y.written = r.written, y.out = r.out,
         IF Head(s).type = "DATA" THEN y.locwindow + Head(s).n = r.locwindow
                                  ELSE y.locwindow = r.locwindow,
         IF Head(s).type = "ADJUST"
         THEN \/ y.remwindow = r.remwindow + Head(s).n
              \/ y.remwindow = r.remwindow /\ Has(y, "SENT_EOF")
         ELSE y.remwindow = r.remwindow,
         IF Head(s).type = "REPLY" THEN Len(y.chanreq) + 1 = Len(r.chanreq)
                                   ELSE y.chanreq = r.chanreq
  PROVE  Talking(y, Tail(s), q)
<1> DEFINE n == Head(s).n
           d == InFlight(s, "DATA")
           e == InFlight(Tail(s), "DATA")
           a == InFlight(s, "ADJUST")
           b == InFlight(Tail(s), "ADJUST")
           f == Count(s, "REPLY")
           g == Count(Tail(s), "REPLY")
           od == InFlight(r.out, "DATA")
           oa == InFlight(r.out, "ADJUST")
           or == IF q.sentClose THEN 0 ELSE InFlight(r.out, "REQUEST")
           rl == r.locwindow
           yl == y.locwindow
           rw == r.remwindow
           yw == y.remwindow
           rq == Len(r.chanreq)
           yq == Len(y.chanreq)
           qw == q.win
           qr == q.rwin
           over == Has(y, "SENT_EOF")
<1>1. /\ Plain(r.out) /\ Plain(s) /\ Streams(s, q) /\ q.st = "open"
      /\ q.gotEof => Has(r, "SENT_EOF") /\ r.outbuffer = 0 /\ No(r.out, "DATA")
      /\ q.gotClose => Has(r, "SENT_CLOSE")
      /\ q.got + od + r.outbuffer = r.written
      /\ r.st = "live" /\ ~r.halfopen
  BY DEF Talking
<1>2. /\ Tail(s) \in Seq(Message) /\ n \in Nat /\ Streams(Tail(s), q)
      /\ (IF Head(s).type = "DATA" THEN d = n + e ELSE d = e)
      /\ (IF Head(s).type = "ADJUST" THEN a = n + b ELSE a = b)
      /\ (IF Head(s).type = "REPLY" THEN f = 1 + g ELSE f = g)
  BY <1>1, HeadOut
<1>3. Plain(Tail(s))
  BY <1>1, TailQueue DEF Plain
<1>4. /\ d \in Nat /\ e \in Nat /\ a \in Nat /\ b \in Nat /\ f \in Nat /\ g \in Nat
      /\ od \in Nat /\ oa \in Nat /\ or \in Nat /\ rq \in Nat /\ yq \in Nat
  BY <1>2, QueueNumbers, Numbers
<1>5. /\ rl \in Nat /\ yl \in Nat /\ rw \in Nat /\ yw \in Nat /\ qw \in Nat /\ qr \in Nat
  BY Numbers, PeerNumbers
<1>6. /\ qw + d + oa = rl /\ rw + od + a <= qr
      /\ Has(r, "SENT_EOF") \/ rw + od + a = qr
      /\ f + or <= rq
  BY DEF Talking, Due
<1>7. /\ IF Head(s).type = "DATA" THEN yl + n = rl ELSE yl = rl
      /\ IF Head(s).type = "ADJUST" THEN yw = rw + n \/ (yw = rw /\ over) ELSE yw = rw
      /\ IF Head(s).type = "REPLY" THEN yq + 1 = rq ELSE yq = rq
      /\ Has(r, "SENT_EOF") => over
  OBVIOUS
<1> HIDE DEF n, d, e, a, b, f, g, od, oa, or, rl, yl, rw, yw, rq, yq, qw, qr, over
<1>8. qw + e + oa = yl
  <2>1. CASE Head(s).type = "DATA"
    <3>1. d = n + e /\ yl + n = rl
      BY <1>2, <1>7, <2>1
    <3> QED
      BY <3>1, <1>2, <1>4, <1>5, <1>6
  <2>2. CASE Head(s).type # "DATA"
    BY <1>2, <1>6, <1>7, <2>2
  <2> QED
    BY <2>1, <2>2
<1>9. yw + od + b <= qr /\ (over \/ yw + od + b = qr)
  <2>1. CASE Head(s).type = "ADJUST"
    <3>1. a = n + b /\ (yw = rw + n \/ (yw = rw /\ over))
      BY <1>2, <1>7, <2>1
    <3>2. CASE yw = rw + n
      <4>1. yw + od + b = rw + od + a
        BY <3>1, <3>2, <1>2, <1>4, <1>5
      <4> QED
        BY <4>1, <1>6, <1>7
    <3>3. CASE yw = rw /\ over
      <4>1. yw + od + b <= rw + od + a
        BY <3>1, <3>3, <1>2, <1>4, <1>5
      <4>2. yw + od + b <= qr
        BY <4>1, <1>4, <1>5, <1>6
      <4> QED
        BY <4>2, <3>3
    <3> QED
      BY <3>1, <3>2, <3>3
  <2>2. CASE Head(s).type # "ADJUST"
    <3>1. a = b /\ yw = rw
      BY <1>2, <1>7, <2>2
    <3> QED
      BY <3>1, <1>6, <1>7
  <2> QED
    BY <2>1, <2>2
<1>10. g + or <= yq
  <2>1. CASE Head(s).type = "REPLY"
    <3>1. f = 1 + g /\ yq + 1 = rq
      BY <1>2, <1>7, <2>1
    <3> QED
      BY <3>1, <1>4, <1>6
  <2>2. CASE Head(s).type # "REPLY"
    BY <1>2, <1>6, <1>7, <2>2
  <2> QED
    BY <2>1, <2>2
<1>11. Due(y, Tail(s), q) <= Len(y.chanreq)
  BY <1>10 DEF Due, g, or, yq
<1> QED
  BY <1>1, <1>2, <1>3, <1>8, <1>9, <1>11 DEF Talking, e, b, od, oa, yl, yw, qw, qr, over

\* Data come within the window.
LEMMA DataFits ==
  ASSUME NEW r \in Chan, NEW s \in Seq(Message), s # <<>>, NEW q \in Peer, Talking(r, s, q),
         Head(s).type = "DATA", NEW n, n = Head(s).n
  PROVE  n \in Nat /\ n <= r.locwindow
<1> DEFINE d == InFlight(s, "DATA")
           e == InFlight(Tail(s), "DATA")
           a == InFlight(r.out, "ADJUST")
           w == q.win
           l == r.locwindow
<1>1. d = n + e /\ n \in Nat /\ Tail(s) \in Seq(Message)
  BY HeadOut DEF Talking
<1>2. e \in Nat /\ a \in Nat /\ w \in Nat /\ l \in Nat
  BY <1>1, QueueNumbers, Numbers, PeerNumbers
<1>3. w + d + a = l
  BY DEF Talking
<1> HIDE DEF d, e, a, w, l
<1>4. n <= l
  BY SMTT(30), <1>1, <1>2, <1>3
<1> QED
  BY <1>1, <1>4 DEF l

\* Data arrive.
LEMMA RcvdDataInv ==
  ASSUME IndInv, RcvdData
  PROVE  IndInv'
<1> DEFINE n == Arg
           new == rcvd_DATA(c, n)
           ty == "DATA"
           w == c.locwindow - n
           v == c.remlocwin - n
           y == WithLess(c, w, v)
           S == Tail(s2c)
<1>1. ClientRcvd(ty, Channel(FALSE, new)) /\ ty \notin {"OPEN", "OPEN_CONFIRMATION", "OPEN_FAILURE"}
  BY DEF RcvdData
<1>2. ty = "DATA"
  OBVIOUS
<1>3. new = {after_chan_send(Touch(x[1]), x[2]) : x \in chan_send(y, n)}
  BY DEF rcvd_DATA, WithLess
<1> HIDE DEF ty, new, n
<1>4. /\ Sound(c) /\ c \in Chan /\ Alive(c) /\ ~c.halfopen /\ Credits(c, p) /\ p \in Peer
      /\ s2c \in Seq(Message) /\ s2c # <<>> /\ Head(s2c).type = ty
      /\ S \in Seq(Message) /\ n = Head(s2c).n /\ n \in Nat
      /\ Talking(c, s2c, p)
      /\ (\A t \in new : Fine(c, t, S, p)) => IndInv'
  BY <1>1, OpenMessage DEF n
<1>5. n <= c.locwindow
  BY <1>2, <1>4, DataFits
<1>6. c.locwindow \in Nat /\ c.remlocwin \in Int /\ w \in Nat /\ v \in Int /\ w + n = c.locwindow
  BY <1>4, <1>5, Numbers
<1> HIDE DEF w, v
<1>7. /\ y \in Chan /\ Base(c, y) /\ Closing(c, y) /\ SameData(c, y) /\ SameHeld(c, y)
      /\ y.locwindow = w /\ y.throttle_state = c.throttle_state
      /\ y.chanreq = c.chanreq /\ y.out = c.out
  BY <1>4, <1>6, SetLess
<1> HIDE DEF y, S
<1>8. Core(c) /\ Waits(c) /\ Says(c) /\ Attends(c) /\ c.crash = "none" /\ c.st = "live"
  BY <1>4 DEF Alive, Sound
<1>9. Alive(y)
  <2>1. Flags(y) /\ Idle(y) /\ Early(y) /\ Order(y) /\ Handlers(y)
    BY <1>7, <1>8 DEF Core, Firm, Flags, Idle, Early, Order, Handlers, Has, Base, Closing,
       SameData, SameHeld
  <2>2. Throttle(y)
    <3>1. c.held + c.locwindow <= c.locmaxwin => y.held + y.locwindow <= y.locmaxwin
      <4> DEFINE h == c.held
                 l == c.locwindow
                 m == c.locmaxwin
      <4>1. h \in Nat /\ l \in Nat /\ m \in Nat
        BY <1>4, Numbers
      <4>2. y.held = h /\ y.locwindow = w /\ y.locmaxwin = m /\ w + n = l
        BY <1>6, <1>7 DEF SameHeld
      <4> HIDE DEF h, l, m
      <4>3. h + l <= m => h + w <= m
        BY <1>4, <1>6, <4>1, <4>2
      <4> QED
        BY <4>2, <4>3 DEF h, l, m
    <3> QED
      BY <1>7, <1>8, <3>1 DEF Core, Firm, Throttle, Base, Closing, SameHeld
  <2> QED
    BY <1>7, <1>8, <2>1, <2>2 DEF Alive, Core, Firm, Base
<1>10. Waits(y) /\ Says(y) /\ Attends(y)
  BY <1>7, <1>8 DEF Waits, Says, Attends, Ended, Has, Base, Closing, SameData
<1>11. Talking(y, S, p)
  <2>1. y.locwindow + Head(s2c).n = c.locwindow
    BY <1>4, <1>6, <1>7
  <2> QED
    BY <1>2, <1>4, <1>7, <2>1, TalkingNext DEF S, Base, Closing, SameData, Has
<1>12. ASSUME NEW x \in chan_send(y, n)
       PROVE  Fine(c, after_chan_send(Touch(x[1]), x[2]), S, p)
  <2> DEFINE q == x[1]
             b == x[2]
             t == after_chan_send(q, b)
  <2>1. /\ q \in Chan /\ Does(y, q) /\ Calm(y, q) /\ b \in Nat
        /\ q.chan = "zombie" => b = 0
        /\ y.kind # "x11" => q = y /\ b <= y.held + n
    BY <1>4, <1>7, ChanSend
  <2> HIDE DEF q, b
  <2>2. q.crash = "none" => Alive(q) /\ ~q.halfopen
    <3> SUFFICES ASSUME q.crash = "none" PROVE Alive(q) /\ ~q.halfopen
      OBVIOUS
    <3>1. Core(q) /\ Moves(y, q)
      BY <1>9, <2>1 DEF Does
    <3> QED
      BY <1>4, <1>7, <1>9, <3>1 DEF Alive, Moves, Base
  <2>3. Touch(q) = q
    BY <2>1, <2>2, TouchProps DEF Alive
  <2>4. Alive(q) => /\ ~q.halfopen /\ (q.chan = "zombie" => b = 0)
                    /\ (q.kind # "x11" /\ ~ssh_is_simple => b + q.locwindow <= q.locmaxwin)
    <3> SUFFICES ASSUME Alive(q), q.kind # "x11", ~ssh_is_simple
                 PROVE  b + q.locwindow <= q.locmaxwin
      BY <2>1, <2>2 DEF Alive
    <3>1. q = y /\ b <= y.held + n /\ y.kind = c.kind
      BY <1>7, <2>1 DEF Does, Base
    <3>2. c.held + c.locwindow <= c.locmaxwin
      BY <1>8, <3>1 DEF Core, Firm, Throttle
    <3> DEFINE h == c.held
               l == c.locwindow
               m == c.locmaxwin
    <3>3. h \in Nat /\ l \in Nat /\ m \in Nat
      BY <1>4, Numbers
    <3>4. b <= h + n /\ q.locwindow = w /\ q.locmaxwin = m /\ w + n = l /\ h + l <= m
      BY <1>6, <1>7, <3>1, <3>2 DEF SameHeld
    <3> HIDE DEF h, l, m
    <3>5. b + w <= m
      BY <1>4, <1>6, <2>1, <3>3, <3>4
    <3> QED
      BY <3>4, <3>5
  <2>5. Does(q, t) /\ Calm(q, t)
    BY <2>1, <2>2, <2>4, AfterChanSend
  <2> HIDE DEF t
  <2>6. Does(y, t) /\ Calm(y, t)
    BY <1>7, <2>1, <2>5, DoesTrans, CalmTrans
  <2>7. t.crash = "none" => Waits(t) /\ Says(t) /\ Attends(t)
    BY <1>7, <1>9, <1>10, <2>6, CalmSays DEF Does, Calm
  <2>8. Fine(y, t, S, p)
    BY <1>4, <1>7, <1>9, <1>11, <2>6, <2>7, TalkingFine DEF Credits
  <2>9. Fine(c, t, S, p)
    BY <1>7, <2>8 DEF Fine, Base
  <2> QED
    BY <2>3, <2>9 DEF t, q, b
<1> QED
  BY <1>3, <1>4, <1>12

\* The server grants window.
LEMMA RcvdWindowAdjustInv ==
  ASSUME IndInv, RcvdWindowAdjust
  PROVE  IndInv'
<1> DEFINE n == Arg
           t == rcvd_WINDOW_ADJUST(c, n)
           new == {t}
           ty == "ADJUST"
           w == c.remwindow + n
           y == WithMore(c, w)
           z == ssh2_try_send_and_unthrottle(y)
           S == Tail(s2c)
<1>1. ClientRcvd(ty, Channel(FALSE, new)) /\ ty \notin {"OPEN", "OPEN_CONFIRMATION", "OPEN_FAILURE"}
  BY DEF RcvdWindowAdjust
<1>2. ty = "ADJUST"
  OBVIOUS
<1>3. t = IF Has(c, "SENT_EOF") THEN c ELSE z
  BY DEF rcvd_WINDOW_ADJUST, WithMore
<1> HIDE DEF ty, t, n
<1>4. /\ Sound(c) /\ c \in Chan /\ Alive(c) /\ ~c.halfopen /\ Credits(c, p) /\ p \in Peer
      /\ s2c \in Seq(Message) /\ s2c # <<>> /\ Head(s2c).type = ty
      /\ S \in Seq(Message) /\ n = Head(s2c).n /\ n \in Nat
      /\ Talking(c, s2c, p)
      /\ Fine(c, t, S, p) => IndInv'
  BY <1>1, OpenMessage DEF n
<1>5. Core(c) /\ Waits(c) /\ Says(c) /\ Attends(c) /\ c.crash = "none" /\ c.st = "live"
  BY <1>4 DEF Alive, Sound
<1>6. CASE Has(c, "SENT_EOF")
  <2>1. Talking(c, S, p)
    BY <1>2, <1>4, <1>6, TalkingNext DEF S
  <2>2. Does(c, c)
    BY <1>4, DoesNothing
  <2> HIDE DEF S
  <2>3. Fine(c, c, S, p)
    BY <1>4, <1>5, <2>1, <2>2, TalkingFine DEF Credits
  <2> QED
    BY <1>3, <1>4, <1>6, <2>3
<1>7. CASE ~Has(c, "SENT_EOF")
  <2>1. w \in Nat
    BY <1>4, Numbers
  <2>w. w = c.remwindow + n
    OBVIOUS
  <2> HIDE DEF w
  <2>2. /\ y \in Chan /\ Base(c, y) /\ Closing(c, y) /\ y.remwindow = w
        /\ y.outbuffer = c.outbuffer /\ y.written = c.written /\ SameWindow(c, y)
        /\ y.chanreq = c.chanreq /\ y.out = c.out
    BY <1>4, <2>1, SetMoreWindow
  <2> HIDE DEF y
  <2>3. Alive(y) /\ ~Has(y, "SENT_EOF")
    <3>1. Flags(y) /\ Idle(y) /\ Early(y) /\ Order(y)
      BY <1>4, <1>5, <2>2 DEF Core, Firm, Flags, Idle, Early, Order, Has, Base, Closing
    <3>2. Throttle(y) /\ Handlers(y)
      BY <1>5, <2>2 DEF Core, Firm, Throttle, Handlers, Base, Closing, SameWindow
    <3> QED
      BY <1>5, <1>7, <2>2, <3>1, <3>2 DEF Alive, Core, Firm, Base, Has, Closing
  <2>4. Says(y) /\ Attends(y)
    BY <1>5, <2>2 DEF Says, Attends, Ended, Has, Base, Closing
  <2>5. Talking(y, S, p)
    <3>1. y.remwindow = c.remwindow + Head(s2c).n
      BY <1>4, <2>2, <2>w
    <3> QED
      BY <1>2, <1>4, <2>2, <3>1, TalkingNext DEF S, Base, Closing, Has, SameWindow
  <2> HIDE DEF S
  <2>6. Does(y, z) /\ Calm(y, z) /\ (z.crash = "none" => Waits(z))
    BY <2>2, <2>3, TrySendAndUnthrottle
  <2> HIDE DEF z
  <2>7. z.crash = "none" => Waits(z) /\ Says(z) /\ Attends(z)
    BY <2>2, <2>3, <2>4, <2>6, CalmSays DEF Calm
  <2>8. Fine(y, z, S, p)
    BY <1>4, <2>2, <2>3, <2>5, <2>6, <2>7, TalkingFine DEF Credits
  <2>9. Fine(c, z, S, p)
    BY <2>2, <2>8 DEF Fine, Base
  <2> QED
    BY <1>3, <1>4, <1>7, <2>9
<1> QED
  BY <1>6, <1>7

\* A reply keeps everything in order.
LEMMA PushReply ==
  ASSUME NEW r \in Chan, Alive(r) => ~r.halfopen /\ ~Has(r, "SENT_CLOSE"),
         NEW x, x = Push(r, "REPLY", 0)
  PROVE  Does(r, x) /\ Calm(r, x)
<1> DEFINE ty == "REPLY"
           n == 0
           q == Queued(r, ty, n)
<1>2. ty \in ServerTypes /\ n \in Nat
  BY Types
<1>c. ty # "DATA" /\ ty # "ADJUST" /\ ty # "REQUEST" /\ ty # "CLOSE" /\ ty # "EOF"
      /\ ty # "OPEN" /\ ty # "OPEN_CONFIRMATION" /\ ty # "OPEN_FAILURE"
  OBVIOUS
<1>e. x = Push(r, ty, n)
  OBVIOUS
<1> HIDE DEF ty, n
<1>1. /\ x \in Chan /\ Base(r, x) /\ Closing(r, x)
      /\ SameData(r, x) /\ SameWindow(r, x) /\ x.chanreq = r.chanreq /\ x.out = q
  BY <1>2, <1>e, PushProps
<1>3. /\ \A t : ty # t => InFlight(q, t) = InFlight(r.out, t)
      /\ \A t : No(q, t) <=> No(r.out, t) /\ ty # t
      /\ No(r.out, "CLOSE") => CloseLast(q)
      /\ EofLate(r.out) /\ (ty # "DATA" \/ No(r.out, "EOF")) => EofLate(q)
  BY <1>2, PushQueue
<1> HIDE DEF q
<1>4. /\ InFlight(x.out, "ADJUST") = InFlight(r.out, "ADJUST")
      /\ InFlight(x.out, "DATA") = InFlight(r.out, "DATA")
      /\ InFlight(x.out, "REQUEST") = InFlight(r.out, "REQUEST")
  BY <1>1, <1>c, <1>3
<1>5. ASSUME Alive(r)
      PROVE  Core(x) /\ Moves(r, x) /\ (Waits(r) => Waits(x))
  <2>1. ~Has(r, "SENT_CLOSE") /\ ~r.halfopen /\ Core(r) /\ r.st = "live"
    BY <1>5 DEF Alive
  <2>2. No(r.out, "CLOSE")
    BY <2>1 DEF Core, Firm, Order
  <2>3. Flags(x) /\ Idle(x)
    BY <1>1, <2>1 DEF Core, Firm, Flags, Idle, Has, Closing, Base
  <2>4. Early(x) /\ Handlers(x)
    BY <1>1, <2>1 DEF Core, Firm, Early, Handlers, Closing, Base, SameWindow
  <2>5. Throttle(x)
    BY <1>1, <2>1 DEF Core, Firm, Throttle, SameWindow, Base, Closing
  <2>6. Order(x)
    BY <1>1, <1>c, <1>3, <2>1, <2>2 DEF Core, Firm, Order, Has, Closing, SameData
  <2>7. Len(r.chanreq) <= Len(r.chanreq)
    BY Numbers
  <2>8. Moves(r, x)
    BY <1>1, <1>c, <1>3, <1>4, <2>1, <2>7 DEF Moves, SameData, SameWindow, Plain, Has, Closing, Base
  <2>9. Waits(r) => Waits(x)
    BY <1>1 DEF Waits, SameData, Closing, Base
  <2> QED
    BY <2>3, <2>4, <2>5, <2>6, <2>8, <2>9 DEF Core, Firm
<1>6. Does(r, x)
  BY <1>1, <1>5 DEF Does, Base, Alive
<1>7. Calm(r, x)
  BY <1>1 DEF Calm, Loyal, Closing, Ended, Has, Base
<1> QED
  BY <1>6, <1>7

\* The server makes a request.
LEMMA RcvdRequestInv ==
  ASSUME IndInv, RcvdRequest
  PROVE  IndInv'
<1> DEFINE n == Arg
           t == rcvd_REQUEST(c, n)
           new == {t}
           ty == "REQUEST"
           z == Push(c, "REPLY", 0)
           S == Tail(s2c)
<1>1. ClientRcvd(ty, Channel(FALSE, new)) /\ ty \notin {"OPEN", "OPEN_CONFIRMATION", "OPEN_FAILURE"}
  BY DEF RcvdRequest
<1>2. ty = "REQUEST"
  OBVIOUS
<1>3. t = c \/ (~Has(c, "SENT_CLOSE") /\ t = z)
  BY DEF rcvd_REQUEST
<1> HIDE DEF ty, t, n, z
<1>4. /\ Sound(c) /\ c \in Chan /\ Alive(c) /\ ~c.halfopen /\ Credits(c, p) /\ p \in Peer
      /\ s2c \in Seq(Message) /\ s2c # <<>> /\ Head(s2c).type = ty
      /\ S \in Seq(Message) /\ Talking(c, s2c, p)
      /\ Fine(c, t, S, p) => IndInv'
  BY <1>1, OpenMessage
<1>5. Core(c) /\ Waits(c) /\ Says(c) /\ Attends(c)
  BY <1>4 DEF Sound
<1>6. Talking(c, S, p)
  BY <1>2, <1>4, TalkingNext DEF S
<1> HIDE DEF S
<1>7. Does(c, t) /\ Calm(c, t)
  <2>1. CASE t = c
    BY <1>4, <2>1, DoesNothing
  <2>2. CASE ~Has(c, "SENT_CLOSE") /\ t = z
    BY <1>4, <2>2, PushReply DEF z
  <2> QED
    BY <1>3, <2>1, <2>2
<1>8. t.crash = "none" => Waits(t) /\ Says(t) /\ Attends(t)
  BY <1>4, <1>5, <1>7, CalmSays DEF Does, Calm
<1>9. Fine(c, t, S, p)
  BY <1>4, <1>6, <1>7, <1>8, TalkingFine DEF Credits
<1> QED
  BY <1>4, <1>9

\* The handlers without the first.
LEMMA TailHandlers ==
  ASSUME NEW w \in Seq(Nat), w # <<>>
  PROVE  /\ Head(w) \in Nat /\ Tail(w) \in Seq(Nat) /\ Len(Tail(w)) + 1 = Len(w)
         /\ (\A i \in 1..Len(w) : w[i] > 0) =>
               Head(w) > 0 /\ \A i \in 1..Len(Tail(w)) : Tail(w)[i] > 0
         /\ Head(w) = 0 /\ (\E i \in 1..Len(w) : w[i] > 0) =>
               \E i \in 1..Len(Tail(w)) : Tail(w)[i] > 0
<1> DEFINE v == Tail(w)
<1>1. /\ Len(w) \in Nat /\ Len(w) > 0 /\ v \in Seq(Nat) /\ Len(v) = Len(w) - 1
      /\ Head(w) = w[1] /\ Head(w) \in Nat
      /\ \A i \in 1..Len(w) - 1 : v[i] = w[i + 1]
  OBVIOUS
<1> HIDE DEF v
<1>2. (\A i \in 1..Len(w) : w[i] > 0) => Head(w) > 0 /\ \A i \in 1..Len(v) : v[i] > 0
  <2>1. 1 \in 1..Len(w) /\ \A i \in 1..Len(v) : i + 1 \in 1..Len(w) /\ i \in 1..Len(w) - 1
    BY <1>1
  <2> QED
    BY <1>1, <2>1
<1>3. ASSUME Head(w) = 0, NEW i \in 1..Len(w), w[i] > 0
      PROVE  \E j \in 1..Len(v) : v[j] > 0
  <2>1. i # 1
    BY <1>1, <1>3
  <2>2. i - 1 \in 1..Len(v) /\ i - 1 \in 1..Len(w) - 1 /\ i - 1 + 1 = i
    BY <1>1, <2>1
  <2>3. v[i - 1] = w[i - 1 + 1]
    BY <1>1, <2>2
  <2>4. v[i - 1] = w[i]
    BY <2>2, <2>3
  <2> QED
    BY <1>3, <2>2, <2>4
<1> QED
  BY <1>1, <1>2, <1>3 DEF v

\* A reply that comes was asked for.
LEMMA ReplyDue ==
  ASSUME NEW r \in Chan, NEW s \in Seq(Message), s # <<>>, NEW q \in Peer, Talking(r, s, q),
         Head(s).type = "REPLY"
  PROVE  r.chanreq # <<>>
<1> DEFINE f == Count(s, "REPLY")
           g == Count(Tail(s), "REPLY")
           or == IF q.sentClose THEN 0 ELSE InFlight(r.out, "REQUEST")
           l == Len(r.chanreq)
<1>1. f = 1 + g /\ Tail(s) \in Seq(Message)
  BY HeadOut DEF Talking
<1>2. g \in Nat /\ or \in Nat /\ l \in Nat
  BY <1>1, QueueNumbers, Numbers
<1>3. f + or <= l
  BY DEF Talking, Due
<1>4. l = 0 \/ r.chanreq # <<>>
  OBVIOUS
<1> HIDE DEF f, g, or, l
<1> QED
  BY <1>1, <1>2, <1>3, <1>4

\* The first handler leaves the list once it has run.
LEMMA HandlerDone ==
  ASSUME NEW r \in Chan, r.chanreq # <<>>, Alive(r), ~r.halfopen, Attends(r),
         NEW reply, NEW e, e = call_handler(r, Head(r.chanreq), reply),
         NEW y, y = WithReq(e, Tail(e.chanreq))
  PROVE  /\ Does(r, e) /\ Calm(r, e) /\ y \in Chan
         /\ Base(e, y) /\ Closing(e, y) /\ SameData(e, y) /\ SameWindow(e, y)
         /\ y.out = e.out
         /\ Len(y.chanreq) + 1 = Len(e.chanreq)
         /\ e.crash = "none" => Alive(y) /\ ~y.halfopen /\ Moves(r, e)
<1> DEFINE w == r.chanreq
           h == Head(w)
           k == e.chanreq
           v == Tail(k)
<1>1. w \in Seq(Nat)
  BY Numbers
<1>2. /\ h \in Nat
      /\ (\A i \in 1..Len(w) : w[i] > 0) => h > 0
  BY <1>1, TailHandlers
<1>3. Core(r) /\ r.crash = "none" /\ r.st = "live"
  BY DEF Alive
<1>4. r.kind # "session" => h > 0
  BY <1>2, <1>3 DEF Core, Firm, Handlers
<1>5. r.kind = "session" => r.chan = "live"
  BY <1>3 DEF Attends
<1>6. r.kind = "session" \/ h > 0
  BY <1>4
<1>7. Alive(r) /\ h = 0 => r.kind = "session" /\ r.chan = "live" /\ (reply = "null" \/ ~r.halfopen)
  <2>1. ASSUME h = 0 PROVE r.kind = "session"
    <3>1. ~(h > 0)
      BY <1>2, <2>1
    <3> QED
      BY <1>4, <3>1
  <2> QED
    BY <1>5, <2>1
<1>8. e = call_handler(r, h, reply)
  OBVIOUS
<1>9. /\ Does(r, e) /\ Calm(r, e)
      /\ Alive(r) /\ e.crash = "none" /\ e.throttle_state = "UNTHROTTLING" =>
            h = 0 /\ r.throttle_state = "UNTHROTTLING"
  BY <1>2, <1>3, <1>6, <1>7, <1>8, CallHandler
<1>10. e \in Chan /\ (k = w \/ (h = 0 /\ k = Append(w, 0)))
  BY <1>2, <1>8, <1>9, HandlerKeeps DEF Does
<1>v. v = Tail(k) /\ w = r.chanreq /\ k = e.chanreq /\ h = Head(w)
  OBVIOUS
<1> HIDE DEF h, v, k, w
<1>k. k \in Seq(Nat) /\ k # <<>> /\ Head(k) = h
  <2>1. w \in Seq(Nat) /\ w # <<>> /\ 0 \in Nat
    BY <1>1, <1>v
  <2>2. Append(w, 0) \in Seq(Nat) /\ Append(w, 0) # <<>> /\ Head(Append(w, 0)) = Head(w)
    <3>1. /\ Append(w, 0) \in Seq(Nat) /\ Len(Append(w, 0)) = Len(w) + 1
          /\ Len(w) > 0 /\ Len(w) \in Nat
          /\ \A i \in 1..Len(w) : Append(w, 0)[i] = w[i]
      BY <2>1
    <3>2. 1 \in 1..Len(w)
      BY <3>1
    <3>3. Append(w, 0)[1] = w[1] /\ Head(w) = w[1]
      BY <2>1, <3>1, <3>2
    <3>4. Append(w, 0) # <<>>
      BY <3>1
    <3>5. Head(Append(w, 0)) = Append(w, 0)[1]
      BY <3>1, <3>4
    <3> QED
      BY <3>1, <3>3, <3>4, <3>5
  <2> QED
    BY <1>10, <1>v, <2>1, <2>2
<1>t. /\ v \in Seq(Nat) /\ Len(v) + 1 = Len(k)
      /\ (\A i \in 1..Len(k) : k[i] > 0) => \A i \in 1..Len(v) : v[i] > 0
      /\ h = 0 /\ (\E i \in 1..Len(k) : k[i] > 0) => \E i \in 1..Len(v) : v[i] > 0
  BY <1>k, <1>v, TailHandlers
<1>11. /\ y \in Chan /\ y.chanreq = v
       /\ Base(e, y) /\ Closing(e, y)
       /\ SameData(e, y) /\ SameWindow(e, y) /\ y.out = e.out
  BY <1>t, <1>10, <1>v, SetReq
<1>12. ASSUME e.crash = "none"
       PROVE  Alive(y) /\ ~y.halfopen /\ Moves(r, e)
  <2>1. Core(e) /\ Moves(r, e)
    BY <1>9, <1>12 DEF Does
  <2>2. e.st = "live" /\ ~e.halfopen
    BY <1>3, <2>1 DEF Moves
  <2>3. ~Has(e, "SENT_CLOSE")
    BY <1>k, <1>v, <2>1 DEF Core, Firm, Flags
  <2>4. Flags(y) /\ Idle(y) /\ Early(y) /\ Order(y) /\ Throttle(y)
    BY <1>11, <2>1, <2>2, <2>3 DEF Core, Firm, Flags, Idle, Early, Order, Throttle, Has, Base,
       Closing, SameData, SameWindow
  <2>5. Handlers(y)
    <3>0. Handlers(e)
      BY <2>1 DEF Core, Firm
    <3>1. y.kind # "session" => \A i \in 1..Len(y.chanreq) : y.chanreq[i] > 0
      <4>1. y.kind = e.kind
        BY <1>11 DEF Base
      <4> QED
        BY <1>t, <1>11, <1>v, <3>0, <4>1 DEF Handlers
    <3>2. ASSUME y.throttle_state = "UNTHROTTLING"
          PROVE  \E i \in 1..Len(y.chanreq) : y.chanreq[i] > 0
      <4>1. h = 0 /\ e.throttle_state = "UNTHROTTLING"
        BY <1>9, <1>11, <1>12, <3>2 DEF SameWindow
      <4>2. \E i \in 1..Len(k) : k[i] > 0
        BY <1>v, <2>2, <3>0, <4>1 DEF Handlers
      <4> QED
        BY <1>t, <1>11, <4>1, <4>2
    <3> QED
      BY <3>1, <3>2 DEF Handlers
  <2>6. y.st = "live" /\ y.crash = "none" /\ ~y.halfopen
    BY <1>11, <1>12, <2>2 DEF Base
  <2> QED
    BY <2>1, <2>4, <2>5, <2>6 DEF Alive, Core, Firm
<1> QED
  BY <1>t, <1>9, <1>10, <1>11, <1>12, <1>v

\* The server answers a request.
LEMMA RcvdReplyInv ==
  ASSUME IndInv, RcvdReply
  PROVE  IndInv'
<1> DEFINE n == Arg
           reply == IF n = 1 THEN "ok" ELSE "no"
           t == rcvd_REPLY(c, n)
           new == {t}
           ty == "REPLY"
           e == call_handler(c, Head(c.chanreq), reply)
           y == WithReq(e, Tail(e.chanreq))
           S == Tail(s2c)
<1>1. ClientRcvd(ty, Channel(FALSE, new)) /\ ty \notin {"OPEN", "OPEN_CONFIRMATION", "OPEN_FAILURE"}
  BY DEF RcvdReply
<1>2. ty = "REPLY"
  OBVIOUS
<1>3. t = IF c.chanreq = <<>> THEN Check(c, FALSE, "proto_error")
          ELSE ssh2_channel_check_close(y)
  BY DEF rcvd_REPLY, WithReq
<1> HIDE DEF ty, t, n, reply
<1>4. /\ Sound(c) /\ c \in Chan /\ Alive(c) /\ ~c.halfopen /\ Credits(c, p) /\ p \in Peer
      /\ s2c \in Seq(Message) /\ s2c # <<>> /\ Head(s2c).type = ty
      /\ S \in Seq(Message) /\ Talking(c, s2c, p)
      /\ Fine(c, t, S, p) => IndInv'
  BY <1>1, OpenMessage
<1>5. Core(c) /\ Waits(c) /\ Says(c) /\ Attends(c)
  BY <1>4 DEF Sound
<1>6. c.chanreq # <<>>
  BY <1>2, <1>4, ReplyDue
<1> HIDE DEF e, y
<1>8. /\ Does(c, e) /\ Calm(c, e) /\ y \in Chan
      /\ Base(e, y) /\ Closing(e, y) /\ SameData(e, y) /\ SameWindow(e, y)
      /\ y.out = e.out
      /\ Len(y.chanreq) + 1 = Len(e.chanreq)
      /\ e.crash = "none" => Alive(y) /\ ~y.halfopen /\ Moves(c, e)
  BY <1>4, <1>5, <1>6, HandlerDone DEF e, y
<1>7. t = ssh2_channel_check_close(y)
  BY <1>3, <1>6
<1>9. e \in Chan /\ e.kind = c.kind /\ (e.crash = "none" \/ e.crash \in Allowed(c.kind))
  BY <1>4, <1>8 DEF Does
<1>10. Does(y, t) /\ Calm(y, t)
  BY <1>7, <1>8, CheckClose
<1>11. t \in Chan /\ t.kind = c.kind /\ y.kind = c.kind /\ y.crash = e.crash
  BY <1>8, <1>9, <1>10 DEF Does, Base
<1>12. CASE e.crash # "none"
  <2>1. t.crash = e.crash
    BY <1>10, <1>11, <1>12 DEF Does
  <2> QED
    BY <1>4, <1>9, <1>11, <1>12, <2>1 DEF Fine
<1>13. CASE e.crash = "none"
  <2>1. Alive(y) /\ ~y.halfopen /\ Moves(c, e)
    BY <1>8, <1>13
  <2>2. Talking(e, s2c, p) /\ Credits(e, p)
    BY <1>4, <1>9, <2>1, TalkingOn DEF Credits
  <2>3. Talking(y, S, p)
    <3>1. Len(y.chanreq) + 1 = Len(e.chanreq)
      BY <1>8
    <3> QED
      BY <1>2, <1>4, <1>8, <1>9, <2>2, <3>1, TalkingNext
         DEF S, Base, Closing, SameData, SameWindow, Has
  <2>4. Waits(y)
    <3>1. Waits(e)
      BY <1>4, <1>5, <1>8, <1>13 DEF Does
    <3> QED
      BY <1>8, <3>1 DEF Waits, Base, Closing, SameData
  <2>5. Says(y) /\ Attends(y)
    <3>1. Says(e) /\ Attends(e)
      BY <1>4, <1>5, <1>8, <1>13, CalmSays DEF Calm
    <3> QED
      BY <1>8, <3>1 DEF Says, Attends, Ended, Has, Base, Closing
  <2>6. t.crash = "none" => Waits(t) /\ Says(t) /\ Attends(t)
    <3>1. t.crash = "none" => Waits(t)
      BY <1>10, <2>1, <2>4 DEF Does
    <3> QED
      BY <1>8, <1>10, <2>1, <2>5, <3>1, CalmSays DEF Calm
  <2>7. p.gotClose => y.out = <<>>
    BY <1>8, <2>2 DEF Credits
  <2>8. Fine(y, t, S, p)
    BY <1>4, <1>8, <1>10, <2>1, <2>3, <2>6, <2>7, TalkingFine
  <2>9. Fine(c, t, S, p)
    BY <1>11, <2>8 DEF Fine
  <2> QED
    BY <1>4, <2>9
<1> QED
  BY <1>12, <1>13

\* The server's EOF is noted.
LEMMA EofNoted ==
  ASSUME NEW r \in Chan, Sound(r), Alive(r), ~r.halfopen,
         NEW y, y = WithCloses(r, r.closes \cup {"RCVD_EOF"})
  PROVE  /\ y \in Chan /\ Alive(y) /\ ~y.halfopen /\ Waits(y) /\ Says(y) /\ Attends(y)
         /\ Base(r, y) /\ y.out = r.out /\ y.chan = r.chan /\ y.chanreq = r.chanreq
         /\ SameData(r, y) /\ SameWindow(r, y)
         /\ \A flag : Has(r, flag) => Has(y, flag)
         /\ Has(y, "RCVD_EOF") /\ (Has(y, "SENT_EOF") => Has(r, "SENT_EOF"))
         /\ Has(y, "SENT_CLOSE") => Has(r, "SENT_CLOSE")
<1> DEFINE cl == r.closes \cup {"RCVD_EOF"}
<1>1. cl \in ClosingFlags
  BY DEF ClosingFlags, Closes, Chan
<1>2. /\ \A flag : flag \in r.closes => flag \in cl
      /\ "SENT_EOF" \in cl => "SENT_EOF" \in r.closes
      /\ "SENT_CLOSE" \in cl => "SENT_CLOSE" \in r.closes
      /\ "RCVD_CLOSE" \in cl => "RCVD_CLOSE" \in r.closes
      /\ "RCVD_EOF" \in cl
  OBVIOUS
<1>3. y = WithCloses(r, cl)
  OBVIOUS
<1> HIDE DEF cl
<1>4. /\ y \in Chan /\ y.closes = cl /\ Base(r, y) /\ y.out = r.out
      /\ y.pending_eof = r.pending_eof /\ y.chan = r.chan /\ y.chanreq = r.chanreq
      /\ SameData(r, y) /\ SameWindow(r, y)
  BY <1>1, <1>3, SetCloses
<1>5. Core(r) /\ Waits(r) /\ Says(r) /\ Attends(r) /\ r.crash = "none" /\ r.st = "live"
  BY DEF Alive, Sound
<1>6. Flags(y) /\ Idle(y)
  BY <1>2, <1>4, <1>5 DEF Core, Firm, Flags, Idle, Has, Base
<1>7. Early(y) /\ Throttle(y) /\ Handlers(y)
  BY <1>4, <1>5 DEF Core, Firm, Early, Throttle, Handlers, Base, SameData, SameWindow
<1>8. Order(y)
  BY <1>2, <1>4, <1>5 DEF Core, Firm, Order, Has, Base, SameData
<1>9. Waits(y)
  BY <1>4, <1>5 DEF Waits, Base, SameData
<1>10. Says(y) /\ Attends(y)
  BY <1>2, <1>4, <1>5 DEF Says, Attends, Ended, Has, Base
<1> QED
  BY <1>2, <1>4, <1>5, <1>6, <1>7, <1>8, <1>9, <1>10 DEF Alive, Core, Firm, Has, Base

\* The server has no more data.
LEMMA RcvdEofInv ==
  ASSUME IndInv, RcvdEof
  PROVE  IndInv'
<1> DEFINE t == rcvd_EOF(c)
           new == {t}
           ty == "EOF"
           y == WithCloses(c, c.closes \cup {"RCVD_EOF"})
           e == chan_send_eof(y)
           z == ssh2_channel_check_close(e)
           S == Tail(s2c)
<1>1. ClientRcvd(ty, Channel(FALSE, new)) /\ ty \notin {"OPEN", "OPEN_CONFIRMATION", "OPEN_FAILURE"}
  BY DEF RcvdEof
<1>2. ty = "EOF"
  OBVIOUS
<1>3. t = c \/ t = z
  BY DEF rcvd_EOF, WithCloses
<1> HIDE DEF ty, t
<1>4. /\ Sound(c) /\ c \in Chan /\ Alive(c) /\ ~c.halfopen /\ Credits(c, p) /\ p \in Peer
      /\ s2c \in Seq(Message) /\ s2c # <<>> /\ Head(s2c).type = ty
      /\ S \in Seq(Message) /\ Talking(c, s2c, p)
      /\ Fine(c, t, S, p) => IndInv'
  BY <1>1, OpenMessage
<1>5. CASE t = c
  <2>1. Talking(c, S, p)
    BY <1>2, <1>4, TalkingNext DEF S
  <2>2. Does(c, c)
    BY <1>4, DoesNothing
  <2> HIDE DEF S
  <2>3. Fine(c, c, S, p)
    BY <1>4, <2>1, <2>2, TalkingFine DEF Credits, Sound
  <2> QED
    BY <1>4, <1>5, <2>3
<1>6. CASE t = z
  <2>1. /\ y \in Chan /\ Alive(y) /\ ~y.halfopen /\ Waits(y) /\ Says(y) /\ Attends(y)
        /\ Base(c, y) /\ y.out = c.out /\ y.chan = c.chan /\ y.chanreq = c.chanreq
        /\ SameData(c, y) /\ SameWindow(c, y)
        /\ \A flag : Has(c, flag) => Has(y, flag)
    BY <1>4, EofNoted
  <2> HIDE DEF y
  <2>2. Talking(y, S, p)
    BY <1>2, <1>4, <2>1, TalkingNext DEF S, Base, SameData, SameWindow
  <2> HIDE DEF S
  <2>3. Does(y, e) /\ Calm(y, e)
    BY <2>1, ChanSendEof
  <2>4. e \in Chan
    BY <2>3 DEF Does
  <2> HIDE DEF e
  <2>5. Does(e, z) /\ Calm(e, z)
    BY <2>4, CheckClose
  <2> HIDE DEF z
  <2>6. Does(y, z) /\ Calm(y, z)
    BY <2>1, <2>3, <2>4, <2>5, DoesTrans, CalmTrans
  <2>7. z.crash = "none" => Waits(z) /\ Says(z) /\ Attends(z)
    BY <2>1, <2>6, CalmSays DEF Does, Calm
  <2>8. p.gotClose => y.out = <<>>
    BY <1>4, <2>1 DEF Credits
  <2>9. Fine(y, z, S, p)
    BY <1>4, <2>1, <2>2, <2>6, <2>7, <2>8, TalkingFine
  <2>10. Fine(c, z, S, p)
    BY <2>1, <2>9 DEF Fine, Base
  <2> QED
    BY <1>4, <1>6, <2>10
<1> QED
  BY <1>3, <1>5, <1>6

-----------------------------------------------------------------------------
(* Closing, at the server's request.                                       *)

\* The end of file makes and answers no request.
LEMMA ChanSendEofReq ==
  ASSUME NEW r \in Chan, NEW s, s = chan_send_eof(r)
  PROVE  s.chanreq = r.chanreq
<1> DEFINE w == ssh2channel_write_eof(r)
           yes == TRUE
           no == FALSE
           v == WithEofSent(w, yes)
           u == WithInput(v, no)
<1>1. s = r \/ s = w \/ s = u
  BY DEF chan_send_eof, WithEofSent, WithInput
<1>2. w \in Chan /\ w.chanreq = r.chanreq
  BY WriteEofTyped, WriteEofReq
<1>3. yes \in BOOLEAN /\ no \in BOOLEAN
  OBVIOUS
<1> HIDE DEF w, yes, no
<1>4. v \in Chan /\ Same(w, v)
  BY <1>2, <1>3, SetLocal
<1> HIDE DEF v
<1>5. Same(v, u)
  BY <1>3, <1>4, SetLocal
<1> QED
  BY <1>1, <1>2, <1>4, <1>5 DEF Same, SameClosing

\* f gives the channel after each of the handlers of w.
Flushes(f, r, w) ==
  /\ f = [i \in 0..Len(w) |-> f[i]] /\ f[0] = r
  /\ \A i \in 1..Len(w) : f[i] = call_handler(f[i - 1], w[i], "null")

\* The handlers run one after the other.
LEMMA FlushedExists ==
  ASSUME NEW r, NEW w \in Seq(Nat)
  PROVE  \E f : Flushes(f, r, w)
<1> DEFINE P(m) == \E f : /\ f = [i \in 0..m |-> f[i]] /\ f[0] = r
                          /\ \A i \in 1..m : f[i] = call_handler(f[i - 1], w[i], "null")
           T == {m \in Nat : P(m)}
<1>0. Len(w) \in Nat
  OBVIOUS
<1>1. 0 \in T
  <2> DEFINE f == [i \in 0..0 |-> r]
  <2>1. f = [i \in 0..0 |-> f[i]] /\ f[0] = r
    OBVIOUS
  <2> HIDE DEF f
  <2>2. \A i \in 1..0 : f[i] = call_handler(f[i - 1], w[i], "null")
    OBVIOUS
  <2> QED
    BY <2>1, <2>2
<1>2. ASSUME NEW i \in 0..Len(w), i > 0, i - 1 \in T PROVE i \in T
  <2>0. i \in 1..Len(w) /\ i \in Nat /\ i - 1 \in 0..i - 1 /\ i \notin 0..i - 1
    BY <1>0, <1>2
  <2>1. PICK f : /\ f = [j \in 0..i - 1 |-> f[j]] /\ f[0] = r
                 /\ \A j \in 1..i - 1 : f[j] = call_handler(f[j - 1], w[j], "null")
    BY <1>2
  <2> DEFINE e == call_handler(f[i - 1], w[i], "null")
             g == [j \in 0..i |-> IF j = i THEN e ELSE f[j]]
  <2> HIDE DEF e
  <2>3. \A j \in 0..i - 1 : g[j] = f[j]
    BY <2>0
  <2>4. g[i] = e /\ g[0] = r /\ g = [j \in 0..i |-> g[j]]
    BY <2>0, <2>1
  <2> HIDE DEF g
  <2>5. ASSUME NEW j \in 1..i PROVE g[j] = call_handler(g[j - 1], w[j], "null")
    <3>1. CASE j = i
      BY <3>1, <2>0, <2>3, <2>4 DEF e
    <3>2. CASE j # i
      <4>1. j \in 0..i - 1 /\ j - 1 \in 0..i - 1 /\ j \in 1..i - 1
        BY <3>2, <2>0
      <4>2. g[j] = f[j] /\ g[j - 1] = f[j - 1]
        BY <2>3, <4>1
      <4> QED
        BY <4>1, <4>2, <2>1
    <3> QED
      BY <3>1, <3>2
  <2> QED
    BY <2>0, <2>4, <2>5
<1> HIDE DEF T
<1>3. Len(w) \in T
  <2>1. \A i \in 0..Len(w) : i > 0 /\ i - 1 \in T => i \in T
    BY <1>2
  <2>2. \A i \in 0..Len(w) : i \in T
    BY <1>0, <1>1, <2>1, Reaches
  <2> QED
    BY <1>0, <2>2
<1> QED
  BY <1>3 DEF T, Flushes

\* And then the list is empty.
LEMMA FlushedIs ==
  ASSUME NEW r \in Chan, NEW w, w = r.chanreq
  PROVE  \E f : /\ f[0] = r
                /\ \A i \in 1..Len(w) : f[i] = call_handler(f[i - 1], w[i], "null")
                /\ flush_chanreqs(r) = WithReq(f[Len(w)], <<>>)
<1> DEFINE n == Len(w)
           k == CHOOSE k : k = [i \in 0..n |->
                   IF i = 0 THEN r ELSE call_handler(k[i - 1], w[i], "null")]
<1>0. n \in Nat /\ w \in Seq(Nat)
  BY Numbers
<1>1. flush_chanreqs(r) = WithReq(k[n], <<>>)
  BY DEF flush_chanreqs, WithReq
<1>a. PICK f : Flushes(f, r, w)
  BY <1>0, FlushedExists
<1>2. /\ f = [i \in 0..n |-> f[i]] /\ f[0] = r
      /\ \A i \in 1..n : f[i] = call_handler(f[i - 1], w[i], "null")
  BY <1>a DEF Flushes
<1>3. f = [i \in 0..n |-> IF i = 0 THEN r ELSE call_handler(f[i - 1], w[i], "null")]
  <2>1. \A i \in 0..n : i = 0 \/ i \in 1..n
    BY <1>0
  <2>2. \A i \in 0..n : f[i] = IF i = 0 THEN r ELSE call_handler(f[i - 1], w[i], "null")
    BY <1>2, <2>1
  <2>3. [i \in 0..n |-> f[i]]
        = [i \in 0..n |-> IF i = 0 THEN r ELSE call_handler(f[i - 1], w[i], "null")]
    BY <2>2
  <2> QED
    BY <1>2, <2>3
<1>4. k = [i \in 0..n |-> IF i = 0 THEN r ELSE call_handler(k[i - 1], w[i], "null")]
  BY <1>3
<1>5. \A i \in 0..n : k[i] = IF i = 0 THEN r ELSE call_handler(k[i - 1], w[i], "null")
  BY <1>4
<1> HIDE DEF k
<1>6. k[0] = r
  BY <1>0, <1>5
<1>7. \A i \in 1..n : k[i] = call_handler(k[i - 1], w[i], "null")
  <2>1. \A i \in 1..n : i \in 0..n /\ i # 0
    BY <1>0
  <2> QED
    BY <1>5, <2>1
<1> QED
  BY <1>1, <1>6, <1>7

\* What a handler without an answer leaves as it was, step by step.
Flushing(r, e, w, i) ==
  /\ e \in Chan /\ Does(r, e) /\ Calm(r, e)
  /\ Alive(r) /\ e.crash = "none" /\ e.throttle_state = "UNTHROTTLING" =>
        r.throttle_state = "UNTHROTTLING" /\ \A j \in 1..i : w[j] = 0

\* Every handler runs; the main session's stop PuTTY, a winadj's is enough to
\* finish reopening the window.
LEMMA FlushProps ==
  ASSUME NEW r \in Chan, Alive(r) \/ r.crash # "none",
         r.kind # "session" => \A i \in 1..Len(r.chanreq) : r.chanreq[i] > 0,
         Alive(r) /\ r.kind = "session" => r.chan = "live"
  PROVE  \E e \in Chan : /\ Does(r, e) /\ Calm(r, e)
                         /\ flush_chanreqs(r) = WithReq(e, <<>>)
                         /\ Alive(r) /\ e.crash = "none" => e.throttle_state # "UNTHROTTLING"
<1> DEFINE w == r.chanreq
           n == Len(w)
<1>0. n \in Nat /\ w \in Seq(Nat) /\ \A i \in 1..n : w[i] \in Nat
  <2>1. w \in Seq(Nat)
    BY Numbers
  <2> QED
    BY <2>1
<1>w. /\ r.kind # "session" => \A i \in 1..n : w[i] > 0
      /\ Alive(r) /\ r.throttle_state = "UNTHROTTLING" => \E i \in 1..n : w[i] > 0
  BY DEF Alive, Core, Firm, Handlers
<1>1. PICK f : /\ f[0] = r
               /\ \A i \in 1..n : f[i] = call_handler(f[i - 1], w[i], "null")
               /\ flush_chanreqs(r) = WithReq(f[n], <<>>)
  BY FlushedIs
<1> HIDE DEF n, w
<1> DEFINE T == {i \in Nat : Flushing(r, f[i], w, i)}
<1>2. 0 \in T
  <2>1. Flushing(r, r, w, 0)
    BY DoesNothing DEF Flushing
  <2> QED
    BY <1>1, <2>1
<1>3. ASSUME NEW i \in 0..n, i > 0, i - 1 \in T PROVE i \in T
  <2> DEFINE a == f[i - 1]
             b == f[i]
             h == w[i]
             reply == "null"
  <2>1. i \in 1..n /\ i \in Nat /\ h \in Nat
    BY <1>0, <1>3
  <2>2. Flushing(r, a, w, i - 1)
    BY <1>3
  <2>3. b = call_handler(a, h, reply) /\ reply = "null"
    BY <1>1, <2>1
  <2>4. r.kind = "session" \/ h > 0
    BY <1>w, <2>1
  <2> HIDE DEF a, b, reply
  <2>5. /\ a \in Chan /\ Does(r, a) /\ Calm(r, a) /\ a.kind = r.kind
        /\ Alive(r) /\ a.crash = "none" /\ a.throttle_state = "UNTHROTTLING" =>
              r.throttle_state = "UNTHROTTLING" /\ \A j \in 1..i - 1 : w[j] = 0
    BY <2>2 DEF Flushing, Does
  <2>6. ASSUME Alive(a) PROVE Alive(r) /\ a.crash = "none" /\ a.chan = r.chan
    <3>1. a.crash = "none" /\ r.crash = "none"
      BY <2>5, <2>6 DEF Alive, Does
    <3> QED
      BY <2>5, <3>1 DEF Calm, Loyal
  <2>z. h = 0 => ~(h > 0)
    BY <2>1
  <2> HIDE DEF h
  <2>7. Alive(a) /\ h = 0 =>
           a.kind = "session" /\ a.chan = "live" /\ (reply = "null" \/ ~a.halfopen)
    BY <2>3, <2>4, <2>5, <2>6, <2>z
  <2>8. a.kind = "session" \/ h > 0
    BY <2>4, <2>5
  <2>9. /\ Does(a, b) /\ Calm(a, b)
        /\ Alive(a) /\ b.crash = "none" /\ b.throttle_state = "UNTHROTTLING" =>
              h = 0 /\ a.throttle_state = "UNTHROTTLING"
    BY <2>1, <2>3, <2>5, <2>7, <2>8, CallHandler
  <2>10. Does(r, b) /\ Calm(r, b) /\ b \in Chan
    BY <2>5, <2>9, DoesTrans, CalmTrans DEF Does
  <2>11. ASSUME Alive(r), b.crash = "none", b.throttle_state = "UNTHROTTLING"
         PROVE  r.throttle_state = "UNTHROTTLING" /\ \A j \in 1..i : w[j] = 0
    <3>1. a.crash = "none"
      BY <2>9, <2>11 DEF Does
    <3>2. Alive(a)
      BY <2>5, <2>11, <3>1 DEF Does, Alive, Moves
    <3>3. h = 0 /\ a.throttle_state = "UNTHROTTLING"
      BY <2>9, <2>11, <3>2
    <3>4. r.throttle_state = "UNTHROTTLING" /\ \A j \in 1..i - 1 : w[j] = 0
      BY <2>5, <2>11, <3>1, <3>3
    <3>5. \A j \in 1..i : j \in 1..i - 1 \/ j = i
      BY <2>1
    <3> QED
      BY <3>3, <3>4, <3>5 DEF h
  <2>12. Flushing(r, b, w, i)
    BY <2>10, <2>11 DEF Flushing
  <2> QED
    BY <2>1, <2>12 DEF b
<1> HIDE DEF T
<1>4. n \in T
  <2>1. \A i \in 0..n : i > 0 /\ i - 1 \in T => i \in T
    BY <1>3
  <2>2. \A i \in 0..n : i \in T
    BY <1>0, <1>2, <2>1, Reaches
  <2> QED
    BY <1>0, <2>2
<1>5. Flushing(r, f[n], w, n)
  BY <1>4 DEF T
<1> DEFINE e == f[n]
<1>6. flush_chanreqs(r) = WithReq(e, <<>>) /\ Flushing(r, e, w, n)
  BY <1>1, <1>5
<1> HIDE DEF e
<1>7. e \in Chan /\ Does(r, e) /\ Calm(r, e)
  BY <1>6 DEF Flushing
<1>8. Alive(r) /\ e.crash = "none" => e.throttle_state # "UNTHROTTLING"
  <2> SUFFICES ASSUME Alive(r), e.crash = "none", e.throttle_state = "UNTHROTTLING"
               PROVE  FALSE
    OBVIOUS
  <2>1. r.throttle_state = "UNTHROTTLING" /\ \A j \in 1..n : w[j] = 0
    BY <1>6 DEF Flushing
  <2>2. PICK i \in 1..n : w[i] > 0
    BY <1>w, <2>1
  <2>3. w[i] = 0 /\ w[i] > 0
    BY <2>1, <2>2
  <2> QED
    BY <2>3
<1> QED
  BY <1>6, <1>7, <1>8

\* Once both sides have ended, the server's CLOSE frees the channel.
LEMMA Finished ==
  ASSUME NEW r \in Chan, Alive(r), ~r.halfopen, Has(r, "SENT_EOF"), Has(r, "RCVD_EOF"),
         r.chanreq = <<>>, Plain(r.out), NEW q \in Peer, InFlight(r.out, "DATA") <= q.rwin,
         q.gotClose => r.out = <<>> /\ Has(r, "SENT_CLOSE"), q.st = "open", q.sentClose,
         NEW t, t = process_close(r), NEW s, s = <<>>
  PROVE  Fine(r, t, s, q)
<1> DEFINE cl == r.closes \cup {"RCVD_CLOSE"}
           g == WithCloses(r, cl)
           z == send_close(g)
           x == IF Has(g, "SENT_CLOSE") THEN g ELSE z
           ty == "CLOSE"
           n == 0
           o == Queued(g, ty, n)
<1>1. Core(r) /\ r.crash = "none" /\ r.st = "live"
  BY DEF Alive
<1>2. /\ cl \in ClosingFlags /\ "RCVD_CLOSE" \in cl /\ \A flag : flag \in r.closes => flag \in cl
      /\ "SENT_CLOSE" \in cl => "SENT_CLOSE" \in r.closes
  BY DEF ClosingFlags, Closes, Chan
<1> HIDE DEF cl
<1>3. /\ g \in Chan /\ g.closes = cl /\ Base(r, g) /\ g.out = r.out
      /\ g.pending_eof = r.pending_eof /\ g.chan = r.chan /\ g.chanreq = r.chanreq
      /\ SameData(r, g) /\ SameWindow(r, g)
  BY <1>2, SetCloses
<1>4. t = ssh2_channel_check_close(g)
  BY DEF process_close, WithCloses, cl
<1> HIDE DEF g
<1>5. Touch(g) = g /\ g.st = "live" /\ ~g.halfopen /\ g.chanreq = <<>> /\ g.crash = "none"
  BY <1>1, <1>3, TouchProps DEF Base
<1>6. Has(g, "SENT_EOF") /\ Has(g, "RCVD_EOF") /\ Has(g, "RCVD_CLOSE")
  BY <1>2, <1>3 DEF Has
<1>7. /\ z \in Chan /\ Base(g, z)
      /\ z.closes = g.closes \cup {"SENT_EOF", "SENT_CLOSE"}
      /\ z.pending_eof = g.pending_eof /\ z.chan = g.chan
      /\ z.chanreq = g.chanreq /\ z.out = o
      /\ SameData(g, z) /\ SameWindow(g, z)
  BY <1>3, SendClose
<1>8. /\ ty \in ServerTypes /\ n \in Nat
      /\ ty # "DATA" /\ ty # "EOF" /\ ty # "OPEN" /\ ty # "OPEN_CONFIRMATION"
      /\ ty # "OPEN_FAILURE"
  BY Types
<1> HIDE DEF ty, n
<1>9. /\ \A k : ty # k => InFlight(o, k) = InFlight(g.out, k)
      /\ \A k : No(o, k) <=> No(g.out, k) /\ ty # k
      /\ No(g.out, "CLOSE") => CloseLast(o)
      /\ EofLate(g.out) /\ (ty # "DATA" \/ No(g.out, "EOF")) => EofLate(o)
  BY <1>3, <1>8, PushQueue
<1> HIDE DEF z, o
<1>10. Has(z, "SENT_CLOSE") /\ \A flag : Has(g, flag) => Has(z, flag)
  BY <1>7 DEF Has
<1>11. chan_want_close(g)
  BY <1>6 DEF chan_want_close
<1>12. x = IF chan_want_close(g) /\ g.chanreq = <<>> /\ ~Has(g, "SENT_CLOSE") THEN z ELSE g
  BY <1>5, <1>11
<1>13. (x = g /\ Has(g, "SENT_CLOSE")) \/ (x = z /\ ~Has(g, "SENT_CLOSE"))
  OBVIOUS
<1> HIDE DEF x
<1>14. Has(x, "SENT_CLOSE") /\ Has(x, "RCVD_CLOSE") /\ Has(x, "SENT_EOF")
  BY <1>6, <1>10, <1>13
<1>15. t = ssh2_channel_destroy(x)
  BY <1>4, <1>5, <1>12, <1>14 DEF ssh2_channel_check_close, z
<1>16. /\ x \in Chan /\ Base(r, x) /\ x.pending_eof = r.pending_eof /\ x.chanreq = <<>>
       /\ SameData(r, x) /\ SameWindow(r, x)
  BY <1>3, <1>5, <1>7, <1>13 DEF Base, SameData, SameWindow
<1>17. /\ CloseLast(x.out) /\ EofLate(x.out) /\ InFlight(x.out, "DATA") = InFlight(r.out, "DATA")
       /\ Plain(x.out) /\ x.outbuffer = r.outbuffer
       /\ r.outbuffer = 0 \/ No(x.out, "EOF")
  <2>1. CASE x = g
    BY <1>1, <1>3, <2>1 DEF Core, Firm, Order, SameData
  <2>2. CASE x = z /\ ~Has(g, "SENT_CLOSE")
    <3>1. No(r.out, "CLOSE")
      BY <1>1, <1>2, <1>3, <2>2 DEF Core, Firm, Order, Has
    <3> QED
      BY <1>1, <1>3, <1>7, <1>8, <1>9, <2>2, <3>1 DEF Core, Firm, Order, Plain, SameData
  <2> QED
    BY <1>13, <2>1, <2>2
<1>18. q.gotClose => x.out = <<>>
  BY <1>2, <1>3, <1>13 DEF Has
<1>19. /\ t \in Chan /\ t.kind = x.kind /\ t.crash = "none"
       /\ t.st = "freed" /\ t.halfopen = x.halfopen /\ t.closes = x.closes
       /\ t.pending_eof = x.pending_eof /\ t.chan = "zombie" /\ t.held = 0
       /\ t.chanreq = x.chanreq /\ t.out = x.out /\ SameData(x, t)
       /\ t.locmaxwin = x.locmaxwin /\ t.throttling_conn = x.throttling_conn
       /\ t.conn_throttle_count = x.conn_throttle_count
  BY <1>1, <1>15, <1>16, DestroyProps DEF Base
<1> HIDE DEF x
<1>20. Flags(t) /\ Early(t) /\ Handlers(t)
  <2>1. \A i \in 1..Len(<<>>) : FALSE
    OBVIOUS
  <2> QED
    BY <1>14, <1>16, <1>19, <2>1 DEF Flags, Early, Handlers, Has, Base
<1>21. Idle(t)
  BY <1>1, <1>16, <1>19 DEF Core, Idle
<1>22. Order(t)
  BY <1>14, <1>17, <1>19 DEF Order, Has, SameData
<1>23. Throttle(t)
  BY <1>1, <1>16, <1>19 DEF Core, Firm, Throttle, SameWindow
<1>24. Waits(t) /\ Says(t) /\ Attends(t)
  BY <1>19 DEF Waits, Says, Attends
<1>25. Credits(t, q)
  BY <1>17, <1>18, <1>19 DEF Credits
<1>26. Over(t, s, q)
  BY <1>16, <1>17, <1>19 DEF Over, Base
<1> QED
  BY <1>16, <1>19, <1>20, <1>21, <1>22, <1>23, <1>24, <1>25, <1>26
     DEF Fine, Sound, Core, Firm, Phase, Base

WithBuffer(r, n) == [r EXCEPT !.outbuffer = n]

\* Only the buffer changes.
LEMMA SetBuffer ==
  ASSUME NEW r \in Chan, NEW n \in Nat
  PROVE  /\ WithBuffer(r, n) \in Chan /\ Base(r, WithBuffer(r, n))
         /\ Closing(r, WithBuffer(r, n)) /\ WithBuffer(r, n).outbuffer = n
         /\ WithBuffer(r, n).remwindow = r.remwindow /\ SameWindow(r, WithBuffer(r, n))
         /\ WithBuffer(r, n).chanreq = r.chanreq /\ WithBuffer(r, n).out = r.out
BY DEF WithBuffer, Chan, Base, Closing, SameWindow

\* What the server no longer wants is dropped, and EOF sent.
LEMMA CutOff ==
  ASSUME NEW r \in Chan, NEW t,
         t = ssh2_channel_check_throttle(ssh2channel_write_eof([r EXCEPT !.outbuffer = 0]))
  PROVE  /\ t \in Chan /\ t.kind = r.kind /\ (r.crash # "none" => t.crash = r.crash)
         /\ Alive(r) /\ ~r.halfopen /\ ~Has(r, "SENT_EOF") =>
              /\ Alive(t) /\ ~t.halfopen /\ Has(t, "SENT_EOF")
              /\ Has(r, "RCVD_EOF") => Has(t, "RCVD_EOF")
              /\ t.chanreq = r.chanreq
              /\ Plain(r.out) => Plain(t.out)
              /\ InFlight(t.out, "DATA") <= r.remwindow + InFlight(r.out, "DATA")
<1> DEFINE n == 0
           b == WithBuffer(r, n)
           e == ssh2channel_write_eof(b)
           yes == TRUE
           d == WithPending(b, yes)
<1>1. t = ssh2_channel_check_throttle(e)
  BY DEF WithBuffer
<1>2. n \in Nat /\ n = 0 /\ yes \in BOOLEAN /\ yes = TRUE
  OBVIOUS
<1>3. e = IF Has(b, "SENT_EOF") THEN b ELSE ssh2_channel_try_eof(d)
  BY DEF ssh2channel_write_eof, WithPending
<1> HIDE DEF n, yes
<1>4. /\ b \in Chan /\ Base(r, b) /\ Closing(r, b) /\ b.outbuffer = n
      /\ b.remwindow = r.remwindow /\ SameWindow(r, b)
      /\ b.chanreq = r.chanreq /\ b.out = r.out
  BY <1>2, SetBuffer
<1> HIDE DEF b
<1>5. e \in Chan /\ e.kind = b.kind /\ (b.crash # "none" => e.crash = b.crash)
  BY <1>4, WriteEofTyped
<1> HIDE DEF e
<1>6. /\ t \in Chan /\ Does(e, t)
      /\ Alive(e) => Same(e, t) /\ t.crash = "none"
  BY <1>1, <1>5, CheckThrottle
<1>7. t \in Chan /\ t.kind = r.kind /\ (r.crash # "none" => t.crash = r.crash)
  BY <1>4, <1>5, <1>6 DEF Does, Base
<1>8. ASSUME Alive(r), ~r.halfopen, ~Has(r, "SENT_EOF")
      PROVE  /\ Alive(t) /\ ~t.halfopen /\ Has(t, "SENT_EOF")
             /\ Has(r, "RCVD_EOF") => Has(t, "RCVD_EOF")
             /\ t.chanreq = r.chanreq
             /\ Plain(r.out) => Plain(t.out)
             /\ InFlight(t.out, "DATA") <= r.remwindow + InFlight(r.out, "DATA")
  <2>1. Core(r) /\ r.crash = "none" /\ r.st = "live"
    BY <1>8 DEF Alive
  <2>2. Flags(b) /\ Early(b) /\ Throttle(b) /\ Handlers(b)
    BY <1>4, <1>8, <2>1 DEF Core, Firm, Flags, Early, Throttle, Handlers, Has, Base, Closing,
       SameWindow
  <2>3. Order(b)
    BY <1>4, <1>8, <2>1 DEF Core, Firm, Order, Has, Closing
  <2>4. /\ d \in Chan /\ Base(b, d) /\ d.pending_eof = yes /\ d.closes = b.closes
        /\ d.chan = b.chan /\ SameData(b, d) /\ SameWindow(b, d)
        /\ d.chanreq = b.chanreq /\ d.out = b.out
    BY <1>2, <1>4, SetPending
  <2>5. Firm(d)
    BY <1>2, <1>4, <2>2, <2>3, PendingKeeps DEF Firm
  <2> HIDE DEF d
  <2>6. d.outbuffer = 0 /\ ~(d.outbuffer > 0) /\ ~d.halfopen /\ d.st = "live"
        /\ d.crash = "none" /\ ~Has(d, "SENT_EOF") /\ d.pending_eof
    BY <1>2, <1>4, <1>8, <2>1, <2>4 DEF Base, SameData, Has, Closing
  <2>7. Check(d, d.pending_eof, "assert_eof") = d
    BY <2>6 DEF Check
  <2>8. ssh2_channel_try_eof(d) = ssh2_channel_check_close(SendEof(d))
    BY <2>6, <2>7 DEF ssh2_channel_try_eof, SendEof, WithEof
  <2>9. e = ssh2_channel_check_close(SendEof(d))
    BY <1>3, <1>4, <1>8, <2>8 DEF Has, Closing
  <2>10. /\ e.crash = "none" /\ Core(e) /\ Moves(d, e)
         /\ e.chanreq = d.chanreq /\ Has(e, "SENT_EOF")
    BY <2>4, <2>5, <2>6, <2>9, TryEofNow
  <2>11. Alive(e) /\ ~e.halfopen
    BY <2>6, <2>10 DEF Moves, Alive
  <2>12. Same(e, t) /\ t.crash = "none"
    BY <1>6, <2>11
  <2>13. Alive(t) /\ ~t.halfopen /\ Has(t, "SENT_EOF") /\ t.chanreq = r.chanreq /\ t.out = e.out
         /\ (Has(e, "RCVD_EOF") => Has(t, "RCVD_EOF"))
    <3>1. Core(t)
      BY <1>5, <1>6, <2>11, <2>12, Aside DEF Alive
    <3> QED
      BY <1>4, <2>4, <2>10, <2>11, <2>12, <3>1 DEF Alive, Same, SameClosing, Has
  <2>14. Has(r, "RCVD_EOF") => Has(t, "RCVD_EOF")
    <3>1. Has(r, "RCVD_EOF") => Has(d, "RCVD_EOF")
      BY <1>4, <2>4 DEF Has, Closing
    <3> QED
      BY <2>10, <2>13, <3>1 DEF Moves
  <2>15. Plain(r.out) => Plain(t.out)
    BY <1>4, <2>4, <2>10, <2>13 DEF Moves
  <2>16. InFlight(t.out, "DATA") <= r.remwindow + InFlight(r.out, "DATA")
    <3> DEFINE ew == e.remwindow
               eo == InFlight(e.out, "DATA")
               rw == r.remwindow
               ro == InFlight(r.out, "DATA")
    <3>1. ew + eo = rw + ro
      BY <1>4, <2>4, <2>10 DEF Moves, SameData
    <3>2. ew \in Nat /\ eo \in Nat /\ rw \in Nat /\ ro \in Nat
      BY <1>5, Numbers
    <3> HIDE DEF ew, eo, rw, ro
    <3>3. eo <= rw + ro
      BY <3>1, <3>2
    <3> QED
      BY <2>13, <3>3 DEF eo, rw, ro
  <2> QED
    BY <2>13, <2>14, <2>15, <2>16
<1> QED
  BY <1>7, <1>8

\* The channel when its local end has heard of the server's EOF.
Heard(r, x, a) ==
  /\ x \in Chan /\ Alive(x) /\ ~x.halfopen /\ Attends(x)
  /\ Base(r, x) /\ x.out = r.out /\ x.chanreq = r.chanreq
  /\ SameData(r, x) /\ SameWindow(r, x)
  /\ \A flag : Has(r, flag) => Has(x, flag)
  /\ Has(x, "RCVD_EOF")
  /\ a \in Chan /\ Does(x, a) /\ Calm(x, a) /\ a.chanreq = x.chanreq

\* It hears of it now, if it has not before.
LEMMA EofHeard ==
  ASSUME NEW r \in Chan, Sound(r), Alive(r), ~r.halfopen,
         NEW a, a = IF Has(r, "RCVD_EOF") THEN r
                    ELSE chan_send_eof(WithCloses(r, r.closes \cup {"RCVD_EOF"}))
  PROVE  \E x : Heard(r, x, a)
<1> DEFINE y == WithCloses(r, r.closes \cup {"RCVD_EOF"})
<1>1. CASE Has(r, "RCVD_EOF")
  <2>1. Does(r, r) /\ Calm(r, r)
    BY DoesNothing
  <2>2. Heard(r, r, r)
    BY <1>1, <2>1 DEF Heard, Sound, Base, SameData, SameWindow
  <2> QED
    BY <1>1, <2>2
<1>2. CASE ~Has(r, "RCVD_EOF")
  <2>1. /\ y \in Chan /\ Alive(y) /\ ~y.halfopen /\ Attends(y)
        /\ Base(r, y) /\ y.out = r.out /\ y.chanreq = r.chanreq
        /\ SameData(r, y) /\ SameWindow(r, y)
        /\ \A flag : Has(r, flag) => Has(y, flag)
        /\ Has(y, "RCVD_EOF")
    BY EofNoted
  <2>2. a = chan_send_eof(y)
    BY <1>2
  <2> HIDE DEF y
  <2>3. Does(y, a) /\ Calm(y, a) /\ a.chanreq = y.chanreq
    BY <2>1, <2>2, ChanSendEof, ChanSendEofReq
  <2>4. Heard(r, y, a)
    BY <2>1, <2>3 DEF Heard, Does
  <2> QED
    BY <2>4
<1> QED
  BY <1>1, <1>2

\* The server closes the channel.
LEMMA RcvdCloseInv ==
  ASSUME IndInv, RcvdClose
  PROVE  IndInv'
<1> DEFINE t == rcvd_CLOSE(c)
           new == {t}
           ty == "CLOSE"
           a == IF Has(c, "RCVD_EOF") THEN c
                ELSE chan_send_eof(WithCloses(c, c.closes \cup {"RCVD_EOF"}))
           b == flush_chanreqs(a)
           d == IF Has(b, "SENT_EOF") THEN b
                ELSE ssh2_channel_check_throttle(
                         ssh2channel_write_eof([b EXCEPT !.outbuffer = 0]))
           S == Tail(s2c)
<1>1. ClientRcvd(ty, Channel(FALSE, new)) /\ ty \notin {"OPEN", "OPEN_CONFIRMATION", "OPEN_FAILURE"}
  BY DEF RcvdClose
<1>2. ty = "CLOSE"
  OBVIOUS
<1>3. t = process_close(d)
  BY DEF rcvd_CLOSE, WithCloses
<1> HIDE DEF ty, t
<1>4. /\ Sound(c) /\ c \in Chan /\ Alive(c) /\ ~c.halfopen /\ Credits(c, p) /\ p \in Peer
      /\ s2c \in Seq(Message) /\ s2c # <<>> /\ Head(s2c).type = ty
      /\ S \in Seq(Message) /\ Talking(c, s2c, p)
      /\ Fine(c, t, S, p) => IndInv'
  BY <1>1, OpenMessage
<1>5. p.sentClose /\ S = <<>>
  BY <1>2, <1>4, HeadOut DEF Talking
<1>6. PICK x : Heard(c, x, a)
  BY <1>4, EofHeard
<1>7. /\ x \in Chan /\ Alive(x) /\ ~x.halfopen /\ Attends(x)
      /\ Base(c, x) /\ x.out = c.out /\ x.chanreq = c.chanreq
      /\ SameData(c, x) /\ SameWindow(c, x)
      /\ \A flag : Has(c, flag) => Has(x, flag)
      /\ Has(x, "RCVD_EOF")
      /\ a \in Chan /\ Does(x, a) /\ Calm(x, a) /\ a.chanreq = x.chanreq
  BY <1>6 DEF Heard
<1> HIDE DEF a
<1>8. Talking(x, S, p)
  BY <1>2, <1>4, <1>7, TalkingNext DEF S, Base, SameData, SameWindow
<1> HIDE DEF S
<1>9. p.gotClose => x.out = <<>>
  BY <1>4, <1>7 DEF Credits
<1>10. a.kind = c.kind
  BY <1>7 DEF Does, Base
<1>11. Alive(a) \/ a.crash # "none"
  BY <1>7 DEF Alive, Does, Moves
<1>12. a.kind # "session" => \A i \in 1..Len(a.chanreq) : a.chanreq[i] > 0
  BY <1>7, <1>10 DEF Alive, Core, Firm, Handlers, Base
<1>13. Alive(a) /\ a.kind = "session" => a.chan = "live"
  BY <1>7, <1>10 DEF Calm, Loyal, Attends, Alive, Base
<1>14. PICK e \in Chan : /\ Does(a, e) /\ Calm(a, e)
                         /\ flush_chanreqs(a) = WithReq(e, <<>>)
                         /\ Alive(a) /\ e.crash = "none" => e.throttle_state # "UNTHROTTLING"
  BY <1>7, <1>11, <1>12, <1>13, FlushProps
<1> DEFINE none == <<>>
<1>15. b = WithReq(e, none) /\ none \in Seq(Nat) /\ none = <<>> /\ Len(none) = 0
  BY <1>14
<1> HIDE DEF b, none
<1>16. /\ b \in Chan /\ b.chanreq = none
       /\ Base(e, b) /\ Closing(e, b) /\ SameData(e, b) /\ SameWindow(e, b) /\ b.out = e.out
  BY <1>15, SetReq
<1>17. Does(x, e) /\ Calm(x, e)
  BY <1>7, <1>14, DoesTrans, CalmTrans
<1>18. e.kind = c.kind /\ (e.crash = "none" \/ e.crash \in Allowed(c.kind))
  BY <1>7, <1>17 DEF Does, Base
<1>c. d = b \/ d = ssh2_channel_check_throttle(
                       ssh2channel_write_eof([b EXCEPT !.outbuffer = 0]))
  OBVIOUS
<1>d. /\ Has(b, "SENT_EOF") => d = b
      /\ ~Has(b, "SENT_EOF") => d = ssh2_channel_check_throttle(
                                      ssh2channel_write_eof([b EXCEPT !.outbuffer = 0]))
  OBVIOUS
<1> HIDE DEF d
<1>19. CASE e.crash # "none"
  <2>1. d \in Chan /\ d.kind = b.kind /\ d.crash = b.crash
    BY <1>16, <1>19, <1>c, CutOff DEF Base
  <2> DEFINE cl == d.closes \cup {"RCVD_CLOSE"}
             g == WithCloses(d, cl)
  <2>2. cl \in ClosingFlags
    BY <2>1 DEF ClosingFlags, Closes, Chan
  <2>3. t = ssh2_channel_check_close(g)
    BY <1>3 DEF process_close, WithCloses
  <2> HIDE DEF cl
  <2>4. g \in Chan /\ Base(d, g)
    BY <2>1, <2>2, SetCloses
  <2> HIDE DEF g
  <2>5. Does(g, t)
    BY <2>3, <2>4, CheckClose
  <2>6. t \in Chan /\ t.kind = c.kind /\ t.crash = e.crash
    BY <1>16, <1>18, <1>19, <2>1, <2>4, <2>5 DEF Does, Base
  <2> QED
    BY <1>4, <1>18, <1>19, <2>6 DEF Fine
<1>20. CASE e.crash = "none"
  <2>1. Core(e) /\ Moves(x, e)
    BY <1>7, <1>17, <1>20 DEF Does
  <2>2. Alive(e) /\ ~e.halfopen /\ Has(e, "RCVD_EOF")
    BY <1>7, <1>20, <2>1 DEF Alive, Moves
  <2>3. e.throttle_state # "UNTHROTTLING"
    <3>1. a.crash = "none"
      BY <1>14, <1>20 DEF Does
    <3> QED
      BY <1>11, <1>14, <1>20, <3>1
  <2>4. Talking(e, S, p) /\ Credits(e, p)
    BY <1>4, <1>7, <1>8, <1>9, <2>1, TalkingOn
  <2>5. Alive(b) /\ ~b.halfopen /\ Has(b, "RCVD_EOF")
    <3>1. Flags(b) /\ Idle(b) /\ Early(b) /\ Order(b) /\ Throttle(b)
      BY <1>15, <1>16, <2>1 DEF Core, Firm, Flags, Idle, Early, Order, Throttle, Has, Base,
         Closing, SameData, SameWindow
    <3>2. Handlers(b)
      <4>1. \A i \in 1..Len(none) : FALSE
        BY <1>15
      <4> QED
        BY <1>16, <2>3, <4>1 DEF Handlers, SameWindow
    <3> QED
      BY <1>16, <2>2, <3>1, <3>2 DEF Alive, Core, Firm, Base, Closing, Has
  <2>6. /\ Plain(b.out) /\ InFlight(b.out, "DATA") <= p.rwin
        /\ p.gotClose => b.out = <<>> /\ Has(b, "SENT_CLOSE")
        /\ p.st = "open"
    BY <1>16, <2>4 DEF Talking, Credits, Closing, Has
  <2>7. b.remwindow + InFlight(b.out, "DATA") <= p.rwin
    <3> DEFINE rw == e.remwindow
               od == InFlight(e.out, "DATA")
               ad == InFlight(S, "ADJUST")
               w == p.rwin
    <3>1. rw + od + ad <= w
      BY <2>4 DEF Talking
    <3>2. rw \in Nat /\ od \in Nat /\ ad \in Nat /\ w \in Nat
      BY <1>4, <1>14, Numbers, QueueNumbers, PeerNumbers
    <3> HIDE DEF rw, od, ad, w
    <3>3. rw + od <= w
      BY <3>1, <3>2
    <3> QED
      BY <1>16, <3>3 DEF SameData, rw, od, w
  <2>8. /\ d \in Chan /\ Alive(d) /\ ~d.halfopen /\ Has(d, "SENT_EOF") /\ Has(d, "RCVD_EOF")
        /\ d.chanreq = <<>> /\ Plain(d.out) /\ InFlight(d.out, "DATA") <= p.rwin
        /\ p.gotClose => d.out = <<>> /\ Has(d, "SENT_CLOSE")
    <3>1. CASE Has(b, "SENT_EOF")
      BY <1>15, <1>16, <1>d, <2>5, <2>6, <3>1
    <3>2. CASE ~Has(b, "SENT_EOF")
      <4>1. /\ d \in Chan /\ Alive(d) /\ ~d.halfopen /\ Has(d, "SENT_EOF") /\ Has(d, "RCVD_EOF")
            /\ d.chanreq = b.chanreq /\ Plain(d.out)
            /\ InFlight(d.out, "DATA") <= b.remwindow + InFlight(b.out, "DATA")
        BY <1>16, <1>d, <2>5, <2>6, <3>2, CutOff
      <4>2. ~p.gotClose
        BY <2>5, <2>6, <3>2 DEF Alive, Core, Firm, Flags
      <4>3. InFlight(d.out, "DATA") <= p.rwin
        <5> DEFINE x1 == InFlight(d.out, "DATA")
                   y1 == b.remwindow
                   y2 == InFlight(b.out, "DATA")
                   x3 == p.rwin
        <5>0. x1 \in Nat /\ y1 \in Nat /\ y2 \in Nat /\ x3 \in Nat
          BY <1>4, <1>16, <4>1, Numbers, PeerNumbers
        <5>1. x1 <= y1 + y2 /\ y1 + y2 <= x3
          BY <2>7, <4>1
        <5> HIDE DEF x1, y1, y2, x3
        <5>2. x1 <= x3
          BY <5>0, <5>1
        <5> QED
          BY <5>2 DEF x1, x3
      <4> QED
        BY <1>15, <1>16, <4>1, <4>2, <4>3
    <3> QED
      BY <3>1, <3>2
  <2>9. Fine(d, t, S, p)
    BY <1>3, <1>4, <1>5, <2>6, <2>8, Finished
  <2>10. d.kind = c.kind
    BY <1>16, <1>18, <1>c, CutOff DEF Base
  <2> QED
    BY <1>4, <2>9, <2>10 DEF Fine
<1> QED
  BY <1>19, <1>20

-----------------------------------------------------------------------------
(* The steps of the local end.                                             *)

\* What is known when the local end of a live channel takes a step.
LEMMA LocalStep ==
  ASSUME IndInv, NEW t, Local(t), c.st = "live",
         ~Announced(c, s2c, p), Does(c, t),
         t.crash = "none" => Says(t) /\ Attends(t)
  PROVE  IndInv'
<1>1. Sound(c) /\ c \in Chan /\ Credits(c, p) /\ p \in Peer /\ s2c \in Seq(Message)
      /\ c.crash = "none" /\ Phase(c, s2c, p)
  BY DEF IndInv, Sound, Local, Running
<1>2. Alive(c)
  BY <1>1 DEF Alive, Sound
<1>3. Fine(c, t, s2c, p)
  BY <1>1, <1>2, LocalFine
<1> QED
  BY <1>3, LocalInv

\* The same, as the conditions of the steps say it.
LEMMA LocalNow ==
  ASSUME IndInv, Running, c.st = "live"
  PROVE  /\ c \in Chan /\ Alive(c) /\ Says(c) /\ Attends(c) /\ Core(c) /\ c.crash = "none"
         /\ HasSocket => ~Announced(c, s2c, p) /\ c.chan = "live" /\ c.kind # "session"
         /\ c.kind = "session" => ~Announced(c, s2c, p)
<1>1. Sound(c)
  BY DEF IndInv
<1>2. HasSocket => ~Announced(c, s2c, p) /\ c.chan = "live" /\ c.kind # "session"
  BY DEF HasSocket, Announced
<1>3. c.kind = "session" => ~Announced(c, s2c, p)
  BY DEF Announced
<1> QED
  BY <1>1, <1>2, <1>3 DEF Sound, Alive, Running

\* Data from the socket.
LEMMA LocalReceiveInv ==
  ASSUME IndInv, LocalReceive
  PROVE  IndInv'
<1>1. PICK n \in 1..(MaxOut - c.written) : Local(ssh2channel_write(c, n))
  BY DEF LocalReceive
<1> DEFINE t == ssh2channel_write(c, n)
<1>2. HasSocket /\ ~c.halfopen /\ ~c.localeof /\ c.st = "live" /\ Running
  BY <1>1 DEF LocalReceive, HasSocket, Local
<1>3. /\ c \in Chan /\ Alive(c) /\ Says(c) /\ Attends(c)
      /\ ~Announced(c, s2c, p) /\ c.chan = "live"
  BY <1>2, LocalNow
<1>4. n \in Nat
  BY <1>3, Numbers
<1>5. c.kind # "pfd" \/ ~Has(c, "SENT_EOF")
  BY <1>2, <1>3 DEF Says, Ended
<1>6. Does(c, t) /\ Calm(c, t)
  BY <1>2, <1>3, <1>4, <1>5, Write
<1>a. Local(t)
  BY <1>1
<1> HIDE DEF t
<1>7. t.crash = "none" => Says(t) /\ Attends(t)
  BY <1>3, <1>6, CalmSays DEF Calm
<1> QED
  BY <1>a, <1>2, <1>3, <1>6, <1>7, LocalStep

\* Data from the user.
LEMMA UserInputInv ==
  ASSUME IndInv, UserInput
  PROVE  IndInv'
<1> DEFINE n == 1
           t == ssh2channel_write(c, n)
<1>1. Local(t) /\ c.kind = "session" /\ c.st = "live" /\ Running /\ n \in Nat
  BY DEF UserInput, Local
<1> HIDE DEF n
<1>3. /\ c \in Chan /\ Alive(c) /\ Says(c) /\ Attends(c) /\ ~Announced(c, s2c, p)
  BY <1>1, LocalNow
<1>6. Does(c, t) /\ Calm(c, t)
  BY <1>1, <1>3, Write
<1> HIDE DEF t
<1>7. t.crash = "none" => Says(t) /\ Attends(t)
  BY <1>3, <1>6, CalmSays DEF Calm
<1> QED
  BY <1>1, <1>3, <1>6, <1>7, LocalStep

WithLocaleof(r, b) == [r EXCEPT !.localeof = b]

\* That the local end has said its last is all that changes.
LEMMA SetLocaleof ==
  ASSUME NEW r \in Chan, NEW b \in BOOLEAN
  PROVE  /\ WithLocaleof(r, b) \in Chan /\ WithLocaleof(r, b).kind = r.kind
         /\ WithLocaleof(r, b).localeof = b /\ WithLocaleof(r, b).crash = r.crash
         /\ SameClosing(r, WithLocaleof(r, b)) /\ SameData(r, WithLocaleof(r, b))
         /\ SameWindow(r, WithLocaleof(r, b))
BY DEF WithLocaleof, Chan, SameClosing, SameData, SameWindow

\* It matters to nothing else.
LEMMA LocaleofDoes ==
  ASSUME NEW r \in Chan, NEW b \in BOOLEAN
  PROVE  Does(r, WithLocaleof(r, b))
<1> DEFINE x == WithLocaleof(r, b)
<1>1. /\ x \in Chan /\ x.kind = r.kind /\ x.localeof = b /\ x.crash = r.crash
      /\ SameClosing(r, x) /\ SameData(r, x) /\ SameWindow(r, x)
  BY SetLocaleof
<1> HIDE DEF x
<1>2. Core(r) => Core(x)
  BY <1>1 DEF Core, Firm, Flags, Idle, Early, Order, Throttle, Handlers, Has, SameClosing,
     SameData, SameWindow
<1>3. Moves(r, x)
  <2>1. Len(r.chanreq) <= Len(r.chanreq)
    BY Numbers
  <2> QED
    BY <1>1, <2>1 DEF Moves, SameClosing, SameData, SameWindow, Has
<1>4. Waits(r) => Waits(x)
  BY <1>1 DEF Waits, SameClosing, SameData
<1> QED
  BY <1>1, <1>2, <1>3, <1>4 DEF Does, Alive, x

\* The socket has said its last.
LEMMA LocalEofInv ==
  ASSUME IndInv, LocalEof
  PROVE  IndInv'
<1> DEFINE b == TRUE
           y == WithLocaleof(c, b)
           t == ssh2channel_write_eof(y)
<1>1. Local(t) /\ HasSocket /\ c.st = "live" /\ Running /\ b \in BOOLEAN /\ b = TRUE
  BY DEF LocalEof, HasSocket, WithLocaleof, Local
<1> HIDE DEF b
<1>3. /\ c \in Chan /\ Alive(c) /\ Says(c) /\ Attends(c) /\ c.crash = "none"
      /\ ~Announced(c, s2c, p) /\ c.chan = "live" /\ c.kind # "session"
  BY <1>1, LocalNow
<1>4. /\ y \in Chan /\ y.kind = c.kind /\ y.localeof = b /\ y.crash = c.crash
      /\ SameClosing(c, y)
  BY <1>1, <1>3, SetLocaleof
<1>5. Does(c, y)
  BY <1>1, <1>3, LocaleofDoes
<1> HIDE DEF y
<1>6. Alive(y) /\ y.chan = "live"
  BY <1>3, <1>4, <1>5 DEF Does, Alive, SameClosing
<1>7. Does(y, t) /\ Quiet(y, t)
  BY <1>4, <1>6, WriteEof
<1> HIDE DEF t
<1>8. Does(c, t)
  BY <1>3, <1>4, <1>5, <1>7, DoesTrans
<1>9. t.crash = "none" => Says(t) /\ Attends(t)
  <2> SUFFICES ASSUME t.crash = "none" PROVE Says(t) /\ Attends(t)
    OBVIOUS
  <2>1. t.localeof = b /\ t.kind = c.kind
    BY <1>4, <1>6, <1>7, <1>8 DEF Quiet, Does
  <2> QED
    BY <1>1, <1>3, <2>1 DEF Says, Attends
<1> QED
  BY <1>1, <1>3, <1>8, <1>9, LocalStep

\* The user has.
LEMMA UserEofInv ==
  ASSUME IndInv, UserEof
  PROVE  IndInv'
<1> DEFINE b == TRUE
           x == WithEofPending(c, b)
           w == ssh2channel_write_eof(c)
           v == WithEofSent(w, b)
<1>1. (Local(x) \/ Local(v)) /\ c.kind = "session" /\ c.st = "live" /\ c.chan = "live"
      /\ Running /\ b \in BOOLEAN
  BY DEF UserEof, WithEofPending, WithEofSent, Local
<1> HIDE DEF b
<1>3. /\ c \in Chan /\ Alive(c) /\ Says(c) /\ Attends(c) /\ ~Announced(c, s2c, p)
  BY <1>1, LocalNow
<1>4. CASE Local(x)
  <2>1. x \in Chan /\ Same(c, x) /\ x.crash = c.crash
    BY <1>1, <1>3, SetLocal
  <2> HIDE DEF x
  <2>2. Does(c, x) /\ Calm(c, x)
    BY <1>3, <2>1, Aside
  <2>3. x.crash = "none" => Says(x) /\ Attends(x)
    BY <1>3, <2>2, CalmSays DEF Calm
  <2> QED
    BY <1>1, <1>3, <1>4, <2>2, <2>3, LocalStep
<1>5. CASE Local(v)
  <2>1. c.kind # "pfd" /\ w = ssh2channel_write_eof(c)
    BY <1>1
  <2> HIDE DEF w
  <2>2. Does(c, v) /\ Calm(c, v)
    BY <1>1, <1>3, <2>1, WriteEofCalm
  <2> HIDE DEF v
  <2>3. v.crash = "none" => Says(v) /\ Attends(v)
    BY <1>3, <2>2, CalmSays DEF Calm
  <2> QED
    BY <1>1, <1>3, <1>5, <2>2, <2>3, LocalStep
<1> QED
  BY <1>1, <1>4, <1>5

\* The user's window is resized.
LEMMA UserRequestInv ==
  ASSUME IndInv, UserRequest
  PROVE  IndInv'
<1> DEFINE b == FALSE
           h == 0
           t == ssh2_chanreq_init(c, b, h)
<1>1. Local(t) /\ c.kind = "session" /\ c.st = "live" /\ ~c.halfopen /\ Running
      /\ b \in BOOLEAN /\ h \in Nat
  BY DEF UserRequest, Local
<1> HIDE DEF b, h
<1>3. /\ c \in Chan /\ Alive(c) /\ Says(c) /\ Attends(c) /\ ~Announced(c, s2c, p)
  BY <1>1, LocalNow
<1>6. Does(c, t) /\ Calm(c, t)
  BY <1>1, <1>3, ChanreqInit
<1> HIDE DEF t
<1>7. t.crash = "none" => Says(t) /\ Attends(t)
  BY <1>3, <1>6, CalmSays DEF Calm
<1> QED
  BY <1>1, <1>3, <1>6, <1>7, LocalStep

\* The socket has died.
LEMMA LocalErrorInv ==
  ASSUME IndInv, LocalError
  PROVE  IndInv'
<1> DEFINE e == x11_send_init_error(c)
           x == IF c.kind = "x11" /\ c.written = 0 THEN e ELSE c
           t == ssh2channel_initiate_close(x)
<1>1. Local(t) /\ HasSocket /\ c.st = "live" /\ Running
  BY DEF LocalError, HasSocket, Local
<1>2. x = c \/ (c.kind = "x11" /\ x = e)
  OBVIOUS
<1> HIDE DEF x
<1>3. /\ c \in Chan /\ Alive(c) /\ ~Announced(c, s2c, p) /\ c.chan = "live"
      /\ c.kind # "session"
  BY <1>1, LocalNow
<1>4. Does(c, x)
  <2>1. CASE x = c
    BY <1>3, <2>1, DoesNothing
  <2>2. CASE c.kind = "x11" /\ x = e
    BY <1>3, <2>2, X11InitError
  <2> QED
    BY <1>2, <2>1, <2>2
<1> HIDE DEF e
<1>5. x \in Chan
  BY <1>4 DEF Does
<1>6. Does(x, t) /\ (Alive(x) => t.crash = "none" /\ t.chan = "zombie")
  BY <1>5, InitiateClose
<1> HIDE DEF t
<1>7. Does(c, t)
  BY <1>3, <1>4, <1>5, <1>6, DoesTrans
<1>8. t.crash = "none" => Says(t) /\ Attends(t)
  <2> SUFFICES ASSUME t.crash = "none" PROVE Says(t) /\ Attends(t)
    OBVIOUS
  <2>1. x.crash = "none"
    BY <1>6 DEF Does
  <2>2. Alive(x)
    BY <1>3, <1>4, <2>1 DEF Does, Alive, Moves
  <2>3. t.chan = "zombie" /\ t.kind # "session"
    BY <1>3, <1>6, <1>7, <2>2 DEF Does
  <2> QED
    BY <2>3 DEF Says, Attends
<1> QED
  BY <1>1, <1>3, <1>7, <1>8, LocalStep

\* The socket takes some of the backlog.
LEMMA LocalSentInv ==
  ASSUME IndInv, LocalSent
  PROVE  IndInv'
<1>1. PICK b \in 0..(c.held - 1) :
         Local(ssh2channel_unthrottle([c EXCEPT !.held = b], b))
  BY DEF LocalSent
<1> DEFINE m == c.locmaxwin
           y == WithHeld(c, b, m)
           t == ssh2channel_unthrottle(y, b)
<1>2. c.st = "live" /\ c.chan = "live" /\ Running
  BY <1>1 DEF LocalSent, Local
<1>3. c \in Chan /\ Alive(c) /\ Says(c) /\ Attends(c) /\ Core(c)
  BY <1>2, LocalNow
<1>4. m \in Nat /\ b \in Nat /\ m >= m /\ c.held \in Nat /\ b < c.held
  <2>1. c.held \in Nat /\ m \in Nat
    BY <1>3, Numbers
  <2> QED
    BY <2>1
<1>5. c.held # 0
  BY <1>4
<1>6. ~c.halfopen /\ ~Announced(c, s2c, p)
  BY <1>3, <1>5 DEF Core, Firm, Early, Announced
<1>7. [c EXCEPT !.held = b] = y
  BY <1>3 DEF WithHeld, Chan
<1>8. Local(t)
  BY <1>1, <1>7
<1>m. m = c.locmaxwin
  OBVIOUS
<1> HIDE DEF m
<1>9. c.kind # "x11" /\ ~ssh_is_simple => b + c.locwindow <= m
  <2> SUFFICES ASSUME c.kind # "x11", ~ssh_is_simple PROVE b + c.locwindow <= m
    OBVIOUS
  <2> DEFINE h == c.held
             l == c.locwindow
  <2>1. h + l <= m
    BY <1>2, <1>3, <1>m DEF Core, Firm, Throttle
  <2>2. h \in Nat /\ l \in Nat /\ b < h
    BY <1>3, <1>4, Numbers
  <2> HIDE DEF h, l
  <2>3. b + l <= m
    BY <1>4, <2>1, <2>2
  <2> QED
    BY <2>3 DEF l
<1>10. m >= c.locmaxwin
  BY <1>4, <1>m
<1>11. Does(c, y) /\ Calm(c, y)
  BY <1>2, <1>3, <1>4, <1>6, <1>9, <1>10, HeldDoes
<1>12. y \in Chan /\ Base(c, y) /\ y.held = b
  BY <1>3, <1>4, SetHeld
<1> HIDE DEF y
<1>13. ~y.halfopen
  BY <1>6, <1>12 DEF Base
<1>14. Does(y, t) /\ Calm(y, t)
  BY <1>12, <1>13, Unthrottle
<1> HIDE DEF t
<1>15. Does(c, t) /\ Calm(c, t)
  BY <1>3, <1>11, <1>12, <1>14, DoesTrans, CalmTrans
<1>16. t.crash = "none" => Says(t) /\ Attends(t)
  BY <1>3, <1>15, CalmSays DEF Calm
<1> QED
  BY <1>2, <1>6, <1>8, <1>15, <1>16, LocalStep

WithAll(r, b) == [r EXCEPT !.all_channels_throttled = b]

\* That the SSH socket is backed up is all that changes.
LEMMA SetAll ==
  ASSUME NEW r \in Chan, NEW b \in BOOLEAN
  PROVE  /\ WithAll(r, b) \in Chan /\ Same(r, WithAll(r, b))
         /\ WithAll(r, b).crash = r.crash /\ WithAll(r, b).xauth = r.xauth
BY DEF WithAll, Chan, Same, SameClosing, SameData, SameWindow, SameLocal

\* The SSH socket is backed up, or no longer is.
LEMMA ThrottleAllInv ==
  ASSUME IndInv, ThrottleAll
  PROVE  IndInv'
<1> DEFINE b == ~c.all_channels_throttled
           y == WithAll(c, b)
           t == ssh2_channel_check_throttle(y)
<1>1. Local(t) /\ c.st = "live" /\ Running
  BY DEF ThrottleAll, Local, WithAll
<1>2. /\ c \in Chan /\ Alive(c) /\ Says(c) /\ Attends(c) /\ Core(c)
      /\ c.crash = "none"
  BY <1>1, LocalNow
<1>3. b \in BOOLEAN
  BY <1>2 DEF Chan
<1> HIDE DEF b
<1>4. y \in Chan /\ Same(c, y) /\ y.crash = c.crash /\ y.xauth = c.xauth
  BY <1>2, <1>3, SetAll
<1> HIDE DEF y
<1>5. Does(c, y) /\ Calm(c, y)
  BY <1>2, <1>4, Aside
<1>6. Alive(y)
  BY <1>2, <1>4, Aside DEF Alive, Same, SameClosing
<1>7. /\ t \in Chan /\ Same(y, t) /\ t.xauth = y.xauth /\ t.crash = "none"
      /\ Does(y, t) /\ Calm(y, t)
  BY <1>4, <1>6, CheckThrottle
<1> HIDE DEF t
<1>8. Does(c, t) /\ Calm(c, t)
  BY <1>2, <1>4, <1>5, <1>7, DoesTrans, CalmTrans
<1>9. Says(t) /\ Attends(t)
  BY <1>2, <1>7, <1>8, CalmSays DEF Calm
<1>10. CASE ~Announced(c, s2c, p)
  BY <1>1, <1>8, <1>9, <1>10, LocalStep
<1>11. CASE Announced(c, s2c, p)
  <2>1. Core(t) /\ (Waits(c) => Waits(t)) /\ t.kind = c.kind
    BY <1>2, <1>7, <1>8 DEF Does
  <2>2. t.xauth = c.xauth /\ Same(c, t)
    BY <1>4, <1>7 DEF Same, SameClosing, SameData, SameWindow, SameLocal
  <2>3. Announced(t, s2c, p)
    BY <1>11, <2>2 DEF Announced, Same, SameClosing, SameData, SameWindow, SameLocal
  <2>4. Credits(t, p) /\ Waits(t)
    BY <2>1, <2>2 DEF IndInv, Sound, Credits, Same, SameClosing
  <2>5. Fine(c, t, s2c, p)
    BY <1>7, <1>9, <2>1, <2>3, <2>4 DEF Fine, Sound, Phase
  <2> QED
    BY <1>1, <2>5, LocalInv
<1> QED
  BY <1>10, <1>11

-----------------------------------------------------------------------------
(* What the server takes.                                                  *)

\* The phase in which a message of the type may be the next for the server.
LEMMA OutPhase ==
  ASSUME NEW r \in Chan, NEW s, NEW q, r.out # <<>>, Phase(r, s, q)
  PROVE  /\ Head(r.out).type = "OPEN" =>
               Asked(r, s, q) /\ Head(r.out) = Msg("OPEN", r.locwindow) /\ Tail(r.out) = <<>>
         /\ Head(r.out).type = "OPEN_CONFIRMATION" =>
               /\ Announced(r, s, q) /\ Tail(r.out) = <<>>
               /\ Head(r.out) = Msg("OPEN_CONFIRMATION", r.locwindow)
         /\ Head(r.out).type \notin {"OPEN", "OPEN_CONFIRMATION"} =>
               Talking(r, s, q) \/ Over(r, s, q)
<1>1. ~Refused(r, s, q) /\ ~Answered(r, s, q)
  BY DEF Refused, Answered
<1>2. ~Unopened(r, s, q)
  <2> SUFFICES ASSUME Unopened(r, s, q) PROVE FALSE
    OBVIOUS
  <2>1. r.kind \in Kinds
    BY DEF Chan
  <2>2. r = Blank(r.kind)
    BY DEF Unopened
  <2> QED
    BY <2>1, <2>2, BlankProps
<1>3. CASE Asked(r, s, q)
  <2>1. r.out = <<Msg("OPEN", r.locwindow)>>
    BY <1>3 DEF Asked
  <2>2. Head(r.out) = Msg("OPEN", r.locwindow) /\ Tail(r.out) = <<>>
    BY <2>1
  <2>3. Head(r.out).type = "OPEN"
    BY <2>2 DEF Msg
  <2> QED
    BY <1>3, <2>2, <2>3
<1>4. CASE Announced(r, s, q)
  <2>1. r.out = <<Msg("OPEN_CONFIRMATION", r.locwindow)>>
    BY <1>4 DEF Announced
  <2>2. Head(r.out) = Msg("OPEN_CONFIRMATION", r.locwindow) /\ Tail(r.out) = <<>>
    BY <2>1
  <2>3. Head(r.out).type = "OPEN_CONFIRMATION"
    BY <2>2 DEF Msg
  <2> QED
    BY <1>4, <2>2, <2>3
<1>5. CASE Talking(r, s, q) \/ Over(r, s, q)
  <2>1. Plain(r.out) /\ r.out \in Seq(Message)
    BY <1>5, Numbers DEF Talking, Over
  <2>2. Head(r.out).type \notin {"OPEN", "OPEN_CONFIRMATION"}
    BY <2>1, TailQueue DEF Plain
  <2> QED
    BY <1>5, <2>2
<1> QED
  BY <1>1, <1>2, <1>3, <1>4, <1>5 DEF Phase

\* y is r with the message m, the first, taken out of its queue.
Shorter(r, y, m) ==
  /\ y \in Chan /\ y.out = Tail(r.out) /\ Base(r, y) /\ Closing(r, y)
  /\ SameData(r, y) /\ SameWindow(r, y) /\ y.chanreq = r.chanreq
  /\ m \in Message /\ m.n \in Nat
  /\ \A type : InFlight(r.out, type) =
        (IF m.type = type THEN m.n ELSE 0) + InFlight(y.out, type)
  /\ \A type : No(r.out, type) <=> m.type # type /\ No(y.out, type)
  /\ Plain(r.out) => Plain(y.out)
  /\ CloseLast(r.out) /\ m.type = "CLOSE" => y.out = <<>>
  /\ EofLate(r.out) /\ m.type = "EOF" => No(y.out, "DATA")

\* The messages on their way without the first.
LEMMA TailOut ==
  ASSUME NEW r \in Chan, r.out # <<>>, NEW y, y = WithOut(r, Tail(r.out))
  PROVE  Shorter(r, y, Head(r.out)) /\ (Sound(r) => Sound(y))
<1> DEFINE q == r.out
           v == Tail(q)
<1>1. q \in Seq(Message)
  BY Numbers
<1>2. /\ v \in Seq(Message) /\ Head(q) \in Message
      /\ \A type : No(q, type) <=> Head(q).type # type /\ No(v, type)
      /\ CloseLast(q) => CloseLast(v) /\ (Head(q).type = "CLOSE" => v = <<>>)
      /\ EofLate(q) => EofLate(v) /\ (Head(q).type = "EOF" => No(v, "DATA"))
  BY <1>1, TailQueue
<1>3. \A type : InFlight(q, type) =
         (IF Head(q).type = type THEN Head(q).n ELSE 0) + InFlight(v, type)
  BY <1>1, FlightProps
<1>4. Head(q).n \in Nat
  BY <1>2 DEF Message
<1> HIDE DEF v
<1>5. /\ y \in Chan /\ y.out = v /\ Base(r, y) /\ Closing(r, y)
      /\ SameData(r, y) /\ SameWindow(r, y) /\ y.chanreq = r.chanreq
  BY <1>2, SetOut DEF v
<1>6. Plain(q) => Plain(v)
  BY <1>2 DEF Plain
<1>7. ASSUME Sound(r) PROVE Sound(y)
  <2>1. Core(r) /\ Waits(r) /\ Says(r) /\ Attends(r)
    BY <1>7 DEF Sound
  <2>2. Flags(y) /\ Idle(y) /\ Early(y) /\ Throttle(y) /\ Handlers(y)
    BY <1>5, <2>1 DEF Core, Firm, Flags, Idle, Early, Throttle, Handlers, Has, Base, Closing,
       SameData, SameWindow
  <2>3. Order(y)
    BY <1>2, <1>5, <2>1 DEF Core, Firm, Order, Has, Closing, SameData
  <2>4. Waits(y) /\ Says(y) /\ Attends(y)
    BY <1>5, <2>1 DEF Waits, Says, Attends, Ended, Has, Base, Closing, SameData
  <2> QED
    BY <1>5, <2>2, <2>3, <2>4 DEF Sound, Core, Firm
<1> QED
  BY <1>2, <1>3, <1>4, <1>5, <1>6, <1>7 DEF v, Shorter

\* What the server has sent, when it has taken one message.
LEMMA AnswerQueue ==
  ASSUME NEW s \in Seq(Message), NEW v, NEW q, NEW z, Streams(s, q), Plain(s),
         NEW m \in Message, m.type \in {"REPLY", "CLOSE"}, q.sentClose => z.sentClose,
         v = s \/ (v = Append(s, m) /\ ~q.sentClose /\ (m.type = "CLOSE" => z.sentClose))
  PROVE  /\ v \in Seq(Message) /\ Len(s) <= Len(v) /\ Streams(v, z) /\ Plain(v)
         /\ InFlight(v, "DATA") = InFlight(s, "DATA")
         /\ InFlight(v, "ADJUST") = InFlight(s, "ADJUST")
         /\ q.sentClose => v = s
<1>0. Len(s) \in Nat
  OBVIOUS
<1>1. CASE v = s
  BY <1>0, <1>1 DEF Streams
<1>2. CASE v = Append(s, m) /\ ~q.sentClose /\ (m.type = "CLOSE" => z.sentClose)
  <2> DEFINE a == Append(s, m)
  <2>1. /\ a \in Seq(Message)
        /\ \A type : No(a, type) <=> No(s, type) /\ m.type # type
        /\ No(s, "CLOSE") => CloseLast(a)
    BY AppendQueue
  <2>2. \A type : InFlight(a, type) = InFlight(s, type) + (IF m.type = type THEN m.n ELSE 0)
    BY FlightProps
  <2>3. Len(a) = Len(s) + 1
    OBVIOUS
  <2> HIDE DEF a
  <2>4. InFlight(s, "DATA") \in Nat /\ InFlight(s, "ADJUST") \in Nat
    BY QueueNumbers
  <2>5. /\ InFlight(a, "DATA") = InFlight(s, "DATA") + 0
        /\ InFlight(a, "ADJUST") = InFlight(s, "ADJUST") + 0
    BY <2>2
  <2>6. Streams(a, z) /\ Plain(a)
    BY <1>2, <2>1 DEF Streams, Plain
  <2> QED
    BY <1>0, <1>2, <2>1, <2>3, <2>4, <2>5, <2>6 DEF a
<1> QED
  BY <1>1, <1>2

\* The server's account of a message.
Accounts(q, z, m) ==
  /\ z \in Peer /\ z.st = q.st /\ (q.sentClose => z.sentClose)
  /\ z.win = q.win + (IF m.type = "ADJUST" THEN m.n ELSE 0)
  /\ z.rwin + (IF m.type = "DATA" THEN m.n ELSE 0) = q.rwin
  /\ z.got = q.got + (IF m.type = "DATA" THEN m.n ELSE 0)
  /\ z.gotEof => q.gotEof \/ m.type = "EOF"
  /\ z.gotClose => q.gotClose \/ m.type = "CLOSE"

\* The accounts balance when the server has taken a message.
LEMMA TalkingOut ==
  ASSUME NEW r \in Chan, Order(r), NEW y, NEW m, Shorter(r, y, m),
         NEW s \in Seq(Message), NEW q \in Peer, Talking(r, s, q),
         NEW z, Accounts(q, z, m),
         NEW v \in Seq(Message), Streams(v, z), Plain(v),
         InFlight(v, "DATA") = InFlight(s, "DATA"),
         InFlight(v, "ADJUST") = InFlight(s, "ADJUST"),
         Due(y, v, z) <= Len(r.chanreq)
  PROVE  Talking(y, v, z)
<1> DEFINE dn == IF m.type = "DATA" THEN m.n ELSE 0
           an == IF m.type = "ADJUST" THEN m.n ELSE 0
           od == InFlight(r.out, "DATA")
           yd == InFlight(y.out, "DATA")
           oa == InFlight(r.out, "ADJUST")
           ya == InFlight(y.out, "ADJUST")
           sd == InFlight(s, "DATA")
           sa == InFlight(s, "ADJUST")
           rl == r.locwindow
           rw == r.remwindow
           ob == r.outbuffer
           wr == r.written
           qw == q.win
           zw == z.win
           qr == q.rwin
           zr == z.rwin
           qg == q.got
           zg == z.got
           ended == Has(r, "SENT_EOF")
<1>1. /\ y \in Chan /\ y.out = Tail(r.out) /\ Base(r, y) /\ Closing(r, y)
      /\ SameData(r, y) /\ SameWindow(r, y) /\ y.chanreq = r.chanreq
      /\ m \in Message /\ m.n \in Nat
      /\ \A type : InFlight(r.out, type) =
            (IF m.type = type THEN m.n ELSE 0) + InFlight(y.out, type)
      /\ \A type : No(r.out, type) <=> m.type # type /\ No(y.out, type)
      /\ Plain(r.out) => Plain(y.out)
      /\ CloseLast(r.out) /\ m.type = "CLOSE" => y.out = <<>>
      /\ EofLate(r.out) /\ m.type = "EOF" => No(y.out, "DATA")
  BY DEF Shorter
<1>2. /\ r.st = "live" /\ ~r.halfopen /\ Plain(r.out) /\ q.st = "open"
      /\ q.gotEof => Has(r, "SENT_EOF") /\ r.outbuffer = 0 /\ No(r.out, "DATA")
      /\ q.gotClose => Has(r, "SENT_CLOSE")
  BY DEF Talking
<1>3. /\ z \in Peer /\ z.st = q.st
      /\ z.gotEof => q.gotEof \/ m.type = "EOF"
      /\ z.gotClose => q.gotClose \/ m.type = "CLOSE"
  BY DEF Accounts
<1>4. z.gotEof => Has(y, "SENT_EOF") /\ y.outbuffer = 0 /\ No(y.out, "DATA")
  <2>1. CASE q.gotEof
    BY <1>1, <1>2, <2>1 DEF Has, Closing, SameData
  <2>2. CASE m.type = "EOF"
    BY <1>1, <2>2 DEF Order, Has, Closing, SameData
  <2> QED
    BY <1>3, <2>1, <2>2
<1>5. z.gotClose => Has(y, "SENT_CLOSE")
  <2>1. CASE q.gotClose
    BY <1>1, <1>2, <2>1 DEF Has, Closing
  <2>2. CASE m.type = "CLOSE"
    BY <1>1, <2>2 DEF Order, Has, Closing
  <2> QED
    BY <1>3, <2>1, <2>2
<1>6. /\ dn \in Nat /\ an \in Nat /\ od \in Nat /\ yd \in Nat /\ oa \in Nat /\ ya \in Nat
      /\ sd \in Nat /\ sa \in Nat /\ rl \in Nat /\ rw \in Nat /\ ob \in Nat /\ wr \in Nat
  BY <1>1, Numbers, QueueNumbers
<1>7. /\ qw \in Nat /\ zw \in Nat /\ qr \in Nat /\ zr \in Nat /\ qg \in Nat /\ zg \in Nat
  BY <1>3, PeerNumbers
<1>8. od = dn + yd /\ oa = an + ya /\ zw = qw + an /\ zr + dn = qr /\ zg = qg + dn
  BY <1>1 DEF Accounts
<1>9. /\ qw + sd + oa = rl /\ rw + od + sa <= qr /\ (ended \/ rw + od + sa = qr)
      /\ qg + od + ob = wr
  BY DEF Talking
<1> HIDE DEF dn, an, od, yd, oa, ya, sd, sa, rl, rw, ob, wr, qw, zw, qr, zr, qg, zg, ended
<1>10. zw + sd + ya = rl
  <2>1. oa = an + ya /\ zw = qw + an /\ qw + sd + oa = rl
    BY <1>8, <1>9
  <2> QED
    BY <1>6, <1>7, <2>1
<1>11. rw + yd + sa <= zr
  BY <1>6, <1>7, <1>8, <1>9
<1>12. ended \/ rw + yd + sa = zr
  <2>1. rw + od + sa = qr => rw + yd + sa = zr
    BY <1>6, <1>7, <1>8
  <2> QED
    BY <1>9, <2>1
<1>13. zg + yd + ob = wr
  BY <1>6, <1>7, <1>8, <1>9
<1>14. /\ y.remwindow = rw /\ y.locwindow = rl /\ y.outbuffer = ob /\ y.written = wr
       /\ y.st = "live" /\ ~y.halfopen /\ (ended => Has(y, "SENT_EOF"))
  BY <1>1, <1>2 DEF Base, Closing, SameData, SameWindow, Has, rw, rl, ob, wr, ended
<1>15. /\ z.win + InFlight(v, "DATA") + InFlight(y.out, "ADJUST") = y.locwindow
       /\ y.remwindow + InFlight(y.out, "DATA") + InFlight(v, "ADJUST") <= z.rwin
       /\ Has(y, "SENT_EOF") \/
             y.remwindow + InFlight(y.out, "DATA") + InFlight(v, "ADJUST") = z.rwin
       /\ z.got + InFlight(y.out, "DATA") + y.outbuffer = y.written
  BY <1>10, <1>11, <1>12, <1>13, <1>14 DEF zw, sd, ya, yd, sa, zr, zg
<1> QED
  BY <1>1, <1>2, <1>3, <1>4, <1>5, <1>14, <1>15 DEF Talking

\* Nor do the data on their way exceed the server's window.
LEMMA CreditsOut ==
  ASSUME NEW r \in Chan, r.out # <<>>, Order(r), NEW y, NEW m, Shorter(r, y, m),
         NEW q \in Peer, Credits(r, q), NEW z, Accounts(q, z, m)
  PROVE  Credits(y, z)
<1> DEFINE dn == IF m.type = "DATA" THEN m.n ELSE 0
           od == InFlight(r.out, "DATA")
           yd == InFlight(y.out, "DATA")
           qr == q.rwin
           zr == z.rwin
<1>1. /\ y \in Chan /\ m.n \in Nat
      /\ \A type : InFlight(r.out, type) =
            (IF m.type = type THEN m.n ELSE 0) + InFlight(y.out, type)
      /\ CloseLast(r.out) /\ m.type = "CLOSE" => y.out = <<>>
  BY DEF Shorter
<1>2. od = dn + yd /\ zr + dn = qr /\ od <= qr
  BY <1>1 DEF Accounts, Credits
<1>3. dn \in Nat /\ od \in Nat /\ yd \in Nat /\ qr \in Nat /\ zr \in Nat
  BY <1>1, Numbers, PeerNumbers DEF Accounts
<1> HIDE DEF dn, od, yd, qr, zr
<1>4. yd <= zr
  BY <1>2, <1>3
<1>5. z.gotClose => y.out = <<>>
  BY <1>1 DEF Accounts, Credits, Order
<1> QED
  BY <1>4, <1>5 DEF Credits, yd, zr

\* A message that the server has taken.
LEMMA ServerTook ==
  ASSUME IndInv, Running, c.out # <<>>, NEW y, y = WithOut(c, Tail(c.out)), c' = y,
         Head(c.out).type \notin {"OPEN", "OPEN_CONFIRMATION"},
         Accounts(p, p', Head(c.out)), decoded' = decoded,
         NEW m \in Message, m.type \in {"REPLY", "CLOSE"},
         \/ s2c' = s2c
         \/ s2c' = Append(s2c, m) /\ ~p.sentClose /\ (m.type = "CLOSE" => p'.sentClose),
         Talking(c, s2c, p) => Due(y, s2c', p') <= Len(c.chanreq)
  PROVE  IndInv'
<1> DEFINE z == p'
           v == s2c'
<1>1. Sound(c) /\ c \in Chan /\ Credits(c, p) /\ p \in Peer /\ s2c \in Seq(Message)
      /\ c.crash = "none" /\ Phase(c, s2c, p) /\ decoded \in 0..Len(s2c) /\ Order(c)
  BY DEF IndInv, Sound, Core, Firm, Running
<1>2. Talking(c, s2c, p) \/ Over(c, s2c, p)
  BY <1>1, OutPhase
<1>3. z \in Peer /\ z.st = p.st /\ (p.sentClose => z.sentClose)
  BY DEF Accounts
<1>4. /\ y \in Chan /\ Base(c, y) /\ Sound(y) /\ (Plain(c.out) => Plain(y.out))
  BY <1>1, TailOut DEF Shorter
<1>c. Shorter(c, y, Head(c.out))
  BY <1>1, TailOut
<1>5. Credits(y, z)
  BY <1>1, <1>c, CreditsOut
<1>6. v = s2c \/ (v = Append(s2c, m) /\ ~p.sentClose /\ (m.type = "CLOSE" => z.sentClose))
  OBVIOUS
<1>a. Accounts(p, z, Head(c.out)) /\ (Talking(c, s2c, p) => Due(y, v, z) <= Len(c.chanreq))
  OBVIOUS
<1>b. z = p' /\ v = s2c'
  OBVIOUS
<1> HIDE DEF z, v
<1>7. v \in Seq(Message) /\ Len(s2c) <= Len(v) /\ Phase(y, v, z)
  <2>1. CASE Talking(c, s2c, p)
    <3>1. /\ v \in Seq(Message) /\ Len(s2c) <= Len(v) /\ Streams(v, z) /\ Plain(v)
          /\ InFlight(v, "DATA") = InFlight(s2c, "DATA")
          /\ InFlight(v, "ADJUST") = InFlight(s2c, "ADJUST")
      BY <1>1, <1>3, <1>6, <2>1, AnswerQueue DEF Talking
    <3>2. Talking(y, v, z)
      BY <1>1, <1>a, <1>c, <2>1, <3>1, TalkingOut
    <3> QED
      BY <3>1, <3>2 DEF Phase
  <2>2. CASE Over(c, s2c, p)
    <3>1. v = s2c
      BY <1>6, <2>2 DEF Over
    <3>2. Over(y, v, z)
      BY <1>3, <1>4, <2>2, <3>1 DEF Over, Base
    <3>3. Len(s2c) <= Len(v)
      BY <3>1, <1>1
    <3> QED
      BY <1>1, <3>1, <3>2, <3>3 DEF Phase
  <2> QED
    BY <1>2, <2>1, <2>2
<1>8. decoded \in 0..Len(v)
  <2>1. Len(v) \in Nat /\ Len(s2c) \in Nat
    BY <1>1, <1>7
  <2> QED
    BY <1>1, <1>7, <2>1
<1>9. y.crash = "none" /\ y.kind = c.kind
  BY <1>1, <1>4 DEF Base
<1>10. ClosesCleanly'
  BY <1>9 DEF ClosesCleanly
<1> QED
  BY <1>3, <1>4, <1>5, <1>7, <1>8, <1>9, <1>10, <1>b DEF IndInv, Running

\* No more replies are due than there are handlers for.
LEMMA DueOut ==
  ASSUME NEW r \in Chan, NEW y, NEW m, Shorter(r, y, m),
         NEW s \in Seq(Message), NEW q, NEW z, q.sentClose => z.sentClose,
         Due(r, s, q) <= Len(r.chanreq), NEW a \in Message, NEW v,
         \/ v = s
         \/ /\ v = Append(s, a)
            /\ a.type = "REPLY" => ~q.sentClose /\ m.type = "REQUEST" /\ m.n = 1
  PROVE  Due(y, v, z) <= Len(r.chanreq)
<1> DEFINE k == IF m.type = "REQUEST" THEN m.n ELSE 0
           rr == InFlight(r.out, "REQUEST")
           yr == InFlight(y.out, "REQUEST")
           sr == Count(s, "REPLY")
           vr == Count(v, "REPLY")
           rq == Len(r.chanreq)
           qc == q.sentClose
           zc == z.sentClose
           more == v = Append(s, a) /\ a.type = "REPLY"
<1>1. rr = k + yr /\ k \in Nat /\ y \in Chan
  BY DEF Shorter
<1>2. rr \in Nat /\ yr \in Nat /\ sr \in Nat /\ rq \in Nat
  BY <1>1, Numbers, QueueNumbers
<1>3. sr + (IF qc THEN 0 ELSE rr) <= rq
  BY DEF Due
<1>4. IF more THEN vr = sr + 1 ELSE vr = sr
  <2>1. Count(Append(s, a), "REPLY") = sr + (IF a.type = "REPLY" THEN 1 ELSE 0)
    BY CountProps
  <2> HIDE DEF sr
  <2>2. CASE v = s
    BY <1>2, <2>1, <2>2 DEF sr
  <2>3. CASE v # s /\ v = Append(s, a)
    BY <1>2, <2>1, <2>3
  <2> QED
    BY <2>2, <2>3
<1>5. more => ~qc /\ k = 1
  OBVIOUS
<1>6. qc => zc
  OBVIOUS
<1> HIDE DEF k, rr, yr, sr, vr, rq, qc, zc, more
<1>7. vr + (IF zc THEN 0 ELSE yr) <= rq
  BY <1>1, <1>2, <1>3, <1>4, <1>5, <1>6
<1> QED
  BY <1>7 DEF vr, zc, yr, rq, Due

\* The server takes a message, and answers with another one or none.
LEMMA ServerRcvdInv ==
  ASSUME IndInv, NEW type, NEW q, NEW msgs, ServerRcvd(type, q, msgs),
         type \notin {"OPEN", "OPEN_CONFIRMATION"}, Accounts(p, q, Head(c.out)),
         NEW m \in Message, m.type \in {"REPLY", "CLOSE"},
         \/ msgs = <<>>
         \/ /\ msgs = <<m>> /\ ~p.sentClose
            /\ m.type = "CLOSE" => q.sentClose
            /\ m.type = "REPLY" => Head(c.out).type = "REQUEST" /\ Head(c.out).n = 1
  PROVE  IndInv'
<1> DEFINE y == WithOut(c, Tail(c.out))
           v == s2c \o msgs
<1>1. /\ c.out # <<>> /\ Head(c.out).type = type /\ c' = y /\ Running
      /\ p' = q /\ s2c' = v /\ decoded' = decoded
  BY DEF ServerRcvd, ServerSends, WithOut
<1>2. c \in Chan /\ s2c \in Seq(Message)
  BY DEF IndInv, Sound
<1> HIDE DEF y
<1>3. Shorter(c, y, Head(c.out))
  BY <1>1, <1>2, TailOut DEF y
<1>4. \/ v = s2c
      \/ /\ v = Append(s2c, m) /\ ~p.sentClose
         /\ m.type = "CLOSE" => q.sentClose
         /\ m.type = "REPLY" => Head(c.out).type = "REQUEST" /\ Head(c.out).n = 1
  <2>1. s2c \o <<>> = s2c /\ s2c \o <<m>> = Append(s2c, m)
    BY <1>2
  <2> QED
    BY <2>1
<1> HIDE DEF v
<1>5. p.sentClose => q.sentClose
  BY DEF Accounts
<1>6. Talking(c, s2c, p) => Due(y, v, q) <= Len(c.chanreq)
  <2> SUFFICES ASSUME Talking(c, s2c, p) PROVE Due(y, v, q) <= Len(c.chanreq)
    OBVIOUS
  <2>1. Due(c, s2c, p) <= Len(c.chanreq)
    BY DEF Talking
  <2> QED
    BY <1>2, <1>3, <1>4, <1>5, <2>1, DueOut
<1>7. y = WithOut(c, Tail(c.out))
  BY DEF y
<1> QED
  BY <1>1, <1>4, <1>6, <1>7, ServerTook

\* What the server knows when it takes a message.
LEMMA ServerKnows ==
  ASSUME IndInv, c.out # <<>>
  PROVE  /\ c \in Chan /\ p \in Peer /\ Head(c.out) \in Message /\ ServerArg \in Nat
         /\ ServerArg = Head(c.out).n
         /\ p.win \in Nat /\ p.rwin \in Nat /\ p.got \in Nat
         /\ Head(c.out).type = "DATA" => ServerArg <= p.rwin
<1> DEFINE y == WithOut(c, Tail(c.out))
           m == Head(c.out)
           od == InFlight(c.out, "DATA")
           yd == InFlight(y.out, "DATA")
           qr == p.rwin
           k == m.n
<1>1. c \in Chan /\ p \in Peer /\ od <= qr
  BY DEF IndInv, Sound, Credits
<1>2. qr \in Nat /\ od \in Nat /\ p.win \in Nat /\ p.got \in Nat
  BY <1>1, Numbers, QueueNumbers, PeerNumbers
<1>3. y = WithOut(c, Tail(c.out))
  OBVIOUS
<1> HIDE DEF y
<1>4. Shorter(c, y, m)
  BY <1>1, <1>3, TailOut
<1>5. m \in Message /\ k \in Nat /\ y \in Chan /\ (m.type = "DATA" => od = k + yd)
  BY <1>4 DEF Shorter
<1>6. yd \in Nat
  BY <1>5, Numbers, QueueNumbers
<1>7. ServerArg = k
  BY DEF ServerArg
<1> HIDE DEF m, od, yd, qr, k
<1>8. m.type = "DATA" => k <= qr
  BY <1>1, <1>2, <1>5, <1>6
<1> QED
  BY <1>1, <1>2, <1>5, <1>7, <1>8 DEF m, qr, k

\* The two messages that the server may answer with.
LEMMA Answers ==
  ASSUME NEW n \in 0..1
  PROVE  /\ Msg("REPLY", n) \in Message /\ Msg("REPLY", n).type = "REPLY"
         /\ Msg("CLOSE", 0) \in Message /\ Msg("CLOSE", 0).type = "CLOSE"
BY MsgProps, Types

\* The server takes data.
LEMMA ServerRcvdDataInv ==
  ASSUME IndInv, ServerRcvdData
  PROVE  IndInv'
<1> DEFINE k == ServerArg
           qr == p.rwin
           less == qr - k
           more == p.got + k
           q == [p EXCEPT !.got = more, !.rwin = less]
           m == Head(c.out)
<1>1. ServerRcvd("DATA", q, <<>>)
  BY DEF ServerRcvdData
<1>2. c.out # <<>> /\ m.type = "DATA"
  BY <1>1 DEF ServerRcvd
<1>3. p \in Peer /\ k \in Nat /\ qr \in Nat /\ k <= qr /\ m.n = k /\ p.got \in Nat
  BY <1>2, ServerKnows
<1>4. less \in Nat /\ less + k = qr /\ more \in Nat /\ more = p.got + k
  <2> HIDE DEF k, qr
  <2> QED
    BY <1>3
<1> HIDE DEF less, more
<1>5. /\ q \in Peer /\ q.st = p.st /\ q.sentClose = p.sentClose /\ q.win = p.win
      /\ q.rwin = less /\ q.got = more
      /\ q.gotEof = p.gotEof /\ q.gotClose = p.gotClose
  BY <1>3, <1>4 DEF Peer
<1>6. p.win \in Nat
  BY <1>3, PeerNumbers
<1> HIDE DEF q, k, qr, m
<1>7. Accounts(p, q, m)
  BY <1>2, <1>3, <1>4, <1>5, <1>6 DEF Accounts, qr
<1>8. Msg("REPLY", 0) \in Message /\ Msg("REPLY", 0).type \in {"REPLY", "CLOSE"}
  BY Answers
<1> QED
  BY <1>1, <1>7, <1>8, ServerRcvdInv DEF m

\* The server takes a window adjustment.
LEMMA ServerRcvdAdjustInv ==
  ASSUME IndInv, ServerRcvdAdjust
  PROVE  IndInv'
<1> DEFINE q == [p EXCEPT !.win = @ + ServerArg]
           k == ServerArg
           m == Head(c.out)
<1>1. ServerRcvd("ADJUST", q, <<>>)
  BY DEF ServerRcvdAdjust
<1>2. c.out # <<>> /\ m.type = "ADJUST"
  BY <1>1 DEF ServerRcvd
<1>3. p \in Peer /\ k \in Nat /\ m.n = k
  BY <1>2, ServerKnows
<1>4. p.win \in Nat /\ p.rwin \in Nat /\ p.got \in Nat
  BY <1>3, PeerNumbers
<1>5. /\ q \in Peer /\ q.st = p.st /\ q.sentClose = p.sentClose /\ q.win = p.win + k
      /\ q.rwin = p.rwin /\ q.got = p.got
      /\ q.gotEof = p.gotEof /\ q.gotClose = p.gotClose
  <2> HIDE DEF k
  <2> QED
    BY <1>3, <1>4 DEF Peer, k
<1> HIDE DEF q, k, m
<1>7. Accounts(p, q, m)
  BY <1>2, <1>3, <1>4, <1>5 DEF Accounts
<1>8. Msg("REPLY", 0) \in Message /\ Msg("REPLY", 0).type \in {"REPLY", "CLOSE"}
  BY Answers
<1> QED
  BY <1>1, <1>7, <1>8, ServerRcvdInv DEF m

\* A server that only takes note of a message.
LEMMA Noted ==
  ASSUME NEW q \in Peer, NEW z, z \in Peer, z.st = q.st, q.sentClose => z.sentClose,
         z.win = q.win, z.rwin = q.rwin, z.got = q.got, NEW m,
         m.type \notin {"DATA", "ADJUST"},
         z.gotEof => q.gotEof \/ m.type = "EOF",
         z.gotClose => q.gotClose \/ m.type = "CLOSE"
  PROVE  Accounts(q, z, m)
BY PeerNumbers DEF Accounts

\* The server takes a request.
LEMMA ServerRcvdRequestInv ==
  ASSUME IndInv, c.out # <<>>, ServerRcvdRequest
  PROVE  IndInv'
<1> DEFINE m == Head(c.out)
<1>1. p \in Peer /\ ServerArg = m.n
  BY ServerKnows
<1>2. ASSUME m.type = "REQUEST" PROVE Accounts(p, p, m)
  <2> HIDE DEF m
  <2> QED
    BY <1>1, <1>2, Noted
<1>3. CASE ServerArg = 1 /\ ~p.sentClose
  <2>1. PICK ok \in 0..1 : ServerRcvd("REQUEST", p, <<Msg("REPLY", ok)>>)
    BY <1>3 DEF ServerRcvdRequest
  <2> DEFINE a == Msg("REPLY", ok)
             msgs == <<a>>
  <2>2. a \in Message /\ a.type = "REPLY" /\ ServerRcvd("REQUEST", p, msgs)
    BY <2>1, Answers
  <2> HIDE DEF a
  <2>3. m.type = "REQUEST"
    BY <2>2 DEF ServerRcvd
  <2>4. msgs = <<a>>
    OBVIOUS
  <2> HIDE DEF msgs
  <2> QED
    BY <1>1, <1>2, <1>3, <2>2, <2>3, <2>4, ServerRcvdInv
<1>4. CASE ~(ServerArg = 1 /\ ~p.sentClose)
  <2>1. ServerRcvd("REQUEST", p, <<>>)
    BY <1>4 DEF ServerRcvdRequest
  <2>2. m.type = "REQUEST"
    BY <2>1 DEF ServerRcvd
  <2>3. Msg("REPLY", 0) \in Message /\ Msg("REPLY", 0).type \in {"REPLY", "CLOSE"}
    BY Answers
  <2> QED
    BY <1>2, <2>1, <2>2, <2>3, ServerRcvdInv
<1> QED
  BY <1>3, <1>4

\* The server takes a reply.
LEMMA ServerRcvdReplyInv ==
  ASSUME IndInv, ServerRcvdReply
  PROVE  IndInv'
<1> DEFINE m == Head(c.out)
<1>1. ServerRcvd("REPLY", p, <<>>) /\ c.out # <<>> /\ m.type = "REPLY"
  BY DEF ServerRcvdReply, ServerRcvd
<1>2. p \in Peer
  BY DEF IndInv
<1>3. Accounts(p, p, m)
  <2> HIDE DEF m
  <2> QED
    BY <1>1, <1>2, Noted
<1>4. Msg("REPLY", 0) \in Message /\ Msg("REPLY", 0).type \in {"REPLY", "CLOSE"}
  BY Answers
<1> QED
  BY <1>1, <1>3, <1>4, ServerRcvdInv

\* The server takes an EOF.
LEMMA ServerRcvdEofInv ==
  ASSUME IndInv, ServerRcvdEof
  PROVE  IndInv'
<1> DEFINE m == Head(c.out)
           q == [p EXCEPT !.gotEof = TRUE]
<1>1. ServerRcvd("EOF", q, <<>>) /\ c.out # <<>> /\ m.type = "EOF"
  BY DEF ServerRcvdEof, ServerRcvd
<1>2. p \in Peer
  BY DEF IndInv
<1>3. /\ q \in Peer /\ q.st = p.st /\ q.sentClose = p.sentClose /\ q.win = p.win
      /\ q.rwin = p.rwin /\ q.got = p.got /\ q.gotClose = p.gotClose
  BY <1>2 DEF Peer
<1> HIDE DEF q
<1>4. Accounts(p, q, m)
  <2> HIDE DEF m
  <2> QED
    BY <1>1, <1>2, <1>3, Noted
<1>5. Msg("REPLY", 0) \in Message /\ Msg("REPLY", 0).type \in {"REPLY", "CLOSE"}
  BY Answers
<1> QED
  BY <1>1, <1>4, <1>5, ServerRcvdInv

\* The server takes a CLOSE, and answers it with its own.
LEMMA ServerRcvdCloseInv ==
  ASSUME IndInv, ServerRcvdClose
  PROVE  IndInv'
<1> DEFINE m == Head(c.out)
           q == [p EXCEPT !.gotClose = TRUE, !.sentClose = TRUE]
           a == Msg("CLOSE", 0)
           msgs == IF p.sentClose THEN <<>> ELSE <<a>>
<1>1. ServerRcvd("CLOSE", q, msgs) /\ c.out # <<>> /\ m.type = "CLOSE"
  BY DEF ServerRcvdClose, ServerRcvd
<1>2. p \in Peer
  BY DEF IndInv
<1>3. /\ q \in Peer /\ q.st = p.st /\ q.sentClose /\ q.win = p.win
      /\ q.rwin = p.rwin /\ q.got = p.got /\ q.gotEof = p.gotEof
  BY <1>2 DEF Peer
<1>4. a \in Message /\ a.type = "CLOSE"
  BY Answers
<1> HIDE DEF q, a
<1>5. msgs = <<>> \/ (msgs = <<a>> /\ ~p.sentClose)
  OBVIOUS
<1> HIDE DEF msgs
<1>6. Accounts(p, q, m)
  <2> HIDE DEF m
  <2> QED
    BY <1>1, <1>2, <1>3, Noted
<1> QED
  BY <1>1, <1>3, <1>4, <1>5, <1>6, ServerRcvdInv

\* The server takes the message that opens the channel.
LEMMA ServerOpens ==
  ASSUME IndInv, NEW type, NEW q, NEW msgs, ServerRcvd(type, q, msgs), q \in Peer,
         Tail(c.out) = <<>>, s2c = <<>>, msgs \in Seq(Message),
         \A y \in Chan : Shorter(c, y, Head(c.out)) => Phase(y, msgs, q)
  PROVE  IndInv'
<1> DEFINE y == WithOut(c, Tail(c.out))
<1>1. /\ c.out # <<>> /\ c' = y /\ Running /\ p' = q /\ decoded' = decoded
      /\ s2c' = msgs
  BY DEF ServerRcvd, ServerSends, WithOut
<1>2. /\ Sound(c) /\ c \in Chan /\ decoded = 0 /\ c.crash = "none"
  <2>1. decoded \in 0..0
    BY DEF IndInv
  <2> QED
    BY <1>1, <2>1 DEF IndInv, Sound, Running
<1>3. y = WithOut(c, Tail(c.out))
  OBVIOUS
<1> HIDE DEF y
<1>4. Shorter(c, y, Head(c.out)) /\ Sound(y)
  BY <1>1, <1>2, <1>3, TailOut
<1>5. y \in Chan /\ y.out = <<>> /\ y.crash = "none" /\ y.kind = c.kind
  BY <1>2, <1>4 DEF Shorter, Base
<1>6. Phase(y, msgs, q)
  BY <1>4, <1>5
<1>7. Credits(y, q)
  <2>1. InFlight(<<>>, "DATA") = 0 /\ q.rwin \in Nat
    BY EmptyQueue, FlightProps, PeerNumbers
  <2> QED
    BY <1>5, <2>1 DEF Credits
<1>8. decoded \in 0..Len(msgs)
  <2>1. Len(msgs) \in Nat
    OBVIOUS
  <2> QED
    BY <1>2, <2>1
<1>9. ClosesCleanly'
  BY <1>1, <1>5 DEF ClosesCleanly
<1> QED
  BY <1>1, <1>4, <1>6, <1>7, <1>8, <1>9 DEF IndInv, Running

\* The server at the start.
LEMMA ServerProps ==
  /\ Server \in Peer /\ Server.st = "none" /\ Server.win = 0 /\ Server.rwin = PeerWindow
  /\ Server.got = 0 /\ ~Server.sentClose /\ ~Server.gotEof /\ ~Server.gotClose
  /\ PeerWindow \in Nat
BY ChannelAssumption DEF Server, Peer

WithWin(q, win) == [q EXCEPT !.st = "open", !.win = win]

\* The server has accepted.
LEMMA SetWin ==
  ASSUME NEW win \in Nat, NEW q, q = WithWin(Server, win)
  PROVE  /\ q \in Peer /\ q.st = "open" /\ q.win = win /\ q.rwin = PeerWindow
         /\ q.got = 0 /\ ~q.sentClose /\ ~q.gotEof /\ ~q.gotClose
BY ChannelAssumption DEF WithWin, Server, Peer

\* The server takes the confirmation of an X11 channel.
LEMMA ServerRcvdConfirmationInv ==
  ASSUME IndInv, ServerRcvdConfirmation
  PROVE  IndInv'
<1> DEFINE win == ServerArg
           q == WithWin(p, win)
           ty == "OPEN_CONFIRMATION"
           m == Head(c.out)
<1>1. ServerRcvd(ty, q, <<>>) /\ c.out # <<>> /\ m.type = "OPEN_CONFIRMATION" /\ Running
  BY DEF ServerRcvdConfirmation, ServerRcvd, ServerSends, WithWin
<1>2. c \in Chan /\ Phase(c, s2c, p) /\ c.locwindow \in Nat
  BY <1>1, Numbers DEF IndInv, Sound
<1>3. Announced(c, s2c, p) /\ Tail(c.out) = <<>> /\ m = Msg("OPEN_CONFIRMATION", c.locwindow)
  BY <1>1, <1>2, OutPhase
<1>4. win = c.locwindow
  BY <1>3 DEF ServerArg, Msg
<1>5. /\ c.st = "live" /\ ~c.halfopen /\ c.outbuffer = 0 /\ c.written = 0
      /\ c.remwindow = PeerWindow /\ c.chanreq = <<>> /\ s2c = <<>> /\ p = Server
  BY <1>3 DEF Announced
<1> HIDE DEF win
<1>6. /\ q \in Peer /\ q.st = "open" /\ q.win = c.locwindow /\ q.rwin = PeerWindow
      /\ q.got = 0 /\ ~q.sentClose /\ ~q.gotEof /\ ~q.gotClose
  BY <1>2, <1>4, <1>5, SetWin
<1> HIDE DEF q, m
<1>7. ASSUME NEW y \in Chan, Shorter(c, y, m) PROVE Phase(y, <<>>, q)
  <2>1. /\ y.out = <<>> /\ Base(c, y) /\ Closing(c, y) /\ SameData(c, y)
        /\ SameWindow(c, y) /\ y.chanreq = <<>>
    BY <1>3, <1>5, <1>7 DEF Shorter
  <2>2. /\ y.st = "live" /\ ~y.halfopen /\ y.outbuffer = 0 /\ y.written = 0
        /\ y.remwindow = PeerWindow /\ y.locwindow = c.locwindow
    BY <1>5, <2>1 DEF Base, Closing, SameData, SameWindow
  <2> DEFINE e == <<>>
  <2>3. /\ e \in Seq(Message) /\ CloseLast(e) /\ Plain(e) /\ No(e, "CLOSE")
        /\ No(e, "DATA") /\ No(e, "REPLY") /\ Len(e) = 0
    BY EmptyQueue
  <2>4. y.out = e /\ y.chanreq = e
    BY <2>1
  <2> HIDE DEF e
  <2>5. InFlight(e, "DATA") = 0 /\ InFlight(e, "ADJUST") = 0 /\ InFlight(e, "REQUEST") = 0
    <3>1. No(e, "ADJUST") /\ No(e, "REQUEST")
      BY EmptyQueue DEF e
    <3> QED
      BY <2>3, <3>1, FlightProps
  <2>6. Count(e, "REPLY") = 0
    BY <2>3, CountProps
  <2>7. PeerWindow \in Nat
    BY ServerProps
  <2>8. Talking(y, e, q)
    BY <1>2, <1>6, <2>2, <2>3, <2>4, <2>5, <2>6, <2>7 DEF Talking, Streams, Due
  <2> QED
    BY <2>8 DEF Phase, e
<1>8. <<>> \in Seq(Message)
  BY EmptyQueue
<1> HIDE DEF ty
<1> QED
  BY <1>1, <1>3, <1>5, <1>6, <1>7, <1>8, ServerOpens DEF m

\* The server accepts the channel, or refuses it.
LEMMA ServerRcvdOpenInv ==
  ASSUME IndInv, ServerRcvdOpen
  PROVE  IndInv'
<1> DEFINE win == ServerArg
           ty == "OPEN"
           m == Head(c.out)
           q1 == WithWin(p, win)
           q2 == [p EXCEPT !.st = "refused"]
           m1 == Msg("OPEN_CONFIRMATION", PeerWindow)
           m2 == Msg("OPEN_FAILURE", 0)
<1>1. /\ ServerRcvd(ty, q1, <<m1>>) \/ ServerRcvd(ty, q2, <<m2>>)
      /\ c.out # <<>> /\ m.type = "OPEN" /\ Running
  BY DEF ServerRcvdOpen, ServerRcvd, ServerSends, WithWin
<1>2. c \in Chan /\ Phase(c, s2c, p) /\ c.locwindow \in Nat
  BY <1>1, Numbers DEF IndInv, Sound
<1>3. Asked(c, s2c, p) /\ Tail(c.out) = <<>> /\ m = Msg("OPEN", c.locwindow)
  BY <1>1, <1>2, OutPhase
<1>4. win = c.locwindow
  BY <1>3 DEF ServerArg, Msg
<1>5. /\ c.st = "live" /\ c.halfopen /\ c.outbuffer = c.written
      /\ s2c = <<>> /\ p = Server
  BY <1>3 DEF Asked
<1> HIDE DEF win
<1>6. /\ q1 \in Peer /\ q1.st = "open" /\ q1.win = c.locwindow /\ q1.rwin = PeerWindow
      /\ q1.got = 0 /\ ~q1.sentClose /\ ~q1.gotEof /\ ~q1.gotClose
  BY <1>2, <1>4, <1>5, SetWin
<1>7. q2 \in Peer /\ q2.st = "refused" /\ ~q2.gotEof /\ ~q2.gotClose
  BY <1>5, ChannelAssumption DEF Peer, Server
<1>8. /\ m1 \in Message /\ m1.type = "OPEN_CONFIRMATION" /\ m2 \in Message
      /\ PeerWindow \in Nat
  BY MsgProps, Types, ServerProps
<1>9. m1 = Msg("OPEN_CONFIRMATION", PeerWindow) /\ m2 = Msg("OPEN_FAILURE", 0)
  OBVIOUS
<1> HIDE DEF q1, q2, m, m1, m2, ty
<1>10. ASSUME NEW y \in Chan, Shorter(c, y, m)
       PROVE  /\ y.st = "live" /\ y.halfopen /\ y.out = <<>> /\ y.outbuffer = y.written
              /\ y.locwindow = c.locwindow
  BY <1>3, <1>5, <1>10 DEF Shorter, Base, Closing, SameData, SameWindow
<1>11. CASE ServerRcvd(ty, q1, <<m1>>)
  <2> DEFINE s == <<m1>>
  <2>1. /\ s \in Seq(Message) /\ s # <<>> /\ Head(s) = m1 /\ Tail(s) = <<>> /\ CloseLast(s)
        /\ \A type : No(s, type) <=> m1.type # type
        /\ \A type : InFlight(s, type) = IF m1.type = type THEN m1.n ELSE 0
    BY <1>8, OneMessage
  <2>2. s = <<m1>>
    OBVIOUS
  <2> HIDE DEF s
  <2>3. /\ No(s, "CLOSE") /\ No(s, "REPLY") /\ InFlight(s, "DATA") = 0
        /\ InFlight(s, "ADJUST") = 0
    BY <1>8, <2>1
  <2>4. Plain(Tail(s))
    BY <2>1, EmptyQueue
  <2>5. ASSUME NEW y \in Chan, Shorter(c, y, m) PROVE Phase(y, s, q1)
    <3>1. /\ y.st = "live" /\ y.halfopen /\ y.out = <<>> /\ y.outbuffer = y.written
          /\ y.locwindow = c.locwindow
      BY <1>10, <2>5
    <3>2. Answered(y, s, q1)
      BY <1>2, <1>6, <1>8, <1>9, <2>1, <2>3, <2>4, <3>1 DEF Answered, Streams
    <3> QED
      BY <3>2 DEF Phase
  <2> QED
    BY <1>3, <1>5, <1>6, <1>11, <2>1, <2>2, <2>5, ServerOpens DEF m
<1>12. CASE ServerRcvd(ty, q2, <<m2>>)
  <2> DEFINE s == <<m2>>
  <2>1. s \in Seq(Message)
    BY <1>8, OneMessage
  <2>2. s = <<m2>>
    OBVIOUS
  <2> HIDE DEF s
  <2>3. ASSUME NEW y \in Chan, Shorter(c, y, m) PROVE Phase(y, s, q2)
    <3>1. y.st = "live" /\ y.halfopen /\ y.out = <<>>
      BY <1>10, <2>3
    <3>2. Refused(y, s, q2)
      BY <1>7, <1>9, <2>2, <3>1 DEF Refused
    <3> QED
      BY <3>2 DEF Phase
  <2> QED
    BY <1>3, <1>5, <1>7, <1>12, <2>1, <2>2, <2>3, ServerOpens DEF m
<1> QED
  BY <1>1, <1>11, <1>12

-----------------------------------------------------------------------------
(* What the server says of its own accord.                                 *)

\* The server's account of a message that it sends.
Spends(q, z, m) ==
  /\ z \in Peer /\ z.st = q.st /\ ~q.sentClose /\ (m.type = "CLOSE" => z.sentClose)
  /\ z.got = q.got /\ z.gotEof = q.gotEof /\ z.gotClose = q.gotClose
  /\ z.win + (IF m.type = "DATA" THEN m.n ELSE 0) = q.win
  /\ z.rwin = q.rwin + (IF m.type = "ADJUST" THEN m.n ELSE 0)

\* v is s with the message m, the last.
Longer(s, v, m, z) ==
  /\ v \in Seq(Message) /\ v # <<>> /\ Len(v) = Len(s) + 1 /\ Streams(v, z)
  /\ \A type : No(v, type) <=> No(s, type) /\ m.type # type
  /\ \A type : InFlight(v, type) = InFlight(s, type) + (IF m.type = type THEN m.n ELSE 0)
  /\ m.type # "REPLY" => Count(v, "REPLY") = Count(s, "REPLY")

\* What is on its way to PuTTY with one message more.
LEMMA LongerIn ==
  ASSUME NEW s \in Seq(Message), NEW v, NEW m \in Message, v = Append(s, m),
         NEW q, NEW z, Spends(q, z, m), Streams(s, q)
  PROVE  Longer(s, v, m, z)
<1>1. /\ v \in Seq(Message) /\ v # <<>>
      /\ \A type : No(v, type) <=> No(s, type) /\ m.type # type
      /\ No(s, "CLOSE") => CloseLast(v)
  BY AppendQueue
<1>2. Len(v) = Len(s) + 1
  OBVIOUS
<1>3. \A type : InFlight(v, type) = InFlight(s, type) + (IF m.type = type THEN m.n ELSE 0)
  BY FlightProps
<1>4. Count(v, "REPLY") = Count(s, "REPLY") + (IF m.type = "REPLY" THEN 1 ELSE 0)
  BY CountProps
<1>5. Count(s, "REPLY") \in Nat
  BY QueueNumbers
<1>6. m.type # "REPLY" => Count(v, "REPLY") = Count(s, "REPLY")
  BY <1>4, <1>5
<1>7. Streams(v, z)
  BY <1>1 DEF Streams, Spends
<1> QED
  BY <1>1, <1>2, <1>3, <1>6, <1>7 DEF Longer

\* An open channel remains in balance.
LEMMA TalkingIn ==
  ASSUME NEW r \in Chan, NEW s \in Seq(Message), NEW v \in Seq(Message), NEW m \in Message,
         NEW q \in Peer, NEW z, Spends(q, z, m), Talking(r, s, q),
         m.type \in {"DATA", "ADJUST", "REQUEST", "EOF", "CLOSE"},
         Streams(v, z), \A type : No(v, type) <=> No(s, type) /\ m.type # type,
         \A type : InFlight(v, type) =
            InFlight(s, type) + (IF m.type = type THEN m.n ELSE 0),
         Count(v, "REPLY") = Count(s, "REPLY")
  PROVE  Talking(r, v, z)
<1> DEFINE dn == IF m.type = "DATA" THEN m.n ELSE 0
           an == IF m.type = "ADJUST" THEN m.n ELSE 0
           od == InFlight(r.out, "DATA")
           oa == InFlight(r.out, "ADJUST")
           rr == InFlight(r.out, "REQUEST")
           sd == InFlight(s, "DATA")
           vd == InFlight(v, "DATA")
           sa == InFlight(s, "ADJUST")
           va == InFlight(v, "ADJUST")
           sr == Count(s, "REPLY")
           rq == Len(r.chanreq)
           rl == r.locwindow
           rw == r.remwindow
           qw == q.win
           zw == z.win
           qr == q.rwin
           zr == z.rwin
           mute == z.sentClose
           ended == Has(r, "SENT_EOF")
<1>1. /\ z \in Peer /\ z.st = q.st /\ ~q.sentClose
      /\ z.got = q.got /\ z.gotEof = q.gotEof /\ z.gotClose = q.gotClose
      /\ zw + dn = qw /\ zr = qr + an
  BY DEF Spends
<1>2. vd = sd + dn /\ va = sa + an
  OBVIOUS
<1>3. /\ qw + sd + oa = rl /\ rw + od + sa <= qr /\ (ended \/ rw + od + sa = qr)
      /\ sr + rr <= rq
  BY <1>1 DEF Talking, Due
<1>4. m.n \in Nat
  BY DEF Message
<1>5. /\ dn \in Nat /\ an \in Nat /\ od \in Nat /\ oa \in Nat /\ rr \in Nat /\ sd \in Nat
      /\ vd \in Nat /\ sa \in Nat /\ va \in Nat /\ sr \in Nat /\ rq \in Nat
      /\ rl \in Nat /\ rw \in Nat
  BY <1>4, Numbers, QueueNumbers
<1>6. qw \in Nat /\ zw \in Nat /\ qr \in Nat /\ zr \in Nat
  BY <1>1, PeerNumbers
<1>7. Plain(v)
  BY DEF Plain, Talking
<1> HIDE DEF dn, an, od, oa, rr, sd, vd, sa, va, sr, rq, rl, rw, qw, zw, qr, zr, mute, ended
<1>8. zw + vd + oa = rl
  <2>1. zw + dn = qw /\ vd = sd + dn /\ qw + sd + oa = rl
    BY <1>1, <1>2, <1>3
  <2> QED
    BY <1>5, <1>6, <2>1
<1>9. rw + od + va <= zr
  <2>1. zr = qr + an /\ va = sa + an /\ rw + od + sa <= qr
    BY <1>1, <1>2, <1>3
  <2> QED
    BY <1>5, <1>6, <2>1
<1>10. ended \/ rw + od + va = zr
  <2>1. zr = qr + an /\ va = sa + an
    BY <1>1, <1>2
  <2>2. rw + od + sa = qr => rw + od + va = zr
    BY <1>5, <1>6, <2>1
  <2> QED
    BY <1>3, <2>2
<1>11. sr + (IF mute THEN 0 ELSE rr) <= rq
  BY <1>3, <1>5
<1>12. /\ z.win + InFlight(v, "DATA") + InFlight(r.out, "ADJUST") = r.locwindow
       /\ r.remwindow + InFlight(r.out, "DATA") + InFlight(v, "ADJUST") <= z.rwin
       /\ Has(r, "SENT_EOF") \/
             r.remwindow + InFlight(r.out, "DATA") + InFlight(v, "ADJUST") = z.rwin
  BY <1>8, <1>9, <1>10 DEF zw, vd, oa, rl, rw, od, va, zr, ended
<1>13. Due(r, v, z) <= Len(r.chanreq)
  BY <1>11 DEF Due, sr, mute, rr, rq
<1> QED
  BY <1>1, <1>7, <1>12, <1>13 DEF Talking

\* A channel that PuTTY does not know to be open remains so.
LEMMA AnsweredIn ==
  ASSUME NEW r \in Chan, NEW s \in Seq(Message), NEW v \in Seq(Message), NEW m \in Message,
         NEW q \in Peer, NEW z, Spends(q, z, m), Answered(r, s, q),
         m.type \in {"DATA", "ADJUST", "REQUEST", "EOF", "CLOSE"},
         Streams(v, z), v = Append(s, m),
         \A type : No(v, type) <=> No(s, type) /\ m.type # type,
         \A type : InFlight(v, type) =
            InFlight(s, type) + (IF m.type = type THEN m.n ELSE 0)
  PROVE  Answered(r, v, z)
<1> DEFINE dn == IF m.type = "DATA" THEN m.n ELSE 0
           an == IF m.type = "ADJUST" THEN m.n ELSE 0
           sd == InFlight(s, "DATA")
           vd == InFlight(v, "DATA")
           sa == InFlight(s, "ADJUST")
           va == InFlight(v, "ADJUST")
           rl == r.locwindow
           pw == PeerWindow
           qw == q.win
           zw == z.win
           qr == q.rwin
           zr == z.rwin
<1>1. /\ z \in Peer /\ z.st = q.st
      /\ z.got = q.got /\ z.gotEof = q.gotEof /\ z.gotClose = q.gotClose
      /\ zw + dn = qw /\ zr = qr + an
  BY DEF Spends
<1>2. vd = sd + dn /\ va = sa + an
  OBVIOUS
<1>3. qw + sd = rl /\ pw + sa = qr
  BY DEF Answered
<1>4. m.n \in Nat
  BY DEF Message
<1>5. /\ dn \in Nat /\ an \in Nat /\ sd \in Nat /\ vd \in Nat /\ sa \in Nat /\ va \in Nat
      /\ rl \in Nat /\ pw \in Nat
  BY <1>4, Numbers, QueueNumbers, ServerProps
<1>6. qw \in Nat /\ zw \in Nat /\ qr \in Nat /\ zr \in Nat
  BY <1>1, PeerNumbers
<1>7. v # <<>> /\ Head(v) = Head(s) /\ Tail(v) = Append(Tail(s), m) /\ Tail(s) \in Seq(Message)
  <2>1. s # <<>>
    BY DEF Answered
  <2> QED
    BY <2>1
<1>8. Plain(Tail(v))
  <2> DEFINE u == Tail(s)
  <2>1. Plain(u) /\ u \in Seq(Message)
    BY <1>7 DEF Answered
  <2> HIDE DEF u
  <2>2. \A type : No(Append(u, m), type) <=> No(u, type) /\ m.type # type
    BY <2>1, AppendQueue
  <2>3. Plain(Append(u, m))
    BY <2>1, <2>2 DEF Plain
  <2> QED
    BY <1>7, <2>3 DEF u
<1> HIDE DEF dn, an, sd, vd, sa, va, rl, pw, qw, zw, qr, zr
<1>9. zw + vd = rl /\ pw + va = zr
  BY <1>1, <1>2, <1>3, <1>5, <1>6
<1>10. z.win + InFlight(v, "DATA") = r.locwindow /\ PeerWindow + InFlight(v, "ADJUST") = z.rwin
  BY <1>9 DEF zw, vd, rl, pw, va, zr
<1>11. No(v, "REPLY")
  BY DEF Answered
<1> QED
  BY <1>1, <1>7, <1>8, <1>10, <1>11 DEF Answered

\* The server says something on an open channel.
LEMMA ServerSaysInv ==
  ASSUME IndInv, ServerOpen, NEW q, NEW m \in Message, ServerSends(q, <<m>>), UNCHANGED c,
         m.type \in {"DATA", "ADJUST", "REQUEST", "EOF", "CLOSE"}, Spends(p, q, m)
  PROVE  IndInv'
<1> DEFINE v == s2c \o <<m>>
<1>1. Running /\ p' = q /\ s2c' = v /\ decoded' = decoded /\ c' = c
  BY DEF ServerSends
<1>2. /\ Sound(c) /\ c \in Chan /\ p \in Peer /\ Credits(c, p) /\ ClosesCleanly
      /\ s2c \in Seq(Message) /\ decoded \in 0..Len(s2c) /\ Phase(c, s2c, p)
  BY <1>1 DEF IndInv, Sound
<1>3. v = Append(s2c, m)
  BY <1>2
<1> HIDE DEF v
<1>4. p.st = "open" /\ ~p.sentClose
  BY DEF ServerOpen
<1>5. Answered(c, s2c, p) \/ Talking(c, s2c, p)
  BY <1>2, <1>4, ServerProps DEF Phase, Unopened, Asked, Announced, Refused, Over
<1>6. Streams(s2c, p)
  BY <1>5 DEF Answered, Talking
<1>7. /\ v \in Seq(Message) /\ Len(v) = Len(s2c) + 1 /\ Streams(v, q)
      /\ \A type : No(v, type) <=> No(s2c, type) /\ m.type # type
      /\ \A type : InFlight(v, type) =
            InFlight(s2c, type) + (IF m.type = type THEN m.n ELSE 0)
      /\ m.type # "REPLY" => Count(v, "REPLY") = Count(s2c, "REPLY")
  <2>1. Longer(s2c, v, m, q)
    BY <1>2, <1>3, <1>6, LongerIn
  <2> QED
    BY <2>1 DEF Longer
<1>8. Phase(c, v, q)
  <2>1. CASE Answered(c, s2c, p)
    <3>1. Answered(c, v, q)
      BY <1>2, <1>3, <1>7, <2>1, AnsweredIn
    <3> QED
      BY <3>1 DEF Phase
  <2>2. CASE Talking(c, s2c, p)
    <3>1. Talking(c, v, q)
      BY <1>2, <1>7, <2>2, TalkingIn
    <3> QED
      BY <3>1 DEF Phase
  <2> QED
    BY <1>5, <2>1, <2>2
<1>9. q \in Peer /\ Credits(c, q)
  <2> DEFINE od == InFlight(c.out, "DATA")
             qr == p.rwin
             zr == q.rwin
             an == IF m.type = "ADJUST" THEN m.n ELSE 0
  <2>1. q \in Peer /\ zr = qr + an /\ q.gotClose = p.gotClose
    BY DEF Spends
  <2>2. od \in Nat /\ qr \in Nat /\ zr \in Nat /\ an \in Nat
    BY <1>2, <2>1, Numbers, QueueNumbers, PeerNumbers DEF Message
  <2>3. od <= qr
    BY <1>2 DEF Credits
  <2> HIDE DEF od, qr, zr, an
  <2>4. od <= zr
    BY <2>1, <2>2, <2>3
  <2> QED
    BY <1>2, <2>1, <2>4 DEF Credits, od, zr
<1>10. decoded \in 0..Len(v)
  <2>1. Len(s2c) \in Nat
    BY <1>2
  <2> QED
    BY <1>2, <1>7, <2>1
<1>11. ClosesCleanly'
  BY <1>1, <1>2 DEF ClosesCleanly
<1> QED
  BY <1>1, <1>2, <1>7, <1>8, <1>9, <1>10, <1>11 DEF IndInv, Running

\* The server sends data.
LEMMA ServerDataInv ==
  ASSUME IndInv, ServerData
  PROVE  IndInv'
<1>1. ServerOpen /\ UNCHANGED c /\ p \in Peer
  BY DEF ServerData, IndInv
<1>2. PICK n \in 1 .. Least(p.win, MaxIn - p.sent) :
         ServerSends([p EXCEPT !.win = @ - n, !.sent = @ + n], <<Msg("DATA", n)>>)
  BY DEF ServerData
<1> DEFINE less == p.win - n
           more == p.sent + n
           q == [p EXCEPT !.win = less, !.sent = more]
           m == Msg("DATA", n)
<1>3. p.win \in Nat /\ p.sent \in Nat /\ p.rwin \in Nat /\ MaxIn \in Nat
  BY <1>1, ChannelAssumption DEF Peer
<1>4. n \in Nat /\ less \in Nat /\ more \in Nat /\ less + n = p.win
  <2>1. n \in Int /\ 1 <= n /\ n <= p.win
    BY <1>2, <1>3 DEF Least
  <2> DEFINE w == p.win
  <2> HIDE DEF w
  <2>2. n \in Nat /\ w - n \in Nat /\ (w - n) + n = w
    BY <1>3, <2>1 DEF w
  <2> QED
    BY <1>3, <2>2 DEF w
<1>5. ServerSends(q, <<m>>)
  BY <1>2
<1> HIDE DEF less, more
<1>6. /\ q \in Peer /\ q.st = p.st /\ q.sentClose = p.sentClose /\ q.got = p.got
      /\ q.gotEof = p.gotEof /\ q.gotClose = p.gotClose /\ q.win = less /\ q.rwin = p.rwin
  BY <1>1, <1>4 DEF Peer
<1>7. m \in Message /\ m.type = "DATA" /\ m.n = n
  BY <1>4, MsgProps, Types
<1> HIDE DEF q, m
<1>8. ~p.sentClose
  BY <1>1 DEF ServerOpen
<1>9. Spends(p, q, m)
  BY <1>3, <1>4, <1>6, <1>7, <1>8 DEF Spends
<1> QED
  BY <1>1, <1>5, <1>7, <1>9, ServerSaysInv

\* The server grants more window.
LEMMA ServerAdjustInv ==
  ASSUME IndInv, ServerAdjust
  PROVE  IndInv'
<1>1. ServerOpen /\ UNCHANGED c /\ p \in Peer
  BY DEF ServerAdjust, IndInv
<1>2. PICK n \in 1 .. (MaxAdjust - p.granted) :
         ServerSends([p EXCEPT !.rwin = @ + n, !.granted = @ + n], <<Msg("ADJUST", n)>>)
  BY DEF ServerAdjust
<1> DEFINE more == p.rwin + n
           given == p.granted + n
           q == [p EXCEPT !.rwin = more, !.granted = given]
           m == Msg("ADJUST", n)
<1>3. /\ p.win \in Nat /\ p.granted \in Nat /\ p.rwin \in Nat /\ MaxAdjust \in Nat
      /\ n \in Nat
  BY <1>1, ChannelAssumption DEF Peer
<1>4. more \in Nat /\ given \in Nat /\ more = p.rwin + n
  BY <1>3
<1>5. ServerSends(q, <<m>>)
  BY <1>2
<1> HIDE DEF given, more
<1>6. /\ q \in Peer /\ q.st = p.st /\ q.sentClose = p.sentClose /\ q.got = p.got
      /\ q.gotEof = p.gotEof /\ q.gotClose = p.gotClose /\ q.win = p.win /\ q.rwin = more
  BY <1>1, <1>4 DEF Peer
<1>7. m \in Message /\ m.type = "ADJUST" /\ m.n = n
  BY <1>3, MsgProps, Types
<1> HIDE DEF q, m
<1>8. ~p.sentClose
  BY <1>1 DEF ServerOpen
<1>9. Spends(p, q, m)
  BY <1>3, <1>4, <1>6, <1>7, <1>8 DEF Spends
<1> QED
  BY <1>1, <1>5, <1>7, <1>9, ServerSaysInv

\* The server makes a request.
LEMMA ServerRequestInv ==
  ASSUME IndInv, ServerRequest
  PROVE  IndInv'
<1>1. ServerOpen /\ UNCHANGED c /\ p \in Peer
  BY DEF ServerRequest, IndInv
<1>2. PICK want \in 0 .. 1 :
         ServerSends([p EXCEPT !.reqs = @ + 1], <<Msg("REQUEST", want)>>)
  BY DEF ServerRequest
<1> DEFINE more == p.reqs + 1
           q == [p EXCEPT !.reqs = more]
           m == Msg("REQUEST", want)
<1>3. p.win \in Nat /\ p.reqs \in Nat /\ p.rwin \in Nat /\ want \in Nat
  BY <1>1 DEF Peer
<1>4. more \in Nat
  BY <1>3
<1>5. ServerSends(q, <<m>>)
  BY <1>2
<1> HIDE DEF more
<1>6. /\ q \in Peer /\ q.st = p.st /\ q.sentClose = p.sentClose /\ q.got = p.got
      /\ q.gotEof = p.gotEof /\ q.gotClose = p.gotClose /\ q.win = p.win /\ q.rwin = p.rwin
  BY <1>1, <1>4 DEF Peer
<1>7. m \in Message /\ m.type = "REQUEST"
  BY <1>3, MsgProps, Types
<1> HIDE DEF q, m
<1>8. ~p.sentClose
  BY <1>1 DEF ServerOpen
<1>9. Spends(p, q, m)
  BY <1>3, <1>6, <1>7, <1>8 DEF Spends
<1> QED
  BY <1>1, <1>5, <1>7, <1>9, ServerSaysInv

\* The server has no more data.
LEMMA ServerEofInv ==
  ASSUME IndInv, ServerEof
  PROVE  IndInv'
<1> DEFINE q == [p EXCEPT !.sentEof = TRUE]
           m == Msg("EOF", 0)
<1>1. ServerOpen /\ UNCHANGED c /\ p \in Peer /\ ServerSends(q, <<m>>)
  BY DEF ServerEof, IndInv
<1>2. p.win \in Nat /\ p.rwin \in Nat
  BY <1>1, PeerNumbers
<1>3. /\ q \in Peer /\ q.st = p.st /\ q.sentClose = p.sentClose /\ q.got = p.got
      /\ q.gotEof = p.gotEof /\ q.gotClose = p.gotClose /\ q.win = p.win /\ q.rwin = p.rwin
  BY <1>1 DEF Peer
<1>4. m \in Message /\ m.type = "EOF"
  BY MsgProps, Types
<1> HIDE DEF q, m
<1>5. ~p.sentClose
  BY <1>1 DEF ServerOpen
<1>6. Spends(p, q, m)
  BY <1>2, <1>3, <1>4, <1>5 DEF Spends
<1> QED
  BY <1>1, <1>4, <1>6, ServerSaysInv

\* The server closes the channel.
LEMMA ServerCloseInv ==
  ASSUME IndInv, ServerClose
  PROVE  IndInv'
<1> DEFINE q == [p EXCEPT !.sentClose = TRUE]
           m == Msg("CLOSE", 0)
<1>1. ServerOpen /\ UNCHANGED c /\ p \in Peer /\ ServerSends(q, <<m>>)
  BY DEF ServerClose, IndInv
<1>2. p.win \in Nat /\ p.rwin \in Nat
  BY <1>1, PeerNumbers
<1>3. /\ q \in Peer /\ q.st = p.st /\ q.sentClose /\ q.got = p.got
      /\ q.gotEof = p.gotEof /\ q.gotClose = p.gotClose /\ q.win = p.win /\ q.rwin = p.rwin
  BY <1>1 DEF Peer
<1>4. m \in Message /\ m.type = "CLOSE"
  BY MsgProps, Types
<1> HIDE DEF q, m
<1>5. ~p.sentClose
  BY <1>1 DEF ServerOpen
<1>6. Spends(p, q, m)
  BY <1>2, <1>3, <1>4, <1>5 DEF Spends
<1> QED
  BY <1>1, <1>4, <1>6, ServerSaysInv

-----------------------------------------------------------------------------
(* The invariant.                                                          *)

\* It holds at the start.
LEMMA InitInv ==
  ASSUME Init
  PROVE  IndInv
<1>1. PICK kind \in Kinds :
         /\ c = Blank(kind)
         /\ s2c = IF kind = "x11" THEN <<Msg("OPEN", PeerWindow)>> ELSE <<>>
  BY DEF Init
<1>2. decoded = 0 /\ p = Server
  BY DEF Init
<1>3. /\ c \in Chan /\ c.kind = kind /\ c.st = "none" /\ ~c.halfopen /\ c.closes = {}
      /\ ~c.pending_eof /\ c.outbuffer = 0 /\ c.locwindow = InitialWindow
      /\ c.locmaxwin = InitialWindow /\ c.chanreq = <<>>
      /\ c.throttle_state = "UNTHROTTLED" /\ ~c.throttling_conn
      /\ c.conn_throttle_count = 0 /\ c.chan = "live" /\ c.held = 0
      /\ ~c.localeof /\ c.written = 0 /\ c.out = <<>> /\ c.crash = "none"
  BY <1>1, BlankProps
<1>4. c = Blank(c.kind) /\ s2c = IF c.kind = "x11" THEN <<Msg("OPEN", PeerWindow)>> ELSE <<>>
  BY <1>1, <1>3
<1> DEFINE w == InitialWindow
<1>5. w \in Nat /\ w > 0
  BY ChannelAssumption DEF InitialWindow
<1>6. c.held = 0 /\ c.locwindow = w /\ c.locmaxwin = w
  BY <1>3
<1> HIDE DEF w
<1>7. Throttle(c)
  <2>1. 0 + w <= w
    BY <1>5
  <2> QED
    BY <1>3, <1>5, <1>6, <2>1 DEF Throttle
<1>8. Order(c)
  BY <1>3, EmptyQueue DEF Order
<1>9. Handlers(c)
  BY <1>3 DEF Handlers
<1>10. Flags(c) /\ Idle(c) /\ Early(c) /\ Waits(c) /\ Says(c) /\ Attends(c)
  BY <1>3 DEF Flags, Idle, Early, Waits, Says, Attends, Has
<1>11. Sound(c)
  BY <1>3, <1>7, <1>8, <1>9, <1>10 DEF Sound, Core, Firm
<1>12. Credits(c, p)
  <2>1. InFlight(<<>>, "DATA") = 0
    BY EmptyQueue, FlightProps
  <2>2. PeerWindow \in Nat /\ 0 <= PeerWindow
    BY ServerProps
  <2> QED
    BY <1>2, <1>3, <2>1, <2>2, ServerProps DEF Credits
<1>13. Phase(c, s2c, p)
  BY <1>2, <1>4 DEF Phase, Unopened
<1>14. s2c \in Seq(Message)
  <2> DEFINE m == Msg("OPEN", PeerWindow)
  <2>1. m \in Message
    BY MsgProps, Types, ServerProps
  <2> HIDE DEF m
  <2>2. <<m>> \in Seq(Message) /\ <<>> \in Seq(Message)
    BY <2>1, EmptyQueue
  <2> QED
    BY <1>4, <2>2 DEF m
<1>15. decoded \in 0..Len(s2c)
  <2>1. Len(s2c) \in Nat
    BY <1>14
  <2> QED
    BY <1>2, <2>1
<1>16. ClosesCleanly /\ p \in Peer
  BY <1>2, <1>3, ServerProps DEF ClosesCleanly
<1> QED
  BY <1>11, <1>12, <1>13, <1>14, <1>15, <1>16 DEF IndInv

\* A message that PuTTY handles keeps it.
LEMMA ClientReceiveInv ==
  ASSUME IndInv, ClientReceive
  PROVE  IndInv'
<1>1. CASE RcvdOpen
  BY <1>1, RcvdOpenInv
<1>2. CASE RcvdOpenConfirmation
  BY <1>2, RcvdOpenConfirmationInv
<1>3. CASE RcvdOpenFailure
  BY <1>3, RcvdOpenFailureInv
<1>4. CASE RcvdData
  BY <1>4, RcvdDataInv
<1>5. CASE RcvdWindowAdjust
  BY <1>5, RcvdWindowAdjustInv
<1>6. CASE RcvdRequest
  BY <1>6, RcvdRequestInv
<1>7. CASE RcvdReply
  BY <1>7, RcvdReplyInv
<1>8. CASE RcvdEof
  BY <1>8, RcvdEofInv
<1>9. CASE RcvdClose
  BY <1>9, RcvdCloseInv
<1> QED
  BY <1>1, <1>2, <1>3, <1>4, <1>5, <1>6, <1>7, <1>8, <1>9 DEF ClientReceive

\* And so does one that the server takes.
LEMMA ServerReceiveInv ==
  ASSUME IndInv, ServerReceive
  PROVE  IndInv'
<1>1. CASE ServerRcvdOpen
  BY <1>1, ServerRcvdOpenInv
<1>2. CASE ServerRcvdConfirmation
  BY <1>2, ServerRcvdConfirmationInv
<1>3. CASE ServerRcvdData
  BY <1>3, ServerRcvdDataInv
<1>4. CASE ServerRcvdAdjust
  BY <1>4, ServerRcvdAdjustInv
<1>5. CASE c.out # <<>> /\ ServerRcvdRequest
  BY <1>5, ServerRcvdRequestInv
<1>6. CASE ServerRcvdReply
  BY <1>6, ServerRcvdReplyInv
<1>7. CASE ServerRcvdEof
  BY <1>7, ServerRcvdEofInv
<1>8. CASE ServerRcvdClose
  BY <1>8, ServerRcvdCloseInv
<1> QED
  BY <1>1, <1>2, <1>3, <1>4, <1>5, <1>6, <1>7, <1>8 DEF ServerReceive

\* Every step keeps it.
LEMMA NextInv ==
  ASSUME IndInv, [Next]_vars
  PROVE  IndInv'
<1>1. CASE OpenChannel
  BY <1>1, OpenChannelInv
<1>2. CASE ClientReceive
  BY <1>2, ClientReceiveInv
<1>3. CASE LocalReceive
  BY <1>3, LocalReceiveInv
<1>4. CASE UserInput
  BY <1>4, UserInputInv
<1>5. CASE LocalEof
  BY <1>5, LocalEofInv
<1>6. CASE UserEof
  BY <1>6, UserEofInv
<1>7. CASE UserRequest
  BY <1>7, UserRequestInv
<1>8. CASE LocalError
  BY <1>8, LocalErrorInv
<1>9. CASE LocalSent
  BY <1>9, LocalSentInv
<1>10. CASE ThrottleAll
  BY <1>10, ThrottleAllInv
<1>11. CASE ServerReceive
  BY <1>11, ServerReceiveInv
<1>12. CASE ServerData
  BY <1>12, ServerDataInv
<1>13. CASE ServerAdjust
  BY <1>13, ServerAdjustInv
<1>14. CASE ServerRequest
  BY <1>14, ServerRequestInv
<1>15. CASE ServerEof
  BY <1>15, ServerEofInv
<1>16. CASE ServerClose
  BY <1>16, ServerCloseInv
<1>17. CASE UNCHANGED vars
  BY <1>17 DEF vars, IndInv, ClosesCleanly, Running
<1> QED
  BY <1>1, <1>2, <1>3, <1>4, <1>5, <1>6, <1>7, <1>8, <1>9, <1>10, <1>11, <1>12, <1>13,
     <1>14, <1>15, <1>16, <1>17 DEF Next

\* A channel is always Sound, in credit and in one of the phases of its life.
THEOREM Invariance == Spec => []IndInv
<1>1. Init => IndInv
  BY InitInv
<1>2. IndInv /\ [Next]_vars => IndInv'
  BY NextInv
<1> QED
  BY <1>1, <1>2, PTL DEF Spec

-----------------------------------------------------------------------------
(* What the invariant implies.                                             *)

\* On a channel that both sides have open, they are Talking.
LEMMA OpenTalks ==
  ASSUME IndInv, Open
  PROVE  Talking(c, s2c, p)
BY ServerProps, BlankProps
   DEF IndInv, Open, Phase, Unopened, Asked, Announced, Refused, Answered, Over, Sound, Chan

\* Every variable has its type: c as the functions of ssh2connection.c leave it,
\* the server's windows, and how much has been decoded.
THEOREM TypeCorrect == Spec => []TypeOK
<1>1. IndInv => TypeOK
  <2> SUFFICES ASSUME IndInv PROVE TypeOK
    OBVIOUS
  <2>1. c \in Chan /\ Throttle(c) /\ p \in Peer /\ decoded \in 0..Len(s2c)
    BY DEF IndInv, Sound, Core, Firm
  <2>2. /\ c.kind \in Kinds /\ c.st \in {"none", "live", "freed"}
        /\ c.closes \subseteq Closes /\ c.outbuffer \in Nat /\ c.remwindow \in Nat
        /\ c.locwindow \in Nat /\ c.locmaxwin \in Nat /\ c.held \in Nat
        /\ c.throttle_state \in {"THROTTLED", "UNTHROTTLING", "UNTHROTTLED"}
        /\ c.chan \in {"live", "zombie"} /\ c.crash \in Faults \cup {"none", "aborted"}
    BY <2>1 DEF Chan, Stops
  <2>3. p.win \in Int /\ p.rwin \in Int
    BY <2>1, PeerNumbers
  <2>4. c.conn_throttle_count = (IF c.throttling_conn THEN 1 ELSE 0)
    BY <2>1 DEF Throttle
  <2> QED
    BY <2>1, <2>2, <2>3, <2>4 DEF TypeOK
<1> QED
  BY <1>1, Invariance, PTL

\* PuTTY's sending window (ssh2_try_send, WINDOW_ADJUST) and what is in flight
\* add up to what the server has granted, and never exceed it.
THEOREM SendWindow == Spec => []SendWindowAgrees
<1>1. IndInv => SendWindowAgrees
  BY OpenTalks DEF IndInv, Credits, Talking, SendWindowAgrees
<1> QED
  BY <1>1, Invariance, PTL

\* And locwindow counts what the server may still send (DATA, ssh2_set_window).
THEOREM ReceiveWindow == Spec => []ReceiveWindowAgrees
<1>1. IndInv => ReceiveWindowAgrees
  BY OpenTalks DEF Talking, ReceiveWindowAgrees
<1> QED
  BY <1>1, Invariance, PTL

\* Nothing follows the CLOSE of ssh2_channel_check_close.
THEOREM Silent == Spec => []SilentAfterClose
<1>1. IndInv => SilentAfterClose
  <2> SUFFICES ASSUME IndInv PROVE SilentAfterClose
    OBVIOUS
  <2>1. c \in Chan /\ CloseLast(c.out) /\ (p.gotClose => c.out = <<>>)
    BY DEF IndInv, Sound, Core, Firm, Order, Credits
  <2>2. DOMAIN c.out = 1..Len(c.out)
    BY <2>1, Numbers
  <2> QED
    BY <2>1, <2>2 DEF CloseLast, SilentAfterClose
<1> QED
  BY <1>1, Invariance, PTL

\* The EOF of ssh2_channel_try_eof reaches the server after all the data.
THEOREM DataFirst == Spec => []EofAfterData
<1>1. IndInv => EofAfterData
  <2> SUFFICES ASSUME IndInv, Running, p.gotEof, ~p.sentClose
               PROVE  p.got = c.written
    BY DEF EofAfterData
  <2>1. c \in Chan /\ p \in Peer /\ Phase(c, s2c, p)
    BY DEF IndInv, Sound
  <2>2. Talking(c, s2c, p)
    BY <2>1, ServerProps
       DEF Phase, Unopened, Asked, Announced, Refused, Answered, Over
  <2> DEFINE od == InFlight(c.out, "DATA")
             ob == c.outbuffer
             g == p.got
             wr == c.written
  <2>3. od = 0
    BY <2>1, <2>2, Numbers, FlightProps DEF Talking
  <2>4. g + od + ob = wr /\ ob = 0
    BY <2>2 DEF Talking
  <2>5. g \in Nat /\ wr \in Nat
    BY <2>1, Numbers, PeerNumbers
  <2> HIDE DEF od, ob, g, wr
  <2>6. g = wr
    BY <2>3, <2>4, <2>5
  <2> QED
    BY <2>6 DEF g, wr
<1> QED
  BY <1>1, Invariance, PTL

\* Data wait only for window, an EOF only for data, and UNTHROTTLING only for a
\* winadj that has been sent.
THEOREM Remembers == Spec => []NothingForgotten
<1>1. IndInv => NothingForgotten
  <2> SUFFICES ASSUME IndInv PROVE NothingForgotten
    OBVIOUS
  <2>1. c \in Chan /\ Waits(c) /\ Handlers(c)
    BY DEF IndInv, Sound, Core, Firm
  <2>2. DOMAIN c.chanreq = 1..Len(c.chanreq)
    BY <2>1, Numbers
  <2> QED
    BY <2>1, <2>2 DEF Waits, Handlers, NothingForgotten
<1> QED
  BY <1>1, Invariance, PTL

\* Whatever the messages and the local end do, in whatever order, PuTTY stops
\* only at the assertions that a channel of its kind may meet.
THEOREM Cleanly == Spec => []ClosesCleanly
<1>1. IndInv => ClosesCleanly
  BY DEF IndInv
<1> QED
  BY <1>1, Invariance, PTL

\* A port forwarding or a main session does not freeze the connection.
THEOREM Backlog == Spec => []BacklogWithinWindow
<1>1. IndInv => BacklogWithinWindow
  BY DEF IndInv, Sound, Core, Firm, Throttle, BacklogWithinWindow, Frozen
<1> QED
  BY <1>1, Invariance, PTL
=============================================================================
