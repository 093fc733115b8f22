--------------------------- MODULE HandleIOProofs ---------------------------
(***************************************************************************)
(* The safety properties of HandleIO, proved for every set of handles and  *)
(* every value of the bounds.  Handles do not interact, so the inductive   *)
(* invariant is a predicate of one handle record.                          *)
(***************************************************************************)
EXTENDS HandleIO, TLAPS

\* How allocation, kind and subthread fit together.
Shape(r) ==
    /\ r.mem = "unused" <=> r.kind = "none"
    /\ r.mem = "unused" => r = Blank
    /\ r.mem = "freed" => ~ThreadAlive(r)
    /\ r.kind = "HT_FOREIGN" => /\ r.pc = "none" /\ r.defunct /\ r.busy
                                /\ ~r.moribund
                                /\ r.outgoingeof = "EOF_NO" /\ r.held = 0
    /\ r.kind = "HT_INPUT" => r.pc # "none" /\ r.outgoingeof = "EOF_NO"
    /\ r.kind = "HT_OUTPUT" => r.pc # "none" /\ r.held = 0

\* The hand-over protocol: at any moment one of main thread, subthread and
\* the two events holds the turn.
Protocol(r) ==
    r.kind \in {"HT_INPUT", "HT_OUTPUT"} =>
       /\ r.done => r.moribund
       /\ r.moribund => r.busy
       /\ r.defunct => r.pc = "exited" /\ ~r.ev_to_main
       /\ ~r.busy /\ ~r.defunct =>
             r.pc = "wait" /\ ~r.ev_to_main /\ ~r.ev_from_main
       /\ r.pc \in {"io", "signal", "woken"} =>
             r.busy /\ ~r.ev_to_main /\ ~r.ev_from_main
       /\ r.pc \in {"io", "signal"} => ~r.done
       /\ r.pc = "wait" /\ r.busy =>
             (r.ev_to_main <=> ~r.ev_from_main)
       /\ r.pc = "wait" /\ r.done => ~r.ev_to_main

\* No operation is in flight and none has an unprocessed result.
Quiet(r) ==
    \/ r.pc \in {"io", "woken"}
    \/ r.pc = "wait" /\ ~r.ev_to_main

\* An operation has a result that the main thread has not processed.
Completed(r) == r.pc = "signal" \/ (r.pc = "wait" /\ r.ev_to_main)

\* Input: the offsets line up, and a read is only under way below the
\* backlog limit.
InputInv(r) ==
    r.kind = "HT_INPUT" =>
       /\ r.len <= MaxChunk
       /\ r.held < MAX_BACKLOG + MaxChunk
       /\ r.busy /\ ~r.moribund /\ ~r.defunct => r.held < MAX_BACKLOG
       /\ ~r.moribund =>
             /\ Quiet(r) \/ r.pc = "exited" => r.main = r.os
             /\ Completed(r) => /\ r.os = r.main + r.len
                                /\ r.len > 0 => r.from = r.main
             /\ r.pc = "exited" /\ r.ev_to_main => r.len = 0
             /\ r.pc = "wait" /\ r.ev_to_main => r.len > 0

\* Output: the offsets line up, and end of file was sent last.
OutputInv(r) ==
    r.kind = "HT_OUTPUT" =>
       /\ r.main <= r.sub
       /\ r.open <=> r.outgoingeof # "EOF_SENT"
       /\ r.outgoingeof = "EOF_SENT" => r.os = r.sub /\ r.main = r.sub
       /\ ~r.busy /\ ~r.defunct => r.os = r.main
       /\ r.busy /\ Quiet(r) /\ ~r.done =>
             /\ r.from = r.main /\ r.os = r.main
             /\ r.len > 0 /\ r.main + r.len <= r.sub
       /\ Completed(r) /\ ~r.done =>
             /\ r.from = r.main /\ r.os = r.main + r.lenwritten
             /\ r.lenwritten <= r.len
             /\ r.len > 0 /\ r.main + r.len <= r.sub
       /\ r.pc = "wait" /\ r.ev_to_main => ~r.err
       /\ r.pc = "exited" /\ ~r.done => r.main < r.sub
       /\ r.pc = "exited" /\ r.ev_to_main /\ ~r.moribund => r.err

\* What holds even in the middle of handle_got_event, where the handle may be
\* idle with work still to do.
Core(r) == /\ r \in HandleRec
           /\ Shape(r)
           /\ Protocol(r)
           /\ InputInv(r)
           /\ OutputInv(r)

\* An idle handle has nothing to do.
Idle(r) ==
    ~r.busy /\ ~r.defunct =>
       /\ r.kind = "HT_INPUT" => r.held >= MAX_BACKLOG
       /\ r.kind = "HT_OUTPUT" => /\ r.main = r.sub
                                  /\ r.outgoingeof # "EOF_PENDING"

Good(r) == Core(r) /\ Idle(r)

IndInv == TypeOK /\ \A h \in Handle : Good(hs[h])

-----------------------------------------------------------------------------
(* What the helpers of the main thread preserve.                           *)

\* A blank record is well formed.
LEMMA BlankGood == Good(Blank)
  BY ConstAssumption
  DEF Good, Core, Idle, HandleRec, Shape, Protocol, InputInv, OutputInv, Blank,
      Kinds, ThreadPCs, ThreadAlive, Quiet, Completed

\* Starting a read, or not, below the backlog limit (handle_throttle).
LEMMA ThrottleGood ==
  ASSUME NEW r, Core(r), r.kind = "HT_INPUT"
  PROVE  Good(handle_throttle(r, r.held))
<1> DEFINE s == [r EXCEPT !.ev_from_main = TRUE, !.busy = TRUE]
<1>1. CASE ~r.defunct /\ ~r.busy /\ r.held < MAX_BACKLOG
  <2>1. s \in HandleRec
    BY DEF Core, HandleRec
  <2>2. Shape(s)
    BY <1>1 DEF Core, HandleRec, Shape, ThreadAlive, Blank
  <2>3. Protocol(s)
    BY <1>1 DEF Core, HandleRec, Protocol
  <2>4. InputInv(s)
    BY <1>1, ConstAssumption
    DEF Core, HandleRec, InputInv, Quiet, Completed, Protocol
  <2>5. OutputInv(s)
    BY <1>1 DEF Core, HandleRec, OutputInv
  <2>6. Idle(s)
    BY DEF Core, HandleRec, Idle
  <2> QED
    BY <1>1, <2>1, <2>2, <2>3, <2>4, <2>5, <2>6 DEF Good, Core, handle_throttle
<1>2. CASE ~(~r.defunct /\ ~r.busy /\ r.held < MAX_BACKLOG)
  <2>1. Idle(r)
    BY <1>2, ConstAssumption DEF Core, HandleRec, Idle
  <2> QED
    BY <1>2, <2>1 DEF Good, handle_throttle
<1> QED
  BY <1>1, <1>2

\* Starting a write, sending end of file, or neither (handle_try_output).
LEMMA TryOutputGood ==
  ASSUME NEW r, Core(r), r.kind = "HT_OUTPUT", NEW n \in Nat,
         ~r.busy /\ queued(r) > 0 => n \in 1 .. queued(r)
  PROVE  Good(handle_try_output(r, n))
<1>1. CASE ~r.busy /\ queued(r) > 0
  <2> DEFINE s == [r EXCEPT !.from = r.main, !.len = n,
                            !.ev_from_main = TRUE, !.busy = TRUE]
  <2>1. s \in HandleRec
    BY DEF Core, HandleRec
  <2>2. Shape(s)
    BY DEF Core, HandleRec, Shape, ThreadAlive, Blank
  <2>3. Protocol(s)
    BY <1>1 DEF Core, HandleRec, Protocol
  <2>4. InputInv(s)
    BY DEF Core, HandleRec, InputInv
  <2>5. OutputInv(s)
    BY <1>1
    DEF Core, HandleRec, OutputInv, Protocol, Quiet, Completed, queued
  <2>6. Idle(s)
    BY DEF Core, HandleRec, Idle
  <2>7. handle_try_output(r, n) = s
    BY <1>1 DEF handle_try_output
  <2> QED
    BY <2>1, <2>2, <2>3, <2>4, <2>5, <2>6, <2>7 DEF Good, Core
<1>2. CASE /\ ~r.busy /\ queued(r) = 0
           /\ r.outgoingeof = "EOF_PENDING"
  <2> DEFINE s == [r EXCEPT !.open = FALSE, !.outgoingeof = "EOF_SENT"]
  <2>1. s \in HandleRec
    BY DEF Core, HandleRec
  <2>2. Shape(s)
    BY DEF Core, HandleRec, Shape, ThreadAlive, Blank
  <2>3. Protocol(s)
    BY DEF Core, HandleRec, Protocol
  <2>4. InputInv(s)
    BY DEF Core, HandleRec, InputInv
  <2>5. OutputInv(s)
    BY <1>2
    DEF Core, HandleRec, OutputInv, Protocol, Quiet, Completed, queued
  <2>6. Idle(s)
    BY <1>2 DEF Core, HandleRec, Idle, OutputInv, queued
  <2>7. handle_try_output(r, n) = s
    BY <1>2 DEF handle_try_output
  <2> QED
    BY <2>1, <2>2, <2>3, <2>4, <2>5, <2>6, <2>7 DEF Good, Core
<1>3. CASE /\ ~(~r.busy /\ queued(r) > 0)
           /\ ~(/\ ~r.busy /\ queued(r) = 0
                /\ r.outgoingeof = "EOF_PENDING")
  <2>1. Idle(r)
    BY <1>3 DEF Core, HandleRec, Idle, OutputInv, queued
  <2>2. handle_try_output(r, n) = r
    BY <1>3 DEF handle_try_output
  <2> QED
    BY <2>1, <2>2 DEF Good
<1> QED
  BY <1>1, <1>2, <1>3

\* Disposing of a handle at its client's request (handle_free), also from
\* inside a callback.
LEMMA FreeGood ==
  ASSUME NEW r, Core(r), r.mem = "live", ~r.moribund
  PROVE  Good(handle_free(r))
<1>1. CASE r.busy /\ r.kind # "HT_FOREIGN"
  <2> DEFINE s == [r EXCEPT !.moribund = TRUE]
  <2>1. s \in HandleRec
    BY DEF Core, HandleRec
  <2>2. Shape(s)
    BY <1>1 DEF Core, HandleRec, Shape, ThreadAlive, Blank
  <2>3. Protocol(s)
    BY <1>1 DEF Core, HandleRec, Protocol
  <2>4. InputInv(s)
    BY DEF Core, HandleRec, InputInv
  <2>5. OutputInv(s)
    BY DEF Core, HandleRec, OutputInv, Quiet, Completed
  <2>6. Idle(s)
    BY <1>1 DEF Core, HandleRec, Idle
  <2>7. handle_free(r) = s
    BY <1>1 DEF handle_free
  <2> QED
    BY <2>1, <2>2, <2>3, <2>4, <2>5, <2>6, <2>7 DEF Good, Core
<1>2. CASE ~(r.busy /\ r.kind # "HT_FOREIGN") /\ r.defunct
  <2> DEFINE s == [r EXCEPT !.mem = "freed"]
  <2>1. s \in HandleRec
    BY DEF Core, HandleRec
  <2>2. Shape(s)
    BY <1>2 DEF Core, HandleRec, Shape, Protocol, Kinds, ThreadAlive, Blank
  <2>3. Protocol(s)
    BY DEF Core, HandleRec, Protocol
  <2>4. InputInv(s)
    BY DEF Core, HandleRec, InputInv, Quiet, Completed
  <2>5. OutputInv(s)
    BY DEF Core, HandleRec, OutputInv, Quiet, Completed
  <2>6. Idle(s)
    BY <1>2 DEF Core, HandleRec, Idle
  <2>7. handle_free(r) = s
    BY <1>2 DEF handle_free, handle_destroy
  <2> QED
    BY <2>1, <2>2, <2>3, <2>4, <2>5, <2>6, <2>7 DEF Good, Core
<1>3. CASE ~(r.busy /\ r.kind # "HT_FOREIGN") /\ ~r.defunct
  <2>1. r.kind \in {"HT_INPUT", "HT_OUTPUT"} /\ ~r.busy
    BY <1>3 DEF Core, HandleRec, Shape, Kinds
  <2> DEFINE s == signal_to_die(r)
  <2>2. s \in HandleRec
    BY DEF Core, HandleRec, signal_to_die
  <2>3. Shape(s)
    BY <2>1 DEF Core, HandleRec, Shape, ThreadAlive, Blank, signal_to_die
  <2>4. Protocol(s)
    BY <1>3, <2>1 DEF Core, HandleRec, Protocol, signal_to_die
  <2>5. InputInv(s)
    BY <2>1 DEF Core, HandleRec, InputInv, signal_to_die
  <2>6. OutputInv(s)
    BY <1>3, <2>1
    DEF Core, HandleRec, OutputInv, Protocol, Quiet, Completed, signal_to_die
  <2>7. Idle(s)
    BY DEF Core, HandleRec, Idle, signal_to_die
  <2>8. handle_free(r) = s
    BY <1>3 DEF handle_free
  <2> QED
    BY <2>2, <2>3, <2>4, <2>5, <2>6, <2>7, <2>8 DEF Good, Core
<1> QED
  BY <1>1, <1>2, <1>3

-----------------------------------------------------------------------------
(* What the subthreads preserve.                                           *)

\* ReadFile has put k more units in the buffer.
LEMMA ReadDataGood ==
  ASSUME NEW r, Good(r), r.kind = "HT_INPUT", r.pc = "io",
         NEW k \in 1 .. MaxChunk
  PROVE  Good([r EXCEPT !.from = r.os, !.len = k, !.os = r.os + k,
                        !.err = FALSE, !.pc = "signal"])
<1> DEFINE s == [r EXCEPT !.from = r.os, !.len = k, !.os = r.os + k,
                        !.err = FALSE, !.pc = "signal"]
<1>1. s \in HandleRec
  <2> DEFINE n == r.os + k
  <2>1. k \in Nat /\ n \in Nat /\ r.os \in Nat /\ r \in HandleRec
    BY ConstAssumption DEF Good, Core, HandleRec
  <2> HIDE DEF n
  <2>2. [r EXCEPT !.from = r.os, !.len = k, !.os = n, !.err = FALSE,
                  !.pc = "signal"]
           \in HandleRec
    BY <2>1 DEF HandleRec, ThreadPCs
  <2> QED
    BY <2>2 DEF n
<1>2. Shape(s)
  BY ConstAssumption DEF Core, HandleRec, Shape, ThreadAlive, Blank, Good
<1>3. Protocol(s)
  BY ConstAssumption DEF Core, HandleRec, Protocol, Good
<1>4. InputInv(s)
  BY ConstAssumption
  DEF Core, HandleRec, InputInv, Protocol, Quiet, Completed, Good
<1>5. OutputInv(s)
  BY ConstAssumption
  DEF Core, HandleRec, OutputInv, Protocol, Quiet, Completed, Good
<1>6. Idle(s)
  BY ConstAssumption DEF Core, HandleRec, Idle, Protocol, Good
<1> QED
  BY <1>1, <1>2, <1>3, <1>4, <1>5, <1>6 DEF Good, Core

\* ReadFile has returned end of file or an error, or end of file that
\* IGNOREEOF makes the thread skip.
LEMMA ReadEofGood ==
  ASSUME NEW r, Good(r), r.kind = "HT_INPUT", r.pc = "io",
         NEW e \in BOOLEAN, NEW pc \in {"io", "signal"}
  PROVE  Good([r EXCEPT !.len = 0, !.err = e, !.pc = pc])
<1> DEFINE s == [r EXCEPT !.len = 0, !.err = e, !.pc = pc]
<1>1. s \in HandleRec
  BY ConstAssumption DEF Core, HandleRec, ThreadPCs, Good
<1>2. Shape(s)
  BY ConstAssumption DEF Core, HandleRec, Shape, ThreadAlive, Blank, Good
<1>3. Protocol(s)
  BY ConstAssumption DEF Core, HandleRec, Protocol, Good
<1>4. InputInv(s)
  BY ConstAssumption
  DEF Core, HandleRec, InputInv, Protocol, Quiet, Completed, Good
<1>5. OutputInv(s)
  BY ConstAssumption
  DEF Core, HandleRec, OutputInv, Protocol, Quiet, Completed, Good
<1>6. Idle(s)
  BY ConstAssumption DEF Core, HandleRec, Idle, Protocol, Good
<1> QED
  BY <1>1, <1>2, <1>3, <1>4, <1>5, <1>6 DEF Good, Core

\* The input thread announces the result of a read.
LEMMA InputSignalGood ==
  ASSUME NEW r, Good(r), r.kind = "HT_INPUT", r.pc = "signal"
  PROVE  Good([r EXCEPT !.ev_to_main = TRUE,
                        !.pc = IF r.len = 0 THEN "exited" ELSE "wait"])
<1> DEFINE s == [r EXCEPT !.ev_to_main = TRUE,
                        !.pc = IF r.len = 0 THEN "exited" ELSE "wait"]
<1>1. s \in HandleRec
  BY DEF Core, HandleRec, ThreadPCs, Good
<1>2. Shape(s)
  BY DEF Core, HandleRec, Shape, ThreadAlive, Blank, Good
<1>3. Protocol(s)
  BY DEF Core, HandleRec, Protocol, Good
<1>4. InputInv(s)
  BY DEF Core, HandleRec, InputInv, Protocol, Quiet, Completed, Good
<1>5. OutputInv(s)
  BY DEF Core, HandleRec, OutputInv, Protocol, Quiet, Completed, Good
<1>6. Idle(s)
  BY DEF Core, HandleRec, Idle, Protocol, Good
<1> QED
  BY <1>1, <1>2, <1>3, <1>4, <1>5, <1>6 DEF Good, Core

\* A subthread takes the signal it waited for.
LEMMA ThreadWaitGood ==
  ASSUME NEW r, Good(r), r.kind \in {"HT_INPUT", "HT_OUTPUT"},
         r.pc = "wait", r.ev_from_main
  PROVE  Good([r EXCEPT !.ev_from_main = FALSE, !.pc = "woken"])
<1> DEFINE s == [r EXCEPT !.ev_from_main = FALSE, !.pc = "woken"]
<1>1. s \in HandleRec
  BY DEF Core, HandleRec, ThreadPCs, Good
<1>2. Shape(s)
  BY DEF Core, HandleRec, Shape, ThreadAlive, Blank, Good
<1>3. Protocol(s)
  BY DEF Core, HandleRec, Protocol, Good
<1>4. InputInv(s)
  BY DEF Core, HandleRec, InputInv, Protocol, Quiet, Completed, Good
<1>5. OutputInv(s)
  BY DEF Core, HandleRec, OutputInv, Protocol, Quiet, Completed, Good
<1>6. Idle(s)
  BY DEF Core, HandleRec, Idle, Protocol, Good
<1> QED
  BY <1>1, <1>2, <1>3, <1>4, <1>5, <1>6 DEF Good, Core

\* A subthread that was told to die acknowledges and ends.
LEMMA ThreadDieGood ==
  ASSUME NEW r, Good(r), r.kind \in {"HT_INPUT", "HT_OUTPUT"},
         r.pc = "woken", r.done
  PROVE  Good([r EXCEPT !.ev_to_main = TRUE, !.pc = "exited"])
<1> DEFINE s == [r EXCEPT !.ev_to_main = TRUE, !.pc = "exited"]
<1>1. s \in HandleRec
  BY DEF Core, HandleRec, ThreadPCs, Good
<1>2. Shape(s)
  BY DEF Core, HandleRec, Shape, ThreadAlive, Blank, Good
<1>3. Protocol(s)
  BY DEF Core, HandleRec, Protocol, Good
<1>4. InputInv(s)
  BY DEF Core, HandleRec, InputInv, Protocol, Quiet, Completed, Good
<1>5. OutputInv(s)
  BY DEF Core, HandleRec, OutputInv, Protocol, Quiet, Completed, Good
<1>6. Idle(s)
  BY DEF Core, HandleRec, Idle, Protocol, Good
<1> QED
  BY <1>1, <1>2, <1>3, <1>4, <1>5, <1>6 DEF Good, Core

\* A subthread that was asked for an operation begins it.
LEMMA ThreadBeginGood ==
  ASSUME NEW r, Good(r), r.kind \in {"HT_INPUT", "HT_OUTPUT"},
         r.pc = "woken", ~r.done
  PROVE  Good([r EXCEPT !.pc = "io"])
<1> DEFINE s == [r EXCEPT !.pc = "io"]
<1>1. s \in HandleRec
  BY DEF Core, HandleRec, ThreadPCs, Good
<1>2. Shape(s)
  BY DEF Core, HandleRec, Shape, ThreadAlive, Blank, Good
<1>3. Protocol(s)
  BY DEF Core, HandleRec, Protocol, Good
<1>4. InputInv(s)
  BY DEF Core, HandleRec, InputInv, Protocol, Quiet, Completed, Good
<1>5. OutputInv(s)
  BY DEF Core, HandleRec, OutputInv, Protocol, Quiet, Completed, Good
<1>6. Idle(s)
  BY DEF Core, HandleRec, Idle, Protocol, Good
<1> QED
  BY <1>1, <1>2, <1>3, <1>4, <1>5, <1>6 DEF Good, Core

\* WriteFile has written k units.
LEMMA WriteGood ==
  ASSUME NEW r, Good(r), r.kind = "HT_OUTPUT", r.pc = "io",
         NEW k \in 0 .. r.len, NEW e \in BOOLEAN
  PROVE  Good([r EXCEPT !.os = r.os + k, !.lenwritten = k, !.err = e,
                        !.pc = "signal"])
<1> DEFINE s == [r EXCEPT !.os = r.os + k, !.lenwritten = k, !.err = e,
                        !.pc = "signal"]
<1>1. s \in HandleRec
  <2> DEFINE n == r.os + k
  <2>1. k \in Nat /\ n \in Nat /\ r.os \in Nat /\ r \in HandleRec
    BY DEF Good, Core, HandleRec
  <2> HIDE DEF n
  <2>2. [r EXCEPT !.os = n, !.lenwritten = k, !.err = e, !.pc = "signal"]
           \in HandleRec
    BY <2>1 DEF HandleRec, ThreadPCs
  <2> QED
    BY <2>2 DEF n
<1>2. Shape(s)
  BY DEF Core, HandleRec, Shape, ThreadAlive, Blank, Good
<1>3. Protocol(s)
  BY DEF Core, HandleRec, Protocol, Good
<1>4. InputInv(s)
  BY DEF Core, HandleRec, InputInv, Protocol, Quiet, Completed, Good
<1>5. OutputInv(s)
  BY DEF Core, HandleRec, OutputInv, Protocol, Quiet, Completed, Good
<1>6. Idle(s)
  BY DEF Core, HandleRec, Idle, Protocol, Good
<1> QED
  BY <1>1, <1>2, <1>3, <1>4, <1>5, <1>6 DEF Good, Core

\* The output thread announces the result of a write.
LEMMA OutputSignalGood ==
  ASSUME NEW r, Good(r), r.kind = "HT_OUTPUT", r.pc = "signal"
  PROVE  Good([r EXCEPT !.ev_to_main = TRUE,
                        !.pc = IF r.err THEN "exited" ELSE "wait"])
<1> DEFINE s == [r EXCEPT !.ev_to_main = TRUE,
                        !.pc = IF r.err THEN "exited" ELSE "wait"]
<1>1. s \in HandleRec
  BY DEF Core, HandleRec, ThreadPCs, Good
<1>2. Shape(s)
  BY DEF Core, HandleRec, Shape, ThreadAlive, Blank, Good
<1>3. Protocol(s)
  BY DEF Core, HandleRec, Protocol, Good
<1>4. InputInv(s)
  BY DEF Core, HandleRec, InputInv, Protocol, Quiet, Completed, Good
<1>5. OutputInv(s)
  BY DEF Core, HandleRec, OutputInv, Protocol, Quiet, Completed, Good
<1>6. Idle(s)
  BY DEF Core, HandleRec, Idle, Protocol, Good
<1> QED
  BY <1>1, <1>2, <1>3, <1>4, <1>5, <1>6 DEF Good, Core

-----------------------------------------------------------------------------
(* What the operations of the main thread preserve.               *)

\* The three ways of making a handle.
LEMMA NewGood ==
  ASSUME NEW ign \in BOOLEAN
  PROVE  /\ Good([Blank EXCEPT !.kind = "HT_INPUT", !.mem = "live", !.pc = "io",
                               !.busy = TRUE, !.open = TRUE, !.ignoreeof = ign])
         /\ Good([Blank EXCEPT !.kind = "HT_OUTPUT", !.mem = "live",
                               !.pc = "wait", !.open = TRUE])
         /\ Good([Blank EXCEPT !.kind = "HT_FOREIGN", !.mem = "live",
                               !.defunct = TRUE, !.busy = TRUE])
<1>1. Good([Blank EXCEPT !.kind = "HT_INPUT", !.mem = "live", !.pc = "io",
                    !.busy = TRUE, !.open = TRUE, !.ignoreeof = ign])
  <2> DEFINE s == [Blank EXCEPT !.kind = "HT_INPUT", !.mem = "live", !.pc = "io",
                  !.busy = TRUE, !.open = TRUE, !.ignoreeof = ign]
  <2>1. s \in HandleRec
    BY ConstAssumption DEF HandleRec, Blank, Kinds, ThreadPCs
  <2>2. Shape(s)
    BY ConstAssumption DEF HandleRec, Blank, Kinds, ThreadPCs, Shape, ThreadAlive
  <2>3. Protocol(s)
    BY ConstAssumption DEF HandleRec, Blank, Kinds, ThreadPCs, Protocol
  <2>4. InputInv(s)
    BY ConstAssumption DEF HandleRec, Blank, Kinds, ThreadPCs, InputInv, Quiet, Completed
  <2>5. OutputInv(s)
    BY ConstAssumption DEF HandleRec, Blank, Kinds, ThreadPCs, OutputInv, Quiet, Completed
  <2>6. Idle(s)
    BY ConstAssumption DEF HandleRec, Blank, Kinds, ThreadPCs, Idle
  <2> QED
    BY <2>1, <2>2, <2>3, <2>4, <2>5, <2>6 DEF Good, Core
<1>2. Good([Blank EXCEPT !.kind = "HT_OUTPUT", !.mem = "live",
                    !.pc = "wait", !.open = TRUE])
  <2> DEFINE s == [Blank EXCEPT !.kind = "HT_OUTPUT", !.mem = "live",
                  !.pc = "wait", !.open = TRUE]
  <2>1. s \in HandleRec
    BY ConstAssumption DEF HandleRec, Blank, Kinds, ThreadPCs
  <2>2. Shape(s)
    BY ConstAssumption DEF HandleRec, Blank, Kinds, ThreadPCs, Shape, ThreadAlive
  <2>3. Protocol(s)
    BY ConstAssumption DEF HandleRec, Blank, Kinds, ThreadPCs, Protocol
  <2>4. InputInv(s)
    BY ConstAssumption DEF HandleRec, Blank, Kinds, ThreadPCs, InputInv, Quiet, Completed
  <2>5. OutputInv(s)
    BY ConstAssumption DEF HandleRec, Blank, Kinds, ThreadPCs, OutputInv, Quiet, Completed
  <2>6. Idle(s)
    BY ConstAssumption DEF HandleRec, Blank, Kinds, ThreadPCs, Idle
  <2> QED
    BY <2>1, <2>2, <2>3, <2>4, <2>5, <2>6 DEF Good, Core
<1>3. Good([Blank EXCEPT !.kind = "HT_FOREIGN", !.mem = "live",
                    !.defunct = TRUE, !.busy = TRUE])
  <2> DEFINE s == [Blank EXCEPT !.kind = "HT_FOREIGN", !.mem = "live",
                  !.defunct = TRUE, !.busy = TRUE]
  <2>1. s \in HandleRec
    BY ConstAssumption DEF HandleRec, Blank, Kinds, ThreadPCs
  <2>2. Shape(s)
    BY ConstAssumption DEF HandleRec, Blank, Kinds, ThreadPCs, Shape, ThreadAlive
  <2>3. Protocol(s)
    BY ConstAssumption DEF HandleRec, Blank, Kinds, ThreadPCs, Protocol
  <2>4. InputInv(s)
    BY ConstAssumption DEF HandleRec, Blank, Kinds, ThreadPCs, InputInv, Quiet, Completed
  <2>5. OutputInv(s)
    BY ConstAssumption DEF HandleRec, Blank, Kinds, ThreadPCs, OutputInv, Quiet, Completed
  <2>6. Idle(s)
    BY ConstAssumption DEF HandleRec, Blank, Kinds, ThreadPCs, Idle
  <2> QED
    BY <2>1, <2>2, <2>3, <2>4, <2>5, <2>6 DEF Good, Core
<1> QED
  BY <1>1, <1>2, <1>3

\* Queueing k more units does no harm (the bufchain_add in handle_write).
LEMMA AddCore ==
  ASSUME NEW r, Core(r), r.kind = "HT_OUTPUT", r.outgoingeof = "EOF_NO",
         NEW k \in Nat
  PROVE  Core([r EXCEPT !.sub = r.sub + k])
<1> DEFINE s == [r EXCEPT !.sub = r.sub + k]
<1>1. s \in HandleRec
  <2> DEFINE n == r.sub + k
  <2>1. n \in Nat /\ r \in HandleRec
    BY DEF Good, Core, HandleRec, OutputInv, Protocol, InputInv, Completed
  <2> HIDE DEF n
  <2>2. [r EXCEPT !.sub = n] \in HandleRec
    BY <2>1 DEF HandleRec
  <2> QED
    BY <2>2 DEF n
<1>2. Shape(s)
  BY DEF Core, HandleRec, Shape, ThreadAlive, Blank
<1>3. Protocol(s)
  BY DEF Core, HandleRec, Protocol
<1>4. InputInv(s)
  BY DEF Core, HandleRec, InputInv, Protocol, Quiet, Completed
<1>5. OutputInv(s)
  BY DEF Core, HandleRec, OutputInv, Protocol, Quiet, Completed
<1> QED
  BY <1>1, <1>2, <1>3, <1>4, <1>5 DEF Core

\* Asking for end of file (handle_write_eof).
LEMMA EofCore ==
  ASSUME NEW r, Core(r), r.kind = "HT_OUTPUT", r.outgoingeof = "EOF_NO"
  PROVE  Core([r EXCEPT !.outgoingeof = "EOF_PENDING"])
<1> DEFINE s == [r EXCEPT !.outgoingeof = "EOF_PENDING"]
<1>1. s \in HandleRec
  BY DEF Core, HandleRec, ThreadPCs
<1>2. Shape(s)
  BY DEF Core, HandleRec, Shape, ThreadAlive, Blank
<1>3. Protocol(s)
  BY DEF Core, HandleRec, Protocol
<1>4. InputInv(s)
  BY DEF Core, HandleRec, InputInv, Protocol, Quiet, Completed
<1>5. OutputInv(s)
  BY DEF Core, HandleRec, OutputInv, Protocol, Quiet, Completed
<1> QED
  BY <1>1, <1>2, <1>3, <1>4, <1>5 DEF Core

\* The client's backlog shrinks (handle_unthrottle).
LEMMA DigestCore ==
  ASSUME NEW r, Core(r), r.kind = "HT_INPUT", NEW k \in 1 .. r.held
  PROVE  Core([r EXCEPT !.held = r.held - k])
<1> DEFINE s == [r EXCEPT !.held = r.held - k]
<1>1. s \in HandleRec
  <2> DEFINE n == r.held - k
  <2>1. n \in Nat /\ r \in HandleRec
    BY DEF Good, Core, HandleRec, OutputInv, Protocol, InputInv, Completed
  <2> HIDE DEF n
  <2>2. [r EXCEPT !.held = n] \in HandleRec
    BY <2>1 DEF HandleRec
  <2> QED
    BY <2>2 DEF n
<1>2. Shape(s)
  BY ConstAssumption DEF Core, HandleRec, Shape, ThreadAlive, Blank
<1>3. Protocol(s)
  BY ConstAssumption DEF Core, HandleRec, Protocol
<1>4. InputInv(s)
  BY ConstAssumption DEF Core, HandleRec, InputInv, Protocol, Quiet, Completed
<1>5. OutputInv(s)
  BY ConstAssumption
  DEF Core, HandleRec, OutputInv, Protocol, Quiet, Completed
<1> QED
  BY <1>1, <1>2, <1>3, <1>4, <1>5 DEF Core

\* A foreign event is signalled, or its signal is taken.
LEMMA ForeignGood ==
  ASSUME NEW r, Good(r), r.kind = "HT_FOREIGN", NEW b \in BOOLEAN
  PROVE  Good([r EXCEPT !.ev_to_main = b])
<1> DEFINE s == [r EXCEPT !.ev_to_main = b]
<1>1. s \in HandleRec
  BY DEF Core, HandleRec, ThreadPCs, Good
<1>2. Shape(s)
  BY DEF Core, HandleRec, Shape, ThreadAlive, Blank, Good
<1>3. Protocol(s)
  BY DEF Core, HandleRec, Protocol, Good
<1>4. InputInv(s)
  BY DEF Core, HandleRec, InputInv, Protocol, Quiet, Completed, Good
<1>5. OutputInv(s)
  BY DEF Core, HandleRec, OutputInv, Protocol, Quiet, Completed, Good
<1>6. Idle(s)
  BY DEF Core, HandleRec, Idle, Protocol, Good
<1> QED
  BY <1>1, <1>2, <1>3, <1>4, <1>5, <1>6 DEF Good, Core

\* An event on a handle that its client has already freed.
LEMMA MoribundGood ==
  ASSUME NEW r, Good(r), r.mem = "live", r.busy, r.ev_to_main, r.moribund
  PROVE  Good(GotEventMoribund(Reset(r)))
<1>0. r.kind \in {"HT_INPUT", "HT_OUTPUT"}
  BY DEF Good, Core, HandleRec, Shape, Kinds
<1>1. CASE r.done
  <2> DEFINE s == [r EXCEPT !.ev_to_main = FALSE, !.mem = "freed"]
  <2>1. r.pc = "exited"
    BY <1>0, <1>1 DEF Good, Core, HandleRec, Shape, Protocol, ThreadPCs
  <2>2. s \in HandleRec
    BY <1>0, <1>1, <2>1 DEF Core, HandleRec, ThreadPCs, Good
  <2>3. Shape(s)
    BY <1>0, <1>1, <2>1 DEF Core, HandleRec, Shape, ThreadAlive, Blank, Good
  <2>4. Protocol(s)
    BY <1>0, <1>1, <2>1 DEF Core, HandleRec, Protocol, Good
  <2>5. InputInv(s)
    BY <1>0, <1>1, <2>1
    DEF Core, HandleRec, InputInv, Protocol, Quiet, Completed, Good
  <2>6. OutputInv(s)
    BY <1>0, <1>1, <2>1
    DEF Core, HandleRec, OutputInv, Protocol, Quiet, Completed, Good
  <2>7. Idle(s)
    BY <1>0, <1>1, <2>1 DEF Core, HandleRec, Idle, Protocol, Good
  <2>8. GotEventMoribund(Reset(r)) = s
    BY <1>1 DEF Good, Core, HandleRec, GotEventMoribund, Reset, handle_destroy
  <2> QED
    BY <2>8, <2>2, <2>3, <2>4, <2>5, <2>6, <2>7 DEF Good, Core
<1>2. CASE ~r.done
  <2> DEFINE s == [r EXCEPT !.ev_to_main = FALSE, !.moribund = TRUE,
                            !.done = TRUE, !.busy = TRUE, !.ev_from_main = TRUE]
  <2>1. s \in HandleRec
    BY <1>0, <1>2 DEF Core, HandleRec, ThreadPCs, Good
  <2>2. Shape(s)
    BY <1>0, <1>2 DEF Core, HandleRec, Shape, ThreadAlive, Blank, Good
  <2>3. Protocol(s)
    BY <1>0, <1>2 DEF Core, HandleRec, Protocol, Good
  <2>4. InputInv(s)
    BY <1>0, <1>2
    DEF Core, HandleRec, InputInv, Protocol, Quiet, Completed, Good
  <2>5. OutputInv(s)
    BY <1>0, <1>2
    DEF Core, HandleRec, OutputInv, Protocol, Quiet, Completed, Good
  <2>6. Idle(s)
    BY <1>0, <1>2 DEF Core, HandleRec, Idle, Protocol, Good
  <2>7. GotEventMoribund(Reset(r)) = s
    BY <1>2
    DEF Good, Core, HandleRec, GotEventMoribund, Reset, signal_to_die
  <2> QED
    BY <2>7, <2>1, <2>2, <2>3, <2>4, <2>5, <2>6 DEF Good, Core
<1> QED
  BY <1>1, <1>2

\* End of file or an error on an input handle: the subthread has gone.
LEMMA InputEofCore ==
  ASSUME NEW r, Good(r), r.mem = "live", r.kind = "HT_INPUT", r.busy,
         r.ev_to_main, ~r.moribund, r.len = 0
  PROVE  Core([r EXCEPT !.ev_to_main = FALSE, !.busy = FALSE, !.defunct = TRUE])
<1> DEFINE s == [r EXCEPT !.ev_to_main = FALSE, !.busy = FALSE,
                          !.defunct = TRUE]
<1>1. r.pc = "exited"
  BY DEF Good, Core, HandleRec, Shape, Protocol, InputInv, Completed, ThreadPCs
<1>2. s \in HandleRec
  BY <1>1
  DEF Good, Core, HandleRec, ThreadPCs
<1>3. Shape(s)
  BY <1>1
  DEF Good, Core, HandleRec, Shape, ThreadAlive, Blank
<1>4. Protocol(s)
  BY <1>1
  DEF Good, Core, HandleRec, Protocol
<1>5. InputInv(s)
  BY <1>1
  DEF Good, Core, HandleRec, InputInv, Protocol, Quiet, Completed
<1>6. OutputInv(s)
  BY <1>1
  DEF Good, Core, HandleRec, OutputInv, Protocol, Quiet, Completed
<1> QED
  BY <1>2, <1>3, <1>4, <1>5, <1>6 DEF Core

\* Data on an input handle: the subthread waits for the next request.
LEMMA InputDataCore ==
  ASSUME NEW r, Good(r), r.mem = "live", r.kind = "HT_INPUT", r.busy,
         r.ev_to_main, ~r.moribund, r.len # 0
  PROVE  Core([r EXCEPT !.ev_to_main = FALSE, !.busy = FALSE,
                        !.main = r.main + r.len, !.held = r.held + r.len])
<1> DEFINE m == r.main + r.len
           c == r.held + r.len
           s == [r EXCEPT !.ev_to_main = FALSE, !.busy = FALSE,
                          !.main = m, !.held = c]
<1>1. /\ r.pc = "wait"
      /\ ~r.defunct
      /\ r.os = m
      /\ r.len \in Nat
      /\ m \in Nat
      /\ c \in Nat
      /\ c < MAX_BACKLOG + MaxChunk
      /\ ~r.ev_from_main
  BY ConstAssumption
  DEF Good, Core, HandleRec, Shape, Protocol, InputInv, Completed, ThreadPCs
<1> HIDE DEF m, c
<1>2. s \in HandleRec
  BY <1>1, ConstAssumption
  DEF Good, Core, HandleRec, ThreadPCs
<1>3. Shape(s)
  BY <1>1, ConstAssumption
  DEF Good, Core, HandleRec, Shape, ThreadAlive, Blank
<1>4. Protocol(s)
  BY <1>1, ConstAssumption
  DEF Good, Core, HandleRec, Protocol
<1>5. InputInv(s)
  BY <1>1, ConstAssumption
  DEF Good, Core, HandleRec, InputInv, Protocol, Quiet, Completed
<1>6. OutputInv(s)
  BY <1>1, ConstAssumption
  DEF Good, Core, HandleRec, OutputInv, Protocol, Quiet, Completed
<1>7. Core(s)
  BY <1>2, <1>3, <1>4, <1>5, <1>6 DEF Core
<1> QED
  BY <1>7 DEF m, c

\* A write has failed: the output thread has gone.
LEMMA OutputErrorCore ==
  ASSUME NEW r, Good(r), r.mem = "live", r.kind = "HT_OUTPUT", r.busy,
         r.ev_to_main, ~r.moribund, r.err
  PROVE  Core([r EXCEPT !.ev_to_main = FALSE, !.busy = FALSE, !.defunct = TRUE])
<1> DEFINE s == [r EXCEPT !.ev_to_main = FALSE, !.busy = FALSE,
                          !.defunct = TRUE]
<1>1. r.pc = "exited" /\ ~r.done
  BY DEF Good, Core, HandleRec, Shape, Protocol, OutputInv, ThreadPCs
<1>2. s \in HandleRec
  BY <1>1
  DEF Good, Core, HandleRec, ThreadPCs
<1>3. Shape(s)
  BY <1>1
  DEF Good, Core, HandleRec, Shape, ThreadAlive, Blank
<1>4. Protocol(s)
  BY <1>1
  DEF Good, Core, HandleRec, Protocol
<1>5. InputInv(s)
  BY <1>1
  DEF Good, Core, HandleRec, InputInv, Protocol, Quiet, Completed
<1>6. OutputInv(s)
  BY <1>1
  DEF Good, Core, HandleRec, OutputInv, Protocol, Quiet, Completed
<1> QED
  BY <1>2, <1>3, <1>4, <1>5, <1>6 DEF Core

\* A write has succeeded, perhaps in part: what it wrote leaves the queue.
LEMMA ConsumeCore ==
  ASSUME NEW r, Good(r), r.mem = "live", r.kind = "HT_OUTPUT", r.busy,
         r.ev_to_main, ~r.moribund, ~r.err
  PROVE  Core([r EXCEPT !.ev_to_main = FALSE, !.busy = FALSE,
                        !.main = r.main + r.lenwritten])
<1> DEFINE m == r.main + r.lenwritten
           s == [r EXCEPT !.ev_to_main = FALSE, !.busy = FALSE, !.main = m]
<1>1. r.pc = "wait" /\ ~r.defunct /\ ~r.ev_from_main
  BY DEF Good, Core, HandleRec, Shape, Protocol, OutputInv, ThreadPCs
<1>2. r.outgoingeof # "EOF_SENT"
  BY <1>1 DEF Good, Core, HandleRec, Protocol, OutputInv, Completed
<1>3. r.os = m /\ m \in Nat /\ m <= r.sub
  BY <1>1 DEF Good, Core, HandleRec, Protocol, OutputInv, Completed
<1> HIDE DEF m
<1>4. s \in HandleRec
  BY <1>1, <1>2, <1>3
  DEF Good, Core, HandleRec, ThreadPCs
<1>5. Shape(s)
  BY <1>1, <1>2, <1>3
  DEF Good, Core, HandleRec, Shape, ThreadAlive, Blank
<1>6. Protocol(s)
  BY <1>1, <1>2, <1>3
  DEF Good, Core, HandleRec, Protocol
<1>7. InputInv(s)
  BY <1>1, <1>2, <1>3
  DEF Good, Core, HandleRec, InputInv, Protocol, Quiet, Completed
<1>8. OutputInv(s)
  BY <1>1, <1>2, <1>3
  DEF Good, Core, HandleRec, OutputInv, Protocol, Quiet, Completed
<1>9. Core(s)
  BY <1>4, <1>5, <1>6, <1>7, <1>8 DEF Core
<1> QED
  BY <1>9 DEF m

\* handle_got_event on an input handle, whatever gotdata does.
LEMMA GotInputGood ==
  ASSUME NEW r, Good(r), r.mem = "live", r.kind = "HT_INPUT", r.busy,
         r.ev_to_main, ~r.moribund, NEW free \in BOOLEAN
  PROVE  Good(GotInput(Reset(r), free))
<1>0. r \in HandleRec
  BY DEF Good, Core
<1>1. CASE r.len = 0
  <2> DEFINE s == [r EXCEPT !.ev_to_main = FALSE, !.busy = FALSE,
                            !.defunct = TRUE]
  <2>1. Core(s)
    BY <1>1, InputEofCore
  <2>2. s.mem = "live" /\ ~s.moribund /\ s.defunct
    BY <1>0 DEF HandleRec
  <2>3. Good(s) /\ Good(handle_free(s))
    BY <2>1, <2>2, FreeGood DEF Good, Idle
  <2>4. GotInput(Reset(r), free) = IF free THEN handle_free(s) ELSE s
    BY <1>0, <1>1 DEF GotInput, Reset, HandleRec
  <2> QED
    BY <2>3, <2>4
<1>2. CASE r.len # 0
  <2> DEFINE s == [r EXCEPT !.ev_to_main = FALSE, !.busy = FALSE,
                            !.main = r.main + r.len, !.held = r.held + r.len]
             t == IF free THEN handle_free(s) ELSE s
  <2>1. Core(s)
    BY <1>2, InputDataCore
  <2>2. /\ s.mem = "live" /\ ~s.moribund /\ s.kind = "HT_INPUT"
        /\ s.held = r.held + r.len
    BY <1>0 DEF HandleRec
  <2> HIDE DEF s
  <2>3. Core(t)
    BY <2>1, <2>2, FreeGood DEF Good
  <2>4. t.kind = "HT_INPUT" /\ t.held = s.held
    BY <2>1, <2>2 DEF Core, HandleRec, handle_free, handle_destroy, signal_to_die
  <2>5. Good(handle_throttle(t, t.held))
    BY <2>3, <2>4, ThrottleGood
  <2>6. GotInput(Reset(r), free) = handle_throttle(t, r.held + r.len)
    BY <1>0, <1>2 DEF GotInput, Reset, HandleRec, s
  <2> QED
    BY <2>2, <2>4, <2>5, <2>6
<1> QED
  BY <1>1, <1>2

\* handle_got_event after a failed write, whatever sentdata does.
LEMMA GotOutputErrorGood ==
  ASSUME NEW r, Good(r), r.mem = "live", r.kind = "HT_OUTPUT", r.busy,
         r.ev_to_main, ~r.moribund, r.err, NEW free \in BOOLEAN
  PROVE  Good(GotOutputError(Reset(r), free))
<1> DEFINE s == [r EXCEPT !.ev_to_main = FALSE, !.busy = FALSE,
                          !.defunct = TRUE]
<1>0. r \in HandleRec
  BY DEF Good, Core
<1>1. Core(s)
  BY OutputErrorCore
<1>2. s.mem = "live" /\ ~s.moribund /\ s.defunct
  BY <1>0 DEF HandleRec
<1>3. Good(s) /\ Good(handle_free(s))
  BY <1>1, <1>2, FreeGood DEF Good, Idle
<1>4. GotOutputError(Reset(r), free) = IF free THEN handle_free(s) ELSE s
  BY <1>0 DEF GotOutputError, Reset, HandleRec
<1> QED
  BY <1>3, <1>4

\* handle_got_event after a successful write, whatever sentdata does.
LEMMA GotOutputGood ==
  ASSUME NEW r, Good(r), r.mem = "live", r.kind = "HT_OUTPUT", r.busy,
         r.ev_to_main, ~r.moribund, ~r.err,
         NEW free \in BOOLEAN, NEW k \in 0 .. MaxChunk,
         k > 0 => r.outgoingeof = "EOF_NO",
         NEW n \in Prefixes(Consume(Reset(r)), k),
         free => k = 0
  PROVE  Good(GotOutput(Reset(r), free, k, n))
<1> DEFINE s == Consume(Reset(r))
           a == [s EXCEPT !.sub = s.sub + k]
<1>0. r \in HandleRec
  BY DEF Good, Core
<1>1. Core(s)
  <2>1. s = [r EXCEPT !.ev_to_main = FALSE, !.busy = FALSE,
                      !.main = r.main + r.lenwritten]
    BY <1>0 DEF Consume, Reset, HandleRec
  <2> QED
    BY <2>1, ConsumeCore
<1>2. /\ s.mem = "live" /\ ~s.moribund /\ ~s.busy
      /\ s.kind = "HT_OUTPUT"
      /\ s.outgoingeof = r.outgoingeof
  BY <1>0 DEF HandleRec, Consume, Reset
<1>3. n \in Prefixes(s, k)
  OBVIOUS
<1>4. GotOutput(Reset(r), free, k, n) =
         handle_try_output(IF free THEN handle_free(s)
                           ELSE IF k = 0 THEN s
                           ELSE handle_try_output(a, n), n)
  BY DEF GotOutput
<1> HIDE DEF s
<1>5. /\ k \in Nat
      /\ queued(s) \in Nat
      /\ n \in Nat
      /\ queued(s) + k > 0 => n \in 1 .. (queued(s) + k)
  BY <1>1, <1>2, <1>3, ConstAssumption
  DEF Core, HandleRec, OutputInv, queued, Prefixes
<1>6. CASE free
  <2>1. Core(handle_free(s))
    BY <1>1, <1>2, FreeGood DEF Good
  <2>2. /\ handle_free(s).kind = "HT_OUTPUT"
        /\ ~handle_free(s).busy => queued(handle_free(s)) = queued(s)
    BY <1>1, <1>2
    DEF Core, HandleRec, handle_free, handle_destroy, signal_to_die, queued
  <2>3. k = 0
    BY <1>6
  <2>4. ~handle_free(s).busy /\ queued(handle_free(s)) > 0
           => n \in 1 .. queued(handle_free(s))
    BY <2>2, <2>3, <1>5
  <2>5. Good(handle_try_output(handle_free(s), n))
    BY <1>5, <2>1, <2>2, <2>4, TryOutputGood
  <2> QED
    BY <1>4, <1>6, <2>5
<1>7. CASE ~free /\ k = 0
  <2>1. ~s.busy /\ queued(s) > 0 => n \in 1 .. queued(s)
    BY <1>5, <1>7
  <2>2. Good(handle_try_output(s, n))
    BY <1>1, <1>2, <1>5, <2>1, TryOutputGood
  <2> QED
    BY <1>4, <1>7, <2>2
<1>8. CASE ~free /\ k # 0
  <2>1. s.outgoingeof = "EOF_NO"
    BY <1>2, <1>5, <1>8
  <2>2. Core(a)
    BY <1>1, <1>2, <1>5, <2>1, AddCore
  <2>3. a.kind = "HT_OUTPUT" /\ queued(a) = queued(s) + k
    BY <1>1, <1>2, <1>5 DEF Core, HandleRec, queued
  <2> HIDE DEF a
  <2>4. queued(a) > 0 => n \in 1 .. queued(a)
    BY <1>5, <2>3
  <2>5. Good(handle_try_output(a, n))
    BY <1>5, <2>2, <2>3, <2>4, TryOutputGood
  <2> DEFINE b == handle_try_output(a, n)
  <2>6. /\ b.kind = "HT_OUTPUT"
        /\ queued(b) = queued(a)
    BY <2>2, <2>3 DEF Core, HandleRec, handle_try_output, queued
  <2>7. Core(b)
    BY <2>5 DEF Good
  <2> HIDE DEF b
  <2>8. ~b.busy /\ queued(b) > 0 => n \in 1 .. queued(b)
    BY <2>4, <2>6
  <2>9. Good(handle_try_output(b, n))
    BY <1>5, <2>6, <2>7, <2>8, TryOutputGood
  <2> QED
    BY <1>4, <1>8, <2>9 DEF b
<1> QED
  BY <1>6, <1>7, <1>8

-----------------------------------------------------------------------------
(* The invariant is inductive.                                             *)

\* A step replaces one record; if the new one is well formed, so is the state.
LEMMA SetGood ==
  ASSUME IndInv, NEW h \in Handle, NEW s, Good(s), Set(h, s)
  PROVE  IndInv'
  BY DEF IndInv, TypeOK, Set, Good, Core

\* Every step of the subthread of h keeps the invariant.
LEMMA ThreadStepInv ==
  ASSUME IndInv, NEW h \in Handle, ThreadStep(h)
  PROVE  IndInv'
<1> DEFINE r == hs[h]
<1>0. Good(r) /\ r \in HandleRec
  BY DEF IndInv, Good, Core
<1>1. CASE InputRead(h)
  <2>0. r.kind = "HT_INPUT" /\ r.pc = "io"
    BY <1>1 DEF InputRead, Thread
  <2>1. CASE \E k \in 1 .. MaxChunk :
                Set(h, [r EXCEPT !.from = r.os, !.len = k, !.os = r.os + k,
                                 !.err = FALSE, !.pc = "signal"])
    BY <1>0, <2>0, <2>1, ReadDataGood, SetGood
  <2>2. CASE \E e \in BOOLEAN, pc \in {"io", "signal"} :
                Set(h, [r EXCEPT !.len = 0, !.err = e, !.pc = pc])
    BY <1>0, <2>0, <2>2, ReadEofGood, SetGood
  <2>3. CASE Set(h, [r EXCEPT !.len = 0, !.err = FALSE])
    <3>1. [r EXCEPT !.len = 0, !.err = FALSE] =
          [r EXCEPT !.len = 0, !.err = FALSE, !.pc = "io"]
      BY <1>0, <2>0 DEF HandleRec
    <3> QED
      BY <2>2, <2>3, <3>1
  <2> QED
    BY <1>1, <2>1, <2>2, <2>3 DEF InputRead
<1>2. CASE InputSignal(h)
  BY <1>0, <1>2, InputSignalGood, SetGood DEF InputSignal, Thread
<1>3. CASE ThreadWait(h)
  <2>1. r.kind \in {"HT_INPUT", "HT_OUTPUT"} /\ r.pc = "wait" /\ r.ev_from_main
    BY <1>0, <1>3 DEF ThreadWait, Good, Core, Shape, HandleRec, Kinds, Blank
  <2> QED
    BY <1>0, <1>3, <2>1, ThreadWaitGood, SetGood DEF ThreadWait
<1>4. CASE ThreadWoken(h)
  <2>1. r.kind \in {"HT_INPUT", "HT_OUTPUT"} /\ r.pc = "woken"
    BY <1>0, <1>4 DEF ThreadWoken, Good, Core, Shape, HandleRec, Kinds, Blank
  <2>2. CASE r.done
    BY <1>0, <1>4, <2>1, <2>2, ThreadDieGood, SetGood DEF ThreadWoken
  <2>3. CASE ~r.done
    BY <1>0, <1>4, <2>1, <2>3, ThreadBeginGood, SetGood DEF ThreadWoken
  <2> QED
    BY <2>2, <2>3
<1>5. CASE OutputWrite(h)
  BY <1>0, <1>5, WriteGood, SetGood DEF OutputWrite, Thread
<1>6. CASE OutputSignal(h)
  BY <1>0, <1>6, OutputSignalGood, SetGood DEF OutputSignal, Thread
<1> QED
  BY <1>1, <1>2, <1>3, <1>4, <1>5, <1>6 DEF ThreadStep

\* handle_got_event keeps the invariant.
LEMMA GotEventInv ==
  ASSUME IndInv, NEW h \in Handle, handle_got_event(h)
  PROVE  IndInv'
<1> DEFINE r == hs[h]
<1>0. Good(r) /\ r \in HandleRec
  BY DEF IndInv, Good, Core
<1>1. r.mem = "live" /\ r.busy /\ r.ev_to_main
  BY DEF handle_got_event
<1>2. /\ Reset(r).moribund = r.moribund /\ Reset(r).kind = r.kind
      /\ Reset(r).err = r.err /\ Reset(r).outgoingeof = r.outgoingeof
  BY <1>0 DEF Reset, HandleRec
<1>3. CASE r.moribund /\ Set(h, GotEventMoribund(Reset(r)))
  BY <1>0, <1>1, <1>3, MoribundGood, SetGood
<1>4. CASE /\ ~r.moribund /\ r.kind = "HT_INPUT"
           /\ \E free \in BOOLEAN : Set(h, GotInput(Reset(r), free))
  BY <1>0, <1>1, <1>4, GotInputGood, SetGood
<1>5. CASE /\ ~r.moribund /\ r.kind = "HT_OUTPUT" /\ r.err
           /\ \E free \in BOOLEAN : Set(h, GotOutputError(Reset(r), free))
  BY <1>0, <1>1, <1>5, GotOutputErrorGood, SetGood
<1>6. CASE /\ ~r.moribund /\ r.kind = "HT_OUTPUT" /\ ~r.err
           /\ \E free \in BOOLEAN, k \in 0 .. MaxChunk :
                 /\ k > 0 => ~free /\ r.outgoingeof = "EOF_NO"
                 /\ \E n \in Prefixes(Consume(Reset(r)), k) :
                       Set(h, GotOutput(Reset(r), free, k, n))
  <2>1. PICK free \in BOOLEAN, k \in 0 .. MaxChunk :
                 /\ k > 0 => ~free /\ r.outgoingeof = "EOF_NO"
                 /\ \E n \in Prefixes(Consume(Reset(r)), k) :
                       Set(h, GotOutput(Reset(r), free, k, n))
    BY <1>6
  <2>2. PICK n \in Prefixes(Consume(Reset(r)), k) :
                Set(h, GotOutput(Reset(r), free, k, n))
    BY <2>1
  <2>3. free => k = 0
    BY <2>1, ConstAssumption
  <2>4. Good(GotOutput(Reset(r), free, k, n))
    BY <1>0, <1>1, <1>6, <2>1, <2>2, <2>3, GotOutputGood
  <2> QED
    BY <2>2, <2>4, SetGood
<1>7. CASE /\ ~r.moribund /\ r.kind = "HT_FOREIGN"
           /\ \E free \in BOOLEAN :
                 Set(h, IF free THEN handle_free(Reset(r)) ELSE Reset(r))
  <2>1. Good(Reset(r))
    BY <1>0, <1>7, ForeignGood DEF Reset
  <2>2. Reset(r).mem = "live" /\ ~Reset(r).moribund
    BY <1>0, <1>1, <1>7 DEF Reset, HandleRec
  <2>3. Good(handle_free(Reset(r)))
    BY <2>1, <2>2, FreeGood DEF Good
  <2> QED
    BY <1>7, <2>1, <2>3, SetGood
<1> QED
  BY <1>2, <1>3, <1>4, <1>5, <1>6, <1>7 DEF handle_got_event

\* The operations that clients call keep the invariant.
LEMMA ClientInv ==
  ASSUME IndInv, NEW h \in Handle,
         \/ handle_input_new(h)
         \/ handle_output_new(h)
         \/ handle_add_foreign_event(h)
         \/ handle_write(h)
         \/ handle_write_eof(h)
         \/ handle_unthrottle(h)
         \/ FreeHandle(h)
         \/ ForeignSignal(h)
  PROVE  IndInv'
<1> DEFINE r == hs[h]
<1>0. Good(r) /\ Core(r) /\ r \in HandleRec
  BY DEF IndInv, Good, Core
<1>1. CASE handle_input_new(h)
  BY <1>1, NewGood, SetGood DEF handle_input_new
<1>2. CASE handle_output_new(h)
  BY <1>2, NewGood, SetGood DEF handle_output_new
<1>3. CASE handle_add_foreign_event(h)
  BY <1>3, NewGood, SetGood DEF handle_add_foreign_event
<1>4. CASE handle_write(h)
  <2>1. r.kind = "HT_OUTPUT" /\ r.outgoingeof = "EOF_NO"
    BY <1>4 DEF handle_write, Usable
  <2>k. PICK k \in 1 .. MaxChunk : \E n \in Prefixes(r, k) :
                Set(h, handle_try_output([r EXCEPT !.sub = r.sub + k], n))
    BY <1>4 DEF handle_write
  <2> DEFINE a == [r EXCEPT !.sub = r.sub + k]
  <2>2. PICK n \in Prefixes(r, k) : Set(h, handle_try_output(a, n))
    BY <2>k
  <2>3. /\ k \in Nat
        /\ n \in Nat
        /\ n \in 1 .. queued(a)
        /\ a.kind = "HT_OUTPUT"
    BY <1>0, <2>1, <2>2, ConstAssumption
    DEF Core, HandleRec, OutputInv, Prefixes, queued
  <2>4. Core(a)
    BY <1>0, <2>1, <2>3, AddCore
  <2>5. Good(handle_try_output(a, n))
    BY <2>3, <2>4, TryOutputGood
  <2> QED
    BY <2>2, <2>5, SetGood
<1>5. CASE handle_write_eof(h)
  <2>1. r.kind = "HT_OUTPUT" /\ r.outgoingeof = "EOF_NO"
    BY <1>5 DEF handle_write_eof, Usable
  <2> DEFINE a == [r EXCEPT !.outgoingeof = "EOF_PENDING"]
  <2>2. PICK n \in Prefixes(r, 0) : Set(h, handle_try_output(a, n))
    BY <1>5 DEF handle_write_eof
  <2>3. /\ n \in Nat
        /\ queued(a) > 0 => n \in 1 .. queued(a)
        /\ a.kind = "HT_OUTPUT"
    BY <1>0, <2>1, <2>2 DEF Core, HandleRec, OutputInv, Prefixes, queued
  <2>4. Core(a)
    BY <1>0, <2>1, EofCore
  <2>5. Good(handle_try_output(a, n))
    BY <2>3, <2>4, TryOutputGood
  <2> QED
    BY <2>2, <2>5, SetGood
<1>6. CASE handle_unthrottle(h)
  <2>1. r.kind = "HT_INPUT"
    BY <1>6 DEF handle_unthrottle, Usable
  <2>2. PICK k \in 1 .. r.held :
                Set(h, handle_throttle([r EXCEPT !.held = r.held - k],
                                       r.held - k))
    BY <1>6 DEF handle_unthrottle
  <2> DEFINE a == [r EXCEPT !.held = r.held - k]
  <2>3. a.kind = "HT_INPUT" /\ a.held = r.held - k
    BY <1>0, <2>1 DEF HandleRec
  <2>4. Core(a)
    BY <1>0, <2>1, DigestCore
  <2>5. Good(handle_throttle(a, a.held))
    BY <2>3, <2>4, ThrottleGood
  <2> QED
    BY <2>2, <2>3, <2>5, SetGood
<1>7. CASE FreeHandle(h)
  BY <1>0, <1>7, FreeGood, SetGood DEF FreeHandle
<1>8. CASE ForeignSignal(h)
  BY <1>0, <1>8, ForeignGood, SetGood DEF ForeignSignal
<1> QED
  BY <1>1, <1>2, <1>3, <1>4, <1>5, <1>6, <1>7, <1>8

\* IndInv is an invariant of the specification.
THEOREM Invariance == Spec => []IndInv
<1>1. Init => IndInv
  BY BlankGood DEF Init, IndInv, TypeOK, Good, Core
<1>2. IndInv /\ [Next]_vars => IndInv'
  <2> SUFFICES ASSUME IndInv, [Next]_vars PROVE IndInv'
    OBVIOUS
  <2>1. CASE Next
    BY <2>1, ThreadStepInv, GotEventInv, ClientInv DEF Next
  <2>2. CASE UNCHANGED vars
    BY <2>2 DEF vars, IndInv, TypeOK
  <2> QED
    BY <2>1, <2>2
<1> QED
  BY <1>1, <1>2, PTL DEF Spec

-----------------------------------------------------------------------------
(* The properties.                                                         *)

\* Type correctness of every handle record.
THEOREM TypeCorrect == Spec => []TypeOK
<1>1. IndInv => TypeOK
  BY DEF IndInv
<1> QED
  BY <1>1, Invariance, PTL

\* The main thread never frees a struct handle that a subthread will touch.
THEOREM FreedIsUntouched == Spec => []NoUseAfterFree
<1>1. IndInv => NoUseAfterFree
  BY DEF IndInv, NoUseAfterFree, Good, Core, Shape, ThreadAlive, HandleRec, Blank
<1> QED
  BY <1>1, Invariance, PTL

\* Input: no buffer is overwritten before the client has been given it, and
\* what the client is given continues the stream.
THEOREM InputExactlyOnce == Spec => [](NoOverwrite /\ InputInOrder)
<1>1. IndInv => NoOverwrite
  BY DEF IndInv, NoOverwrite, Good, Core, InputInv, Quiet, Thread
<1>2. IndInv => InputInOrder
  <2> SUFFICES ASSUME IndInv, NEW h \in Handle,
                      hs[h].kind = "HT_INPUT", hs[h].ev_to_main,
                      ~hs[h].moribund, hs[h].len > 0
               PROVE  /\ hs[h].from = hs[h].main
                      /\ hs[h].os = hs[h].main + hs[h].len
    BY DEF InputInOrder
  <2>1. hs[h].pc = "wait"
    BY DEF IndInv, Good, Core, Protocol, InputInv, Shape, ThreadPCs, HandleRec
  <2> QED
    BY <2>1 DEF IndInv, Good, Core, InputInv, Completed
<1> QED
  BY <1>1, <1>2, Invariance, PTL

\* Output: WriteFile gets each queued byte once, in order and while the
\* handle is open; end of file follows all of them.
THEOREM OutputExactlyOnce == Spec => [](WriteInOrder /\ EofAfterData)
<1>1. IndInv => WriteInOrder
  <2> SUFFICES ASSUME IndInv, NEW h \in Handle, Thread(h, "HT_OUTPUT", "io")
               PROVE  /\ hs[h].open
                      /\ hs[h].from = hs[h].os
                      /\ hs[h].from + hs[h].len <= hs[h].sub
    BY DEF WriteInOrder
  <2> QED
    BY DEF IndInv, Good, Core, Protocol, OutputInv, Quiet, Thread, HandleRec
<1>2. IndInv => EofAfterData
  <2> SUFFICES ASSUME IndInv, NEW h \in Handle,
                      hs[h].outgoingeof = "EOF_SENT"
               PROVE  hs[h].os = hs[h].sub
    BY DEF EofAfterData
  <2> QED
    BY DEF IndInv, Good, Core, Shape, OutputInv, HandleRec, Kinds, Blank
<1> QED
  BY <1>1, <1>2, Invariance, PTL

\* The backlog a client can be left with is bounded.
THEOREM BacklogIsBounded == Spec => []BacklogBound
<1>1. IndInv => BacklogBound
  <2> SUFFICES ASSUME IndInv, NEW h \in Handle
               PROVE  hs[h].held < MAX_BACKLOG + MaxChunk
    BY DEF BacklogBound
  <2> QED
    BY ConstAssumption
    DEF IndInv, Good, Core, Shape, InputInv, HandleRec, Kinds, Blank
<1> QED
  BY <1>1, Invariance, PTL

\* No handle is left idle while it has something to do.
THEOREM NeverStalls == Spec => []NoStall
<1>1. IndInv => NoStall
  <2> SUFFICES ASSUME IndInv, NEW h \in Handle,
                      hs[h].mem = "live", ~hs[h].busy, ~hs[h].defunct
               PROVE  CASE hs[h].kind = "HT_INPUT" -> hs[h].held >= MAX_BACKLOG
                        [] hs[h].kind = "HT_OUTPUT" ->
                              /\ queued(hs[h]) = 0
                              /\ hs[h].outgoingeof # "EOF_PENDING"
                        [] OTHER -> FALSE
    BY DEF NoStall
  <2>1. hs[h].kind \in {"HT_INPUT", "HT_OUTPUT"}
    BY DEF IndInv, Good, Core, Shape, HandleRec, Kinds
  <2>2. Idle(hs[h]) /\ hs[h].main \in Nat
    BY DEF IndInv, Good, Core, HandleRec
  <2> QED
    BY <2>1, <2>2 DEF Idle, queued
<1> QED
  BY <1>1, Invariance, PTL

-----------------------------------------------------------------------------
(* HandleIO implements ByteStream.  The refinement mapping looks at one     *)
(* record at a time, so a step is first classified on the record it         *)
(* replaces and then lifted to the streams.                                 *)

\* The four values the mapping gives the stream of a handle with record r.
Produced(r) == IF r.kind = "HT_OUTPUT" THEN r.sub ELSE r.os
Consumed(r) == IF r.kind = "HT_OUTPUT" THEN r.os ELSE r.main
Ended(r) == IF r.kind = "HT_OUTPUT" THEN r.outgoingeof # "EOF_NO"
            ELSE r.kind = "HT_INPUT" /\ r.defunct
Closed(r) == IF r.kind = "HT_OUTPUT" THEN r.outgoingeof = "EOF_SENT"
             ELSE r.kind = "HT_INPUT" /\ r.defunct

\* Replacing r by s leaves the stream alone, adds to it, takes from it, or
\* ends it.
Same(r, s) ==
    /\ Produced(s) = Produced(r) /\ Consumed(s) = Consumed(r)
    /\ Ended(s) = Ended(r) /\ Closed(s) = Closed(r)

Adds(r, s) ==
    /\ ~Ended(r) /\ Produced(s) > Produced(r) /\ Consumed(s) = Consumed(r)
    /\ Ended(s) = Ended(r) /\ Closed(s) = Closed(r)

Takes(r, s) ==
    /\ ~Closed(r) /\ Consumed(s) \in Consumed(r) + 1 .. Produced(r)
    /\ Produced(s) = Produced(r)
    /\ Ended(s) = Ended(r) /\ Closed(s) = Closed(r)

Ends(r, s) ==
    /\ ~Closed(r) /\ Ended(s) /\ (Closed(s) => Consumed(r) = Produced(r))
    /\ Produced(s) = Produced(r) /\ Consumed(s) = Consumed(r)

StreamStep(r, s) == Same(r, s) \/ Adds(r, s) \/ Takes(r, s) \/ Ends(r, s)

\* A step that replaces one record by such a successor is a step of the
\* streams, or a stutter.
LEMMA Lift ==
  ASSUME IndInv, NEW h \in Handle, NEW s, StreamStep(hs[h], s), Set(h, s)
  PROVE  [Stream!Next]_(Stream!vars)
<1>1. \A g \in Handle : hs'[g] = IF g = h THEN s ELSE hs[g]
  BY DEF Set, IndInv, TypeOK
<1> DEFINE p == [g \in Handle |-> Produced(hs[g])]
           c == [g \in Handle |-> Consumed(hs[g])]
           e == [g \in Handle |-> Ended(hs[g])]
           x == [g \in Handle |-> Closed(hs[g])]
           pp == [g \in Handle |-> Produced(hs'[g])]
           cc == [g \in Handle |-> Consumed(hs'[g])]
           ee == [g \in Handle |-> Ended(hs'[g])]
           xx == [g \in Handle |-> Closed(hs'[g])]
<1>2. /\ pp = [p EXCEPT ![h] = Produced(s)]
      /\ cc = [c EXCEPT ![h] = Consumed(s)]
      /\ ee = [e EXCEPT ![h] = Ended(s)]
      /\ xx = [x EXCEPT ![h] = Closed(s)]
  BY <1>1
<1>3. /\ p[h] = Produced(hs[h]) /\ c[h] = Consumed(hs[h])
      /\ e[h] = Ended(hs[h]) /\ x[h] = Closed(hs[h])
      /\ pp[h] = Produced(s) /\ cc[h] = Consumed(s)
      /\ ee[h] = Ended(s) /\ xx[h] = Closed(s)
  BY <1>1
<1>4. CASE Same(hs[h], s)
  <2>1. pp = p /\ cc = c /\ ee = e /\ xx = x
    BY <1>1, <1>4 DEF Same
  <2> QED
    BY <2>1 DEF Stream!vars, Produced, Consumed, Ended, Closed
<1>5. CASE Adds(hs[h], s)
  <2>1. cc = c /\ ee = e /\ xx = x
    BY <1>1, <1>5 DEF Adds
  <2>2. ~e[h] /\ pp[h] > p[h] /\ pp = [p EXCEPT ![h] = pp[h]]
    BY <1>2, <1>3, <1>5 DEF Adds
  <2>3. Stream!Produce(h)
    BY <2>1, <2>2 DEF Stream!Produce, Produced, Consumed, Ended, Closed
  <2> QED
    BY <2>3 DEF Stream!Next
<1>6. CASE Takes(hs[h], s)
  <2>1. pp = p /\ ee = e /\ xx = x
    BY <1>1, <1>6 DEF Takes
  <2>2. ~x[h] /\ cc[h] \in c[h] + 1 .. p[h] /\ cc = [c EXCEPT ![h] = cc[h]]
    BY <1>2, <1>3, <1>6 DEF Takes
  <2>3. Stream!Consume(h)
    BY <2>1, <2>2 DEF Stream!Consume, Produced, Consumed, Ended, Closed
  <2> QED
    BY <2>3 DEF Stream!Next
<1>7. CASE Ends(hs[h], s)
  <2>1. pp = p /\ cc = c
    BY <1>1, <1>7 DEF Ends
  <2>2. ~x[h] /\ ee = [e EXCEPT ![h] = TRUE]
    <3>1. Ended(s) = TRUE
      BY <1>7 DEF Ends, Ended
    <3> QED
      BY <1>2, <1>3, <1>7, <3>1 DEF Ends
  <2>3. /\ Closed(s) \in BOOLEAN
        /\ Closed(s) => c[h] = p[h]
        /\ xx = [x EXCEPT ![h] = Closed(s)]
    <3>1. Closed(s) \in BOOLEAN
      BY DEF Closed
    <3> QED
      BY <1>2, <1>3, <1>7, <3>1 DEF Ends
  <2>4. Stream!End(h)
    BY <2>1, <2>2, <2>3 DEF Stream!End, Produced, Consumed, Ended, Closed
  <2> QED
    BY <2>4 DEF Stream!Next
<1> QED
  BY <1>4, <1>5, <1>6, <1>7 DEF StreamStep

\* Reading and throttling, and disposing of a handle, leave its stream alone.
LEMMA QuietHelpers ==
  ASSUME NEW r \in HandleRec, NEW b
  PROVE  /\ Same(r, handle_throttle(r, b)) /\ handle_throttle(r, b) \in HandleRec
         /\ Same(r, handle_free(r)) /\ handle_free(r) \in HandleRec
         /\ Same(r, GotEventMoribund(r))
         /\ Same(r, Reset(r)) /\ Reset(r) \in HandleRec
<1>1. Same(r, handle_throttle(r, b)) /\ handle_throttle(r, b) \in HandleRec
  <2> DEFINE s == [r EXCEPT !.ev_from_main = TRUE, !.busy = TRUE]
  <2>1. Same(r, s) /\ s \in HandleRec
    BY DEF HandleRec, Same, Produced, Consumed, Ended, Closed
  <2>2. Same(r, r)
    BY DEF Same
  <2>3. handle_throttle(r, b) = s \/ handle_throttle(r, b) = r
    BY DEF handle_throttle
  <2> QED
    BY <2>1, <2>2, <2>3
<1>2. Same(r, handle_free(r)) /\ handle_free(r) \in HandleRec
  BY DEF HandleRec, Same, Produced, Consumed, Ended, Closed, handle_free,
         handle_destroy, signal_to_die
<1>3. Same(r, GotEventMoribund(r))
  BY DEF HandleRec, Same, Produced, Consumed, Ended, Closed, handle_destroy,
         signal_to_die, GotEventMoribund
<1>4. Same(r, Reset(r)) /\ Reset(r) \in HandleRec
  BY DEF HandleRec, Same, Produced, Consumed, Ended, Closed, Reset
<1> QED
  BY <1>1, <1>2, <1>3, <1>4

\* What handle_try_output does to the stream: nothing, or it sends the end of
\* file that was pending.
LEMMA TryOutputStream ==
  ASSUME NEW r \in HandleRec, NEW n \in Nat, r.kind = "HT_OUTPUT"
  PROVE  LET s == handle_try_output(r, n)
         IN  /\ s \in HandleRec
             /\ s.kind = r.kind /\ s.sub = r.sub /\ s.os = r.os
             /\ \/ s.outgoingeof = r.outgoingeof
                \/ r.outgoingeof = "EOF_PENDING" /\ s.outgoingeof = "EOF_SENT"
<1> DEFINE a == [r EXCEPT !.from = r.main, !.len = n,
                          !.ev_from_main = TRUE, !.busy = TRUE]
           b == [r EXCEPT !.open = FALSE, !.outgoingeof = "EOF_SENT"]
<1>1. /\ a \in HandleRec /\ a.kind = r.kind /\ a.sub = r.sub /\ a.os = r.os
      /\ a.outgoingeof = r.outgoingeof
  BY DEF HandleRec
<1>2. /\ b \in HandleRec /\ b.kind = r.kind /\ b.sub = r.sub /\ b.os = r.os
      /\ b.outgoingeof = "EOF_SENT"
  BY DEF HandleRec
<1>3. \/ handle_try_output(r, n) = a
      \/ handle_try_output(r, n) = b /\ r.outgoingeof = "EOF_PENDING"
      \/ handle_try_output(r, n) = r
  BY DEF handle_try_output
<1> QED
  BY <1>1, <1>2, <1>3

\* Taking note of a write, or disposing of the handle, moves no offset of an
\* output stream.
LEMMA OutputFields ==
  ASSUME NEW r \in HandleRec
  PROVE  /\ LET s == Consume(r)
            IN  /\ s \in HandleRec /\ s.kind = r.kind /\ s.os = r.os
                /\ s.sub = r.sub /\ s.outgoingeof = r.outgoingeof
         /\ LET s == handle_free(r)
            IN  /\ s \in HandleRec /\ s.kind = r.kind /\ s.os = r.os
                /\ s.sub = r.sub /\ s.outgoingeof = r.outgoingeof
<1>1. LET s == Consume(r)
      IN  /\ s \in HandleRec /\ s.kind = r.kind /\ s.os = r.os
          /\ s.sub = r.sub /\ s.outgoingeof = r.outgoingeof
  <2> DEFINE m == r.main + r.lenwritten
  <2>1. m \in Nat
    BY DEF HandleRec
  <2>2. Consume(r) = [r EXCEPT !.busy = FALSE, !.main = m]
    BY DEF Consume, HandleRec
  <2> HIDE DEF m
  <2>3. LET s == [r EXCEPT !.busy = FALSE, !.main = m]
        IN  /\ s \in HandleRec /\ s.kind = r.kind /\ s.os = r.os
            /\ s.sub = r.sub /\ s.outgoingeof = r.outgoingeof
    BY <2>1 DEF HandleRec
  <2> QED
    BY <2>2, <2>3
<1>2. LET s == handle_free(r)
      IN  /\ s.kind = r.kind /\ s.os = r.os
          /\ s.sub = r.sub /\ s.outgoingeof = r.outgoingeof
  BY DEF handle_free, handle_destroy, signal_to_die, HandleRec
<1> QED
  BY <1>1, <1>2, QuietHelpers

\* The steps of a subthread: a read adds to the stream, a write takes from it.
LEMMA ThreadStepStream ==
  ASSUME IndInv, NEW h \in Handle, ThreadStep(h)
  PROVE  [Stream!Next]_(Stream!vars)
<1> DEFINE r == hs[h]
<1>0. Good(r) /\ r \in HandleRec
  BY DEF IndInv, Good, Core
<1>1. CASE InputRead(h)
  <2>0. r.kind = "HT_INPUT" /\ r.pc = "io" /\ ~r.defunct
    BY <1>0, <1>1 DEF InputRead, Thread, Good, Core, Protocol
  <2>1. CASE \E k \in 1 .. MaxChunk :
                Set(h, [r EXCEPT !.from = r.os, !.len = k, !.os = r.os + k,
                                 !.err = FALSE, !.pc = "signal"])
    <3>1. PICK k \in 1 .. MaxChunk :
                Set(h, [r EXCEPT !.from = r.os, !.len = k, !.os = r.os + k,
                                 !.err = FALSE, !.pc = "signal"])
      BY <2>1
    <3>2. Adds(r, [r EXCEPT !.from = r.os, !.len = k, !.os = r.os + k,
                            !.err = FALSE, !.pc = "signal"])
      BY <1>0, <2>0, ConstAssumption
      DEF HandleRec, Adds, Produced, Consumed, Ended, Closed
    <3> QED
      BY <3>1, <3>2, Lift DEF StreamStep
  <2>2. CASE \E e \in BOOLEAN :
                \/ Set(h, [r EXCEPT !.len = 0, !.err = e, !.pc = "signal"])
                \/ Set(h, [r EXCEPT !.len = 0, !.err = e])
    <3>1. \A e \in BOOLEAN :
             /\ Same(r, [r EXCEPT !.len = 0, !.err = e, !.pc = "signal"])
             /\ Same(r, [r EXCEPT !.len = 0, !.err = e])
      BY <1>0, <2>0 DEF HandleRec, Same, Produced, Consumed, Ended, Closed
    <3> QED
      BY <2>2, <3>1, Lift DEF StreamStep
  <2> QED
    BY <1>1, <2>1, <2>2 DEF InputRead
<1>2. CASE InputSignal(h)
  <2>1. Same(r, [r EXCEPT !.ev_to_main = TRUE,
                          !.pc = IF r.len = 0 THEN "exited" ELSE "wait"])
    BY <1>0 DEF HandleRec, Same, Produced, Consumed, Ended, Closed
  <2> QED
    BY <1>2, <2>1, Lift DEF StreamStep, InputSignal
<1>3. CASE ThreadWait(h)
  <2>1. Same(r, [r EXCEPT !.ev_from_main = FALSE, !.pc = "woken"])
    BY <1>0 DEF HandleRec, Same, Produced, Consumed, Ended, Closed
  <2> QED
    BY <1>3, <2>1, Lift DEF StreamStep, ThreadWait
<1>4. CASE ThreadWoken(h)
  <2>1. /\ Same(r, [r EXCEPT !.ev_to_main = TRUE, !.pc = "exited"])
        /\ Same(r, [r EXCEPT !.pc = "io"])
    BY <1>0 DEF HandleRec, Same, Produced, Consumed, Ended, Closed
  <2> QED
    BY <1>4, <2>1, Lift DEF StreamStep, ThreadWoken
<1>5. CASE OutputWrite(h)
  <2>0. r.kind = "HT_OUTPUT" /\ r.pc = "io"
    BY <1>5 DEF OutputWrite, Thread
  <2>1. /\ r.outgoingeof # "EOF_SENT"
        /\ r.os + r.len <= r.sub
    BY <1>0, <2>0 DEF Good, Core, HandleRec, Protocol, OutputInv, Quiet
  <2>2. PICK k \in 0 .. r.len, e \in BOOLEAN :
                Set(h, [r EXCEPT !.os = r.os + k, !.lenwritten = k,
                                 !.err = e, !.pc = "signal"])
    BY <1>5 DEF OutputWrite
  <2> DEFINE s == [r EXCEPT !.os = r.os + k, !.lenwritten = k,
                            !.err = e, !.pc = "signal"]
  <2>3. CASE k = 0
    <3>1. Same(r, s)
      BY <1>0, <2>0, <2>3 DEF HandleRec, Same, Produced, Consumed, Ended, Closed
    <3> QED
      BY <2>2, <3>1, Lift DEF StreamStep
  <2>4. CASE k # 0
    <3>1. Takes(r, s)
      BY <1>0, <2>0, <2>1, <2>4
      DEF HandleRec, Takes, Produced, Consumed, Ended, Closed
    <3> QED
      BY <2>2, <3>1, Lift DEF StreamStep
  <2> QED
    BY <2>3, <2>4
<1>6. CASE OutputSignal(h)
  <2>1. Same(r, [r EXCEPT !.ev_to_main = TRUE,
                          !.pc = IF r.err THEN "exited" ELSE "wait"])
    BY <1>0 DEF HandleRec, Same, Produced, Consumed, Ended, Closed
  <2> QED
    BY <1>6, <2>1, Lift DEF StreamStep, OutputSignal
<1> QED
  BY <1>1, <1>2, <1>3, <1>4, <1>5, <1>6 DEF ThreadStep

\* The operations that clients call: a write adds to the stream, an end of
\* file ends it.
LEMMA ClientStream ==
  ASSUME IndInv, NEW h \in Handle,
         \/ handle_input_new(h)
         \/ handle_output_new(h)
         \/ handle_add_foreign_event(h)
         \/ handle_write(h)
         \/ handle_write_eof(h)
         \/ handle_unthrottle(h)
         \/ FreeHandle(h)
         \/ ForeignSignal(h)
  PROVE  [Stream!Next]_(Stream!vars)
<1> DEFINE r == hs[h]
<1>0. Good(r) /\ Core(r) /\ r \in HandleRec
  BY DEF IndInv, Good, Core
<1>1. CASE handle_input_new(h) \/ handle_output_new(h) \/ handle_add_foreign_event(h)
  <2>1. r = Blank
    BY <1>0, <1>1
    DEF handle_input_new, handle_output_new, handle_add_foreign_event, Core, Shape
  <2>2. \A ign \in BOOLEAN :
           Same(r, [Blank EXCEPT !.kind = "HT_INPUT", !.mem = "live",
                                 !.pc = "io", !.busy = TRUE, !.open = TRUE,
                                 !.ignoreeof = ign])
    BY <2>1 DEF Blank, Same, Produced, Consumed, Ended, Closed
  <2>3. Same(r, [Blank EXCEPT !.kind = "HT_OUTPUT", !.mem = "live",
                              !.pc = "wait", !.open = TRUE])
    BY <2>1 DEF Blank, Same, Produced, Consumed, Ended, Closed
  <2>4. Same(r, [Blank EXCEPT !.kind = "HT_FOREIGN", !.mem = "live",
                              !.defunct = TRUE, !.busy = TRUE])
    BY <2>1 DEF Blank, Same, Produced, Consumed, Ended, Closed
  <2> QED
    BY <1>1, <2>2, <2>3, <2>4, Lift
    DEF StreamStep, handle_input_new, handle_output_new, handle_add_foreign_event
<1>2. CASE handle_write(h)
  <2>1. r.kind = "HT_OUTPUT" /\ r.outgoingeof = "EOF_NO"
    BY <1>2 DEF handle_write, Usable
  <2>k. PICK k \in 1 .. MaxChunk : \E n \in Prefixes(r, k) :
                Set(h, handle_try_output([r EXCEPT !.sub = r.sub + k], n))
    BY <1>2 DEF handle_write
  <2> DEFINE a == [r EXCEPT !.sub = r.sub + k]
  <2>2. PICK n \in Prefixes(r, k) : Set(h, handle_try_output(a, n))
    BY <2>k
  <2>3. /\ a \in HandleRec /\ a.kind = "HT_OUTPUT" /\ a.outgoingeof = "EOF_NO"
        /\ a.sub = r.sub + k /\ a.os = r.os /\ k \in Nat /\ k > 0
    BY <1>0, <2>1, ConstAssumption DEF HandleRec
  <2>n. n \in Nat
    BY <1>0, <2>3 DEF Prefixes, queued, HandleRec
  <2> HIDE DEF a
  <2> DEFINE s == handle_try_output(a, n)
  <2>4. /\ s.kind = "HT_OUTPUT" /\ s.outgoingeof = "EOF_NO"
        /\ s.sub = r.sub + k /\ s.os = r.os
    BY <2>n, <2>3, TryOutputStream
  <2>5. Set(h, s)
    BY <2>2 DEF a
  <2> HIDE DEF s
  <2>6. Adds(r, s)
    BY <1>0, <2>1, <2>3, <2>4 DEF Adds, Produced, Consumed, Ended, Closed, HandleRec
  <2> QED
    BY <2>5, <2>6, Lift DEF StreamStep
<1>3. CASE handle_write_eof(h)
  <2>1. r.kind = "HT_OUTPUT" /\ r.outgoingeof = "EOF_NO"
    BY <1>3 DEF handle_write_eof, Usable
  <2> DEFINE a == [r EXCEPT !.outgoingeof = "EOF_PENDING"]
  <2>2. PICK n \in Prefixes(r, 0) : Set(h, handle_try_output(a, n))
    BY <1>3 DEF handle_write_eof
  <2>3. /\ a \in HandleRec /\ a.kind = "HT_OUTPUT"
        /\ a.outgoingeof = "EOF_PENDING" /\ a.sub = r.sub /\ a.os = r.os
    BY <1>0, <2>1 DEF HandleRec
  <2>n. n \in Nat
    BY <1>0 DEF Prefixes, queued, HandleRec
  <2> DEFINE s == handle_try_output(a, n)
  <2>4. Good(s)
    <3>1. IndInv'
      BY <1>3, ClientInv
    <3>2. hs'[h] = s
      BY <2>2 DEF IndInv, TypeOK, Set
    <3> QED
      BY <3>1, <3>2 DEF IndInv
  <2> HIDE DEF a
  <2>5. /\ s.kind = "HT_OUTPUT" /\ s.outgoingeof \in {"EOF_PENDING", "EOF_SENT"}
        /\ s.sub = r.sub /\ s.os = r.os
    BY <2>n, <2>3, TryOutputStream
  <2> HIDE DEF s
  <2>6. s.outgoingeof = "EOF_SENT" => s.os = s.sub
    BY <2>4, <2>5 DEF Good, Core, OutputInv
  <2>7. Ends(r, s)
    BY <2>1, <2>5, <2>6 DEF Ends, Produced, Consumed, Ended, Closed
  <2> QED
    BY <2>2, <2>7, Lift DEF StreamStep, s
<1>4. CASE handle_unthrottle(h)
  <2>1. PICK k \in 1 .. r.held :
                Set(h, handle_throttle([r EXCEPT !.held = r.held - k],
                                       r.held - k))
    BY <1>4 DEF handle_unthrottle
  <2> DEFINE a == [r EXCEPT !.held = r.held - k]
  <2>2. a \in HandleRec /\ Same(r, a)
    BY <1>0 DEF HandleRec, Same, Produced, Consumed, Ended, Closed
  <2> HIDE DEF a
  <2>3. Same(r, handle_throttle(a, r.held - k))
    BY <2>2, QuietHelpers DEF Same
  <2> QED
    BY <2>1, <2>3, Lift DEF StreamStep, a
<1>5. CASE FreeHandle(h)
  BY <1>0, <1>5, QuietHelpers, Lift DEF StreamStep, FreeHandle
<1>6. CASE ForeignSignal(h)
  <2>1. Same(r, [r EXCEPT !.ev_to_main = TRUE])
    BY <1>0 DEF HandleRec, Same, Produced, Consumed, Ended, Closed
  <2> QED
    BY <1>6, <2>1, Lift DEF StreamStep, ForeignSignal
<1> QED
  BY <1>1, <1>2, <1>3, <1>4, <1>5, <1>6

\* The callbacks of handle_got_event: gotdata takes from the stream or learns
\* of its end, sentdata may add to it, and a pending end of file may be sent.
LEMMA GotEventStream ==
  ASSUME IndInv, NEW h \in Handle, handle_got_event(h)
  PROVE  [Stream!Next]_(Stream!vars)
<1> DEFINE r == hs[h]
           q == Reset(r)
<1>0. Good(r) /\ r \in HandleRec /\ q \in HandleRec /\ Same(r, q)
  BY QuietHelpers DEF IndInv, Good, Core
<1>1. r.mem = "live" /\ r.busy /\ r.ev_to_main
  BY DEF handle_got_event
<1>2. /\ q.moribund = r.moribund /\ q.kind = r.kind /\ q.err = r.err
      /\ q.outgoingeof = r.outgoingeof /\ q.len = r.len /\ q.held = r.held
      /\ q.os = r.os /\ q.main = r.main /\ q.sub = r.sub /\ q.defunct = r.defunct
  BY <1>0 DEF Reset, HandleRec
<1> HIDE DEF q
<1>3. CASE r.moribund /\ Set(h, GotEventMoribund(q))
  <2>1. Same(r, GotEventMoribund(q))
    BY <1>0, QuietHelpers DEF Same
  <2> QED
    BY <1>3, <2>1, Lift DEF StreamStep
<1>4. CASE /\ ~r.moribund /\ r.kind = "HT_INPUT"
           /\ \E free \in BOOLEAN : Set(h, GotInput(q, free))
  <2>1. PICK free \in BOOLEAN : Set(h, GotInput(q, free))
    BY <1>4
  <2> DEFINE r1 == [q EXCEPT !.busy = FALSE]
             r2 == [r1 EXCEPT !.defunct = TRUE]
             r3 == [r1 EXCEPT !.main = r1.main + q.len, !.held = r1.held + q.len]
  <2>2. /\ r2 \in HandleRec /\ r3 \in HandleRec
        /\ r2.kind = "HT_INPUT" /\ r2.os = r.os /\ r2.main = r.main /\ r2.defunct
        /\ r3.kind = "HT_INPUT" /\ r3.os = r.os /\ r3.main = r.main + r.len
        /\ r3.defunct = r.defunct
    <3>1. r1 \in HandleRec /\ r1.main = r.main /\ r1.held = r.held /\ r1.os = r.os
          /\ r1.kind = "HT_INPUT" /\ r1.defunct = r.defunct
      BY <1>0, <1>2, <1>4 DEF HandleRec
    <3> HIDE DEF r1
    <3> DEFINE m == r1.main + q.len
               d == r1.held + q.len
    <3>2. m \in Nat /\ d \in Nat /\ m = r.main + r.len
      BY <1>0, <1>2, <3>1 DEF HandleRec
    <3> HIDE DEF m, d
    <3>3. LET s == [r1 EXCEPT !.main = m, !.held = d]
          IN  /\ s \in HandleRec /\ s.kind = "HT_INPUT" /\ s.os = r.os
              /\ s.main = m /\ s.defunct = r.defunct
      BY <3>1, <3>2 DEF HandleRec
    <3>4. /\ r2 \in HandleRec /\ r2.kind = "HT_INPUT" /\ r2.os = r.os
          /\ r2.main = r.main /\ r2.defunct
      BY <3>1 DEF HandleRec
    <3> QED
      BY <3>2, <3>3, <3>4 DEF m, d
  <2>3. ~r.defunct /\ r.pc \in {"wait", "exited"}
    BY <1>0, <1>1, <1>4 DEF Good, Core, Protocol, Shape, HandleRec, ThreadPCs
  <2>4. /\ r.len = 0 => r.main = r.os
        /\ r.len # 0 => r.os = r.main + r.len
    BY <1>0, <1>1, <1>4, <2>3 DEF Good, Core, InputInv, Completed, HandleRec
  <2>5. GotInput(q, free) =
           IF q.len = 0 THEN IF free THEN handle_free(r2) ELSE r2
           ELSE handle_throttle(IF free THEN handle_free(r3) ELSE r3,
                                q.held + q.len)
    BY DEF GotInput
  <2> HIDE DEF r1, r2, r3
  <2>6. CASE r.len = 0
    <3>1. Ends(r, r2)
      BY <1>4, <2>2, <2>3, <2>4, <2>6
      DEF Ends, Produced, Consumed, Ended, Closed
    <3>2. Same(r2, handle_free(r2))
      BY <2>2, QuietHelpers
    <3>3. Ends(r, handle_free(r2))
      BY <3>1, <3>2 DEF Ends, Same
    <3> QED
      BY <1>2, <2>1, <2>5, <2>6, <3>1, <3>3, Lift DEF StreamStep
  <2>7. CASE r.len # 0
    <3>1. Takes(r, r3)
      BY <1>0, <1>4, <2>2, <2>3, <2>4, <2>7
      DEF Takes, Produced, Consumed, Ended, Closed, HandleRec
    <3> DEFINE f == IF free THEN handle_free(r3) ELSE r3
    <3>2. f \in HandleRec /\ Same(r3, f)
      BY <2>2, QuietHelpers DEF Same
    <3> HIDE DEF f
    <3>3. Same(f, handle_throttle(f, q.held + q.len))
      BY <3>2, QuietHelpers
    <3>4. Takes(r, handle_throttle(f, q.held + q.len))
      BY <3>1, <3>2, <3>3 DEF Takes, Same
    <3> QED
      BY <1>2, <2>1, <2>5, <2>7, <3>4, Lift DEF StreamStep, f
  <2> QED
    BY <2>6, <2>7
<1>5. CASE /\ ~r.moribund /\ r.kind = "HT_OUTPUT" /\ r.err
           /\ \E free \in BOOLEAN : Set(h, GotOutputError(q, free))
  <2> DEFINE s == [q EXCEPT !.busy = FALSE, !.defunct = TRUE]
  <2>1. s \in HandleRec /\ Same(r, s)
    BY <1>0, <1>2, <1>5 DEF HandleRec, Same, Produced, Consumed, Ended, Closed
  <2>2. \A free \in BOOLEAN :
           GotOutputError(q, free) = IF free THEN handle_free(s) ELSE s
    BY DEF GotOutputError
  <2> HIDE DEF s
  <2>3. Same(r, handle_free(s))
    BY <2>1, QuietHelpers DEF Same
  <2> QED
    BY <1>5, <2>1, <2>2, <2>3, Lift DEF StreamStep
<1>6. CASE /\ ~r.moribund /\ r.kind = "HT_OUTPUT" /\ ~r.err
           /\ \E free \in BOOLEAN, k \in 0 .. MaxChunk :
                 /\ k > 0 => ~free /\ r.outgoingeof = "EOF_NO"
                 /\ \E n \in Prefixes(Consume(q), k) :
                       Set(h, GotOutput(q, free, k, n))
  <2>1. PICK free \in BOOLEAN, k \in 0 .. MaxChunk :
                 /\ k > 0 => ~free /\ r.outgoingeof = "EOF_NO"
                 /\ \E n \in Prefixes(Consume(q), k) :
                       Set(h, GotOutput(q, free, k, n))
    BY <1>6
  <2>2. PICK n \in Prefixes(Consume(q), k) : Set(h, GotOutput(q, free, k, n))
    BY <2>1
  <2> DEFINE s == Consume(q)
             a == [s EXCEPT !.sub = s.sub + k]
             z == GotOutput(q, free, k, n)
  <2>3. /\ s \in HandleRec /\ s.kind = "HT_OUTPUT" /\ s.os = r.os
        /\ s.sub = r.sub /\ s.outgoingeof = r.outgoingeof
    BY <1>0, <1>2, <1>6, OutputFields
  <2>p. n \in Nat
    BY <2>3, ConstAssumption DEF Prefixes, queued, HandleRec
  <2>4. z = handle_try_output(IF free THEN handle_free(s)
                              ELSE IF k = 0 THEN s
                              ELSE handle_try_output(a, n), n)
    BY DEF GotOutput
  <2>5. Good(z)
    <3>1. IndInv'
      BY GotEventInv
    <3>2. hs'[h] = z
      BY <2>2 DEF IndInv, TypeOK, Set
    <3> QED
      BY <3>1, <3>2 DEF IndInv
  <2>k. k \in Nat
    BY ConstAssumption
  <2> HIDE DEF s, z
  <2>6. CASE k = 0
    <3> DEFINE f == IF free THEN handle_free(s) ELSE s
    <3>1. f \in HandleRec /\ f.kind = "HT_OUTPUT"
      BY <2>3, OutputFields
    <3>2. f.os = r.os /\ f.sub = r.sub /\ f.outgoingeof = r.outgoingeof
      BY <2>3, OutputFields
    <3>3. z = handle_try_output(f, n)
      BY <2>4, <2>6
    <3> HIDE DEF f
    <3>4. /\ z.kind = "HT_OUTPUT" /\ z.sub = r.sub /\ z.os = r.os
          /\ \/ z.outgoingeof = r.outgoingeof
             \/ r.outgoingeof = "EOF_PENDING" /\ z.outgoingeof = "EOF_SENT"
      BY <2>p, <3>1, <3>2, <3>3, TryOutputStream
    <3>5. z.outgoingeof = "EOF_SENT" => z.os = z.sub
      BY <2>5, <3>4 DEF Good, Core, OutputInv
    <3>6. Same(r, z) \/ Ends(r, z)
      BY <1>6, <3>4, <3>5 DEF Same, Ends, Produced, Consumed, Ended, Closed
    <3> QED
      BY <2>2, <3>6, Lift DEF StreamStep, z
  <2>7. CASE k # 0
    <3>1. ~free /\ r.outgoingeof = "EOF_NO"
      BY <2>1, <2>k, <2>7
    <3>2. /\ a \in HandleRec /\ a.kind = "HT_OUTPUT" /\ a.os = r.os
          /\ a.sub = r.sub + k /\ a.outgoingeof = "EOF_NO"
      BY <2>3, <2>k, <3>1 DEF HandleRec
    <3> HIDE DEF a
    <3> DEFINE b == handle_try_output(a, n)
    <3>3. /\ b \in HandleRec /\ b.kind = "HT_OUTPUT" /\ b.os = r.os
          /\ b.sub = r.sub + k /\ b.outgoingeof = "EOF_NO"
      BY <2>p, <3>2, TryOutputStream
    <3>4. z = handle_try_output(b, n)
      BY <2>4, <2>7, <3>1
    <3>5. /\ z.kind = "HT_OUTPUT" /\ z.os = r.os
          /\ z.sub = r.sub + k /\ z.outgoingeof = "EOF_NO"
      <4> HIDE DEF b
      <4> QED
        BY <2>p, <3>3, <3>4, TryOutputStream
    <3>6. Adds(r, z)
      BY <1>0, <1>6, <2>k, <2>7, <3>1, <3>5
      DEF Adds, Produced, Consumed, Ended, Closed, HandleRec
    <3> QED
      BY <2>2, <3>6, Lift DEF StreamStep, z
  <2> QED
    BY <2>6, <2>7
<1>7. CASE /\ ~r.moribund /\ r.kind = "HT_FOREIGN"
           /\ \E free \in BOOLEAN : Set(h, IF free THEN handle_free(q) ELSE q)
  <2>1. Same(r, handle_free(q))
    BY <1>0, QuietHelpers DEF Same
  <2> QED
    BY <1>0, <1>7, <2>1, Lift DEF StreamStep
<1> QED
  BY <1>2, <1>3, <1>4, <1>5, <1>6, <1>7 DEF handle_got_event, q

\* Whatever the two threads of each handle do, each handle is a stream: bytes
\* are neither lost nor repeated nor reordered, in either direction, and the
\* consumer learns of the end after the last byte.
THEOREM Refinement == Spec => ImplementsStream
<1>1. Init => Stream!Init
  <2> SUFFICES ASSUME Init PROVE Stream!Init
    OBVIOUS
  <2>1. \A h \in Handle : hs[h] = Blank
    BY DEF Init
  <2>2. Blank.kind = "none" /\ Blank.os = 0 /\ Blank.main = 0
    BY DEF Blank
  <2> QED
    BY <2>1, <2>2 DEF Stream!Init
<1>2. IndInv /\ [Next]_vars => [Stream!Next]_(Stream!vars)
  <2> SUFFICES ASSUME IndInv, [Next]_vars PROVE [Stream!Next]_(Stream!vars)
    OBVIOUS
  <2>1. CASE Next
    BY <2>1, ThreadStepStream, GotEventStream, ClientStream DEF Next
  <2>2. CASE UNCHANGED vars
    BY <2>2 DEF vars, Stream!vars
  <2> QED
    BY <2>1, <2>2
<1> QED
  BY <1>1, <1>2, Invariance, PTL DEF Spec, ImplementsStream, Stream!Spec

=============================================================================
