------------------------------ MODULE HandleIO ------------------------------
(***************************************************************************)
(* putty-src/windows/winhandl.c: blocking I/O on Windows handles, done by  *)
(* one subthread per handle and presented to the single-threaded main loop *)
(* as events.                                                              *)
(*                                                                         *)
(* A handle is one record.  The main thread owns most of its fields and    *)
(* the subthread the rest; they pass the buffer to and fro through two     *)
(* auto-reset events.  Bytes are stream offsets: a buffer holding bytes    *)
(* from+1 .. from+len of its stream is the pair (from, len), so a lost,    *)
(* repeated or overwritten byte shows as an offset that does not line up.  *)
(***************************************************************************)
EXTENDS Naturals

CONSTANTS Handle,        \* addresses a struct handle may be allocated at
          MAX_BACKLOG,   \* winhandl.c:44, in units of data
          MaxChunk,      \* size of ctx->buffer, and of one handle_write
          MaxData        \* bound on the length of each stream

ASSUME ConstAssumption ==
    /\ MAX_BACKLOG \in Nat \ {0}
    /\ MaxChunk \in Nat \ {0}
    /\ MaxData \in Nat

VARIABLE hs              \* [Handle -> HandleRec]

vars == hs

Kinds == {"none", "HT_INPUT", "HT_OUTPUT", "HT_FOREIGN"}

\* Where a subthread is: in ReadFile / WriteFile ("io"), about to SetEvent
\* ("signal"), in WaitForSingleObject ("wait"), past it and about to test
\* ctx->done ("woken"), gone ("exited").
ThreadPCs == {"none", "io", "signal", "wait", "woken", "exited"}

HandleRec ==
    [kind : Kinds,
     mem : {"unused", "live", "freed"},  \* allocation of the struct itself
     moribund : BOOLEAN, done : BOOLEAN, defunct : BOOLEAN, busy : BOOLEAN,
     ev_to_main : BOOLEAN, ev_from_main : BOOLEAN,
     pc : ThreadPCs,
     ignoreeof : BOOLEAN,                \* HANDLE_FLAG_IGNOREEOF
     from : Nat, len : Nat,              \* ctx->buffer, ctx->len
     lenwritten : Nat,
     err : BOOLEAN,                      \* readerr / writeerr nonzero
     os : Nat,          \* stream offset the OS has reached on this handle
     main : Nat,        \* offset given to gotdata / consumed from queued_data
     sub : Nat,         \* offset reached by handle_write (output only)
     held : Nat,        \* client's backlog of undigested input
     outgoingeof : {"EOF_NO", "EOF_PENDING", "EOF_SENT"},
     open : BOOLEAN]    \* the OS handle ctx->h is open

Blank ==
    [kind |-> "none", mem |-> "unused",
     moribund |-> FALSE, done |-> FALSE, defunct |-> FALSE, busy |-> FALSE,
     ev_to_main |-> FALSE, ev_from_main |-> FALSE, pc |-> "none",
     ignoreeof |-> FALSE, from |-> 0, len |-> 0, lenwritten |-> 0,
     err |-> FALSE, os |-> 0, main |-> 0, sub |-> 0, held |-> 0,
     outgoingeof |-> "EOF_NO", open |-> FALSE]

\* bufchain_size(&ctx->queued_data): submitted and not yet consumed.
queued(r) == r.sub - r.main

-----------------------------------------------------------------------------
(* The helpers of the main thread: functions from a handle to a handle.    *)

\* Fault: no test for a read already in progress.
handle_throttle_NoBusyTest(r, backlog) ==
    IF ~r.defunct /\ backlog < MAX_BACKLOG
    THEN [r EXCEPT !.ev_from_main = TRUE, !.busy = TRUE]
    ELSE r

\* Fault: off by one in the comparison with MAX_BACKLOG.
handle_throttle_OffByOne(r, backlog) ==
    IF ~r.defunct /\ ~r.busy /\ backlog <= MAX_BACKLOG
    THEN [r EXCEPT !.ev_from_main = TRUE, !.busy = TRUE]
    ELSE r

handle_throttle(r, backlog) ==
    IF ~r.defunct /\ ~r.busy /\ backlog < MAX_BACKLOG
    THEN [r EXCEPT !.ev_from_main = TRUE, !.busy = TRUE]
    ELSE r

\* Fault: the buffer pointer starts one unit early.
handle_try_output_EarlyPointer(r, n) ==
    IF ~r.busy /\ queued(r) > 0
    THEN [r EXCEPT !.from = r.main - 1, !.len = n,
                   !.ev_from_main = TRUE, !.busy = TRUE]
    ELSE r

\* n is the length of the first block of the bufchain (bufchain_prefix).
handle_try_output(r, n) ==
    CASE ~r.busy /\ queued(r) > 0 ->
             [r EXCEPT !.from = r.main, !.len = n,
                       !.ev_from_main = TRUE, !.busy = TRUE]
      [] ~r.busy /\ queued(r) = 0 /\ r.outgoingeof = "EOF_PENDING" ->
             [r EXCEPT !.open = FALSE, !.outgoingeof = "EOF_SENT"]
      [] OTHER -> r

\* The lengths bufchain_prefix may return for r once k more units are queued.
Prefixes(r, k) == IF queued(r) + k = 0 THEN {0} ELSE 1 .. (queued(r) + k)

handle_destroy(r) == [r EXCEPT !.mem = "freed"]

signal_to_die(r) ==
    [r EXCEPT !.moribund = TRUE, !.done = TRUE, !.busy = TRUE,
              !.ev_from_main = TRUE]

\* Fault: frees a handle whose subthread is in the middle of something.
handle_free_IgnoreBusy(r) ==
    IF r.busy THEN handle_destroy(r) ELSE signal_to_die(r)

handle_free(r) ==
    CASE r.busy /\ r.kind # "HT_FOREIGN" -> [r EXCEPT !.moribund = TRUE]
      [] ~(r.busy /\ r.kind # "HT_FOREIGN") /\ r.defunct -> handle_destroy(r)
      [] OTHER -> signal_to_die(r)

-----------------------------------------------------------------------------
(* The subthreads.  Each step is what happens between two points where the *)
(* main thread can see a difference.                                       *)

Set(h, r) == hs' = [hs EXCEPT ![h] = r]

Thread(h, kind, pc) == hs[h].kind = kind /\ hs[h].pc = pc

\* ReadFile returns data, end of file, or an error.  ERROR_BROKEN_PIPE is
\* turned into end of file; end of file is skipped under IGNOREEOF.
InputRead(h) ==
    /\ Thread(h, "HT_INPUT", "io")
    /\ \/ \E k \in 1 .. MaxChunk :
             /\ hs[h].os + k <= MaxData
             /\ Set(h, [hs[h] EXCEPT !.from = hs[h].os, !.len = k,
                                     !.os = hs[h].os + k, !.err = FALSE,
                                     !.pc = "signal"])
       \/ /\ hs[h].ignoreeof
          /\ Set(h, [hs[h] EXCEPT !.len = 0, !.err = FALSE])
       \/ /\ ~hs[h].ignoreeof
          /\ Set(h, [hs[h] EXCEPT !.len = 0, !.err = FALSE, !.pc = "signal"])
       \/ \E e \in BOOLEAN :
             Set(h, [hs[h] EXCEPT !.len = 0, !.err = e, !.pc = "signal"])

\* finished is read from ctx before the SetEvent.
InputSignal(h) ==
    /\ Thread(h, "HT_INPUT", "signal")
    /\ Set(h, [hs[h] EXCEPT !.ev_to_main = TRUE,
                            !.pc = IF hs[h].len = 0 THEN "exited" ELSE "wait"])

\* WaitForSingleObject on an auto-reset event consumes the signal.
ThreadWait(h) ==
    /\ hs[h].pc = "wait"
    /\ hs[h].ev_from_main
    /\ Set(h, [hs[h] EXCEPT !.ev_from_main = FALSE, !.pc = "woken"])

ThreadWoken(h) ==
    /\ hs[h].pc = "woken"
    /\ Set(h, IF hs[h].done
              THEN [hs[h] EXCEPT !.ev_to_main = TRUE, !.pc = "exited"]
              ELSE [hs[h] EXCEPT !.pc = "io"])

\* WriteFile succeeds, perhaps in part, or fails after writing some of it.
OutputWrite(h) ==
    /\ Thread(h, "HT_OUTPUT", "io")
    /\ \E k \in 0 .. hs[h].len, e \in BOOLEAN :
          Set(h, [hs[h] EXCEPT !.os = hs[h].os + k, !.lenwritten = k,
                               !.err = e, !.pc = "signal"])

OutputSignal(h) ==
    /\ Thread(h, "HT_OUTPUT", "signal")
    /\ Set(h, [hs[h] EXCEPT !.ev_to_main = TRUE,
                            !.pc = IF hs[h].err THEN "exited" ELSE "wait"])

ThreadStep(h) ==
    \/ InputRead(h)
    \/ InputSignal(h)
    \/ ThreadWait(h)
    \/ ThreadWoken(h)
    \/ OutputWrite(h)
    \/ OutputSignal(h)

-----------------------------------------------------------------------------
(* The main thread: creation, and the operations its clients call.  A      *)
(* client stops using a handle once it has freed it (handle_free asserts   *)
(* !moribund), and does not write after end of file (handle_write asserts  *)
(* outgoingeof == EOF_NO).                                                 *)

handle_input_new(h) ==
    /\ hs[h].mem = "unused"
    /\ \E ign \in BOOLEAN :
          Set(h, [Blank EXCEPT !.kind = "HT_INPUT", !.mem = "live",
                               !.pc = "io", !.busy = TRUE, !.open = TRUE,
                               !.ignoreeof = ign])

handle_output_new(h) ==
    /\ hs[h].mem = "unused"
    /\ Set(h, [Blank EXCEPT !.kind = "HT_OUTPUT", !.mem = "live",
                            !.pc = "wait", !.open = TRUE])

handle_add_foreign_event(h) ==
    /\ hs[h].mem = "unused"
    /\ Set(h, [Blank EXCEPT !.kind = "HT_FOREIGN", !.mem = "live",
                            !.defunct = TRUE, !.busy = TRUE])

Usable(h, kind) ==
    hs[h].mem = "live" /\ ~hs[h].moribund /\ hs[h].kind = kind

handle_write(h) ==
    /\ Usable(h, "HT_OUTPUT")
    /\ hs[h].outgoingeof = "EOF_NO"
    /\ \E k \in 1 .. MaxChunk :
          /\ hs[h].sub + k <= MaxData
          /\ \E n \in Prefixes(hs[h], k) :
                Set(h, handle_try_output([hs[h] EXCEPT !.sub = @ + k], n))

handle_write_eof(h) ==
    /\ Usable(h, "HT_OUTPUT")
    /\ hs[h].outgoingeof = "EOF_NO"
    /\ \E n \in Prefixes(hs[h], 0) :
          Set(h, handle_try_output(
                     [hs[h] EXCEPT !.outgoingeof = "EOF_PENDING"], n))

\* The client digests some of its backlog and reports what is left.
handle_unthrottle(h) ==
    /\ Usable(h, "HT_INPUT")
    /\ \E k \in 1 .. hs[h].held :
          Set(h, handle_throttle([hs[h] EXCEPT !.held = @ - k],
                                 hs[h].held - k))

FreeHandle(h) ==
    /\ hs[h].mem = "live"
    /\ ~hs[h].moribund
    /\ Set(h, handle_free(hs[h]))

\* The owner of a foreign event signals it.
ForeignSignal(h) ==
    /\ hs[h].kind = "HT_FOREIGN"
    /\ hs[h].mem = "live"
    /\ ~hs[h].ev_to_main
    /\ Set(h, [hs[h] EXCEPT !.ev_to_main = TRUE])

-----------------------------------------------------------------------------
(* handle_got_event.  The main loop waits on the ev_to_main of the busy    *)
(* handles (handle_get_events); the wait resets the event.  The callbacks  *)
(* gotdata, sentdata and callback run inside it and may free the handle or *)
(* write to it.                                                            *)

Reset(r) == [r EXCEPT !.ev_to_main = FALSE]

\* Fault: forgets to wake the subthread it has told to die.
GotEventMoribund_NoSignal(r) ==
    IF r.done THEN handle_destroy(r)
    ELSE [r EXCEPT !.done = TRUE, !.busy = TRUE]

GotEventMoribund(r) == IF r.done THEN handle_destroy(r) ELSE signal_to_die(r)

\* Fault: takes a read shorter than the buffer for end of file.
GotInput_ShortIsEof(r, free) ==
    LET r1 == [r EXCEPT !.busy = FALSE, !.defunct = TRUE]
        r2 == [r EXCEPT !.busy = FALSE, !.main = @ + r.len, !.held = @ + r.len]
    IN  IF r.len < MaxChunk
        THEN IF free THEN handle_free(r1) ELSE r1
        ELSE handle_throttle(IF free THEN handle_free(r2) ELSE r2, r.held + r.len)

GotInput(r, free) ==
    LET r1 == [r EXCEPT !.busy = FALSE]
        r2 == [r1 EXCEPT !.defunct = TRUE]
        r3 == [r1 EXCEPT !.main = @ + r.len, !.held = @ + r.len]
    IN  IF r.len = 0
        THEN IF free THEN handle_free(r2) ELSE r2
        ELSE handle_throttle(IF free THEN handle_free(r3) ELSE r3,
                             r.held + r.len)

GotOutputError(r, free) ==
    LET r1 == [r EXCEPT !.busy = FALSE, !.defunct = TRUE]
    IN  IF free THEN handle_free(r1) ELSE r1

\* Fault: takes a partial write for a complete one.
Consume_WholeBuffer(r) == [r EXCEPT !.busy = FALSE, !.main = @ + r.len]

Consume(r) == [r EXCEPT !.busy = FALSE, !.main = @ + r.lenwritten]

\* Fault: does not go on with the rest of the queue.
GotOutput_NoRetry(r, free, k, n) ==
    IF free THEN handle_free(Consume(r)) ELSE Consume(r)

\* k is what sentdata writes, if it writes.
GotOutput(r, free, k, n) ==
    LET r1 == Consume(r)
        r2 == IF free THEN handle_free(r1)
              ELSE IF k = 0 THEN r1
              ELSE handle_try_output([r1 EXCEPT !.sub = @ + k], n)
    IN  handle_try_output(r2, n)

handle_got_event(h) ==
    LET r == Reset(hs[h])
    IN  /\ hs[h].mem = "live"
        /\ hs[h].busy
        /\ hs[h].ev_to_main
        /\ \/ /\ r.moribund
              /\ Set(h, GotEventMoribund(r))
           \/ /\ ~r.moribund
              /\ r.kind = "HT_INPUT"
              /\ \E free \in BOOLEAN : Set(h, GotInput(r, free))
           \/ /\ ~r.moribund
              /\ r.kind = "HT_OUTPUT"
              /\ r.err
              /\ \E free \in BOOLEAN : Set(h, GotOutputError(r, free))
           \/ /\ ~r.moribund
              /\ r.kind = "HT_OUTPUT"
              /\ ~r.err
              /\ \E free \in BOOLEAN, k \in 0 .. MaxChunk :
                    /\ k > 0 => /\ ~free
                                /\ r.outgoingeof = "EOF_NO"
                                /\ r.sub + k <= MaxData
                    /\ \E n \in Prefixes(Consume(r), k) :
                          Set(h, GotOutput(r, free, k, n))
           \/ /\ ~r.moribund
              /\ r.kind = "HT_FOREIGN"
              /\ \E free \in BOOLEAN :
                    Set(h, IF free THEN handle_free(r) ELSE r)

-----------------------------------------------------------------------------
Init == hs = [h \in Handle |-> Blank]

Next ==
    \E h \in Handle :
       \/ handle_input_new(h)
       \/ handle_output_new(h)
       \/ handle_add_foreign_event(h)
       \/ handle_write(h)
       \/ handle_write_eof(h)
       \/ handle_unthrottle(h)
       \/ FreeHandle(h)
       \/ ForeignSignal(h)
       \/ handle_got_event(h)
       \/ ThreadStep(h)

Spec == Init /\ [][Next]_vars

\* I/O completes, Windows schedules every subthread, and the main loop gets
\* round to every signalled event.
FairSpec ==
    /\ Spec
    /\ \A h \in Handle : /\ WF_vars(ThreadStep(h))
                         /\ WF_vars(handle_got_event(h))

-----------------------------------------------------------------------------
(* Properties.                                                             *)

\* Every handle record is well formed.
TypeOK == hs \in [Handle -> HandleRec]

ThreadAlive(r) == r.pc \in {"io", "signal", "wait", "woken"}

\* The struct is freed only when its subthread will not touch ctx again
\* ("we mustn't touch ctx at all after the SetEvent", winhandl.c:174, 189).
NoUseAfterFree ==
    \A h \in Handle : ThreadAlive(hs[h]) => hs[h].mem = "live"

\* An input thread is inside ReadFile only when the main thread has taken
\* everything the previous reads put in ctx->buffer.
NoOverwrite ==
    \A h \in Handle :
       Thread(h, "HT_INPUT", "io") /\ ~hs[h].moribund => hs[h].main = hs[h].os

\* When a completed read is announced, the buffer holds exactly the bytes
\* that follow what the client has already been given.
InputInOrder ==
    \A h \in Handle :
       /\ hs[h].kind = "HT_INPUT"
       /\ hs[h].ev_to_main
       /\ ~hs[h].moribund
       /\ hs[h].len > 0
       => hs[h].from = hs[h].main /\ hs[h].os = hs[h].main + hs[h].len

\* WriteFile is called on an open handle, with bytes that were submitted and
\* that continue where the previous WriteFile stopped.
WriteInOrder ==
    \A h \in Handle :
       Thread(h, "HT_OUTPUT", "io") =>
          /\ hs[h].open
          /\ hs[h].from = hs[h].os
          /\ hs[h].from + hs[h].len <= hs[h].sub

\* End of file is sent (the OS handle closed) only after every byte that was
\* queued before it has been written.
EofAfterData ==
    \A h \in Handle :
       hs[h].outgoingeof = "EOF_SENT" => hs[h].os = hs[h].sub

\* Throttling bounds the client's backlog: a read is only started below
\* MAX_BACKLOG, and one read adds at most a buffer.
BacklogBound ==
    \A h \in Handle : hs[h].held < MAX_BACKLOG + MaxChunk

\* A live handle is idle only when there is nothing to do: input is throttled
\* by its backlog, output has nothing queued and no EOF left to send.
NoStall ==
    \A h \in Handle :
       hs[h].mem = "live" /\ ~hs[h].busy /\ ~hs[h].defunct =>
          CASE hs[h].kind = "HT_INPUT"  -> hs[h].held >= MAX_BACKLOG
            [] hs[h].kind = "HT_OUTPUT" -> /\ queued(hs[h]) = 0
                                           /\ hs[h].outgoingeof # "EOF_PENDING"
            [] OTHER -> FALSE

\* The subthread ended of its own accord, and nothing will signal main again.
Orphan(r) == r.pc = "exited" /\ ~r.ev_to_main

\* A freed handle whose thread does not end by itself is destroyed.
FreeCompletes ==
    \A h \in Handle :
       hs[h].moribund ~> (hs[h].mem = "freed" \/ Orphan(hs[h]))

\* Each handle, its two threads, events and buffers taken together, is nothing
\* but a stream of bytes (ByteStream): ReadFile produces for gotdata, which
\* learns of the end when the handle becomes defunct; handle_write produces for
\* WriteFile, and the handle is closed at the end.
Stream == INSTANCE ByteStream WITH
    Stream   <- Handle,
    produced <- [h \in Handle |-> IF hs[h].kind = "HT_OUTPUT" THEN hs[h].sub ELSE hs[h].os],
    consumed <- [h \in Handle |-> IF hs[h].kind = "HT_OUTPUT" THEN hs[h].os ELSE hs[h].main],
    ended    <- [h \in Handle |-> IF hs[h].kind = "HT_OUTPUT" THEN hs[h].outgoingeof # "EOF_NO"
                                  ELSE hs[h].kind = "HT_INPUT" /\ hs[h].defunct],
    closed   <- [h \in Handle |-> IF hs[h].kind = "HT_OUTPUT" THEN hs[h].outgoingeof = "EOF_SENT"
                                  ELSE hs[h].kind = "HT_INPUT" /\ hs[h].defunct]
ImplementsStream == Stream!Spec
=============================================================================
