--------------------------- MODULE RemoteForward ---------------------------
(***************************************************************************)
(* Remote port forwardings: portfwd.c keeps one PortFwdRecord (pfr) per    *)
(* configured rule, ssh2connection-client.c one ssh_rportfwd (rpf) per     *)
(* port asked of the server, and ssh2connection.c a linked list of the     *)
(* global requests that wait for an answer, whose entries point at rpfs,   *)
(* which point at pfrs.  The user may change the configuration at any      *)
(* time; each change cancels and requests forwardings.                     *)
(*                                                                         *)
(* The n-th rpf and the list entry made for it both have the number n; 0   *)
(* is NULL.  "wild" is the value an uninitialised pointer had by chance.   *)
(***************************************************************************)
EXTENDS Integers, Sequences

CONSTANTS NRules,      \* rules 1 .. NRules, in the order of pfr_cmp
          Source,      \* [rule -> port]: the shost and sport asked for
          MaxRpf,      \* bound: requests made altogether
          MaxConf,     \* bound: how often the configuration is changed
          MaxOpen      \* bound: connections the server makes

Rule == 1 .. NRules
Port == {Source[r] : r \in Rule}

ASSUME ForwardAssumption ==
    /\ {NRules, MaxRpf, MaxConf, MaxOpen} \subseteq Nat
    /\ DOMAIN Source = Rule

VARIABLES m,         \* PuTTY
          c2s, s2c,  \* global requests, and their answers and OPENs
          srv        \* the server: the ports it listens on, OPENs it has sent

vars == <<m, c2s, s2c, srv>>

\* m.forwardings: rules with a pfr in the tree; those in m.dangling have been
\* freed.  m.remote: pfr->remote.  m.rportfwds: the tree of rpfs, by port.
Start ==
    [conf |-> {}, confs |-> 0,
     forwardings |-> {}, dangling |-> {}, remote |-> [r \in Rule |-> 0],
     rportfwds |-> [port \in Port |-> 0],
     rule |-> <<>>,            \* rpf -> the rule it stands for
     rpfs |-> {},              \* rpfs that are allocated
     head |-> 0, tail |-> 0,   \* globreq_head, globreq_tail
     next |-> <<>>,            \* list entry -> ogr->next, -1: uninitialised
     ogrs |-> {},              \* list entries that are allocated
     answers |-> 0, accepted |-> 0,
     gentle |-> TRUE,          \* so far the user has added rules only before
                               \* the first answer, dropped them only when all
                               \* were answered, and had one for each port
     out |-> <<>>,             \* requests this step adds to c2s
     fault |-> "none"]

\* n is the number of the request that is made or answered (0: none); only the
\* properties see it, since the order of the answers has to tell PuTTY.
Msg(type, port, n) == [type |-> type, port |-> port, n |-> n]
NoPort == 0

Check(r, ok, fault) ==
    IF ok \/ r.fault # "none" THEN r ELSE [r EXCEPT !.fault = fault]

-----------------------------------------------------------------------------
(* ssh2connection.c and ssh2connection-client.c.                           *)

\* Fault: takes every request for the first.
ssh2_queue_global_request_handler_HeadOnly(r, n) ==
    [r EXCEPT !.ogrs = @ \cup {n}, !.next = Append(@, -1), !.tail = n, !.head = n]

\* next is left uninitialised, and tail may point at an entry that has been
\* freed: the store then goes astray.
ssh2_queue_global_request_handler(r, n) ==
    LET r1 == [r EXCEPT !.ogrs = @ \cup {n}, !.next = Append(@, -1), !.tail = n]
    IN  CASE r.tail = 0 -> [r1 EXCEPT !.head = n]
          [] r.tail # 0 /\ r.tail \in r.ogrs -> [r1 EXCEPT !.next[r.tail] = n]
          [] OTHER -> r1

\* A second rpf for the same port is refused: portfwdmgr_config then frees the
\* pfr, and leaves it in the tree.
ssh2_rportfwd_alloc(r, rule) ==
    LET n == Len(r.rule) + 1
    IN  IF r.rportfwds[Source[rule]] # 0
        THEN [r EXCEPT !.dangling = @ \cup {rule}]
        ELSE ssh2_queue_global_request_handler(
                 [r EXCEPT !.rule = Append(@, rule), !.rpfs = @ \cup {n},
                           !.rportfwds[Source[rule]] = n,
                           !.remote[rule] = n,
                           !.out = Append(@, Msg("forward", Source[rule], n))], n)

\* Fault: the server is not told.
ssh2_rportfwd_remove_Silent(r, rule) ==
    LET n == r.remote[rule]
    IN  [r EXCEPT !.rportfwds[Source[rule]] = 0, !.rpfs = @ \ {n},
                  !.remote[rule] = 0, !.forwardings = @ \ {rule}]

\* Fault: the record stays in the tree.
ssh2_rportfwd_remove_Keep(r, rule) ==
    [r EXCEPT !.out = Append(@, Msg("cancel", Source[rule], 0)),
              !.rpfs = @ \ {r.remote[rule]}, !.remote[rule] = 0, !.forwardings = @ \ {rule}]

\* With the del234 and the pfr_free that follow it in portfwdmgr_config.
ssh2_rportfwd_remove(r, rule) ==
    LET n == r.remote[rule]
    IN  [Check(r, r.rportfwds[Source[rule]] = n, "assert_realpf") EXCEPT
            !.out = Append(@, Msg("cancel", Source[rule], 0)),
            !.rportfwds[Source[rule]] = 0, !.rpfs = @ \ {n},
            !.remote[rule] = 0, !.forwardings = @ \ {rule}]

\* Fault: a refused forwarding keeps its pfr.
ssh2_rportfwd_globreq_response_KeepPfr(r, n, success) ==
    IF success THEN r
    ELSE [r EXCEPT !.rportfwds[Source[r.rule[n]]] = 0, !.rpfs = @ \ {n}]

\* On refusal the rpf is deleted and, by portfwdmgr_close, the pfr with it.
ssh2_rportfwd_globreq_response(r, n, success) ==
    LET rule == r.rule[n]
        port == Source[rule]
    IN  CASE n \notin r.rpfs -> Check(r, FALSE, "stale_rpf")
          [] n \in r.rpfs /\ success -> r
          [] OTHER ->
                [Check(r, r.rportfwds[port] = n, "assert_realpf") EXCEPT
                    !.rportfwds[port] = 0, !.rpfs = @ \ {n},
                    !.remote[rule] = 0, !.forwardings = @ \ {rule}]

-----------------------------------------------------------------------------
(* portfwd.c.                                                              *)

\* Rules that are gone are cancelled first, then new ones are requested, both
\* in the order of the tree.
portfwdmgr_config(r, conf) ==
    LET gone == r.forwardings \ conf
        new  == conf \ r.forwardings
        cancelled[i \in 0 .. NRules] ==
            IF i = 0 THEN Check(r, r.dangling = {}, "stale_pfr")
            ELSE IF i \in gone THEN ssh2_rportfwd_remove(cancelled[i - 1], i)
            ELSE cancelled[i - 1]
        requested[i \in 0 .. NRules] ==
            IF i = 0 THEN [cancelled[NRules] EXCEPT !.forwardings = conf,
                                                    !.conf = conf, !.confs = @ + 1]
            ELSE IF i \in new THEN ssh2_rportfwd_alloc(requested[i - 1], i)
            ELSE requested[i - 1]
    IN  requested[NRules]

-----------------------------------------------------------------------------
Running == m.fault = "none"

\* PuTTY takes the step that leads to r: its requests are sent.
Step(r) ==
    /\ Running
    /\ m' = IF r.fault = "none" THEN [r EXCEPT !.out = <<>>]
            ELSE [m EXCEPT !.fault = r.fault, !.gentle = r.gentle]
    /\ c2s' = IF r.fault = "none" THEN c2s \o r.out ELSE c2s

Unanswered == {i \in DOMAIN m.rule : i > m.answers}

\* Is changing the rules to conf what a gentle user would do now?
GentleChange(conf) ==
    /\ conf \subseteq m.forwardings \/ m.answers = 0
    /\ m.forwardings \subseteq conf \/ Unanswered = {}
    /\ \A r1, r2 \in conf : Source[r1] = Source[r2] => r1 = r2

\* ssh2_connection_process_queue, ssh2_connection_reconfigure.
Reconfigure ==
    /\ m.confs < MaxConf
    /\ Len(m.rule) + NRules <= MaxRpf
    /\ \E conf \in SUBSET Rule :
          Step(portfwdmgr_config(
                   [m EXCEPT !.gentle = @ /\ GentleChange(conf)], conf))
    /\ UNCHANGED <<s2c, srv>>

\* The values a pointer may turn out to have.
Pointer(v) == IF v = -1 THEN {0, -1} ELSE {v}

\* REQUEST_SUCCESS, REQUEST_FAILURE: the first entry's handler is called, then
\* the entry leaves the list.
RcvdReply ==
    /\ s2c # <<>>
    /\ Head(s2c).type \in {"success", "failure"}
    /\ LET h == m.head
           r == ssh2_rportfwd_globreq_response(m, h, Head(s2c).type = "success")
       IN  CASE h = 0 -> Step(Check(m, FALSE, "proto_error"))
             [] h = -1 -> Step(Check(m, FALSE, "wild_pointer"))
             [] OTHER -> \E next \in Pointer(m.next[h]) :
                            Step([r EXCEPT !.head = next, !.ogrs = @ \ {h},
                                           !.answers = @ + 1])
    /\ s2c' = Tail(s2c)
    /\ UNCHANGED srv

\* CHANNEL_OPEN of type forwarded-tcpip: chan_open_forwarded_tcpip.
RcvdOpen ==
    /\ s2c # <<>>
    /\ Head(s2c).type = "open"
    /\ LET n == m.rportfwds[Head(s2c).port]
       IN  \/ /\ n # 0
              /\ Step([m EXCEPT !.accepted = m.rule[n]])
           \/ Step([m EXCEPT !.accepted = 0])   \* unknown, or connect failed
    /\ s2c' = Tail(s2c)
    /\ UNCHANGED srv

-----------------------------------------------------------------------------
(* The server (external).                                                  *)

ServerForward ==
    /\ Running
    /\ c2s # <<>> /\ Head(c2s).type = "forward"
    /\ \/ /\ s2c' = Append(s2c, Msg("success", NoPort, Head(c2s).n))
          /\ srv' = [srv EXCEPT !.listens = @ \cup {Head(c2s).port}]
       \/ /\ s2c' = Append(s2c, Msg("failure", NoPort, Head(c2s).n))
          /\ UNCHANGED srv
    /\ c2s' = Tail(c2s)
    /\ UNCHANGED m

ServerCancel ==
    /\ Running
    /\ c2s # <<>> /\ Head(c2s).type = "cancel"
    /\ srv' = [srv EXCEPT !.listens = @ \ {Head(c2s).port}]
    /\ c2s' = Tail(c2s)
    /\ UNCHANGED <<m, s2c>>

\* Somebody connects to a port the server listens on.
ServerOpen ==
    /\ Running
    /\ srv.opens < MaxOpen
    /\ \E port \in srv.listens :
          /\ s2c' = Append(s2c, Msg("open", port, 0))
          /\ srv' = [srv EXCEPT !.opens = @ + 1]
    /\ UNCHANGED <<m, c2s>>

Init ==
    /\ m = Start
    /\ c2s = <<>> /\ s2c = <<>>
    /\ srv = [listens |-> {}, opens |-> 0]

Next ==
    \/ Reconfigure
    \/ RcvdReply
    \/ RcvdOpen
    \/ ServerForward
    \/ ServerCancel
    \/ ServerOpen

Spec == Init /\ [][Next]_vars

-----------------------------------------------------------------------------
(* Properties.                                                             *)

\* Every variable has its type.
TypeOK ==
    /\ m.forwardings \subseteq Rule /\ m.dangling \subseteq m.forwardings
    /\ m.remote \in [Rule -> {0} \cup DOMAIN m.rule]
    /\ m.rportfwds \in [Port -> {0} \cup m.rpfs]
    /\ m.rpfs \subseteq DOMAIN m.rule /\ m.ogrs \subseteq DOMAIN m.rule
    /\ m.accepted \in {0} \cup Rule
    /\ m.fault \in {"none", "assert_realpf", "stale_rpf", "stale_pfr",
                    "proto_error", "wild_pointer"}
    /\ srv.listens \subseteq Port

\* The records point at each other: a pfr in the tree has the rpf the server
\* was asked for on its behalf, and there is no other rpf.
\* A step through portfwdmgr_config or a refusal changes both or neither.
RecordsAgree ==
    LET sound == m.forwardings \ m.dangling
    IN  /\ \A r \in sound : /\ m.remote[r] \in m.rpfs
                            /\ m.rportfwds[Source[r]] = m.remote[r]
        /\ m.rpfs = {m.remote[r] : r \in sound}

\* When everything sent has been dealt with, the server listens on the ports
\* of the forwardings PuTTY has, and on no others.
ServerAgrees ==
    Running /\ c2s = <<>> /\ s2c = <<>> =>
       srv.listens = {port \in Port : m.rportfwds[port] # 0}

\* portfwd.c:956-959: once PuTTY has dropped a forwarding, "any connections
\* the server tries to make on it are rejected": each announced connection,
\* taken in turn, is accepted for a rule of the configuration or for none, also
\* when the rule just cancelled is the one the last connection was accepted for.
CancelledIsRejected ==
    [][RcvdOpen /\ m'.accepted # 0 => m'.accepted \in m.conf]_vars

\* A user who is gentle meets none of the faults of the three tables: neither
\* the list of requests (ssh2connection.c:175-187, 368-372), nor a record freed
\* under an answer on its way (ssh2connection-client.c:206, 280), nor one freed
\* and left in its tree (portfwd.c:1045).
GentleIsSafe == m.gentle => Running
=============================================================================
