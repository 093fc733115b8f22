----------------------------- MODULE AutoUnlock -----------------------------
(***************************************************************************)
(* The unlock pipeline: the Windows service (ClientWinService/ConsoleApp4) *)
(* finds unlock.txt or gets a WCF call, reads the stored account and sends *)
(* it down the named pipe TestPipe; a thread of the credential provider    *)
(* (samplecredentialprovider), loaded by LogonUI while the workstation is  *)
(* locked, receives it and offers it to LogonUI for ten seconds.           *)
(*                                                                         *)
(* Two kinds of thread of the service run the same static methods of Utils *)
(* and share the static field cfg: the scan thread and the WCF calls in    *)
(* progress, each with an instance and a thread of its own.  Stopping the  *)
(* service does not stop its scan thread, so a stopped and a restarted     *)
(* service process can scan side by side.                                  *)
(***************************************************************************)
EXTENDS Naturals, FiniteSets

CONSTANTS Proc,        \* service processes that may be started
          Calls,       \* WCF calls a process may have in progress at once
          Users,       \* accounts that can be sent, each with its password
          ValidUser,   \* the account Windows accepts
          MaxLocks     \* bound on how often the workstation is locked

NoUser == "-"
Administrator == "Administrator"
Empty == ""              \* an empty name or password
Typed == "typed"         \* a password typed into the tile

ASSUME UnlockAssumption ==
    /\ MaxLocks \in Nat
    /\ "scan" \notin Calls
    /\ Users \cap {NoUser, Administrator, Empty, Typed} = {}

Thread == Proc \X ({"scan"} \cup Calls)

VARIABLES
    unlock_txt, lock_txt,  \* do the request files exist
    config,     \* config.ini: absent, malformed, or naming an account
    server,     \* IsServerVersion()
    scm,        \* the process the service manager regards as the service
    alive,      \* processes that exist
    cfg,        \* [Proc -> ...] the static Utils.cfg; "empty" until loaded
    gate,       \* [Proc -> BOOLEAN] m_SessionState lets WCF calls through
    thr,        \* [Thread -> [pc, user]]
    locked,     \* LogonUI runs on the console session
    locks,      \* times locked so far
    prov,       \* the provider in LogonUI: [pc, msg, user, pass, bAutoLogon]
    pipe,       \* the pipe instance: [st, client, user]
    ui          \* LogonUI's thread: [pc, user, pass, seen, edited]

svc == <<scm, alive, cfg, gate, thr>>
files == <<unlock_txt, lock_txt, config, server>>
logon == <<locked, locks, prov, pipe, ui>>
vars == <<files, svc, logon>>

NoClient == <<NoUser, NoUser>>
NoPipe == [st |-> "none", client |-> NoClient, user |-> Empty]
NoProv == [pc |-> "none", msg |-> Empty, user |-> Empty, pass |-> Empty,
           bAutoLogon |-> FALSE]

\* user and pass are what GetSerialization has read.  For the properties, seen
\* is where the provider's thread was when it read the name, and edited whether
\* LogonUI has written the password field.
NoTile == [pc |-> "idle", user |-> Empty, pass |-> Empty, seen |-> "none",
           edited |-> FALSE]

Init ==
    /\ unlock_txt = FALSE /\ lock_txt = FALSE
    /\ config \in {"none", "bad"} \cup Users
    /\ server \in BOOLEAN
    /\ scm = NoUser /\ alive = {}
    /\ cfg = [p \in Proc |-> "null"]
    /\ gate = [p \in Proc |-> FALSE]
    /\ thr = [t \in Thread |-> [pc |-> "none", user |-> Empty]]
    /\ locked = FALSE /\ locks = 0
    /\ prov = NoProv /\ pipe = NoPipe /\ ui = NoTile

Goto(t, pc) == thr' = [thr EXCEPT ![t].pc = pc]

\* Fault: a failed attempt skips the File.Delete.
Idle_NoDelete(t) ==
    [pc |-> IF t[2] = "scan" THEN "poll" ELSE "none", user |-> Empty]

\* Where a thread goes when UnLockWinStation or SendUserNameAndPassword
\* returns: the scan thread deletes unlock.txt, a WCF call is over.
Idle(t) == [pc |-> IF t[2] = "scan" THEN "delete" ELSE "none", user |-> Empty]

Return(t) == thr' = [thr EXCEPT ![t] = Idle(t)]

-----------------------------------------------------------------------------
(* Windows and the user.                                                   *)

\* Somebody writes unlock.txt; writing over an existing one is no new file.
RequestUnlock ==
    /\ ~unlock_txt
    /\ unlock_txt' = TRUE
    /\ UNCHANGED <<lock_txt, config, server, svc, logon>>

RequestLock ==
    /\ ~lock_txt
    /\ lock_txt' = TRUE
    /\ UNCHANGED <<unlock_txt, config, server, svc, logon>>

\* LogonUI starts: CSample_CreateInstance, SetUsageScenario (which enumerates
\* one Administrator tile and starts _ThreadProc, once per LogonUI process
\* because s_bCredsEnumerated is static), Advise.
LockStation ==
    /\ ~locked
    /\ locks < MaxLocks
    /\ locked' = TRUE
    /\ locks' = locks + 1
    /\ prov' = [NoProv EXCEPT !.pc = "create", !.user = Administrator]
    /\ pipe' = NoPipe /\ ui' = NoTile

\* LogonUI exits, and with it the provider, its thread and its pipe.
EndLogonUI ==
    /\ locked' = FALSE
    /\ prov' = NoProv /\ pipe' = NoPipe /\ ui' = NoTile
    /\ UNCHANGED locks

UserLocks == LockStation /\ UNCHANGED <<files, svc>>

UserUnlocks == locked /\ EndLogonUI /\ UNCHANGED <<files, svc>>

-----------------------------------------------------------------------------
(* The service: ClientWinService.                                          *)

\* A new process (the old one may live on): m_ScanThread is null in it.
OnStart(p) ==
    /\ scm = NoUser
    /\ p \notin alive
    /\ scm' = p
    /\ alive' = alive \cup {p}
    /\ cfg' = [cfg EXCEPT ![p] = "null"]
    /\ gate' = [gate EXCEPT ![p] = FALSE]
    /\ thr' = [thr EXCEPT ![<<p, "scan">>] = [pc |-> "poll", user |-> Empty]]
    /\ UNCHANGED <<files, logon>>

\* Closes the WCF host, which waits for the calls in progress; the scan
\* thread is a foreground thread and goes on.
OnStop(p) ==
    /\ scm = p
    /\ \A c \in Calls : thr[<<p, c>>].pc = "none"
    /\ scm' = NoUser
    /\ UNCHANGED <<files, alive, cfg, gate, thr, logon>>

\* Only ConsoleConnect and ConsoleDisconnect are stored, and both differ from
\* the initial SessionUnlock that keeps WCF calls out.
OnSessionChange(p) ==
    /\ scm = p
    /\ ~gate[p]
    /\ gate' = [gate EXCEPT ![p] = TRUE]
    /\ UNCHANGED <<files, scm, alive, cfg, thr, logon>>

\* WinStationService.UnLockWinStation: type 0 uses the stored account, any
\* other type the one in the call.
WcfCall(p, c) ==
    /\ scm = p
    /\ thr[<<p, c>>].pc = "none"
    /\ gate[p]
    /\ \/ Goto(<<p, c>>, "check")
       \/ \E u \in Users :
             thr' = [thr EXCEPT ![<<p, c>>] = [pc |-> "connect", user |-> u]]
    /\ UNCHANGED <<files, scm, alive, cfg, gate, logon>>

\* ThreadProc looks for unlock.txt first.
Poll(p) ==
    /\ thr[<<p, "scan">>].pc = "poll"
    /\ unlock_txt \/ lock_txt
    /\ Goto(<<p, "scan">>, CASE unlock_txt /\ server -> "rdp"
                             [] unlock_txt /\ ~server -> "check"
                             [] OTHER -> "lock")
    /\ UNCHANGED <<files, scm, alive, cfg, gate, logon>>

LockWorkStation(p) ==
    /\ thr[<<p, "scan">>].pc = "lock"
    /\ IF locked \/ locks = MaxLocks THEN UNCHANGED logon ELSE LockStation
    /\ Goto(<<p, "scan">>, "unlist")
    /\ UNCHANGED <<files, scm, alive, cfg, gate>>

\* File.Delete does nothing when another process has deleted the file.
DeleteLock(p) ==
    /\ thr[<<p, "scan">>].pc = "unlist"
    /\ lock_txt' = FALSE
    /\ Goto(<<p, "scan">>, "poll")
    /\ UNCHANGED <<unlock_txt, config, server, scm, alive, cfg, gate, logon>>

DeleteUnlock(p) ==
    /\ thr[<<p, "scan">>].pc = "delete"
    /\ unlock_txt' = FALSE
    /\ Goto(<<p, "scan">>, "poll")
    /\ UNCHANGED <<lock_txt, config, server, scm, alive, cfg, gate, logon>>

\* An exception nobody catches in the scan thread ends the process and its
\* statics; Windows closes its end of the pipe.
Crash(p) ==
    /\ alive' = alive \ {p}
    /\ scm' = IF scm = p THEN NoUser ELSE scm
    /\ thr' = [t \in Thread |->
                 IF t[1] = p THEN [pc |-> "none", user |-> Empty] ELSE thr[t]]
    /\ pipe' = IF pipe.st = "connected" /\ pipe.client[1] = p
               THEN [NoPipe EXCEPT !.st = "broken"] ELSE pipe
    /\ cfg' = [cfg EXCEPT ![p] = "null"]
    /\ gate' = [gate EXCEPT ![p] = FALSE]
    /\ UNCHANGED <<files, locked, locks, prov, ui>>

\* An exception in thread t: fatal in the scan thread, a WCF fault otherwise.
Throw(t) ==
    \/ /\ t[2] = "scan"
       /\ Crash(t[1])
    \/ /\ t[2] \in Calls
       /\ Goto(t, "none")
       /\ UNCHANGED <<files, scm, alive, cfg, gate, logon>>

\* Utils.NewRDP: without mstsc2.exe or a configuration it gives up.  It reads
\* unlock.txt again, which another process may have deleted meanwhile, and
\* replaces cfg every time ("always reload config file for different users").
NewRDP(p) ==
    /\ thr[<<p, "scan">>].pc = "rdp"
    /\ \/ /\ Goto(<<p, "scan">>, "delete")
          /\ UNCHANGED <<files, scm, alive, cfg, gate, logon>>
       \/ /\ ~unlock_txt
          /\ Crash(p)
       \/ /\ unlock_txt
          /\ config # "none"
          /\ cfg' = [cfg EXCEPT ![p] = "empty"]
          /\ Goto(<<p, "scan">>, "load")
          /\ UNCHANGED <<files, scm, alive, gate, logon>>

-----------------------------------------------------------------------------
(* Utils.UnLockWinStation and SendUserNameAndPassword, run by thread t.    *)

\* The console is active and no LogonUI runs: nothing to do.
Check(t) ==
    /\ thr[t].pc = "check"
    /\ IF locked THEN Goto(t, "cfg") ELSE Return(t)
    /\ UNCHANGED <<files, scm, alive, cfg, gate, logon>>

\* cfg is loaded once per process: the null test,
FindCfg(t) ==
    /\ thr[t].pc = "cfg"
    /\ Goto(t, IF cfg[t[1]] = "null" THEN "new" ELSE "decrypt")
    /\ UNCHANGED <<files, scm, alive, cfg, gate, logon>>

\* then a look for config.ini, and the new object is published before it is
\* loaded, whatever another thread has put there since the test.
NewCfg(t) ==
    /\ thr[t].pc = "new"
    /\ \/ /\ config = "none"
          /\ Return(t)
          /\ UNCHANGED cfg
       \/ /\ config # "none"
          /\ cfg' = [cfg EXCEPT ![t[1]] = "empty"]
          /\ Goto(t, "load")
    /\ UNCHANGED <<files, scm, alive, gate, logon>>

\* cfg.load goes to whatever object the static field holds by now; loading
\* into one that another thread has loaded already repeats a key, and
\* Dictionary.Add throws.
LoadCfg(t) ==
    /\ thr[t].pc = "load"
    /\ \/ /\ cfg[t[1]] = "empty"
          /\ cfg' = [cfg EXCEPT ![t[1]] = config]
          /\ Goto(t, "decrypt")
          /\ UNCHANGED <<files, scm, alive, gate, logon>>
       \/ /\ cfg[t[1]] # "empty"
          /\ Throw(t)

\* getValue and Decrypt throw when the configuration lacks the account, or
\* has not been loaded yet.  On a server the scan thread goes on to start
\* mstsc2.exe, if the user has no unlocked session, and returns.
Decrypt(t) ==
    /\ thr[t].pc = "decrypt"
    /\ \/ /\ cfg[t[1]] \in Users
          /\ thr' = [thr EXCEPT ![t] =
                        IF server /\ t[2] = "scan"
                        THEN Idle(t)
                        ELSE [pc |-> "connect", user |-> cfg[t[1]]]]
          /\ UNCHANGED <<files, scm, alive, cfg, gate, logon>>
       \/ /\ cfg[t[1]] \notin Users
          /\ Throw(t)

\* pipeClient.Connect(10000) finds a listening instance, or times out; the
\* exception is caught and logged.  Ten seconds are enough for a provider's
\* thread that has just started to create its pipe.
Connect(t) ==
    /\ thr[t].pc = "connect"
    /\ \/ /\ pipe.st = "listening"
          /\ pipe' = [pipe EXCEPT !.st = "connected", !.client = t]
          /\ Goto(t, "write")
       \/ /\ pipe.st # "listening"
          /\ prov.pc # "create"
          /\ Return(t)
          /\ UNCHANGED pipe
    /\ UNCHANGED <<files, scm, alive, cfg, gate, locked, locks, prov, ui>>

\* Write and Close; an exception (the server end has gone) is logged.
Write(t) ==
    /\ thr[t].pc = "write"
    /\ IF pipe.st = "connected" /\ pipe.client = t
       THEN pipe' = [pipe EXCEPT !.st = "message", !.user = thr[t].user]
       ELSE UNCHANGED pipe
    /\ Return(t)
    /\ UNCHANGED <<files, scm, alive, cfg, gate, locked, locks, prov, ui>>

ServiceThread(t) ==
    \/ Check(t)
    \/ FindCfg(t)
    \/ NewCfg(t)
    \/ LoadCfg(t)
    \/ Decrypt(t)
    \/ Connect(t)
    \/ Write(t)

ScanThread(p) ==
    \/ Poll(p)
    \/ LockWorkStation(p)
    \/ DeleteLock(p)
    \/ DeleteUnlock(p)
    \/ NewRDP(p)
    \/ ServiceThread(<<p, "scan">>)

-----------------------------------------------------------------------------
(* The provider's _ThreadProc: one message, then it ends.                  *)

ProvStep(from, to) ==
    /\ prov.pc = from
    /\ prov' = to
    /\ UNCHANGED <<files, svc, locked, locks, ui>>

\* CreateNamedPipe, which may fail.
CreatePipe ==
    \/ /\ ProvStep("create", [prov EXCEPT !.pc = "connect"])
       /\ pipe' = [NoPipe EXCEPT !.st = "listening"]
    \/ /\ ProvStep("create", [prov EXCEPT !.pc = "done"])
       /\ UNCHANGED pipe

\* ConnectNamedPipe finds a client, or waits for one.  It fails when a client
\* has come and gone before the call, or for reasons of its own;
\* GetMessageData closes the pipe then, and returns TRUE all the same: the
\* message is the empty one it was initialised to.
ConnectPipe ==
    \/ /\ pipe.st = "connected"
       /\ ProvStep("connect", [prov EXCEPT !.pc = "read"])
       /\ UNCHANGED pipe
    \/ /\ pipe.st = "listening"
       /\ ProvStep("connect", [prov EXCEPT !.pc = "wait"])
       /\ UNCHANGED pipe
    \/ /\ ProvStep("connect", [prov EXCEPT !.pc = "setuser"])
       /\ pipe' = NoPipe
    \/ /\ pipe.st # "listening"
       /\ ProvStep("wait", [prov EXCEPT !.pc = "read"])
       /\ UNCHANGED pipe

\* ReadFile: a message, or a client that went away.
ReadPipe ==
    \/ /\ pipe.st = "message"
       /\ ProvStep("read", [prov EXCEPT !.pc = "setuser", !.msg = pipe.user])
       /\ pipe' = NoPipe
    \/ /\ pipe.st = "broken"
       /\ ProvStep("read", [prov EXCEPT !.pc = "done"])
       /\ UNCHANGED pipe

\* SetCredentialInfo(user, pass): name, password, then the flag that makes
\* GetCredentialCount offer the tile; then CredentialsChanged.
SetUser == ProvStep("setuser", [prov EXCEPT !.user = prov.msg, !.pc = "setpass"])
           /\ UNCHANGED pipe

SetPass == ProvStep("setpass", [prov EXCEPT !.pass = prov.msg, !.pc = "setauto"])
           /\ UNCHANGED pipe

SetAuto == ProvStep("setauto", [prov EXCEPT !.bAutoLogon = TRUE, !.pc = "sleep"])
           /\ UNCHANGED pipe

\* After ten seconds: SetCredentialInfo("Administrator", NULL).
ExpireUser ==
    /\ ProvStep("sleep", [prov EXCEPT !.user = Administrator, !.pc = "exppass"])
    /\ UNCHANGED pipe

ExpirePass ==
    /\ ProvStep("exppass", [prov EXCEPT !.pass = Empty, !.pc = "expauto"])
    /\ UNCHANGED pipe

\* Fault: the offer is left standing.
ExpireAuto_Keep ==
    /\ ProvStep("expauto", [prov EXCEPT !.pc = "done"])
    /\ UNCHANGED pipe

ExpireAuto ==
    /\ ProvStep("expauto", [prov EXCEPT !.bAutoLogon = FALSE, !.pc = "done"])
    /\ UNCHANGED pipe

ProviderThread ==
    \/ CreatePipe
    \/ ConnectPipe
    \/ ReadPipe
    \/ SetUser
    \/ SetPass
    \/ SetAuto
    \/ ExpireUser
    \/ ExpirePass
    \/ ExpireAuto

-----------------------------------------------------------------------------
(* LogonUI's own thread.                                                   *)

ShowTile == [NoTile EXCEPT !.pc = "tile", !.edited = ui.edited]

LogonUIStep == UNCHANGED <<files, svc, locked, locks, pipe>>

\* LogonUI asks for the tiles anew.  An auto-logon tile is serialized at once;
\* without the flag no tile is offered at all.
GetCredentialCount ==
    /\ ui.pc \in {"idle", "tile"}
    /\ ui' = IF prov.bAutoLogon THEN [ui EXCEPT !.pc = "name"] ELSE NoTile
    /\ LogonUIStep /\ UNCHANGED prov

\* The user submits the tile, or selects it while its own flag is up.
SubmitTile ==
    /\ ui.pc = "tile"
    /\ ui' = [ui EXCEPT !.pc = "name"]
    /\ LogonUIStep /\ UNCHANGED prov

\* SetDeselected clears the password field, SetStringValue is a keystroke in
\* it; the name is no edit field.
EditPassword(pass) ==
    /\ ui.pc = "tile"
    /\ prov' = [prov EXCEPT !.pass = pass]
    /\ ui' = [ui EXCEPT !.edited = TRUE]
    /\ LogonUIStep

SetDeselected == EditPassword(Empty)

SetStringValue == EditPassword(Typed)

\* Fault: the password is read first.
GetSerialization_PasswordFirst ==
    /\ \/ /\ ui.pc = "name"
          /\ ui' = [ui EXCEPT !.pass = prov.pass, !.seen = prov.pc, !.pc = "pass"]
       \/ /\ ui.pc = "pass"
          /\ ui' = [ui EXCEPT !.user = prov.user, !.pc = "submit"]
    /\ LogonUIStep /\ UNCHANGED prov

\* GetSerialization copies the name, then the password; a call of its own
\* that fails ends it.
GetSerialization ==
    /\ \/ /\ ui.pc = "name"
          /\ ui' = [ui EXCEPT !.user = prov.user, !.seen = prov.pc, !.pc = "pass"]
       \/ /\ ui.pc = "pass"
          /\ ui' = [ui EXCEPT !.pass = prov.pass, !.pc = "submit"]
       \/ /\ ui.pc \in {"name", "pass"}
          /\ ui' = ShowTile
    /\ LogonUIStep /\ UNCHANGED prov

\* LogonUI passes on what was serialized.  Windows unlocks, or LogonUI shows
\* the tile with the reason (ReportResult).
Submit ==
    /\ ui.pc = "submit"
    /\ \/ /\ ui.user = ValidUser /\ ui.pass \in {ValidUser, Typed}
          /\ EndLogonUI
       \/ /\ ~(ui.user = ValidUser /\ ui.pass = ValidUser)
          /\ ui' = ShowTile
          /\ UNCHANGED <<locked, locks, prov, pipe>>
    /\ UNCHANGED <<files, svc>>

LogonUI ==
    \/ GetCredentialCount
    \/ SubmitTile
    \/ SetDeselected
    \/ SetStringValue
    \/ GetSerialization
    \/ Submit

-----------------------------------------------------------------------------
Next ==
    \/ RequestUnlock
    \/ RequestLock
    \/ UserLocks
    \/ UserUnlocks
    \/ \E p \in Proc : \/ OnStart(p)
                       \/ OnStop(p)
                       \/ OnSessionChange(p)
                       \/ ScanThread(p)
                       \/ \E c \in Calls : WcfCall(p, c) \/ ServiceThread(<<p, c>>)
    \/ ProviderThread
    \/ LogonUI

Spec == Init /\ [][Next]_vars

\* Threads run; the ten-second sleep ends.  Nothing obliges the user, the
\* service manager or LogonUI's refresh to act.
FairSpec ==
    /\ Spec
    /\ \A p \in Proc : WF_vars(ScanThread(p))
    /\ \A p \in Proc, c \in Calls : WF_vars(ServiceThread(<<p, c>>))
    /\ WF_vars(ProviderThread)
    /\ WF_vars(GetSerialization \/ Submit)

-----------------------------------------------------------------------------
(* Properties.                                                             *)

ScanPCs == {"none", "poll", "rdp", "lock", "unlist", "delete", "check", "cfg",
            "new", "load", "decrypt", "connect", "write"}
ProvPCs == {"none", "create", "connect", "wait", "read", "setuser", "setpass",
            "setauto", "sleep", "exppass", "expauto", "done"}
Passwords == Users \cup {Empty, Typed}

\* Every variable has its type.
TypeOK ==
    /\ unlock_txt \in BOOLEAN /\ lock_txt \in BOOLEAN /\ server \in BOOLEAN
    /\ config \in {"none", "bad"} \cup Users
    /\ scm \in alive \cup {NoUser} /\ alive \subseteq Proc
    /\ cfg \in [Proc -> {"null", "empty", "bad"} \cup Users]
    /\ gate \in [Proc -> BOOLEAN]
    /\ thr \in [Thread -> [pc : ScanPCs, user : Users \cup {Empty}]]
    /\ locked \in BOOLEAN /\ locks \in 0 .. MaxLocks
    /\ prov \in [pc : ProvPCs, msg : Users \cup {Empty},
                 user : Users \cup {Empty, Administrator},
                 pass : Passwords, bAutoLogon : BOOLEAN]
    /\ pipe \in [st : {"none", "listening", "connected", "message", "broken"},
                 client : Thread \cup {NoClient}, user : Users \cup {Empty}]
    /\ ui \in [pc : {"idle", "tile", "name", "pass", "submit"},
               user : Users \cup {Empty, Administrator}, pass : Passwords,
               seen : ProvPCs, edited : BOOLEAN]

\* What LogonUI submits, although GetSerialization reads the name and then the
\* password (CSampleCredential.cpp:426, 432) while the provider's thread puts
\* the account there and takes it away again, field by field:
\* a password that came down the pipe goes out under the name it came with.
\* The expiry opens one gap: a name read between its writes of name and
\* password (line 35, line 36) is Administrator's.  And a password is missing
\* only if the ten seconds are over or LogonUI wrote the field itself.
SubmitsWhatWasSent ==
    ui.pc = "submit" =>
       /\ ui.pass \in Users => /\ ui.pass = prov.msg
                               /\ ui.user = ui.pass \/ ui.seen = "exppass"
       /\ ui.pass # prov.msg => \/ ui.edited
                                \/ prov.pc \in {"exppass", "expauto", "done"}

\* The offer of an account to LogonUI ends.
OfferExpires == prov.bAutoLogon ~> ~prov.bAutoLogon

\* A request file does not lie around while a process scans for it: it is
\* deleted, or the process that found it dies.
RequestConsumed ==
    \A p \in Proc : (unlock_txt /\ p \in alive) ~> (~unlock_txt \/ p \notin alive)
=============================================================================
