-------------------------- MODULE AutoUnlockProofs --------------------------
(***************************************************************************)
(* What LogonUI submits is the account that was sent, proved for any       *)
(* number of service processes, calls, accounts and locks.  The provider's *)
(* thread and LogonUI share the fields of the tile without a lock; the     *)
(* argument is about the order in which the one writes and the other reads *)
(* them.                                                                   *)
(***************************************************************************)
EXTENDS AutoUnlock, TLAPS

(* TypeOK by the part of the state a step can change: the files, the       *)
(* service, LogonUI with the provider.                                     *)

FileTypes ==
    /\ unlock_txt \in BOOLEAN /\ lock_txt \in BOOLEAN /\ server \in BOOLEAN
    /\ config \in {"none", "bad"} \cup Users

ThreadRec == [pc : ScanPCs, user : Users \cup {Empty}]

SvcTypes ==
    /\ scm \in alive \cup {NoUser} /\ alive \subseteq Proc
    /\ cfg \in [Proc -> {"null", "empty", "bad"} \cup Users]
    /\ gate \in [Proc -> BOOLEAN]
    /\ thr \in [Thread -> ThreadRec]

ProvRec == [pc : ProvPCs, msg : Users \cup {Empty},
            user : Users \cup {Empty, Administrator},
            pass : Passwords, bAutoLogon : BOOLEAN]

PipeRec == [st : {"none", "listening", "connected", "message", "broken"},
            client : Thread \cup {NoClient}, user : Users \cup {Empty}]

TileRec == [pc : {"idle", "tile", "name", "pass", "submit"},
            user : Users \cup {Empty, Administrator}, pass : Passwords,
            seen : ProvPCs, edited : BOOLEAN]

LogonTypes ==
    /\ locked \in BOOLEAN /\ locks \in 0 .. MaxLocks
    /\ prov \in ProvRec /\ pipe \in PipeRec /\ ui \in TileRec

Over == {"expauto", "done"}         \* the password has been taken away
Expiry == {"exppass"} \cup Over     \* the name has
Offered == {"sleep"} \cup Expiry    \* the account had been put in place

\* The flag is up only between the last write of SetCredentialInfo(user, pass)
\* and the last one of SetCredentialInfo("Administrator", NULL), and LogonUI
\* has got a tile only while it was.
OfferInv ==
    /\ prov.bAutoLogon <=> prov.pc \in Offered \ {"done"}
    /\ ui.pc # "idle" \/ ui.edited => prov.pc \in Offered

\* What the thread has written when, unless LogonUI has written over it.
TileInv ==
    /\ prov.pc \in {"setpass", "setauto", "sleep"} => prov.user = prov.msg
    /\ prov.pc \in {"setauto", "sleep"} => prov.pass = prov.msg \/ ui.edited
    /\ prov.pc \in {"create", "connect", "wait", "read"} => prov.pass = Empty
    /\ prov.pc \in Offered \ Over /\ prov.pass \in Users => prov.pass = prov.msg
    /\ prov.pc \in Over => prov.pass \notin Users

\* What GetSerialization has read by where the thread was when it began.
CopyInv ==
    /\ ui.pc \in {"pass", "submit"} =>
          /\ ui.seen \in Offered
          /\ ui.seen = "sleep" => ui.user = prov.msg
          /\ ui.seen \in Over => prov.pc \in Over
    /\ ui.pc = "submit" =>
          /\ ui.pass \in Users => ui.pass = prov.msg /\ ui.seen \notin Over
          /\ ui.pass # prov.msg => ui.edited \/ prov.pc \in Expiry

LogonInv == LogonTypes /\ OfferInv /\ TileInv /\ CopyInv

\* A thread only loads a configuration that is there.
LoadInv == \A t \in Thread : thr[t].pc = "load" => config # "none"

IndInv == FileTypes /\ SvcTypes /\ LogonInv /\ LoadInv

-----------------------------------------------------------------------------
(* LogonUI and the provider.                                               *)

\* A step that touches nothing of LogonUI.
LEMMA LogonKept ==
  ASSUME LogonInv, UNCHANGED logon
  PROVE  LogonInv'
  BY DEF LogonInv, LogonTypes, OfferInv, TileInv, CopyInv, logon

\* A step that changes the pipe only.
LEMMA PipeStep ==
  ASSUME LogonInv, pipe' \in PipeRec, UNCHANGED <<locked, locks, prov, ui>>
  PROVE  LogonInv'
  BY DEF LogonInv, LogonTypes, OfferInv, TileInv, CopyInv

\* The workstation is locked: a new provider, with no message yet.
LEMMA LockStep ==
  ASSUME LogonInv, LockStation
  PROVE  LogonInv'
<1>1. prov' = [pc |-> "create", msg |-> Empty, user |-> Administrator,
               pass |-> Empty, bAutoLogon |-> FALSE]
  BY DEF LockStation, NoProv
<1>2. pipe' = NoPipe /\ ui' = NoTile
  BY DEF LockStation
<1>3. OfferInv' /\ TileInv' /\ CopyInv'
  BY <1>1, <1>2 DEF OfferInv, TileInv, CopyInv, NoTile, Offered, Expiry, Over
<1>4. (locked \in BOOLEAN /\ locks \in 0 .. MaxLocks)'
  BY UnlockAssumption DEF LockStation, LogonInv, LogonTypes
<1>5. prov' \in ProvRec /\ pipe' \in PipeRec /\ ui' \in TileRec
  BY <1>1, <1>2 DEF ProvPCs, Passwords, NoPipe, NoTile, ProvRec, PipeRec, TileRec
<1> QED
  BY <1>3, <1>4, <1>5 DEF LogonInv, LogonTypes

\* LogonUI ends: no provider.
LEMMA EndStep ==
  ASSUME LogonInv, EndLogonUI
  PROVE  LogonInv'
<1>1. OfferInv' /\ TileInv' /\ CopyInv'
  BY DEF EndLogonUI, NoProv, NoTile, OfferInv, TileInv, CopyInv, Offered, Expiry,
         Over
<1>2. prov' \in ProvRec /\ pipe' \in PipeRec /\ ui' \in TileRec
  BY DEF EndLogonUI, NoProv, NoPipe, NoTile, ProvPCs, Passwords, ProvRec, PipeRec,
         TileRec
<1> QED
  BY <1>1, <1>2 DEF EndLogonUI, LogonInv, LogonTypes

\* The provider's thread goes on before the account is put in place: LogonUI
\* has no tile yet.
LEMMA BeforeOffer ==
  ASSUME LogonInv, prov.pc \notin Offered, prov' \in ProvRec, pipe' \in PipeRec,
         UNCHANGED <<locked, locks, ui>>, TileInv', ~prov'.bAutoLogon,
         prov'.pc \notin Offered \ {"done"}
  PROVE  LogonInv'
<1>1. ui.pc = "idle" /\ ~ui.edited
  BY DEF LogonInv, OfferInv, LogonTypes, TileRec
<1> QED
  BY <1>1 DEF LogonInv, LogonTypes, OfferInv, CopyInv

\* The provider's thread: each write of _ThreadProc and SetCredentialInfo.
LEMMA ProviderStep ==
  ASSUME LogonInv, ProviderThread
  PROVE  LogonInv'
<1> USE DEF LogonInv, LogonTypes
<1>0. /\ prov \in ProvRec /\ pipe \in PipeRec /\ ui \in TileRec
      /\ Empty \notin Users /\ Typed \notin Users
      /\ prov.bAutoLogon <=> prov.pc \in Offered \ {"done"}
  BY UnlockAssumption DEF OfferInv
<1>1. CASE CreatePipe
  <2>1. /\ prov.pc = "create" /\ UNCHANGED <<locked, locks, ui>>
        /\ \/ prov' = [prov EXCEPT !.pc = "connect"]
           \/ /\ prov' = [prov EXCEPT !.pc = "done"]
    BY <1>0, <1>1 DEF CreatePipe, ProvStep, ProvRec
  <2>2. pipe' \in PipeRec
    BY <1>0, <1>1 DEF CreatePipe, PipeRec, NoPipe
  <2> QED
    BY <1>0, <2>1, <2>2, BeforeOffer
    DEF TileInv, ProvRec, ProvPCs, Offered, Expiry, Over
<1>2. CASE ConnectPipe
  <2>1. /\ prov.pc \in {"connect", "wait"} /\ UNCHANGED <<locked, locks, ui>>
        /\ \E pc \in {"read", "wait", "setuser"} : prov' = [prov EXCEPT !.pc = pc]
    BY <1>0, <1>2 DEF ConnectPipe, ProvStep, ProvRec
  <2>2. pipe' \in PipeRec
    BY <1>0, <1>2 DEF ConnectPipe, PipeRec, NoPipe
  <2> QED
    BY <1>0, <2>1, <2>2, BeforeOffer
    DEF TileInv, ProvRec, ProvPCs, Offered, Expiry, Over
<1>3. CASE ReadPipe
  <2>1. /\ prov.pc = "read" /\ UNCHANGED <<locked, locks, ui>>
        /\ \/ prov' = [prov EXCEPT !.pc = "setuser", !.msg = pipe.user]
           \/ prov' = [prov EXCEPT !.pc = "done"]
    BY <1>0, <1>3 DEF ReadPipe, ProvStep, ProvRec
  <2>2. pipe' \in PipeRec /\ pipe.user \in Users \cup {Empty}
    BY <1>0, <1>3 DEF ReadPipe, PipeRec, NoPipe
  <2>3. prov' \in ProvRec
    BY <1>0, <2>1, <2>2 DEF ProvRec, ProvPCs
  <2>5. prov'.pc \in {"setuser", "done"} /\ prov'.pass = Empty
    BY <1>0, <2>1 DEF TileInv, ProvRec
  <2>6. TileInv'
    BY <1>0, <2>5 DEF TileInv, Offered, Expiry, Over
  <2>4. /\ prov.pc \notin Offered /\ ~prov'.bAutoLogon
        /\ prov'.pc \notin Offered \ {"done"}
    BY <1>0, <2>1 DEF ProvRec, Offered, Expiry, Over
  <2> QED
    BY <2>1, <2>2, <2>3, <2>4, <2>6, BeforeOffer
<1>4. CASE SetUser
  <2>1. /\ prov.pc = "setuser" /\ UNCHANGED <<locked, locks, pipe, ui>>
        /\ prov' = [prov EXCEPT !.user = prov.msg, !.pc = "setpass"]
    BY <1>0, <1>4 DEF SetUser, ProvStep, ProvRec
  <2> QED
    BY <1>0, <2>1, BeforeOffer
    DEF TileInv, ProvRec, ProvPCs, Passwords, Offered, Expiry, Over
<1>5. CASE SetPass
  <2>1. /\ prov.pc = "setpass" /\ UNCHANGED <<locked, locks, pipe, ui>>
        /\ prov' = [prov EXCEPT !.pass = prov.msg, !.pc = "setauto"]
    BY <1>0, <1>5 DEF SetPass, ProvStep, ProvRec
  <2> QED
    BY <1>0, <2>1, BeforeOffer
    DEF TileInv, ProvRec, ProvPCs, Passwords, Offered, Expiry, Over
<1>6. CASE SetAuto
  <2>1. /\ prov.pc = "setauto" /\ UNCHANGED <<locked, locks, pipe, ui>>
        /\ prov' = [prov EXCEPT !.bAutoLogon = TRUE, !.pc = "sleep"]
    BY <1>0, <1>6 DEF SetAuto, ProvStep, ProvRec
  <2>2. prov' \in ProvRec
    BY <1>0, <2>1 DEF ProvRec, ProvPCs, Passwords
  <2>3. OfferInv' /\ TileInv'
    BY <1>0, <2>1 DEF OfferInv, TileInv, ProvRec, Offered, Expiry, Over
  <2>4. CopyInv'
    BY <1>0, <2>1 DEF OfferInv, CopyInv, ProvRec, TileRec, Offered, Expiry, Over
  <2> QED
    BY <2>1, <2>2, <2>3, <2>4
<1>7. CASE ExpireUser
  <2>1. /\ prov.pc = "sleep" /\ UNCHANGED <<locked, locks, pipe, ui>>
        /\ prov' = [prov EXCEPT !.user = Administrator, !.pc = "exppass"]
    BY <1>0, <1>7 DEF ExpireUser, ProvStep, ProvRec
  <2>2. prov' \in ProvRec
    BY <1>0, <2>1 DEF ProvRec, ProvPCs, Passwords
  <2>3. OfferInv' /\ TileInv'
    BY <1>0, <2>1 DEF OfferInv, TileInv, ProvRec, Offered, Expiry, Over
  <2>4. CopyInv'
    BY <1>0, <2>1 DEF OfferInv, CopyInv, ProvRec, TileRec, Offered, Expiry, Over
  <2> QED
    BY <2>1, <2>2, <2>3, <2>4
<1>8. CASE ExpirePass
  <2>1. /\ prov.pc = "exppass" /\ UNCHANGED <<locked, locks, pipe, ui>>
        /\ prov' = [prov EXCEPT !.pass = Empty, !.pc = "expauto"]
    BY <1>0, <1>8 DEF ExpirePass, ProvStep, ProvRec
  <2>2. prov' \in ProvRec
    BY <1>0, <2>1 DEF ProvRec, ProvPCs, Passwords
  <2>3. OfferInv' /\ TileInv'
    BY <1>0, <2>1 DEF OfferInv, TileInv, ProvRec, Offered, Expiry, Over
  <2>4. CopyInv'
    BY <1>0, <2>1 DEF OfferInv, CopyInv, ProvRec, TileRec, Offered, Expiry, Over
  <2> QED
    BY <2>1, <2>2, <2>3, <2>4
<1>9. CASE ExpireAuto
  <2>1. /\ prov.pc = "expauto" /\ UNCHANGED <<locked, locks, pipe, ui>>
        /\ prov' = [prov EXCEPT !.bAutoLogon = FALSE, !.pc = "done"]
    BY <1>0, <1>9 DEF ExpireAuto, ProvStep, ProvRec
  <2>2. prov' \in ProvRec
    BY <1>0, <2>1 DEF ProvRec, ProvPCs, Passwords
  <2>3. OfferInv' /\ TileInv'
    BY <1>0, <2>1 DEF OfferInv, TileInv, ProvRec, Offered, Expiry, Over
  <2>4. CopyInv'
    BY <1>0, <2>1 DEF OfferInv, CopyInv, ProvRec, TileRec, Offered, Expiry, Over
  <2> QED
    BY <2>1, <2>2, <2>3, <2>4
<1> QED
  BY <1>1, <1>2, <1>3, <1>4, <1>5, <1>6, <1>7, <1>8, <1>9 DEF ProviderThread

\* LogonUI shows the tile again.
LEMMA Shown ==
  ASSUME LogonInv, ui.pc # "idle", ui' = ShowTile,
         UNCHANGED <<locked, locks, prov, pipe>>
  PROVE  LogonInv'
<1>1. /\ ui'.pc = "tile" /\ ui'.edited = ui.edited
      /\ ui' \in TileRec
  BY DEF LogonInv, LogonTypes, ShowTile, NoTile, TileRec, Passwords, ProvPCs
<1> QED
  BY <1>1 DEF LogonInv, LogonTypes, OfferInv, TileInv, CopyInv

\* LogonUI asks for a tile, lets the user at it, serializes and submits it.
LEMMA LogonUIKeeps ==
  ASSUME LogonInv, LogonUI
  PROVE  LogonInv'
<1> USE DEF LogonInv, LogonTypes
<1>0. /\ prov \in ProvRec /\ ui \in TileRec
      /\ Empty \notin Users /\ Typed \notin Users
  BY UnlockAssumption
<1>1. CASE GetCredentialCount
  <2>1. /\ UNCHANGED <<locked, locks, prov, pipe>>
        /\ \/ prov.bAutoLogon /\ ui' = [ui EXCEPT !.pc = "name"]
           \/ ui' = NoTile
    BY <1>1 DEF GetCredentialCount, LogonUIStep
  <2>2. ui' \in TileRec
    <3>1. NoTile \in TileRec
      BY DEF TileRec, NoTile, Passwords, ProvPCs
    <3> QED
      BY <1>0, <2>1, <3>1 DEF TileRec
  <2>3. TileInv'
    BY <1>0, <1>1, <2>1
    DEF GetCredentialCount, OfferInv, TileInv, NoTile, TileRec, ProvRec, Offered,
        Expiry, Over
  <2> QED
    BY <1>0, <2>1, <2>2, <2>3
    DEF OfferInv, CopyInv, TileRec, NoTile, Offered, Expiry, Over
<1>2. CASE SubmitTile
  <2>1. /\ UNCHANGED <<locked, locks, prov, pipe>> /\ ui.pc = "tile"
        /\ ui' = [ui EXCEPT !.pc = "name"]
    BY <1>2 DEF SubmitTile, LogonUIStep
  <2> QED
    BY <1>0, <2>1 DEF OfferInv, TileInv, CopyInv, TileRec
<1>3. CASE SetDeselected \/ SetStringValue
  <2>1. PICK pass \in {Empty, Typed} :
           /\ UNCHANGED <<locked, locks, pipe>> /\ ui.pc = "tile"
           /\ prov' = [prov EXCEPT !.pass = pass]
           /\ ui' = [ui EXCEPT !.edited = TRUE]
    BY <1>3 DEF SetDeselected, SetStringValue, EditPassword, LogonUIStep
  <2>2. prov' \in ProvRec /\ ui' \in TileRec
    BY <1>0, <2>1 DEF ProvRec, TileRec, Passwords
  <2>3. prov'.pc = prov.pc /\ prov'.pass \notin Users /\ prov'.user = prov.user
        /\ prov'.msg = prov.msg /\ prov'.bAutoLogon = prov.bAutoLogon
    BY <1>0, <2>1 DEF ProvRec
  <2>4. ui'.pc = "tile" /\ ui'.edited
    BY <1>0, <2>1 DEF TileRec
  <2>5. prov.pc \in Offered
    BY <2>1 DEF OfferInv
  <2>6. TileInv'
    BY <2>3, <2>4, <2>5 DEF TileInv, Offered, Expiry, Over
  <2> QED
    BY <2>1, <2>2, <2>3, <2>4, <2>5, <2>6 DEF OfferInv, CopyInv
<1>4. CASE GetSerialization
  <2>1. UNCHANGED <<locked, locks, prov, pipe>>
    BY <1>4 DEF GetSerialization, LogonUIStep
  <2>2. CASE /\ ui.pc = "name"
             /\ ui' = [ui EXCEPT !.user = prov.user, !.seen = prov.pc, !.pc = "pass"]
    BY <1>0, <2>1, <2>2
    DEF OfferInv, TileInv, CopyInv, ProvRec, TileRec, Offered, Expiry, Over
  <2>3. CASE ui.pc = "pass" /\ ui' = [ui EXCEPT !.pass = prov.pass, !.pc = "submit"]
    BY <1>0, <2>1, <2>3
    DEF OfferInv, TileInv, CopyInv, ProvRec, TileRec, Offered, Expiry, Over
  <2>4. CASE ui.pc \in {"name", "pass"} /\ ui' = ShowTile
    BY <1>0, <2>1, <2>4, Shown
  <2> QED
    BY <1>4, <2>2, <2>3, <2>4 DEF GetSerialization
<1>5. CASE Submit
  <2>1. CASE EndLogonUI
    BY <2>1, EndStep
  <2>2. CASE ui' = ShowTile /\ UNCHANGED <<locked, locks, prov, pipe>>
    BY <1>5, <2>2, Shown DEF Submit
  <2> QED
    BY <1>5, <2>1, <2>2 DEF Submit
<1> QED
  BY <1>1, <1>2, <1>3, <1>4, <1>5 DEF LogonUI

-----------------------------------------------------------------------------
(* The service.                                                            *)

\* The files and the service are as they were.
LEMMA ServiceKept ==
  ASSUME FileTypes, SvcTypes, LoadInv, UNCHANGED <<files, svc>>
  PROVE  FileTypes' /\ SvcTypes' /\ LoadInv'
  BY DEF FileTypes, SvcTypes, LoadInv, files, svc

\* A thread goes elsewhere, or is replaced; it comes to the load of a
\* configuration only when there is one.
LEMMA ThreadMoves ==
  ASSUME SvcTypes, LoadInv, NEW t \in Thread, NEW r \in ThreadRec,
         r.pc = "load" => config # "none",
         thr' = [thr EXCEPT ![t] = r], UNCHANGED config
  PROVE  thr' \in [Thread -> ThreadRec] /\ LoadInv'
  BY DEF SvcTypes, LoadInv

\* A thread goes on to another point of its code.
LEMMA ThreadGoes ==
  ASSUME SvcTypes, LoadInv, NEW t \in Thread, NEW pc \in ScanPCs,
         pc = "load" => config # "none", Goto(t, pc), UNCHANGED config
  PROVE  thr' \in [Thread -> ThreadRec] /\ LoadInv'
<1> DEFINE r == [thr[t] EXCEPT !.pc = pc]
<1>1. thr[t] \in ThreadRec
  BY DEF SvcTypes
<1>2. r \in ThreadRec /\ r.pc = pc
  BY <1>1 DEF ThreadRec
<1>3. thr' = [thr EXCEPT ![t] = r]
  BY DEF Goto
<1> QED
  BY <1>2, <1>3, ThreadMoves

\* A thread returns from UnLockWinStation.
LEMMA ThreadReturns ==
  ASSUME SvcTypes, LoadInv, NEW t \in Thread, Return(t), UNCHANGED config
  PROVE  thr' \in [Thread -> ThreadRec] /\ LoadInv'
<1>1. Idle(t) \in ThreadRec /\ Idle(t).pc # "load"
  BY DEF Idle, ThreadRec, ScanPCs
<1> QED
  BY <1>1, ThreadMoves DEF Return

\* A process dies.
LEMMA CrashStep ==
  ASSUME IndInv, NEW p \in Proc, Crash(p)
  PROVE  IndInv'
<1>1. FileTypes'
  BY DEF IndInv, Crash, FileTypes, files
<1>2. thr' \in [Thread -> ThreadRec] /\ LoadInv'
  BY DEF IndInv, Crash, SvcTypes, LoadInv, ThreadRec, ScanPCs, files
<1>3. SvcTypes'
  BY <1>2 DEF IndInv, Crash, SvcTypes
<1>4. pipe' \in PipeRec
  BY DEF IndInv, LogonInv, LogonTypes, Crash, PipeRec, NoPipe
<1>5. LogonInv'
  BY <1>4, PipeStep DEF IndInv, Crash
<1> QED
  BY <1>1, <1>2, <1>3, <1>5 DEF IndInv

\* An exception in a thread.
LEMMA ThrowStep ==
  ASSUME IndInv, NEW t \in Thread, Throw(t)
  PROVE  IndInv'
<1>1. t[1] \in Proc
  BY DEF Thread
<1>2. CASE Crash(t[1])
  BY <1>1, <1>2, CrashStep
<1>3. CASE Goto(t, "none") /\ UNCHANGED <<files, scm, alive, cfg, gate, logon>>
  <2>1. thr' \in [Thread -> ThreadRec] /\ LoadInv'
    BY <1>3, ThreadGoes DEF IndInv, ScanPCs, files
  <2> QED
    BY <1>3, <2>1, LogonKept DEF IndInv, FileTypes, SvcTypes, files
<1> QED
  BY <1>2, <1>3 DEF Throw

\* UnLockWinStation and SendUserNameAndPassword, in whichever thread.
LEMMA ServiceThreadStep ==
  ASSUME IndInv, NEW t \in Thread, ServiceThread(t)
  PROVE  IndInv'
<1> USE DEF IndInv
<1>0. t[1] \in Proc /\ thr[t] \in ThreadRec
  BY DEF Thread, SvcTypes
<1>1. CASE Check(t)
  <2>1. thr' \in [Thread -> ThreadRec] /\ LoadInv'
    BY <1>1, ThreadGoes, ThreadReturns DEF Check, ScanPCs, files
  <2> QED
    BY <1>1, <2>1, LogonKept DEF Check, FileTypes, SvcTypes, files
<1>2. CASE FindCfg(t)
  <2>1. PICK pc \in {"new", "decrypt"} : Goto(t, pc)
    BY <1>2 DEF FindCfg
  <2>2. thr' \in [Thread -> ThreadRec] /\ LoadInv'
    BY <1>2, <2>1, ThreadGoes DEF FindCfg, ScanPCs, files
  <2> QED
    BY <1>2, <2>2, LogonKept DEF FindCfg, FileTypes, SvcTypes, files
<1>7. CASE NewCfg(t)
  <2>1. thr' \in [Thread -> ThreadRec] /\ LoadInv'
    BY <1>7, ThreadGoes, ThreadReturns DEF NewCfg, ScanPCs, files
  <2>2. cfg' \in [Proc -> {"null", "empty", "bad"} \cup Users]
    BY <1>0, <1>7 DEF NewCfg, SvcTypes
  <2> QED
    BY <1>7, <2>1, <2>2, LogonKept DEF NewCfg, FileTypes, SvcTypes, files
<1>3. CASE LoadCfg(t)
  <2>1. CASE Throw(t)
    BY <2>1, ThrowStep
  <2>2. CASE /\ cfg' = [cfg EXCEPT ![t[1]] = config]
             /\ Goto(t, "decrypt")
             /\ UNCHANGED <<files, scm, alive, gate, logon>>
    <3>1. thr' \in [Thread -> ThreadRec] /\ LoadInv'
      BY <2>2, ThreadGoes DEF ScanPCs, files
    <3>2. config # "none"
      BY <1>3 DEF LoadCfg, LoadInv
    <3>3. cfg' \in [Proc -> {"null", "empty", "bad"} \cup Users]
      BY <1>0, <2>2, <3>2 DEF FileTypes, SvcTypes
    <3> QED
      BY <2>2, <3>1, <3>3, LogonKept DEF FileTypes, SvcTypes, files
  <2> QED
    BY <1>3, <2>1, <2>2 DEF LoadCfg
<1>4. CASE Decrypt(t)
  <2>1. CASE Throw(t)
    BY <2>1, ThrowStep
  <2>2. CASE /\ cfg[t[1]] \in Users
             /\ thr' = [thr EXCEPT ![t] =
                           IF server /\ t[2] = "scan"
                           THEN Idle(t)
                           ELSE [pc |-> "connect", user |-> cfg[t[1]]]]
             /\ UNCHANGED <<files, scm, alive, cfg, gate, logon>>
    <3>1. /\ Idle(t) \in ThreadRec /\ Idle(t).pc # "load"
          /\ [pc |-> "connect", user |-> cfg[t[1]]] \in ThreadRec
      BY <2>2 DEF Idle, ThreadRec, ScanPCs
    <3>2. thr' \in [Thread -> ThreadRec] /\ LoadInv'
      BY <2>2, <3>1, ThreadMoves DEF files
    <3> QED
      BY <2>2, <3>2, LogonKept DEF FileTypes, SvcTypes, files
  <2> QED
    BY <1>4, <2>1, <2>2 DEF Decrypt
<1>5. CASE Connect(t)
  <2>1. thr' \in [Thread -> ThreadRec] /\ LoadInv'
    BY <1>5, ThreadGoes, ThreadReturns DEF Connect, ScanPCs, files
  <2>2. pipe' \in PipeRec
    BY <1>5 DEF Connect, LogonInv, LogonTypes, PipeRec
  <2> QED
    BY <1>5, <2>1, <2>2, PipeStep DEF Connect, FileTypes, SvcTypes, files
<1>6. CASE Write(t)
  <2>1. thr' \in [Thread -> ThreadRec] /\ LoadInv'
    BY <1>6, ThreadReturns DEF Write, files
  <2>2. pipe' \in PipeRec
    BY <1>0, <1>6 DEF Write, LogonInv, LogonTypes, PipeRec, ThreadRec
  <2> QED
    BY <1>6, <2>1, <2>2, PipeStep DEF Write, FileTypes, SvcTypes, files
<1> QED
  BY <1>1, <1>2, <1>3, <1>4, <1>5, <1>6, <1>7 DEF ServiceThread

\* The rest of the scan thread.
LEMMA ScanThreadStep ==
  ASSUME IndInv, NEW p \in Proc, ScanThread(p)
  PROVE  IndInv'
<1> USE DEF IndInv
<1> DEFINE t == <<p, "scan">>
<1>0. t \in Thread
  BY DEF Thread
<1>1. CASE Poll(p)
  <2>1. PICK pc \in {"rdp", "check", "lock"} : Goto(t, pc)
    BY <1>1 DEF Poll
  <2>2. thr' \in [Thread -> ThreadRec] /\ LoadInv'
    BY <1>0, <1>1, <2>1, ThreadGoes DEF Poll, ScanPCs, files
  <2> QED
    BY <1>1, <2>2, LogonKept DEF Poll, FileTypes, SvcTypes, files
<1>2. CASE LockWorkStation(p)
  <2>1. thr' \in [Thread -> ThreadRec] /\ LoadInv'
    BY <1>0, <1>2, ThreadGoes DEF LockWorkStation, ScanPCs, files
  <2>2. LogonInv'
    BY <1>2, LockStep, LogonKept DEF LockWorkStation
  <2> QED
    BY <1>2, <2>1, <2>2 DEF LockWorkStation, FileTypes, SvcTypes, files
<1>3. CASE DeleteLock(p)
  <2>1. thr' \in [Thread -> ThreadRec] /\ LoadInv'
    BY <1>0, <1>3, ThreadGoes DEF DeleteLock, ScanPCs
  <2> QED
    BY <1>3, <2>1, LogonKept DEF DeleteLock, FileTypes, SvcTypes
<1>4. CASE DeleteUnlock(p)
  <2>1. thr' \in [Thread -> ThreadRec] /\ LoadInv'
    BY <1>0, <1>4, ThreadGoes DEF DeleteUnlock, ScanPCs
  <2> QED
    BY <1>4, <2>1, LogonKept DEF DeleteUnlock, FileTypes, SvcTypes
<1>5. CASE NewRDP(p)
  <2>1. CASE Crash(p)
    BY <2>1, CrashStep
  <2>2. CASE Goto(t, "delete") /\ UNCHANGED <<files, scm, alive, cfg, gate, logon>>
    <3>1. thr' \in [Thread -> ThreadRec] /\ LoadInv'
      BY <1>0, <2>2, ThreadGoes DEF ScanPCs, files
    <3> QED
      BY <2>2, <3>1, LogonKept DEF FileTypes, SvcTypes, files
  <2>3. CASE /\ config # "none"
             /\ cfg' = [cfg EXCEPT ![p] = "empty"]
             /\ Goto(t, "load")
             /\ UNCHANGED <<files, scm, alive, gate, logon>>
    <3>1. thr' \in [Thread -> ThreadRec] /\ LoadInv'
      BY <1>0, <2>3, ThreadGoes DEF ScanPCs, files
    <3>2. cfg' \in [Proc -> {"null", "empty", "bad"} \cup Users]
      BY <2>3 DEF SvcTypes
    <3> QED
      BY <2>3, <3>1, <3>2, LogonKept DEF FileTypes, SvcTypes, files
  <2> QED
    BY <1>5, <2>1, <2>2, <2>3 DEF NewRDP
<1>6. CASE ServiceThread(t)
  BY <1>0, <1>6, ServiceThreadStep
<1> QED
  BY <1>1, <1>2, <1>3, <1>4, <1>5, <1>6 DEF ScanThread

\* The service manager.
LEMMA ManagerStep ==
  ASSUME IndInv, NEW p \in Proc, OnStart(p) \/ OnStop(p) \/ OnSessionChange(p)
  PROVE  IndInv'
<1> USE DEF IndInv
<1>0. <<p, "scan">> \in Thread
  BY DEF Thread
<1>1. CASE OnStart(p)
  <2>1. [pc |-> "poll", user |-> Empty] \in ThreadRec
    BY DEF ThreadRec, ScanPCs
  <2>2. thr' \in [Thread -> ThreadRec] /\ LoadInv'
    BY <1>0, <1>1, <2>1, ThreadMoves DEF OnStart, files
  <2>3. SvcTypes'
    BY <1>1, <2>2 DEF OnStart, SvcTypes
  <2> QED
    BY <1>1, <2>2, <2>3, LogonKept DEF OnStart, FileTypes, files
<1>2. CASE OnStop(p)
  BY <1>2, LogonKept DEF OnStop, FileTypes, SvcTypes, LoadInv, files
<1>3. CASE OnSessionChange(p)
  BY <1>3, LogonKept DEF OnSessionChange, FileTypes, SvcTypes, LoadInv, files
<1> QED
  BY <1>1, <1>2, <1>3

\* The calls of a process.
LEMMA CallStep ==
  ASSUME IndInv, NEW p \in Proc, NEW c \in Calls,
         WcfCall(p, c) \/ ServiceThread(<<p, c>>)
  PROVE  IndInv'
<1> USE DEF IndInv
<1>0. <<p, c>> \in Thread
  BY DEF Thread
<1>1. CASE WcfCall(p, c)
  <2>1. CASE Goto(<<p, c>>, "check")
    <3>1. thr' \in [Thread -> ThreadRec] /\ LoadInv'
      BY <1>0, <1>1, <2>1, ThreadGoes DEF WcfCall, ScanPCs, files
    <3> QED
      BY <1>1, <3>1, LogonKept DEF WcfCall, FileTypes, SvcTypes, files
  <2>2. CASE \E u \in Users :
               thr' = [thr EXCEPT ![<<p, c>>] = [pc |-> "connect", user |-> u]]
    <3>1. \A u \in Users : [pc |-> "connect", user |-> u] \in ThreadRec
      BY DEF ThreadRec, ScanPCs
    <3>2. thr' \in [Thread -> ThreadRec] /\ LoadInv'
      BY <1>0, <1>1, <2>2, <3>1, ThreadMoves DEF WcfCall, files
    <3> QED
      BY <1>1, <3>2, LogonKept DEF WcfCall, FileTypes, SvcTypes, files
  <2> QED
    BY <1>1, <2>1, <2>2 DEF WcfCall
<1>2. CASE ServiceThread(<<p, c>>)
  BY <1>0, <1>2, ServiceThreadStep
<1> QED
  BY <1>1, <1>2

-----------------------------------------------------------------------------
\* IndInv is an invariant of the specification.
THEOREM Invariance == Spec => []IndInv
<1>1. Init => IndInv
  <2> SUFFICES ASSUME Init PROVE IndInv
    OBVIOUS
  <2>1. FileTypes
    BY DEF Init, FileTypes
  <2>2. SvcTypes /\ LoadInv
    BY DEF Init, SvcTypes, LoadInv, ThreadRec, ScanPCs
  <2>3. prov \in ProvRec /\ pipe \in PipeRec /\ ui \in TileRec
    BY DEF Init, ProvRec, ProvPCs, PipeRec, TileRec, Passwords, NoProv, NoPipe,
           NoTile
  <2>4. OfferInv /\ TileInv /\ CopyInv
    BY DEF Init, OfferInv, TileInv, CopyInv, NoProv, NoTile, Offered, Expiry, Over
  <2>5. LogonTypes
    <3>1. locked = FALSE /\ locks = 0
      BY DEF Init
    <3>2. locks \in 0 .. MaxLocks
      BY <3>1, UnlockAssumption
    <3> QED
      BY <2>3, <3>1, <3>2 DEF LogonTypes
  <2> QED
    BY <2>1, <2>2, <2>4, <2>5 DEF IndInv, LogonInv
<1>2. IndInv /\ [Next]_vars => IndInv'
  <2> SUFFICES ASSUME IndInv, [Next]_vars PROVE IndInv'
    OBVIOUS
  <2>1. CASE RequestUnlock
    BY <2>1, LogonKept
    DEF RequestUnlock, IndInv, FileTypes, SvcTypes, LoadInv, svc
  <2>2. CASE RequestLock
    BY <2>2, LogonKept
    DEF RequestLock, IndInv, FileTypes, SvcTypes, LoadInv, svc
  <2>3. CASE UserLocks
    BY <2>3, LockStep, ServiceKept DEF UserLocks, IndInv
  <2>4. CASE UserUnlocks
    BY <2>4, EndStep, ServiceKept DEF UserUnlocks, IndInv
  <2>5. CASE \E p \in Proc : OnStart(p) \/ OnStop(p) \/ OnSessionChange(p)
    BY <2>5, ManagerStep
  <2>6. CASE \E p \in Proc : ScanThread(p)
    BY <2>6, ScanThreadStep
  <2>7. CASE \E p \in Proc, c \in Calls : WcfCall(p, c) \/ ServiceThread(<<p, c>>)
    BY <2>7, CallStep
  <2>8. CASE ProviderThread
    <3>1. UNCHANGED <<files, svc>>
      BY <2>8 DEF ProviderThread, CreatePipe, ConnectPipe, ReadPipe, SetUser, SetPass,
                  SetAuto, ExpireUser, ExpirePass, ExpireAuto, ProvStep
    <3> QED
      BY <2>8, <3>1, ProviderStep, ServiceKept DEF IndInv
  <2>9. CASE LogonUI
    <3>1. UNCHANGED <<files, svc>>
      BY <2>9 DEF LogonUI, GetCredentialCount, SubmitTile, SetDeselected,
                  SetStringValue, EditPassword, GetSerialization, Submit, LogonUIStep
    <3> QED
      BY <2>9, <3>1, LogonUIKeeps, ServiceKept DEF IndInv
  <2>10. CASE UNCHANGED vars
    BY <2>10, LogonKept, ServiceKept DEF IndInv, vars
  <2> QED
    BY <2>1, <2>2, <2>3, <2>4, <2>5, <2>6, <2>7, <2>8, <2>9, <2>10 DEF Next
<1> QED
  BY <1>1, <1>2, PTL DEF Spec

\* Type correctness of service, provider and LogonUI.
THEOREM TypeCorrect == Spec => []TypeOK
<1>1. IndInv => TypeOK
  BY DEF IndInv, LogonInv, TypeOK, FileTypes, SvcTypes, LogonTypes, ThreadRec,
         ProvRec, PipeRec, TileRec
<1> QED
  BY <1>1, Invariance, PTL

\* However LogonUI's reading of the tile falls between the writes of the
\* provider's thread, those of the expiry included, and whatever any service
\* process does: a sent password goes out under its own name, or under
\* Administrator's if the name was read between the expiry's first two writes.
THEOREM SubmissionIsWhole == Spec => []SubmitsWhatWasSent
<1>1. IndInv => SubmitsWhatWasSent
  <2> SUFFICES ASSUME LogonInv, ui.pc = "submit"
               PROVE  /\ ui.pass \in Users => /\ ui.pass = prov.msg
                                              /\ ui.user = ui.pass \/ ui.seen = "exppass"
                      /\ ui.pass # prov.msg => ui.edited \/ prov.pc \in Expiry
    BY DEF IndInv, SubmitsWhatWasSent, Expiry, Over
  <2> QED
    BY DEF LogonInv, CopyInv, Offered, Expiry
<1> QED
  BY <1>1, Invariance, PTL
=============================================================================
