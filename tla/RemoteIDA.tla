----------------------------- MODULE RemoteIDA -----------------------------
(***************************************************************************)
(* OllyDbg and IDA (ollydbg2_plugin.cpp, xRemoteIDA/).  Each IDA serves a  *)
(* pipe XREMOTEIDA_n; the plugin keeps one slot per number, polls them in  *)
(* its message loop, and binds a slot to the module that the IDA behind it *)
(* has open, so that addresses of the debuggee and of the database can be  *)
(* translated.  In the other direction IDA connects to the notice pipe of  *)
(* the OllyDbg that has asked it and sends "show this address" over it.    *)
(*                                                                         *)
(* A poll blocks in the round trip with IDA, so IDA acts between its       *)
(* steps; menus, options and debug events run in the polling thread.  An   *)
(* address is its module and an offset that the packet carries unchanged.  *)
(* External: the processes, OllyDbg's module table and the pipe library,   *)
(* in which a name is served by one process at a time and a closed pipe    *)
(* stays closed.                                                           *)
(***************************************************************************)
EXTENDS Integers, Sequences

CONSTANTS
  Idas,        \* processes that IDA may run in
  MaxInst,     \* MAX_IDA_INST
  Modules,     \* modules a process may load and IDA may have open
  Readable,    \* pairs of an IDA and a module whose file it can read
  Bases,       \* addresses modules are loaded at
  MayFail,     \* may IDA fail to connect to an open notice pipe?
  MaxQueue     \* bound on the packets in the notice pipe

Slots == 0..MaxInst - 1

ASSUME RemoteAssumption ==
  /\ MaxInst \in Nat \ {0} /\ MaxQueue \in Nat
  /\ Readable \subseteq Idas \X Modules
  /\ Bases \subseteq Nat \ {0}
  /\ MayFail \in BOOLEAN
  /\ {"closed", "broken"} \cap Idas = {}
  /\ {"none", "asked", "lost", "noheader"} \cap Modules = {}

VARIABLES
  bRemoteIDA,  \* the option
  slot,        \* gIDAPipes: [beUsing, beLoaded, base, modname]
  pipe,        \* what each slot's pipe leads to: an IDA, "closed" or "broken"
  gIDANotice,  \* is the notice pipe there?
  queue,       \* packets in it: [mod, pipeid, sure]
  pc, at,      \* the poll: "idle", "drain", "slots" or "reply", and its slot
  info,        \* the answer to getinfo: "asked", "lost", "noheader", a module
  cpu,         \* the base that a packet of this round sent the CPU window to
  active,      \* gRuninfo->status # STAT_IDLE
  where,       \* the module table: base of each module, 0 if not loaded
  ida,         \* each IDA: [phase, gPipeId, db, rod]
  \* history
  moved,       \* modules unloaded at least once by this process
  reopened     \* IDAs that have opened another database

poll    == <<pc, at, info>>
notice  == <<gIDANotice, queue>>
process == <<active, where, moved>>
server  == <<ida, reopened>>
vars    == <<bRemoteIDA, slot, pipe, notice, poll, cpu, process, server>>

\* IDAPipeInfo::reset, without the pipe.
FreeSlot == [beUsing |-> FALSE, beLoaded |-> FALSE, base |-> 0, modname |-> "none"]
NotRun   == [phase |-> "off", gPipeId |-> -1, db |-> "none", rod |-> "none"]
Nowhere  == [m \in Modules |-> 0]

Init ==
  /\ bRemoteIDA \in BOOLEAN
  /\ slot = [k \in Slots |-> FreeSlot]
  /\ pipe = [k \in Slots |-> "closed"]
  /\ gIDANotice = FALSE /\ queue = <<>>
  /\ pc = "idle" /\ at = 0 /\ info = "none"
  /\ cpu = 0
  /\ active = FALSE /\ where = Nowhere /\ moved = {}
  /\ ida = [i \in Idas |-> NotRun] /\ reopened = {}

-----------------------------------------------------------------------------
(* The plugin: CheckRemoteIDAConnect.                                      *)

Poll ==
  /\ pc = "idle"
  /\ bRemoteIDA
  /\ pc' = "drain"
  /\ UNCHANGED <<bRemoteIDA, slot, pipe, notice, at, info, cpu, process, server>>

\* ProcessIDAPacket: one packet of the notice pipe, case xida_vid_syncip.
ProcessIDAPacket ==
  /\ pc = "drain"
  /\ queue # <<>>
  /\ queue' = Tail(queue)
  /\ LET k == Head(queue).pipeid IN
     cpu' = IF k # -1 /\ k < MaxInst THEN slot[k].base ELSE cpu
  /\ UNCHANGED <<bRemoteIDA, slot, pipe, gIDANotice, poll, process, server>>

\* The pipe is empty.  The slots are looked at every five seconds.
Drained_AnyTime == pc = "drain"
Drained == pc = "drain" /\ queue = <<>>
TooEarly ==
  /\ Drained
  /\ pc' = "idle"
  /\ cpu' = 0
  /\ UNCHANGED <<bRemoteIDA, slot, pipe, notice, at, info, process, server>>
BeginSlots ==
  /\ Drained
  /\ active
  /\ pc' = "slots"
  /\ cpu' = 0
  /\ UNCHANGED <<bRemoteIDA, slot, pipe, notice, at, info, process, server>>

\* The end of the loop body: the module of a slot in use is looked up.
Located(s) ==
  IF s.beUsing /\ ~s.beLoaded /\ where[s.modname] # 0
    THEN [s EXCEPT !.base = where[s.modname], !.beLoaded = TRUE]
    ELSE s
NextSlot ==
  IF at + 1 < MaxInst
    THEN at' = at + 1 /\ pc' = "slots"
    ELSE at' = 0 /\ pc' = "idle"

\* A free slot: its pipe is opened and asked, if an IDA serves it.
Serving(i, k) == ida[i].phase = "up" /\ ida[i].gPipeId = k
OpenSyncInst(i) ==
  /\ pc = "slots" /\ ~slot[at].beUsing
  /\ Serving(i, at)
  /\ pipe' = [pipe EXCEPT ![at] = i]
  /\ info' = "asked"
  /\ pc' = "reply"
  /\ UNCHANGED <<bRemoteIDA, slot, notice, at, cpu, process, server>>
NobodyServes ==
  /\ pc = "slots" /\ ~slot[at].beUsing
  /\ \A i \in Idas : ~Serving(i, at)
  /\ NextSlot
  /\ UNCHANGED <<bRemoteIDA, slot, pipe, notice, info, cpu, process, server>>

\* The answer comes, or IDA has gone.  Only a header makes the slot used.
Bound(s) ==
  IF info \in Modules THEN [s EXCEPT !.modname = info, !.beUsing = TRUE] ELSE s
ReadInfo ==
  /\ pc = "reply" /\ info # "asked"
  /\ slot' = [slot EXCEPT ![at] = Located(Bound(@))]
  /\ info' = "none"
  /\ NextSlot
  /\ UNCHANGED <<bRemoteIDA, pipe, notice, cpu, process, server>>

\* A slot in use: CheckPipeConn, and reset if the connection is gone.
Reset_UnusedOnly(s)  == [s EXCEPT !.beUsing = FALSE]
Reset_StaysUsed(s)   == [FreeSlot EXCEPT !.beUsing = s.beUsing, !.modname = s.modname]
Reset(s) == FreeSlot
CheckPipeConn ==
  /\ pc = "slots" /\ slot[at].beUsing
  /\ \/ /\ pipe[at] \in Idas
        /\ slot' = [slot EXCEPT ![at] = Located(@)]
        /\ UNCHANGED pipe
     \/ /\ pipe[at] \notin Idas
        /\ slot' = [slot EXCEPT ![at] = Reset(@)]
        /\ pipe' = [pipe EXCEPT ![at] = "closed"]
  /\ NextSlot
  /\ UNCHANGED <<bRemoteIDA, notice, info, cpu, process, server>>

\* ODBG2_Pluginreset, and the new process.  resetIDAPipe makes the notice pipe
\* anew, so that no IDA is connected to it, and frees all slots.
Stale(d) == IF d.rod = "live" THEN [d EXCEPT !.rod = "stale"] ELSE d
ODBG2_Pluginreset ==
  /\ pc = "idle"
  /\ IF bRemoteIDA
       THEN /\ gIDANotice' = TRUE
            /\ queue' = <<>>
            /\ ida' = [i \in Idas |-> Stale(ida[i])]
       ELSE UNCHANGED <<notice, ida>>
  /\ slot' = [k \in Slots |-> Reset(slot[k])]
  /\ pipe' = [k \in Slots |-> "closed"]
  /\ active' = TRUE /\ where' = Nowhere /\ moved' = {}
  /\ UNCHANGED <<bRemoteIDA, poll, cpu, reopened>>

saveOptions ==
  /\ pc = "idle"
  /\ bRemoteIDA' = ~bRemoteIDA
  /\ UNCHANGED <<slot, pipe, notice, poll, cpu, process, server>>
-----------------------------------------------------------------------------
(* The debuggee, as OllyDbg's tables show it.                              *)

LoadModule(m, b) ==
  /\ pc = "idle" /\ active
  /\ where[m] = 0
  /\ \A n \in Modules : where[n] # b
  /\ where' = [where EXCEPT ![m] = b]
  /\ UNCHANGED <<bRemoteIDA, slot, pipe, notice, poll, cpu, active, moved, server>>
UnloadModule(m) ==
  /\ pc = "idle"
  /\ where[m] # 0
  /\ where' = [where EXCEPT ![m] = 0]
  /\ moved' = moved \cup {m}
  /\ UNCHANGED <<bRemoteIDA, slot, pipe, notice, poll, cpu, active, server>>
ProcessEnds ==
  /\ pc = "idle" /\ active
  /\ active' = FALSE /\ where' = Nowhere
  /\ UNCHANGED <<bRemoteIDA, slot, pipe, notice, poll, cpu, moved, server>>

-----------------------------------------------------------------------------
(* IDA with xRemoteIDA.                                                    *)

\* DllMain: initPipeServer tries the names in turn and takes the first free one.
StartIda(i, m) ==
  /\ ida[i].phase = "off"
  /\ ida' = [ida EXCEPT ![i] = [NotRun EXCEPT !.phase = "init", !.gPipeId = 0, !.db = m]]
  /\ reopened' = reopened \ {i}
  /\ UNCHANGED <<bRemoteIDA, slot, pipe, notice, poll, cpu, process>>
initPipeServer(i) ==
  LET k == ida[i].gPipeId IN
  /\ ida[i].phase = "init"
  /\ ida' = [ida EXCEPT ![i] =
       IF k = MaxInst THEN [@ EXCEPT !.phase = "up", !.gPipeId = -1]
       ELSE IF \E j \in Idas : Serving(j, k) THEN [@ EXCEPT !.gPipeId = k + 1]
       ELSE [@ EXCEPT !.phase = "up"]]
  /\ UNCHANGED <<bRemoteIDA, slot, pipe, notice, poll, cpu, process, reopened>>

\* onInstRead, xida_msgid_getinfo.  An entry of the registry that is connected
\* is left as it is, whether the other end is still there or not.
Registered(i) ==
  IF ida[i].rod \in {"live", "stale"} THEN {ida[i].rod}
  ELSE (IF gIDANotice THEN {"live"} ELSE {}) \cup
       (IF MayFail \/ ~gIDANotice THEN {"null"} ELSE {})
onInstRead(i) ==
  /\ info = "asked" /\ pipe[at] = i
  /\ \E r \in Registered(i) : ida' = [ida EXCEPT ![i].rod = r]
  /\ info' = IF <<i, ida[i].db>> \in Readable THEN ida[i].db ELSE "noheader"
  /\ UNCHANGED <<bRemoteIDA, slot, pipe, notice, pc, at, cpu, process, reopened>>

\* The menu command: broadcast to every registered OllyDbg.  A write to pipe 0 or
\* to a closed pipe is lost.
BoundTo(i) ==
  LET k == ida[i].gPipeId IN k \in Slots /\ slot[k].beUsing /\ pipe[k] = i
menu_item_syncip(i) ==
  /\ ida[i].phase = "up"
  /\ \/ /\ ida[i].rod = "live"
        /\ Len(queue) < MaxQueue
        /\ queue' = Append(queue, [mod |-> ida[i].db, pipeid |-> ida[i].gPipeId,
                                   sure |-> BoundTo(i) /\ i \notin reopened])
     \/ /\ ida[i].rod # "live"
        /\ UNCHANGED queue
  /\ UNCHANGED <<bRemoteIDA, slot, pipe, gIDANotice, poll, cpu, process, server>>

OpenDatabase(i, m) ==
  /\ ida[i].phase = "up"
  /\ ida[i].db # m
  /\ ida' = [ida EXCEPT ![i].db = m]
  /\ reopened' = reopened \cup {i}
  /\ UNCHANGED <<bRemoteIDA, slot, pipe, notice, poll, cpu, process>>

\* IDA ends or crashes.  What it has written can still be read.
ExitIda(i) ==
  /\ ida[i].phase # "off"
  /\ ida' = [ida EXCEPT ![i] = NotRun]
  /\ pipe' = [k \in Slots |-> IF pipe[k] = i THEN "broken" ELSE pipe[k]]
  /\ info' = IF info = "asked" /\ pipe[at] = i THEN "lost" ELSE info
  /\ reopened' = reopened \ {i}
  /\ UNCHANGED <<bRemoteIDA, slot, notice, pc, at, cpu, process>>

-----------------------------------------------------------------------------
Next ==
  \/ Poll
  \/ ProcessIDAPacket
  \/ TooEarly
  \/ BeginSlots
  \/ NobodyServes
  \/ ReadInfo
  \/ CheckPipeConn
  \/ ODBG2_Pluginreset
  \/ saveOptions
  \/ ProcessEnds
  \/ \E m \in Modules : \/ UnloadModule(m)
                        \/ \E b \in Bases : LoadModule(m, b)
  \/ \E i \in Idas : \/ OpenSyncInst(i)
                     \/ initPipeServer(i)
                     \/ onInstRead(i)
                     \/ menu_item_syncip(i)
                     \/ ExitIda(i)
                     \/ \E m \in Modules : StartIda(i, m) \/ OpenDatabase(i, m)

Spec == Init /\ [][Next]_vars

\* OllyDbg's message loop runs on and the five seconds pass; a started IDA goes on
\* and its network thread answers.
PollGoesOn ==
  \/ Poll \/ ProcessIDAPacket \/ NobodyServes \/ ReadInfo \/ CheckPipeConn
  \/ \E i \in Idas : OpenSyncInst(i)
Fairness ==
  /\ WF_vars(PollGoesOn) /\ SF_vars(BeginSlots)
  /\ \A i \in Idas : WF_vars(onInstRead(i))
FairSpec == Spec /\ Fairness

-----------------------------------------------------------------------------
(* Properties.                                                             *)

\* Type invariant: a slot that is loaded is in use and has a module and a base.
SlotType   == [beUsing : BOOLEAN, beLoaded : BOOLEAN, base : Bases \cup {0},
               modname : Modules \cup {"none"}]
PacketType == [mod : Modules, pipeid : -1..MaxInst, sure : BOOLEAN]
IdaType    == [phase : {"off", "init", "up"}, gPipeId : -1..MaxInst,
               db : Modules \cup {"none"}, rod : {"none", "null", "live", "stale"}]
TypeOK ==
  /\ {bRemoteIDA, gIDANotice, active} \subseteq BOOLEAN
  /\ slot \in [Slots -> SlotType]
  /\ \A k \in Slots : /\ slot[k].beUsing => slot[k].modname \in Modules
                      /\ slot[k].beLoaded => slot[k].beUsing /\ slot[k].base # 0
  /\ pipe \in [Slots -> Idas \cup {"closed", "broken"}]
  /\ queue \in Seq(PacketType) /\ Len(queue) <= MaxQueue
  /\ pc \in {"idle", "drain", "slots", "reply"} /\ at \in Slots
  /\ info \in Modules \cup {"none", "asked", "lost", "noheader"}
  /\ cpu \in Bases \cup {0}
  /\ where \in [Modules -> Bases \cup {0}]
  /\ ida \in [Idas -> IdaType]
  /\ \A i \in Idas : ida[i].phase # "off" => ida[i].db \in Modules

\* What the plugin translates with is true: a loaded slot has the base at which
\* this process has its module, whatever ended, restarted or was bound before, and
\* the IDA that answers has that module open.  Not so once the process unloads the
\* module, as the base is read only once, or IDA opens another database.
TranslationIsTrue ==
  \A k \in Slots :
    LET s == slot[k] IN
    s.beLoaded /\ active /\ s.modname \notin moved =>
      /\ s.base = where[s.modname]
      /\ pipe[k] \in Idas \ reopened => ida[pipe[k]].db = s.modname

\* An address sent by an IDA that a slot is bound to is shown in the module it was sent
\* from, although the sender may be gone and its number taken by another IDA
\* when the packet is read: packets are read before slots are bound, and a broken slot
\* is bound again one round later.  Under the conditions above, and if the slot is
\* loaded; if not, the plugin takes the offset for an address.
SyncLandsInSender ==
  [][LET p == Head(queue) IN
     ProcessIDAPacket /\ p.sure /\ p.mod \notin moved /\ active
       /\ slot[p.pipeid].beLoaded => cpu' = where[p.mod]]_vars

\* An IDA that stays with a module that stays loaded is bound in the end.
Stays(i, k, m) ==
  /\ Serving(i, k) /\ ida[i].db = m /\ i \notin reopened
  /\ <<i, m>> \in Readable /\ where[m] # 0 /\ bRemoteIDA
BoundInTheEnd ==
  \A i \in Idas, k \in Slots, m \in Modules :
    <>[]Stays(i, k, m) => <>[](slot[k].beLoaded /\ pipe[k] = i)
=============================================================================
