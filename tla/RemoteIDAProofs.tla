-------------------------- MODULE RemoteIDAProofs --------------------------
(***************************************************************************)
(* Proofs about RemoteIDA, for any number of IDAs, slots and modules.      *)
(***************************************************************************)
EXTENDS RemoteIDA, TLAPS

LEMMA SlotsFact ==
  /\ Slots \subseteq Int /\ 0 \in Slots
  /\ \A k \in Slots : k >= 0 /\ k < MaxInst /\ (k + 1 < MaxInst => k + 1 \in Slots)
  /\ \A k \in -1..MaxInst : k # -1 /\ k < MaxInst => k \in Slots
  BY RemoteAssumption DEF Slots

LEMMA FreeType == FreeSlot \in SlotType /\ NotRun \in IdaType
  BY RemoteAssumption DEF FreeSlot, NotRun, SlotType, IdaType

\* The two writers of a slot keep it well formed.
WellFormed(s) ==
  /\ s \in SlotType
  /\ s.beUsing => s.modname \in Modules
  /\ s.beLoaded => s.beUsing /\ s.base # 0

LEMMA LocatedWell ==
  ASSUME NEW s, WellFormed(s), TypeOK PROVE WellFormed(Located(s))
  BY DEF WellFormed, Located, SlotType, TypeOK
LEMMA BoundWell ==
  ASSUME NEW s, WellFormed(s), TypeOK PROVE WellFormed(Bound(s))
  BY DEF WellFormed, Bound, SlotType, TypeOK
LEMMA ResetWell ==
  ASSUME NEW s PROVE WellFormed(Reset(s))
  BY FreeType DEF WellFormed, Reset, FreeSlot

LEMMA NextSlotType ==
  ASSUME TypeOK, NextSlot PROVE at' \in Slots /\ pc' \in {"slots", "idle"}
  BY SlotsFact DEF TypeOK, NextSlot

LEMMA TypeInit == Init => TypeOK
<1> SUFFICES ASSUME Init PROVE TypeOK
  OBVIOUS
<1>1. /\ slot \in [Slots -> SlotType]
      /\ \A k \in Slots : ~slot[k].beUsing /\ ~slot[k].beLoaded
      /\ pipe \in [Slots -> Idas \cup {"closed", "broken"}]
  BY FreeType DEF Init, FreeSlot
<1>2. ida \in [Idas -> IdaType] /\ \A i \in Idas : ida[i].phase = "off"
  BY FreeType DEF Init, NotRun
<1>3. {bRemoteIDA, gIDANotice, active} \subseteq BOOLEAN
  BY DEF Init
<1>4. queue \in Seq(PacketType) /\ Len(queue) <= MaxQueue
  BY RemoteAssumption DEF Init
<1>5. where \in [Modules -> Bases \cup {0}]
  BY DEF Init, Nowhere
<1> QED
  BY <1>1, <1>2, <1>3, <1>4, <1>5, SlotsFact DEF Init, TypeOK

\* The steps of the poll.
LEMMA TypePoll ==
  ASSUME TypeOK,
         \/ Poll \/ ProcessIDAPacket \/ TooEarly \/ BeginSlots \/ NobodyServes
         \/ ReadInfo \/ CheckPipeConn \/ \E i \in Idas : OpenSyncInst(i)
  PROVE  TypeOK'
<1> USE DEF notice, poll, process, server
<1>1. CASE Poll \/ TooEarly \/ BeginSlots
  BY <1>1 DEF TypeOK, Poll, TooEarly, BeginSlots, Drained
<1>2. CASE ProcessIDAPacket
  <2> DEFINE k == Head(queue).pipeid
  <2>1. Head(queue) \in PacketType /\ queue' \in Seq(PacketType) /\ Len(queue') <= MaxQueue
    BY <1>2, RemoteAssumption DEF TypeOK, ProcessIDAPacket
  <2>2. k \in -1..MaxInst
    BY <2>1 DEF PacketType
  <2>3. cpu' \in Bases \cup {0}
    BY <1>2, <2>2, SlotsFact DEF TypeOK, ProcessIDAPacket, SlotType
  <2> QED
    BY <1>2, <2>1, <2>3 DEF TypeOK, ProcessIDAPacket
<1>3. CASE NobodyServes
  BY <1>3, NextSlotType DEF TypeOK, NobodyServes
<1>4. CASE ReadInfo
  <2>1. WellFormed(slot[at])
    BY DEF TypeOK, WellFormed
  <2>2. WellFormed(Located(Bound(slot[at])))
    BY <2>1, BoundWell, LocatedWell
  <2>3. /\ slot' \in [Slots -> SlotType]
        /\ \A k \in Slots : WellFormed(slot'[k])
    BY <1>4, <2>2 DEF TypeOK, ReadInfo, WellFormed
  <2> QED
    BY <1>4, <2>3, NextSlotType DEF TypeOK, ReadInfo, WellFormed
<1>5. CASE CheckPipeConn
  <2>1. WellFormed(Located(slot[at])) /\ WellFormed(Reset(slot[at]))
    BY LocatedWell, ResetWell DEF TypeOK, WellFormed
  <2>2. /\ slot' \in [Slots -> SlotType]
        /\ \A k \in Slots : WellFormed(slot'[k])
    BY <1>5, <2>1 DEF TypeOK, CheckPipeConn, WellFormed
  <2>3. pipe' \in [Slots -> Idas \cup {"closed", "broken"}]
    BY <1>5 DEF TypeOK, CheckPipeConn
  <2> QED
    BY <1>5, <2>2, <2>3, NextSlotType DEF TypeOK, CheckPipeConn, WellFormed
<1>6. ASSUME NEW i \in Idas, OpenSyncInst(i) PROVE TypeOK'
  BY <1>6 DEF TypeOK, OpenSyncInst
<1> QED
  BY <1>1, <1>2, <1>3, <1>4, <1>5, <1>6

\* The plugin's other steps and the debuggee.
LEMMA TypePlugin ==
  ASSUME TypeOK,
         \/ ODBG2_Pluginreset \/ saveOptions \/ ProcessEnds
         \/ \E m \in Modules : UnloadModule(m) \/ \E b \in Bases : LoadModule(m, b)
  PROVE  TypeOK'
<1> USE DEF notice, poll, process, server
<1>1. CASE ODBG2_Pluginreset
  <2>1. /\ slot' \in [Slots -> SlotType]
        /\ \A k \in Slots : WellFormed(slot'[k])
    BY <1>1, ResetWell DEF ODBG2_Pluginreset, WellFormed
  <2>2. /\ ida' \in [Idas -> IdaType]
        /\ \A i \in Idas : ida'[i].phase = ida[i].phase /\ ida'[i].db = ida[i].db
    <3>1. \A i \in Idas : /\ Stale(ida[i]) \in IdaType
                           /\ Stale(ida[i]).phase = ida[i].phase
                           /\ Stale(ida[i]).db = ida[i].db
      BY DEF TypeOK, Stale, IdaType
    <3> QED
      BY <1>1, <3>1 DEF TypeOK, ODBG2_Pluginreset
  <2>3. queue' \in Seq(PacketType) /\ Len(queue') <= MaxQueue /\ gIDANotice' \in BOOLEAN
    <3>1. CASE bRemoteIDA
      BY <1>1, <3>1, RemoteAssumption DEF TypeOK, ODBG2_Pluginreset
    <3>2. CASE ~bRemoteIDA
      <4>1. gIDANotice' = gIDANotice /\ queue' = queue
        BY <1>1, <3>2 DEF ODBG2_Pluginreset
      <4> QED
        BY <4>1 DEF TypeOK
    <3> QED
      BY <3>1, <3>2
  <2>4. /\ pipe' \in [Slots -> Idas \cup {"closed", "broken"}]
        /\ where' \in [Modules -> Bases \cup {0}]
    BY <1>1 DEF ODBG2_Pluginreset, Nowhere
  <2> QED
    BY <1>1, <2>1, <2>2, <2>3, <2>4 DEF TypeOK, ODBG2_Pluginreset, WellFormed
<1>2. CASE saveOptions
  BY <1>2 DEF TypeOK, saveOptions
<1>3. CASE ProcessEnds
  BY <1>3 DEF TypeOK, ProcessEnds, Nowhere
<1>4. ASSUME NEW m \in Modules, UnloadModule(m) PROVE TypeOK'
  BY <1>4 DEF TypeOK, UnloadModule
<1>5. ASSUME NEW m \in Modules, NEW b \in Bases, LoadModule(m, b) PROVE TypeOK'
  BY <1>5 DEF TypeOK, LoadModule
<1> QED
  BY <1>1, <1>2, <1>3, <1>4, <1>5

\* IDA.
LEMMA TypeIda ==
  ASSUME TypeOK, NEW i \in Idas,
         \/ initPipeServer(i) \/ onInstRead(i) \/ menu_item_syncip(i) \/ ExitIda(i)
         \/ \E m \in Modules : StartIda(i, m) \/ OpenDatabase(i, m)
  PROVE  TypeOK'
<1> USE DEF notice, poll, process, server
<1>1. CASE initPipeServer(i)
  <2>1. ida[i].gPipeId = MaxInst \/ ida[i].gPipeId + 1 \in -1..MaxInst
    BY RemoteAssumption DEF TypeOK, IdaType
  <2>2. ida' \in [Idas -> IdaType]
    <3>1. ida[i] \in IdaType
      BY DEF TypeOK
    <3>2. \A d \in IdaType, n \in -1..MaxInst :
            /\ [d EXCEPT !.phase = "up"] \in IdaType
            /\ [d EXCEPT !.gPipeId = n] \in IdaType
            /\ [d EXCEPT !.phase = "up", !.gPipeId = n] \in IdaType
      BY DEF IdaType
    <3>3. -1 \in -1..MaxInst
      BY RemoteAssumption
    <3>4. PICK d \in IdaType : ida' = [ida EXCEPT ![i] = d]
      BY <1>1, <2>1, <3>1, <3>2, <3>3 DEF initPipeServer
    <3> QED
      BY <3>4 DEF TypeOK
  <2>3. \A j \in Idas : ida'[j].db = ida[j].db /\ (j # i => ida'[j] = ida[j])
    BY <1>1 DEF TypeOK, IdaType, initPipeServer
  <2>4. ida[i].phase # "off"
    BY <1>1 DEF initPipeServer
  <2> QED
    BY <1>1, <2>2, <2>3, <2>4 DEF TypeOK, initPipeServer
<1>2. CASE onInstRead(i)
  <2>1. PICK r \in Registered(i) : ida' = [ida EXCEPT ![i].rod = r]
    BY <1>2 DEF onInstRead
  <2>2. r \in {"live", "stale", "null"}
    BY <2>1 DEF Registered
  <2>3. /\ ida' \in [Idas -> IdaType]
        /\ \A j \in Idas : ida'[j].phase = ida[j].phase /\ ida'[j].db = ida[j].db
    <3>1. ida \in [Idas -> IdaType]
      BY DEF TypeOK
    <3>2. \A d \in IdaType : /\ [d EXCEPT !.rod = r] \in IdaType
                             /\ [d EXCEPT !.rod = r].phase = d.phase
                             /\ [d EXCEPT !.rod = r].db = d.db
      BY <2>2 DEF IdaType
    <3>3. ida' = [ida EXCEPT ![i] = [ida[i] EXCEPT !.rod = r]]
      BY <2>1
    <3> HIDE DEF IdaType
    <3> QED
      BY <3>1, <3>2, <3>3
  <2>4. info' \in Modules \cup {"none", "asked", "lost", "noheader"}
    BY <1>2, RemoteAssumption DEF onInstRead, TypeOK
  <2> QED
    BY <1>2, <2>3, <2>4 DEF TypeOK, onInstRead
<1>3. CASE menu_item_syncip(i)
  <2> DEFINE p == [mod |-> ida[i].db, pipeid |-> ida[i].gPipeId,
                   sure |-> BoundTo(i) /\ i \notin reopened]
  <2>1. p \in PacketType
    <3>1. (BoundTo(i) /\ i \notin reopened) \in BOOLEAN
      OBVIOUS
    <3> QED
      BY <1>3, <3>1 DEF TypeOK, IdaType, PacketType, menu_item_syncip
  <2>2. queue' \in Seq(PacketType) /\ Len(queue') <= MaxQueue
    <3>1. queue' = queue \/ (Len(queue) < MaxQueue /\ queue' = Append(queue, p))
      BY <1>3 DEF menu_item_syncip
    <3> HIDE DEF p
    <3> QED
      BY <2>1, <3>1, RemoteAssumption DEF TypeOK
  <2> QED
    BY <1>3, <2>2 DEF TypeOK, menu_item_syncip
<1>4. CASE ExitIda(i)
  <2>1. ida' \in [Idas -> IdaType] /\ \A j \in Idas : ida'[j] = ida[j] \/ ida'[j].phase = "off"
    BY <1>4, FreeType DEF TypeOK, ExitIda, NotRun
  <2>2. pipe' \in [Slots -> Idas \cup {"closed", "broken"}]
    BY <1>4 DEF TypeOK, ExitIda
  <2> QED
    BY <1>4, <2>1, <2>2 DEF TypeOK, ExitIda
<1>5. ASSUME NEW m \in Modules, StartIda(i, m) PROVE TypeOK'
  <2>1. [NotRun EXCEPT !.phase = "init", !.gPipeId = 0, !.db = m] \in IdaType
    <3>1. 0 \in -1..MaxInst
      BY RemoteAssumption
    <3> QED
      BY <3>1 DEF NotRun, IdaType
  <2>2. [NotRun EXCEPT !.phase = "init", !.gPipeId = 0, !.db = m].db = m
    BY DEF NotRun
  <2> QED
    BY <1>5, <2>1, <2>2 DEF TypeOK, StartIda
<1>6. ASSUME NEW m \in Modules, OpenDatabase(i, m) PROVE TypeOK'
  <2>1. [ida[i] EXCEPT !.db = m] \in IdaType /\ [ida[i] EXCEPT !.db = m].db = m
    BY DEF TypeOK, IdaType
  <2> QED
    BY <1>6, <2>1 DEF TypeOK, OpenDatabase
<1> QED
  BY <1>1, <1>2, <1>3, <1>4, <1>5, <1>6

LEMMA TypeStep == TypeOK /\ [Next]_vars => TypeOK'
<1> SUFFICES ASSUME TypeOK, [Next]_vars PROVE TypeOK'
  OBVIOUS
<1>1. CASE UNCHANGED vars
  BY <1>1 DEF vars, notice, poll, process, server, TypeOK
<1> QED
  BY <1>1, TypePoll, TypePlugin, TypeIda DEF Next

\* Every state is well formed: no slot is loaded without a module and a base.
THEOREM TypeCorrect == Spec => []TypeOK
  BY TypeInit, TypeStep, PTL DEF Spec

-----------------------------------------------------------------------------
(* The inductive invariant.                                                *)

\* The round trip: it is about a free slot, and the answer is what IDA has open.
Asking ==
  /\ pc # "reply" => info = "none"
  /\ pc = "reply" => ~slot[at].beUsing
  /\ info \in Modules /\ pipe[at] \in Idas \ reopened => ida[pipe[at]].db = info

\* An open pipe leads to an IDA that runs, and a bound one to one with its module.
PipesLead ==
  \A k \in Slots : pipe[k] \in Idas =>
    /\ ida[pipe[k]].phase # "off"
    /\ slot[k].beUsing /\ pipe[k] \notin reopened => ida[pipe[k]].db = slot[k].modname

\* A base is that of the module in this process.
BasesTrue ==
  \A k \in Slots :
    slot[k].beLoaded /\ active /\ slot[k].modname \notin moved
      => slot[k].base = where[slot[k].modname]

\* A packet that was sent over a bound slot does not outlive the binding: the slot
\* is still bound to the sender's module, or free and already passed by in this
\* round, or no round of the slots is under way.
PacketsFresh ==
  \A n \in 1..Len(queue) : queue[n].sure =>
    /\ queue[n].pipeid \in Slots
    /\ slot[queue[n].pipeid].beUsing => slot[queue[n].pipeid].modname = queue[n].mod
    /\ pc \in {"slots", "reply"} => queue[n].pipeid < at \/ slot[queue[n].pipeid].beUsing

Inv == TypeOK /\ Asking /\ PipesLead /\ BasesTrue /\ PacketsFresh

LEMMA InvInit == Init => Inv
<1> SUFFICES ASSUME Init PROVE Inv
  OBVIOUS
<1>1. /\ pc = "idle" /\ info = "none" /\ queue = <<>>
      /\ \A k \in Slots : pipe[k] = "closed" /\ ~slot[k].beLoaded
  BY DEF Init, FreeSlot
<1>2. "closed" \notin Idas /\ "none" \notin Modules
  BY RemoteAssumption
<1> QED
  BY <1>1, <1>2, TypeInit DEF Inv, Asking, PipesLead, BasesTrue, PacketsFresh

LEMMA Numbers ==
  ASSUME TypeOK PROVE at \in Int /\ \A n \in 1..Len(queue) : queue[n].pipeid \in Int
<1>1. at \in Int
  BY SlotsFact DEF TypeOK
<1>2. \A n \in 1..Len(queue) : queue[n] \in PacketType
  BY DEF TypeOK
<1>3. \A p \in PacketType : p.pipeid \in Int
  BY RemoteAssumption DEF PacketType
<1> QED
  BY <1>1, <1>2, <1>3

LEMMA LocatedKeeps ==
  ASSUME NEW s \in SlotType
  PROVE  /\ Located(s).beUsing = s.beUsing /\ Located(s).modname = s.modname
         /\ Located(s).beLoaded => \/ s.beLoaded /\ Located(s).base = s.base
                                  \/ Located(s).base = where[s.modname]
  BY DEF Located, SlotType

\* Steps that leave slots, connections, IDAs and the process alone.
LEMMA InvRound ==
  ASSUME Inv, TypeOK', UNCHANGED <<slot, pipe, info, process, server>>,
         \/ Poll \/ ProcessIDAPacket \/ TooEarly \/ BeginSlots \/ NobodyServes
  PROVE  Inv'
<1> USE DEF process, server
<1>1. PipesLead' /\ BasesTrue'
  BY DEF Inv, PipesLead, BasesTrue
<1>2. Asking'
  <2>1. pc # "reply" /\ pc' # "reply"
    BY DEF Poll, ProcessIDAPacket, TooEarly, BeginSlots, Drained, NobodyServes, NextSlot, poll
  <2>2. info = "none" /\ "none" \notin Modules
    BY <2>1, RemoteAssumption DEF Inv, Asking
  <2> QED
    BY <2>1, <2>2 DEF Asking
<1>3. PacketsFresh'
  <2>1. CASE Poll \/ TooEarly
    BY <2>1 DEF Inv, PacketsFresh, Poll, TooEarly, Drained, notice
  <2>2. CASE ProcessIDAPacket
    <3>1. pc' = "drain" /\ queue' = Tail(queue) /\ queue # <<>>
      BY <2>2 DEF ProcessIDAPacket, poll
    <3>2. queue \in Seq(PacketType)
      BY DEF Inv, TypeOK
    <3>3. \A n \in 1..Len(queue') : n + 1 \in 1..Len(queue) /\ queue'[n] = queue[n + 1]
      BY <3>1, <3>2
    <3> QED
      BY <3>1, <3>3 DEF Inv, PacketsFresh
  <2>3. CASE BeginSlots
    BY <2>3 DEF PacketsFresh, BeginSlots, Drained, notice
  <2>4. CASE NobodyServes
    <3>1. /\ queue' = queue /\ ~slot[at].beUsing /\ pc = "slots"
          /\ pc' = "slots" => at' = at + 1
      BY <2>4 DEF NobodyServes, NextSlot, notice
    <3>2. pc' \in {"slots", "idle"}
      BY <2>4 DEF NobodyServes, NextSlot
    <3>3. at \in Int /\ \A n \in 1..Len(queue) : queue[n].pipeid \in Int
      BY Numbers DEF Inv
    <3>4. ASSUME NEW n \in 1..Len(queue), queue[n].sure
          PROVE  /\ queue[n].pipeid \in Slots
                 /\ slot[queue[n].pipeid].beUsing => slot[queue[n].pipeid].modname = queue[n].mod
                 /\ queue[n].pipeid < at \/ slot[queue[n].pipeid].beUsing
      BY <3>1, <3>4 DEF Inv, PacketsFresh
    <3>5. \A n \in 1..Len(queue) : queue[n].pipeid < at => queue[n].pipeid < at + 1
      BY <3>3
    <3> QED
      BY <3>1, <3>2, <3>4, <3>5 DEF PacketsFresh
  <2> QED
    BY <2>1, <2>2, <2>3, <2>4
<1> QED
  BY <1>1, <1>2, <1>3 DEF Inv

\* A free slot is opened.
LEMMA InvOpen ==
  ASSUME Inv, TypeOK', NEW i \in Idas, OpenSyncInst(i) PROVE Inv'
<1>1. /\ pc = "slots" /\ pc' = "reply" /\ info' = "asked" /\ ~slot[at].beUsing
      /\ pipe' = [pipe EXCEPT ![at] = i] /\ ida[i].phase = "up"
      /\ UNCHANGED <<slot, queue, at, active, where, moved, ida, reopened>>
  BY DEF OpenSyncInst, Serving, notice, process, server
<1>2. at \in Slots /\ pipe' \in [Slots -> Idas \cup {"closed", "broken"}]
      /\ pipe \in [Slots -> Idas \cup {"closed", "broken"}]
  BY <1>1 DEF Inv, TypeOK
<1>3. Asking'
  BY <1>1, RemoteAssumption DEF Asking
<1>4. PipesLead'
  BY <1>1, <1>2 DEF Inv, PipesLead
<1>5. BasesTrue'
  BY <1>1 DEF Inv, BasesTrue
<1>6. PacketsFresh'
  BY <1>1 DEF Inv, PacketsFresh
<1> QED
  BY <1>3, <1>4, <1>5, <1>6 DEF Inv

\* The answer is read: the slot is bound to what IDA has open, and no packet of an
\* earlier binding is left.
LEMMA InvRead == ASSUME Inv, TypeOK', ReadInfo PROVE Inv'
<1> DEFINE s == Located(Bound(slot[at]))
<1>1. /\ pc = "reply" /\ info' = "none" /\ slot' = [slot EXCEPT ![at] = s] /\ NextSlot
      /\ UNCHANGED <<pipe, queue, active, where, moved, ida, reopened>>
  BY DEF ReadInfo, notice, process, server
<1>2. /\ at \in Slots /\ slot \in [Slots -> SlotType] /\ slot[at] \in SlotType
      /\ ~slot[at].beUsing /\ ~slot[at].beLoaded
  BY <1>1 DEF Inv, TypeOK, Asking
<1>3. /\ slot'[at] = s
      /\ \A k \in Slots : k # at => slot'[k] = slot[k]
  BY <1>1, <1>2
<1>4. Bound(slot[at]) \in SlotType /\ ~Bound(slot[at]).beLoaded
  BY <1>2 DEF Bound, SlotType
<1>5. s.beUsing => info \in Modules /\ s.modname = info
  BY <1>2, <1>4, LocatedKeeps DEF Bound, SlotType
<1>6. s.beLoaded => s.base = where[s.modname]
  BY <1>4, LocatedKeeps
<1> HIDE DEF s
<1>7. pc' # "reply" /\ (pc' = "slots" => at' = at + 1)
  BY <1>1 DEF NextSlot
<1>8. Asking'
  BY <1>1, <1>7, RemoteAssumption DEF Asking
<1>9. PipesLead'
  BY <1>1, <1>2, <1>3, <1>5 DEF Inv, PipesLead, Asking
<1>10. BasesTrue'
  BY <1>1, <1>2, <1>3, <1>6 DEF Inv, BasesTrue
<1>11. PacketsFresh'
  <2> SUFFICES ASSUME NEW n \in 1..Len(queue), queue[n].sure
               PROVE  /\ queue[n].pipeid \in Slots
                      /\ slot'[queue[n].pipeid].beUsing
                           => slot'[queue[n].pipeid].modname = queue[n].mod
                      /\ pc' \in {"slots", "reply"}
                           => queue[n].pipeid < at' \/ slot'[queue[n].pipeid].beUsing
    BY <1>1 DEF PacketsFresh
  <2> DEFINE k == queue[n].pipeid
  <2>1. /\ k \in Slots /\ (k < at \/ slot[k].beUsing)
        /\ slot[k].beUsing => slot[k].modname = queue[n].mod
    BY <1>1 DEF Inv, PacketsFresh
  <2>2. k \in Int /\ at \in Int
    BY Numbers DEF Inv
  <2>3. k # at
    BY <1>2, <2>1, <2>2
  <2>4. k < at => k < at + 1
    BY <2>2
  <2>5. slot'[k] = slot[k]
    BY <1>3, <2>1, <2>3
  <2>6. pc' \in {"slots", "reply"} => at' = at + 1
    BY <1>7
  <2>7. pc' \in {"slots", "reply"} => k < at' \/ slot'[k].beUsing
    BY <2>1, <2>4, <2>5, <2>6
  <2> QED
    BY <2>1, <2>5, <2>7
<1> QED
  BY <1>8, <1>9, <1>10, <1>11 DEF Inv

\* A slot in use is looked at.
LEMMA InvCheck == ASSUME Inv, TypeOK', CheckPipeConn PROVE Inv'
<1>1. /\ pc = "slots" /\ info' = info /\ NextSlot /\ slot[at].beUsing
      /\ UNCHANGED <<queue, active, where, moved, ida, reopened>>
  BY DEF CheckPipeConn, notice, process, server
<1>2. /\ at \in Slots /\ slot \in [Slots -> SlotType] /\ slot[at] \in SlotType
      /\ pipe \in [Slots -> Idas \cup {"closed", "broken"}]
  BY DEF Inv, TypeOK
<1>3. PICK s : /\ slot' = [slot EXCEPT ![at] = s]
               /\ \/ s = Located(slot[at]) /\ pipe' = pipe
                  \/ s = FreeSlot /\ pipe' = [pipe EXCEPT ![at] = "closed"]
  BY DEF CheckPipeConn, Reset
<1>4. /\ slot'[at] = s
      /\ \A k \in Slots : k # at => slot'[k] = slot[k] /\ pipe'[k] = pipe[k]
      /\ pipe'[at] = pipe[at] \/ pipe'[at] = "closed"
  BY <1>2, <1>3
<1>5. s.beUsing => s.modname = slot[at].modname
  BY <1>2, <1>3, LocatedKeeps DEF FreeSlot
<1>6. s.beLoaded => \/ slot[at].beLoaded /\ s.base = slot[at].base /\ s.modname = slot[at].modname
                    \/ s.base = where[s.modname]
  BY <1>2, <1>3, LocatedKeeps DEF FreeSlot
<1>7. pc' # "reply" /\ (pc' = "slots" => at' = at + 1)
  BY <1>1 DEF NextSlot
<1>8. Asking'
  BY <1>1, <1>7, RemoteAssumption DEF Inv, Asking
<1>9. PipesLead'
  BY <1>1, <1>2, <1>4, <1>5, RemoteAssumption DEF Inv, PipesLead
<1>10. BasesTrue'
  BY <1>1, <1>2, <1>4, <1>6 DEF Inv, BasesTrue
<1>11. PacketsFresh'
  <2> SUFFICES ASSUME NEW n \in 1..Len(queue), queue[n].sure
               PROVE  /\ queue[n].pipeid \in Slots
                      /\ slot'[queue[n].pipeid].beUsing
                           => slot'[queue[n].pipeid].modname = queue[n].mod
                      /\ pc' \in {"slots", "reply"}
                           => queue[n].pipeid < at' \/ slot'[queue[n].pipeid].beUsing
    BY <1>1 DEF PacketsFresh
  <2> DEFINE k == queue[n].pipeid
  <2>1. /\ k \in Slots /\ (k < at \/ slot[k].beUsing)
        /\ slot[k].beUsing => slot[k].modname = queue[n].mod
    BY <1>1 DEF Inv, PacketsFresh
  <2>2. k \in Int /\ at \in Int
    BY Numbers DEF Inv
  <2>3. (k < at => k < at + 1) /\ (k = at => k < at + 1)
    BY <2>2
  <2>4. pc' \in {"slots", "reply"} => at' = at + 1
    BY <1>7
  <2>5. CASE k = at
    <3>1. slot'[k].beUsing => slot'[k].modname = queue[n].mod
      BY <1>1, <1>4, <1>5, <2>1, <2>5
    <3> QED
      BY <2>1, <2>3, <2>4, <2>5, <3>1
  <2>6. CASE k # at
    <3>1. slot'[k] = slot[k]
      BY <1>4, <2>1, <2>6
    <3>2. pc' \in {"slots", "reply"} => k < at' \/ slot'[k].beUsing
      BY <2>1, <2>3, <2>4, <3>1
    <3> QED
      BY <2>1, <3>1, <3>2
  <2> QED
    BY <2>5, <2>6
<1> QED
  BY <1>8, <1>9, <1>10, <1>11 DEF Inv

\* A restart frees all slots; packets that stay in the pipe find them free.
LEMMA InvReset == ASSUME Inv, TypeOK', ODBG2_Pluginreset PROVE Inv'
<1>1. /\ pc = "idle" /\ pc' = "idle" /\ info' = info
      /\ slot' = [k \in Slots |-> FreeSlot] /\ pipe' = [k \in Slots |-> "closed"]
  BY DEF ODBG2_Pluginreset, Reset, poll
<1>2. \A k \in Slots : ~slot'[k].beUsing /\ ~slot'[k].beLoaded /\ pipe'[k] \notin Idas
  BY <1>1, RemoteAssumption DEF FreeSlot
<1>3. Asking'
  BY <1>1, RemoteAssumption DEF Inv, Asking
<1>4. PipesLead' /\ BasesTrue'
  BY <1>2 DEF PipesLead, BasesTrue
<1>5. PacketsFresh'
  <2>1. queue' = queue \/ queue' = <<>>
    BY DEF ODBG2_Pluginreset, notice
  <2> QED
    BY <1>1, <1>2, <2>1 DEF Inv, PacketsFresh
<1> QED
  BY <1>3, <1>4, <1>5 DEF Inv

\* The option and the debuggee: a loaded slot has a base that is not 0, so its module
\* cannot be loaded another time, and once unloaded it counts as moved.
LEMMA InvDebuggee ==
  ASSUME Inv, TypeOK',
         \/ saveOptions \/ ProcessEnds
         \/ \E m \in Modules : UnloadModule(m) \/ \E b \in Bases : LoadModule(m, b)
  PROVE  Inv'
<1>1. UNCHANGED <<slot, pipe, queue, pc, at, info, ida, reopened>>
  BY DEF saveOptions, ProcessEnds, UnloadModule, LoadModule, notice, poll, server
<1>2. Asking' /\ PipesLead' /\ PacketsFresh'
  BY <1>1 DEF Inv, Asking, PipesLead, PacketsFresh
<1>3. BasesTrue'
  <2>1. CASE saveOptions
    BY <1>1, <2>1 DEF Inv, BasesTrue, saveOptions, process
  <2>2. CASE ProcessEnds
    BY <2>2 DEF BasesTrue, ProcessEnds
  <2>3. ASSUME NEW m \in Modules, UnloadModule(m) PROVE BasesTrue'
    BY <1>1, <2>3 DEF Inv, TypeOK, BasesTrue, UnloadModule
  <2>4. ASSUME NEW m \in Modules, NEW b \in Bases, LoadModule(m, b) PROVE BasesTrue'
    <3>1. /\ active' = active /\ moved' = moved /\ where[m] = 0 /\ active
          /\ \A n \in Modules : n # m => where'[n] = where[n]
      BY <2>4 DEF Inv, TypeOK, LoadModule
    <3>2. ASSUME NEW k \in Slots, slot[k].beLoaded, slot[k].modname \notin moved
          PROVE  /\ slot[k].base = where[slot[k].modname] /\ slot[k].base # 0
                 /\ slot[k].modname \in Modules
      BY <3>1, <3>2 DEF Inv, TypeOK, BasesTrue
    <3>3. ASSUME NEW k \in Slots, slot[k].beLoaded, slot[k].modname \notin moved
          PROVE  slot[k].base = where'[slot[k].modname]
      BY <3>1, <3>2, <3>3
    <3> QED
      BY <1>1, <3>1, <3>3 DEF BasesTrue
  <2> QED
    BY <2>1, <2>2, <2>3, <2>4
<1> QED
  BY <1>2, <1>3 DEF Inv

\* Steps of an IDA that change neither slots nor what is open where.
LEMMA InvServe ==
  ASSUME Inv, TypeOK', NEW i \in Idas, initPipeServer(i) \/ onInstRead(i) PROVE Inv'
<1>1. UNCHANGED <<slot, pipe, queue, pc, at, active, where, moved, reopened>>
  BY DEF initPipeServer, onInstRead, notice, poll, process
<1>2. \A j \in Idas : ida'[j].db = ida[j].db /\ (ida[j].phase # "off" => ida'[j].phase # "off")
  <2>1. ida \in [Idas -> IdaType]
    BY DEF Inv, TypeOK
  <2>2. CASE initPipeServer(i)
    BY <2>1, <2>2 DEF initPipeServer, IdaType
  <2>3. CASE onInstRead(i)
    BY <2>1, <2>3 DEF onInstRead, IdaType
  <2> QED
    BY <2>2, <2>3
<1>3. PipesLead' /\ BasesTrue' /\ PacketsFresh'
  BY <1>1, <1>2 DEF Inv, PipesLead, BasesTrue, PacketsFresh
<1>4. Asking'
  <2>1. CASE initPipeServer(i)
    <3>1. info' = info
      BY <2>1 DEF initPipeServer, poll
    <3> QED
      BY <1>1, <1>2, <3>1 DEF Inv, Asking
  <2>2. CASE onInstRead(i)
    <3>1. info = "asked" /\ pipe[at] = i /\ info' \in {ida[i].db, "noheader"}
      BY <2>2 DEF onInstRead
    <3>2. pc = "reply"
      BY <3>1 DEF Inv, Asking
    <3>3. info' \in Modules => info' = ida[i].db
      BY <3>1, RemoteAssumption
    <3> QED
      BY <1>1, <1>2, <3>1, <3>2, <3>3 DEF Inv, Asking
  <2> QED
    BY <2>1, <2>2
<1> QED
  BY <1>3, <1>4 DEF Inv

\* A packet is sent.
LEMMA InvSend ==
  ASSUME Inv, TypeOK', NEW i \in Idas, menu_item_syncip(i) PROVE Inv'
<1> DEFINE p == [mod |-> ida[i].db, pipeid |-> ida[i].gPipeId,
                 sure |-> BoundTo(i) /\ i \notin reopened]
<1>1. /\ UNCHANGED <<slot, pipe, pc, at, info, active, where, moved, ida, reopened>>
      /\ queue' = queue \/ queue' = Append(queue, p)
  BY DEF menu_item_syncip, poll, process, server
<1>2. Asking' /\ PipesLead' /\ BasesTrue'
  BY <1>1 DEF Inv, Asking, PipesLead, BasesTrue
<1>3. p.sure => /\ p.pipeid \in Slots /\ slot[p.pipeid].beUsing
                /\ slot[p.pipeid].modname = p.mod
  BY DEF BoundTo, Inv, PipesLead
<1>4. PacketsFresh'
  <2> HIDE DEF p
  <2>1. CASE queue' = queue
    BY <1>1, <2>1 DEF Inv, PacketsFresh
  <2>2. CASE queue' = Append(queue, p)
    <3>1. queue \in Seq(PacketType)
      BY DEF Inv, TypeOK
    <3>2. \A n \in 1..Len(queue') : \/ n \in 1..Len(queue) /\ queue'[n] = queue[n]
                                   \/ queue'[n] = p
      BY <2>2, <3>1
    <3> QED
      BY <1>1, <1>3, <3>2 DEF Inv, PacketsFresh
  <2> QED
    BY <1>1, <2>1, <2>2
<1> QED
  BY <1>2, <1>4 DEF Inv

\* An IDA starts, ends or opens another database.
LEMMA InvIda ==
  ASSUME Inv, TypeOK', NEW i \in Idas,
         \/ ExitIda(i) \/ \E m \in Modules : StartIda(i, m) \/ OpenDatabase(i, m)
  PROVE  Inv'
<1>1. UNCHANGED <<slot, queue, pc, at, active, where, moved>>
  BY DEF ExitIda, StartIda, OpenDatabase, notice, poll, process
<1>2. BasesTrue' /\ PacketsFresh'
  BY <1>1 DEF Inv, BasesTrue, PacketsFresh
<1>3. /\ \A j \in Idas : j # i => ida'[j] = ida[j] /\ (j \in reopened' <=> j \in reopened)
      /\ at \in Slots /\ ida \in [Idas -> IdaType]
  BY DEF Inv, TypeOK, ExitIda, StartIda, OpenDatabase
<1>4. CASE ExitIda(i)
  <2>1. /\ \A k \in Slots : pipe'[k] = IF pipe[k] = i THEN "broken" ELSE pipe[k]
        /\ info' = info \/ (info = "asked" /\ info' = "lost")
    BY <1>4 DEF ExitIda
  <2>2. "broken" \notin Idas /\ "lost" \notin Modules
    BY RemoteAssumption
  <2>3. PipesLead'
    BY <1>1, <1>3, <2>1, <2>2 DEF Inv, PipesLead
  <2>4. Asking'
    BY <1>1, <1>3, <2>1, <2>2 DEF Inv, Asking
  <2> QED
    BY <1>2, <2>3, <2>4 DEF Inv
<1>5. ASSUME NEW m \in Modules, StartIda(i, m) PROVE Inv'
  <2>1. UNCHANGED <<pipe, info>> /\ ida[i].phase = "off"
    BY <1>5 DEF StartIda, poll
  <2>2. \A k \in Slots : pipe[k] # i
    BY <2>1 DEF Inv, PipesLead
  <2> QED
    BY <1>1, <1>2, <1>3, <2>1, <2>2 DEF Inv, PipesLead, Asking
<1>6. ASSUME NEW m \in Modules, OpenDatabase(i, m) PROVE Inv'
  <2>1. UNCHANGED <<pipe, info>> /\ i \in reopened' /\ ida'[i].phase = ida[i].phase
    BY <1>3, <1>6 DEF OpenDatabase, poll, IdaType
  <2> QED
    BY <1>1, <1>2, <1>3, <2>1 DEF Inv, PipesLead, Asking
<1> QED
  BY <1>4, <1>5, <1>6

LEMMA InvStep == Inv /\ [Next]_vars => Inv'
<1> SUFFICES ASSUME Inv, [Next]_vars PROVE Inv'
  OBVIOUS
<1>1. TypeOK'
  BY TypeStep DEF Inv
<1>2. CASE Poll \/ ProcessIDAPacket \/ TooEarly \/ BeginSlots \/ NobodyServes
  <2>1. UNCHANGED <<slot, pipe, info, process, server>>
    BY <1>2 DEF Poll, ProcessIDAPacket, TooEarly, BeginSlots, NobodyServes, poll
  <2> QED
    BY <1>1, <1>2, <2>1, InvRound
<1>3. CASE UNCHANGED vars
  BY <1>3 DEF vars, notice, poll, process, server, Inv, TypeOK, Asking, PipesLead,
              BasesTrue, PacketsFresh
<1> QED
  BY <1>1, <1>2, <1>3, InvOpen, InvRead, InvCheck, InvReset, InvDebuggee, InvServe,
     InvSend, InvIda DEF Next

LEMMA InvAlways == Spec => []Inv
  BY InvInit, InvStep, PTL DEF Spec

\* Whatever starts, ends and restarts in whatever order, a loaded slot has the base at
\* which this process has its module, and leads to an IDA that has that module open.
THEOREM TranslationAlwaysTrue == Spec => []TranslationIsTrue
<1>1. Inv => TranslationIsTrue
  BY DEF Inv, TypeOK, PipesLead, BasesTrue, TranslationIsTrue
<1> QED
  BY <1>1, InvAlways, PTL

\* An address that IDA sends lands in the module it was sent from.
THEOREM SyncAlwaysLands == Spec => SyncLandsInSender
<1> DEFINE p == Head(queue)
           A == ProcessIDAPacket /\ p.sure /\ p.mod \notin moved /\ active
                  /\ slot[p.pipeid].beLoaded => cpu' = where[p.mod]
<1>1. Inv => [A]_vars
  <2> SUFFICES ASSUME Inv, ProcessIDAPacket, p.sure, p.mod \notin moved, active,
                      slot[p.pipeid].beLoaded
               PROVE  cpu' = where[p.mod]
    OBVIOUS
  <2>1. 1 \in 1..Len(queue) /\ p = queue[1]
    BY DEF Inv, TypeOK, ProcessIDAPacket
  <2>2. /\ p.pipeid \in Slots /\ slot[p.pipeid].beUsing
        /\ slot[p.pipeid].modname = p.mod
    BY <2>1 DEF Inv, TypeOK, PacketsFresh
  <2>3. cpu' = slot[p.pipeid].base
    BY <2>2, RemoteAssumption DEF ProcessIDAPacket, Slots
  <2> QED
    BY <2>2, <2>3 DEF Inv, BasesTrue
<1> QED
  BY <1>1, InvAlways, PTL DEF SyncLandsInSender
=============================================================================
