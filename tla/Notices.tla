------------------------------- MODULE Notices -------------------------------
(***************************************************************************)
(* Notices from the program that is debugged (ollydbg2_plugin.cpp).  The   *)
(* run time in the program writes packets into a pipe; the plugin reads    *)
(* them whenever OllyDbg looks for a message (ProcessPendingPacket).  A     *)
(* script that wants OllyDbg to see a module or a pause writes a notice     *)
(* and then raises a debug string of one byte; ODBG2_Pluginmainloop turns   *)
(* that event into the one the notice asks for.  The two travel on         *)
(* different ways and meet in one variable, gLastPK.  A script that wants   *)
(* something done writes a request and waits for the answer.               *)
(*                                                                         *)
(* Records, logs, errors and blocks are notices too; what they change is   *)
(* shown in windows only and left out.  The run time lets one thread at a  *)
(* time ask for something.  While an event has not been answered, the      *)
(* whole program stands still.                                             *)
(***************************************************************************)
EXTENDS Naturals, Sequences, FiniteSets

CONSTANTS
  Threads,      \* threads of the program
  Modules,      \* modules that a script loads by hand
  None,         \* no module, no thread
  Calls,        \* what the scripts ask OllyDbg for
  MaxSent,      \* bound on the packets written
  MaxSessions   \* bound on the starts of the program

\* The functions of the script run time that wait for OllyDbg (internal.h, codeblock.h).
SetCalls == {"setint3break", "sethardbreak", "setmembreak"}
BreakCalls ==
  SetCalls \cup {"removeint3break", "enableint3break", "removemembreak",
    "Confirmint3breakpoint", "Confirmhardwarebreakpoint", "Enablemembreakpoint",
    "Removehardbreakpoint", "Enablehardbreakpoint", "Findfreehardbreakslot"}
AllCalls == BreakCalls \cup {"mkcodebk"}

ASSUME NoticesAssumption ==
  /\ Calls \subseteq AllCalls
  /\ None \notin Modules

VARIABLES
  pipe,       \* packets on their way to the plugin
  reply,      \* is there an answer in the pipe back?
  at,         \* what each thread does: it runs, raises, or waits for a call
  event,      \* the debug event not yet answered
  inLoop,     \* is OllyDbg inside ProcessPendingPacket?
  gLastPK,    \* the notice with the last event to raise
  gvmodList,  \* modules loaded by hand, in the order they were announced
  session,    \* number of starts of the program
  sent,       \* number of packets written
  told        \* history: the events raised for OllyDbg

debuggee == <<at, event, reply>>
vars == <<pipe, debuggee, inLoop, gLastPK, gvmodList, session, sent, told>>

\* of is the start of the program a packet was written in.
Packet == [what : {"load"}, mod : Modules, id : Nat, of : Nat]
            \cup [what : {"pause"} \cup Calls, mod : {None}, id : Nat, of : Nat]
Empty == [what |-> "empty", mod |-> None, id |-> 0, of |-> 0]
NoEvent == [thread |-> None, len |-> 0]
Lengths == {1, 2}

Elements(s) == {s[i] : i \in 1..Len(s)}

-----------------------------------------------------------------------------
(* The program.                                                            *)

Write(what, mod) ==
  /\ sent < MaxSent
  /\ pipe' = Append(pipe, [what |-> what, mod |-> mod, id |-> sent + 1, of |-> session])
  /\ sent' = sent + 1

\* dbg_raiseLoadDllException and dbg_raisePauseException: the notice, then the event.
SendNotice(t, what, mod) ==
  /\ event = NoEvent
  /\ at[t] = "runs"
  /\ Write(what, mod)
  /\ at' = [at EXCEPT ![t] = "raises"]
  /\ UNCHANGED <<event, reply, inLoop, gLastPK, gvmodList, session, told>>

RaiseEvent(t) ==
  /\ event = NoEvent
  /\ at[t] = "raises"
  /\ event' = [thread |-> t, len |-> 1]
  /\ UNCHANGED <<pipe, at, reply, inLoop, gLastPK, gvmodList, session, sent, told>>

\* OutputDebugString of the program itself; the empty string has one byte.
OutputDebugString(t, len) ==
  /\ event = NoEvent
  /\ at[t] = "runs"
  /\ event' = [thread |-> t, len |-> len]
  /\ UNCHANGED <<pipe, at, reply, inLoop, gLastPK, gvmodList, session, sent, told>>

Ask(t, call) ==
  /\ event = NoEvent
  /\ at[t] = "runs"
  /\ \A u \in Threads : at[u] \notin Calls
  /\ Write(call, None)
  /\ at' = [at EXCEPT ![t] = call]
  /\ UNCHANGED <<event, reply, inLoop, gLastPK, gvmodList, session, told>>

Receive(t) ==
  /\ event = NoEvent
  /\ at[t] \in Calls
  /\ reply
  /\ reply' = FALSE
  /\ at' = [at EXCEPT ![t] = "runs"]
  /\ UNCHANGED <<pipe, event, inLoop, gLastPK, gvmodList, session, sent, told>>

-----------------------------------------------------------------------------
(* ProcessPendingPacket, from MyPeekMessageW.                              *)

PeekMessage ==
  /\ ~inLoop
  /\ pipe # <<>>
  /\ inLoop' = TRUE
  /\ UNCHANGED <<pipe, debuggee, gLastPK, gvmodList, session, sent, told>>

\* ProcessDbgFuncCall knows all of BreakCalls; three of them get there.
Answered_SetCallsOnly(what) == what \in SetCalls
Answered(what) == what \in SetCalls \cup {"mkcodebk"}

\* One round of the loop.
ProcessPacket ==
  /\ inLoop
  /\ pipe # <<>>
  /\ pipe' = Tail(pipe)
  /\ gLastPK' = IF Head(pipe).what \in {"load", "pause"} THEN Head(pipe) ELSE gLastPK
  /\ reply' = (reply \/ Answered(Head(pipe).what))
  /\ UNCHANGED <<at, event, inLoop, gvmodList, session, sent, told>>

EndLoop ==
  /\ inLoop
  /\ pipe = <<>>
  /\ inLoop' = FALSE
  /\ UNCHANGED <<pipe, debuggee, gLastPK, gvmodList, session, sent, told>>

ProcessPendingPacket == PeekMessage \/ ProcessPacket \/ EndLoop

-----------------------------------------------------------------------------
(* ODBG2_Pluginmainloop with an OUTPUT_DEBUG_STRING_EVENT.                 *)

Tell(n) == told' = Append(told, [n |-> n, in |-> session])

\* The event becomes the one that the notice n asks for; or stays what it is.
Disguise_Again(n) ==
  CASE n.what = "load"  -> Tell(n) /\ gvmodList' = Append(gvmodList, n.mod)
    [] n.what = "pause" -> Tell(n) /\ UNCHANGED gvmodList
    [] OTHER            -> UNCHANGED <<told, gvmodList>>
Disguise(n) ==
  CASE n.what = "load" /\ n.mod \notin Elements(gvmodList) ->
         Tell(n) /\ gvmodList' = Append(gvmodList, n.mod)
    [] n.what = "pause" -> Tell(n) /\ UNCHANGED gvmodList
    [] OTHER            -> UNCHANGED <<told, gvmodList>>

Pluginmainloop_NotEmptied ==
  /\ ~inLoop
  /\ event # NoEvent
  /\ IF event.len = 1 /\ gLastPK # Empty
     THEN Disguise(gLastPK) /\ UNCHANGED gLastPK
     ELSE UNCHANGED <<told, gvmodList, gLastPK>>
  /\ at' = [at EXCEPT ![event.thread] = "runs"]
  /\ event' = NoEvent
  /\ UNCHANGED <<pipe, reply, inLoop, session, sent>>
Pluginmainloop ==
  /\ ~inLoop
  /\ event # NoEvent
  /\ IF event.len = 1 /\ gLastPK # Empty
     THEN Disguise(gLastPK) /\ gLastPK' = Empty
     ELSE UNCHANGED <<told, gvmodList, gLastPK>>
  /\ at' = [at EXCEPT ![event.thread] = "runs"]
  /\ event' = NoEvent
  /\ UNCHANGED <<pipe, reply, inLoop, session, sent>>

\* ODBG2_Pluginreset: all is forgotten but gLastPK; the program is started again.
Pluginreset_KeepsPipe ==
  /\ ~inLoop
  /\ session < MaxSessions
  /\ session' = session + 1
  /\ gvmodList' = <<>>
  /\ reply' = FALSE
  /\ at' = [t \in Threads |-> "runs"]
  /\ event' = NoEvent
  /\ UNCHANGED <<pipe, inLoop, gLastPK, sent, told>>
Pluginreset ==
  /\ ~inLoop
  /\ session < MaxSessions
  /\ session' = session + 1
  /\ gvmodList' = <<>>
  /\ pipe' = <<>>
  /\ reply' = FALSE
  /\ at' = [t \in Threads |-> "runs"]
  /\ event' = NoEvent
  /\ UNCHANGED <<inLoop, gLastPK, sent, told>>

Init ==
  /\ pipe = <<>>
  /\ reply = FALSE
  /\ at = [t \in Threads |-> "runs"]
  /\ event = NoEvent
  /\ inLoop = FALSE
  /\ gLastPK = Empty
  /\ gvmodList = <<>>
  /\ session = 1
  /\ sent = 0
  /\ told = <<>>

Next ==
  \/ \E t \in Threads :
       \/ \E m \in Modules : SendNotice(t, "load", m)
       \/ SendNotice(t, "pause", None)
       \/ RaiseEvent(t)
       \/ \E len \in Lengths : OutputDebugString(t, len)
       \/ \E call \in Calls : Ask(t, call)
       \/ Receive(t)
  \/ ProcessPendingPacket
  \/ Pluginmainloop
  \/ Pluginreset

\* OllyDbg looks for messages as long as it lives; nothing else is promised.
Spec == Init /\ [][Next]_vars /\ WF_vars(ProcessPendingPacket)

-----------------------------------------------------------------------------
(* Properties.                                                             *)

\* The types; an answer lies in the pipe only while a thread waits for one.
TypeOK ==
  /\ pipe \in Seq(Packet)
  /\ reply \in BOOLEAN
  /\ at \in [Threads -> {"runs", "raises"} \cup Calls]
  /\ event = NoEvent \/ event \in [thread : Threads, len : Lengths]
  /\ event # NoEvent => at[event.thread] \notin Calls
  /\ inLoop \in BOOLEAN
  /\ gLastPK \in Packet \cup {Empty}
  /\ gvmodList \in Seq(Modules)
  /\ session \in Nat
  /\ sent \in Nat
  /\ told \in Seq([n : Packet, in : Nat])
  /\ reply => \E t \in Threads : at[t] \in Calls

\* Of what a program left behind, the next one sees one event at most, and as its
\* first: gLastPK survives the restart, the pipe and the modules do not.
StaleAtMostOnce ==
  \A i, j \in 1..Len(told) :
    i < j /\ told[i].in = told[j].in => told[j].n.of = told[j].in

\* Notices may be lost (one replaces the other in gLastPK), and an event may take one
\* that another thread has written; but they become events in the order they were
\* written in, and none becomes two.
EventsInOrder ==
  \A i, j \in 1..Len(told) : i < j => told[i].n.id < told[j].n.id

\* However often a script sees a module, OllyDbg hears of it once in a session, and the
\* modules in gvmodList, which the plugin adds to what EnumProcessModules returns, are
\* those OllyDbg has heard of.
Announced == {i \in 1..Len(told) : told[i].in = session /\ told[i].n.what = "load"}
AnnouncedOnce ==
  /\ \A i, j \in Announced : told[i].n.mod = told[j].n.mod => i = j
  /\ {told[i].n.mod : i \in Announced} = Elements(gvmodList)

\* A script that asks for a breakpoint, or for a block, gets an answer, unless the
\* program is started again.
Returns(call) ==
  \A t \in Threads : at[t] = call ~> (reply \/ at[t] # call)
SettingReturns == \A call \in Calls \cap (SetCalls \cup {"mkcodebk"}) : Returns(call)

\* internal.h declares all the functions as ones that return a value.
CallsReturn == \A call \in Calls : Returns(call)
=============================================================================
