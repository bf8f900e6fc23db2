---------------------------- MODULE PacketChannel ----------------------------
(***************************************************************************)
(* How the OllyDbg plugin hands a packet to xVMRuntime inside the debuggee *)
(* (ollydbg2_plugin.cpp).  SendPacketByCurrentThread commits a stack in    *)
(* the debuggee, writes the packet and a return frame to it and redirects  *)
(* the current thread to the runtime's entry.  The thread works on that    *)
(* stack, restores its own context and passes the address "outer"; a       *)
(* one-shot breakpoint there lets ODBG2_Pluginmainloop free the stack and  *)
(* accept the next packet.                                                 *)
(*                                                                         *)
(* Source: the plugin's handlers.  External: the runtime, the debuggee's   *)
(* threads, and OllyDbg's run, pause and options dialog.                   *)
(***************************************************************************)
EXTENDS Naturals

CONSTANTS
  Threads,           \* threads of the debuggee
  Addrs,             \* addresses VirtualAllocEx may return
  NoStack,           \* the null pointer, and "not on a handed stack"
  FreeChoices,       \* values the dialog may give bFreeStkEach
  StackSizes,        \* values the dialog may give scp_stackSize, in pages
  ScriptPages,       \* pages a packet that carries a script needs on top
  RuntimeHasOuter,   \* does xvm_notice_init carry a nonzero rtouter?
  MayFail,           \* may a write to or a read of the debuggee fail?
  MayRestart         \* may the debuggee be restarted?

ASSUME ChannelAssumption ==
  /\ NoStack \notin Addrs
  /\ FreeChoices \subseteq BOOLEAN /\ FreeChoices # {}
  /\ StackSizes \subseteq Nat /\ StackSizes # {}
  /\ ScriptPages \in Nat
  /\ RuntimeHasOuter \in BOOLEAN
  /\ MayFail \in BOOLEAN
  /\ MayRestart \in BOOLEAN

VARIABLES
  glpCheckPacketEntry, glpCheckPacketOuter,  \* are the addresses known?
  glpNoticeStack,    \* the stack handed out, or NoStack
  gPacketPending,    \* a packet is believed to be under way
  gScriptState,      \* what the last script's main returned
  bFreeStkEach, scp_stackSize,
  heap,              \* live allocations in the debuggee: address -> pages
  frame,             \* the return frame at the top of each stack
  outerBp,           \* is the temporary breakpoint at outer set?
  loc,               \* where each thread executes
  esp,               \* the handed stack each thread runs on, or NoStack
  running            \* threads the debugger lets run; {} is "paused"

plugin  == <<glpCheckPacketEntry, glpCheckPacketOuter, glpNoticeStack,
             gPacketPending, gScriptState>>
options == <<bFreeStkEach, scp_stackSize>>
target  == <<heap, frame, outerBp, loc, esp, running>>
vars    == <<plugin, options, target>>

Locs         == {"app", "entry", "outer"}
ScriptStates == {"none", "main_ret_global"}
NoFrame      == [thread |-> NoStack, back |-> "torn"]
Frames       == [thread : Threads, back : Locs] \cup {NoFrame}
NoHeap       == [a \in {} |-> 0]
AllocPages   == {n + p : n \in StackSizes, p \in {0, ScriptPages}}

Init ==
  /\ glpCheckPacketEntry = FALSE
  /\ glpCheckPacketOuter = FALSE
  /\ glpNoticeStack = NoStack
  /\ gPacketPending = FALSE
  /\ gScriptState = "none"
  /\ bFreeStkEach \in FreeChoices
  /\ scp_stackSize \in StackSizes
  /\ heap = NoHeap
  /\ frame = [a \in Addrs |-> NoFrame]
  /\ outerBp = FALSE
  /\ loc = [t \in Threads |-> "app"]
  /\ esp = [t \in Threads |-> NoStack]
  /\ running = {}

-----------------------------------------------------------------------------
(* The plugin.                                                             *)

(* ProcessPendingPacket, case xvm_notice_init. *)
NoticeInit ==
  /\ running # {}
  /\ glpCheckPacketEntry' = TRUE
  /\ glpCheckPacketOuter' = RuntimeHasOuter
  /\ UNCHANGED <<glpNoticeStack, gPacketPending, gScriptState, options, target>>

\* A packet with a script is ScriptPages longer than one without.
PacketPages(script) == IF script THEN ScriptPages ELSE 0

\* The early returns of SendPacketByCurrentThread that change nothing.
MaySend_PendingUnchecked == glpCheckPacketEntry
MaySend == glpCheckPacketEntry /\ ~gPacketPending

\* An existing stack is reused whatever its size; otherwise one is committed
\* for the stack size of the moment plus this packet.
StackFor == IF glpNoticeStack # NoStack THEN {glpNoticeStack}
                                        ELSE Addrs \ DOMAIN heap
HeapWith(a, script) ==
  [b \in DOMAIN heap \cup {a} |->
     IF glpNoticeStack = NoStack /\ b = a
       THEN scp_stackSize + PacketPages(script)
       ELSE heap[b]]
Fits(a, script) ==
  scp_stackSize + PacketPages(script) <= HeapWith(a, script)[a]

\* The breakpoint at outer is set, and pending kept, in these cases only.
DelaySetPending == glpCheckPacketOuter /\ bFreeStkEach

\* All four writes succeed: the thread is redirected and, unless SHIFT is
\* held (go = FALSE), let run alone or with the others.
Written(t, a, script, single, go) ==
  /\ Fits(a, script)
  /\ frame' = [frame EXCEPT ![a] = [thread |-> t, back |-> loc[t]]]
  /\ loc' = [loc EXCEPT ![t] = "entry"]
  /\ esp' = [esp EXCEPT ![t] = a]
  /\ outerBp' = (outerBp \/ DelaySetPending)
  /\ gPacketPending' = DelaySetPending
  /\ running' = IF ~(glpCheckPacketOuter /\ go) THEN {}
                ELSE IF single THEN {t} ELSE Threads

\* One of the writes fails: every such return leaves gPacketPending set.
NotWritten(a, script) ==
  /\ MayFail \/ ~Fits(a, script)
  /\ \E f \in {frame[a], NoFrame} : frame' = [frame EXCEPT ![a] = f]
  /\ gPacketPending' = TRUE
  /\ UNCHANGED <<outerBp, loc, esp, running>>

SendPacketByCurrentThread(t, script, single, go) ==
  /\ MaySend
  /\ \E a \in StackFor :
       /\ glpNoticeStack' = a
       /\ heap' = HeapWith(a, script)
       /\ \/ Written(t, a, script, single, go)
          \/ NotWritten(a, script)
  /\ UNCHANGED <<glpCheckPacketEntry, glpCheckPacketOuter, gScriptState, options>>

\* The commands that send: all are given while the debuggee is paused.
VMDebug_TraceInReal(t, single, go) ==
  /\ running = {}
  /\ SendPacketByCurrentThread(t, gScriptState # "main_ret_global", single, go)
VMDebug_DirectStepOver(t, single, go) ==
  /\ running = {}
  /\ SendPacketByCurrentThread(t, FALSE, single, go)
runScript(t, go) ==
  /\ running = {}
  /\ SendPacketByCurrentThread(t, TRUE, FALSE, go)

(* ODBG2_Pluginmainloop, exception at outer.  The thread or its TIB may be *)
(* unreadable, and then the stack is forgotten without being freed.        *)
ReleaseStack_NotFreed ==
  /\ gScriptState' \in ScriptStates
  /\ UNCHANGED heap
ReleaseStack ==
  \/ /\ gScriptState' \in ScriptStates
     /\ heap' = [a \in DOMAIN heap \ {glpNoticeStack} |-> heap[a]]
  \/ /\ MayFail
     /\ UNCHANGED <<gScriptState, heap>>

\* Lines 2488-2489.
AcknowledgePacket_PendingKept ==
  glpNoticeStack' = NoStack /\ UNCHANGED gPacketPending
AcknowledgePacket_StackKept ==
  gPacketPending' = FALSE /\ UNCHANGED glpNoticeStack
AcknowledgePacket ==
  glpNoticeStack' = NoStack /\ gPacketPending' = FALSE

OuterException ==
  IF glpNoticeStack # NoStack /\ bFreeStkEach
    THEN ReleaseStack /\ AcknowledgePacket
    ELSE UNCHANGED <<glpNoticeStack, gPacketPending, gScriptState, heap>>

OuterBreak(t) ==
  /\ t \in running /\ loc[t] = "outer" /\ outerBp
  /\ OuterException
  /\ outerBp' = FALSE
  /\ loc' = [loc EXCEPT ![t] = "app"]
  /\ UNCHANGED <<glpCheckPacketEntry, glpCheckPacketOuter, options,
                 frame, esp, running>>

(* ODBG2_Pluginreset: the process is gone and a new one starts. *)
ODBG2_Pluginreset ==
  /\ MayRestart
  /\ glpNoticeStack' = NoStack
  /\ glpCheckPacketOuter' = FALSE
  /\ gScriptState' = "none"
  /\ glpCheckPacketEntry' = FALSE
  /\ heap' = NoHeap
  /\ frame' = [a \in Addrs |-> NoFrame]
  /\ outerBp' = FALSE
  /\ loc' = [t \in Threads |-> "app"]
  /\ esp' = [t \in Threads |-> NoStack]
  /\ running' = {}
  /\ UNCHANGED <<gPacketPending, options>>

(* saveOptions: the dialog can be used at any moment. *)
saveOptions ==
  /\ bFreeStkEach' \in FreeChoices
  /\ scp_stackSize' \in StackSizes
  /\ options' # options
  /\ UNCHANGED <<plugin, target>>

-----------------------------------------------------------------------------
(* External: the runtime, the threads, the person at the debugger.         *)

\* The runtime has done the packet, read the frame and left the stack.
RuntimeReturns(t) ==
  /\ t \in running /\ loc[t] = "entry"
  /\ loc' = [loc EXCEPT ![t] = "outer"]
  /\ esp' = [esp EXCEPT ![t] = NoStack]
  /\ UNCHANGED <<plugin, options, heap, frame, outerBp, running>>

\* No breakpoint at outer: the thread passes it unseen.
OuterPassed(t) ==
  /\ t \in running /\ loc[t] = "outer" /\ ~outerBp
  /\ loc' = [loc EXCEPT ![t] = "app"]
  /\ UNCHANGED <<plugin, options, heap, frame, outerBp, esp, running>>

Run ==
  /\ running = {}
  /\ \E S \in {Threads} \cup {{t} : t \in Threads} : running' = S
  /\ UNCHANGED <<plugin, options, heap, frame, outerBp, loc, esp>>

Pause ==
  /\ running # {}
  /\ running' = {}
  /\ UNCHANGED <<plugin, options, heap, frame, outerBp, loc, esp>>

Next ==
  \/ NoticeInit
  \/ ODBG2_Pluginreset
  \/ saveOptions
  \/ Run
  \/ Pause
  \/ \E t \in Threads :
       \/ OuterBreak(t)
       \/ RuntimeReturns(t)
       \/ OuterPassed(t)
       \/ \E go, single \in BOOLEAN : VMDebug_TraceInReal(t, single, go)
       \/ \E go, single \in BOOLEAN : VMDebug_DirectStepOver(t, single, go)
       \/ \E go \in BOOLEAN : runScript(t, go)

Spec == Init /\ [][Next]_vars

\* A runnable thread is scheduled, however often the debugger stops it.
Fairness == \A t \in Threads :
  SF_vars(RuntimeReturns(t)) /\ SF_vars(OuterBreak(t) \/ OuterPassed(t))
FairSpec == Spec /\ Fairness

-----------------------------------------------------------------------------
TypeOK ==
  /\ glpCheckPacketEntry \in BOOLEAN
  /\ glpCheckPacketOuter \in BOOLEAN
  /\ glpNoticeStack \in Addrs \cup {NoStack}
  /\ gPacketPending \in BOOLEAN
  /\ gScriptState \in ScriptStates
  /\ bFreeStkEach \in FreeChoices
  /\ scp_stackSize \in StackSizes
  /\ DOMAIN heap \subseteq Addrs
  /\ heap \in [DOMAIN heap -> AllocPages]
  /\ frame \in [Addrs -> Frames]
  /\ outerBp \in BOOLEAN
  /\ loc \in [Threads -> Locs]
  /\ esp \in [Threads -> Addrs \cup {NoStack}]
  /\ running \subseteq Threads

\* The stack the plugin would write the next packet to is committed memory of
\* the present process: neither freed at outer nor left over from a process
\* that was restarted (lines 248, 2481-2488, 2643).
NoticeStackLive == glpNoticeStack # NoStack => glpNoticeStack \in DOMAIN heap

\* A thread that executes the runtime's packet handler runs on committed
\* memory whose return frame is its own and leads back to the program: no
\* second packet was written over it and it was not freed (lines 245, 277-287,
\* 2471-2489).  Needs bFreeStkEach set throughout and a known outer.
FrameIntact ==
  \A t \in Threads : loc[t] = "entry" =>
    /\ esp[t] \in DOMAIN heap
    /\ frame[esp[t]] = [thread |-> t, back |-> "app"]

\* gPacketPending is exactly "one thread has not come back through outer".
\* Needs in addition that no write fails and no restart intervenes.
InFlight == {t \in Threads : loc[t] # "app"}
PendingIsInFlight == gPacketPending <=> InFlight # {}

\* Once gPacketPending is set while no thread is on its way to outer, nothing
\* clears it again, not even a restart of the debuggee: every later packet is
\* refused (-4).  Both ways into this state, a failed write (lines 259-270) and
\* a restart (line 2641), keep the flag.
Wedged == gPacketPending /\ InFlight = {}
WedgedForever == [][Wedged => Wedged']_vars

\* Every stack that was committed is still known to the plugin, so that it can
\* free it (comment at line 276: the breakpoint is set to have an opportunity
\* to release the stack).
NoStackLeaked == DOMAIN heap \subseteq {glpNoticeStack}

\* If the debuggee is allowed to run again and again, a packet that was handed
\* over is acknowledged at outer and the channel becomes free.
ChannelFreed ==
  []<>(running = Threads) => (gPacketPending ~> ~gPacketPending)
=============================================================================
