------------------------- MODULE PacketChannelProofs -------------------------
(***************************************************************************)
(* Proofs about PacketChannel, for every set of threads and addresses,     *)
(* every choice of options and every packet size.                          *)
(***************************************************************************)
EXTENDS PacketChannel, TLAPS

(***************************************************************************)
(* Typing.  TypeOK alone is not inductive: a packet reuses glpNoticeStack, *)
(* and the size of a stack that is not committed is anything at all.       *)
(***************************************************************************)
TypeInv == TypeOK /\ NoticeStackLive

LEMMA TypeInvInit == Init => TypeInv
  BY ChannelAssumption DEF Init, TypeInv, TypeOK, NoticeStackLive, NoHeap,
     NoFrame, Frames, Locs, ScriptStates

\* Sending a packet, whether it is written or not.
LEMMA TypeInvSend ==
  ASSUME TypeInv, NEW t \in Threads, NEW script \in BOOLEAN,
         NEW single \in BOOLEAN, NEW go \in BOOLEAN,
         SendPacketByCurrentThread(t, script, single, go)
  PROVE  TypeInv'
<1> USE ChannelAssumption
<1>1. PICK a \in StackFor :
        /\ glpNoticeStack' = a
        /\ heap' = HeapWith(a, script)
        /\ Written(t, a, script, single, go) \/ NotWritten(a, script)
  BY DEF SendPacketByCurrentThread
<1>2. a \in Addrs
  BY DEF StackFor, TypeInv, TypeOK
<1>3. DOMAIN heap' = DOMAIN heap \cup {a}
  BY <1>1 DEF HeapWith
<1>4. scp_stackSize + PacketPages(script) \in AllocPages
  BY DEF TypeInv, TypeOK, PacketPages, AllocPages
<1>5. heap' \in [DOMAIN heap' -> AllocPages]
  <2>1. ASSUME NEW b \in DOMAIN heap' PROVE heap'[b] \in AllocPages
    BY <1>1, <1>3, <1>4, <2>1
       DEF HeapWith, StackFor, TypeInv, TypeOK, NoticeStackLive
  <2> QED
    BY <1>1, <1>3, <2>1 DEF HeapWith
<1>6. /\ frame' \in [Addrs -> Frames]
      /\ loc' \in [Threads -> Locs]
      /\ esp' \in [Threads -> Addrs \cup {NoStack}]
      /\ outerBp' \in BOOLEAN
      /\ gPacketPending' \in BOOLEAN
      /\ running' \subseteq Threads
  <2>1. CASE Written(t, a, script, single, go)
    BY <1>2, <2>1 DEF Written, DelaySetPending, TypeInv, TypeOK, Frames, Locs
  <2>2. CASE NotWritten(a, script)
    BY <1>2, <2>2 DEF NotWritten, TypeInv, TypeOK, Frames
  <2> QED
    BY <1>1, <2>1, <2>2
<1>7. /\ UNCHANGED <<glpCheckPacketEntry, glpCheckPacketOuter, gScriptState>>
      /\ UNCHANGED <<bFreeStkEach, scp_stackSize>>
  BY DEF SendPacketByCurrentThread, options
<1> QED
  BY <1>1, <1>2, <1>3, <1>5, <1>6, <1>7 DEF TypeInv, TypeOK, NoticeStackLive

LEMMA TypeInvOuter ==
  ASSUME TypeInv, NEW t \in Threads, OuterBreak(t)
  PROVE  TypeInv'
<1> USE ChannelAssumption
<1>1. /\ gScriptState' \in ScriptStates
      /\ gPacketPending' \in BOOLEAN
      /\ glpNoticeStack' \in Addrs \cup {NoStack}
  BY DEF OuterBreak, OuterException, ReleaseStack, AcknowledgePacket,
     TypeInv, TypeOK
<1>2. DOMAIN heap' \subseteq Addrs /\ heap' \in [DOMAIN heap' -> AllocPages]
  BY DEF OuterBreak, OuterException, ReleaseStack, TypeInv, TypeOK
<1>3. NoticeStackLive'
  BY DEF OuterBreak, OuterException, AcknowledgePacket, TypeInv,
     NoticeStackLive
<1>4. loc' \in [Threads -> Locs] /\ outerBp' \in BOOLEAN
  BY DEF OuterBreak, TypeInv, TypeOK, Locs
<1> QED
  BY <1>1, <1>2, <1>3, <1>4 DEF OuterBreak, TypeInv, TypeOK, options

\* The three commands differ only in the packet they send.
LEMMA NextCases ==
  ASSUME [Next]_vars
  PROVE  \/ NoticeInit
         \/ ODBG2_Pluginreset
         \/ saveOptions
         \/ Run
         \/ Pause
         \/ \E t \in Threads :
              OuterBreak(t) \/ RuntimeReturns(t) \/ OuterPassed(t)
         \/ \E t \in Threads, script, single, go \in BOOLEAN :
              SendPacketByCurrentThread(t, script, single, go)
         \/ UNCHANGED vars
<1>1. ASSUME NEW t \in Threads, NEW single \in BOOLEAN, NEW go \in BOOLEAN,
             \/ VMDebug_TraceInReal(t, single, go)
             \/ VMDebug_DirectStepOver(t, single, go)
             \/ runScript(t, go)
      PROVE  \E script, s \in BOOLEAN :
               SendPacketByCurrentThread(t, script, s, go)
  <2>1. (gScriptState # "main_ret_global") \in BOOLEAN
    OBVIOUS
  <2> QED
    BY <1>1, <2>1 DEF VMDebug_TraceInReal, VMDebug_DirectStepOver, runScript
<1> QED
  BY <1>1 DEF Next

LEMMA TypeInvNext == TypeInv /\ [Next]_vars => TypeInv'
<1> SUFFICES ASSUME TypeInv, [Next]_vars PROVE TypeInv'
  OBVIOUS
<1> USE ChannelAssumption DEF TypeInv
<1>1. CASE NoticeInit
  BY <1>1 DEF NoticeInit, TypeOK, NoticeStackLive, options, target
<1>2. CASE ODBG2_Pluginreset
  BY <1>2 DEF ODBG2_Pluginreset, TypeOK, NoticeStackLive, options, NoHeap,
     Frames, NoFrame, Locs, ScriptStates
<1>3. CASE saveOptions
  BY <1>3 DEF saveOptions, TypeOK, NoticeStackLive, plugin, target
<1>4. CASE Run
  BY <1>4 DEF Run, TypeOK, NoticeStackLive, plugin, options
<1>5. CASE Pause
  BY <1>5 DEF Pause, TypeOK, NoticeStackLive, plugin, options
<1>6. ASSUME NEW t \in Threads, OuterBreak(t) PROVE TypeInv'
  BY <1>6, TypeInvOuter
<1>7. ASSUME NEW t \in Threads, RuntimeReturns(t) PROVE TypeInv'
  BY <1>7 DEF RuntimeReturns, TypeOK, NoticeStackLive, plugin, options, Locs
<1>8. ASSUME NEW t \in Threads, OuterPassed(t) PROVE TypeInv'
  BY <1>8 DEF OuterPassed, TypeOK, NoticeStackLive, plugin, options, Locs
<1>9. ASSUME NEW t \in Threads, NEW script \in BOOLEAN,
             NEW single \in BOOLEAN, NEW go \in BOOLEAN,
             SendPacketByCurrentThread(t, script, single, go)
      PROVE  TypeInv'
  BY <1>9, TypeInvSend
<1>10. CASE UNCHANGED vars
  BY <1>10 DEF vars, plugin, options, target, TypeOK, NoticeStackLive
<1> QED
  BY <1>1, <1>2, <1>3, <1>4, <1>5, <1>6, <1>7, <1>8, <1>9, <1>10, NextCases

LEMMA TypeInvAlways == Spec => []TypeInv
  BY TypeInvInit, TypeInvNext, PTL DEF Spec

\* The plugin's globals and the debuggee's memory keep their types through
\* every handler, whatever fails and however often the debuggee is restarted.
THEOREM TypeCorrect == Spec => []TypeOK
  BY TypeInvAlways, PTL DEF TypeInv

\* The stack the next packet would be written to is always committed memory of
\* the present process (lines 248, 2481-2488, 2643).
THEOREM StackLive == Spec => []NoticeStackLive
  BY TypeInvAlways, PTL DEF TypeInv

(***************************************************************************)
(* The wedge.                                                              *)
(***************************************************************************)

\* A set gPacketPending with no thread on its way to outer is permanent:
\* sends are refused, outer is never reached, a restart keeps the flag.
THEOREM WedgeIsPermanent == Spec => WedgedForever
<1>1. TypeInv /\ [Next]_vars => (Wedged => Wedged')
  <2> SUFFICES ASSUME TypeInv, [Next]_vars, Wedged PROVE Wedged'
    OBVIOUS
  <2> USE DEF Wedged, InFlight
  <2>1. CASE NoticeInit
    BY <2>1 DEF NoticeInit, target
  <2>2. CASE ODBG2_Pluginreset
    BY <2>2 DEF ODBG2_Pluginreset
  <2>3. CASE saveOptions
    BY <2>3 DEF saveOptions, plugin, target
  <2>4. CASE Run \/ Pause
    BY <2>4 DEF Run, Pause, plugin
  <2>5. ASSUME NEW t \in Threads,
               OuterBreak(t) \/ RuntimeReturns(t) \/ OuterPassed(t)
        PROVE  FALSE
    BY <2>5 DEF OuterBreak, RuntimeReturns, OuterPassed
  <2>6. ASSUME NEW t \in Threads, NEW script \in BOOLEAN,
               NEW single \in BOOLEAN, NEW go \in BOOLEAN,
               SendPacketByCurrentThread(t, script, single, go)
        PROVE  FALSE
    BY <2>6 DEF SendPacketByCurrentThread, MaySend
  <2>7. CASE UNCHANGED vars
    BY <2>7 DEF vars, plugin, target
  <2> QED
    BY <2>1, <2>2, <2>3, <2>4, <2>5, <2>6, <2>7, NextCases
<1> QED
  BY <1>1, TypeInvAlways, PTL DEF Spec, WedgedForever
(***************************************************************************)
(* Exclusive use of the stack.  FrameIntact is not inductive: that no      *)
(* other thread is under way when a packet is written follows from         *)
(* gPacketPending, and that outer does not free somebody else's stack from *)
(* there being one thread under way at most.                               *)
(***************************************************************************)
Exclusive ==
  /\ bFreeStkEach
  /\ glpCheckPacketEntry => glpCheckPacketOuter
  /\ InFlight # {} => gPacketPending
  /\ \A t, u \in InFlight : t = u
  /\ FrameIntact

AlwaysFree == FreeChoices = {TRUE} /\ RuntimeHasOuter

LEMMA ExclusiveInit == AlwaysFree /\ Init => Exclusive
  BY DEF AlwaysFree, Init, Exclusive, InFlight, FrameIntact

LEMMA ExclusiveSend ==
  ASSUME AlwaysFree, TypeInv, Exclusive,
         NEW t \in Threads, NEW script \in BOOLEAN,
         NEW single \in BOOLEAN, NEW go \in BOOLEAN,
         SendPacketByCurrentThread(t, script, single, go)
  PROVE  Exclusive'
<1> USE ChannelAssumption DEF AlwaysFree
<1>1. PICK a \in StackFor :
        /\ glpNoticeStack' = a
        /\ heap' = HeapWith(a, script)
        /\ Written(t, a, script, single, go) \/ NotWritten(a, script)
  BY DEF SendPacketByCurrentThread
<1>2. a \in Addrs /\ a \in DOMAIN heap'
  BY <1>1 DEF StackFor, TypeInv, TypeOK, HeapWith
<1>3. ~gPacketPending /\ glpCheckPacketEntry
  BY DEF SendPacketByCurrentThread, MaySend
<1>4. \A u \in Threads : loc[u] = "app"
  BY <1>3 DEF Exclusive, InFlight
<1>5. /\ UNCHANGED <<glpCheckPacketEntry, glpCheckPacketOuter>>
      /\ UNCHANGED <<bFreeStkEach, scp_stackSize>>
  BY DEF SendPacketByCurrentThread, options
<1>6. CASE Written(t, a, script, single, go)
  <2>1. gPacketPending'
    BY <1>3, <1>6 DEF Written, DelaySetPending, Exclusive
  <2>2. loc' = [loc EXCEPT ![t] = "entry"] /\ loc \in [Threads -> Locs]
    BY <1>6 DEF Written, TypeInv, TypeOK
  <2>3. \A u \in InFlight' : u = t
    BY <1>4, <2>2 DEF InFlight
  <2>4. FrameIntact'
    BY <1>2, <1>4, <1>6 DEF Written, FrameIntact, TypeInv, TypeOK
  <2> QED
    BY <1>5, <2>1, <2>3, <2>4 DEF Exclusive
<1>7. CASE NotWritten(a, script)
  BY <1>4, <1>5, <1>7 DEF NotWritten, Exclusive, InFlight, FrameIntact
<1> QED
  BY <1>1, <1>6, <1>7

LEMMA ExclusiveNext ==
  AlwaysFree /\ TypeInv /\ Exclusive /\ [Next]_vars => Exclusive'
<1> SUFFICES ASSUME AlwaysFree, TypeInv, Exclusive, [Next]_vars
             PROVE  Exclusive'
  OBVIOUS
<1> USE DEF AlwaysFree, TypeInv, TypeOK
<1>1. CASE NoticeInit
  BY <1>1 DEF NoticeInit, Exclusive, InFlight, FrameIntact, options, target
<1>2. CASE ODBG2_Pluginreset
  BY <1>2 DEF ODBG2_Pluginreset, Exclusive, InFlight, FrameIntact, options
<1>3. CASE saveOptions
  BY <1>3 DEF saveOptions, Exclusive, InFlight, FrameIntact, plugin, target
<1>4. CASE Run \/ Pause
  <2>1. UNCHANGED <<plugin, options, heap, frame, outerBp, loc, esp>>
    BY <1>4 DEF Run, Pause
  <2> QED
    BY <2>1 DEF Exclusive, InFlight, FrameIntact, plugin, options
<1>5. ASSUME NEW t \in Threads, OuterBreak(t) PROVE Exclusive'
  <2>1. InFlight = {t}
    BY <1>5 DEF OuterBreak, InFlight, Exclusive
  <2>2. InFlight' = {}
    BY <1>5, <2>1 DEF OuterBreak, InFlight
  <2> QED
    BY <1>5, <2>2
       DEF OuterBreak, Exclusive, InFlight, FrameIntact, options
<1>6. ASSUME NEW t \in Threads, RuntimeReturns(t) PROVE Exclusive'
  BY <1>6 DEF RuntimeReturns, Exclusive, InFlight, FrameIntact, plugin, options
<1>7. ASSUME NEW t \in Threads, OuterPassed(t) PROVE Exclusive'
  BY <1>7 DEF OuterPassed, Exclusive, InFlight, FrameIntact, plugin, options
<1>8. ASSUME NEW t \in Threads, NEW script \in BOOLEAN,
             NEW single \in BOOLEAN, NEW go \in BOOLEAN,
             SendPacketByCurrentThread(t, script, single, go)
      PROVE  Exclusive'
  BY <1>8, ExclusiveSend DEF TypeInv
<1>9. CASE UNCHANGED vars
  BY <1>9 DEF vars, plugin, options, target, Exclusive, InFlight, FrameIntact
<1> QED
  BY <1>1, <1>2, <1>3, <1>4, <1>5, <1>6, <1>7, <1>8, <1>9, NextCases

\* With the stack freed after every packet, no packet is ever written over and
\* no stack freed under a thread that still executes on it: whatever writes
\* fail, threads run or restarts happen (lines 245, 277-287, 2471-2489).
THEOREM StackIsExclusive ==
  ASSUME AlwaysFree PROVE Spec => []FrameIntact
<1>1. Init => Exclusive
  BY AlwaysFree, ExclusiveInit
<1>2. TypeInv /\ Exclusive /\ [Next]_vars => Exclusive'
  BY AlwaysFree, ExclusiveNext
<1>3. Exclusive => FrameIntact
  BY DEF Exclusive
<1> QED
  BY <1>1, <1>2, <1>3, TypeInvAlways, PTL DEF Spec

(***************************************************************************)
(* The flag is exact when nothing fails and nothing is restarted.          *)
(***************************************************************************)
Exact ==
  /\ Exclusive
  /\ gPacketPending <=> InFlight # {}
  /\ gPacketPending <=> glpNoticeStack # NoStack
  /\ InFlight # {} => outerBp

Reliable == AlwaysFree /\ ~MayFail /\ ~MayRestart

LEMMA ExactSend ==
  ASSUME Reliable, TypeInv, Exact, Exclusive',
         NEW t \in Threads, NEW script \in BOOLEAN,
         NEW single \in BOOLEAN, NEW go \in BOOLEAN,
         SendPacketByCurrentThread(t, script, single, go)
  PROVE  Exact'
<1> USE ChannelAssumption DEF Reliable, AlwaysFree
<1>1. PICK a \in StackFor :
        /\ glpNoticeStack' = a
        /\ Written(t, a, script, single, go) \/ NotWritten(a, script)
  BY DEF SendPacketByCurrentThread
<1>2. ~gPacketPending /\ glpNoticeStack = NoStack /\ glpCheckPacketEntry
  BY DEF SendPacketByCurrentThread, MaySend, Exact
<1>3. a # NoStack
  BY <1>2 DEF StackFor
<1>4. Fits(a, script)
  <2>1. scp_stackSize + PacketPages(script) \in Nat
    BY DEF PacketPages, TypeInv, TypeOK
  <2> QED
    BY <1>2, <2>1 DEF Fits, HeapWith
<1>5. Written(t, a, script, single, go)
  BY <1>1, <1>4 DEF NotWritten
<1>6. gPacketPending' /\ t \in InFlight' /\ outerBp'
  BY <1>2, <1>5
     DEF Written, DelaySetPending, Exact, Exclusive, InFlight, TypeInv, TypeOK
<1> QED
  BY <1>1, <1>3, <1>6 DEF Exact

LEMMA ExactNext ==
  Reliable /\ TypeInv /\ Exact /\ [Next]_vars => Exact'
<1> SUFFICES ASSUME Reliable, TypeInv, Exact, [Next]_vars PROVE Exact'
  OBVIOUS
<1> USE DEF Reliable, AlwaysFree, TypeInv, TypeOK, Exact
<1>0. Exclusive'
  BY ExclusiveNext
<1>1. CASE NoticeInit
  BY <1>0, <1>1 DEF NoticeInit, InFlight, options, target
<1>2. CASE ODBG2_Pluginreset
  BY <1>2 DEF ODBG2_Pluginreset
<1>3. CASE saveOptions
  BY <1>0, <1>3 DEF saveOptions, InFlight, plugin, target
<1>4. CASE Run \/ Pause
  <2>1. UNCHANGED <<plugin, options, heap, frame, outerBp, loc, esp>>
    BY <1>4 DEF Run, Pause
  <2> QED
    BY <1>0, <2>1 DEF InFlight, plugin
<1>5. ASSUME NEW t \in Threads, OuterBreak(t) PROVE Exact'
  <2>1. InFlight = {t}
    BY <1>5 DEF OuterBreak, InFlight, Exclusive
  <2>2. InFlight' = {}
    BY <1>5, <2>1 DEF OuterBreak, InFlight
  <2>3. ~gPacketPending' /\ glpNoticeStack' = NoStack
    BY <1>5, <2>1
       DEF OuterBreak, OuterException, AcknowledgePacket, Exclusive
  <2> QED
    BY <1>0, <2>2, <2>3
<1>6. ASSUME NEW t \in Threads, RuntimeReturns(t) PROVE Exact'
  BY <1>0, <1>6 DEF RuntimeReturns, InFlight, plugin, options
<1>7. ASSUME NEW t \in Threads, OuterPassed(t) PROVE FALSE
  BY <1>7 DEF OuterPassed, InFlight
<1>8. ASSUME NEW t \in Threads, NEW script \in BOOLEAN,
             NEW single \in BOOLEAN, NEW go \in BOOLEAN,
             SendPacketByCurrentThread(t, script, single, go)
      PROVE  Exact'
  BY <1>0, <1>8, ExactSend DEF TypeInv
<1>9. CASE UNCHANGED vars
  BY <1>0, <1>9 DEF vars, plugin, options, target, InFlight
<1> QED
  BY <1>1, <1>2, <1>3, <1>4, <1>5, <1>6, <1>7, <1>8, <1>9, NextCases

\* Without failures and restarts the flag says exactly whether a thread is on
\* its way through the runtime, so that no packet is refused for nothing.
THEOREM PendingIsExact ==
  ASSUME Reliable PROVE Spec => []PendingIsInFlight
<1>1. Init => Exact
  BY Reliable, ExclusiveInit DEF Reliable, Init, Exact, InFlight
<1>2. TypeInv /\ Exact /\ [Next]_vars => Exact'
  BY Reliable, ExactNext
<1>3. Exact => PendingIsInFlight
  BY DEF Exact, PendingIsInFlight
<1> QED
  BY <1>1, <1>2, <1>3, TypeInvAlways, PTL DEF Spec

(***************************************************************************)
(* Leaks.  Without a failed read at outer the invariant is inductive: a    *)
(* stack is committed only when none is known, and forgotten only when it  *)
(* is freed or when its process is gone.  Neither the option nor a known   *)
(* outer is needed: a stack that is not freed is not forgotten either.     *)
(***************************************************************************)
LEMMA LeakSend ==
  ASSUME TypeInv, NoStackLeaked,
         NEW t \in Threads, NEW script \in BOOLEAN,
         NEW single \in BOOLEAN, NEW go \in BOOLEAN,
         SendPacketByCurrentThread(t, script, single, go)
  PROVE  NoStackLeaked'
<1> USE ChannelAssumption
<1>1. PICK a \in StackFor :
        glpNoticeStack' = a /\ heap' = HeapWith(a, script)
  BY DEF SendPacketByCurrentThread
<1>2. DOMAIN heap \subseteq {a}
  <2>1. CASE glpNoticeStack # NoStack
    BY <1>1, <2>1 DEF StackFor, NoStackLeaked
  <2>2. CASE glpNoticeStack = NoStack
    BY <2>2 DEF NoStackLeaked, TypeInv, TypeOK
  <2> QED
    BY <2>1, <2>2
<1>3. DOMAIN heap' = DOMAIN heap \cup {a}
  BY <1>1 DEF HeapWith
<1> QED
  BY <1>1, <1>2, <1>3 DEF NoStackLeaked

LEMMA LeakNext ==
  ~MayFail /\ TypeInv /\ NoStackLeaked /\ [Next]_vars => NoStackLeaked'
<1> SUFFICES ASSUME ~MayFail, TypeInv, NoStackLeaked, [Next]_vars
             PROVE  NoStackLeaked'
  OBVIOUS
<1>1. CASE UNCHANGED <<glpNoticeStack, heap>>
  BY <1>1 DEF NoStackLeaked
<1>2. CASE ODBG2_Pluginreset
  BY <1>2 DEF ODBG2_Pluginreset, NoHeap, NoStackLeaked
<1>3. ASSUME NEW t \in Threads, OuterBreak(t) PROVE NoStackLeaked'
  <2>1. CASE glpNoticeStack # NoStack /\ bFreeStkEach
    <3>1. heap' = [a \in DOMAIN heap \ {glpNoticeStack} |-> heap[a]]
      BY <1>3, <2>1 DEF OuterBreak, OuterException, ReleaseStack
    <3> QED
      BY <3>1 DEF NoStackLeaked
  <2>2. CASE ~(glpNoticeStack # NoStack /\ bFreeStkEach)
    BY <1>1, <1>3, <2>2 DEF OuterBreak, OuterException
  <2> QED
    BY <2>1, <2>2
<1>4. ASSUME NEW t \in Threads, NEW script \in BOOLEAN,
             NEW single \in BOOLEAN, NEW go \in BOOLEAN,
             SendPacketByCurrentThread(t, script, single, go)
      PROVE  NoStackLeaked'
  BY <1>4, LeakSend
<1>5. ASSUME NEW t \in Threads, RuntimeReturns(t) \/ OuterPassed(t)
      PROVE  NoStackLeaked'
  BY <1>1, <1>5 DEF RuntimeReturns, OuterPassed, plugin
<1>6. CASE NoticeInit \/ saveOptions \/ Run \/ Pause \/ UNCHANGED vars
  BY <1>1, <1>6
     DEF NoticeInit, saveOptions, Run, Pause, vars, plugin, target
<1> QED
  BY <1>2, <1>3, <1>4, <1>5, <1>6, NextCases

\* As long as the debuggee can be read and written, every stack that was
\* committed in the debuggee is known to the plugin: there is one at most, it
\* is the one the next packet is written to, and it is freed before it is
\* forgotten.  A packet that does not fit the stack it finds, restarts and changes
\* of the options do no harm (lines 245-248, 2471-2489, 2643).
THEOREM NothingLeaks ==
  ASSUME ~MayFail PROVE Spec => []NoStackLeaked
<1>1. Init => NoStackLeaked
  BY DEF Init, NoHeap, NoStackLeaked
<1>2. TypeInv /\ NoStackLeaked /\ [Next]_vars => NoStackLeaked'
  BY ~MayFail, LeakNext
<1> QED
  BY <1>1, <1>2, TypeInvAlways, PTL DEF Spec
=============================================================================
