---------------------------- MODULE NoticesProofs ----------------------------
(***************************************************************************)
(* What OllyDbg is told comes in the order it was written, once, and from   *)
(* an earlier program at most once; for any number of threads, modules,     *)
(* packets and restarts.  The invariant orders the numbers of the packets:  *)
(* told < gLastPK < pipe.                                                   *)
(***************************************************************************)
EXTENDS Notices, TLAPS

Types == /\ pipe \in Seq(Packet)
         /\ gLastPK \in Packet \cup {Empty}
         /\ gvmodList \in Seq(Modules)
         /\ told \in Seq([n : Packet, in : Nat])
         /\ session \in Nat
         /\ sent \in Nat
\* The pipe holds packets of this session, in order.
PipeInv == /\ \A i \in 1..Len(pipe) : pipe[i].of = session /\ pipe[i].id =< sent
           /\ \A i, j \in 1..Len(pipe) : i < j => pipe[i].id < pipe[j].id
\* gLastPK holds a notice older than those; one of an earlier session only while
\* nothing has been told in this one.
SlotInv == gLastPK # Empty =>
             /\ gLastPK.what \in {"load", "pause"}
             /\ gLastPK.id =< sent
             /\ \A i \in 1..Len(pipe) : gLastPK.id < pipe[i].id
             /\ gLastPK.of # session => \A i \in 1..Len(told) : told[i].in # session
ToldInv == \A i \in 1..Len(told) :
             /\ told[i].in =< session
             /\ told[i].n.id =< sent
             /\ \A j \in 1..Len(pipe) : told[i].n.id < pipe[j].id
             /\ gLastPK # Empty => told[i].n.id < gLastPK.id
Inv == Types /\ PipeInv /\ SlotInv /\ ToldInv
         /\ StaleAtMostOnce /\ EventsInOrder /\ AnnouncedOnce
Rest == <<pipe, gLastPK, gvmodList, told, session, sent>>

LEMMA ElementsOfAppend ==
  ASSUME NEW S, NEW s \in Seq(S), NEW e \in S
  PROVE  Elements(Append(s, e)) = Elements(s) \cup {e}
<1>1. /\ Len(Append(s, e)) = Len(s) + 1
      /\ \A i \in 1..Len(s) : Append(s, e)[i] = s[i]
      /\ Append(s, e)[Len(s) + 1] = e
  OBVIOUS
<1>2. 1..Len(s) + 1 = 1..Len(s) \cup {Len(s) + 1}
  OBVIOUS
<1> QED
  BY <1>1, <1>2 DEF Elements

LEMMA ElementInSet ==
  ASSUME NEW S, NEW s \in Seq(S), NEW i \in 1..Len(s)
  PROVE  s[i] \in S
OBVIOUS

LEMMA AppendInSet ==
  ASSUME NEW S, NEW s \in Seq(S), NEW e \in S
  PROVE  Append(s, e) \in Seq(S)
OBVIOUS

\* The fields of packets, wherever the packets lie.
LEMMA Fields ==
  ASSUME Types
  PROVE  /\ \A p \in Packet : p.id \in Nat /\ p.of \in Nat
                              /\ (p.what = "load" => p.mod \in Modules)
         /\ Len(pipe) \in Nat /\ Len(told) \in Nat
         /\ \A i \in 1..Len(pipe) : pipe[i] \in Packet
         /\ \A i \in 1..Len(told) : told[i].n \in Packet /\ told[i].in \in Nat
         /\ gLastPK # Empty => gLastPK \in Packet
<1>1. \A p \in Packet : p.id \in Nat /\ p.of \in Nat
                         /\ (p.what = "load" => p.mod \in Modules)
  BY NoticesAssumption DEF Packet, AllCalls, BreakCalls, SetCalls
<1>2. \A i \in 1..Len(told) : told[i] \in [n : Packet, in : Nat]
  BY ElementInSet DEF Types
<1> QED
  BY <1>1, <1>2 DEF Types

LEMMA InvInit == Init => Inv
BY DEF Init, Inv, Types, PipeInv, SlotInv, ToldInv, StaleAtMostOnce, EventsInOrder,
       AnnouncedOnce, Announced, Elements

\* A packet is written: its number is above all others.
LEMMA InvWrite ==
  ASSUME Inv, NEW what, NEW mod, Write(what, mod),
         \/ what = "load" /\ mod \in Modules
         \/ what \in {"pause"} \cup Calls /\ mod = None,
         UNCHANGED <<gLastPK, gvmodList, told, session>>
  PROVE  Inv'
<1> DEFINE p == [what |-> what, mod |-> mod, id |-> sent + 1, of |-> session]
<1>1. /\ p \in Packet
      /\ p.id = sent + 1
      /\ p.of = session
      /\ pipe' = Append(pipe, p)
      /\ sent' = sent + 1
  BY DEF Write, Inv, Types, Packet
<1> HIDE DEF p
<1>2. /\ Len(pipe') = Len(pipe) + 1
      /\ \A i \in 1..Len(pipe) : pipe'[i] = pipe[i]
      /\ pipe'[Len(pipe) + 1] = p
      /\ Len(pipe) \in Nat
  BY <1>1 DEF Inv, Types
<1>3. Types'
  BY <1>1 DEF Inv, Types
<1>4. \A i \in 1..Len(pipe) : pipe[i].id \in Nat
  BY Fields DEF Inv
<1>5. \A i \in 1..Len(pipe') : \/ i \in 1..Len(pipe) /\ pipe'[i] = pipe[i]
                               \/ i = Len(pipe) + 1 /\ pipe'[i] = p
  BY <1>2
<1>6. sent \in Nat /\ p.id \in Nat /\ sent < p.id
  BY <1>1 DEF Inv, Types
<1>7. PipeInv'
  <2>1. \A i \in 1..Len(pipe') : pipe'[i].of = session /\ pipe'[i].id =< sent'
    <3>1. \A i \in 1..Len(pipe) : pipe[i].of = session /\ pipe[i].id =< sent + 1
      BY <1>4, <1>6 DEF Inv, PipeInv
    <3> QED
      BY <1>1, <1>5, <1>6, <3>1
  <2>2. \A i \in 1..Len(pipe) : pipe[i].id < p.id
    BY <1>4, <1>6 DEF Inv, PipeInv
  <2>3. \A i, j \in 1..Len(pipe') : i < j => i \in 1..Len(pipe) /\ pipe'[i] = pipe[i]
    BY <1>2
  <2> QED
    BY <1>5, <2>1, <2>2, <2>3 DEF Inv, PipeInv
<1>8. SlotInv'
  <2>1. gLastPK # Empty => gLastPK.id \in Nat
    BY Fields DEF Inv
  <2> QED
    BY <1>1, <1>5, <1>6, <2>1 DEF Inv, SlotInv
<1>9. ToldInv'
  <2>1. \A i \in 1..Len(told) : told[i].n.id \in Nat
    BY Fields DEF Inv
  <2>2. \A i \in 1..Len(told) : told[i].n.id < p.id /\ told[i].n.id =< sent'
    BY <1>1, <1>6, <2>1 DEF Inv, ToldInv
  <2> QED
    BY <1>5, <2>2 DEF Inv, ToldInv
<1> QED
  BY <1>3, <1>7, <1>8, <1>9
     DEF Inv, StaleAtMostOnce, EventsInOrder, AnnouncedOnce, Announced

\* A packet is read: the pipe loses its oldest, and gLastPK may become it.
LEMMA InvRead == ASSUME Inv, ProcessPacket PROVE Inv'
<1>1. /\ Len(pipe) \in Nat \ {0}
      /\ Len(pipe') = Len(pipe) - 1
      /\ \A i \in 1..Len(pipe') : i + 1 \in 1..Len(pipe) /\ pipe'[i] = pipe[i + 1]
      /\ Head(pipe) = pipe[1]
      /\ 1 \in 1..Len(pipe)
      /\ pipe' \in Seq(Packet)
      /\ pipe[1] \in Packet
  BY DEF ProcessPacket, Inv, Types
<1>2. /\ UNCHANGED <<told, gvmodList, session, sent>>
      /\ \/ gLastPK' = gLastPK
         \/ gLastPK' = pipe[1] /\ pipe[1].what \in {"load", "pause"}
  BY <1>1 DEF ProcessPacket
<1>3. Types'
  BY <1>1, <1>2 DEF Inv, Types
<1>4. PipeInv'
  <2>1. \A i, j \in 1..Len(pipe') : i < j => i + 1 < j + 1
    OBVIOUS
  <2> QED
    BY <1>1, <1>2, <2>1 DEF Inv, PipeInv
<1>5. SlotInv'
  BY <1>1, <1>2 DEF Inv, PipeInv, SlotInv
<1>6. ToldInv'
  BY <1>1, <1>2 DEF Inv, ToldInv
<1> QED
  BY <1>2, <1>3, <1>4, <1>5, <1>6
     DEF Inv, StaleAtMostOnce, EventsInOrder, AnnouncedOnce, Announced

\* An event is raised for gLastPK, which becomes empty.
LEMMA InvTell ==
  ASSUME Inv, gLastPK # Empty, gLastPK' = Empty, Disguise(gLastPK),
         UNCHANGED <<pipe, session, sent>>
  PROVE  Inv'
<1> DEFINE n == gLastPK
           e == [n |-> n, in |-> session]
<1>1. /\ n \in Packet
      /\ e \in [n : Packet, in : Nat]
      /\ n.id \in Nat
      /\ n.what \in {"load", "pause"}
      /\ n.what = "load" => n.mod \in Modules
  BY Fields DEF Inv, Types, SlotInv
<1>2. CASE UNCHANGED <<told, gvmodList>>
  BY <1>2 DEF Inv, Types, PipeInv, SlotInv, ToldInv, StaleAtMostOnce, EventsInOrder,
              AnnouncedOnce, Announced
<1>3. CASE /\ told' = Append(told, e)
           /\ \/ n.what = "load" /\ n.mod \notin Elements(gvmodList)
                                 /\ gvmodList' = Append(gvmodList, n.mod)
              \/ n.what = "pause" /\ UNCHANGED gvmodList
  <2>1. /\ Len(told) \in Nat
        /\ Len(told') = Len(told) + 1
        /\ \A i \in 1..Len(told) : told'[i] = told[i]
        /\ told'[Len(told) + 1] = e
        /\ e.n = n /\ e.in = session
    <3>1. told \in Seq([n : Packet, in : Nat]) /\ told' = Append(told, e)
      BY <1>3 DEF Inv, Types
    <3> HIDE DEF e
    <3> QED
      BY <3>1 DEF e
  <2> HIDE DEF e, n
  <2>2. Types'
    <3>1. told' \in Seq([n : Packet, in : Nat])
      BY <1>1, <1>3 DEF Inv, Types
    <3>2. gvmodList' \in Seq(Modules)
      <4>1. gvmodList \in Seq(Modules)
        BY DEF Inv, Types
      <4>2. n.what = "load" => Append(gvmodList, n.mod) \in Seq(Modules)
        BY <4>1, <1>1, AppendInSet
      <4> QED
        BY <4>1, <4>2, <1>3
    <3> QED
      BY <3>1, <3>2 DEF Inv, Types
  <2>3. PipeInv' /\ SlotInv'
    BY DEF Inv, PipeInv, SlotInv
  <2>4. ToldInv'
    <3>1. n = gLastPK
      BY DEF n
    <3>2. session \in Nat /\ sent \in Nat
      BY DEF Inv, Types
    <3>3. \A i \in 1..Len(told') : i \in 1..Len(told) \/ i = Len(told) + 1
      BY <2>1
    <3> QED
      BY <2>1, <1>1, <3>1, <3>2, <3>3 DEF Inv, SlotInv, ToldInv
  <2>5. StaleAtMostOnce'
    BY <2>1 DEF n, Inv, SlotInv, StaleAtMostOnce
  <2>6. EventsInOrder'
    <3>1. \A i \in 1..Len(told) : told[i].n.id < n.id
      BY DEF n, Inv, ToldInv
    <3>2. \A i, j \in 1..Len(told') : i < j => i \in 1..Len(told)
                                              /\ (j \in 1..Len(told) \/ j = Len(told) + 1)
      BY <2>1
    <3> QED
      BY <2>1, <3>1, <3>2 DEF Inv, EventsInOrder
  <2>7. AnnouncedOnce'
    <3>1. CASE n.what = "load"
      <4>1. Announced' = Announced \cup {Len(told) + 1}
        BY <2>1, <3>1 DEF Announced
      <4>2. Elements(gvmodList') = Elements(gvmodList) \cup {n.mod}
        <5>1. gvmodList' = Append(gvmodList, n.mod) /\ n.mod \in Modules
          BY <1>1, <1>3, <3>1
        <5>2. gvmodList \in Seq(Modules)
          BY DEF Inv, Types
        <5>3. Elements(Append(gvmodList, n.mod)) = Elements(gvmodList) \cup {n.mod}
          BY <5>1, <5>2, ElementsOfAppend
        <5> QED
          BY <5>1, <5>3
      <4>3. \A i \in Announced : i \in 1..Len(told) /\ told'[i] = told[i]
                                 /\ told[i].n.mod \in Elements(gvmodList)
        BY <2>1 DEF Announced, Inv, AnnouncedOnce
      <4>4. \A i \in Announced : told[i].n.mod # n.mod
        BY <4>3, <1>3, <3>1
      <4>5. \A i, j \in Announced' : told'[i].n.mod = told'[j].n.mod => i = j
        BY <4>1, <4>3, <4>4, <2>1 DEF Inv, AnnouncedOnce
      <4>6. {told'[i].n.mod : i \in Announced'} = Elements(gvmodList) \cup {n.mod}
        <5>1. Elements(gvmodList) = {told[i].n.mod : i \in Announced}
          BY DEF Inv, AnnouncedOnce
        <5>2. {told'[i].n.mod : i \in Announced'}
                = {told[i].n.mod : i \in Announced} \cup {n.mod}
          BY <4>1, <4>3, <2>1
        <5> QED
          BY <5>1, <5>2
      <4> QED
        BY <4>2, <4>5, <4>6 DEF AnnouncedOnce, Elements
    <3>2. CASE n.what = "pause"
      <4>1. Announced' = Announced
        BY <2>1, <3>2 DEF Announced
      <4>2. \A i \in Announced : told'[i] = told[i]
        BY <2>1 DEF Announced
      <4>3. gvmodList' = gvmodList
        BY <1>3, <3>2
      <4> QED
        <5>1. {told'[i].n.mod : i \in Announced'} = {told[i].n.mod : i \in Announced}
          BY <4>1, <4>2
        <5>2. AnnouncedOnce
          BY DEF Inv
        <5>3. \A i, j \in Announced' : told'[i].n.mod = told'[j].n.mod => i = j
          BY <4>1, <4>2, <5>2 DEF AnnouncedOnce
        <5>4. {told'[i].n.mod : i \in Announced'} = Elements(gvmodList)'
          <6>1. Elements(gvmodList)' = Elements(gvmodList)
            BY <4>3 DEF Elements
          <6> QED
            BY <5>1, <5>2, <6>1 DEF AnnouncedOnce
        <5> QED
          BY <5>3, <5>4 DEF AnnouncedOnce
    <3> QED
      BY <3>1, <3>2, <1>1
  <2> QED
    BY <2>2, <2>3, <2>4, <2>5, <2>6, <2>7 DEF Inv
<1> QED
  BY <1>2, <1>3 DEF Disguise, Tell

\* The program is started again: nothing has been told in the new session.
LEMMA InvReset == ASSUME Inv, Pluginreset PROVE Inv'
<1>1. /\ pipe' = <<>> /\ gvmodList' = <<>>
      /\ session' = session + 1
      /\ UNCHANGED <<gLastPK, told, sent>>
      /\ Len(pipe') = 0 /\ Len(gvmodList') = 0
  BY DEF Pluginreset
<1>2. session \in Nat /\ \A i \in 1..Len(told) : told[i].in \in Nat /\ told[i].in =< session
  BY Fields DEF Inv, Types, ToldInv
<1>3. \A i \in 1..Len(told) : told[i].in # session'
  BY <1>1, <1>2
<1>4. Types'
  BY <1>1 DEF Inv, Types
<1>5. PipeInv' /\ SlotInv' /\ ToldInv'
  BY <1>1, <1>2, <1>3 DEF Inv, PipeInv, SlotInv, ToldInv
<1>6. AnnouncedOnce'
  BY <1>1, <1>3 DEF AnnouncedOnce, Announced, Elements
<1>7. StaleAtMostOnce' /\ EventsInOrder'
  BY <1>1 DEF Inv, StaleAtMostOnce, EventsInOrder
<1> QED
  BY <1>4, <1>5, <1>6, <1>7 DEF Inv

LEMMA InvStutter == ASSUME Inv, UNCHANGED Rest PROVE Inv'
BY DEF Rest, Inv, Types, PipeInv, SlotInv, ToldInv, StaleAtMostOnce, EventsInOrder,
       AnnouncedOnce, Announced

LEMMA InvNext == Inv /\ [Next]_vars => Inv'
<1> SUFFICES ASSUME Inv, [Next]_vars PROVE Inv'
  OBVIOUS
<1>1. CASE \E t \in Threads : \/ \E m \in Modules : SendNotice(t, "load", m)
                              \/ SendNotice(t, "pause", None)
                              \/ \E call \in Calls : Ask(t, call)
  BY <1>1, InvWrite DEF SendNotice, Ask
<1>2. CASE \E t \in Threads : \/ RaiseEvent(t)
                              \/ \E len \in Lengths : OutputDebugString(t, len)
                              \/ Receive(t)
  BY <1>2, InvStutter DEF RaiseEvent, OutputDebugString, Receive, Rest
<1>3. CASE PeekMessage \/ EndLoop
  BY <1>3, InvStutter DEF PeekMessage, EndLoop, Rest
<1>4. CASE ProcessPacket
  BY <1>4, InvRead
<1>5. CASE Pluginmainloop
  BY <1>5, InvTell, InvStutter DEF Pluginmainloop, Rest
<1>6. CASE Pluginreset
  BY <1>6, InvReset
<1>7. CASE UNCHANGED vars
  BY <1>7, InvStutter DEF vars, Rest
<1> QED
  BY <1>1, <1>2, <1>3, <1>4, <1>5, <1>6, <1>7 DEF Next, ProcessPendingPacket

LEMMA Invariance == Spec => []Inv
<1> QED
  BY InvInit, InvNext, PTL DEF Spec

-----------------------------------------------------------------------------
(* The threads and their calls.                                            *)

\* There is one request or one answer on its way, and only while a thread waits.
Waiting == \E t \in Threads : at[t] \in Calls
CallInv == /\ at \in [Threads -> {"runs", "raises"} \cup Calls]
           /\ reply \in BOOLEAN
           /\ inLoop \in BOOLEAN
           /\ event = NoEvent \/ event \in [thread : Threads, len : Lengths]
           /\ event # NoEvent => at[event.thread] \notin Calls
           /\ reply => Waiting
           /\ \A i \in 1..Len(pipe) : pipe[i].what \in Calls => Waiting /\ ~reply
           /\ \A i, j \in 1..Len(pipe) :
                pipe[i].what \in Calls /\ pipe[j].what \in Calls => i = j

LEMMA NotACall == "runs" \notin Calls /\ "raises" \notin Calls /\ "load" \notin Calls
                  /\ "pause" \notin Calls
BY NoticesAssumption DEF AllCalls, BreakCalls, SetCalls

\* A notice is written, or a request that no one else has.
LEMMA CallWrite ==
  ASSUME Types, CallInv, NEW t \in Threads, NEW what, NEW mod, NEW next,
         Write(what, mod), event = NoEvent, at[t] = "runs",
         at' = [at EXCEPT ![t] = next],
         \/ what \in {"load", "pause"} /\ next = "raises"
         \/ what \in Calls /\ next = what /\ ~Waiting,
         UNCHANGED <<event, reply, inLoop>>
  PROVE  CallInv'
<1>1. /\ Len(pipe) \in Nat
      /\ Len(pipe') = Len(pipe) + 1
      /\ \A i \in 1..Len(pipe) : pipe'[i] = pipe[i]
      /\ pipe'[Len(pipe) + 1].what = what
  BY DEF Write, Types
<1>2. /\ at' \in [Threads -> {"runs", "raises"} \cup Calls]
      /\ at'[t] = next
      /\ \A u \in Threads : u # t => at'[u] = at[u]
  BY DEF CallInv
<1>3. Waiting => Waiting'
  BY <1>2, NotACall DEF Waiting
<1>4. CASE what \in {"load", "pause"}
  BY <1>1, <1>2, <1>3, <1>4, NotACall DEF CallInv
<1>5. CASE what \in Calls /\ next = what /\ ~Waiting
  <2>1. Waiting' /\ ~reply
    BY <1>2, <1>5 DEF Waiting, CallInv
  <2>2. \A i \in 1..Len(pipe) : pipe[i].what \notin Calls
    BY <1>5 DEF CallInv
  <2> QED
    BY <1>1, <1>2, <1>5, <2>1, <2>2 DEF CallInv
<1> QED
  BY <1>4, <1>5

LEMMA CallRead == ASSUME Types, CallInv, ProcessPacket PROVE CallInv'
<1>1. /\ Len(pipe) \in Nat \ {0}
      /\ Len(pipe') = Len(pipe) - 1
      /\ \A i \in 1..Len(pipe') : i + 1 \in 1..Len(pipe) /\ pipe'[i] = pipe[i + 1]
      /\ Head(pipe) = pipe[1] /\ 1 \in 1..Len(pipe)
      /\ pipe[1] \in Packet
  BY DEF ProcessPacket, Types
<1>2. Answered(pipe[1].what) => pipe[1].what \in Calls
  BY <1>1 DEF Answered, Packet, SetCalls
<1>3. reply' => reply \/ pipe[1].what \in Calls
  BY <1>1, <1>2 DEF ProcessPacket
<1>4. Waiting' <=> Waiting
  BY DEF ProcessPacket, Waiting
<1>5. /\ reply' \in BOOLEAN
      /\ UNCHANGED <<at, event, inLoop>>
  BY DEF ProcessPacket, CallInv
<1>6. \A i \in 1..Len(pipe') : pipe'[i].what \in Calls => pipe[1].what \notin Calls
  <2> SUFFICES ASSUME NEW i \in 1..Len(pipe'), pipe[i + 1].what \in Calls,
                      pipe[1].what \in Calls
               PROVE  FALSE
    BY <1>1
  <2>1. i + 1 = 1
    BY <1>1 DEF CallInv
  <2> QED
    BY <2>1
<1>7. \A i, j \in 1..Len(pipe') :
        pipe'[i].what \in Calls /\ pipe'[j].what \in Calls => i + 1 = j + 1
  BY <1>1 DEF CallInv
<1> QED
  BY <1>1, <1>3, <1>4, <1>5, <1>6, <1>7 DEF CallInv

LEMMA CallReceive == ASSUME Types, CallInv, NEW t \in Threads, Receive(t) PROVE CallInv'
<1>1. \A i \in 1..Len(pipe) : pipe[i].what \notin Calls
  BY DEF Receive, CallInv
<1>2. UNCHANGED <<pipe, event, inLoop>> /\ event = NoEvent /\ ~reply'
  BY DEF Receive
<1>3. at' \in [Threads -> {"runs", "raises"} \cup Calls]
  BY DEF Receive, CallInv
<1> QED
  BY <1>1, <1>2, <1>3 DEF CallInv, Receive

\* The event is answered: its thread did not wait for a call, and runs.
LEMMA CallMainloop == ASSUME CallInv, Pluginmainloop PROVE CallInv'
<1>1. /\ UNCHANGED <<pipe, reply, inLoop>>
      /\ event' = NoEvent
      /\ event.thread \in Threads /\ at[event.thread] \notin Calls
      /\ at' = [at EXCEPT ![event.thread] = "runs"]
  BY DEF Pluginmainloop, CallInv
<1>2. at' \in [Threads -> {"runs", "raises"} \cup Calls]
  BY <1>1 DEF CallInv
<1>3. Waiting' <=> Waiting
  BY <1>1, NotACall DEF Waiting, CallInv
<1> QED
  BY <1>1, <1>2, <1>3 DEF CallInv

LEMMA CallNext == Types /\ CallInv /\ [Next]_vars => CallInv'
<1> SUFFICES ASSUME Types, CallInv, [Next]_vars PROVE CallInv'
  OBVIOUS
<1>1. ASSUME NEW t \in Threads, \/ \E m \in Modules : SendNotice(t, "load", m)
                               \/ SendNotice(t, "pause", None)
      PROVE  CallInv'
  BY <1>1, CallWrite DEF SendNotice
<1>2. ASSUME NEW t \in Threads, NEW call \in Calls, Ask(t, call) PROVE CallInv'
  BY <1>2, CallWrite DEF Ask, Waiting
<1>3. ASSUME NEW t \in Threads, \/ RaiseEvent(t)
                               \/ \E len \in Lengths : OutputDebugString(t, len)
      PROVE  CallInv'
  <2>1. /\ UNCHANGED <<pipe, at, reply, inLoop>>
        /\ event' \in [thread : Threads, len : Lengths]
        /\ event'.thread = t
        /\ at[t] \in {"runs", "raises"}
    BY <1>3 DEF RaiseEvent, OutputDebugString, Lengths
  <2> QED
    BY <2>1, NotACall DEF CallInv, Waiting
<1>4. ASSUME NEW t \in Threads, Receive(t) PROVE CallInv'
  BY <1>4, CallReceive
<1>5. CASE PeekMessage \/ EndLoop
  <2>1. inLoop' \in BOOLEAN
    BY <1>5 DEF PeekMessage, EndLoop
  <2>2. UNCHANGED <<pipe, at, event, reply>>
    BY <1>5 DEF PeekMessage, EndLoop, debuggee
  <2> QED
    BY <2>1, <2>2 DEF CallInv, Waiting
<1>6. CASE ProcessPacket
  BY <1>6, CallRead
<1>7. CASE Pluginmainloop
  BY <1>7, CallMainloop
<1>8. CASE Pluginreset
  <2>1. reply' \in BOOLEAN /\ ~reply' /\ event' = NoEvent /\ UNCHANGED inLoop
    BY <1>8 DEF Pluginreset
  <2>2. pipe' = <<>> /\ at' = [t \in Threads |-> "runs"]
    BY <1>8 DEF Pluginreset
  <2>3. Len(pipe') = 0 /\ at' \in [Threads -> {"runs", "raises"} \cup Calls]
    BY <2>2
  <2> QED
    BY <2>1, <2>3 DEF CallInv
<1>9. CASE UNCHANGED vars
  BY <1>9 DEF vars, debuggee, CallInv, Waiting
<1> QED
  BY <1>1, <1>2, <1>3, <1>4, <1>5, <1>6, <1>7, <1>8, <1>9 DEF Next, ProcessPendingPacket

\* The variables keep their types, and an answer lies in the pipe only while the thread
\* that asked still waits for it.
THEOREM TypeCorrect == Spec => []TypeOK
<1>1. Init => CallInv
  <2> SUFFICES ASSUME Init PROVE CallInv
    OBVIOUS
  <2>1. reply \in BOOLEAN /\ ~reply /\ event = NoEvent /\ inLoop \in BOOLEAN
    BY DEF Init
  <2>2. Len(pipe) = 0 /\ at \in [Threads -> {"runs", "raises"} \cup Calls]
    BY DEF Init
  <2> QED
    BY <2>1, <2>2 DEF CallInv
<1>2. Inv => Types
  BY DEF Inv
<1>3. Inv /\ CallInv /\ [Next]_vars => CallInv'
  BY <1>2, CallNext
<1>4. Inv /\ CallInv => TypeOK
  BY DEF Inv, Types, CallInv, Waiting, TypeOK
<1> QED
  BY <1>1, <1>3, <1>4, Invariance, PTL DEF Spec

\* A program sees at most one event of the one before it, and sees it first: whatever
\* gLastPK keeps across ODBG2_Pluginreset is used up by the first notice told.
THEOREM StaleOnce == Spec => []StaleAtMostOnce
<1>1. Inv => StaleAtMostOnce
  BY DEF Inv
<1> QED
  BY <1>1, Invariance, PTL

\* No notice is told twice or after a later one, although gLastPK holds only one and
\* events come on another way than notices.
THEOREM ToldInOrder == Spec => []EventsInOrder
<1>1. Inv => EventsInOrder
  BY DEF Inv
<1> QED
  BY <1>1, Invariance, PTL

\* OllyDbg hears of a module once in a session, and gvmodList is what it has heard of.
THEOREM ModulesOnce == Spec => []AnnouncedOnce
<1>1. Inv => AnnouncedOnce
  BY DEF Inv
<1> QED
  BY <1>1, Invariance, PTL
=============================================================================
