-------------------------- MODULE PatternAsmProofs --------------------------
(***************************************************************************)
(* Proofs about the pattern engine: its list is the set of live patterns,  *)
(* its verdict follows from that, it implements PatternRun for each of its *)
(* patterns, and a match means what the script says (the part from A line  *)
(* asked twice on).                                                        *)
(***************************************************************************)
EXTENDS PatternAsm, TLAPS, WellFoundedInduction, FiniteSetTheorems

LessThan == OpToRel(<, Nat)

\* A nonempty set of numbers has a least element, and a greatest if it is bounded.
LEMMA LeastExists ==
  ASSUME NEW T \in SUBSET Nat, T # {}
  PROVE  \E q \in T : \A x \in T : q <= x
<1>1. PICK q \in T : \A x \in T : ~ (<<x, q>> \in LessThan)
  BY NatLessThanWellFounded, WFMin DEF LessThan
<1>2. ASSUME NEW x \in T PROVE q <= x
  <2>1. ~ (<<x, q>> \in LessThan)
    BY <1>1
  <2>2. x \in Nat /\ q \in Nat
    OBVIOUS
  <2>3. ~ (x < q)
    BY <2>1, <2>2 DEF LessThan, OpToRel
  <2> QED
    BY <2>2, <2>3
<1> QED
  BY <1>2

\* Induction over a set of numbers: the theorems of the library that take a predicate
\* cannot be cited, one about sets can.
LEMMA InductionBySet ==
  ASSUME NEW T \in SUBSET Nat, 0 \in T, \A n \in T : n + 1 \in T
  PROVE  T = Nat
<1> SUFFICES ASSUME Nat \ T # {} PROVE FALSE
  OBVIOUS
<1>1. PICK q \in Nat \ T : \A x \in Nat \ T : q <= x
  BY LeastExists
<1>2. q - 1 \in T
  BY <1>1
<1> QED
  BY <1>1, <1>2

LEMMA GreatestExists ==
  ASSUME NEW n \in Nat, NEW T \in SUBSET (0..n), T # {}
  PROVE  \E q \in T : \A x \in T : x <= q
<1> DEFINE Mirror == {n - x : x \in T}
<1>0. Mirror \in SUBSET Nat /\ Mirror # {}
  <2>1. \A x \in T : x \in 0..n /\ n - x \in Nat
    OBVIOUS
  <2>2. PICK x \in T : TRUE
    OBVIOUS
  <2>3. n - x \in Mirror
    OBVIOUS
  <2> QED
    BY <2>1, <2>3
<1>1. PICK m \in Mirror : \A y \in Mirror : m <= y
  <2> HIDE DEF Mirror
  <2> QED
    BY <1>0, LeastExists
<1>2. PICK q \in T : m = n - q
  BY <1>1
<1>3. \A x \in T : x <= q
  BY <1>1, <1>2
<1> QED
  BY <1>3

LEMMA PIdsAreNat ==
  /\ Len(Patterns) \in Nat
  /\ \A p \in PIds : p \in Nat /\ p > 0 /\ p <= Len(Patterns)
  BY EngineAssumption DEF PIds

\* The two choices initForTest links with.
LEMMA AboveIsNext ==
  ASSUME NEW S \in SUBSET PIds, NEW p \in Nat
  PROVE  IsNext(S, p, Above(S, p))
<1> DEFINE T == {q \in S : q > p}
<1>1. T \in SUBSET Nat /\ \A x \in S : x \in Nat /\ x > 0
  BY PIdsAreNat
<1>2. CASE T = {}
  BY <1>2 DEF Above, IsNext, Nil
<1>3. CASE T # {}
  <2>1. \E q \in T : \A x \in T : q <= x
    BY <1>1, <1>3, LeastExists
  <2>2. /\ Above(S, p) \in T
        /\ \A x \in T : Above(S, p) <= x
    BY <1>3, <2>1 DEF Above
  <2> QED
    BY <1>1, <2>2 DEF IsNext, Nil
<1> QED
  BY <1>2, <1>3

LEMMA BelowIsPrev ==
  ASSUME NEW S \in SUBSET PIds, NEW p \in PIds
  PROVE  IsPrev(S, p, Below(S, p))
<1> DEFINE T == {q \in S : q < p}
<1>1. /\ T \in SUBSET (0..Len(Patterns))
      /\ \A x \in S : x \in Nat /\ x > 0
      /\ p \in Nat
  BY PIdsAreNat
<1>2. CASE T = {}
  BY <1>2 DEF Below, IsPrev, Nil
<1>3. CASE T # {}
  <2>1. \E q \in T : \A x \in T : x <= q
    BY <1>1, <1>3, GreatestExists, PIdsAreNat
  <2>2. /\ Below(S, p) \in T
        /\ \A x \in T : x <= Below(S, p)
    BY <1>3, <2>1 DEF Below
  <2> QED
    BY <1>1, <2>2 DEF IsPrev, Nil
<1> QED
  BY <1>2, <1>3

-----------------------------------------------------------------------------
(***************************************************************************)
(* The list.  Besides the property itself the step needs that a call is    *)
(* under way only between an open verdict and its successor.               *)
(***************************************************************************)
CallOpen == seq # Nil => ret \in {"new", "0"}
ListInv  == TypeOK /\ ListIsAlive /\ VerdictIsRight /\ CallOpen

LEMMA ListInvInit == Init => ListInv
  BY DEF Init, ListInv, TypeOK, ListIsAlive, VerdictIsRight, CallOpen, IsNext,
     IsPrev, Nil

LEMMA ListInvSelect ==
  ASSUME ListInv, NEW breverse \in BOOLEAN, initForTest(breverse)
  PROVE  ListInv'
<1> DEFINE S == Selected(breverse)
<1>1. S \in SUBSET PIds
  BY DEF Selected
<1>2. \A p \in PIds : IsNext(S, p, Above(S, p)) /\ IsPrev(S, p, Below(S, p))
  BY <1>1, AboveIsNext, BelowIsPrev, PIdsAreNat
<1>3. IsNext(S, 0, Above(S, 0))
  BY <1>1, AboveIsNext
<1> HIDE DEF S
<1>4. /\ alive' = S
      /\ m_seqList' = Above(S, 0)
      /\ prev' = [p \in PIds |-> IF p \in S THEN Below(S, p) ELSE prev[p]]
      /\ next' = [p \in PIds |-> IF p \in S THEN Above(S, p) ELSE next[p]]
      /\ seq = Nil /\ seq' = seq /\ ret' = "new" /\ sr' = Nil
  BY DEF initForTest, S
<1>5. ListIsAlive'
  BY <1>1, <1>2, <1>3, <1>4 DEF ListIsAlive
<1>6. TypeOK'
  BY <1>1, <1>2, <1>3, <1>4 DEF ListInv, TypeOK, IsNext, IsPrev
<1> QED
  BY <1>4, <1>5, <1>6 DEF ListInv, VerdictIsRight, CallOpen

LEMMA ListInvCall ==
  ASSUME ListInv, NEW r, testInstruction(r)
  PROVE  ListInv'
  BY DEF testInstruction, list, ListInv, TypeOK, ListIsAlive, VerdictIsRight,
     CallOpen, IsNext

\* Taking p out of a linked set: the links that remain are those of the rest.
LEMMA UnlinkKeepsList ==
  ASSUME ListInv, NEW p \in alive, Unlink(p), alive' = alive \ {p}
  PROVE  /\ IsNext(alive', 0, m_seqList')
         /\ \A q \in alive' : IsNext(alive', q, next'[q]) /\ IsPrev(alive', q, prev'[q])
         /\ next[p] \in alive' \cup {Nil}
         /\ next' \in [PIds -> PIds \cup {Nil}]
         /\ prev' \in [PIds -> PIds \cup {Nil}]
         /\ m_seqList' \in PIds \cup {Nil}
<1>1. /\ IsNext(alive, 0, m_seqList)
      /\ \A q \in alive : IsNext(alive, q, next[q]) /\ IsPrev(alive, q, prev[q])
      /\ alive \subseteq PIds /\ p \in PIds
      /\ next \in [PIds -> PIds \cup {Nil}] /\ prev \in [PIds -> PIds \cup {Nil}]
      /\ m_seqList \in PIds \cup {Nil}
  BY DEF ListInv, TypeOK, ListIsAlive
<1>2. \A q \in alive : q \in Nat /\ q > 0
  BY <1>1, PIdsAreNat
<1>3. /\ next' = IF prev[p] # Nil THEN [next EXCEPT ![prev[p]] = next[p]] ELSE next
      /\ prev' = IF next[p] # Nil THEN [prev EXCEPT ![next[p]] = prev[p]] ELSE prev
      /\ m_seqList' = IF m_seqList = p THEN next[p] ELSE m_seqList
  BY DEF Unlink
<1>4. next[p] \in alive' \cup {Nil} /\ prev[p] \in alive' \cup {Nil}
  BY <1>1, <1>2 DEF IsNext, IsPrev
<1>5. IsNext(alive', 0, m_seqList')
  BY <1>1, <1>2, <1>3, <1>4 DEF IsNext, Nil
<1>6. ASSUME NEW q \in alive' PROVE IsNext(alive', q, next'[q])
  <2>1. CASE q = prev[p]
    <3>1. q \in alive /\ q # p /\ q \in PIds /\ q # Nil
      BY <1>1, <1>2 DEF Nil
    <3>2. next'[q] = next[p]
      BY <1>1, <1>3, <2>1, <3>1
    <3>3. IsNext(alive, p, next[p]) /\ IsPrev(alive, p, q)
      BY <1>1, <2>1
    <3>4. q < p
      BY <3>1, <3>3 DEF IsPrev
    <3>5. \A x \in alive' : x > q => x > p
      BY <1>1, <1>2, <3>1, <3>3 DEF IsPrev
    <3>6. next[p] # Nil => next[p] > q
      BY <1>1, <1>2, <3>1, <3>3, <3>4 DEF IsNext, Nil
    <3> QED
      BY <1>1, <1>4, <3>2, <3>3, <3>5, <3>6 DEF IsNext
  <2>2. CASE q # prev[p]
    <3>1. q \in alive /\ q # p /\ q \in PIds
      BY <1>1
    <3>2. next'[q] = next[q]
      BY <1>1, <1>3, <2>2
    <3>3. IsNext(alive, q, next[q]) /\ IsPrev(alive, p, prev[p])
      BY <1>1, <3>1
    <3>4. next[q] # p
      <4> SUFFICES ASSUME next[q] = p PROVE FALSE
        OBVIOUS
      <4>1. q < p
        BY <1>1, <1>2, <3>1, <3>3 DEF IsNext, Nil
      <4>2. prev[p] \in alive /\ q < prev[p] /\ prev[p] < p
        BY <1>1, <1>2, <2>2, <3>1, <3>3, <4>1 DEF IsPrev, Nil
      <4> QED
        BY <1>1, <1>2, <3>1, <3>3, <4>2 DEF IsNext, Nil
    <3> QED
      BY <3>2, <3>3, <3>4 DEF IsNext
  <2> QED
    BY <2>1, <2>2
<1>7. ASSUME NEW q \in alive' PROVE IsPrev(alive', q, prev'[q])
  <2>1. CASE q = next[p]
    <3>1. q \in alive /\ q # p /\ q \in PIds /\ q # Nil
      BY <1>1, <1>2 DEF Nil
    <3>2. prev'[q] = prev[p]
      BY <1>1, <1>3, <2>1, <3>1
    <3>3. IsPrev(alive, p, prev[p]) /\ IsNext(alive, p, q)
      BY <1>1, <2>1
    <3>4. q > p
      BY <3>1, <3>3 DEF IsNext
    <3>5. \A x \in alive' : x < q => x < p
      BY <1>1, <1>2, <3>1, <3>3 DEF IsNext
    <3>6. prev[p] # Nil => prev[p] < q
      BY <1>1, <1>2, <3>1, <3>3, <3>4 DEF IsPrev, Nil
    <3> QED
      BY <1>1, <1>4, <3>2, <3>3, <3>5, <3>6 DEF IsPrev
  <2>2. CASE q # next[p]
    <3>1. q \in alive /\ q # p /\ q \in PIds
      BY <1>1
    <3>2. prev'[q] = prev[q]
      BY <1>1, <1>3, <2>2
    <3>3. IsPrev(alive, q, prev[q]) /\ IsNext(alive, p, next[p])
      BY <1>1, <3>1
    <3>4. prev[q] # p
      <4> SUFFICES ASSUME prev[q] = p PROVE FALSE
        OBVIOUS
      <4>1. p < q
        BY <1>1, <1>2, <3>1, <3>3 DEF IsPrev, Nil
      <4>2. next[p] \in alive /\ next[p] < q /\ p < next[p]
        BY <1>1, <1>2, <2>2, <3>1, <3>3, <4>1 DEF IsNext, Nil
      <4> QED
        BY <1>1, <1>2, <3>1, <3>3, <4>2 DEF IsPrev, Nil
    <3> QED
      BY <3>2, <3>3, <3>4 DEF IsPrev
  <2> QED
    BY <2>1, <2>2
<1> QED
  BY <1>1, <1>3, <1>4, <1>5, <1>6, <1>7

LEMMA ListInvTest ==
  ASSUME ListInv, TestPattern
  PROVE  ListInv'
<1> DEFINE o == testForSequence(Patterns[seq], rt[seq], window[Len(window)])
<1>1. seq # Nil /\ seq \in alive /\ seq \in PIds /\ ret \in {"new", "0"}
  BY DEF TestPattern, Answered, ListInv, TypeOK, ListIsAlive, CallOpen
<1>2. CASE /\ alive' = alive \ {seq}
           /\ Unlink(seq) /\ StepPast(seq) /\ UNCHANGED sr
  <2>1. ListIsAlive' /\ TypeOK'
    BY <1>1, <1>2, UnlinkKeepsList DEF ListInv, TypeOK, ListIsAlive, StepPast
  <2>2. VerdictIsRight' /\ CallOpen'
    BY <1>1, <1>2, <2>1, UnlinkKeepsList, PIdsAreNat
       DEF ListIsAlive, IsNext, StepPast, VerdictIsRight, CallOpen, TypeOK
  <2> QED
    BY <2>1, <2>2 DEF ListInv
<1>3. CASE /\ sr' = seq /\ ret' = "1" /\ seq' = Nil
           /\ UNCHANGED <<list, alive>>
  BY <1>1, <1>3 DEF ListInv, TypeOK, ListIsAlive, VerdictIsRight, CallOpen, list,
     IsNext, IsPrev
<1>4. CASE StepPast(seq) /\ UNCHANGED <<list, sr, alive>>
  <2>1. ListIsAlive' /\ TypeOK'
    BY <1>1, <1>4 DEF ListInv, TypeOK, ListIsAlive, StepPast, list, IsNext, IsPrev
  <2>2. VerdictIsRight' /\ CallOpen'
    BY <1>1, <1>4, <2>1, PIdsAreNat
       DEF ListInv, ListIsAlive, IsNext, StepPast, VerdictIsRight, CallOpen, list, TypeOK
  <2> QED
    BY <2>1, <2>2 DEF ListInv
<1> QED
  BY <1>2, <1>3, <1>4 DEF TestPattern, Answered

LEMMA ListInvStep == ListInv /\ [Next]_vars => ListInv'
<1> SUFFICES ASSUME ListInv, [Next]_vars PROVE ListInv'
  OBVIOUS
<1>1. ASSUME NEW breverse \in BOOLEAN, initForTest(breverse) PROVE ListInv'
  BY <1>1, ListInvSelect
<1>2. ASSUME NEW r \in Records, testInstruction(r) PROVE ListInv'
  BY <1>2, ListInvCall
<1>3. CASE TestPattern
  BY <1>3, ListInvTest
<1>4. CASE UNCHANGED vars
  BY <1>4 DEF vars, list, ListInv, TypeOK, ListIsAlive, VerdictIsRight, CallOpen,
     IsNext, IsPrev
<1> QED
  BY <1>1, <1>2, <1>3, <1>4 DEF Next

\* In every reachable state of any number of patterns the doubly linked list
\* (initForTest, testInstruction) holds the patterns that are still to be tested,
\* the verdict agrees with it, and the types are kept.
THEOREM EngineListed == Spec => []ListInv
<1>1. Init => ListInv
  BY ListInvInit
<1>2. ListInv /\ [Next]_vars => ListInv'
  BY ListInvStep
<1> QED
  BY <1>1, <1>2, PTL DEF Spec

\* The list is the set of live patterns, in order and in both directions.
THEOREM ListCorrect == Spec => []ListIsAlive
<1>1. ListInv => ListIsAlive
  BY DEF ListInv
<1> QED
  BY <1>1, EngineListed, PTL

\* The caller is told to go on exactly while a pattern may still match.
THEOREM VerdictCorrect == Spec => []VerdictIsRight
<1>1. ListInv => VerdictIsRight
  BY DEF ListInv
<1> QED
  BY <1>1, EngineListed, PTL

\* Types.
THEOREM TypeCorrect == Spec => []TypeOK
<1>1. ListInv => TypeOK
  BY DEF ListInv
<1> QED
  BY <1>1, EngineListed, PTL

-----------------------------------------------------------------------------
(***************************************************************************)
(* Each pattern runs alone.  A step of the engine is a step of PatternRun  *)
(* for the pattern under the cursor and a stutter for every other one,     *)
(* because the cursor passes no live pattern.                              *)
(***************************************************************************)
FedRecords == {Fed(r, n) : r \in Records, n \in 1..MaxWindow}
WindowInv  == /\ window \in Seq(FedRecords)
              /\ seq # Nil => Len(window) > 0
              /\ DOMAIN rt = PIds
AloneInv   == ListInv /\ WindowInv

LEMMA AloneInvStep == AloneInv /\ [Next]_vars => AloneInv'
<1> SUFFICES ASSUME AloneInv, [Next]_vars PROVE WindowInv'
  BY ListInvStep DEF AloneInv
<1>1. ASSUME NEW breverse \in BOOLEAN, initForTest(breverse) PROVE WindowInv'
  BY <1>1 DEF initForTest, WindowInv
<1>2. ASSUME NEW r \in Records, testInstruction(r) PROVE WindowInv'
  <2>1. Len(window) \in Nat /\ Len(window) < MaxWindow /\ MaxWindow \in Nat
    BY <1>2, EngineAssumption DEF testInstruction, AloneInv, WindowInv
  <2>2. Fed(r, Len(window) + 1) \in FedRecords
    BY <2>1 DEF FedRecords
  <2> QED
    BY <1>2, <2>1, <2>2 DEF testInstruction, AloneInv, WindowInv
<1>3. CASE TestPattern
  <2>1. DOMAIN rt' = PIds /\ window' = window /\ seq # Nil
    BY <1>3 DEF TestPattern, Answered, AloneInv, WindowInv
  <2> QED
    BY <2>1 DEF AloneInv, WindowInv
<1>4. CASE UNCHANGED vars
  BY <1>4 DEF vars, AloneInv, WindowInv
<1> QED
  BY <1>1, <1>2, <1>3, <1>4 DEF Next

LEMMA AloneInit == ASSUME Init, NEW p \in PIds PROVE Alone(p)!Init
  BY DEF Init, Alone!Init, StatusOf, Waiting

LEMMA AloneSelect ==
  ASSUME AloneInv, NEW breverse \in BOOLEAN, initForTest(breverse), NEW p \in PIds
  PROVE  Alone(p)!Begin(p \in Selected(breverse))
  BY DEF initForTest, Alone!Begin, StatusOf, Waiting, Restarted

LEMMA AloneCall ==
  ASSUME AloneInv, NEW r \in Records, testInstruction(r), NEW p \in PIds
  PROVE  Alone(p)!Deliver(Fed(r, Len(window) + 1))
<1>1. Len(window') = Len(window) + 1 /\ Len(window) \in Nat
  BY DEF testInstruction, AloneInv, WindowInv
<1>2. ~Waiting(p)
  BY DEF Waiting, testInstruction
<1>3. Waiting(p)' <=> p \in alive
  <2>1. p \in alive => p >= m_seqList
    BY PIdsAreNat DEF AloneInv, ListInv, ListIsAlive, IsNext
  <2> QED
    BY <2>1 DEF Waiting, testInstruction
<1>4. StatusOf(p) = "testing" <=> p \in alive
  BY DEF StatusOf, testInstruction
<1> QED
  BY <1>1, <1>2, <1>3, <1>4 DEF testInstruction, Alone!Deliver, StatusOf

\* The pattern under the cursor is given the record, the others are left alone.
LEMMA TestTakes ==
  ASSUME AloneInv, TestPattern, NEW p, p = seq
  PROVE  LET o == testForSequence(Patterns[p], rt[p], window[Len(window)]) IN
         /\ StatusOf(p) = "testing" /\ Waiting(p) /\ ~Waiting(p)'
         /\ rt'[p] = IF o.state = "fail" THEN Cleaned(o.run) ELSE o.run
         /\ StatusOf(p)' = CASE o.state = "fail" -> "out"
                             [] o.state = "match" -> "matched"
                             [] OTHER -> "testing"
         /\ Len(window) \in Nat /\ Len(window) > 0 /\ window' = window
<1>1. /\ seq # Nil /\ seq \in alive /\ seq \in PIds /\ ret \in {"new", "0"}
      /\ IsNext(alive, seq, next[seq])
      /\ Len(window) \in Nat /\ Len(window) > 0 /\ window' = window
      /\ DOMAIN rt = PIds
      /\ \A q \in alive : q \in Nat /\ q > 0
  BY PIdsAreNat
     DEF TestPattern, Answered, AloneInv, WindowInv, ListInv, TypeOK, ListIsAlive, CallOpen
<1>2. StatusOf(p) = "testing" /\ Waiting(p)
  BY <1>1 DEF StatusOf, Waiting
<1>3. ~Waiting(p)'
  BY <1>1 DEF TestPattern, Answered, Waiting, StepPast, IsNext
<1> DEFINE o == testForSequence(Patterns[p], rt[p], window[Len(window)])
<1>4. /\ rt'[p] = IF o.state = "fail" THEN Cleaned(o.run) ELSE o.run
      /\ StatusOf(p)' = CASE o.state = "fail" -> "out"
                          [] o.state = "match" -> "matched"
                          [] OTHER -> "testing"
  BY <1>1 DEF TestPattern, Answered, StatusOf, StepPast
<1> QED
  BY <1>1, <1>2, <1>3, <1>4

LEMMA TestLeaves ==
  ASSUME AloneInv, TestPattern, NEW p \in PIds, p # seq
  PROVE  /\ rt'[p] = rt[p] /\ StatusOf(p)' = StatusOf(p) /\ Waiting(p)' = Waiting(p)
         /\ window' = window
<1>1. /\ seq # Nil /\ seq \in alive /\ seq \in PIds /\ ret \in {"new", "0"}
      /\ IsNext(alive, seq, next[seq]) /\ window' = window
      /\ DOMAIN rt = PIds
      /\ \A q \in alive : q \in Nat /\ q > 0
  BY PIdsAreNat
     DEF TestPattern, Answered, AloneInv, WindowInv, ListInv, TypeOK, ListIsAlive, CallOpen
<1>2. rt'[p] = rt[p] /\ StatusOf(p)' = StatusOf(p)
  BY <1>1 DEF TestPattern, Answered, StatusOf, StepPast
<1>3. Waiting(p)' = Waiting(p)
  BY <1>1, PIdsAreNat DEF TestPattern, Answered, Waiting, StepPast, IsNext
<1> QED
  BY <1>1, <1>2, <1>3

LEMMA AloneTest ==
  ASSUME AloneInv, TestPattern, NEW p \in PIds
  PROVE  [Alone(p)!Next]_(Alone(p)!vars)
<1>1. CASE p = seq
  BY <1>1, TestTakes DEF Alone!Take, Alone!Answer, Alone!Next
<1>2. CASE p # seq
  BY <1>2, TestLeaves DEF Alone!vars
<1> QED
  BY <1>1, <1>2

LEMMA AloneStep ==
  ASSUME AloneInv, [Next]_vars, NEW p \in PIds
  PROVE  [Alone(p)!Next]_(Alone(p)!vars)
<1>1. ASSUME NEW breverse \in BOOLEAN, initForTest(breverse) PROVE Alone(p)!Next
  <2> DEFINE chosen == p \in Selected(breverse)
  <2>1. Alone(p)!Begin(chosen)
    BY <1>1, AloneSelect
  <2>2. chosen \in BOOLEAN
    OBVIOUS
  <2> HIDE DEF chosen
  <2> QED
    BY <2>1, <2>2 DEF Alone!Next
<1>2. ASSUME NEW r \in Records, testInstruction(r) PROVE Alone(p)!Next
  <2>1. Fed(r, Len(window) + 1) \in FedRecords
    BY <1>2, EngineAssumption DEF testInstruction, AloneInv, WindowInv, FedRecords
  <2> QED
    BY <1>2, <2>1, AloneCall DEF Alone!Next, FedRecords
<1>3. CASE TestPattern
  BY <1>3, AloneTest
<1>4. CASE UNCHANGED vars
  BY <1>4 DEF vars, Alone!vars, StatusOf, Waiting
<1> QED
  BY <1>1, <1>2, <1>3, <1>4 DEF Next

\* The engine with its linked list, whatever the number of patterns and whatever
\* they say, implements PatternRun for each of them: it is given every record of
\* the scan, once and in order, until it fails, matches or another one matches.
THEOREM EngineRunsEachAlone == Spec => EachPatternAlone
<1>1. Init => AloneInv /\ \A p \in PIds : Alone(p)!Init
  BY ListInvInit, AloneInit DEF AloneInv, WindowInv, Init
<1>2. AloneInv /\ [Next]_vars => AloneInv'
  BY AloneInvStep
<1>3. AloneInv /\ [Next]_vars => [\A p \in PIds : [Alone(p)!Next]_(Alone(p)!vars)]_vars
  BY AloneStep
<1> QED
  BY <1>1, <1>2, <1>3, PTL DEF Spec, EachPatternAlone

-----------------------------------------------------------------------------
(***************************************************************************)
(* The form of a run, and the statements that are executed in passing.     *)
(***************************************************************************)
RunFields == {"inst", "count", "env", "matched", "userdata"}
Shaped(run, m) ==
  DOMAIN run = RunFields /\ DOMAIN run.matched = 1..m /\ DOMAIN run.userdata = 1..m

\* The function that ExecuteFrom chooses, up to statement m.
RanInit(s, e)    == [ok |-> TRUE, env |-> e, at |-> Len(s) + 1]
RanNext(s, x, n) ==
  LET v == Execute(x.env, s[n]) IN
  IF ~x.ok \/ x.at <= Len(s) THEN x
  ELSE IF s[n].type = "instruction" THEN [x EXCEPT !.at = n]
  ELSE [ok |-> v.ok, env |-> v.env, at |-> Len(s) + 1]
IsRan(s, e, j, m, f) ==
  f = [n \in (j-1)..m |-> IF n = j - 1 THEN RanInit(s, e) ELSE RanNext(s, f[n-1], n)]

LEMMA RanAt ==
  ASSUME NEW s, NEW e, NEW j, NEW m, NEW f, IsRan(s, e, j, m, f), NEW n \in (j-1)..m
  PROVE  f[n] = IF n = j - 1 THEN RanInit(s, e) ELSE RanNext(s, f[n-1], n)
<1> DEFINE E(i) == IF i = j - 1 THEN RanInit(s, e) ELSE RanNext(s, f[i-1], i)
<1>1. f = [i \in (j-1)..m |-> E(i)]
  BY DEF IsRan
<1>2. f[n] = E(n)
  <2> HIDE DEF E
  <2> QED
    BY <1>1
<1> QED
  BY <1>2

LEMMA RanExists ==
  ASSUME NEW s, NEW e, NEW j \in Nat, NEW m \in Nat PROVE \E f : IsRan(s, e, j, m, f)
<1> DEFINE T == {i \in Nat : \E f : IsRan(s, e, j, i, f)}
           Q(f, i) == IF i = j - 1 THEN RanInit(s, e) ELSE RanNext(s, f[i-1], i)
<1>1. ASSUME NEW i \in Nat, NEW f, IsRan(s, e, j, i, f) PROVE i + 1 \in T
  <2> DEFINE g == [n \in (j-1)..i+1 |-> IF n <= i THEN f[n] ELSE Q(f, n)]
  <2>1. ASSUME NEW n \in (j-1)..i+1 PROVE g[n] = Q(g, n)
    <3>1. n # j - 1 => n - 1 \in (j-1)..i+1 /\ n - 1 <= i
      OBVIOUS
    <3>2. n # j - 1 => g[n-1] = f[n-1]
      BY <3>1
    <3>3. n <= i => f[n] = Q(f, n)
      <4> SUFFICES ASSUME n <= i PROVE f[n] = Q(f, n)
        OBVIOUS
      <4>1. n \in (j-1)..i
        OBVIOUS
      <4> QED
        BY <1>1, <4>1, RanAt
    <3>4. g[n] = Q(f, n)
      <4> HIDE DEF Q
      <4> QED
        BY <3>3
    <3> HIDE DEF g
    <3> QED
      BY <3>2, <3>4
  <2>2. g = [n \in (j-1)..i+1 |-> Q(g, n)]
    <3> DEFINE h == [n \in (j-1)..i+1 |-> Q(g, n)]
    <3>1. \A n \in (j-1)..i+1 : g[n] = h[n]
      <4> HIDE DEF Q, g
      <4> QED
        BY <2>1
    <3>2. DOMAIN g = (j-1)..i+1 /\ DOMAIN h = (j-1)..i+1
      OBVIOUS
    <3>3. g = [n \in DOMAIN g |-> g[n]] /\ h = [n \in DOMAIN h |-> h[n]]
      OBVIOUS
    <3> HIDE DEF g, h
    <3>4. g = h
      BY <3>1, <3>2, <3>3
    <3> QED
      BY <3>4 DEF h
  <2>3. IsRan(s, e, j, i + 1, g)
    <3> HIDE DEF g
    <3> QED
      BY <2>2 DEF IsRan
  <2> HIDE DEF g
  <2> QED
    BY <2>3
<1>2. 0 \in T
  <2> DEFINE f == [n \in (j-1)..0 |-> IF n = j - 1 THEN RanInit(s, e)
                                      ELSE RanNext(s, RanInit(s, e), n)]
  <2>1. IsRan(s, e, j, 0, f)
    <3>1. ASSUME NEW n \in (j-1)..0, n # j - 1 PROVE f[n-1] = RanInit(s, e)
      <4>1. n - 1 = j - 1
        BY <3>1
      <4> QED
        BY <4>1
    <3> HIDE DEF f
    <3>2. [n \in (j-1)..0 |-> IF n = j - 1 THEN RanInit(s, e) ELSE RanNext(s, RanInit(s, e), n)]
          = [n \in (j-1)..0 |-> IF n = j - 1 THEN RanInit(s, e) ELSE RanNext(s, f[n-1], n)]
      BY <3>1
    <3> QED
      BY <3>2 DEF IsRan, f
  <2> HIDE DEF f
  <2> QED
    BY <2>1
<1>3. T = Nat
  <2>1. \A i \in T : i + 1 \in T
    BY <1>1
  <2> HIDE DEF T
  <2>2. T \in SUBSET Nat
    BY DEF T
  <2> QED
    BY <1>2, <2>1, <2>2, InductionBySet
<1> QED
  BY <1>3

-----------------------------------------------------------------------------
(***************************************************************************)
(* A line asked twice.  What has been bound stays bound to what it was, so *)
(* that a line that has matched matches the same record again, binding     *)
(* nothing, in every environment that knows what it then knew, but for     *)
(* names W the line does not look at.  A failure need not be repeated: a   *)
(* reference to an unbound variable fails, to a bound one it may not.      *)
(***************************************************************************)
Env(en) == DOMAIN en = {"vars", "opvars", "nvars"}
Knows(W, en, e) ==
  \A v \in DOMAIN en.vars \ W : v \in DOMAIN e.vars /\ e.vars[v] = en.vars[v]
\* What was bound is kept, and is not listed as new.
Grows(en, e) ==
  Env(e) /\ Knows({}, en, e) /\ e.nvars \cap DOMAIN en.vars \subseteq en.nvars

LEMMA KnowsTrans ==
  ASSUME NEW W, NEW a, NEW b, NEW c, Knows(W, a, b), Knows(W, b, c)
  PROVE  Knows(W, a, c)
BY DEF Knows

LEMMA GrowsRefl == ASSUME NEW en, Env(en) PROVE Grows(en, en)
BY DEF Grows, Knows

LEMMA GrowsTrans ==
  ASSUME NEW a, NEW b, NEW c, Grows(a, b), Grows(b, c) PROVE Grows(a, c)
BY DEF Grows, Knows

\* Who knows what a later environment knows, knows what an earlier one did.
LEMMA GrowsKnows ==
  ASSUME NEW W, NEW a, NEW b, NEW f, Grows(a, b), Knows(W, b, f) PROVE Knows(W, a, f)
BY DEF Grows, Knows

LEMMA BindGrows ==
  ASSUME NEW en, Env(en), NEW v, NEW x, v \notin DOMAIN en.vars
  PROVE  /\ Grows(en, Bind(en, v, x))
         /\ v \in DOMAIN Bind(en, v, x).vars
         /\ Bind(en, v, x).vars[v] = x
<1> DEFINE vs == [y \in DOMAIN en.vars \cup {v} |-> IF y = v THEN x ELSE en.vars[y]]
           e  == Bind(en, v, x)
<1>1. /\ Env(e) /\ e.vars = vs /\ e.nvars = en.nvars \cup {v}
  BY DEF Env, Bind
<1>2. /\ DOMAIN vs = DOMAIN en.vars \cup {v}
      /\ vs[v] = x
      /\ \A y \in DOMAIN en.vars : vs[y] = en.vars[y]
  OBVIOUS
<1> HIDE DEF vs, e
<1>3. Grows(en, e)
  BY <1>1, <1>2 DEF Grows, Knows
<1> QED
  BY <1>1, <1>2, <1>3 DEF e

\* Variable v is bound to what it was bound to before.
LEMMA KnownValue ==
  ASSUME NEW W, NEW en, NEW f, Knows(W, en, f), NEW v, v \notin W, Bound(en, v)
  PROVE  Bound(f, v) /\ f.vars[v] = en.vars[v]
BY DEF Knows, Bound

\* Verdict x, given in f, is what v was, and binds nothing.
Again(x, v, f) == (x.ok <=> v.ok) /\ x.env = f


LEMMA SizeAgain ==
  ASSUME NEW en, Env(en), NEW szvar, NEW size, NEW v, v = CheckSize(en, szvar, size)
  PROVE  /\ Grows(en, v.env)
         /\ \A W, f : szvar \notin W /\ Knows(W, v.env, f) =>
              Again(CheckSize(f, szvar, size), v, f)
<1> DEFINE x == [BlankOperand EXCEPT !.size = size]
<1>1. x.size = size
  BY DEF BlankOperand
<1> HIDE DEF x
<1>2. CASE szvar = None
  BY <1>2, GrowsRefl DEF CheckSize, Again, Verdict
<1>3. CASE szvar # None /\ Bound(en, szvar)
  <2> DEFINE agrees == en.vars[szvar].size = size
  <2>1. v = Verdict(agrees, en)
    BY <1>3, Zenon DEF CheckSize
  <2>2. v.env = en /\ (v.ok <=> agrees)
    <3> HIDE DEF agrees
    <3> QED
      BY <2>1 DEF Verdict
  <2>3. ASSUME NEW W, NEW f, szvar \notin W, Knows(W, v.env, f)
        PROVE  Again(CheckSize(f, szvar, size), v, f)
    <3>1. Bound(f, szvar) /\ f.vars[szvar] = en.vars[szvar]
      BY <1>3, <2>2, <2>3, KnownValue
    <3> QED
      BY <1>3, <2>2, <3>1 DEF CheckSize, Again, Verdict
  <2> QED
    BY <2>2, <2>3, GrowsRefl
<1>4. CASE szvar # None /\ ~Bound(en, szvar)
  <2>1. v = Verdict(TRUE, Bind(en, szvar, x))
    BY <1>4 DEF CheckSize, x
  <2>2. v.env = Bind(en, szvar, x) /\ v.ok
    BY <2>1 DEF Verdict
  <2>3. Grows(en, v.env) /\ Bound(v.env, szvar) /\ v.env.vars[szvar] = x
    BY <1>4, <2>2, BindGrows DEF Bound
  <2>4. ASSUME NEW W, NEW f, szvar \notin W, Knows(W, v.env, f)
        PROVE  Again(CheckSize(f, szvar, size), v, f)
    <3>1. Bound(f, szvar) /\ f.vars[szvar] = x
      BY <2>3, <2>4, KnownValue
    <3> QED
      BY <1>1, <1>4, <2>2, <3>1 DEF CheckSize, Again, Verdict
  <2> QED
    BY <2>3, <2>4
<1> QED
  BY <1>2, <1>3, <1>4

LEMMA MnemonicAgain ==
  ASSUME NEW en, Env(en), NEW var, NEW opcode, NEW v, v = CheckMnemonic(en, var, opcode)
  PROVE  /\ Grows(en, v.env)
         /\ \A W, f : var \notin W /\ Knows(W, v.env, f) =>
              Again(CheckMnemonic(f, var, opcode), v, f)
<1> DEFINE x == [BlankOperand EXCEPT !.opcode = opcode]
<1>1. x.opcode = opcode
  BY DEF BlankOperand
<1> HIDE DEF x
<1>2. CASE var = None
  BY <1>2, GrowsRefl DEF CheckMnemonic, Again, Verdict
<1>3. CASE var # None /\ Bound(en, var)
  <2> DEFINE agrees == en.vars[var].opcode = opcode
  <2>1. v = Verdict(agrees, en)
    BY <1>3, Zenon DEF CheckMnemonic
  <2>2. v.env = en /\ (v.ok <=> agrees)
    <3> HIDE DEF agrees
    <3> QED
      BY <2>1 DEF Verdict
  <2>3. ASSUME NEW W, NEW f, var \notin W, Knows(W, v.env, f)
        PROVE  Again(CheckMnemonic(f, var, opcode), v, f)
    <3>1. Bound(f, var) /\ f.vars[var] = en.vars[var]
      BY <1>3, <2>2, <2>3, KnownValue
    <3> QED
      BY <1>3, <2>2, <3>1 DEF CheckMnemonic, Again, Verdict
  <2> QED
    BY <2>2, <2>3, GrowsRefl
<1>4. CASE var # None /\ ~Bound(en, var)
  <2>1. v = Verdict(TRUE, Bind(en, var, x))
    BY <1>4 DEF CheckMnemonic, x
  <2>2. v.env = Bind(en, var, x) /\ v.ok
    BY <2>1 DEF Verdict
  <2>3. Grows(en, v.env) /\ Bound(v.env, var) /\ v.env.vars[var] = x
    BY <1>4, <2>2, BindGrows DEF Bound
  <2>4. ASSUME NEW W, NEW f, var \notin W, Knows(W, v.env, f)
        PROVE  Again(CheckMnemonic(f, var, opcode), v, f)
    <3>1. Bound(f, var) /\ f.vars[var] = x
      BY <2>3, <2>4, KnownValue
    <3> QED
      BY <1>1, <1>4, <2>2, <3>1 DEF CheckMnemonic, Again, Verdict
  <2> QED
    BY <2>3, <2>4
<1> QED
  BY <1>2, <1>3, <1>4

\* checkAndSaveVar binds the variable of the slot, unless it is bound or only referred to.
LEMMA SlotBinds ==
  ASSUME NEW en, Env(en), NEW pop, NEW v, NEW x,
         v.env = IF Bound(en, pop.var) \/ pop.ref # "plain" THEN en ELSE Bind(en, pop.var, x)
  PROVE  /\ Grows(en, v.env)
         /\ ~Bound(en, pop.var) /\ pop.ref = "plain" => v.env.vars[pop.var] = x
         /\ Bound(en, pop.var) \/ pop.ref = "plain" =>
              \A W, f : pop.var \notin W /\ Knows(W, v.env, f) =>
                Bound(f, pop.var) /\ f.vars[pop.var] = v.env.vars[pop.var]
<1>1. CASE Bound(en, pop.var) \/ pop.ref # "plain"
  <2>1. v.env = en
    BY <1>1
  <2> QED
    BY <1>1, <2>1, GrowsRefl, KnownValue
<1>2. CASE ~(Bound(en, pop.var) \/ pop.ref # "plain")
  <2>1. v.env = Bind(en, pop.var, x)
    BY <1>2
  <2>2. Grows(en, v.env) /\ Bound(v.env, pop.var) /\ v.env.vars[pop.var] = x
    BY <1>2, <2>1, BindGrows DEF Bound
  <2> QED
    BY <1>2, <2>2, KnownValue
<1> QED
  BY <1>1, <1>2

LEMMA RegAgain ==
  ASSUME NEW en, Env(en), NEW pop, NEW iop, NEW v, v = CheckReg(en, pop, iop)
  PROVE  /\ Grows(en, v.env)
         /\ \A W, f : pop.var \notin W /\ Knows(W, v.env, f) /\ (v.ok \/ pop.ref = "plain") =>
              Again(CheckReg(f, pop, iop), v, f)
<1> DEFINE x == [BlankOperand EXCEPT !.type = "reg", !.base = iop.index, !.size = iop.size]
           Says(op) == CASE pop.ref = "noref" -> ~SameRegister(op.base, iop.index)
                         [] pop.ref = "ref"   -> SameRegister(op.base, iop.index)
                         [] OTHER -> iop.index = op.base /\ iop.size = op.size
<1>1. \A f : Bound(f, pop.var) => CheckReg(f, pop, iop) = Verdict(Says(f.vars[pop.var]), f)
  BY Zenon DEF CheckReg
<1>2. pop.ref = "plain" => Says(x)
  BY DEF BlankOperand
<1>3. ~Bound(en, pop.var) => v = IF pop.ref # "plain" THEN Verdict(FALSE, en)
                                ELSE Verdict(TRUE, Bind(en, pop.var, x))
  BY DEF CheckReg
<1> HIDE DEF x, Says
<1>4. Bound(en, pop.var) => v.env = en /\ (v.ok <=> Says(en.vars[pop.var]))
  BY <1>1 DEF Verdict
<1>5. /\ ~Bound(en, pop.var) /\ pop.ref # "plain" => v.env = en /\ ~v.ok
      /\ ~Bound(en, pop.var) /\ pop.ref = "plain" =>
           v.env = Bind(en, pop.var, x) /\ v.ok
  BY <1>3 DEF Verdict
<1>6. v.env = IF Bound(en, pop.var) \/ pop.ref # "plain" THEN en ELSE Bind(en, pop.var, x)
  BY <1>4, <1>5
<1>7. ASSUME NEW W, NEW f, pop.var \notin W, Knows(W, v.env, f), v.ok \/ pop.ref = "plain"
      PROVE  Again(CheckReg(f, pop, iop), v, f)
  <2>1. Bound(en, pop.var) \/ pop.ref = "plain"
    BY <1>5, <1>7
  <2>2. Bound(f, pop.var) /\ f.vars[pop.var] = v.env.vars[pop.var]
    <3>1. \A W2, f2 : pop.var \notin W2 /\ Knows(W2, v.env, f2) =>
            Bound(f2, pop.var) /\ f2.vars[pop.var] = v.env.vars[pop.var]
      BY <1>6, <2>1, SlotBinds
    <3> QED
      BY <1>7, <3>1
  <2>3. (v.ok <=> Says(v.env.vars[pop.var]))
    <3>1. ~Bound(en, pop.var) /\ pop.ref = "plain" => v.env.vars[pop.var] = x
      BY <1>6, SlotBinds
    <3> QED
      BY <1>2, <1>4, <1>5, <2>1, <3>1
  <2> QED
    BY <1>1, <2>2, <2>3 DEF Again, Verdict
<1> QED
  BY <1>6, <1>7, SlotBinds

LEMMA ImmAgain ==
  ASSUME NEW en, Env(en), NEW pop, NEW ins, NEW iop, NEW v, v = CheckImm(en, pop, ins, iop)
  PROVE  /\ Grows(en, v.env)
         /\ \A W, f : pop.var \notin W /\ Knows(W, v.env, f) /\ (v.ok \/ pop.ref = "plain") =>
              Again(CheckImm(f, pop, ins, iop), v, f)
<1> DEFINE x == [BlankOperand EXCEPT !.type = "imm", !.imm = ins.imm, !.size = iop.size]
           Says(op) == CASE pop.ref = "ref"   -> FALSE
                         [] pop.ref = "noref" -> TRUE
                         [] OTHER -> op.imm = ins.imm /\ op.size = iop.size
<1>1. \A f : Bound(f, pop.var) => CheckImm(f, pop, ins, iop) = Verdict(Says(f.vars[pop.var]), f)
  BY Zenon DEF CheckImm
<1>2. pop.ref = "plain" => Says(x)
  BY DEF BlankOperand
<1>3. ~Bound(en, pop.var) => v = IF pop.ref # "plain" THEN Verdict(FALSE, en)
                                ELSE Verdict(TRUE, Bind(en, pop.var, x))
  BY DEF CheckImm
<1> HIDE DEF x, Says
<1>4. Bound(en, pop.var) => v.env = en /\ (v.ok <=> Says(en.vars[pop.var]))
  BY <1>1 DEF Verdict
<1>5. /\ ~Bound(en, pop.var) /\ pop.ref # "plain" => v.env = en /\ ~v.ok
      /\ ~Bound(en, pop.var) /\ pop.ref = "plain" =>
           v.env = Bind(en, pop.var, x) /\ v.ok
  BY <1>3 DEF Verdict
<1>6. v.env = IF Bound(en, pop.var) \/ pop.ref # "plain" THEN en ELSE Bind(en, pop.var, x)
  BY <1>4, <1>5
<1>7. ASSUME NEW W, NEW f, pop.var \notin W, Knows(W, v.env, f), v.ok \/ pop.ref = "plain"
      PROVE  Again(CheckImm(f, pop, ins, iop), v, f)
  <2>1. Bound(en, pop.var) \/ pop.ref = "plain"
    BY <1>5, <1>7
  <2>2. Bound(f, pop.var) /\ f.vars[pop.var] = v.env.vars[pop.var]
    BY <1>6, <1>7, <2>1, SlotBinds
  <2>3. (v.ok <=> Says(v.env.vars[pop.var]))
    <3>1. ~Bound(en, pop.var) /\ pop.ref = "plain" => v.env.vars[pop.var] = x
      BY <1>6, SlotBinds
    <3> QED
      BY <1>2, <1>4, <1>5, <2>1, <3>1
  <2> QED
    BY <1>1, <2>2, <2>3 DEF Again, Verdict
<1> QED
  BY <1>6, <1>7, SlotBinds

LEMMA MemAgain ==
  ASSUME NEW en, Env(en), NEW pop, pop.type # "memexpr", NEW ins, NEW iop,
         NEW v, v = CheckMem(en, pop, ins, iop)
  PROVE  /\ Grows(en, v.env)
         /\ \A W, f : pop.var \notin W /\ Knows(W, v.env, f) /\ (v.ok \/ pop.ref = "plain") =>
              Again(CheckMem(f, pop, ins, iop), v, f)
<1> DEFINE x == MemValue(ins, iop)
           Says(op) == CASE pop.ref = "noref" -> MemNotReferenced(op, ins, iop)
                         [] pop.ref = "ref"   -> MemReferenced(op, ins, iop)
                         [] OTHER -> MemSame(op, ins, iop)
<1>1. \A f : Bound(f, pop.var) => CheckMem(f, pop, ins, iop) = Verdict(Says(f.vars[pop.var]), f)
  BY Zenon DEF CheckMem
<1>3. ~Bound(en, pop.var) => v = IF pop.ref # "plain" THEN Verdict(FALSE, en)
                                ELSE Verdict(Says(x), Bind(en, pop.var, x))
  BY DEF CheckMem
<1> HIDE DEF x, Says
<1>4. Bound(en, pop.var) => v.env = en /\ (v.ok <=> Says(en.vars[pop.var]))
  BY <1>1 DEF Verdict
<1>5. /\ ~Bound(en, pop.var) /\ pop.ref # "plain" => v.env = en /\ ~v.ok
      /\ ~Bound(en, pop.var) /\ pop.ref = "plain" =>
           v.env = Bind(en, pop.var, x) /\ (v.ok <=> Says(x))
  BY <1>3 DEF Verdict
<1>6. v.env = IF Bound(en, pop.var) \/ pop.ref # "plain" THEN en ELSE Bind(en, pop.var, x)
  BY <1>4, <1>5
<1>7. ASSUME NEW W, NEW f, pop.var \notin W, Knows(W, v.env, f), v.ok \/ pop.ref = "plain"
      PROVE  Again(CheckMem(f, pop, ins, iop), v, f)
  <2>1. Bound(en, pop.var) \/ pop.ref = "plain"
    BY <1>5, <1>7
  <2>2. Bound(f, pop.var) /\ f.vars[pop.var] = v.env.vars[pop.var]
    BY <1>6, <1>7, <2>1, SlotBinds
  <2>3. (v.ok <=> Says(v.env.vars[pop.var]))
    <3>1. ~Bound(en, pop.var) /\ pop.ref = "plain" => v.env.vars[pop.var] = x
      BY <1>6, SlotBinds
    <3> QED
      BY <1>4, <1>5, <2>1, <3>1
  <2> QED
    BY <1>1, <2>2, <2>3 DEF Again, Verdict
<1> QED
  BY <1>6, <1>7, SlotBinds

LEMMA VarAgain ==
  ASSUME NEW en, Env(en), NEW pop, pop.type # "memexpr", NEW ins, NEW iop,
         NEW v, v = checkAndSaveVar(en, pop, ins, iop)
  PROVE  /\ Grows(en, v.env)
         /\ \A W, f : pop.var \notin W /\ Knows(W, v.env, f) /\ (v.ok \/ pop.ref = "plain") =>
              Again(checkAndSaveVar(f, pop, ins, iop), v, f)
<1>1. CASE iop.type = "reg"
  <2>1. \A e : checkAndSaveVar(e, pop, ins, iop) = CheckReg(e, pop, iop)
    BY <1>1 DEF checkAndSaveVar
  <2> QED
    BY <2>1, RegAgain
<1>2. CASE iop.type = "imm"
  <2>1. \A e : checkAndSaveVar(e, pop, ins, iop) = CheckImm(e, pop, ins, iop)
    BY <1>2 DEF checkAndSaveVar
  <2> QED
    BY <2>1, ImmAgain
<1>3. CASE iop.type \in {"mem", "smem", "disp"}
  <2>1. \A e : checkAndSaveVar(e, pop, ins, iop) = CheckMem(e, pop, ins, iop)
    BY <1>3 DEF checkAndSaveVar
  <2> QED
    BY <2>1, MemAgain
<1>4. CASE iop.type \notin {"reg", "imm", "mem", "smem", "disp"}
  <2>1. \A e : checkAndSaveVar(e, pop, ins, iop) = Verdict(TRUE, e)
    BY <1>4, Zenon DEF checkAndSaveVar
  <2>2. v.env = en /\ v.ok
    BY <2>1 DEF Verdict
  <2> QED
    BY <2>1, <2>2, GrowsRefl DEF Again, Verdict
<1> QED
  BY <1>1, <1>2, <1>3, <1>4

\* The type of a slot and the operand met decide what is asked.
LEMMA OperandAgain ==
  ASSUME NEW en, Env(en), NEW pop, pop.type # "memexpr", NEW tmpl, NEW i, NEW ins, NEW j,
         NEW v, v = CheckOperand(en, pop, tmpl, i, ins, j)
  PROVE  /\ Grows(en, v.env)
         /\ \A W, f : pop.var \notin W /\ Knows(W, v.env, f) /\ (v.ok \/ Steady(pop)) =>
              Again(CheckOperand(f, pop, tmpl, i, ins, j), v, f)
<1> DEFINE none == CASE pop.ref = "ref" -> FALSE [] pop.ref = "noref" -> TRUE
                     [] OTHER -> ins.ops[j].type = None
           explicit == CASE pop.ref = "ref"   -> ExplicitReferences(tmpl, i, ins, j)
                         [] pop.ref = "noref" -> ~ExplicitReferences(tmpl, i, ins, j)
                         [] OTHER -> SameExplicit(pop, tmpl, i, ins, j)
           iop == ins.ops[j]
<1>1. ASSUME NEW ok, \A e : CheckOperand(e, pop, tmpl, i, ins, j) = Verdict(ok, e)
      PROVE  /\ Grows(en, v.env)
             /\ \A f : Again(CheckOperand(f, pop, tmpl, i, ins, j), v, f)
  <2>1. v.env = en /\ v.ok = ok
    BY <1>1 DEF Verdict
  <2> QED
    BY <1>1, <2>1, GrowsRefl DEF Again, Verdict
<1>2. CASE pop.type = None
  <2>0. pop.type # "explicit"
    BY <1>2 DEF None
  <2>1. \A e : CheckOperand(e, pop, tmpl, i, ins, j) = Verdict(none, e)
    BY <1>2, <2>0, Zenon DEF CheckOperand
  <2> HIDE DEF none
  <2> QED
    BY <1>1, <2>1
<1>3. CASE pop.type # None /\ pop.type = "explicit"
  <2>1. \A e : CheckOperand(e, pop, tmpl, i, ins, j) = Verdict(explicit, e)
    BY <1>3, Zenon DEF CheckOperand
  <2> HIDE DEF explicit
  <2> QED
    BY <1>1, <2>1
<1>4. CASE pop.type \notin {None, "explicit"} /\ ~KindOK(pop, iop)
  <2>1. \A e : CheckOperand(e, pop, tmpl, i, ins, j) = Verdict(FALSE, e)
    BY <1>4 DEF CheckOperand
  <2> QED
    BY <1>1, <2>1
<1>5. CASE pop.type \notin {None, "explicit"} /\ KindOK(pop, iop)
  <2> DEFINE w == checkAndSaveVar(en, pop, ins, iop)
  <2>1. \A e : CheckOperand(e, pop, tmpl, i, ins, j) =
                 LET x == checkAndSaveVar(e, pop, ins, iop) IN
                 IF x.ok THEN Verdict(TRUE, x.env) ELSE x
    BY <1>5 DEF CheckOperand, Then
  <2>2. /\ Grows(en, w.env)
        /\ \A W, f : pop.var \notin W /\ Knows(W, w.env, f) /\ (w.ok \/ pop.ref = "plain") =>
             Again(checkAndSaveVar(f, pop, ins, iop), w, f)
    BY VarAgain
  <2>3. v = IF w.ok THEN Verdict(TRUE, w.env) ELSE w
    BY <2>1
  <2> HIDE DEF w
  <2>4. v.env = w.env /\ (v.ok <=> w.ok)
    BY <2>3 DEF Verdict
  <2>5. ASSUME NEW W, NEW f, pop.var \notin W, Knows(W, v.env, f), v.ok \/ Steady(pop)
        PROVE  Again(CheckOperand(f, pop, tmpl, i, ins, j), v, f)
    <3>1. Again(checkAndSaveVar(f, pop, ins, iop), w, f)
      BY <1>5, <2>2, <2>4, <2>5 DEF Steady
    <3> QED
      BY <2>1, <2>4, <3>1 DEF Again, Verdict
  <2> QED
    BY <2>2, <2>4, <2>5
<1> QED
  BY <1>2, <1>3, <1>4, <1>5

\* One slot against one operand, with its size and its NOT.
LEMMA MatchOperandAgain ==
  ASSUME NEW en, Env(en), NEW pop, pop.type # "memexpr", NEW tmpl, NEW i, NEW ins, NEW j,
         NEW v, v = isMatchInstOperand(en, pop, tmpl, i, ins, j)
  PROVE  /\ Grows(en, v.env)
         /\ \A W, f : {pop.var, pop.szvar} \cap W = {} /\ Knows(W, v.env, f)
                        /\ (v.ok \/ Steady(pop)) =>
              Again(isMatchInstOperand(f, pop, tmpl, i, ins, j), v, f)
<1> DEFINE size == ins.ops[j].size
           u == CheckSize(en, pop.szvar, size)
           w == CheckOperand(u.env, pop, tmpl, i, ins, j)
<1>1. CASE pop.bits # None /\ size # pop.bits
  <2>1. \A e : isMatchInstOperand(e, pop, tmpl, i, ins, j) = Verdict(FALSE, e)
    BY <1>1 DEF isMatchInstOperand
  <2>2. v.env = en /\ ~v.ok
    BY <2>1 DEF Verdict
  <2> QED
    BY <2>1, <2>2, GrowsRefl DEF Again, Verdict
<1>2. CASE ~(pop.bits # None /\ size # pop.bits)
  <2>1. \A e : isMatchInstOperand(e, pop, tmpl, i, ins, j) =
                 LET x == CheckSize(e, pop.szvar, size) IN
                 IF x.ok THEN CheckOperand(x.env, pop, tmpl, i, ins, j) ELSE x
    BY <1>2 DEF isMatchInstOperand, Then
  <2>2. /\ Grows(en, u.env)
        /\ \A W, f : pop.szvar \notin W /\ Knows(W, u.env, f) =>
             Again(CheckSize(f, pop.szvar, size), u, f)
    BY SizeAgain
  <2>3. v = IF u.ok THEN w ELSE u
    BY <2>1
  <2>4. Env(u.env)
    BY <2>2 DEF Grows
  <2>5. /\ Grows(u.env, w.env)
        /\ \A W, f : pop.var \notin W /\ Knows(W, w.env, f) /\ (w.ok \/ Steady(pop)) =>
             Again(CheckOperand(f, pop, tmpl, i, ins, j), w, f)
    <3> HIDE DEF u
    <3> QED
      BY <2>4, OperandAgain
  <2> HIDE DEF u, w
  <2>6. Grows(en, v.env)
    BY <2>2, <2>3, <2>5, GrowsTrans
  <2>7. ASSUME NEW W, NEW f, {pop.var, pop.szvar} \cap W = {}, Knows(W, v.env, f),
               v.ok \/ Steady(pop)
        PROVE  Again(isMatchInstOperand(f, pop, tmpl, i, ins, j), v, f)
    <3>1. Knows(W, u.env, f)
      BY <2>3, <2>5, <2>7, GrowsKnows
    <3>2. Again(CheckSize(f, pop.szvar, size), u, f)
      BY <2>2, <2>7, <3>1
    <3> DEFINE x == CheckSize(f, pop.szvar, size)
               y == isMatchInstOperand(f, pop, tmpl, i, ins, j)
    <3>3. y = IF x.ok THEN CheckOperand(x.env, pop, tmpl, i, ins, j) ELSE x
      BY <2>1
    <3>4. u.ok => Again(CheckOperand(f, pop, tmpl, i, ins, j), w, f)
      BY <2>3, <2>5, <2>7
    <3> HIDE DEF x, y
    <3>5. Again(y, v, f)
      BY <2>3, <3>2, <3>3, <3>4 DEF Again, x
    <3> QED
      BY <3>5 DEF y
  <2> QED
    BY <2>6, <2>7
<1> QED
  BY <1>1, <1>2

NamesOf(pop) == {pop.var, pop.szvar}

LEMMA NegatedIs ==
  ASSUME NEW pop, NEW u
  PROVE  /\ Negated(pop, u).env = u.env
         /\ Negated(pop, u).ok <=> IF pop.not THEN ~u.ok ELSE u.ok
<1>1. CASE pop.not
  <2> DEFINE failed == ~u.ok
  <2>1. Negated(pop, u) = Verdict(failed, u.env)
    BY <1>1 DEF Negated
  <2>2. Negated(pop, u).env = u.env /\ (Negated(pop, u).ok <=> failed)
    <3> HIDE DEF failed
    <3> QED
      BY <2>1 DEF Verdict
  <2> QED
    BY <1>1, <2>2
<1>2. CASE ~pop.not
  BY <1>2 DEF Negated
<1> QED
  BY <1>1, <1>2

LEMMA NegatedAgain ==
  ASSUME NEW en, Env(en), NEW pop, Plain(pop), NEW tmpl, NEW i, NEW ins, NEW j,
         NEW v, v = Negated(pop, isMatchInstOperand(en, pop, tmpl, i, ins, j))
  PROVE  /\ Grows(en, v.env)
         /\ \A W, f : NamesOf(pop) \cap W = {} /\ Knows(W, v.env, f) /\ (v.ok \/ Steady(pop)) =>
              Again(Negated(pop, isMatchInstOperand(f, pop, tmpl, i, ins, j)), v, f)
<1> DEFINE u == isMatchInstOperand(en, pop, tmpl, i, ins, j)
<1>1. /\ Grows(en, u.env)
      /\ \A W, f : {pop.var, pop.szvar} \cap W = {} /\ Knows(W, u.env, f)
                     /\ (u.ok \/ Steady(pop)) =>
           Again(isMatchInstOperand(f, pop, tmpl, i, ins, j), u, f)
  BY MatchOperandAgain DEF Plain
<1>2. v = Negated(pop, u)
  OBVIOUS
<1> HIDE DEF u
<1>3. v.env = u.env /\ (v.ok <=> IF pop.not THEN ~u.ok ELSE u.ok)
  BY <1>2, NegatedIs
<1>4. ASSUME NEW W, NEW f, NamesOf(pop) \cap W = {}, Knows(W, v.env, f), v.ok \/ Steady(pop)
      PROVE  Again(Negated(pop, isMatchInstOperand(f, pop, tmpl, i, ins, j)), v, f)
  <2> DEFINE x == isMatchInstOperand(f, pop, tmpl, i, ins, j)
  <2>1. Again(x, u, f)
    BY <1>1, <1>3, <1>4 DEF Plain, NamesOf
  <2> HIDE DEF x
  <2>2. Negated(pop, x).env = x.env /\ (Negated(pop, x).ok <=> IF pop.not THEN ~x.ok ELSE x.ok)
    BY NegatedIs
  <2>3. Again(Negated(pop, x), v, f)
    BY <1>3, <2>1, <2>2 DEF Again
  <2> QED
    BY <2>3 DEF x
<1> QED
  BY <1>1, <1>3, <1>4

\* Slot i of an alternative.
LEMMA SlotAgain ==
  ASSUME NEW en, Env(en), NEW body, NEW i, Plain(body.ops[i]), NEW ins,
         NEW v, v = MatchSlot(en, body, i, ins)
  PROVE  /\ Grows(en, v.env)
         /\ \A W, f : NamesOf(body.ops[i]) \cap W = {} /\ Knows(W, v.env, f)
                        /\ (v.ok \/ Steady(body.ops[i])) =>
              Again(MatchSlot(f, body, i, ins), v, f)
<1> DEFINE pop == body.ops[i]
           Against(e, j) == Negated(pop, isMatchInstOperand(e, pop, body.tmpl, i, ins, j))
<1>1. ASSUME NEW e, Env(e), NEW j
      PROVE  /\ Grows(e, Against(e, j).env)
             /\ \A W, f : NamesOf(pop) \cap W = {} /\ Knows(W, Against(e, j).env, f)
                            /\ (Against(e, j).ok \/ Steady(pop)) =>
                  Again(Against(f, j), Against(e, j), f)
  BY <1>1, NegatedAgain
<1>2. \A e : MatchSlot(e, body, i, ins) =
        IF pop.type = None /\ ~body.strict THEN Verdict(TRUE, e)
        ELSE IF ~pop.inall THEN Against(e, i)
        ELSE IF ins.ops[1].type = None THEN Verdict(TRUE, e)
        ELSE LET x == Against(e, 1) IN
             IF ~x.ok THEN x
             ELSE IF ins.ops[2].type = None THEN Verdict(TRUE, x.env)
             ELSE Against(x.env, 2)
  BY Zenon DEF MatchSlot, Then
<1> HIDE DEF Against, pop
<1>3. CASE (pop.type = None /\ ~body.strict) \/ (pop.inall /\ ins.ops[1].type = None)
  <2>1. \A e : MatchSlot(e, body, i, ins) = Verdict(TRUE, e)
    BY <1>2, <1>3
  <2> QED
    BY <2>1, GrowsRefl DEF Again, Verdict
<1>4. CASE ~(pop.type = None /\ ~body.strict) /\ ~pop.inall
  <2>1. \A e : MatchSlot(e, body, i, ins) = Against(e, i)
    BY <1>2, <1>4
  <2> QED
    BY <1>1, <2>1 DEF pop
<1>5. CASE ~(pop.type = None /\ ~body.strict) /\ pop.inall /\ ins.ops[1].type # None
  <2> DEFINE a == Against(en, 1)
             b == IF ins.ops[2].type = None THEN Verdict(TRUE, a.env) ELSE Against(a.env, 2)
  <2>1. \A e : MatchSlot(e, body, i, ins) =
          LET x == Against(e, 1) IN
          IF ~x.ok THEN x
          ELSE IF ins.ops[2].type = None THEN Verdict(TRUE, x.env)
          ELSE Against(x.env, 2)
    BY <1>2, <1>5
  <2>2. v = IF a.ok THEN b ELSE a
    <3>1. v = IF ~a.ok THEN a ELSE b
      BY <2>1, Zenon
    <3> HIDE DEF a, b
    <3> QED
      BY <3>1
  <2>3. /\ Grows(en, a.env)
        /\ \A W, f : NamesOf(pop) \cap W = {} /\ Knows(W, a.env, f) /\ (a.ok \/ Steady(pop)) =>
             Again(Against(f, 1), a, f)
    BY <1>1
  <2> HIDE DEF a
  <2>4. Env(a.env)
    BY <2>3 DEF Grows
  <2>5. /\ Grows(a.env, b.env)
        /\ \A W, f : NamesOf(pop) \cap W = {} /\ Knows(W, b.env, f) /\ (b.ok \/ Steady(pop)) =>
             Again(IF ins.ops[2].type = None THEN Verdict(TRUE, f) ELSE Against(f, 2), b, f)
    <3>1. CASE ins.ops[2].type = None
      BY <2>4, <3>1, GrowsRefl DEF Again, Verdict
    <3>2. CASE ins.ops[2].type # None
      BY <1>1, <2>4, <3>2
    <3> QED
      BY <3>1, <3>2
  <2> HIDE DEF b
  <2>6. Grows(en, v.env)
    BY <2>2, <2>3, <2>5, GrowsTrans
  <2>7. ASSUME NEW W, NEW f, NamesOf(pop) \cap W = {}, Knows(W, v.env, f), v.ok \/ Steady(pop)
        PROVE  Again(MatchSlot(f, body, i, ins), v, f)
    <3> DEFINE x == Against(f, 1)
               y == IF ins.ops[2].type = None THEN Verdict(TRUE, f) ELSE Against(f, 2)
    <3>1. Knows(W, a.env, f)
      BY <2>2, <2>5, <2>7, GrowsKnows
    <3>2. Again(x, a, f)
      BY <2>2, <2>3, <2>7, <3>1
    <3>3. a.ok => Again(y, b, f)
      BY <2>2, <2>5, <2>7
    <3>4. x.env = f /\ (x.ok <=> a.ok)
      BY <3>2 DEF Again
    <3>5. MatchSlot(f, body, i, ins) = IF a.ok THEN y ELSE x
      BY <2>1, <3>4
    <3> HIDE DEF x, y
    <3> QED
      BY <2>2, <3>2, <3>3, <3>5
  <2> QED
    BY <2>6, <2>7 DEF pop
<1> QED
  BY <1>3, <1>4, <1>5

\* One alternative, both slots.
LEMMA BodyAgain ==
  ASSUME NEW en, Env(en), NEW body, Plain(body.ops[1]), Plain(body.ops[2]), NEW ins,
         NEW v, v = isMatchInstBody(en, body, ins)
  PROVE  /\ Grows(en, v.env)
         /\ \A W, f : (NamesOf(body.ops[1]) \cup NamesOf(body.ops[2])) \cap W = {}
                        /\ Knows(W, v.env, f)
                        /\ (v.ok \/ (Steady(body.ops[1]) /\ Steady(body.ops[2]))) =>
              Again(isMatchInstBody(f, body, ins), v, f)
<1> DEFINE opcodeOK == body.opcode # None => (ins.opcode = body.opcode) = ~body.not
           N == NamesOf(body.ops[1]) \cup NamesOf(body.ops[2])
           S == Steady(body.ops[1]) /\ Steady(body.ops[2])
           a == MatchSlot(en, body, 1, ins)
           b == MatchSlot(a.env, body, 2, ins)
<1>1. \A e : LET x == MatchSlot(e, body, 1, ins)
                 y == MatchSlot(x.env, body, 2, ins)
                 z == isMatchInstBody(e, body, ins) IN
        /\ ~opcodeOK => ~z.ok /\ z.env = e
        /\ opcodeOK => z = IF x.ok THEN y ELSE x
  <2>1. \A e : isMatchInstBody(e, body, ins) =
          LET u == Verdict(opcodeOK, e)
              x == IF u.ok THEN MatchSlot(u.env, body, 1, ins) ELSE u IN
          IF x.ok THEN MatchSlot(x.env, body, 2, ins) ELSE x
    BY Zenon DEF isMatchInstBody, Then
  <2> HIDE DEF opcodeOK
  <2>2. \A e : (Verdict(opcodeOK, e).ok <=> opcodeOK) /\ Verdict(opcodeOK, e).env = e
    BY DEF Verdict
  <2> QED
    BY <2>1, <2>2
<1> HIDE DEF opcodeOK
<1>2. CASE ~opcodeOK
  <2>1. v.env = en /\ ~v.ok
    BY <1>1, <1>2
  <2>2. \A f : Again(isMatchInstBody(f, body, ins), v, f)
    BY <1>1, <1>2, <2>1 DEF Again
  <2> QED
    BY <2>1, <2>2, GrowsRefl
<1>3. CASE opcodeOK
  <2>2. v = IF a.ok THEN b ELSE a
    BY <1>1, <1>3
  <2>3. /\ Grows(en, a.env)
        /\ \A W, f : NamesOf(body.ops[1]) \cap W = {} /\ Knows(W, a.env, f)
                       /\ (a.ok \/ Steady(body.ops[1])) =>
             Again(MatchSlot(f, body, 1, ins), a, f)
    BY SlotAgain
  <2> HIDE DEF a
  <2>4. Env(a.env)
    BY <2>3 DEF Grows
  <2>5. /\ Grows(a.env, b.env)
        /\ \A W, f : NamesOf(body.ops[2]) \cap W = {} /\ Knows(W, b.env, f)
                       /\ (b.ok \/ Steady(body.ops[2])) =>
             Again(MatchSlot(f, body, 2, ins), b, f)
    BY <2>4, SlotAgain
  <2> HIDE DEF b
  <2>6. Grows(en, v.env)
    BY <2>2, <2>3, <2>5, GrowsTrans
  <2>7. ASSUME NEW W, NEW f, N \cap W = {}, Knows(W, v.env, f), v.ok \/ S
        PROVE  Again(isMatchInstBody(f, body, ins), v, f)
    <3> DEFINE x == MatchSlot(f, body, 1, ins)
               y == MatchSlot(f, body, 2, ins)
    <3>1. Knows(W, a.env, f)
      BY <2>2, <2>5, <2>7, GrowsKnows
    <3>2. Again(x, a, f)
      BY <2>2, <2>3, <2>7, <3>1
    <3>3. a.ok => Again(y, b, f)
      BY <2>2, <2>5, <2>7
    <3>4. x.env = f /\ (x.ok <=> a.ok)
      BY <3>2 DEF Again
    <3>5. isMatchInstBody(f, body, ins) = IF a.ok THEN y ELSE x
      BY <1>1, <1>3, <3>4
    <3> HIDE DEF x, y
    <3> QED
      BY <2>2, <3>2, <3>3, <3>5
  <2> QED
    BY <2>6, <2>7
<1> QED
  BY <1>2, <1>3

-----------------------------------------------------------------------------
(***************************************************************************)
(* The alternatives of a line, and the line.                               *)
(***************************************************************************)
\* One more alternative, after acc.
Alternative(en, body, ins) ==
  LET z == CheckSize(en, body.szvar, ins.opsize) IN
  IF z.ok THEN isMatchInstBody(z.env, body, ins) ELSE z
Mnemonic(v, body, ins) ==
  IF v.ok THEN CheckMnemonic(v.env, body.mnemvar, ins.opcode) ELSE v
Tried(acc, body, ins) ==
  LET a == Alternative(acc.v.env, body, ins) IN
  [done |-> a.ok, v |-> Mnemonic(a, body, ins)]

LEMMA AlternativeAgain ==
  ASSUME NEW en, Env(en), NEW body, Plain(body.ops[1]), Plain(body.ops[2]), NEW ins,
         NEW v, v = Alternative(en, body, ins)
  PROVE  /\ Grows(en, v.env)
         /\ \A W, f : NamesIn(body) \cap W = {} /\ Knows(W, v.env, f)
                        /\ (v.ok \/ (Steady(body.ops[1]) /\ Steady(body.ops[2]))) =>
              Again(Alternative(f, body, ins), v, f)
<1> DEFINE a == CheckSize(en, body.szvar, ins.opsize)
           b == isMatchInstBody(a.env, body, ins)
<1>2. v = IF a.ok THEN b ELSE a
  BY DEF Alternative
<1>3. /\ Grows(en, a.env)
      /\ \A W, f : body.szvar \notin W /\ Knows(W, a.env, f) =>
           Again(CheckSize(f, body.szvar, ins.opsize), a, f)
  BY SizeAgain
<1> HIDE DEF a
<1>4. Env(a.env)
  BY <1>3 DEF Grows
<1>5. /\ Grows(a.env, b.env)
      /\ \A W, f : (NamesOf(body.ops[1]) \cup NamesOf(body.ops[2])) \cap W = {}
                     /\ Knows(W, b.env, f)
                     /\ (b.ok \/ (Steady(body.ops[1]) /\ Steady(body.ops[2]))) =>
           Again(isMatchInstBody(f, body, ins), b, f)
  BY <1>4, BodyAgain
<1> HIDE DEF b
<1>6. Grows(en, v.env)
  BY <1>2, <1>3, <1>5, GrowsTrans
<1>7. ASSUME NEW W, NEW f, NamesIn(body) \cap W = {}, Knows(W, v.env, f),
             v.ok \/ (Steady(body.ops[1]) /\ Steady(body.ops[2]))
      PROVE  Again(Alternative(f, body, ins), v, f)
  <2> DEFINE x == CheckSize(f, body.szvar, ins.opsize)
             y == isMatchInstBody(f, body, ins)
  <2>0. body.szvar \notin W /\ (NamesOf(body.ops[1]) \cup NamesOf(body.ops[2])) \cap W = {}
    BY <1>7 DEF NamesIn, NamesOf
  <2>1. Knows(W, a.env, f)
    BY <1>2, <1>5, <1>7, GrowsKnows
  <2>2. Again(x, a, f)
    BY <1>3, <2>0, <2>1
  <2>3. a.ok => Again(y, b, f)
    BY <1>2, <1>5, <1>7, <2>0
  <2>4. x.env = f /\ (x.ok <=> a.ok)
    BY <2>2 DEF Again
  <2>5. Alternative(f, body, ins) = IF a.ok THEN y ELSE x
    BY <2>4 DEF Alternative
  <2> HIDE DEF x, y
  <2> QED
    BY <1>2, <2>2, <2>3, <2>5
<1> QED
  BY <1>6, <1>7

\* An alternative and its mnemonic, which fails the line.
LEMMA TriedAgain ==
  ASSUME NEW acc, Env(acc.v.env), NEW body, Plain(body.ops[1]), Plain(body.ops[2]), NEW ins,
         NEW t, t = Tried(acc, body, ins)
  PROVE  /\ Grows(acc.v.env, t.v.env)
         /\ \A W, f, x :
              NamesIn(body) \cap W = {} /\ Knows(W, t.v.env, f) /\ x.v.env = f
                /\ (t.done \/ (Steady(body.ops[1]) /\ Steady(body.ops[2]))) =>
              /\ Tried(x, body, ins).done <=> t.done
              /\ Again(Tried(x, body, ins).v, t.v, f)
<1> DEFINE a == Alternative(acc.v.env, body, ins)
           b == CheckMnemonic(a.env, body.mnemvar, ins.opcode)
<1>2. \A x : LET c == Alternative(x.v.env, body, ins) IN
        /\ Tried(x, body, ins).done = c.ok
        /\ Tried(x, body, ins).v = IF c.ok THEN CheckMnemonic(c.env, body.mnemvar, ins.opcode)
                                   ELSE c
  BY DEF Tried, Mnemonic
<1>8. (t.done <=> a.ok) /\ t.v = IF a.ok THEN b ELSE a
  BY <1>2
<1>3. /\ Grows(acc.v.env, a.env)
      /\ \A W, f : NamesIn(body) \cap W = {} /\ Knows(W, a.env, f)
                     /\ (a.ok \/ (Steady(body.ops[1]) /\ Steady(body.ops[2]))) =>
           Again(Alternative(f, body, ins), a, f)
  BY AlternativeAgain
<1> HIDE DEF a
<1>4. Env(a.env)
  BY <1>3 DEF Grows
<1>5. /\ Grows(a.env, b.env)
      /\ \A W, f : body.mnemvar \notin W /\ Knows(W, b.env, f) =>
           Again(CheckMnemonic(f, body.mnemvar, ins.opcode), b, f)
  BY <1>4, MnemonicAgain
<1> HIDE DEF b
<1>6. Grows(acc.v.env, t.v.env)
  BY <1>8, <1>3, <1>5, GrowsTrans
<1>7. ASSUME NEW W, NEW f, NEW x, NamesIn(body) \cap W = {}, Knows(W, t.v.env, f), x.v.env = f,
             t.done \/ (Steady(body.ops[1]) /\ Steady(body.ops[2]))
      PROVE  /\ Tried(x, body, ins).done <=> t.done
             /\ Again(Tried(x, body, ins).v, t.v, f)
  <2> DEFINE c == Alternative(f, body, ins)
             d == CheckMnemonic(f, body.mnemvar, ins.opcode)
  <2>1. Knows(W, a.env, f)
    BY <1>8, <1>5, <1>7, GrowsKnows
  <2>2. Again(c, a, f)
    BY <1>3, <1>7, <1>8, <2>1
  <2>3. a.ok => Again(d, b, f)
    <3>1. body.mnemvar \notin W
      BY <1>7 DEF NamesIn
    <3> QED
      BY <1>8, <1>5, <1>7, <3>1
  <2>4. c.env = f /\ (c.ok <=> a.ok)
    BY <2>2 DEF Again
  <2>5. (Tried(x, body, ins).done <=> c.ok) /\ Tried(x, body, ins).v = IF a.ok THEN d ELSE c
    BY <1>2, <1>7, <2>4
  <2> HIDE DEF c, d
  <2> QED
    BY <1>8, <2>2, <2>3, <2>4, <2>5
<1> QED
  BY <1>6, <1>7

\* The function in MatchBodies, for the first n alternatives.
NoTry(en) == [done |-> FALSE, v |-> Verdict(FALSE, en)]
NextTry(acc, body, ins) == IF acc.done THEN acc ELSE Tried(acc, body, ins)
IsTried(en, bodies, ins, n, f) ==
  f = [k \in 0..n |-> IF k = 0 THEN NoTry(en) ELSE NextTry(f[k-1], bodies[k], ins)]

LEMMA TriedAt ==
  ASSUME NEW en, NEW bodies, NEW ins, NEW n \in Nat, NEW f, IsTried(en, bodies, ins, n, f)
  PROVE  /\ f[0] = NoTry(en)
         /\ \A k \in 1..n : f[k] = NextTry(f[k-1], bodies[k], ins)
<1> DEFINE E(k) == IF k = 0 THEN NoTry(en) ELSE NextTry(f[k-1], bodies[k], ins)
<1>1. f = [k \in 0..n |-> E(k)]
  BY DEF IsTried
<1>2. \A k \in 0..n : f[k] = E(k)
  <2> HIDE DEF E
  <2> QED
    BY <1>1
<1> QED
  BY <1>2

LEMMA TriedExists ==
  ASSUME NEW en, NEW bodies, NEW ins, NEW n \in Nat
  PROVE  \E f : IsTried(en, bodies, ins, n, f)
<1> DEFINE T == {m \in Nat : \E f : IsTried(en, bodies, ins, m, f)}
<1>1. 0 \in T
  <2> DEFINE f == [k \in 0..0 |-> NoTry(en)]
  <2>1. IsTried(en, bodies, ins, 0, f)
    BY DEF IsTried
  <2> QED
    BY <2>1
<1>2. ASSUME NEW m \in T PROVE m + 1 \in T
  <2>1. PICK f : IsTried(en, bodies, ins, m, f)
    OBVIOUS
  <2> DEFINE g == [k \in 0..m+1 |-> IF k <= m THEN f[k] ELSE NextTry(f[m], bodies[k], ins)]
             h == [k \in 0..m+1 |-> IF k = 0 THEN NoTry(en) ELSE NextTry(g[k-1], bodies[k], ins)]
  <2>2. ASSUME NEW k \in 0..m+1 PROVE g[k] = h[k]
    <3>1. CASE k = 0
      <4>1. f[0] = NoTry(en)
        BY <2>1, TriedAt, ZenonT(60)
      <4>2. g[0] = f[0] /\ h[0] = NoTry(en)
        OBVIOUS
      <4> HIDE DEF g, h
      <4> QED
        BY <3>1, <4>1, <4>2
    <3>2. CASE k # 0 /\ k <= m
      <4>1. f[k] = NextTry(f[k-1], bodies[k], ins)
        <5>1. k \in 1..m
          BY <3>2
        <5> QED
          BY <2>1, <5>1, TriedAt
      <4>2. g[k] = f[k] /\ g[k-1] = f[k-1]
        BY <3>2
      <4>3. h[k] = NextTry(g[k-1], bodies[k], ins)
        BY <3>2
      <4> HIDE DEF g, h
      <4> QED
        BY <4>1, <4>2, <4>3
    <3>3. CASE k = m + 1
      <4>1. g[k] = NextTry(f[m], bodies[k], ins) /\ g[m] = f[m] /\ k # 0 /\ k - 1 = m
        BY <3>3
      <4>2. h[k] = NextTry(g[k-1], bodies[k], ins)
        BY <3>3
      <4> HIDE DEF g, h
      <4> QED
        BY <4>1, <4>2
    <3> QED
      BY <3>1, <3>2, <3>3
  <2>3. g = h
    <3>1. DOMAIN g = 0..m+1 /\ DOMAIN h = 0..m+1
      OBVIOUS
    <3> QED
      BY <2>2, <3>1
  <2>4. IsTried(en, bodies, ins, m + 1, g)
    BY <2>3 DEF IsTried
  <2> HIDE DEF g
  <2> QED
    BY <2>4
<1>3. T = Nat
  <2> HIDE DEF T
  <2>1. T \in SUBSET Nat
    BY DEF T
  <2> QED
    BY <1>1, <1>2, <2>1, InductionBySet
<1> QED
  BY <1>3

LEMMA MatchBodiesIs ==
  ASSUME NEW en, NEW bodies, NEW ins, Len(bodies) \in Nat
  PROVE  \E f : IsTried(en, bodies, ins, Len(bodies), f) /\ MatchBodies(en, bodies, ins) = f[Len(bodies)].v
<1> DEFINE n == Len(bodies)
           E(f, k) == IF k = 0 THEN [done |-> FALSE, v |-> Verdict(FALSE, en)]
                      ELSE IF f[k-1].done THEN f[k-1]
                      ELSE WithMnemonic(
                             Then(CheckSize(f[k-1].v.env, bodies[k].szvar, ins.opsize),
                                  LAMBDA e : isMatchInstBody(e, bodies[k], ins)), bodies[k], ins)
           c == CHOOSE f : f = [k \in 0..n |-> E(f, k)]
<1>1. MatchBodies(en, bodies, ins) = c[n].v
  BY DEF MatchBodies
<1>2. \A f, k : E(f, k) = IF k = 0 THEN NoTry(en) ELSE NextTry(f[k-1], bodies[k], ins)
  <2>1. \A acc, body : WithMnemonic(
                          Then(CheckSize(acc.v.env, body.szvar, ins.opsize),
                               LAMBDA e : isMatchInstBody(e, body, ins)), body, ins)
                        = Tried(acc, body, ins)
    BY DEF WithMnemonic, Then, Tried, Alternative, Mnemonic
  <2> QED
    BY <2>1 DEF NoTry, NextTry
<1> HIDE DEF E
<1>3. \A f : f = [k \in 0..n |-> E(f, k)] <=> IsTried(en, bodies, ins, n, f)
  BY <1>2, Zenon DEF IsTried
<1>4. \E f : f = [k \in 0..n |-> E(f, k)]
  BY <1>3, TriedExists
<1>5. c = [k \in 0..n |-> E(c, k)]
  BY <1>4
<1> HIDE DEF c
<1> QED
  BY <1>1, <1>3, <1>5

\* A line that can be described: asked again it does not speak of what it has no slot for.
LEMMA TriedDone ==
  ASSUME NEW acc, NEW body, NEW ins
  PROVE  Tried(acc, body, ins).v.ok => Tried(acc, body, ins).done
<1> DEFINE a == Alternative(acc.v.env, body, ins)
<1>1. Tried(acc, body, ins).done = a.ok /\ Tried(acc, body, ins).v = Mnemonic(a, body, ins)
  BY DEF Tried
<1> HIDE DEF a
<1>2. Mnemonic(a, body, ins).ok => a.ok
  BY DEF Mnemonic
<1> QED
  BY <1>1, <1>2

LEMMA MatchBodiesAgain ==
  ASSUME NEW en, Env(en), NEW bodies, Len(bodies) \in Nat, NEW ins, Tellable(bodies),
         NEW v, v = MatchBodies(en, bodies, ins)
  PROVE  /\ Grows(en, v.env)
         /\ \A W, f : Unnamed(bodies, W) /\ Knows(W, v.env, f) /\ v.ok =>
              Again(MatchBodies(f, bodies, ins), v, f)
<1> DEFINE L == Len(bodies)
<1>0. L \in Nat
  OBVIOUS
<1>1. PICK c : IsTried(en, bodies, ins, L, c) /\ v = c[L].v
  BY MatchBodiesIs
<1>2. c[0] = NoTry(en) /\ \A k \in 1..L : c[k] = NextTry(c[k-1], bodies[k], ins)
  BY <1>0, <1>1, TriedAt
<1>3. \A k \in 1..L : Plain(bodies[k].ops[1]) /\ Plain(bodies[k].ops[2])
  BY DEF Tellable
<1>4. \A k \in 1..L : L > 1 => Steady(bodies[k].ops[1]) /\ Steady(bodies[k].ops[2])
  BY DEF Tellable
<1>5. ASSUME NEW k \in 1..L, Env(c[k-1].v.env)
      PROVE  Grows(c[k-1].v.env, c[k].v.env)
  <2>1. CASE c[k-1].done
    BY <1>2, <1>5, <2>1, GrowsRefl DEF NextTry
  <2>2. CASE ~c[k-1].done
    <3>1. c[k] = Tried(c[k-1], bodies[k], ins)
      BY <1>2, <2>2 DEF NextTry
    <3> QED
      BY <1>3, <1>5, <3>1, TriedAgain
  <2> QED
    BY <2>1, <2>2
<1>6. \A k \in 0..L : Grows(en, c[k].v.env)
  <2> DEFINE T == {k \in Nat : k <= L => Grows(en, c[k].v.env)}
  <2>1. 0 \in T
    BY <1>0, <1>2, GrowsRefl DEF NoTry, Verdict
  <2>2. ASSUME NEW k \in T PROVE k + 1 \in T
    <3> SUFFICES ASSUME k + 1 <= L PROVE Grows(en, c[k+1].v.env)
      OBVIOUS
    <3>1. Grows(en, c[k].v.env) /\ k + 1 \in 1..L /\ (k + 1) - 1 = k
      OBVIOUS
    <3>2. Env(c[k].v.env)
      BY <3>1 DEF Grows
    <3>3. Grows(c[k].v.env, c[k+1].v.env)
      BY <1>5, <3>1, <3>2
    <3> QED
      BY <3>1, <3>3, GrowsTrans
  <2>3. T = Nat
    <3> HIDE DEF T
    <3>1. T \in SUBSET Nat
      BY DEF T
    <3> QED
      BY <2>1, <2>2, <3>1, InductionBySet
  <2> QED
    BY <2>3
<1>7. \A k \in 0..L : Grows(c[k].v.env, v.env)
  <2> DEFINE T == {d \in Nat : d <= L => Grows(c[L-d].v.env, v.env)}
  <2>1. 0 \in T
    <3>1. Env(c[L].v.env) /\ L - 0 = L
      BY <1>6 DEF Grows
    <3> QED
      BY <1>1, <3>1, GrowsRefl
  <2>2. ASSUME NEW d \in T PROVE d + 1 \in T
    <3> SUFFICES ASSUME d + 1 <= L PROVE Grows(c[L-(d+1)].v.env, v.env)
      OBVIOUS
    <3> DEFINE k == L - d
    <3>1. k \in 1..L /\ L - (d + 1) = k - 1 /\ k - 1 \in 0..L /\ Grows(c[k].v.env, v.env)
      OBVIOUS
    <3> HIDE DEF k
    <3>2. Env(c[k-1].v.env)
      BY <1>6, <3>1 DEF Grows
    <3>3. Grows(c[k-1].v.env, c[k].v.env)
      BY <1>5, <3>1, <3>2
    <3> QED
      BY <3>1, <3>3, GrowsTrans
  <2>3. T = Nat
    <3> HIDE DEF T
    <3>1. T \in SUBSET Nat
      BY DEF T
    <3> QED
      BY <2>1, <2>2, <3>1, InductionBySet
  <2>4. ASSUME NEW k \in 0..L PROVE Grows(c[k].v.env, v.env)
    <3>1. L - k \in Nat /\ L - k <= L /\ L - (L - k) = k
      OBVIOUS
    <3> QED
      BY <2>3, <3>1
  <2> QED
    BY <2>4
<1>8. ASSUME NEW W, NEW f, Unnamed(bodies, W), Knows(W, v.env, f), v.ok
      PROVE  Again(MatchBodies(f, bodies, ins), v, f)
  <2>1. PICK g : IsTried(f, bodies, ins, L, g) /\ MatchBodies(f, bodies, ins) = g[L].v
    BY MatchBodiesIs
  <2>2. g[0] = NoTry(f) /\ \A k \in 1..L : g[k] = NextTry(g[k-1], bodies[k], ins)
    BY <1>0, <2>1, TriedAt
  <2> DEFINE Same(k) == (g[k].done <=> c[k].done) /\ Again(g[k].v, c[k].v, f)
  <2>3. Same(0)
    BY <1>2, <2>2 DEF NoTry, Verdict, Again
  <2>4. ASSUME NEW k \in 1..L, Same(k-1) PROVE Same(k)
    <3>1. CASE c[k-1].done
      <4>1. c[k] = c[k-1] /\ g[k] = g[k-1]
        BY <1>2, <2>2, <2>4, <3>1 DEF NextTry
      <4> QED
        BY <2>4, <4>1
    <3>2. CASE ~c[k-1].done
      <4>1. c[k] = Tried(c[k-1], bodies[k], ins) /\ g[k] = Tried(g[k-1], bodies[k], ins)
        BY <1>2, <2>2, <2>4, <3>2 DEF NextTry
      <4>2. Env(c[k-1].v.env) /\ Knows(W, c[k].v.env, f)
        BY <1>6, <1>7, <1>8, GrowsKnows DEF Grows
      <4>3. g[k-1].v.env = f
        BY <2>4 DEF Again
      <4>4. c[k].done \/ (Steady(bodies[k].ops[1]) /\ Steady(bodies[k].ops[2]))
        <5>1. CASE L > 1
          BY <1>4, <5>1
        <5>2. CASE ~(L > 1)
          <6>1. k = L
            BY <5>2
          <6> QED
            BY <1>1, <1>8, <4>1, <6>1, TriedDone
        <5> QED
          BY <5>1, <5>2
      <4>5. NamesIn(bodies[k]) \cap W = {}
        BY <1>8 DEF Unnamed
      <4>6. /\ Tried(g[k-1], bodies[k], ins).done <=> c[k].done
            /\ Again(Tried(g[k-1], bodies[k], ins).v, c[k].v, f)
        <5>1. Plain(bodies[k].ops[1]) /\ Plain(bodies[k].ops[2])
          BY <1>3
        <5>2. \A U, e, x :
                NamesIn(bodies[k]) \cap U = {} /\ Knows(U, c[k].v.env, e) /\ x.v.env = e
                  /\ (c[k].done \/ (Steady(bodies[k].ops[1]) /\ Steady(bodies[k].ops[2]))) =>
                /\ Tried(x, bodies[k], ins).done <=> c[k].done
                /\ Again(Tried(x, bodies[k], ins).v, c[k].v, e)
          <6> DEFINE body == bodies[k]
                     acc == c[k-1]
                     t == c[k]
          <6>1. Plain(body.ops[1]) /\ Plain(body.ops[2]) /\ Env(acc.v.env) /\ t = Tried(acc, body, ins)
            BY <4>1, <4>2, <5>1
          <6> HIDE DEF body, acc, t
          <6>2. \A U, e, x :
                  NamesIn(body) \cap U = {} /\ Knows(U, t.v.env, e) /\ x.v.env = e
                    /\ (t.done \/ (Steady(body.ops[1]) /\ Steady(body.ops[2]))) =>
                  /\ Tried(x, body, ins).done <=> t.done
                  /\ Again(Tried(x, body, ins).v, t.v, e)
            BY <6>1, TriedAgain
          <6> QED
            BY <6>2 DEF body, t
        <5> DEFINE x == g[k-1]
        <5>3. Knows(W, c[k].v.env, f) /\ x.v.env = f
          BY <4>2, <4>3
        <5> HIDE DEF x
        <5>4. /\ Tried(x, bodies[k], ins).done <=> c[k].done
              /\ Again(Tried(x, bodies[k], ins).v, c[k].v, f)
          BY <4>4, <4>5, <5>2, <5>3
        <5> QED
          BY <5>4 DEF x
      <4> QED
        BY <4>1, <4>6
    <3> QED
      BY <3>1, <3>2
  <2> DEFINE T == {k \in Nat : k <= L => Same(k)}
  <2>5. T = Nat
    <3>1. 0 \in T
      BY <2>3
    <3>2. ASSUME NEW k \in T PROVE k + 1 \in T
      <4> SUFFICES ASSUME k + 1 <= L PROVE Same(k+1)
        OBVIOUS
      <4> HIDE DEF Same
      <4>1. Same(k) /\ k + 1 \in 1..L /\ (k + 1) - 1 = k
        OBVIOUS
      <4> QED
        BY <2>4, <4>1
    <3>3. T \in SUBSET Nat
      OBVIOUS
    <3> HIDE DEF T
    <3> QED
      BY <3>1, <3>2, <3>3, InductionBySet
  <2>6. Same(L)
    <3> HIDE DEF Same
    <3> QED
      BY <2>5
  <2> QED
    BY <1>1, <2>1, <2>6
<1> QED
  BY <1>0, <1>6, <1>1, <1>8

\* A line that has matched a record says of it what it says in every later environment.
Said(W, en, s, r) == \A f : Env(f) /\ Knows(W, en, f) => Fits(f, s, r)

LEMMA SaidOn ==
  ASSUME NEW W, NEW a, NEW b, NEW s, NEW r, Said(W, a, s, r), Knows(W, a, b)
  PROVE  Said(W, b, s, r)
BY KnowsTrans DEF Said

LEMMA LineAgain ==
  ASSUME NEW en, Env(en), NEW line, Len(line.bodies) \in Nat, Tellable(line.bodies), NEW r,
         NEW W, Unnamed(line.bodies, W),
         NEW v, v = isMatchInst(en, line, r.ins, r.esp, r.efl)
  PROVE  /\ Env(v.env) /\ Knows(W, en, v.env)
         /\ v.env.nvars \cap DOMAIN en.vars = {}
         /\ v.ok => Said(W, v.env, line, r)
<1> DEFINE barred == (line.stack /\ r.esp) \/ (line.eflags /\ r.efl)
           fresh(e) == [e EXCEPT !.nvars = {}]
<1>1. \A e : isMatchInst(e, line, r.ins, r.esp, r.efl) =
               IF barred THEN Verdict(FALSE, fresh(e))
               ELSE MatchBodies(fresh(e), line.bodies, r.ins)
  BY DEF isMatchInst
<1>2. ASSUME NEW e, Env(e)
      PROVE  Env(fresh(e)) /\ fresh(e).vars = e.vars /\ fresh(e).nvars = {}
  BY <1>2 DEF Env
<1> HIDE DEF barred, fresh
<1>3. CASE barred
  <2>0. v = Verdict(FALSE, fresh(en))
    BY <1>1, <1>3
  <2>1. v.env = fresh(en) /\ ~v.ok
    BY <2>0 DEF Verdict
  <2> QED
    BY <1>2, <2>1 DEF Knows
<1>4. CASE ~barred
  <2>1. v = MatchBodies(fresh(en), line.bodies, r.ins)
    BY <1>1, <1>4
  <2>2. /\ Grows(fresh(en), v.env)
        /\ \A U, f : Unnamed(line.bodies, U) /\ Knows(U, v.env, f) /\ v.ok =>
             Again(MatchBodies(f, line.bodies, r.ins), v, f)
    BY <1>2, <2>1, MatchBodiesAgain
  <2>3. Env(v.env) /\ Knows(W, en, v.env) /\ v.env.nvars \cap DOMAIN en.vars = {}
    BY <1>2, <2>2 DEF Grows, Knows
  <2>4. ASSUME v.ok, NEW f, Env(f), Knows(W, v.env, f) PROVE Fits(f, line, r)
    <3>1. Knows(W, v.env, fresh(f))
      BY <1>2, <2>4 DEF Knows
    <3>2. Again(MatchBodies(fresh(f), line.bodies, r.ins), v, fresh(f))
      BY <2>2, <2>4, <3>1
    <3>3. isMatchInst(f, line, r.ins, r.esp, r.efl) = MatchBodies(fresh(f), line.bodies, r.ins)
      BY <1>1, <1>4
    <3> QED
      BY <1>2, <2>4, <3>2, <3>3 DEF Again, Fits
  <2> QED
    BY <2>3, <2>4 DEF Said
<1> QED
  BY <1>3, <1>4

\* A statement that computes changes variables of W only.
LEMMA ExecuteKnows ==
  ASSUME NEW W, NEW en, Env(en), NEW s, s.type \in StatementTypes \ {"instruction"},
         s.type # "control" => s.var \in W
  PROVE  Env(Execute(en, s).env) /\ Knows(W, en, Execute(en, s).env)
<1>1. CASE s.type = "express"
  <2> DEFINE a == [x \in DOMAIN en.vars \cup {s.var} |->
                    IF x = s.var THEN [(IF Bound(en, s.var) THEN en.vars[s.var] ELSE BlankOperand)
                                        EXCEPT !.type = "imm", !.imm = ExprValue(en, s.expr)]
                                 ELSE en.vars[x]]
             e == [en EXCEPT !.vars = a]
  <2>1. Execute(en, s) = AssignExpress(en, s.var, s.expr)
    BY <1>1 DEF Execute
  <2>2. AssignExpress(en, s.var, s.expr) =
          IF ExprFails(en, s.expr) THEN Verdict(FALSE, en) ELSE Verdict(TRUE, e)
    BY DEF AssignExpress, Env
  <2>3. \A v \in DOMAIN en.vars \ {s.var} : v \in DOMAIN a /\ a[v] = en.vars[v]
    OBVIOUS
  <2> HIDE DEF a
  <2>4. Env(e) /\ e.vars = a
    BY DEF Env
  <2> HIDE DEF e
  <2>5. Execute(en, s).env \in {en, e}
    BY <2>1, <2>2 DEF Verdict
  <2> QED
    BY <1>1, <2>3, <2>4, <2>5 DEF Knows
<1>2. CASE s.type = "memexpr"
  <2>1. Execute(en, s) = AssignMemory(en, s.var, s.memexpr)
    BY <1>2 DEF Execute
  <2>2. PICK a : /\ AssignMemory(en, s.var, s.memexpr).env = [en EXCEPT !.vars = a]
                 /\ \A v \in DOMAIN en.vars \ {s.var} : v \in DOMAIN a /\ a[v] = en.vars[v]
    <3> DEFINE Known(x)    == ~IsVar(x) \/ Bound(en, x)
               t == s.memexpr
               ok == \A f \in {"base", "index", "size", "dispvar"} : Known(t[f])
               old == IF Bound(en, s.var) THEN en.vars[s.var] ELSE BlankOperand
               Field(x, f) == IF IsVar(x) THEN en.vars[x][f] ELSE x
               value == [old EXCEPT
                  !.type = t.type, !.scale = t.scale,
                  !.base = Field(t.base, "base"), !.index = Field(t.index, "base"),
                  !.size = Field(t.size, "size"),
                  !.imm = IF IsVar(t.dispvar) THEN en.vars[t.dispvar].imm ELSE t.imm]
               others == DOMAIN en.vars \ {s.var}
               a1 == [x \in others \cup {s.var} |-> IF x = s.var THEN value ELSE en.vars[x]]
               a2 == [x \in others |-> en.vars[x]]
    <3>1. AssignMemory(en, s.var, t) = IF ok THEN Verdict(TRUE, [en EXCEPT !.vars = a1])
                                       ELSE Verdict(FALSE, [en EXCEPT !.vars = a2])
      BY DEF AssignMemory, Env
    <3> HIDE DEF value, ok
    <3>2. \A v \in DOMAIN en.vars \ {s.var} :
            v \in DOMAIN a1 /\ a1[v] = en.vars[v] /\ v \in DOMAIN a2 /\ a2[v] = en.vars[v]
      OBVIOUS
    <3> HIDE DEF a1, a2
    <3>3. \/ AssignMemory(en, s.var, t).env = [en EXCEPT !.vars = a1]
          \/ AssignMemory(en, s.var, t).env = [en EXCEPT !.vars = a2]
      BY <3>1 DEF Verdict
    <3> HIDE DEF t
    <3>4. CASE AssignMemory(en, s.var, t).env = [en EXCEPT !.vars = a1]
      BY <3>2, <3>4 DEF t
    <3>5. CASE AssignMemory(en, s.var, t).env = [en EXCEPT !.vars = a2]
      BY <3>2, <3>5 DEF t
    <3> QED
      BY <3>3, <3>4, <3>5
  <2> DEFINE e == [en EXCEPT !.vars = a]
  <2>4. Env(e) /\ e.vars = a
    BY DEF Env
  <2> HIDE DEF e
  <2> QED
    BY <1>2, <2>1, <2>2, <2>4 DEF Knows, e
<1>3. CASE s.type = "control"
  <2> DEFINE ok == /\ Bound(en, s.var)
                   /\ (en.vars[s.var].opcode \in s.mnems) = ~s.not
  <2>1. Execute(en, s) = Verdict(ok, en)
    BY <1>3, Zenon DEF Execute
  <2> HIDE DEF ok
  <2> QED
    BY <2>1 DEF Verdict, Knows
<1> QED
  BY <1>1, <1>2, <1>3 DEF StatementTypes

\* Those of a compiled pattern.
Compiles(s, W) ==
  \A k \in 1..Len(s) :
    /\ s[k].type \in StatementTypes
    /\ s[k].type \in {"express", "memexpr"} => s[k].var \in W

\* From statement j on, up to the first that takes records, or to the end.
Reaches(s, W, en, j, x) ==
  /\ Env(x.env) /\ Knows(W, en, x.env)
  /\ x.at \in j..Len(s)+1
  /\ x.at <= Len(s) => s[x.at].type = "instruction"
  /\ \A i \in j..Len(s) : i < x.at => s[i].type # "instruction"

LEMMA ExecuteReaches ==
  ASSUME NEW s, Len(s) \in Nat, NEW W, Compiles(s, W), NEW j \in 1..Len(s)+1, NEW en, Env(en)
  PROVE  ExecuteFrom(s, en, j).ok => Reaches(s, W, en, j, ExecuteFrom(s, en, j))
<1> DEFINE L == Len(s)
           c == CHOOSE f : IsRan(s, en, j, L, f)
<1>1. ExecuteFrom(s, en, j) = c[L]
  BY DEF ExecuteFrom, IsRan, RanInit, RanNext
<1>2. IsRan(s, en, j, L, c)
  <2>1. j \in Nat /\ L \in Nat
    OBVIOUS
  <2>2. \E f : IsRan(s, en, j, L, f)
    BY <2>1, RanExists
  <2> QED
    BY <2>2
<1>3. \A n \in (j-1)..L : c[n] = IF n = j - 1 THEN RanInit(s, en) ELSE RanNext(s, c[n-1], n)
  BY <1>2, RanAt
<1> HIDE DEF c
\* After statement n.
<1> DEFINE Claim(x, n) ==
             /\ DOMAIN x = {"ok", "env", "at"}
             /\ x.ok => /\ Env(x.env) /\ Knows(W, en, x.env)
                        /\ \/ /\ x.at = L + 1
                              /\ \A i \in j..n : s[i].type # "instruction"
                           \/ /\ x.at \in j..n /\ s[x.at].type = "instruction"
                              /\ \A i \in j..x.at-1 : s[i].type # "instruction"
<1>4. Claim(c[j-1], j-1)
  <2>1. j - 1 \in (j-1)..L
    OBVIOUS
  <2>2. c[j-1] = RanInit(s, en)
    BY <1>3, <2>1
  <2> QED
    BY <2>2 DEF RanInit, Knows
<1>5. ASSUME NEW n \in j..L, Claim(c[n-1], n-1) PROVE Claim(c[n], n)
  <2> DEFINE x == c[n-1]
  <2>1. n \in (j-1)..L /\ n # j - 1 /\ n \in 1..L /\ n \in Nat
    OBVIOUS
  <2>2. c[n] = RanNext(s, x, n)
    BY <1>3, <2>1
  <2>3. Claim(x, n - 1)
    BY <1>5
  <2> HIDE DEF x
  <2>4. Claim(RanNext(s, x, n), n)
    <3>1. CASE ~x.ok \/ x.at <= L
      <4>1. RanNext(s, x, n) = x
        BY <3>1 DEF RanNext
      <4> QED
        BY <2>1, <2>3, <3>1, <4>1
    <3>2. CASE ~(~x.ok \/ x.at <= L) /\ s[n].type = "instruction"
      <4> DEFINE y == [x EXCEPT !.at = n]
      <4>1. RanNext(s, x, n) = y
        BY <3>2 DEF RanNext
      <4>2. x.at = L + 1 /\ x.ok /\ DOMAIN x = {"ok", "env", "at"}
        BY <2>3, <3>2
      <4>3. y.at = n /\ y.env = x.env /\ DOMAIN y = {"ok", "env", "at"}
        BY <4>2
      <4> HIDE DEF y
      <4>4. \A i \in j..n-1 : s[i].type # "instruction"
        BY <2>3, <4>2
      <4>5. Env(x.env) /\ Knows(W, en, x.env)
        BY <2>3, <4>2
      <4> QED
        BY <2>1, <3>2, <4>1, <4>3, <4>4, <4>5
    <3>3. CASE ~(~x.ok \/ x.at <= L) /\ s[n].type # "instruction"
      <4> DEFINE v == Execute(x.env, s[n])
      <4>1. RanNext(s, x, n) = [ok |-> v.ok, env |-> v.env, at |-> L + 1]
        BY <3>3 DEF RanNext
      <4>2. x.at = L + 1 /\ x.ok
        BY <2>3, <3>3
      <4>3. Env(x.env) /\ Knows(W, en, x.env) /\ \A i \in j..n-1 : s[i].type # "instruction"
        BY <2>3, <4>2
      <4>4. Env(v.env) /\ Knows(W, x.env, v.env)
        BY <2>1, <3>3, <4>3, ExecuteKnows DEF Compiles, StatementTypes
      <4> HIDE DEF v
      <4>5. Knows(W, en, v.env)
        BY <4>3, <4>4, KnowsTrans
      <4>6. \A i \in j..n : s[i].type # "instruction"
        BY <2>1, <3>3, <4>3
      <4> QED
        BY <4>1, <4>4, <4>5, <4>6
    <3> QED
      BY <3>1, <3>2, <3>3
  <2> QED
    BY <2>2, <2>4 DEF x
<1> DEFINE T == {n \in Nat : (j - 1) + n <= L => Claim(c[(j-1)+n], (j-1)+n)}
<1>6. T = Nat
  <2>1. 0 \in T
    <3>1. (j - 1) + 0 = j - 1
      OBVIOUS
    <3> HIDE DEF Claim
    <3> QED
      BY <1>4, <3>1
  <2>2. ASSUME NEW i \in T PROVE i + 1 \in T
    <3> SUFFICES ASSUME (j - 1) + (i + 1) <= L PROVE Claim(c[(j-1)+(i+1)], (j-1)+(i+1))
      OBVIOUS
    <3> DEFINE n == (j - 1) + (i + 1)
    <3> HIDE DEF Claim
    <3>1. n \in j..L /\ n - 1 = (j - 1) + i /\ Claim(c[n-1], n-1)
      OBVIOUS
    <3> QED
      BY <1>5, <3>1
  <2> HIDE DEF T
  <2>3. T \in SUBSET Nat
    BY DEF T
  <2> QED
    BY <2>1, <2>2, <2>3, InductionBySet
<1>7. Claim(c[L], L)
  <2>1. PICK d \in Nat : (j - 1) + d = L
    <3>1. L - (j - 1) \in Nat /\ (j - 1) + (L - (j - 1)) = L
      OBVIOUS
    <3> QED
      BY <3>1
  <2> HIDE DEF Claim
  <2>2. (j - 1) + d <= L => Claim(c[(j-1)+d], (j-1)+d)
    BY <1>6
  <2> QED
    BY <2>1, <2>2
<1>8. c[L].ok => Reaches(s, W, en, j, c[L])
  BY <1>7 DEF Reaches
<1> QED
  BY <1>1, <1>8

\* Forgetting what a try has bound.
LEMMA ForgetKnows ==
  ASSUME NEW run, DOMAIN run = RunFields, Env(run.env), NEW W, NEW en, Knows(W, en, run.env),
         run.env.nvars \cap DOMAIN en.vars = {}
  PROVE  Env(Forget(run).env) /\ Knows(W, en, Forget(run).env)
<1> DEFINE a == [v \in DOMAIN run.env.vars \ run.env.nvars |-> run.env.vars[v]]
           e == [run.env EXCEPT !.vars = a]
<1>1. Env(e) /\ e.vars = a
  BY DEF Env
<1>2. Forget(run).env = e
  BY DEF Forget, RunFields, Env
<1>3. \A v \in DOMAIN en.vars \ W : v \in DOMAIN a /\ a[v] = en.vars[v]
  BY DEF Knows
<1> QED
  BY <1>1, <1>2, <1>3 DEF Knows

-----------------------------------------------------------------------------
(***************************************************************************)
(* The blocks of a scan.  c[j] is the number of records that have gone to  *)
(* the statements up to j; statement k is the one that is waiting for the  *)
(* next record, and has l of them.                                         *)
(***************************************************************************)
Takes(s, k) == s[k].type = "instruction"
Blocks(s, W, en, w, n, c, k, l) ==
  /\ c \in [0..Len(s) -> 0..n]
  /\ c[0] = 0
  /\ \A j \in 1..Len(s) :
       /\ c[j-1] <= c[j]
       /\ ~Takes(s, j) => c[j] = c[j-1]
       /\ Takes(s, j) /\ j < k => c[j] - c[j-1] \in s[j].minc..s[j].maxc
       /\ j >= k => c[j] = n
       /\ \A x \in c[j-1]+1..c[j] : Said(W, en, s[j], w[x])
  /\ n - c[k-1] = l

LEMMA BlocksKnow ==
  ASSUME NEW s, NEW W, NEW a, NEW b, Knows(W, a, b), NEW w, NEW n, NEW c, NEW k, NEW l,
         Blocks(s, W, a, w, n, c, k, l)
  PROVE  Blocks(s, W, b, w, n, c, k, l)
<1>1. \A j \in 1..Len(s) : \A x \in c[j-1]+1..c[j] : Said(W, b, s[j], w[x])
  BY SaidOn DEF Blocks
<1> QED
  BY <1>1 DEF Blocks

\* The scan so far is all that counts of the window.
LEMMA BlocksSeen ==
  ASSUME NEW s, Len(s) \in Nat, NEW W, NEW en, NEW v, NEW w, NEW n \in Nat, \A x \in 1..n : w[x] = v[x],
         NEW c, NEW k, NEW l, Blocks(s, W, en, v, n, c, k, l)
  PROVE  Blocks(s, W, en, w, n, c, k, l)
<1>1. ASSUME NEW j \in 1..Len(s), NEW x \in c[j-1]+1..c[j] PROVE Said(W, en, s[j], w[x])
  <2>1. j - 1 \in 0..Len(s) /\ j \in 0..Len(s)
    OBVIOUS
  <2>2. c[j-1] \in 0..n /\ c[j] \in 0..n
    BY <2>1 DEF Blocks
  <2>3. x \in 1..n
    BY <2>2
  <2> QED
    BY <2>3 DEF Blocks
<1> QED
  BY <1>1 DEF Blocks

LEMMA BlocksBegin ==
  ASSUME NEW s, Len(s) \in Nat, NEW W, NEW en, NEW w, NEW k \in 1..Len(s)+1,
         \A j \in 1..k-1 : ~Takes(s, j)
  PROVE  \E c : Blocks(s, W, en, w, 0, c, k, 0)
<1> DEFINE c == [j \in 0..Len(s) |-> 0]
<1>1. /\ c \in [0..Len(s) -> 0..0]
      /\ \A j \in 0..Len(s) : c[j] = 0
  OBVIOUS
<1> HIDE DEF c
<1>2. \A j \in 1..Len(s) : c[j] = 0 /\ c[j-1] = 0
  BY <1>1
<1>3. c[k-1] = 0 /\ c[0] = 0
  BY <1>1
<1>4. \A j \in 1..Len(s) : Takes(s, j) => ~(j < k)
  OBVIOUS
<1> QED
  BY <1>1, <1>2, <1>3, <1>4 DEF Blocks

\* Record n + 1 goes to statement q, the one waiting or a later one.
LEMMA BlockNext ==
  ASSUME NEW s, Len(s) \in Nat, NEW W, NEW a, NEW w, NEW n \in Nat, NEW c,
         NEW k \in 1..Len(s), NEW l, Blocks(s, W, a, w, n, c, k, l),
         NEW b, Knows(W, a, b), NEW q \in k..Len(s), Said(W, b, s[q], w[n+1]),
         q > k /\ Takes(s, k) => l \in s[k].minc..s[k].maxc,
         \A j \in k+1..q-1 : Takes(s, j) => 0 \in s[j].minc..s[j].maxc,
         Takes(s, q)
  PROVE  \E d : Blocks(s, W, b, w, n + 1, d, q, IF q = k THEN l + 1 ELSE 1)
<1> DEFINE L == Len(s)
           d == [j \in 0..L |-> IF j >= q THEN n + 1 ELSE c[j]]
<1>1. c \in [0..L -> 0..n] /\ c[0] = 0 /\ n - c[k-1] = l
  BY DEF Blocks
<1>2. \A j \in 1..L :
        /\ c[j-1] <= c[j]
        /\ ~Takes(s, j) => c[j] = c[j-1]
        /\ Takes(s, j) /\ j < k => c[j] - c[j-1] \in s[j].minc..s[j].maxc
        /\ j >= k => c[j] = n
        /\ \A x \in c[j-1]+1..c[j] : Said(W, b, s[j], w[x])
  BY SaidOn DEF Blocks
<1>3. d \in [0..L -> 0..n+1]
  <2>1. \A j \in 0..L : c[j] \in 0..n
    BY <1>1
  <2>2. \A j \in 0..L : d[j] \in 0..n+1
    BY <2>1
  <2> QED
    BY <2>2
<1>4. \A j \in 0..L : d[j] = IF j >= q THEN n + 1 ELSE c[j]
  OBVIOUS
<1> HIDE DEF d
<1>5. d[0] = 0
  BY <1>1, <1>4
<1>6. c[q-1] = IF q = k THEN n - l ELSE n
  <2>1. q - 1 \in 0..L /\ c[q-1] \in 0..n /\ c[k-1] \in 0..n
    BY <1>1
  <2>2. q # k => q - 1 \in 1..L /\ q - 1 >= k
    OBVIOUS
  <2> QED
    BY <1>1, <1>2, <2>1, <2>2
<1>7. (n + 1) - d[q-1] = IF q = k THEN l + 1 ELSE 1
  <2>1. q - 1 \in 0..L /\ k - 1 \in 0..L /\ ~(q - 1 >= q)
    OBVIOUS
  <2>2. c[q-1] \in 0..n /\ c[k-1] \in 0..n
    BY <1>1, <2>1
  <2>3. d[q-1] = c[q-1]
    BY <1>4, <2>1
  <2>4. l \in Int
    BY <1>1, <2>2
  <2> QED
    BY <1>6, <2>3, <2>4
<1>8. ASSUME NEW j \in 1..L
      PROVE  /\ d[j-1] <= d[j]
             /\ ~Takes(s, j) => d[j] = d[j-1]
             /\ Takes(s, j) /\ j < q => d[j] - d[j-1] \in s[j].minc..s[j].maxc
             /\ j >= q => d[j] = n + 1
             /\ \A x \in d[j-1]+1..d[j] : Said(W, b, s[j], w[x])
  <2>1. j - 1 \in 0..L /\ j \in 0..L /\ c[j] \in 0..n /\ c[j-1] \in 0..n
    BY <1>1
  <2>2. CASE j < q
    <3>1. d[j] = c[j] /\ d[j-1] = c[j-1]
      BY <1>4, <2>1, <2>2
    <3>2. Takes(s, j) => c[j] - c[j-1] \in s[j].minc..s[j].maxc
      <4>1. CASE j < k
        BY <1>2, <4>1
      <4>2. CASE j = k
        <5>1. c[j] = n /\ c[j] - c[j-1] = l
          BY <1>1, <1>2, <2>1, <4>2
        <5> QED
          BY <2>2, <4>2, <5>1
      <4>3. CASE j > k
        <5>1. j - 1 \in 1..L /\ j - 1 >= k /\ j \in k+1..q-1
          BY <2>2, <4>3
        <5>2. c[j] = n /\ c[j-1] = n
          BY <1>2, <4>3, <5>1
        <5>3. c[j] - c[j-1] = 0
          BY <5>2
        <5> QED
          BY <5>1, <5>3
      <4> QED
        BY <4>1, <4>2, <4>3
    <3> QED
      BY <1>2, <2>2, <3>1, <3>2
  <2>3. CASE j = q
    <3>1. d[j] = n + 1 /\ d[j-1] = c[j-1] /\ c[j] = n
      BY <1>2, <1>4, <2>1, <2>3
    <3>2. ASSUME NEW x \in d[j-1]+1..d[j] PROVE Said(W, b, s[j], w[x])
      <4>1. CASE x = n + 1
        BY <2>3, <4>1
      <4>2. CASE x # n + 1
        <5>1. x \in c[j-1]+1..c[j]
          BY <2>1, <3>1, <3>2, <4>2
        <5> QED
          BY <1>2, <5>1
      <4> QED
        BY <4>1, <4>2
    <3> QED
      BY <2>1, <2>3, <3>1, <3>2
  <2>4. CASE j > q
    <3>1. d[j] = n + 1 /\ d[j-1] = n + 1
      BY <1>4, <2>1, <2>4
    <3> QED
      BY <2>4, <3>1
  <2> QED
    BY <2>2, <2>3, <2>4
<1>9. Blocks(s, W, b, w, n + 1, d, q, IF q = k THEN l + 1 ELSE 1)
  BY <1>3, <1>5, <1>7, <1>8 DEF Blocks
<1> QED
  BY <1>9

\* Statement q has had enough, and k is the next that takes records, if there is one.
LEMMA BlockLeft ==
  ASSUME NEW s, Len(s) \in Nat, NEW W, NEW en, NEW w, NEW n \in Nat, NEW c,
         NEW q \in 1..Len(s), NEW l, Blocks(s, W, en, w, n, c, q, l),
         l \in s[q].minc..s[q].maxc,
         NEW k \in q+1..Len(s)+1, \A j \in q+1..k-1 : ~Takes(s, j)
  PROVE  Blocks(s, W, en, w, n, c, k, 0)
<1>1. /\ c \in [0..Len(s) -> 0..n] /\ c[0] = 0 /\ n - c[q-1] = l
      /\ \A j \in 1..Len(s) :
        /\ c[j-1] <= c[j]
        /\ ~Takes(s, j) => c[j] = c[j-1]
        /\ Takes(s, j) /\ j < q => c[j] - c[j-1] \in s[j].minc..s[j].maxc
        /\ j >= q => c[j] = n
        /\ \A x \in c[j-1]+1..c[j] : Said(W, en, s[j], w[x])
  BY DEF Blocks
<1>2. n - c[k-1] = 0
  <2>1. k - 1 \in 1..Len(s) /\ k - 1 >= q
    OBVIOUS
  <2>2. c[k-1] = n
    BY <1>1, <2>1
  <2> QED
    BY <2>2
<1>3. ASSUME NEW j \in 1..Len(s), Takes(s, j), j < k
      PROVE  c[j] - c[j-1] \in s[j].minc..s[j].maxc
  <2>1. j < q \/ j = q
    <3>1. ~(j \in q+1..k-1)
      BY <1>3
    <3> QED
      BY <1>3, <3>1
  <2>2. CASE j < q
    BY <1>1, <1>3, <2>2
  <2>3. CASE j = q
    <3>1. c[j] = n
      BY <1>1, <2>3
    <3> QED
      BY <1>1, <2>3, <3>1
  <2> QED
    BY <2>1, <2>2, <2>3
<1>4. \A j \in 1..Len(s) : j >= k => c[j] = n
  BY <1>1
<1> QED
  BY <1>1, <1>2, <1>3, <1>4 DEF Blocks

-----------------------------------------------------------------------------
(***************************************************************************)
(* One record against a run.                                               *)
(***************************************************************************)
Described(s, W) ==
  /\ Len(s) \in Nat /\ Compiles(s, W)
  /\ \A k \in 1..Len(s) :
       /\ Len(s[k].bodies) \in Nat
       /\ ~Takes(s, k) => Len(s[k].bodies) = 0
       /\ Tellable(s[k].bodies) /\ Unnamed(s[k].bodies, W)
       /\ Takes(s, k) =>
            /\ s[k].minc \in Nat /\ s[k].maxc \in Nat /\ s[k].minc <= s[k].maxc
            /\ s[k].less =>
                 /\ s[k].minc = 0
                 /\ k + 1 <= Len(s) /\ Takes(s, k + 1) => 1 \in s[k+1].minc..s[k+1].maxc

\* Statement k is the one waiting, and has l records.
Counting(run, s, k, l) ==
  /\ Shaped(run, Len(s)) /\ Env(run.env)
  /\ k \in 1..Len(s) /\ Takes(s, k) /\ l \in 0..s[k].maxc
  /\ run.inst \in 1..k /\ \A j \in run.inst..k-1 : ~Takes(s, j)
  /\ run.matched[k] = l /\ \A j \in k+1..Len(s) : run.matched[j] = 0

LEMMA NoBodies ==
  ASSUME NEW en, NEW bodies, Len(bodies) = 0, NEW ins
  PROVE  ~MatchBodies(en, bodies, ins).ok
<1>1. PICK f : IsTried(en, bodies, ins, Len(bodies), f) /\ MatchBodies(en, bodies, ins) = f[Len(bodies)].v
  BY MatchBodiesIs
<1>2. IsTried(en, bodies, ins, 0, f) /\ MatchBodies(en, bodies, ins) = f[0].v
  BY <1>1
<1>3. f = [k \in 0..0 |-> IF k = 0 THEN NoTry(en) ELSE NextTry(f[k-1], bodies[k], ins)]
  BY <1>2 DEF IsTried
<1>4. f[0] = NoTry(en)
  BY <1>3
<1> QED
  BY <1>2, <1>4 DEF NoTry, Verdict

\* What a try of statement j makes of a run.
TryOf(t, s, W, run, j, r) ==
  /\ Shaped(t.run, Len(s)) /\ Env(t.run.env) /\ Knows(W, run.env, t.run.env)
  /\ t.run.env.nvars \cap DOMAIN run.env.vars = {}
  /\ t.run.inst = run.inst
  /\ t.run.matched = [run.matched EXCEPT ![j] = IF t.ok THEN @ + 1 ELSE @]
  /\ t.ok => Takes(s, j) /\ Said(W, t.run.env, s[j], r)

LEMMA TryKnows ==
  ASSUME NEW s, NEW W, Described(s, W), NEW run, Shaped(run, Len(s)), Env(run.env),
         NEW j \in 1..Len(s), NEW r, NEW t, t = TryStatement(s, run, j, r)
  PROVE  TryOf(t, s, W, run, j, r)
<1> DEFINE v == isMatchInst(run.env, s[j], r.ins, r.esp, r.efl)
           u == [run EXCEPT !.env = v.env,
                            !.matched[j]  = IF v.ok THEN @ + 1 ELSE @,
                            !.userdata[j] = IF v.ok THEN r.id ELSE @]
<1>1. t.run = u /\ t.ok = v.ok
  BY DEF TryStatement, Counted
<1>2. /\ Env(v.env) /\ Knows(W, run.env, v.env)
      /\ v.env.nvars \cap DOMAIN run.env.vars = {}
      /\ v.ok => Said(W, v.env, s[j], r)
  BY LineAgain DEF Described
<1>3. v.ok => Takes(s, j)
  <2> SUFFICES ASSUME ~Takes(s, j) PROVE ~v.ok
    OBVIOUS
  <2>1. Len(s[j].bodies) = 0
    BY DEF Described
  <2> DEFINE barred == (s[j].stack /\ r.esp) \/ (s[j].eflags /\ r.efl)
             fresh == [run.env EXCEPT !.nvars = {}]
  <2>2. v = IF barred THEN Verdict(FALSE, fresh) ELSE MatchBodies(fresh, s[j].bodies, r.ins)
    BY DEF isMatchInst
  <2> HIDE DEF barred, fresh, v
  <2>3. ~MatchBodies(fresh, s[j].bodies, r.ins).ok
    BY <2>1, NoBodies
  <2> QED
    BY <2>2, <2>3 DEF Verdict
<1> HIDE DEF v
<1>4. /\ Shaped(u, Len(s)) /\ u.env = v.env
      /\ u.inst = run.inst
      /\ u.matched = [run.matched EXCEPT ![j] = IF v.ok THEN @ + 1 ELSE @]
  BY DEF Shaped, RunFields
<1> HIDE DEF u
<1> QED
  BY <1>1, <1>2, <1>3, <1>4 DEF TryOf

\* Statement q has been given record r, its l-th, and is the one waiting or has been left.
Given(run, s, W, en, q, l, r) ==
  /\ Shaped(run, Len(s)) /\ Env(run.env) /\ Knows(W, en, run.env)
  /\ q \in 1..Len(s) /\ Takes(s, q) /\ Said(W, run.env, s[q], r)
  /\ \A j \in q+1..Len(s) : run.matched[j] = 0
  /\ \/ /\ run.inst \in 1..q /\ \A j \in run.inst..q-1 : ~Takes(s, j)
        /\ run.matched[q] = l /\ l \in 0..s[q].maxc
     \/ run.inst = q + 1 /\ l \in s[q].minc..s[q].maxc

LEMMA ShapedInst ==
  ASSUME NEW run, NEW m, Shaped(run, m), NEW x, NEW u, u = [run EXCEPT !.inst = x]
  PROVE  Shaped(u, m) /\ u.inst = x /\ u.env = run.env /\ u.matched = run.matched
BY DEF Shaped, RunFields

LEMMA ShapedEnv ==
  ASSUME NEW run, NEW m, Shaped(run, m), NEW x, NEW u, u = [run EXCEPT !.env = x]
  PROVE  Shaped(u, m) /\ u.inst = run.inst /\ u.env = x /\ u.matched = run.matched
BY DEF Shaped, RunFields

LEMMA ForgetShaped ==
  ASSUME NEW run, NEW m, Shaped(run, m)
  PROVE  Shaped(Forget(run), m) /\ Forget(run).inst = run.inst /\ Forget(run).matched = run.matched
BY DEF Shaped, RunFields, Forget

\* Statement k has just taken its l-th record.
LEMMA AdvanceGives ==
  ASSUME NEW s, NEW W, Described(s, W), NEW run, Shaped(run, Len(s)), Env(run.env),
         NEW k \in 1..Len(s), Takes(s, k), NEW l \in 1..s[k].maxc, run.matched[k] = l,
         \A j \in k+1..Len(s) : run.matched[j] = 0,
         run.inst \in 1..k, \A j \in run.inst..k-1 : ~Takes(s, j),
         NEW r, Said(W, run.env, s[k], r)
  PROVE  \/ Given(Advance(s, run, k, r), s, W, run.env, k, l, r)
         \/ /\ s[k].minc = 0 /\ k + 1 <= Len(s)
            /\ Given(Advance(s, run, k, r), s, W, run.env, k + 1, 1, r)
<1>1. /\ s[k].minc \in Nat /\ s[k].maxc \in Nat /\ s[k].minc <= s[k].maxc /\ Len(s) \in Nat
      /\ s[k].less =>
           /\ s[k].minc = 0
           /\ k + 1 <= Len(s) /\ Takes(s, k + 1) => 1 \in s[k+1].minc..s[k+1].maxc
  BY DEF Described
<1>2. Given(run, s, W, run.env, k, l, r)
  BY <1>1 DEF Given, Knows
<1>3. CASE l < s[k].minc
  <2>1. Advance(s, run, k, r) = run
    BY <1>1, <1>3 DEF Advance
  <2> QED
    BY <1>2, <2>1
<1>4. CASE l >= s[k].minc /\ l = s[k].maxc
  <2> DEFINE moved == [run EXCEPT !.inst = k + 1]
  <2>1. Advance(s, run, k, r) = moved
    BY <1>1, <1>4 DEF Advance
  <2>2. /\ Shaped(moved, Len(s)) /\ moved.inst = k + 1 /\ moved.env = run.env
        /\ moved.matched = run.matched
    <3>1. moved = [run EXCEPT !.inst = k + 1]
      OBVIOUS
    <3> HIDE DEF moved
    <3> QED
      BY <3>1, ShapedInst
  <2> HIDE DEF moved
  <2>3. Given(moved, s, W, run.env, k, l, r)
    BY <1>1, <1>4, <2>2 DEF Given, Knows
  <2> QED
    BY <2>1, <2>3
<1>5. CASE l >= s[k].minc /\ l # s[k].maxc
  <2>1. Advance(s, run, k, r) = IF s[k].less THEN TryLazily(s, run, k, r) ELSE run
    BY <1>1, <1>5 DEF Advance
  <2>2. CASE ~s[k].less \/ k + 1 > Len(s)
    <3>1. Advance(s, run, k, r) = run
      BY <2>1, <2>2 DEF TryLazily
    <3> QED
      BY <1>2, <3>1
  <2>3. CASE s[k].less /\ ~(k + 1 > Len(s))
    <3> DEFINE t == TryStatement(s, run, k + 1, r)
    <3>1. Advance(s, run, k, r) = TakenOver(t, k + 1)
      BY <2>1, <2>3 DEF TryLazily
    <3>2. TryOf(t, s, W, run, k + 1, r)
      <4>1. k + 1 \in 1..Len(s)
        BY <1>1, <2>3
      <4> QED
        BY <4>1, TryKnows
    <3> HIDE DEF t
    <3>3. CASE t.ok
      <4> DEFINE moved == [t.run EXCEPT !.inst = (k + 1) + 1]
      <4>1. Advance(s, run, k, r) = moved
        BY <3>1, <3>3 DEF TakenOver
      <4>2. /\ Shaped(moved, Len(s)) /\ moved.inst = (k + 1) + 1 /\ moved.env = t.run.env
            /\ moved.matched = t.run.matched
        <5>1. moved = [t.run EXCEPT !.inst = (k + 1) + 1] /\ Shaped(t.run, Len(s))
          BY <3>2 DEF TryOf
        <5> HIDE DEF moved
        <5> QED
          BY <5>1, ShapedInst
      <4> HIDE DEF moved
      <4>3. \A j \in (k+1)+1..Len(s) : moved.matched[j] = 0
        BY <3>2, <4>2 DEF TryOf
      <4>4. Given(moved, s, W, run.env, k + 1, 1, r)
        BY <1>1, <2>3, <3>2, <3>3, <4>2, <4>3 DEF Given, TryOf
      <4> QED
        BY <1>1, <2>3, <4>1, <4>4
    <3>4. CASE ~t.ok
      <4>1. Advance(s, run, k, r) = Forget(t.run)
        BY <3>1, <3>4 DEF TakenOver
      <4>2. /\ Shaped(Forget(t.run), Len(s)) /\ Forget(t.run).inst = run.inst
            /\ Forget(t.run).matched = t.run.matched
        BY <3>2, ForgetShaped DEF TryOf
      <4>3. Env(Forget(t.run).env) /\ Knows(W, run.env, Forget(t.run).env)
        BY <3>2, ForgetKnows DEF TryOf, Shaped
      <4>4. /\ Forget(t.run).matched[k] = l
            /\ \A j \in k+1..Len(s) : Forget(t.run).matched[j] = 0
        BY <3>2, <3>4, <4>2 DEF TryOf, Shaped
      <4>5. Said(W, Forget(t.run).env, s[k], r)
        BY <4>3, SaidOn
      <4>6. Given(Forget(t.run), s, W, run.env, k, l, r)
        BY <1>1, <4>2, <4>3, <4>4, <4>5 DEF Given
      <4> QED
        BY <4>1, <4>6
    <3> QED
      BY <3>3, <3>4
  <2> QED
    BY <2>2, <2>3
<1> QED
  BY <1>1, <1>3, <1>4, <1>5

LEMMA GivenSince ==
  ASSUME NEW run, NEW s, NEW W, NEW a, NEW b, Knows(W, a, b), NEW q, NEW l, NEW r,
         Given(run, s, W, b, q, l, r)
  PROVE  Given(run, s, W, a, q, l, r)
BY KnowsTrans DEF Given

\* The record goes to the statement waiting, k, or to one of the next two.
Placed(run, s, W, en, k, l, r, q, l1) ==
  /\ q \in k..Len(s) /\ l1 = IF q = k THEN l + 1 ELSE 1
  /\ Given(run, s, W, en, q, l1, r)
  /\ q > k => l \in s[k].minc..s[k].maxc
  /\ \A j \in k+1..q-1 : Takes(s, j) => 0 \in s[j].minc..s[j].maxc

LEMMA TestPlaces ==
  ASSUME NEW s, NEW W, Described(s, W), NEW run, NEW k, NEW l, Counting(run, s, k, l), NEW r,
         NEW o, o = testForInstruction(s, run, k, r), o.state # "fail"
  PROVE  o.state = "more" /\ \E q, l1 : Placed(o.run, s, W, run.env, k, l, r, q, l1)
<1> DEFINE t == TryStatement(s, run, k, r)
<1>1. /\ Shaped(run, Len(s)) /\ Env(run.env)
      /\ k \in 1..Len(s) /\ Takes(s, k) /\ l \in 0..s[k].maxc
      /\ run.inst \in 1..k /\ \A j \in run.inst..k-1 : ~Takes(s, j)
      /\ run.matched[k] = l /\ \A j \in k+1..Len(s) : run.matched[j] = 0
      /\ DOMAIN run.matched = 1..Len(s)
  BY DEF Counting, Shaped
<1>2. s[k].minc \in Nat /\ s[k].maxc \in Nat /\ s[k].minc <= s[k].maxc /\ Len(s) \in Nat
  BY <1>1 DEF Described
<1>3. TryOf(t, s, W, run, k, r)
  BY <1>1, TryKnows
<1>4. o = TakeOrGiveWay(s, t, k, r)
  BY DEF testForInstruction
<1> HIDE DEF t
<1>5. /\ t.run.matched[k] = IF t.ok THEN l + 1 ELSE l
      /\ \A j \in k+1..Len(s) : t.run.matched[j] = 0
  BY <1>1, <1>2, <1>3 DEF TryOf
<1>6. CASE t.ok /\ Room(s, t.run, k)
  <2>1. o = Outcome("more", Advance(s, t.run, k, r))
    BY <1>4, <1>6 DEF TakeOrGiveWay
  <2>2. o.state = "more" /\ o.run = Advance(s, t.run, k, r)
    BY <2>1 DEF Outcome
  <2>3. l + 1 \in 1..s[k].maxc
    BY <1>1, <1>2, <1>5, <1>6 DEF Room
  <2>4. /\ Shaped(t.run, Len(s)) /\ Env(t.run.env) /\ t.run.inst = run.inst
        /\ Said(W, t.run.env, s[k], r) /\ Knows(W, run.env, t.run.env)
    BY <1>3, <1>6 DEF TryOf
  <2>5. \/ Given(o.run, s, W, t.run.env, k, l + 1, r)
        \/ /\ s[k].minc = 0 /\ k + 1 <= Len(s)
           /\ Given(o.run, s, W, t.run.env, k + 1, 1, r)
    BY <1>1, <1>5, <1>6, <2>2, <2>3, <2>4, AdvanceGives
  <2>6. CASE Given(o.run, s, W, t.run.env, k, l + 1, r)
    <3>1. Given(o.run, s, W, run.env, k, l + 1, r)
      BY <2>4, <2>6, GivenSince
    <3>2. Placed(o.run, s, W, run.env, k, l, r, k, l + 1)
      BY <1>1, <1>2, <3>1 DEF Placed
    <3> QED
      BY <2>2, <3>2
  <2>7. CASE /\ s[k].minc = 0 /\ k + 1 <= Len(s)
             /\ Given(o.run, s, W, t.run.env, k + 1, 1, r)
    <3>1. Given(o.run, s, W, run.env, k + 1, 1, r)
      BY <2>4, <2>7, GivenSince
    <3>2. Placed(o.run, s, W, run.env, k, l, r, k + 1, 1)
      BY <1>1, <1>2, <2>7, <3>1 DEF Placed
    <3> QED
      BY <2>2, <3>2
  <2> QED
    BY <2>5, <2>6, <2>7
<1>7. CASE ~(t.ok /\ Room(s, t.run, k))
  <2> DEFINE moved == [t.run EXCEPT !.inst = k + 1]
             u == TryStatement(s, moved, k + 1, r)
  <2>1. /\ ~(t.run.matched[k] < s[k].minc) /\ ~(k + 1 > Len(s))
        /\ o = TakeOrFail(s, u, k + 1, r)
    BY <1>4, <1>7 DEF TakeOrGiveWay, Outcome
  <2>2. l \in s[k].minc..s[k].maxc
    <3>1. CASE ~t.ok
      BY <1>1, <1>2, <1>5, <2>1, <3>1
    <3>2. CASE t.ok
      BY <1>1, <1>2, <1>5, <1>7, <2>1, <3>2 DEF Room
    <3> QED
      BY <3>1, <3>2
  <2>3. /\ Shaped(moved, Len(s)) /\ moved.inst = k + 1
        /\ moved.env = t.run.env /\ moved.matched = t.run.matched
    <3>1. moved = [t.run EXCEPT !.inst = k + 1] /\ Shaped(t.run, Len(s))
      BY <1>3 DEF TryOf
    <3> HIDE DEF moved
    <3> QED
      BY <3>1, ShapedInst
  <2> HIDE DEF moved
  <2>4. k + 1 \in 1..Len(s)
    BY <1>1, <1>2, <2>1
  <2>5. Env(moved.env) /\ Knows(W, run.env, moved.env)
    BY <1>3, <2>3 DEF TryOf
  <2>6. TryOf(u, s, W, moved, k + 1, r)
    BY <2>3, <2>4, <2>5, TryKnows
  <2> HIDE DEF u
  <2>7. u.ok /\ Room(s, u.run, k + 1) /\ o = Outcome("more", Advance(s, u.run, k + 1, r))
    BY <2>1 DEF TakeOrFail, Outcome
  <2>8. o.state = "more" /\ o.run = Advance(s, u.run, k + 1, r)
    BY <2>7 DEF Outcome
  <2>9. /\ u.run.matched[k+1] = 1 /\ \A j \in (k+1)+1..Len(s) : u.run.matched[j] = 0
        /\ Takes(s, k + 1) /\ Said(W, u.run.env, s[k+1], r)
        /\ Shaped(u.run, Len(s)) /\ Env(u.run.env) /\ u.run.inst = k + 1
        /\ Knows(W, moved.env, u.run.env)
    <3>1. DOMAIN moved.matched = 1..Len(s)
      BY <2>3 DEF Shaped
    <3> QED
      BY <1>1, <1>2, <1>5, <2>3, <2>4, <2>6, <2>7, <3>1 DEF TryOf
  <2>10. /\ s[k+1].minc \in Nat /\ s[k+1].maxc \in Nat /\ s[k+1].minc <= s[k+1].maxc
    BY <2>4, <2>9 DEF Described
  <2>11. 1 \in 1..s[k+1].maxc
    BY <2>7, <2>9, <2>10 DEF Room
  <2>12. \/ Given(o.run, s, W, u.run.env, k + 1, 1, r)
         \/ /\ s[k+1].minc = 0 /\ (k + 1) + 1 <= Len(s)
            /\ Given(o.run, s, W, u.run.env, (k + 1) + 1, 1, r)
    <3>1. u.run.inst \in 1..k+1 /\ \A j \in u.run.inst..(k+1)-1 : ~Takes(s, j)
      BY <1>1, <2>9
    <3> QED
      BY <2>4, <2>8, <2>9, <2>11, <3>1, AdvanceGives
  <2>13. Knows(W, run.env, u.run.env)
    BY <2>5, <2>9, KnowsTrans
  <2>14. CASE Given(o.run, s, W, u.run.env, k + 1, 1, r)
    <3>1. Given(o.run, s, W, run.env, k + 1, 1, r)
      BY <2>13, <2>14, GivenSince
    <3>2. Placed(o.run, s, W, run.env, k, l, r, k + 1, 1)
      BY <1>1, <1>2, <2>2, <2>4, <3>1 DEF Placed
    <3> QED
      BY <2>8, <3>2
  <2>15. CASE /\ s[k+1].minc = 0 /\ (k + 1) + 1 <= Len(s)
              /\ Given(o.run, s, W, u.run.env, (k + 1) + 1, 1, r)
    <3>1. Given(o.run, s, W, run.env, (k + 1) + 1, 1, r)
      BY <2>13, <2>15, GivenSince
    <3>2. \A j \in k+1..((k+1)+1)-1 : j = k + 1
      BY <1>1
    <3>3. Placed(o.run, s, W, run.env, k, l, r, (k + 1) + 1, 1)
      BY <1>1, <1>2, <2>2, <2>10, <2>15, <3>1, <3>2 DEF Placed
    <3> QED
      BY <2>8, <3>3
  <2> QED
    BY <2>12, <2>14, <2>15
<1> QED
  BY <1>6, <1>7

\* Where a run stands after n records.
Stands(run, s, W, w, n, c, k, l) ==
  Blocks(s, W, run.env, w, n, c, k, l) /\ Counting(run, s, k, l)
Ended(run, s, W, w, n, c) ==
  Blocks(s, W, run.env, w, n, c, Len(s) + 1, 0) /\ Env(run.env)

LEMMA TestedStands ==
  ASSUME NEW s, NEW W, Described(s, W), NEW run, NEW w, NEW n \in Nat, NEW c, NEW k, NEW l,
         Stands(run, s, W, w, n, c, k, l),
         NEW o, o = Tested(s, testForInstruction(s, run, k, w[n+1])), o.state # "fail"
  PROVE  \/ o.state = "more" /\ \E d, q, m : Stands(o.run, s, W, w, n + 1, d, q, m)
         \/ o.state = "match" /\ \E d : Ended(o.run, s, W, w, n + 1, d)
<1> DEFINE t == testForInstruction(s, run, k, w[n+1])
           L == Len(s)
<1>0. L \in Nat /\ Compiles(s, W)
  BY DEF Described
<1>1. t.state # "fail" /\ o = IF t.run.inst > L THEN Outcome("match", t.run)
                              ELSE Followed(s, t.run, ExecuteFrom(s, t.run.env, t.run.inst))
  BY DEF Tested
<1>2. PICK q, m : Placed(t.run, s, W, run.env, k, l, w[n+1], q, m)
  BY <1>1, TestPlaces DEF Stands
<1> HIDE DEF t
<1>3. /\ k \in 1..L /\ Takes(s, k) /\ Blocks(s, W, run.env, w, n, c, k, l)
  BY DEF Stands, Counting
<1>4. /\ q \in k..L /\ m = (IF q = k THEN l + 1 ELSE 1)
      /\ Given(t.run, s, W, run.env, q, m, w[n+1])
      /\ q > k => l \in s[k].minc..s[k].maxc
      /\ \A j \in k+1..q-1 : Takes(s, j) => 0 \in s[j].minc..s[j].maxc
  BY <1>2 DEF Placed
<1>5. /\ Shaped(t.run, L) /\ Env(t.run.env) /\ Knows(W, run.env, t.run.env)
      /\ Takes(s, q) /\ Said(W, t.run.env, s[q], w[n+1])
      /\ \A j \in q+1..L : t.run.matched[j] = 0
  BY <1>4 DEF Given
<1>6. \/ /\ t.run.inst \in 1..q /\ \A j \in t.run.inst..q-1 : ~Takes(s, j)
         /\ t.run.matched[q] = m /\ m \in 0..s[q].maxc
      \/ t.run.inst = q + 1 /\ m \in s[q].minc..s[q].maxc
  BY <1>4 DEF Given
<1>7. PICK d : Blocks(s, W, t.run.env, w, n + 1, d, q, m)
  BY <1>0, <1>3, <1>4, <1>5, BlockNext
<1>8. CASE t.run.inst > L
  <2>1. q = L /\ t.run.inst = q + 1 /\ m \in s[q].minc..s[q].maxc
    BY <1>0, <1>3, <1>4, <1>6, <1>8
  <2>2. L + 1 \in q+1..L+1 /\ q \in 1..L /\ n + 1 \in Nat
    BY <1>0, <1>3, <2>1
  <2>3. \A j \in q+1..(L+1)-1 : ~Takes(s, j)
    BY <1>0, <2>1
  <2>4. Blocks(s, W, t.run.env, w, n + 1, d, L + 1, 0)
    BY <1>0, <1>7, <2>1, <2>2, <2>3, BlockLeft
  <2>5. o.state = "match" /\ o.run = t.run
    BY <1>1, <1>8 DEF Outcome
  <2> QED
    BY <1>5, <2>4, <2>5 DEF Ended
<1>9. CASE ~(t.run.inst > L)
  <2> DEFINE x == ExecuteFrom(s, t.run.env, t.run.inst)
             final == [t.run EXCEPT !.env = x.env]
  <2>1. t.run.inst \in 1..L+1
    BY <1>0, <1>3, <1>4, <1>6, <1>9
  <2>2. o = Followed(s, t.run, x)
    BY <1>1, <1>9
  <2>3. x.ok => Reaches(s, W, t.run.env, t.run.inst, x)
    BY <1>0, <1>5, <2>1, ExecuteReaches
  <2> HIDE DEF x
  <2>4. x.ok /\ o = Outcome(IF x.at > L THEN "match" ELSE "more", final)
    BY <2>2 DEF Followed, Outcome
  <2>5. o.run = final /\ o.state = IF x.at > L THEN "match" ELSE "more"
    BY <2>4 DEF Outcome
  <2>6. /\ Env(x.env) /\ Knows(W, t.run.env, x.env)
        /\ x.at \in t.run.inst..L+1
        /\ x.at <= L => Takes(s, x.at)
        /\ \A i \in t.run.inst..L : i < x.at => ~Takes(s, i)
    BY <2>3, <2>4 DEF Reaches, Takes
  <2>7. Shaped(final, L) /\ final.inst = t.run.inst /\ final.env = x.env
        /\ final.matched = t.run.matched
    <3> DEFINE e == x.env
               u == t.run
    <3>1. final = [u EXCEPT !.env = e] /\ Shaped(u, L)
      BY <1>5
    <3> HIDE DEF final, e, u
    <3>2. Shaped(final, L) /\ final.inst = u.inst /\ final.env = e /\ final.matched = u.matched
      BY <3>1 DEF Shaped, RunFields
    <3> QED
      BY <3>2 DEF e, u
  <2> HIDE DEF final
  <2>8. Blocks(s, W, final.env, w, n + 1, d, q, m)
    BY <1>7, <2>6, <2>7, BlocksKnow
  <2>9. CASE /\ t.run.inst \in 1..q /\ \A j \in t.run.inst..q-1 : ~Takes(s, j)
             /\ t.run.matched[q] = m /\ m \in 0..s[q].maxc
    <3>1. x.at = q
      <4>1. q \in t.run.inst..L
        BY <1>0, <1>3, <1>4, <2>9
      <4>2. ~(q < x.at)
        BY <1>5, <2>6, <4>1
      <4>3. x.at <= q
        BY <1>0, <1>3, <1>4, <2>1, <2>6, <4>2
      <4>4. Takes(s, x.at)
        BY <1>0, <1>3, <1>4, <2>1, <2>6, <4>3
      <4>5. x.at \notin t.run.inst..q-1
        BY <2>9, <4>4
      <4> QED
        BY <1>0, <1>3, <1>4, <2>1, <2>6, <4>3, <4>5
    <3>2. o.state = "more"
      BY <1>0, <1>3, <1>4, <2>5, <3>1
    <3>3. Counting(final, s, q, m)
      BY <1>0, <1>3, <1>4, <1>5, <2>6, <2>7, <2>9 DEF Counting
    <3>4. Stands(o.run, s, W, w, n + 1, d, q, m)
      BY <2>5, <2>8, <3>3 DEF Stands
    <3> QED
      BY <3>2, <3>4
  <2>10. CASE t.run.inst = q + 1 /\ m \in s[q].minc..s[q].maxc
    <3>1. x.at \in q+1..L+1 /\ q \in 1..L /\ n + 1 \in Nat
      BY <1>0, <1>3, <1>4, <2>6, <2>10
    <3>2. \A j \in q+1..x.at-1 : ~Takes(s, j)
      <4>1. ASSUME NEW j \in q+1..x.at-1 PROVE j \in t.run.inst..L /\ j < x.at
        BY <1>0, <2>10, <3>1
      <4> QED
        BY <2>6, <4>1
    <3>3. Blocks(s, W, final.env, w, n + 1, d, x.at, 0)
      BY <1>0, <2>8, <2>10, <3>1, <3>2, BlockLeft
    <3>4. CASE x.at > L
      <4>1. x.at = L + 1
        BY <1>0, <3>1, <3>4
      <4>2. Ended(o.run, s, W, w, n + 1, d)
        BY <2>5, <2>6, <2>7, <3>3, <4>1 DEF Ended
      <4> QED
        BY <2>5, <3>4, <4>2
    <3>5. CASE ~(x.at > L)
      <4>1. x.at \in 1..L /\ Takes(s, x.at) /\ x.at \in q+1..L
        BY <1>0, <2>6, <3>1, <3>5
      <4>2. s[x.at].maxc \in Nat
        BY <4>1 DEF Described
      <4>3. final.matched[x.at] = 0 /\ \A j \in x.at+1..L : final.matched[j] = 0
        <5>1. \A j \in x.at+1..L : j \in q+1..L
          BY <1>0, <3>1, <4>1
        <5> QED
          BY <1>5, <2>7, <4>1, <5>1
      <4>4. final.inst \in 1..x.at /\ \A j \in final.inst..x.at-1 : ~Takes(s, j)
        BY <1>0, <2>7, <2>10, <3>1, <3>2
      <4>5. Counting(final, s, x.at, 0)
        BY <2>6, <2>7, <4>1, <4>2, <4>3, <4>4 DEF Counting
      <4>6. Stands(o.run, s, W, w, n + 1, d, x.at, 0)
        BY <2>5, <3>3, <4>5 DEF Stands
      <4> QED
        BY <2>5, <3>5, <4>6
    <3> QED
      BY <3>4, <3>5
  <2> QED
    BY <1>6, <2>9, <2>10
<1> QED
  BY <1>8, <1>9

\* testForSequence runs the statements before the one waiting again, and counts.
LEMMA SequenceStands ==
  ASSUME NEW pattern, NEW W, Described(pattern.insts, W), NEW run, NEW w, NEW n \in Nat,
         NEW c, NEW k, NEW l, Stands(run, pattern.insts, W, w, n, c, k, l),
         NEW o, o = testForSequence(pattern, run, w[n+1]), o.state # "fail"
  PROVE  \/ /\ o.state = "more"
            /\ \E d, q, m : Stands(o.run, pattern.insts, W, w, n + 1, d, q, m)
         \/ o.state = "match" /\ \E d : Ended(o.run, pattern.insts, W, w, n + 1, d)
<1> DEFINE s == pattern.insts
           counted == [run EXCEPT !.count = @ + 1]
           x == ExecuteFrom(s, run.env, run.inst)
           begun == [counted EXCEPT !.env = x.env]
<1>0. Len(s) \in Nat /\ Compiles(s, W)
  BY DEF Described
<1>1. o = Preceded(s, counted, x, w[n+1])
  BY DEF testForSequence, Outcome
<1>2. x.ok /\ o = IF x.at > Len(s) THEN Outcome("match", begun)
                  ELSE Tested(s, testForInstruction(s, begun, x.at, w[n+1]))
  BY <1>1 DEF Preceded, Outcome
<1>3. /\ Shaped(run, Len(s)) /\ Env(run.env)
      /\ k \in 1..Len(s) /\ Takes(s, k) /\ l \in 0..s[k].maxc
      /\ run.inst \in 1..k /\ \A j \in run.inst..k-1 : ~Takes(s, j)
      /\ run.matched[k] = l /\ \A j \in k+1..Len(s) : run.matched[j] = 0
      /\ Blocks(s, W, run.env, w, n, c, k, l)
  BY DEF Stands, Counting
<1>4. Reaches(s, W, run.env, run.inst, x)
  <2>1. run.inst \in 1..Len(s)+1
    BY <1>0, <1>3
  <2> HIDE DEF s
  <2> QED
    BY <1>0, <1>2, <1>3, <2>1, ExecuteReaches
<1> HIDE DEF x
<1>5. /\ Env(x.env) /\ Knows(W, run.env, x.env)
      /\ x.at \in run.inst..Len(s)+1
      /\ x.at <= Len(s) => Takes(s, x.at)
      /\ \A i \in run.inst..Len(s) : i < x.at => ~Takes(s, i)
  BY <1>4 DEF Reaches, Takes
<1>6. x.at = k
  <2>1. k \in run.inst..Len(s)
    BY <1>0, <1>3
  <2>2. ~(k < x.at)
    BY <1>3, <1>5, <2>1
  <2>3. x.at <= k
    BY <1>0, <1>3, <1>5, <2>2
  <2>4. Takes(s, x.at)
    BY <1>0, <1>3, <1>5, <2>3
  <2>5. x.at \notin run.inst..k-1
    BY <1>3, <2>4
  <2> QED
    BY <1>0, <1>3, <1>5, <2>3, <2>5
<1>7. /\ Shaped(begun, Len(s)) /\ begun.inst = run.inst /\ begun.env = x.env
      /\ begun.matched = run.matched
  <2> DEFINE e == x.env
             v == run.count + 1
  <2>1. begun = [[run EXCEPT !.count = v] EXCEPT !.env = e]
    BY <1>3 DEF Shaped, RunFields
  <2> HIDE DEF counted, begun, e, v, s
  <2>2. /\ Shaped(begun, Len(s)) /\ begun.inst = run.inst /\ begun.env = e
        /\ begun.matched = run.matched
    <3>1. Shaped(run, Len(s))
      BY <1>3
    <3> QED
      BY <3>1, <2>1 DEF Shaped, RunFields
  <2> QED
    BY <2>2 DEF e
<1> HIDE DEF begun
<1>8. o = Tested(s, testForInstruction(s, begun, k, w[n+1]))
  BY <1>0, <1>2, <1>3, <1>6
<1>9. Stands(begun, s, W, w, n, c, k, l)
  <2>1. Counting(begun, s, k, l)
    BY <1>3, <1>5, <1>7 DEF Counting
  <2>2. Blocks(s, W, begun.env, w, n, c, k, l)
    BY <1>3, <1>5, <1>7, BlocksKnow
  <2> QED
    BY <2>1, <2>2 DEF Stands
<1> HIDE DEF s
<1>10. Described(s, W)
  BY DEF s
<1>11. \/ o.state = "more" /\ \E d, q, m : Stands(o.run, s, W, w, n + 1, d, q, m)
       \/ o.state = "match" /\ \E d : Ended(o.run, s, W, w, n + 1, d)
  BY <1>8, <1>9, <1>10, TestedStands
<1> QED
  BY <1>11 DEF s

LEMMA FreshStands ==
  ASSUME NEW pattern, NEW W, Described(pattern.insts, W), NEW w,
         \E k \in 1..Len(pattern.insts) : Takes(pattern.insts, k)
  PROVE  \E c, k, l : Stands(FreshRun(pattern), pattern.insts, W, w, 0, c, k, l)
<1> DEFINE s == pattern.insts
           run == FreshRun(pattern)
           T == {k \in 1..Len(s) : Takes(s, k)}
<1>0. Len(s) \in Nat
  BY DEF Described
<1>1. PICK k \in T : \A x \in T : k <= x
  <2>1. T \in SUBSET Nat /\ T # {}
    BY <1>0
  <2> HIDE DEF T
  <2> QED
    BY <2>1, LeastExists
<1>2. /\ k \in 1..Len(s) /\ Takes(s, k) /\ \A j \in 1..k-1 : ~Takes(s, j)
  <2>1. ASSUME NEW j \in 1..k-1, Takes(s, j) PROVE FALSE
    <3>1. j \in T
      BY <1>0, <1>1, <2>1
    <3> QED
      BY <1>0, <1>1, <2>1, <3>1
  <2> QED
    BY <1>1, <2>1
<1>3. /\ run.inst = 1 /\ Shaped(run, Len(s)) /\ Env(run.env)
      /\ \A j \in 1..Len(s) : run.matched[j] = 0
  BY DEF FreshRun, Shaped, RunFields, Env
<1> HIDE DEF run, T
<1>4. s[k].maxc \in Nat
  BY <1>2 DEF Described
<1>5. Counting(run, s, k, 0)
  BY <1>0, <1>2, <1>3, <1>4 DEF Counting
<1>6. PICK c : Blocks(s, W, run.env, w, 0, c, k, 0)
  <2> HIDE DEF s
  <2>1. k \in 1..Len(s)+1
    BY <1>0, <1>2
  <2> QED
    BY <1>0, <1>2, <2>1, BlocksBegin
<1> QED
  BY <1>5, <1>6 DEF Stands, run

-----------------------------------------------------------------------------
(***************************************************************************)
(* Every pattern under test stands where the records it has been given put *)
(* it.                                                                     *)
(***************************************************************************)
LEMMA PatternDescribed ==
  ASSUME Describable, NEW p \in PIds, NEW s, s = Patterns[p].insts
  PROVE  Described(s, Assigned(s)) /\ \E k \in 1..Len(s) : Takes(s, k)
<1>1. /\ Len(s) \in Nat
      /\ DOMAIN s = 1..Len(s)
      /\ \A k \in DOMAIN s :
           /\ s[k].type \in StatementTypes
           /\ s[k].minc \in Nat /\ s[k].maxc \in Nat
           /\ Len(s[k].bodies) \in Nat
           /\ s[k].type # "instruction" => Len(s[k].bodies) = 0
  BY CompilerAssumption
<1>2. \A k : k \in Takers(p) <=> k \in 1..Len(s) /\ Takes(s, k)
  BY <1>1 DEF Takers, Takes
<1>3. /\ Takers(p) # {}
      /\ \A k \in Takers(p) :
           /\ Tellable(s[k].bodies) /\ Unnamed(s[k].bodies, Assigned(s))
           /\ s[k].minc <= s[k].maxc
           /\ s[k].less => /\ s[k].minc = 0
                           /\ k + 1 \in Takers(p) => 1 \in s[k+1].minc..s[k+1].maxc
  BY DEF Describable
<1>4. Compiles(s, Assigned(s))
  BY <1>1 DEF Compiles, Assigned
<1>5. \A b : Len(b) = 0 => Tellable(b) /\ Unnamed(b, Assigned(s))
  BY DEF Tellable, Unnamed
<1>6. ASSUME NEW k \in 1..Len(s)
      PROVE  /\ Len(s[k].bodies) \in Nat
             /\ ~Takes(s, k) => Len(s[k].bodies) = 0
             /\ Tellable(s[k].bodies) /\ Unnamed(s[k].bodies, Assigned(s))
             /\ Takes(s, k) =>
                  /\ s[k].minc \in Nat /\ s[k].maxc \in Nat /\ s[k].minc <= s[k].maxc
                  /\ s[k].less =>
                       /\ s[k].minc = 0
                       /\ k + 1 <= Len(s) /\ Takes(s, k + 1) => 1 \in s[k+1].minc..s[k+1].maxc
  <2>1. /\ Len(s[k].bodies) \in Nat
        /\ ~Takes(s, k) => Len(s[k].bodies) = 0
        /\ s[k].minc \in Nat /\ s[k].maxc \in Nat
    BY <1>1 DEF Takes
  <2>2. Tellable(s[k].bodies) /\ Unnamed(s[k].bodies, Assigned(s))
    BY <1>2, <1>3, <1>5, <2>1
  <2>3. k + 1 <= Len(s) /\ Takes(s, k + 1) => k + 1 \in Takers(p)
    BY <1>1, <1>2
  <2> QED
    BY <1>2, <1>3, <2>1, <2>2, <2>3
<1>7. Described(s, Assigned(s))
  BY <1>1, <1>4, <1>6 DEF Described
<1> QED
  BY <1>2, <1>3, <1>7

\* How many records pattern p has been given.
Behind(p) == IF Waiting(p) THEN Len(window) - 1 ELSE Len(window)
Standing(p) ==
  LET s == Patterns[p].insts IN
  /\ StatusOf(p) = "testing" =>
       \E c, k, l : Stands(rt[p], s, Assigned(s), window, Behind(p), c, k, l)
  /\ StatusOf(p) = "matched" =>
       \E c : Ended(rt[p], s, Assigned(s), window, Behind(p), c)
DescribeInv == AloneInv /\ \A p \in PIds : Standing(p)

LEMMA StandingSame ==
  ASSUME NEW p \in PIds, Standing(p), rt'[p] = rt[p], StatusOf(p)' = StatusOf(p),
         Waiting(p)' = Waiting(p), window' = window
  PROVE  Standing(p)'
BY DEF Standing, Behind

LEMMA StandingSelect ==
  ASSUME Describable, NEW breverse \in BOOLEAN, initForTest(breverse), NEW p \in PIds
  PROVE  Standing(p)'
<1> DEFINE s == Patterns[p].insts
<1>1. /\ window' = <<>> /\ seq' = Nil /\ ret' = "new"
      /\ alive' = Selected(breverse)
      /\ p \in Selected(breverse) => rt'[p] = FreshRun(Patterns[p])
  BY DEF initForTest, Restarted
<1>2. StatusOf(p)' # "matched" /\ (StatusOf(p)' = "testing" => p \in Selected(breverse))
  BY <1>1 DEF StatusOf
<1>3. Behind(p)' = 0
  BY <1>1 DEF Behind, Waiting
<1>4. \E c, k, l : Stands(FreshRun(Patterns[p]), s, Assigned(s), <<>>, 0, c, k, l)
  BY PatternDescribed, FreshStands
<1> HIDE DEF s
<1>5. StatusOf(p)' = "testing" =>
        \E c, k, l : Stands(rt'[p], s, Assigned(s), window', Behind(p)', c, k, l)
  BY <1>1, <1>2, <1>3, <1>4
<1> QED
  BY <1>2, <1>5 DEF Standing, s

LEMMA StandingCall ==
  ASSUME Describable, DescribeInv, NEW r \in Records, testInstruction(r), NEW p \in PIds
  PROVE  Standing(p)'
<1> DEFINE s == Patterns[p].insts
           n == Len(window)
<1>1. /\ window' = Append(window, Fed(r, n + 1)) /\ n \in Nat /\ seq = Nil
      /\ ret' = ret /\ ret \in {"new", "0"} /\ rt' = rt /\ alive' = alive
      /\ seq' = m_seqList /\ m_seqList # Nil /\ sr' = sr
  BY DEF testInstruction, DescribeInv, AloneInv, WindowInv
<1>2. /\ Len(window') = n + 1
      /\ \A x \in 1..n : window'[x] = window[x]
  BY <1>1 DEF DescribeInv, AloneInv, WindowInv
<1>3. /\ StatusOf(p)' = StatusOf(p) /\ StatusOf(p) # "matched"
      /\ StatusOf(p) = "testing" => p \in alive
  BY <1>1 DEF StatusOf
<1>4. Behind(p) = n
  BY <1>1 DEF Behind, Waiting
<1>5. p \in alive => Behind(p)' = n
  <2>1. p \in alive => p >= m_seqList
    BY PIdsAreNat DEF DescribeInv, AloneInv, ListInv, ListIsAlive, IsNext
  <2> QED
    BY <1>1, <1>2, <2>1 DEF Behind, Waiting
<1>6. Len(s) \in Nat
  BY CompilerAssumption
<1>7. ASSUME StatusOf(p) = "testing"
      PROVE  \E c, k, l : Stands(rt'[p], s, Assigned(s), window', Behind(p)', c, k, l)
  <2>1. PICK c, k, l : Stands(rt[p], s, Assigned(s), window, n, c, k, l)
    BY <1>4, <1>7 DEF DescribeInv, Standing
  <2> HIDE DEF s
  <2>2. Blocks(s, Assigned(s), rt[p].env, window, n, c, k, l) /\ Counting(rt[p], s, k, l)
    BY <2>1 DEF Stands
  <2>3. Blocks(s, Assigned(s), rt[p].env, window', n, c, k, l)
    BY <1>1, <1>2, <1>6, <2>2, BlocksSeen
  <2>4. Stands(rt[p], s, Assigned(s), window', n, c, k, l)
    BY <2>2, <2>3 DEF Stands
  <2> QED
    BY <1>1, <1>3, <1>5, <1>7, <2>4
<1> QED
  BY <1>3, <1>7 DEF Standing

LEMMA StandingTest ==
  ASSUME Describable, DescribeInv, TestPattern, NEW p \in PIds
  PROVE  Standing(p)'
<1>1. CASE p # seq
  BY <1>1, TestLeaves, StandingSame DEF DescribeInv
<1>2. CASE p = seq
  <2> DEFINE s == Patterns[p].insts
             n == Len(window) - 1
             o == testForSequence(Patterns[p], rt[p], window[n + 1])
  <2>1. /\ StatusOf(p) = "testing" /\ Waiting(p) /\ ~Waiting(p)'
        /\ rt'[p] = IF o.state = "fail" THEN Cleaned(o.run) ELSE o.run
        /\ StatusOf(p)' = CASE o.state = "fail" -> "out"
                            [] o.state = "match" -> "matched"
                            [] OTHER -> "testing"
        /\ n \in Nat /\ n + 1 = Len(window) /\ window' = window
    <3>1. Len(window) \in Nat /\ Len(window) > 0
      BY <1>2, TestTakes DEF DescribeInv
    <3>2. n \in Nat /\ n + 1 = Len(window)
      BY <3>1
    <3> HIDE DEF n
    <3> QED
      BY <1>2, <3>2, TestTakes DEF DescribeInv
  <2>2. Behind(p) = n /\ Behind(p)' = n + 1
    BY <2>1 DEF Behind
  <2>3. PICK c, k, l : Stands(rt[p], s, Assigned(s), window, n, c, k, l)
    BY <2>1, <2>2 DEF DescribeInv, Standing
  <2>4. Described(s, Assigned(s))
    BY PatternDescribed
  <2> HIDE DEF n
  <2>5. ASSUME o.state # "fail"
        PROVE  \/ /\ o.state = "more"
                  /\ \E d, q, m : Stands(o.run, s, Assigned(s), window, n + 1, d, q, m)
               \/ /\ o.state = "match"
                  /\ \E d : Ended(o.run, s, Assigned(s), window, n + 1, d)
    BY <2>1, <2>3, <2>4, <2>5, SequenceStands
  <2> HIDE DEF o, s
  <2>6. CASE o.state = "fail"
    <3>1. StatusOf(p)' = "out"
      BY <2>1, <2>6
    <3> QED
      BY <3>1 DEF Standing
  <2>7. CASE o.state = "more"
    <3>1. StatusOf(p)' = "testing" /\ rt'[p] = o.run
      BY <2>1, <2>7
    <3>2. \E d, q, m : Stands(rt'[p], s, Assigned(s), window', Behind(p)', d, q, m)
      BY <2>1, <2>2, <2>5, <2>7, <3>1
    <3> QED
      BY <3>1, <3>2 DEF Standing, s
  <2>8. CASE o.state = "match"
    <3>1. StatusOf(p)' = "matched" /\ rt'[p] = o.run
      BY <2>1, <2>8
    <3>2. \E d : Ended(rt'[p], s, Assigned(s), window', Behind(p)', d)
      BY <2>1, <2>2, <2>5, <2>8, <3>1
    <3> QED
      BY <3>1, <3>2 DEF Standing, s
  <2> QED
    BY <2>5, <2>6, <2>7, <2>8
<1> QED
  BY <1>1, <1>2

LEMMA DescribeInvStep == Describable /\ DescribeInv /\ [Next]_vars => DescribeInv'
<1> SUFFICES ASSUME Describable, DescribeInv, [Next]_vars, NEW p \in PIds PROVE Standing(p)'
  BY AloneInvStep DEF DescribeInv
<1>1. ASSUME NEW breverse \in BOOLEAN, initForTest(breverse) PROVE Standing(p)'
  BY <1>1, StandingSelect
<1>2. ASSUME NEW r \in Records, testInstruction(r) PROVE Standing(p)'
  BY <1>2, StandingCall
<1>3. CASE TestPattern
  BY <1>3, StandingTest
<1>4. CASE UNCHANGED vars
  <2>1. /\ rt'[p] = rt[p] /\ StatusOf(p)' = StatusOf(p) /\ Waiting(p)' = Waiting(p)
        /\ window' = window
    BY <1>4 DEF vars, StatusOf, Waiting
  <2> QED
    BY <2>1, StandingSame DEF DescribeInv
<1> QED
  BY <1>1, <1>2, <1>3, <1>4 DEF Next

-----------------------------------------------------------------------------
(***************************************************************************)
(* The statements that take records, by their place among themselves.      *)
(***************************************************************************)
Rank(T, k) == Cardinality({j \in T : j <= k})

LEMMA RankSteps ==
  ASSUME NEW L \in Nat, NEW T \in SUBSET (1..L)
  PROVE  /\ Rank(T, 0) = 0 /\ Rank(T, L) = Cardinality(T) /\ Cardinality(T) \in Nat
         /\ \A k \in 0..L : Rank(T, k) \in Nat
         /\ \A k \in 1..L : Rank(T, k) = Rank(T, k-1) + IF k \in T THEN 1 ELSE 0
         /\ \A a, b \in 0..L : a <= b => Rank(T, a) <= Rank(T, b)
<1> DEFINE Upto(k) == {j \in T : j <= k}
<1>1. IsFiniteSet(T)
  <2>1. 1 \in Int /\ L \in Int
    OBVIOUS
  <2>2. IsFiniteSet(1..L)
    BY <2>1, FS_Interval
  <2> QED
    BY <2>2, FS_Subset
<1>2. \A k : IsFiniteSet(Upto(k))
  <2>1. \A k : Upto(k) \in SUBSET T
    OBVIOUS
  <2> HIDE DEF Upto
  <2> QED
    BY <1>1, <2>1, FS_Subset
<1>3. Upto(0) = {} /\ Upto(L) = T
  <2>1. \A j \in T : j \in 1..L /\ ~(j <= 0) /\ j <= L
    OBVIOUS
  <2> QED
    BY <2>1, Zenon
<1>4. \A k : Rank(T, k) = Cardinality(Upto(k))
  BY DEF Rank
<1>5. ASSUME NEW k \in 1..L
      PROVE  Upto(k) = (IF k \in T THEN Upto(k-1) \cup {k} ELSE Upto(k-1)) /\ k \notin Upto(k-1)
  <2>1. \A j \in T : j <= k <=> j <= k - 1 \/ j = k
    OBVIOUS
  <2>2. ~(k <= k - 1) /\ k <= k
    OBVIOUS
  <2>3. CASE k \in T
    BY <2>1, <2>2, <2>3, Zenon
  <2>4. CASE k \notin T
    BY <2>1, <2>2, <2>4, Zenon
  <2> QED
    BY <2>3, <2>4
<1>6. ASSUME NEW a \in 0..L, NEW b \in 0..L, a <= b PROVE Upto(a) \in SUBSET Upto(b)
  <2>1. \A j \in T : j <= a => j <= b
    BY <1>6
  <2> QED
    BY <2>1, Zenon
<1> HIDE DEF Upto
<1>7. Rank(T, 0) = 0 /\ Rank(T, L) = Cardinality(T)
  BY <1>3, <1>4, FS_EmptySet
<1>8. Cardinality(T) \in Nat /\ \A k : Rank(T, k) \in Nat
  BY <1>1, <1>2, <1>4, FS_CardinalityType
<1>9. ASSUME NEW k \in 1..L PROVE Rank(T, k) = Rank(T, k-1) + IF k \in T THEN 1 ELSE 0
  <2> DEFINE U == Upto(k-1)
  <2>1. IsFiniteSet(U) /\ k \notin U /\ Upto(k) = (IF k \in T THEN U \cup {k} ELSE U)
        /\ Rank(T, k-1) = Cardinality(U) /\ Rank(T, k) = Cardinality(Upto(k))
    BY <1>2, <1>4, <1>5
  <2>2. Rank(T, k-1) \in Nat
    BY <1>8
  <2> HIDE DEF U
  <2>3. Cardinality(U \cup {k}) = Cardinality(U) + 1
    BY <2>1, FS_AddElement
  <2> QED
    BY <2>1, <2>2, <2>3
<1>10. ASSUME NEW a \in 0..L, NEW b \in 0..L, a <= b PROVE Rank(T, a) <= Rank(T, b)
  <2>1. Upto(a) \in SUBSET Upto(b) /\ IsFiniteSet(Upto(b))
    BY <1>2, <1>6, <1>10
  <2>2. Cardinality(Upto(a)) <= Cardinality(Upto(b))
    BY <2>1, FS_Subset
  <2> QED
    BY <1>4, <2>2
<1> QED
  BY <1>7, <1>8, <1>9, <1>10

LEMMA RankTaken ==
  ASSUME NEW L \in Nat, NEW T \in SUBSET (1..L), NEW i \in 1..Cardinality(T)
  PROVE  \E k \in T : Rank(T, k) = i
<1> DEFINE S == {k \in 0..L : Rank(T, k) >= i}
<1>1. /\ Rank(T, 0) = 0 /\ Rank(T, L) = Cardinality(T) /\ Cardinality(T) \in Nat
      /\ \A k \in 0..L : Rank(T, k) \in Nat
      /\ \A k \in 1..L : Rank(T, k) = Rank(T, k-1) + IF k \in T THEN 1 ELSE 0
  BY RankSteps
<1>2. S \in SUBSET Nat /\ S # {}
  <2>1. L \in S
    BY <1>1
  <2> QED
    BY <2>1
<1>3. PICK q \in S : \A x \in S : q <= x
  <2> HIDE DEF S
  <2> QED
    BY <1>2, LeastExists
<1>4. q \in 1..L /\ q - 1 \in 0..L /\ q - 1 \notin S
  BY <1>1, <1>3
<1>5. Rank(T, q) >= i /\ ~(Rank(T, q-1) >= i) /\ Rank(T, q-1) \in Nat
  BY <1>1, <1>3, <1>4
<1>6. Rank(T, q) = Rank(T, q-1) + IF q \in T THEN 1 ELSE 0
  BY <1>1, <1>4
<1> HIDE DEF S
<1>7. i \in Nat
  BY <1>1
<1>8. q \in T /\ Rank(T, q) = i
  BY <1>5, <1>6, <1>7
<1> QED
  BY <1>8

\* Between a taker and the next none takes records.
LEMMA RankNone ==
  ASSUME NEW L \in Nat, NEW T \in SUBSET (1..L), NEW a \in 0..L, NEW b \in 0..L,
         Rank(T, a) >= Rank(T, b), NEW j \in a+1..b
  PROVE  j \notin T
<1>1. j \in 1..L /\ j - 1 \in 0..L /\ a <= j - 1 /\ j <= b /\ j \in 0..L
  OBVIOUS
<1>2. /\ \A k \in 0..L : Rank(T, k) \in Nat
      /\ \A k \in 1..L : Rank(T, k) = Rank(T, k-1) + IF k \in T THEN 1 ELSE 0
      /\ \A x, y \in 0..L : x <= y => Rank(T, x) <= Rank(T, y)
  BY RankSteps
<1>3. Rank(T, j) = Rank(T, j-1) + IF j \in T THEN 1 ELSE 0
  BY <1>1, <1>2
<1>4. Rank(T, a) <= Rank(T, j-1)
  BY <1>1, <1>2
<1>5. Rank(T, j) <= Rank(T, b)
  BY <1>1, <1>2
<1>6. Rank(T, a) \in Nat /\ Rank(T, b) \in Nat /\ Rank(T, j-1) \in Nat
  BY <1>1, <1>2
<1> QED
  BY <1>3, <1>4, <1>5, <1>6

\* Where none takes records the count stands.
LEMMA CountStands ==
  ASSUME NEW s, NEW c, NEW a \in Nat, NEW b \in Nat, a <= b,
         \A j \in a+1..b : c[j] = c[j-1]
  PROVE  c[a] = c[b]
<1> DEFINE S == {i \in Nat : a + i <= b => c[a+i] = c[a]}
<1>1. S \in SUBSET Nat /\ 0 \in S
  OBVIOUS
<1>2. ASSUME NEW i \in S PROVE i + 1 \in S
  <2> SUFFICES ASSUME a + (i + 1) <= b PROVE c[a + (i + 1)] = c[a]
    OBVIOUS
  <2>1. i \in Nat /\ a + i <= b /\ c[a+i] = c[a]
    OBVIOUS
  <2>2. a + (i + 1) \in a+1..b /\ (a + (i + 1)) - 1 = a + i
    BY <2>1
  <2> HIDE DEF S
  <2> QED
    BY <2>1, <2>2
<1>3. S = Nat
  <2>1. \A i \in S : i + 1 \in S
    BY <1>2
  <2> HIDE DEF S
  <2> QED
    BY <1>1, <2>1, InductionBySet
<1>4. b - a \in Nat /\ a + (b - a) = b
  OBVIOUS
<1>5. \A i \in Nat : a + i <= b => c[a+i] = c[a]
  BY <1>3
<1> HIDE DEF S
<1>6. c[a + (b - a)] = c[a]
  BY <1>4, <1>5
<1> QED
  BY <1>4, <1>6

-----------------------------------------------------------------------------
(***************************************************************************)
(* A match, statement by statement.                                        *)
(***************************************************************************)
\* The place of the i-th statement that takes records; 0 comes before the first.
Place(p, i) == IF i = 0 THEN 0 ELSE Taker(p, i)

LEMMA PlaceOf ==
  ASSUME NEW p \in PIds, NEW s, s = Patterns[p].insts, NEW L, L = Len(s),
         NEW T, T = Takers(p), NEW m, m = Cardinality(T)
  PROVE  /\ L \in Nat /\ m \in Nat /\ T \in SUBSET (1..L)
         /\ \A k \in 1..L : k \in T <=> Takes(s, k)
         /\ \A i \in 0..m : Place(p, i) \in 0..L /\ Rank(T, Place(p, i)) = i
         /\ \A i \in 1..m : Place(p, i) \in T /\ Place(p, i) = Taker(p, i)
<1>1. L \in Nat /\ DOMAIN s = 1..L
  BY CompilerAssumption
<1>2. T \in SUBSET (1..L) /\ \A k \in 1..L : k \in T <=> Takes(s, k)
  BY <1>1 DEF Takers, Takes
<1>3. m \in Nat /\ Rank(T, 0) = 0
  BY <1>1, <1>2, RankSteps
<1>4. ASSUME NEW i \in 1..m PROVE Taker(p, i) \in T /\ Rank(T, Taker(p, i)) = i
  <2>1. \E k \in T : Rank(T, k) = i
    BY <1>1, <1>2, <1>4, RankTaken
  <2>2. Taker(p, i) = CHOOSE k \in T : Rank(T, k) = i
    BY DEF Taker, Rank
  <2> QED
    BY <2>1, <2>2
<1>5. \A i \in 1..m : Place(p, i) = Taker(p, i)
  BY <1>3 DEF Place
<1>6. ASSUME NEW i \in 0..m PROVE Place(p, i) \in 0..L /\ Rank(T, Place(p, i)) = i
  <2>1. CASE i = 0
    BY <1>1, <1>3, <2>1 DEF Place
  <2>2. CASE i # 0
    <3>1. i \in 1..m
      BY <1>3, <2>2
    <3> QED
      BY <1>1, <1>2, <1>4, <1>5, <3>1
  <2> QED
    BY <2>1, <2>2
<1> QED
  BY <1>1, <1>2, <1>3, <1>4, <1>5, <1>6

\* What MatchIsDescribed says of a match, of any pattern, variables and records.
InBlocks(p, env, w, n) ==
  LET m == Cardinality(Takers(p)) IN
  \E cut \in [0..m -> 0..n] :
    /\ cut[0] = 0 /\ cut[m] = n
    /\ \A i \in 1..m :
         LET t == Patterns[p].insts[Taker(p, i)] IN
         /\ cut[i-1] <= cut[i]
         /\ cut[i] - cut[i-1] \in t.minc..t.maxc
         /\ \A x \in cut[i-1]+1..cut[i] : Fits(env, t, w[x])

LEMMA EndedIsDescribed ==
  ASSUME NEW p \in PIds, NEW run, NEW W, NEW w, NEW n \in Nat, NEW c,
         Ended(run, Patterns[p].insts, W, w, n, c)
  PROVE  InBlocks(p, run.env, w, n)
<1> DEFINE s == Patterns[p].insts
           m == Cardinality(Takers(p))
           L == Len(s)
           T == Takers(p)
           cut == [i \in 0..m |-> c[Place(p, i)]]
<1>1. /\ L \in Nat /\ m \in Nat /\ T \in SUBSET (1..L)
      /\ \A k \in 1..L : k \in T <=> Takes(s, k)
      /\ \A i \in 0..m : Place(p, i) \in 0..L /\ Rank(T, Place(p, i)) = i
      /\ \A i \in 1..m : Place(p, i) \in T /\ Place(p, i) = Taker(p, i)
  <2>1. s = Patterns[p].insts /\ L = Len(s) /\ T = Takers(p) /\ m = Cardinality(T)
    OBVIOUS
  <2> HIDE DEF s, m, L, T
  <2> QED
    BY <2>1, PlaceOf
<1>2. /\ c \in [0..L -> 0..n] /\ c[0] = 0 /\ c[(L+1)-1] = n
      /\ \A j \in 1..L :
           /\ c[j-1] <= c[j]
           /\ ~Takes(s, j) => c[j] = c[j-1]
           /\ Takes(s, j) => c[j] - c[j-1] \in s[j].minc..s[j].maxc
           /\ \A x \in c[j-1]+1..c[j] : Said(W, run.env, s[j], w[x])
  <2>1. /\ c \in [0..L -> 0..n] /\ c[0] = 0 /\ n - c[(L+1)-1] = 0
        /\ \A j \in 1..L :
           /\ c[j-1] <= c[j]
           /\ ~Takes(s, j) => c[j] = c[j-1]
           /\ Takes(s, j) /\ j < L + 1 => c[j] - c[j-1] \in s[j].minc..s[j].maxc
           /\ \A x \in c[j-1]+1..c[j] : Said(W, run.env, s[j], w[x])
    <3>1. Ended(run, s, W, w, n, c)
      OBVIOUS
    <3> HIDE DEF s
    <3> QED
      BY <3>1 DEF Ended, Blocks
  <2>2. \A j \in 1..L : j < L + 1
    BY <1>1
  <2>3. (L + 1) - 1 \in 0..L
    BY <1>1
  <2>4. c[(L+1)-1] \in 0..n
    BY <2>1, <2>3
  <2>5. c[(L+1)-1] = n
    BY <2>1, <2>4
  <2> HIDE DEF L
  <2> QED
    BY <2>1, <2>2, <2>5
<1>3. \A x, k : Said(W, run.env, s[k], w[x]) => Fits(run.env, s[k], w[x])
  BY DEF Ended, Said, Knows
<1>4. m = Cardinality(T)
  OBVIOUS
<1> HIDE DEF L, T, m, s
<1>5. /\ Rank(T, L) = Cardinality(T)
      /\ \A k \in 0..L : Rank(T, k) \in Nat
      /\ \A k \in 1..L : Rank(T, k) = Rank(T, k-1) + IF k \in T THEN 1 ELSE 0
      /\ \A a, b \in 0..L : a <= b => Rank(T, a) <= Rank(T, b)
  BY <1>1, RankSteps
<1>6. cut \in [0..m -> 0..n] /\ \A i \in 0..m : cut[i] = c[Place(p, i)]
  <2>1. \A i \in 0..m : c[Place(p, i)] \in 0..n
    BY <1>1, <1>2
  <2> QED
    BY <2>1
<1> HIDE DEF cut
<1>7. cut[0] = 0
  BY <1>1, <1>2, <1>6 DEF Place
<1>8. cut[m] = n
  <2>1. m \in 0..m /\ L \in 0..L
    BY <1>1
  <2>2. Place(p, m) \in 0..L /\ Rank(T, Place(p, m)) = m /\ Rank(T, L) = m /\ m >= m
    BY <1>1, <1>4, <1>5, <2>1
  <2> DEFINE a == Place(p, m)
  <2>3. a \in 0..L /\ Rank(T, a) >= Rank(T, L) /\ cut[m] = c[a]
    BY <1>6, <2>1, <2>2
  <2> HIDE DEF a
  <2>4. ASSUME NEW j \in a+1..L PROVE c[j] = c[j-1]
    <3>1. j \notin T
      BY <1>1, <2>1, <2>3, RankNone
    <3>2. j \in 1..L
      BY <1>1, <2>3
    <3> QED
      BY <1>1, <1>2, <3>1, <3>2
  <2>5. a \in Nat /\ a <= L
    BY <1>1, <2>3
  <2>6. c[a] = c[L]
    BY <1>1, <2>4, <2>5, CountStands
  <2>7. (L + 1) - 1 = L
    BY <1>1
  <2> QED
    BY <1>2, <2>3, <2>6, <2>7
<1>9. ASSUME NEW i \in 1..m
      PROVE  LET t == s[Taker(p, i)] IN
             /\ cut[i-1] <= cut[i]
             /\ cut[i] - cut[i-1] \in t.minc..t.maxc
             /\ \A x \in cut[i-1]+1..cut[i] : Fits(run.env, t, w[x])
  <2> DEFINE a == Place(p, i - 1)
             k == Place(p, i)
  <2>1. i - 1 \in 0..m /\ i \in 0..m /\ i \in Nat /\ i - 1 < i
    BY <1>1
  <2>2. /\ a \in 0..L /\ Rank(T, a) = i - 1 /\ k \in 1..L /\ k \in T
        /\ Rank(T, k) = i /\ k = Taker(p, i)
        /\ cut[i-1] = c[a] /\ cut[i] = c[k]
    BY <1>1, <1>6, <2>1
  <2> HIDE DEF a, k
  <2>3. k - 1 \in 0..L /\ Rank(T, k - 1) = i - 1
    <3>1. k - 1 \in 0..L
      BY <1>1, <2>2
    <3>2. Rank(T, k) = Rank(T, k-1) + 1 /\ Rank(T, k-1) \in Nat
      BY <1>5, <2>2, <3>1
    <3> QED
      BY <2>1, <2>2, <3>1, <3>2
  <2>4. a <= k - 1
    <3>1. CASE k <= a
      <4>1. k \in 0..L /\ a \in 0..L
        BY <2>2
      <4>2. Rank(T, k) <= Rank(T, a)
        BY <1>5, <3>1, <4>1
      <4> QED
        BY <2>1, <2>2, <4>2
    <3>2. CASE ~(k <= a)
      BY <1>1, <2>2, <3>2
    <3> QED
      BY <3>1, <3>2
  <2>5. ASSUME NEW j \in a+1..k-1 PROVE c[j] = c[j-1]
    <3>1. Rank(T, a) >= Rank(T, k - 1)
      BY <2>1, <2>2, <2>3
    <3>2. j \notin T
      BY <1>1, <2>2, <2>3, <3>1, RankNone
    <3>3. j \in 1..L
      BY <1>1, <2>2
    <3> QED
      BY <1>1, <1>2, <3>2, <3>3
  <2>6. c[a] = c[k-1]
    <3>1. a \in Nat /\ k - 1 \in Nat
      BY <1>1, <2>2
    <3> QED
      BY <2>4, <2>5, <3>1, CountStands
  <2>7. /\ c[k-1] <= c[k] /\ c[k] - c[k-1] \in s[k].minc..s[k].maxc
        /\ \A x \in c[k-1]+1..c[k] : Said(W, run.env, s[k], w[x])
    BY <1>1, <1>2, <2>2
  <2> QED
    BY <1>3, <2>2, <2>6, <2>7
<1> QED
  BY <1>6, <1>7, <1>8, <1>9 DEF InBlocks, m, s

LEMMA DescribeInvInit == Init => DescribeInv
<1>1. Init => ListInv /\ WindowInv
  BY ListInvInit DEF Init, WindowInv
<1>2. Init => \A p \in PIds : StatusOf(p) = "out"
  BY DEF Init, StatusOf
<1> QED
  BY <1>1, <1>2 DEF DescribeInv, AloneInv, Standing

LEMMA DescribeInvDescribes == DescribeInv => MatchIsDescribed
<1> SUFFICES ASSUME DescribeInv, ret = "1" PROVE MatchIsDescribed
  BY DEF MatchIsDescribed
<1>1. seq = Nil /\ sr \in alive /\ alive \subseteq PIds
  BY DEF DescribeInv, AloneInv, ListInv, CallOpen, VerdictIsRight, TypeOK
<1> DEFINE p == sr
           s == Patterns[p].insts
           n == Len(window)
<1>2. p \in PIds /\ StatusOf(p) = "matched" /\ Behind(p) = n /\ n \in Nat
  <2>1. sr \in PIds
    BY <1>1
  <2>2. ~(p > sr)
    BY <2>1, PIdsAreNat
  <2>3. ~Waiting(p)
    BY <1>1, <2>2 DEF Waiting
  <2>4. n \in Nat
    BY DEF DescribeInv, AloneInv, WindowInv
  <2> QED
    BY <1>1, <2>1, <2>3, <2>4 DEF StatusOf, Behind
<1>3. PICK c : Ended(rt[p], s, Assigned(s), window, n, c)
  BY <1>2 DEF DescribeInv, Standing
<1>4. InBlocks(p, rt[p].env, window, n)
  <2> DEFINE run == rt[p]
             W == Assigned(s)
  <2>1. p \in PIds /\ n \in Nat /\ Ended(run, Patterns[p].insts, W, window, n, c)
    BY <1>2, <1>3
  <2> HIDE DEF n, p, run, W
  <2>2. InBlocks(p, run.env, window, n)
    BY <2>1, EndedIsDescribed
  <2> QED
    BY <2>2 DEF run
<1> QED
  BY <1>4 DEF MatchIsDescribed, InBlocks

\* A match means what the script says (patternAsm.cpp, testForSequence and what it
\* calls), for any script that Describable allows and any records: the records of the
\* scan fall into consecutive blocks, one for each instruction statement and as long
\* as its counts allow, and each record fits its statement under the variables the
\* match has ended with, also those that a later record has set.
THEOREM MatchesDescribed == Describable => (Spec => []MatchIsDescribed)
<1> SUFFICES ASSUME Describable PROVE Spec => []MatchIsDescribed
  OBVIOUS
<1>1. Init => DescribeInv
  BY DescribeInvInit
<1>2. DescribeInv /\ [Next]_vars => DescribeInv'
  BY DescribeInvStep
<1>3. DescribeInv => MatchIsDescribed
  BY DescribeInvDescribes
<1> QED
  BY <1>1, <1>2, <1>3, PTL DEF Spec
=============================================================================
