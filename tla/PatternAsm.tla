----------------------------- MODULE PatternAsm -----------------------------
(***************************************************************************)
(* The pattern engine (patternAsm.cpp: initForTest, testInstruction).      *)
(* initForTest selects the enabled patterns of one direction and threads   *)
(* them on a doubly linked list; testInstruction gives a record to each    *)
(* pattern on the list in turn, unlinks the ones that fail, and stops at   *)
(* the first that is complete.  The caller feeds records until a pattern   *)
(* has matched (1) or none is left (-1), as matchCodeDNA and               *)
(* doDeObfuscatePattern (xvmdebugcpu.cpp) do.                              *)
(***************************************************************************)
EXTENDS PatternSequence, FiniteSets

CONSTANTS
  Patterns,    \* the compiled patterns, in the order of m_Patterns
  Records,     \* what a trace may hold at each place: [ins, esp, efl]
  MaxWindow    \* bound on the records fed to one scan

PIds == 1..Len(Patterns)
Nil  == 0

ASSUME EngineAssumption ==
  /\ Len(Patterns) \in Nat
  /\ \A p \in PIds : Patterns[p].off \in BOOLEAN
  /\ MaxWindow \in Nat

StatementTypes == {"instruction", "express", "memexpr", "control"}

\* What the compiler makes: only an instruction has alternatives, and a count.
ASSUME CompilerAssumption ==
  \A p \in PIds : LET s == Patterns[p].insts IN
    /\ Len(s) \in Nat
    /\ DOMAIN s = 1..Len(s)
    /\ \A k \in DOMAIN s :
         /\ s[k].type \in StatementTypes
         /\ s[k].minc \in Nat /\ s[k].maxc \in Nat
         /\ Len(s[k].bodies) \in Nat
         /\ s[k].type # "instruction" => Len(s[k].bodies) = 0

VARIABLES
  m_seqList,   \* head of the list of patterns under test
  prev, next,  \* its links
  rt,          \* run-time data of each pattern
  seq,         \* the pattern testInstruction has come to, or Nil
  ret,         \* what the last call returned: "new" (initForTest), 0, 1 or -1
  sr,          \* the pattern that matched
  \* history
  window,      \* records fed since initForTest
  alive        \* patterns selected and not failed since

list == <<m_seqList, prev, next>>
vars == <<list, rt, seq, ret, sr, window, alive>>

Init ==
  /\ m_seqList = Nil
  /\ prev = [p \in PIds |-> Nil]
  /\ next = [p \in PIds |-> Nil]
  /\ rt = [p \in PIds |-> FreshRun(Patterns[p])]
  /\ seq = Nil
  /\ ret = "init"
  /\ sr = Nil
  /\ window = <<>>
  /\ alive = {}

\* The least element above p, and the greatest below p, or Nil.
Above(S, p) == LET T == {q \in S : q > p} IN
               IF T = {} THEN Nil ELSE CHOOSE q \in T : \A x \in T : q <= x
Below(S, p) == LET T == {q \in S : q < p} IN
               IF T = {} THEN Nil ELSE CHOOSE q \in T : \A x \in T : x <= q

Selected(breverse) ==
  {p \in PIds : /\ ~Patterns[p].off
                /\ Patterns[p].mode = IF breverse THEN "reverse" ELSE "sequence"}

\* The reset of a selected pattern.
Restarted_CountsKept(p) == [FreshRun(Patterns[p]) EXCEPT !.matched = rt[p].matched]
Restarted(p) == FreshRun(Patterns[p])

initForTest(breverse) ==
  LET S == Selected(breverse) IN
  /\ seq = Nil
  /\ m_seqList' = Above(S, 0)
  /\ prev' = [p \in PIds |-> IF p \in S THEN Below(S, p) ELSE prev[p]]
  /\ next' = [p \in PIds |-> IF p \in S THEN Above(S, p) ELSE next[p]]
  /\ rt' = [p \in PIds |-> IF p \in S THEN Restarted(p) ELSE rt[p]]
  /\ ret' = "new"
  /\ sr' = Nil
  /\ window' = <<>>
  /\ alive' = S
  /\ UNCHANGED seq

\* testInstruction is called with a record, the n-th of the scan.
Fed(r, n) == [ins |-> r.ins, esp |-> r.esp, efl |-> r.efl, id |-> n]
testInstruction(r) ==
  /\ seq = Nil
  /\ ret \in {"new", "0"}
  /\ m_seqList # Nil
  /\ Len(window) < MaxWindow
  /\ window' = Append(window, Fed(r, Len(window) + 1))
  /\ seq' = m_seqList
  /\ UNCHANGED <<list, rt, ret, sr, alive>>

\* Pattern p leaves the list.
Unlink_PrevKept(p) ==
  /\ m_seqList' = IF m_seqList = p THEN next[p] ELSE m_seqList
  /\ next' = IF prev[p] # Nil THEN [next EXCEPT ![prev[p]] = next[p]] ELSE next
  /\ prev' = prev
Unlink(p) ==
  /\ m_seqList' = IF m_seqList = p THEN next[p] ELSE m_seqList
  /\ next' = IF prev[p] # Nil THEN [next EXCEPT ![prev[p]] = next[p]] ELSE next
  /\ prev' = IF next[p] # Nil THEN [prev EXCEPT ![next[p]] = prev[p]] ELSE prev

\* Past pattern p: on to its successor, or out of the loop.
StepPast_HeadStale(p) ==
  /\ seq' = next[p]
  /\ ret' = IF next[p] # Nil THEN ret ELSE IF m_seqList # Nil THEN "0" ELSE "-1"
StepPast(p) ==
  /\ seq' = next[p]
  /\ ret' = IF next[p] # Nil THEN ret ELSE IF m_seqList' # Nil THEN "0" ELSE "-1"

\* The loop body, for the pattern it has come to, which answers o.
Answered(p, o) ==
  \/ /\ o.state = "fail"
     /\ rt' = [rt EXCEPT ![p] = Cleaned(o.run)]
     /\ alive' = alive \ {p}
     /\ Unlink(p)
     /\ StepPast(p)
     /\ UNCHANGED sr
  \/ /\ o.state = "match"
     /\ rt' = [rt EXCEPT ![p] = o.run]
     /\ sr' = p
     /\ ret' = "1"
     /\ seq' = Nil
     /\ UNCHANGED <<list, alive>>
  \/ /\ o.state = "more"
     /\ rt' = [rt EXCEPT ![p] = o.run]
     /\ UNCHANGED <<list, sr, alive>>
     /\ StepPast(p)
TestPattern ==
  /\ seq # Nil
  /\ Answered(seq, testForSequence(Patterns[seq], rt[seq], window[Len(window)]))
  /\ UNCHANGED window

Next ==
  \/ \E breverse \in BOOLEAN : initForTest(breverse)
  \/ \E r \in Records : testInstruction(r)
  \/ TestPattern

Spec == Init /\ [][Next]_vars

-----------------------------------------------------------------------------
(* Properties.                                                             *)

\* Type invariant.
TypeOK ==
  /\ m_seqList \in PIds \cup {Nil}
  /\ prev \in [PIds -> PIds \cup {Nil}]
  /\ next \in [PIds -> PIds \cup {Nil}]
  /\ seq \in PIds \cup {Nil}
  /\ sr \in PIds \cup {Nil}
  /\ ret \in {"init", "new", "0", "1", "-1"}
  /\ alive \subseteq PIds

\* The list is exactly the patterns that were selected and have not failed, in
\* their order, forwards and backwards: unlinking at the head, in the middle, at
\* the end and while the loop stands on the element loses and keeps no other.
IsNext(S, p, q) ==
  /\ q \in S \cup {Nil}
  /\ q # Nil => q > p
  /\ \A x \in S : x > p => q # Nil /\ q <= x
IsPrev(S, p, q) ==
  /\ q \in S \cup {Nil}
  /\ q # Nil => q < p
  /\ \A x \in S : x < p => q # Nil /\ x <= q
ListIsAlive ==
  /\ IsNext(alive, 0, m_seqList)
  /\ \A p \in alive : IsNext(alive, p, next[p]) /\ IsPrev(alive, p, prev[p])
  /\ seq \in alive \cup {Nil}

\* The caller is told to go on exactly while a pattern may still match: -1 gives
\* no live pattern up, and 0 promises one.
VerdictIsRight ==
  /\ ret = "-1" => alive = {}
  /\ ret \in {"0", "1"} => alive # {}
  /\ ret = "1" => sr \in alive

\* Seen from one pattern the engine is that pattern alone: it sees every record of
\* the scan once and in order, whatever the others do, fail or leave behind.
Waiting(p) ==     \* the last record has not come to p
  p \in alive /\ ((seq # Nil /\ p >= seq) \/ (ret = "1" /\ p > sr))
StatusOf(p) ==
  IF p \notin alive THEN "out"
  ELSE IF ret = "1" /\ sr = p THEN "matched" ELSE "testing"
Alone(p) == INSTANCE PatternRun WITH
  Pattern   <- Patterns[p],
  RecordSet <- {Fed(r, n) : r \in Records, n \in 1..MaxWindow},
  Fresh     <- FreshRun,
  Test      <- testForSequence,
  Clean     <- Cleaned,
  run       <- rt[p],
  status    <- StatusOf(p),
  taken     <- IF Waiting(p) THEN Len(window) - 1 ELSE Len(window)
EachPatternAlone ==
  /\ \A p \in PIds : Alone(p)!Init
  /\ [][\A p \in PIds : [Alone(p)!Next]_(Alone(p)!vars)]_vars

\* The statements of a pattern that take records, and the i-th of them.
Takers(p)   == {k \in DOMAIN Patterns[p].insts : Patterns[p].insts[k].type = "instruction"}
Taker(p, i) == CHOOSE k \in Takers(p) : Cardinality({j \in Takers(p) : j <= k}) = i

\* Record r says what statement s says, under variables already complete.
Fits(env, s, r) ==
  LET v == isMatchInst(env, s, r.ins, r.esp, r.efl) IN v.ok /\ v.env.nvars = {}

\* What a match means: the records of the scan fall into consecutive blocks, one
\* for each statement and as long as the statement allows, and each record says
\* what its statement says when the variables have their final values.
MatchIsDescribed ==
  ret = "1" =>
    LET m == Cardinality(Takers(sr)) IN
    \E cut \in [0..m -> 0..Len(window)] :
      /\ cut[0] = 0 /\ cut[m] = Len(window)
      /\ \A i \in 1..m :
           LET s == Patterns[sr].insts[Taker(sr, i)] IN
           /\ cut[i-1] <= cut[i]
           /\ cut[i] - cut[i-1] \in s.minc..s.maxc
           /\ \A n \in cut[i-1]+1..cut[i] : Fits(rt[sr].env, s, window[n])

-----------------------------------------------------------------------------
(* Scripts a match of which can be described so.                           *)

\* Asked of the same operand under variables that know more, the slot says what it
\* said: none of its names is of a template, and what it denies it denies of a value.
Steady(pop) == pop.type \in {None, "explicit"} \/ pop.ref = "plain"
Plain(pop)  == pop.type # "memexpr" /\ (pop.not => Steady(pop))
\* So does the line: the alternative that matches is not passed over for another.
Tellable(bodies) ==
  /\ \A k \in 1..Len(bodies) : \A i \in 1..2 : Plain(bodies[k].ops[i])
  /\ Len(bodies) > 1 => \A k \in 1..Len(bodies) : \A i \in 1..2 : Steady(bodies[k].ops[i])

\* No variable that a line reads is one that the pattern computes.
NamesIn(body) == {body.szvar, body.mnemvar, body.ops[1].var, body.ops[1].szvar,
                  body.ops[2].var, body.ops[2].szvar}
Unnamed(bodies, W) == \A k \in 1..Len(bodies) : NamesIn(bodies[k]) \cap W = {}
Assigned(s) == {s[k].var : k \in {j \in DOMAIN s : s[j].type \in {"express", "memexpr"}}}

\* A statement that takes as few as it can ({-}) takes none if need be, and the one
\* after it is content with the single record it takes over.
Describable ==
  \A p \in PIds : LET s == Patterns[p].insts IN
    /\ Takers(p) # {}
    /\ \A k \in Takers(p) :
         /\ Tellable(s[k].bodies) /\ Unnamed(s[k].bodies, Assigned(s))
         /\ s[k].minc <= s[k].maxc
         /\ s[k].less => /\ s[k].minc = 0
                         /\ k + 1 \in Takers(p) => 1 \in s[k+1].minc..s[k+1].maxc
=============================================================================
