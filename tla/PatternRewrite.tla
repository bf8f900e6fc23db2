--------------------------- MODULE PatternRewrite ---------------------------
(***************************************************************************)
(* Simplifying a trace with patterns (xVMDebugCPU::doDeObfuscatePattern,   *)
(* deleteFlagedInSeq, and xVMDebugFrame::doDeObfuscatePatternAll, which    *)
(* repeats a forward and a backward pass until nothing is deleted).  The   *)
(* pass calls the engine of PatternAsm: the variables and steps of that    *)
(* module are part of this one.                                            *)
(*                                                                         *)
(* The trace is the linked list seq->insts.  Pointers into it are indices  *)
(* here, 0 for null.  A record is [ins, esp, efl, deleted]: the decoded    *)
(* instruction, whether ctx1 and ctx2 differ in ESP and EFLAGS, and the    *)
(* flag RECORD_FLAG_DELETE.  next and prev of the null pointer, of the     *)
(* external list class, are null.                                          *)
(***************************************************************************)
EXTENDS PatternAsm, SequencesExt

CONSTANTS
  Traces,      \* the traces the user may ask to simplify
  MaxRounds    \* 200 in doDeObfuscatePatternAll

IsSequence(s) == s \in Seq(ToSet(s))
RecordFields  == {"ins", "esp", "efl", "deleted"}

ASSUME RewriteAssumption ==
  /\ MaxRounds \in Nat
  /\ \A s \in Traces :
       /\ IsSequence(s)
       /\ \A n \in DOMAIN s : DOMAIN s[n] = RecordFields
  /\ \A p \in PIds :
       /\ Patterns[p].mode \in {"sequence", "reverse"}
       /\ IsSequence(Patterns[p].insts)
       /\ \A k \in DOMAIN Patterns[p].insts : IsSequence(Patterns[p].insts[k].rps)

VARIABLES
  insts,       \* seq->insts
  given,       \* history: the trace the run began with
  reserve,     \* the direction of the pass: TRUE is backwards
  tr, subtr,   \* where the scan starts, and the record it has come to
  pc,          \* "pass", "next", "scan" or "done"
  nr,          \* records deleted in this round
  ncount       \* rounds begun

pass   == <<insts, reserve, tr, subtr, pc, nr, ncount>>
rvars  == <<vars, pass, given>>

RewriteInit ==
  /\ Init
  /\ insts \in Traces
  /\ given = insts
  /\ reserve = FALSE
  /\ tr = 0
  /\ subtr = 0
  /\ pc = "pass"
  /\ nr = 0
  /\ ncount = 0

\* seq->insts.next or prev of index i.
Along(s, i) ==
  CASE i = 0 -> 0
    [] i # 0 /\ reserve -> i - 1
    [] i # 0 /\ ~reserve -> IF i < Len(s) THEN i + 1 ELSE 0

-----------------------------------------------------------------------------
(* Replacing what a pattern has matched.                                   *)

\* The index of the n-th record fed in this scan.
FedAt(n) == IF reserve THEN tr - n + 1 ELSE tr + n - 1

\* The statements of the matched pattern whose userdata is record i.
PointingAt(i) ==
  {k \in DOMAIN Patterns[sr].insts :
     rt[sr].userdata[k] # NoRecord /\ FedAt(rt[sr].userdata[k]) = i}

\* Does a replacement of statement k produce an instruction?  One that does condemns
\* the record, and so does a nop.
Produces(body) == body.opcode # "nop" /\ MayReplace(rt[sr].env, body)
Condemns_NopOnly(k) ==
  \E n \in DOMAIN Patterns[sr].insts[k].rps : Patterns[sr].insts[k].rps[n].opcode = "nop"
Condemns(k) ==
  \E n \in DOMAIN Patterns[sr].insts[k].rps :
    LET body == Patterns[sr].insts[k].rps[n] IN body.opcode = "nop" \/ Produces(body)

\* A new record is a copy of the one replaced with another instruction: what is
\* said of ESP and EFLAGS is the old one's, and so is the flag, if an earlier
\* statement has set it.
NewRecord(k, i, body) ==
  [insts[i] EXCEPT !.ins = genReplaceOpcode(rt[sr].env, body),
                   !.deleted = @ \/ \E j \in PointingAt(i) : j < k /\ Condemns(j)]
NewRecords(k, i) ==
  LET rps == Patterns[sr].insts[k].rps IN
  FlattenSeq([n \in DOMAIN rps |->
    IF Produces(rps[n]) THEN <<NewRecord(k, i, rps[n])>> ELSE <<>>])

\* Record i with what is put after it, the replacements of a later statement first.
Added(i) ==
  LET m == Len(Patterns[sr].insts) IN
  FlattenSeq([n \in 1..m |->
    IF m + 1 - n \in PointingAt(i) THEN NewRecords(m + 1 - n, i) ELSE <<>>])
Replaced(i) ==
  <<[insts[i] EXCEPT !.deleted = @ \/ \E k \in PointingAt(i) : Condemns(k)]>> \o Added(i)

\* Index i of the old list in the new one.
Moved(i) ==
  IF i = 0 THEN 0
  ELSE Len(FlattenSeq([n \in 1..(i-1) |-> Replaced(n)])) + 1

-----------------------------------------------------------------------------
(* The passes.                                                             *)

\* A pass returns n: after the backward one, another round or the end.
Return_ForwardUncounted(n) ==
  /\ tr' = 0
  /\ subtr' = 0
  /\ reserve' = ~reserve
  /\ nr' = n
  /\ pc' = IF ~reserve \/ (n > 0 /\ ncount <= MaxRounds) THEN "pass" ELSE "done"
  /\ ncount' = IF reserve THEN ncount + 1 ELSE ncount
Return(n) ==
  /\ tr' = 0
  /\ subtr' = 0
  /\ \/ /\ ~reserve
        /\ reserve' = TRUE
        /\ nr' = n
        /\ pc' = "pass"
        /\ UNCHANGED ncount
     \/ /\ reserve
        /\ reserve' = FALSE
        /\ nr' = nr + n
        /\ pc' = IF nr' > 0 /\ ncount <= MaxRounds THEN "pass" ELSE "done"
        /\ ncount' = ncount + 1

\* doDeObfuscatePattern is called.
BeginPass ==
  /\ pc = "pass"
  /\ tr' = IF reserve \/ insts = <<>> THEN Len(insts) ELSE 1
  /\ pc' = "next"
  /\ UNCHANGED <<vars, insts, reserve, subtr, nr, ncount>>

\* The outer loop: the patterns start anew at tr, if there are any.
BeginScan_AtNext ==
  /\ pc = "next"
  /\ tr # 0
  /\ initForTest(reserve)
  /\ subtr' = Along(insts, tr)
  /\ pc' = "scan"
  /\ UNCHANGED <<insts, reserve, tr, nr, ncount>>
BeginScan ==
  /\ pc = "next"
  /\ tr # 0
  /\ initForTest(reserve)
  /\ UNCHANGED insts
  /\ IF Selected(reserve) = {} THEN Return(0)
     ELSE /\ subtr' = tr
          /\ pc' = "scan"
          /\ UNCHANGED <<reserve, tr, nr, ncount>>

\* deleteFlagedInSeq.
deleteFlagedInSeq(s) ==
  FlattenSeq([n \in DOMAIN s |-> IF s[n].deleted THEN <<>> ELSE <<s[n]>>])
EndPass ==
  /\ pc = "next"
  /\ tr = 0
  /\ insts' = deleteFlagedInSeq(insts)
  /\ Return(Len(insts) - Len(insts'))
  /\ UNCHANGED vars

\* The inner loop: the record at subtr first, then the one after it.
Feed ==
  LET at == IF ret = "new" THEN subtr ELSE Along(insts, subtr) IN
  /\ pc = "scan"
  /\ at # 0
  /\ testInstruction(insts[at])
  /\ subtr' = at
  /\ UNCHANGED <<insts, reserve, tr, pc, nr, ncount>>
Test ==
  /\ pc = "scan"
  /\ TestPattern
  /\ UNCHANGED pass

\* No pattern is left, or no record: the next start.
NextStart ==
  /\ pc = "scan"
  /\ seq = Nil
  /\ ret = "-1" \/ (ret = "0" /\ Along(insts, subtr) = 0)
  /\ tr' = Along(insts, tr)
  /\ pc' = "next"
  /\ UNCHANGED <<vars, insts, reserve, subtr, nr, ncount>>

\* A pattern has matched.  subtr and tr become the record after the match, and the
\* increment of the outer loop then moves tr one further.
Resume_AtMatch(s) == tr
Resume(s) == Along(s, Moved(Along(insts, subtr)))
Replace ==
  LET s == FlattenSeq([n \in 1..Len(insts) |-> Replaced(n)]) IN
  /\ pc = "scan"
  /\ seq = Nil
  /\ ret = "1"
  /\ insts' = s
  /\ subtr' = Moved(Along(insts, subtr))
  /\ tr' = Resume(s)
  /\ pc' = "next"
  /\ UNCHANGED <<vars, reserve, nr, ncount>>

RewriteNext ==
  /\ \/ BeginPass
     \/ BeginScan
     \/ EndPass
     \/ Feed
     \/ Test
     \/ NextStart
     \/ Replace
  /\ UNCHANGED given

RewriteSpec == RewriteInit /\ [][RewriteNext]_rvars

-----------------------------------------------------------------------------
(* Properties.                                                             *)

\* The engine's userdata are records of the scan: the window is the stretch of the
\* list from tr to subtr, in the direction of the pass, so that a match replaces
\* the records it was shown.
WindowIsStretch ==
  pc = "scan" /\ ret # "new" =>
    /\ Len(window) = (IF reserve THEN tr - subtr ELSE subtr - tr) + 1
    /\ \A n \in 1..Len(window) : window[n].ins = insts[FedAt(n)].ins

\* Does pattern p match from record i of the trace, on its own?  The reference:
\* the records one after the other, without a list, other patterns or a cursor.
MatchesFrom(p, i) ==
  LET len == IF Patterns[p].mode = "reverse" THEN i ELSE Len(insts) - i + 1
      at(n) == IF Patterns[p].mode = "reverse" THEN i - n + 1 ELSE i + n - 1
      test[n \in 0..len] ==
        IF n = 0 THEN Outcome("more", FreshRun(Patterns[p]))
        ELSE IF test[n-1].state # "more" THEN test[n-1]
        ELSE testForSequence(Patterns[p], test[n-1].run, Fed(insts[at(n)], n))
  IN  test[len].state = "match"

\* Every pattern deletes: it has a statement that must match at least once and is
\* replaced by nop.  So are the patterns of the shipped scripts, with two exceptions
\* in test.pasm; one whose replacements cannot be encoded may match and change nothing.
Anchor(p, k) ==
  /\ k \in DOMAIN Patterns[p].insts
  /\ Patterns[p].insts[k].type = "instruction"
  /\ Patterns[p].insts[k].minc \in Nat \ {0}
  /\ \E n \in DOMAIN Patterns[p].insts[k].rps : Patterns[p].insts[k].rps[n].opcode = "nop"
Deleting ==
  \A p \in PIds : ~Patterns[p].off => \E k \in DOMAIN Patterns[p].insts : Anchor(p, k)

\* When the rounds end because one deleted nothing, nothing is left to simplify:
\* no enabled pattern matches anywhere, although a pass passes over the record
\* after each match and sees nothing of what it has inserted.
NothingLeft ==
  pc = "done" /\ nr = 0 =>
    \A p \in PIds : ~Patterns[p].off =>
      \A i \in 1..Len(insts) : ~MatchesFrom(p, i)

\* Each scan leaves fewer records to start at than there were before it, whatever
\* was inserted, so that every pass ends; the rounds are bounded by MaxRounds.
Remaining == IF tr = 0 THEN 0 ELSE IF reserve THEN tr ELSE Len(insts) - tr + 1
ScansProgress == [][pc = "scan" /\ pc' = "next" => Remaining' < Remaining]_rvars
=============================================================================
