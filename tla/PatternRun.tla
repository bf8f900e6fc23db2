----------------------------- MODULE PatternRun -----------------------------
(***************************************************************************)
(* What one pattern is promised: from the moment a scan selects it, it is  *)
(* given every record of the scan, once each and in order, until it fails  *)
(* or matches, as if no other pattern existed.  PatternAsm, which walks a  *)
(* linked list of patterns and unlinks those that fail, implements this    *)
(* for each of its patterns.                                               *)
(***************************************************************************)
EXTENDS Naturals, Sequences

CONSTANTS
  Pattern,       \* one compiled pattern
  RecordSet,     \* the records a trace may hold
  Fresh(_),      \* the run-time data a pattern starts a scan with
  Test(_, _, _), \* what one record does to it: [state, run]
  Clean(_)       \* what a failed pattern is left with

VARIABLES
  run,         \* the pattern's run-time data
  status,      \* "out", "testing" or "matched"
  window,      \* the records of this scan
  taken        \* how many of them are behind this pattern

vars == <<run, status, window, taken>>

Init ==
  /\ run = Fresh(Pattern)
  /\ status = "out"
  /\ window = <<>>
  /\ taken = 0

\* A scan begins, with this pattern or without it.
Begin(selected) ==
  /\ run' = IF selected THEN Fresh(Pattern) ELSE run
  /\ status' = IF selected THEN "testing" ELSE "out"
  /\ window' = <<>>
  /\ taken' = 0

\* The next record, once the pattern is done with the one before.
Deliver(r) ==
  /\ taken = Len(window)
  /\ window' = Append(window, r)
  /\ taken' = IF status = "testing" THEN taken ELSE taken + 1
  /\ UNCHANGED <<run, status>>

\* The last record has come to the pattern, which answers o.
Answer(o) ==
  /\ run' = IF o.state = "fail" THEN Clean(o.run) ELSE o.run
  /\ status' = CASE o.state = "fail" -> "out"
                 [] o.state = "match" -> "matched"
                 [] OTHER -> "testing"
Take ==
  /\ status = "testing"
  /\ taken < Len(window)
  /\ Answer(Test(Pattern, run, window[Len(window)]))
  /\ taken' = taken + 1
  /\ UNCHANGED window

Next ==
  \/ \E selected \in BOOLEAN : Begin(selected)
  \/ \E r \in RecordSet : Deliver(r)
  \/ Take

Spec == Init /\ [][Next]_vars
=============================================================================
