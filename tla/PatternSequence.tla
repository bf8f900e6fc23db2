-------------------------- MODULE PatternSequence --------------------------
(***************************************************************************)
(* One pattern against a run of instructions (patternAsm.cpp:              *)
(* testForSequence, testForInstruction).  Pure: an operator takes the      *)
(* run-time data of a pattern (seqRuntime and the patternInst fields that  *)
(* change) and returns it with the state the function returns: "fail" for  *)
(* a negative number, "more" for 0 and "match" for 1.                      *)
(*                                                                         *)
(* A compiled pattern is [mode, off, maximumInst, insts, dyops].  A        *)
(* statement of insts is                                                   *)
(*   [type, bodies, stack, eflags, minc, maxc, less,     -- instruction    *)
(*    var, expr, memexpr, mnems, not, rps]               -- the other types*)
(* with type "instruction", "express", "memexpr" or "control"; rps are its *)
(* replacements.  A statement of another type than "instruction" has no    *)
(* bodies.  A record of the trace is [ins, esp, efl, id]: the decoded      *)
(* instruction, whether it changed ESP and EFLAGS, and its identity.       *)
(***************************************************************************)
EXTENDS PatternOperand

NoRecord == 0    \* the null userdata

\* What initForTest makes of a pattern.
FreshRun(pattern) ==
  [inst     |-> 1,
   count    |-> 0,
   env      |-> [vars |-> [v \in {} |-> BlankOperand], opvars |-> pattern.dyops,
                 nvars |-> {}],
   matched  |-> [k \in 1..Len(pattern.insts) |-> 0],
   userdata |-> [k \in 1..Len(pattern.insts) |-> NoRecord]]

Outcome(state, run) == [state |-> state, run |-> run]

\* isMatchInst on statement k, which counts its matches and remembers the last.
Counted(run, k, v, id) ==
  [ok  |-> v.ok,
   run |-> [run EXCEPT !.env = v.env,
                       !.matched[k]  = IF v.ok THEN @ + 1 ELSE @,
                       !.userdata[k] = IF v.ok THEN id ELSE @]]
TryStatement(insts, run, k, r) ==
  Counted(run, k, isMatchInst(run.env, insts[k], r.ins, r.esp, r.efl), r.id)

\* The variables the last call of isMatchInst bound are removed again.
Forget(run) ==
  [run EXCEPT !.env.vars = [v \in DOMAIN @ \ run.env.nvars |-> @[v]]]

\* A lazy statement k ({-}) has matched and may match on: its successor is tried
\* on the same record, and takes over as if it needed no more than that.
TakenOver(t, k) == IF t.ok THEN [t.run EXCEPT !.inst = k + 1] ELSE Forget(t.run)
TryLazily(insts, run, k, r) ==
  IF k + 1 > Len(insts) THEN run
  ELSE TakenOver(TryStatement(insts, run, k + 1, r), k + 1)

\* Statement k has matched: stay with it, move on, or try the next one lazily.
Advance(insts, run, k, r) ==
  CASE run.matched[k] < insts[k].minc -> run
    [] run.matched[k] >= insts[k].minc /\ run.matched[k] = insts[k].maxc ->
         [run EXCEPT !.inst = k + 1]
    [] OTHER -> IF insts[k].less THEN TryLazily(insts, run, k, r) ELSE run

\* Has statement k room for the match just counted?
Room(insts, run, k) ==
  run.matched[k] < insts[k].minc \/ run.matched[k] <= insts[k].maxc

\* Statement k, the second to be tried, takes the record or fails.
TakeOrFail(insts, t, k, r) ==
  IF t.ok /\ Room(insts, t.run, k)
    THEN Outcome("more", Advance(insts, t.run, k, r))
    ELSE Outcome("fail", t.run)

\* Statement k, the first to be tried, takes the record, or gives way to the next
\* one if it has matched often enough.
TakeOrGiveWay_MinUnchecked(insts, t, k, r) ==
  LET moved == [t.run EXCEPT !.inst = k + 1] IN
  IF t.ok /\ Room(insts, t.run, k)
    THEN Outcome("more", Advance(insts, t.run, k, r))
  ELSE IF k + 1 > Len(insts) THEN Outcome("fail", moved)
  ELSE TakeOrFail(insts, TryStatement(insts, moved, k + 1, r), k + 1, r)
TakeOrGiveWay(insts, t, k, r) ==
  LET moved == [t.run EXCEPT !.inst = k + 1] IN
  IF t.ok /\ Room(insts, t.run, k)
    THEN Outcome("more", Advance(insts, t.run, k, r))
  ELSE IF t.run.matched[k] < insts[k].minc THEN Outcome("fail", t.run)
  ELSE IF k + 1 > Len(insts) THEN Outcome("fail", moved)
  ELSE TakeOrFail(insts, TryStatement(insts, moved, k + 1, r), k + 1, r)
testForInstruction(insts, run, k, r) ==
  TakeOrGiveWay(insts, TryStatement(insts, run, k, r), k, r)

\* One statement of a type other than "instruction".
Execute(env, s) ==
  CASE s.type = "express" -> AssignExpress(env, s.var, s.expr)
    [] s.type = "memexpr" -> AssignMemory(env, s.var, s.memexpr)
    [] s.type = "control" ->
         Verdict(/\ Bound(env, s.var)
                 /\ (env.vars[s.var].opcode \in s.mnems) = ~s.not, env)

\* The statements from index k up to the next instruction, in order.
ExecuteFrom(insts, env, k) ==
  LET ran[n \in (k-1)..Len(insts)] ==
        IF n = k - 1 THEN [ok |-> TRUE, env |-> env, at |-> Len(insts) + 1]
        ELSE LET v == Execute(ran[n-1].env, insts[n]) IN
             IF ~ran[n-1].ok \/ ran[n-1].at <= Len(insts) THEN ran[n-1]
             ELSE IF insts[n].type = "instruction" THEN [ran[n-1] EXCEPT !.at = n]
             ELSE [ok |-> v.ok, env |-> v.env, at |-> Len(insts) + 1]
  IN  ran[Len(insts)]

\* testForSequence: statements before the current instruction are run again at
\* each record, those after it as soon as it is left.
Followed(insts, run, after) ==
  LET final == [run EXCEPT !.env = after.env] IN
  IF ~after.ok THEN Outcome("fail", final)
  ELSE Outcome(IF after.at > Len(insts) THEN "match" ELSE "more", final)
Tested(insts, t) ==
  IF t.state = "fail" THEN t
  ELSE IF t.run.inst > Len(insts) THEN Outcome("match", t.run)
  ELSE Followed(insts, t.run, ExecuteFrom(insts, t.run.env, t.run.inst))
Preceded(insts, run, before, r) ==
  LET begun == [run EXCEPT !.env = before.env] IN
  IF ~before.ok THEN Outcome("fail", begun)
  ELSE IF before.at > Len(insts) THEN Outcome("match", begun)
  ELSE Tested(insts, testForInstruction(insts, begun, before.at, r))
testForSequence(pattern, run, r) ==
  LET counted == [run EXCEPT !.count = @ + 1] IN
  IF run.count >= pattern.maximumInst THEN Outcome("fail", counted)
  ELSE Preceded(pattern.insts, counted,
                ExecuteFrom(pattern.insts, run.env, run.inst), r)

\* A pattern that fails is cleaned (testInstruction).
Cleaned(run) ==
  [run EXCEPT !.matched = [k \in DOMAIN @ |-> 0],
              !.userdata = [k \in DOMAIN @ |-> NoRecord]]
=============================================================================
