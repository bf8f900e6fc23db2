-------------------------- MODULE PatternMatching --------------------------
(***************************************************************************)
(* The instruction matcher at work: isMatchInst is called again and again  *)
(* on the run-time data of one pattern (patternAsm.cpp, testForInstruction *)
(* calls it for each instruction it is given), and each call reads and     *)
(* extends the variables that the earlier ones have bound.  Which line is  *)
(* tried on which instruction is left open here; PatternAsm decides it.    *)
(***************************************************************************)
EXTENDS PatternOperand

CONSTANTS
  Scripts,     \* compiled patterns: [lines, dyops], dyops the templates by name
  Insts        \* decoded instructions

\* What the decoder makes: registers and sizes are no names of variables, an
\* operand has an index only if it is a register or memory, the first operand
\* comes first, and no register is of the family of no register.  The kinds are
\* those that checkAndSaveVar tells apart.
Decoded(ins) ==
  /\ ins.base \notin VarNames
  /\ ins.opsize \notin VarNames
  /\ ins.base # None => ~SameRegister(None, ins.base)
  /\ ins.ops[1].type = None => ins.ops[2].type = None
  /\ \A j \in 1..2 : LET iop == ins.ops[j] IN
       /\ iop.index \notin VarNames
       /\ iop.size \notin VarNames
       /\ iop.type \in {None, "reg", "imm", "mem", "smem", "disp"}
       /\ iop.index # None => iop.type \in {"reg", "mem", "smem"} /\ ~SameRegister(None, iop.index)

\* What the compiler makes: a slot has the name its type asks for, and a template of
\* its own.  A name is of one kind: what a template has for its base is a register
\* variable and for its displacement an immediate one (parseMemoryOperand).
Compiled(s, body) ==
  /\ body.szvar \in VarNames \cup {None}
  /\ body.mnemvar \in VarNames \cup {None}
  /\ \A i \in 1..2 : LET pop == body.ops[i] IN
       /\ pop.szvar \in VarNames \cup {None}
       /\ pop.type = "memexpr" => pop.var \in DOMAIN s.dyops
       /\ pop.type \notin {None, "explicit", "memexpr"} => pop.var \in VarNames
       /\ pop.type \in {"any", "mem"} =>
            \A d \in DOMAIN s.dyops : pop.var \notin {s.dyops[d].base, s.dyops[d].dispvar}
  /\ body.ops[1].type = "memexpr" /\ body.ops[2].type = "memexpr"
       => body.ops[1].var # body.ops[2].var

ASSUME MatchingAssumption ==
  /\ \A ins \in Insts : Decoded(ins)
  /\ \A s \in Scripts :
       /\ DOMAIN s.dyops \cap VarNames = {}
       /\ \A d \in DOMAIN s.dyops : LET t == s.dyops[d] IN
            /\ DOMAIN t = DOMAIN BlankOperand
            /\ t.base \in VarNames => t.base # t.dispvar
       /\ \A line \in s.lines :
            /\ Len(line.bodies) \in Nat
            /\ \A k \in 1..Len(line.bodies) : Compiled(s, line.bodies[k])

VARIABLES
  script,      \* the pattern under test
  env,         \* crt.vars, crt.opvars and the last nvars
  met          \* the last call, if it matched: the line and the instruction

vars == <<script, env, met>>

NoCall == [ok |-> FALSE]

Init ==
  /\ script \in Scripts
  /\ env = [vars |-> [v \in {} |-> BlankOperand], opvars |-> script.dyops,
            nvars |-> {}]
  /\ met = NoCall

Match(line, ins) ==
  \E esp, efl \in BOOLEAN :
    LET v == isMatchInst(env, line, ins, esp, efl) IN
    /\ env' = v.env
    /\ met' = IF v.ok THEN [ok |-> TRUE, line |-> line, ins |-> ins,
                             esp |-> esp, efl |-> efl]
                       ELSE NoCall
    /\ UNCHANGED script

Next == \E line \in script.lines, ins \in Insts : Match(line, ins)

Spec == Init /\ [][Next]_vars

-----------------------------------------------------------------------------
(* Scripts the matcher can be relied on for, as every shipped one is.      *)

\* A memory template names its base and its displacement only, and asks for a match.  A
\* template slot that names an index, or asks for {r} or {!r}, binds what it names anew
\* (saveMemoryExprVar).
PlainTemplates ==
  \A s \in Scripts :
    /\ \A d \in DOMAIN s.dyops :
         s.dyops[d].index \notin VarNames /\ s.dyops[d].size \notin VarNames
    /\ \A line \in s.lines : \A k \in 1..Len(line.bodies) : \A i \in 1..2 :
         line.bodies[k].ops[i].type = "memexpr" => line.bodies[k].ops[i].ref = "plain"

\* A template slot speaks of its own operand: {*} on one accepts an instruction that
\* has no operand at all, and leaves the template as it was.
OwnOperands ==
  \A s \in Scripts : \A line \in s.lines : \A k \in 1..Len(line.bodies) : \A i \in 1..2 :
    line.bodies[k].ops[i].type = "memexpr" => ~line.bodies[k].ops[i].inall

-----------------------------------------------------------------------------
(* Properties.                                                             *)

\* What the operand met is, field by field, as a value of a variable.
Denotes(op, ins, iop) ==
  CASE iop.type = "reg" -> op.base = iop.index /\ op.size = iop.size
    [] iop.type = "imm" -> op.imm = ins.imm /\ op.size = iop.size
    [] iop.type = "mem" ->
         /\ op.type = "mem" /\ op.imm = ins.disp /\ op.size \in {None, iop.size}
         /\ op.base = ins.base /\ op.index = iop.index /\ op.scale = ins.scale
    [] iop.type = "smem" ->
         /\ op.type = "smem" /\ op.imm = ins.disp /\ op.size \in {None, iop.size}
         /\ op.base = iop.index
    [] OTHER -> op.type = iop.type

Plain(pop) == pop.ref = "plain" /\ ~pop.not

\* The slots of the only alternative of the line last accepted.
Accepted(i) == met.ok /\ Len(met.line.bodies) = 1
Slot(i)     == met.line.bodies[1].ops[i]

\* What a plain variable or template stands for after a match is the operand it
\* met, register, size, displacement and all, whether this match bound it or an
\* earlier one did.  Only the kind is left out: checkAndSaveVar does not compare
\* it for registers and immediates, so that op1, bound to [eax], accepts eax.
AcceptedDenotes ==
  \A i \in 1..2 :
    Accepted(i) /\ Plain(Slot(i)) =>
      /\ Slot(i).type \in {"any", "reg", "imm", "mem"} /\ met.ins.ops[i].type # None
           => Denotes(env.vars[Slot(i).var], met.ins, met.ins.ops[i])
      /\ Slot(i).type = "memexpr"
           => Denotes(Resolved(env, env.opvars[Slot(i).var], Slot(i)),
                      met.ins, met.ins.ops[i])

\* Once a variable stands for a register, an immediate or a memory operand, no
\* later call of the matcher makes it stand for another.
Meaning(op) == <<op.base, op.index, op.imm, op.scale>>
BindingsKept ==
  [][\A v \in DOMAIN env.vars :
       v \in DOMAIN env'.vars /\ Meaning(env'.vars[v]) = Meaning(env.vars[v])]_vars

\* Registers an operand names: what {!r} compares.
Registers(ins, iop) ==
  {r \in {iop.index} \cup (IF iop.type = "mem" THEN {ins.base} ELSE {}) : r # None}
BaseRegisters(ins, iop) ==
  IF iop.type = "mem" THEN {ins.base} \ {None} ELSE Registers(ins, iop)
Uses(op, regs) == \E r \in regs : SameRegister(op.base, r)

\* The operands a slot speaks of.
Spoken(i) == IF Slot(i).inall THEN {j \in 1..2 : met.ins.ops[j].type # None} ELSE {i}

RegisterVar(i) ==
  Slot(i).type = "reg" /\ Slot(i).var \in DOMAIN env.vars /\ ~Slot(i).not

\* {!r} on a register variable keeps out every instruction one of whose operands
\* is the register, in any width, or addresses memory with it as the base.
NorefKeepsOut ==
  \A i \in 1..2 : Accepted(i) /\ RegisterVar(i) /\ Slot(i).ref = "noref" =>
    \A j \in Spoken(i) :
      ~Uses(env.vars[Slot(i).var], BaseRegisters(met.ins, met.ins.ops[j]))

\* A line used as its own replacement gives back the instruction it matched: the
\* assembler is told exactly what the matcher was told.  Not so for a slot that
\* the line leaves open, nor for op1 where it stands for an operand of another
\* kind (see AcceptedDenotes).
SameKind(pop, type) ==
  CASE pop.type = None -> type = None
    [] pop.type = "any" -> env.vars[pop.var].type = type
    [] OTHER -> TRUE
ReplacementRoundTrip ==
  (met.ok /\ Len(met.line.bodies) = 1 /\ (\A i \in 1..2 : Plain(Slot(i)))) =>
    LET body == met.line.bodies[1]
        gen  == genReplaceOpcode(env, body)
    IN  (\A i \in 1..2 : SameKind(Slot(i), met.ins.ops[i].type)) =>
          /\ MayReplace(env, body)
          /\ gen.ops = met.ins.ops
          /\ (\E i \in 1..2 : met.ins.ops[i].type = "imm") => gen.imm = met.ins.imm
          /\ (\E i \in 1..2 : met.ins.ops[i].type = "mem")
               => gen.base = met.ins.base /\ gen.scale = met.ins.scale
          /\ (\E i \in 1..2 : met.ins.ops[i].type \in MemTypes) => gen.disp = met.ins.disp
=============================================================================
