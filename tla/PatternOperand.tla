--------------------------- MODULE PatternOperand ---------------------------
(***************************************************************************)
(* Matching one decoded x86 instruction against one line of a pattern      *)
(* script (patternAsm.cpp: isMatchInst, isMatchInstBody,                   *)
(* isMatchInstOperand, checkAndSaveVar, saveMemoryExprVar, resolveVar) and *)
(* the values a pattern computes from what it matched (calculateExpress,   *)
(* calculateMemoryExpress, genReplaceOpcode).  All of it is pure: an       *)
(* operator takes the environment of a pattern and returns it with the     *)
(* verdict.                                                                *)
(*                                                                         *)
(* A script variable such as reg1 or imm2 is a name in VarNames, which is  *)
(* what varid makes of its kind and number.  Registers and sizes are       *)
(* names, immediates and displacements numbers below Imms.  The decoder    *)
(* and assembler (ncasm) are external: an instruction is a record          *)
(*   [opcode, opsize, ops : <<o1, o2>>, base, scale, disp, imm]            *)
(* whose operands are [type, index, size]; like in ncasm, base, scale,     *)
(* disp and imm belong to the instruction and not to an operand.           *)
(***************************************************************************)
EXTENDS Integers, Sequences

CONSTANTS
  VarNames,    \* names of script variables
  Family,      \* register name -> full register (get_relate_reg(r, 32))
  Imms         \* immediates are counted modulo this number (2^64 in the code)

None == "none"    \* R_NONE, O_NONE, I_UNDEFINED and "no variable"

ASSUME OperandAssumption ==
  /\ None \notin VarNames
  /\ Imms \in Nat \ {0}

IsVar(x) == x \in VarNames

\* pasm_operand as its constructor leaves it.
BlankOperand ==
  [type |-> None, size |-> None, opcode |-> None, base |-> None,
   index |-> None, dispvar |-> None, scale |-> 0, imm |-> 0]

\* The environment (seqRuntime): what the variables are bound to, the memory
\* operand templates the compiler has put in dyops, and the variables bound
\* since the last call of isMatchInst.
Bound(env, v) == v \in DOMAIN env.vars
Bind(env, v, value) ==
  [env EXCEPT !.vars = [x \in DOMAIN env.vars \cup {v} |->
                          IF x = v THEN value ELSE env.vars[x]],
              !.nvars = @ \cup {v}]

Verdict(ok, env) == [ok |-> ok, env |-> env]

\* The next check, on what the checks before it have bound, unless they failed.
Then(v, Check(_)) == IF v.ok THEN Check(v.env) ELSE v

SameRegister(r, s) == Family[r] = Family[s]

-----------------------------------------------------------------------------
(* checkAndSaveVar, by the kind of the operand met.                        *)

CheckReg_SizeIgnored(env, pop, iop) ==
  IF ~Bound(env, pop.var)
    THEN Verdict(TRUE, Bind(env, pop.var,
           [BlankOperand EXCEPT !.type = "reg", !.base = iop.index, !.size = iop.size]))
    ELSE Verdict(SameRegister(env.vars[pop.var].base, iop.index), env)
CheckReg(env, pop, iop) ==
  LET op == env.vars[pop.var] IN
  IF ~Bound(env, pop.var)
    THEN IF pop.ref # "plain"
           THEN Verdict(FALSE, env)
           ELSE Verdict(TRUE, Bind(env, pop.var,
                  [BlankOperand EXCEPT !.type = "reg", !.base = iop.index,
                                       !.size = iop.size]))
    ELSE Verdict(CASE pop.ref = "noref" -> ~SameRegister(op.base, iop.index)
                   [] pop.ref = "ref"   -> SameRegister(op.base, iop.index)
                   [] OTHER -> iop.index = op.base /\ iop.size = op.size, env)

CheckImm(env, pop, ins, iop) ==
  LET op == env.vars[pop.var] IN
  IF ~Bound(env, pop.var)
    THEN IF pop.ref # "plain"
           THEN Verdict(FALSE, env)
           ELSE Verdict(TRUE, Bind(env, pop.var,
                  [BlankOperand EXCEPT !.type = "imm", !.imm = ins.imm,
                                       !.size = iop.size]))
    ELSE Verdict(CASE pop.ref = "ref"   -> FALSE
                   [] pop.ref = "noref" -> TRUE
                   [] OTHER -> op.imm = ins.imm /\ op.size = iop.size, env)

\* The value a variable gets when it meets a memory operand.
MemValue(ins, iop) ==
  [BlankOperand EXCEPT
     !.type = iop.type, !.imm = ins.disp, !.size = iop.size,
     !.base = IF iop.type = "mem" THEN ins.base ELSE iop.index,
     !.index = IF iop.type = "mem" THEN iop.index ELSE None,
     !.scale = IF iop.type = "mem" THEN ins.scale ELSE 0]

\* {!r}: base is compared with base and index with index, nothing crosswise.
MemNotReferenced_SmemForgotten(op, ins, iop) ==
  iop.type = "mem" =>
    /\ op.base # None /\ ~IsVar(op.base) => ~SameRegister(op.base, ins.base)
    /\ op.index # None /\ ~IsVar(op.index) => ~SameRegister(op.index, iop.index)
MemNotReferenced(op, ins, iop) ==
  CASE iop.type = "mem" ->
         /\ op.base # None /\ ~IsVar(op.base) => ~SameRegister(op.base, ins.base)
         /\ op.index # None /\ ~IsVar(op.index)
              => ~SameRegister(op.index, iop.index)
    [] iop.type = "smem" ->
         op.base # None /\ ~IsVar(op.base) => ~SameRegister(op.base, iop.index)
    [] OTHER -> TRUE

\* {r}: two of the three comparisons are != in the code (lines 1217, 1224).
MemReferenced(op, ins, iop) ==
  \/ /\ iop.type = "mem"
     /\ \/ op.base # None /\ ~IsVar(op.base) /\ SameRegister(op.base, ins.base)
        \/ /\ op.index # None /\ ~IsVar(op.index)
           /\ ~SameRegister(op.index, iop.index)
  \/ /\ iop.type = "smem"
     /\ op.base # None /\ ~IsVar(op.base) /\ ~SameRegister(op.base, iop.index)

MemSame(op, ins, iop) ==
  /\ op.type = iop.type
  /\ op.size # None => op.size = iop.size
  /\ ~IsVar(op.dispvar) => op.imm = ins.disp
  /\ IF op.type = "mem"
       THEN /\ op.scale = ins.scale
            /\ ~IsVar(op.base) => op.base = ins.base
            /\ ~IsVar(op.index) => op.index = iop.index
       ELSE /\ ins.scale = 0
            /\ ins.base = None
            /\ ~IsVar(op.base) => op.base = iop.index

\* resolveVar: the variables of a template that are bound are replaced by what
\* they stand for.  Values hold no names, so that each loop runs once at most.
\* The index takes the index field of the variable, where a register is not.
Resolved(env, op, pop) ==
  LET Field(x, f) == IF IsVar(x) /\ Bound(env, x) THEN env.vars[x][f] ELSE x
      dispKnown   == IsVar(op.dispvar) /\ Bound(env, op.dispvar)
  IN  [op EXCEPT
         !.size    = IF pop.szvar # None /\ Bound(env, pop.szvar)
                       THEN env.vars[pop.szvar].size ELSE Field(op.size, "size"),
         !.base    = Field(op.base, "base"),
         !.index   = Field(op.index, "index"),
         !.dispvar = Field(op.dispvar, "dispvar"),
         !.imm     = IF dispKnown THEN env.vars[op.dispvar].imm ELSE op.imm]

CheckMem(env, pop, ins, iop) ==
  LET template == pop.type = "memexpr"
      fresh    == ~template /\ ~Bound(env, pop.var)
      op       == IF template THEN Resolved(env, env.opvars[pop.var], pop)
                  ELSE IF fresh THEN MemValue(ins, iop) ELSE env.vars[pop.var]
      env1     == IF fresh THEN Bind(env, pop.var, op) ELSE env
  IN  IF fresh /\ pop.ref # "plain"
        THEN Verdict(FALSE, env)
        ELSE Verdict(CASE pop.ref = "noref" -> MemNotReferenced(op, ins, iop)
                       [] pop.ref = "ref"   -> MemReferenced(op, ins, iop)
                       [] OTHER -> MemSame(op, ins, iop), env1)

checkAndSaveVar_Rebinds(env, pop, ins, iop) ==
  LET forget == [env EXCEPT !.vars = [v \in DOMAIN @ \ {pop.var} |-> @[v]]] IN
  CASE iop.type = "reg" -> CheckReg(forget, pop, iop)
    [] iop.type = "imm" -> CheckImm(env, pop, ins, iop)
    [] iop.type \in {"mem", "smem", "disp"} -> CheckMem(env, pop, ins, iop)
    [] OTHER -> Verdict(TRUE, env)
checkAndSaveVar(env, pop, ins, iop) ==
  CASE iop.type = "reg" -> CheckReg(env, pop, iop)
    [] iop.type = "imm" -> CheckImm(env, pop, ins, iop)
    [] iop.type \in {"mem", "smem", "disp"} -> CheckMem(env, pop, ins, iop)
    [] OTHER -> Verdict(TRUE, env)

\* What a name of template t is bound to by a match with iop; one that stands for
\* the disp or the size goes to the imm field.
TemplateValue(env, t, ins, iop, v) ==
  LET old == IF Bound(env, v) THEN env.vars[v] ELSE BlankOperand
      indexed == iop.type = "mem"
  IN
  CASE v = t.dispvar -> [old EXCEPT !.type = "imm", !.imm = ins.disp]
    [] v = t.size    -> [old EXCEPT !.type = "imm", !.imm = 0]
    [] v = t.index   -> [old EXCEPT !.type = "reg",
                                    !.base = IF indexed THEN iop.index ELSE None]
    [] v = t.base    -> [old EXCEPT !.type = "reg",
                                    !.base = IF indexed THEN ins.base ELSE iop.index]
    [] OTHER -> old

StoreTemplate(env, d, t) == [env EXCEPT !.opvars[d] = t]

\* saveMemoryExprVar: the names of a matched template are bound, those met before
\* included, and the template is resolved for good.  The base is not in nvars.
saveMemoryExprVar(env, pop, ins, iop) ==
  LET t == env.opvars[pop.var]
      Names(fields) == {t[f] : f \in fields} \cap VarNames
      bound == [env EXCEPT
        !.vars  = [v \in DOMAIN @ \cup Names({"dispvar", "size", "base", "index"}) |->
                     TemplateValue(env, t, ins, iop, v)],
        !.nvars = @ \cup (Names({"dispvar", "size", "index"}) \ DOMAIN env.vars)]
      typed == [t EXCEPT !.type = iop.type,
                         !.scale = IF iop.type = "mem" THEN ins.scale ELSE 0]
  IN  StoreTemplate(bound, pop.var, Resolved(bound, typed, pop))

-----------------------------------------------------------------------------
(* One operand, one alternative, one line.                                 *)

MemTypes == {"mem", "smem", "disp"}

\* The kinds of operand a variable takes, unless it only asks for references.
KindOK(pop, iop) ==
  \/ pop.ref # "plain"
  \/ CASE pop.type = "reg" -> iop.type = "reg"
       [] pop.type = "imm" -> iop.type = "imm"
       [] pop.type \in {"mem", "memexpr"} -> iop.type \in MemTypes
       [] OTHER -> TRUE

\* A size variable: bound to the size met first, equal to it afterwards.
CheckSize(env, szvar, size) ==
  IF szvar = None THEN Verdict(TRUE, env)
  ELSE IF Bound(env, szvar) THEN Verdict(env.vars[szvar].size = size, env)
  ELSE Verdict(TRUE, Bind(env, szvar, [BlankOperand EXCEPT !.size = size]))

\* Operand slot i of the line's template against operand j met: the fields the
\* explicit comparison looks at (is_same_operand, or its branch without size).
SameExplicit(pop, tmpl, i, ins, j) ==
  LET a == tmpl.ops[i]  b == ins.ops[j] IN
  /\ a.type = b.type
  /\ pop.szvar = None => a.size = b.size
  /\ CASE a.type = "reg"  -> a.index = b.index /\ a.size = b.size
       [] a.type = "imm"  -> tmpl.imm = ins.imm /\ a.size = b.size
       [] a.type = "smem" -> a.index = b.index /\ tmpl.disp = ins.disp
       [] a.type = "mem"  -> /\ a.index = b.index /\ tmpl.disp = ins.disp
                             /\ tmpl.base = ins.base
                             /\ pop.szvar = None => tmpl.scale = ins.scale
       [] a.type = "disp" -> tmpl.disp = ins.disp
       [] OTHER -> TRUE
ExplicitReferences(tmpl, i, ins, j) ==
  \E r \in {tmpl.ops[i].index, tmpl.base} \ {None},
     s \in {ins.ops[j].index, ins.base} \ {None} : SameRegister(r, s)

\* Operand j met, by the type of the slot.
CheckOperand(env, pop, tmpl, i, ins, j) ==
  CASE pop.type = None ->
         Verdict(CASE pop.ref = "ref" -> FALSE [] pop.ref = "noref" -> TRUE
                   [] OTHER -> ins.ops[j].type = None, env)
    [] pop.type = "explicit" ->
         Verdict(CASE pop.ref = "ref"   -> ExplicitReferences(tmpl, i, ins, j)
                   [] pop.ref = "noref" -> ~ExplicitReferences(tmpl, i, ins, j)
                   [] OTHER -> SameExplicit(pop, tmpl, i, ins, j), env)
    [] OTHER ->
         IF ~KindOK(pop, ins.ops[j]) THEN Verdict(FALSE, env)
         ELSE Then(checkAndSaveVar(env, pop, ins, ins.ops[j]), LAMBDA e :
                Verdict(TRUE, IF pop.type # "memexpr" THEN e
                              ELSE saveMemoryExprVar(e, pop, ins, ins.ops[j])))

isMatchInstOperand(env, pop, tmpl, i, ins, j) ==
  IF pop.bits # None /\ ins.ops[j].size # pop.bits THEN Verdict(FALSE, env)
  ELSE Then(CheckSize(env, pop.szvar, ins.ops[j].size),
            LAMBDA e : CheckOperand(e, pop, tmpl, i, ins, j))

\* NOT turns a verdict round; what was bound on the way stays bound.
Negated(pop, v) == IF pop.not THEN Verdict(~v.ok, v.env) ELSE v

\* Slot i of an alternative.  {*} asks it of every operand the instruction has.
MatchSlot(env, body, i, ins) ==
  LET pop == body.ops[i]
      Against(e, j) == Negated(pop, isMatchInstOperand(e, pop, body.tmpl, i, ins, j))
  IN
  IF pop.type = None /\ ~body.strict THEN Verdict(TRUE, env)
  ELSE IF ~pop.inall THEN Against(env, i)
  ELSE IF ins.ops[1].type = None THEN Verdict(TRUE, env)
  ELSE Then(Against(env, 1), LAMBDA e :
         IF ins.ops[2].type = None THEN Verdict(TRUE, e) ELSE Against(e, 2))

isMatchInstBody(env, body, ins) ==
  LET opcodeOK == body.opcode # None => (ins.opcode = body.opcode) = ~body.not IN
  Then(Then(Verdict(opcodeOK, env), LAMBDA e : MatchSlot(e, body, 1, ins)),
       LAMBDA e : MatchSlot(e, body, 2, ins))

\* The mnemonic variable of the alternative that matched.
CheckMnemonic(env, var, opcode) ==
  IF var = None THEN Verdict(TRUE, env)
  ELSE IF Bound(env, var) THEN Verdict(env.vars[var].opcode = opcode, env)
  ELSE Verdict(TRUE, Bind(env, var, [BlankOperand EXCEPT !.opcode = opcode]))

\* The alternatives of a line (a || b) in their order: each starts from the
\* bindings that the failed ones before it made.  A mnemonic that disagrees
\* fails the line, not the alternative.
WithMnemonic(v, body, ins) ==
  [done |-> v.ok,
   v |-> Then(v, LAMBDA e : CheckMnemonic(e, body.mnemvar, ins.opcode))]
MatchBodies(env, bodies, ins) ==
  LET tried[k \in 0..Len(bodies)] ==
        IF k = 0 THEN [done |-> FALSE, v |-> Verdict(FALSE, env)]
        ELSE IF tried[k-1].done THEN tried[k-1]
        ELSE WithMnemonic(
               Then(CheckSize(tried[k-1].v.env, bodies[k].szvar, ins.opsize),
                    LAMBDA e : isMatchInstBody(e, bodies[k], ins)), bodies[k], ins)
  IN  tried[Len(bodies)].v

\* A line: its {stack} and {eflags} conditions on what the executed instruction
\* changed, then its alternatives.
isMatchInst(env, line, ins, isEspChanged, isEflagsChanged) ==
  LET fresh == [env EXCEPT !.nvars = {}] IN
  IF (line.stack /\ isEspChanged) \/ (line.eflags /\ isEflagsChanged)
    THEN Verdict(FALSE, fresh)
    ELSE MatchBodies(fresh, line.bodies, ins)

-----------------------------------------------------------------------------
(* What a pattern computes from its variables.                             *)

\* calculateExpress.  An expression is the sequence of its nodes, children
\* before parents and the root last.  A node is
\*   [oper, val, var, left, right, flags]
\* where oper is "imm" (val), "var", or one of add, sub and mul on two earlier
\* nodes (0 for a missing one), and flags holds "not" and "neg", applied in this
\* order.  The other operators (bits, shifts, division), floats and size
\* variables are not modelled: no script of the models has them.  A variable that
\* is not bound is an error at the root only: the recursive calls drop their
\* status, so that in an operand it counts as 0.
Flagged(flags, n) ==
  LET inverted == IF "not" \in flags THEN -n - 1 ELSE n IN
  (IF "neg" \in flags THEN -inverted ELSE inverted) % Imms
ExprValue(env, expr) ==
  LET val[k \in 0..Len(expr)] ==
        IF k = 0 \/ (expr[k].oper = "var" /\ ~Bound(env, expr[k].var)) THEN 0
        ELSE Flagged(expr[k].flags,
               CASE expr[k].oper = "imm" -> expr[k].val
                 [] expr[k].oper = "var" -> env.vars[expr[k].var].imm
                 [] expr[k].oper = "add" -> val[expr[k].left] + val[expr[k].right]
                 [] expr[k].oper = "sub" -> val[expr[k].left] - val[expr[k].right]
                 [] expr[k].oper = "mul" -> val[expr[k].left] * val[expr[k].right])
  IN  val[Len(expr)]
ExprFails(env, expr) ==
  LET root == expr[Len(expr)] IN root.oper = "var" /\ ~Bound(env, root.var)

\* pattern_inst_express: the variable is made an immediate, bound before or not.
AssignExpress(env, var, expr) ==
  LET old == IF Bound(env, var) THEN env.vars[var] ELSE BlankOperand
  IN  IF ExprFails(env, expr) THEN Verdict(FALSE, env)
      ELSE Verdict(TRUE, [env EXCEPT !.vars =
             [x \in DOMAIN @ \cup {var} |->
                IF x = var THEN [old EXCEPT !.type = "imm",
                                            !.imm = ExprValue(env, expr)]
                           ELSE env.vars[x]]])

\* calculateMemoryExpress: a memory operand from a template all of whose names
\* are bound, or an error, which removes the variable.
AssignMemory(env, var, t) ==
  LET Known(x)    == ~IsVar(x) \/ Bound(env, x)
      Field(x, f) == IF IsVar(x) THEN env.vars[x][f] ELSE x
      old == IF Bound(env, var) THEN env.vars[var] ELSE BlankOperand
      value == [old EXCEPT
                  !.type = t.type, !.scale = t.scale,
                  !.base = Field(t.base, "base"), !.index = Field(t.index, "base"),
                  !.size = Field(t.size, "size"),
                  !.imm = IF IsVar(t.dispvar) THEN env.vars[t.dispvar].imm ELSE t.imm]
      others == DOMAIN env.vars \ {var}
  IN  IF \A f \in {"base", "index", "size", "dispvar"} : Known(t[f])
        THEN Verdict(TRUE, [env EXCEPT !.vars = [x \in others \cup {var} |->
                              IF x = var THEN value ELSE env.vars[x]]])
        ELSE Verdict(FALSE, [env EXCEPT !.vars = [x \in others |-> @[x]]])

\* genReplaceOpcode: the instruction put in the place of a matched one.  A slot
\* whose variable is not bound fails the replacement.  The operand-size prefix
\* (szid and the {16}, {32}, {64} of a line) is the assembler's and left out.
ReplaceValue(env, pop) ==
  IF pop.type = "memexpr" THEN Resolved(env, env.opvars[pop.var], pop)
                          ELSE env.vars[pop.var]
MayReplace(env, body) ==
  \A i \in 1..2 : LET pop == body.ops[i] IN
    pop.type \in {None, "explicit", "memexpr"} \/ Bound(env, pop.var)
ReplaceIndex_AlwaysBase(value) == value.base
ReplaceIndex(value) == IF value.type = "mem" THEN value.index ELSE value.base
genReplaceOpcode(env, body) ==
  LET Explicit(i) == body.ops[i].type \in {None, "explicit"}
      value(i)    == ReplaceValue(env, body.ops[i])
      size(i)     == IF body.ops[i].bits # None THEN body.ops[i].bits ELSE value(i).size
      slot(i) ==
        CASE body.ops[i].type = None -> [type |-> None, index |-> None, size |-> None]
          [] body.ops[i].type = "explicit" -> body.tmpl.ops[i]
          [] OTHER -> [type |-> value(i).type, size |-> size(i),
                       index |-> ReplaceIndex(value(i))]
      given(types) == {i \in 1..2 : ~Explicit(i) /\ value(i).type \in types}
      Pick(types, f, default) ==
        IF given(types) = {} THEN default
        ELSE value(CHOOSE i \in given(types) : TRUE)[f]
  IN  [body.tmpl EXCEPT
         !.ops   = <<slot(1), slot(2)>>,
         !.imm   = Pick({"imm"}, "imm", @),
         !.disp  = Pick({"mem", "smem", "disp"}, "imm", @),
         !.base  = Pick({"mem"}, "base", @),
         !.scale = Pick({"mem"}, "scale", @),
         !.opcode = IF body.mnemvar # None /\ Bound(env, body.mnemvar)
                      THEN env.vars[body.mnemvar].opcode ELSE @]
=============================================================================
