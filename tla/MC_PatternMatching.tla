------------------------- MODULE MC_PatternMatching -------------------------
(***************************************************************************)
(* Instances of PatternMatching: three registers in two families, one bit  *)
(* of immediate, every kind of operand, and the lines of the shipped       *)
(* scripts reduced to those.                                               *)
(***************************************************************************)
EXTENDS PatternMatching, TLC

MCVarNames == {"reg1", "reg2", "imm1", "mem1", "op1", "size1", "mnem1"}
MCFamily   == "eax" :> "eax" @@ "al" :> "eax" @@ "ebx" :> "ebx" @@ None :> None

\* Operands.
Reg(r)  == [type |-> "reg", index |-> r, size |-> IF r = "al" THEN "8" ELSE "32"]
Imm     == [type |-> "imm", index |-> None, size |-> "32"]
Smem(r) == [type |-> "smem", index |-> r, size |-> "32"]
Mem(x)  == [type |-> "mem", index |-> x, size |-> "32"]
Absent  == [type |-> None, index |-> None, size |-> None]

Inst(opcode, o1, o2, base, scale, disp, imm) ==
  [opcode |-> opcode, opsize |-> "32", ops |-> <<o1, o2>>, base |-> base,
   scale |-> scale, disp |-> disp, imm |-> imm]

Regs == {"eax", "al", "ebx"}
MCInsts ==
  {Inst("push", Reg(r), Absent, None, 0, 0, 0) : r \in {"eax", "ebx"}}
    \cup {Inst("mov", Reg(r), Imm, None, 0, 0, n) : r \in {"eax", "ebx"}, n \in {0, 1}}
    \cup {Inst("mov", Reg(r), Reg(s), None, 0, 0, 0) : r, s \in Regs}
    \cup {Inst("mov", Reg("ebx"), Smem(r), None, 0, d, 0) :
            r \in {"eax", "ebx"}, d \in {0, 1}}
    \cup {Inst("add", Reg("ebx"), Smem("eax"), None, 0, 0, 0)}
    \cup {Inst("mov", Reg("ebx"), Mem(x), b, 1, 0, 0) : b, x \in {"eax", "ebx"}}

\* Operands of a line.
Pop(type, var) == [type |-> type, var |-> var, szvar |-> None, ref |-> "plain",
                   not |-> FALSE, inall |-> FALSE, bits |-> None]
Sized(pop)     == [pop EXCEPT !.szvar = "size1"]
InAll(pop, r)  == [pop EXCEPT !.inall = TRUE, !.ref = r]
With(pop, r)   == [pop EXCEPT !.ref = r]
NoPop          == Pop(None, None)
Explicit       == Pop("explicit", None)

BlankInst == Inst(None, Absent, Absent, None, 0, 0, 0)
Body(opcode, p1, p2) ==
  [opcode |-> opcode, not |-> FALSE, strict |-> FALSE, szvar |-> None,
   mnemvar |-> None, ops |-> <<p1, p2>>, tmpl |-> [BlankInst EXCEPT !.opcode = opcode]]
Line(bodies) == [bodies |-> bodies, stack |-> FALSE, eflags |-> FALSE]
One(opcode, p1, p2) == Line(<<Body(opcode, p1, p2)>>)

\* dword [reg2 + imm1], and a second use of the same names.
Template == [BlankOperand EXCEPT !.type = "smem", !.base = "reg2",
                                 !.dispvar = "imm1", !.size = "32"]
MCTemplates == "dy1" :> Template @@ "dy2" :> Template

ebx == [BlankInst EXCEPT !.opcode = "mov", !.ops[1] = Reg("ebx")]

\* Registers, immediates, explicit operands and {r}, {!r}.
RegisterLines ==
  {One("push", Pop("reg", "reg1"), NoPop),
   One("mov", Pop("reg", "reg2"), Pop("imm", "imm1")),
   One("mov", Pop("reg", "reg1"), Pop("reg", "reg2")),
   Line(<<[Body("mov", Explicit, Pop("reg", "reg2")) EXCEPT !.tmpl = ebx]>>),
   [One(None, InAll(Pop("reg", "reg1"), "noref"), NoPop) EXCEPT !.stack = TRUE],
   One(None, InAll(Pop("reg", "reg1"), "noref"), InAll(Pop("reg", "reg2"), "noref")),
   One("mov", With(Pop("reg", "reg1"), "ref"), NoPop),
   One("mov", NoPop, With(Pop("reg", "reg1"), "ref"))}

\* Memory and any-kind variables, sizes, mnemonics and alternatives.
MemoryLines ==
  {One("mov", Pop("reg", "reg1"), Pop("mem", "mem1")),
   One("mov", Sized(Pop("reg", "reg1")), Sized(Pop("any", "op1"))),
   [Line(<<[Body(None, Pop("reg", "reg1"), Pop("mem", "mem1")) EXCEPT !.mnemvar = "mnem1"]>>)
      EXCEPT !.stack = TRUE],
   [Line(<<Body("push", Pop("any", "op1"), NoPop),
           [Body("mov", Pop("any", "op1"), NoPop) EXCEPT !.strict = TRUE]>>)
      EXCEPT !.eflags = TRUE]}

\* Templates that share their names.
TemplateLines ==
  {One("push", Pop("reg", "reg1"), NoPop),
   One("mov", Pop("reg", "reg1"), Pop("imm", "imm1")),
   One("mov", Pop("reg", "reg2"), Pop("memexpr", "dy1")),
   One("mov", Pop("reg", "reg1"), Pop("memexpr", "dy2"))}

\* The scripts.
NoTemplates == [d \in {} |-> BlankOperand]
MCScripts   == {[lines |-> RegisterLines, dyops |-> NoTemplates],
                [lines |-> MemoryLines, dyops |-> NoTemplates],
                [lines |-> TemplateLines, dyops |-> MCTemplates]}

\* The scripts are of the form the theorems ask for.
ASSUME MCScriptsArePlain == PlainTemplates /\ OwnOperands
=============================================================================
