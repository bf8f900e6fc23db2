--------------------------- MODULE MC_PatternAsm ---------------------------
(***************************************************************************)
(* Instances of PatternAsm: patterns of the shipped scripts (base.pasm,    *)
(* wl23_1.pasm) over two registers, and the records they are about.        *)
(***************************************************************************)
EXTENDS PatternAsm, TLC

MCVarNames == {"reg1", "reg2", "imm1", "imm2", "imm3", "mem1", "op1", "op2",
               "size1", "mnem1"}
MCFamily   == "eax" :> "eax" @@ "ebx" :> "ebx" @@ None :> None

\* Instructions.
Operand(type, index) ==
  [type |-> type, index |-> index, size |-> IF type = None THEN None ELSE "32"]
Absent == Operand(None, None)
Inst(opcode, o1, o2, imm) ==
  [opcode |-> opcode, opsize |-> "32", ops |-> <<o1, o2>>, base |-> None,
   scale |-> 0, disp |-> 0, imm |-> imm]
Reg(r)  == Operand("reg", r)
Imm     == Operand("imm", None)
Smem(r) == Operand("smem", r)

\* What running it changes: push and pop move ESP, arithmetic sets EFLAGS.
Executed(ins) == [ins |-> ins, esp |-> ins.opcode \in {"push", "pop"},
                  efl |-> ins.opcode = "add"]

push(r)   == Executed(Inst("push", Reg(r), Absent, 0))
pop(r)    == Executed(Inst("pop", Reg(r), Absent, 0))
movi(r,n) == Executed(Inst("mov", Reg(r), Imm, n))
addi(r,n) == Executed(Inst("add", Reg(r), Imm, n))
movm(r,s) == Executed(Inst("mov", Reg(r), Smem(s), 0))
cdq       == Executed(Inst("cdq", Absent, Absent, 0))

\* Lines.
Pop(type, var) == [type |-> type, var |-> var, szvar |-> None, ref |-> "plain",
                   not |-> FALSE, inall |-> FALSE, bits |-> None]
NoPop          == Pop(None, None)
NoRef(var)     == [Pop("reg", var) EXCEPT !.inall = TRUE, !.ref = "noref"]
Body(opcode, p1, p2) ==
  [opcode |-> opcode, not |-> FALSE, strict |-> FALSE, szvar |-> None,
   mnemvar |-> None, ops |-> <<p1, p2>>, tmpl |-> Inst(opcode, Absent, Absent, 0)]

BlankStmt == [type |-> "instruction", bodies |-> <<>>, stack |-> FALSE,
              eflags |-> FALSE, minc |-> 1, maxc |-> 1, less |-> FALSE,
              var |-> None, expr |-> <<>>, memexpr |-> BlankOperand,
              mnems |-> {}, not |-> FALSE, rps |-> <<>>]
Many == 16777215   \* 0xFFFFFF
One(opcode, p1, p2) == [BlankStmt EXCEPT !.bodies = <<Body(opcode, p1, p2)>>]
Becomes(s, opcode, p1, p2) == [s EXCEPT !.rps = <<Body(opcode, p1, p2)>>]
Nop(s)              == Becomes(s, "nop", NoPop, NoPop)
Star(s)             == [s EXCEPT !.minc = 0, !.maxc = Many]
Lazy(s)             == [s EXCEPT !.less = TRUE]
Stack(s)            == [s EXCEPT !.stack = TRUE]
AnyInst(p1)             == One(None, p1, NoPop)

Leaf(oper, var) == [oper |-> oper, val |-> 0, var |-> var, left |-> 0, right |-> 0,
                    flags |-> {}]
Sum(a, b) == <<Leaf("var", a), Leaf("var", b),
               [Leaf("add", None) EXCEPT !.left = 1, !.right = 2]>>
Assign(v, e)    == [BlankStmt EXCEPT !.type = "express", !.var = v, !.expr = e]
Unless(v, mns)  == [BlankStmt EXCEPT !.type = "control", !.var = v, !.mnems = mns,
                                     !.not = TRUE]

Pattern(mode, insts) == [mode |-> mode, off |-> FALSE, maximumInst |-> Many,
                         insts |-> insts, dyops |-> [d \in {} |-> BlankOperand]]

\* push reg1 -> nop / {*}{stack}::any {*}{!r}reg1 / pop reg1 -> nop
PushPop == Pattern("sequence",
  <<Nop(One("push", Pop("reg", "reg1"), NoPop)),
    Star(Stack(AnyInst(NoRef("reg1")))),
    Nop(One("pop", Pop("reg", "reg1"), NoPop))>>)
\* mov reg1,imm1 -> mov reg1,imm3 / {*}{-}{stack}::any {*}{!r}reg1
\* / add reg1,imm2 -> nop / imm3=imm1+imm2
MovAdd == Pattern("sequence",
  <<Becomes(One("mov", Pop("reg", "reg1"), Pop("imm", "imm1")),
            "mov", Pop("reg", "reg1"), Pop("imm", "imm3")),
    Lazy(Star(Stack(AnyInst(NoRef("reg1"))))),
    Nop(One("add", Pop("reg", "reg1"), Pop("imm", "imm2"))),
    Assign("imm3", Sum("imm1", "imm2"))>>)
\* mov reg1,imm1 / {repeat,2,3}::push op1 / pop op1, at most five records.
Repeated == [Pattern("sequence",
  <<One("mov", Pop("reg", "reg1"), Pop("imm", "imm1")),
    [One("push", Pop("any", "op1"), NoPop) EXCEPT !.minc = 2, !.maxc = 3],
    Nop(One("pop", Pop("any", "op1"), NoPop))>>) EXCEPT !.maximumInst = 4]
\* .mode reserve / mov reg1,op1 / {*}{-}{stack}::any {*}{!r}reg1
\* / {stack}::{strict}{mnem1}any reg1,op2 -> nop / mnem1!=xchg|add
Dead == Pattern("reverse",
  <<One("mov", Pop("reg", "reg1"), Pop("any", "op1")),
    Lazy(Star(Stack(AnyInst(NoRef("reg1"))))),
    Nop(Stack([BlankStmt EXCEPT !.bodies =
      <<[Body(None, Pop("reg", "reg1"), Pop("any", "op2")) EXCEPT
           !.strict = TRUE, !.mnemvar = "mnem1"]>>])),
    Unless("mnem1", {"xchg", "add"})>>)
\* The same as PushPop, switched off.
Off == [PushPop EXCEPT !.off = TRUE]

MCPatterns == <<Dead, PushPop, MovAdd, Off, Repeated>>
MCRecords  == {push("eax"), pop("eax"), pop("ebx"), movi("eax", 1), addi("eax", 1),
               movm("ebx", "eax"), cdq}

ASSUME MCPatternsDescribable == Describable
=============================================================================
