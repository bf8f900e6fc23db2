------------------------- MODULE MC_PatternRewrite -------------------------
(***************************************************************************)
(* Instances of PatternRewrite: every trace of at most five of the records *)
(* below and the patterns of the shipped scripts that delete and replace,  *)
(* with a machine that runs the traces before and after.                   *)
(***************************************************************************)
EXTENDS PatternRewrite, TLC

MCVarNames == {"reg1", "reg2", "imm1", "imm2", "imm3", "op1", "op2", "mnem1"}
MCFamily   == "eax" :> "eax" @@ "ebx" :> "ebx" @@ None :> None

\* Instructions and the records of running them.
Operand(type, index) ==
  [type |-> type, index |-> index, size |-> IF type = None THEN None ELSE "32"]
Absent == Operand(None, None)
Reg(r) == Operand("reg", r)
Imm    == Operand("imm", None)
Inst(opcode, o1, o2, imm) ==
  [opcode |-> opcode, opsize |-> "32", ops |-> <<o1, o2>>, base |-> None,
   scale |-> 0, disp |-> 0, imm |-> imm]
MovesEsp(ins)  == ins.opcode \in {"push", "pop"}
SetsFlags(ins) == ins.opcode = "add"
Executed(ins) == [ins |-> ins, esp |-> MovesEsp(ins), efl |-> SetsFlags(ins),
                  deleted |-> FALSE]

push(r)    == Executed(Inst("push", Reg(r), Absent, 0))
pop(r)     == Executed(Inst("pop", Reg(r), Absent, 0))
movi(r, n) == Executed(Inst("mov", Reg(r), Imm, n))
addi(r, n) == Executed(Inst("add", Reg(r), Imm, n))
movr(r, s) == Executed(Inst("mov", Reg(r), Reg(s), 0))

MCRecords == {push("eax"), pop("eax"), pop("ebx"), movi("eax", 1), addi("eax", 1),
              movr("ebx", "eax")}
MCTraces  == UNION {[1..n -> MCRecords] : n \in 0..5}

\* Lines.
Pop(type, var) == [type |-> type, var |-> var, szvar |-> None, ref |-> "plain",
                   not |-> FALSE, inall |-> FALSE, bits |-> None]
NoPop          == Pop(None, None)
NoRef(var)     == [Pop("reg", var) EXCEPT !.inall = TRUE, !.ref = "noref"]
Body(opcode, p1, p2) ==
  [opcode |-> opcode, not |-> FALSE, strict |-> FALSE, szvar |-> None,
   mnemvar |-> None, ops |-> <<p1, p2>>, tmpl |-> Inst(opcode, Absent, Absent, 0)]
BlankStmt == [type |-> "instruction", bodies |-> <<>>, stack |-> FALSE,
              eflags |-> FALSE, minc |-> 1, maxc |-> 1, less |-> FALSE,
              var |-> None, expr |-> <<>>, memexpr |-> BlankOperand,
              mnems |-> {}, not |-> FALSE, rps |-> <<>>]
Many == 16777215   \* 0xFFFFFF
One(opcode, p1, p2)        == [BlankStmt EXCEPT !.bodies = <<Body(opcode, p1, p2)>>]
Becomes(s, opcode, p1, p2) == [s EXCEPT !.rps = <<Body(opcode, p1, p2)>>]
Nop(s)   == Becomes(s, "nop", NoPop, NoPop)
Star(s)  == [s EXCEPT !.minc = 0, !.maxc = Many]
Lazy(s)  == [s EXCEPT !.less = TRUE]
Stack(s) == [s EXCEPT !.stack = TRUE]
Between(var) == Star(Stack(One(None, NoRef(var), NoPop)))
Leaf(oper, var) == [oper |-> oper, val |-> 0, var |-> var, left |-> 0, right |-> 0,
                    flags |-> {}]
Sum(a, b) == <<Leaf("var", a), Leaf("var", b),
               [Leaf("add", None) EXCEPT !.left = 1, !.right = 2]>>
Assign(v, e)   == [BlankStmt EXCEPT !.type = "express", !.var = v, !.expr = e]
Unless(v, mns) == [BlankStmt EXCEPT !.type = "control", !.var = v, !.mnems = mns,
                                    !.not = TRUE]
Pattern(mode, stmts) == [mode |-> mode, off |-> FALSE, maximumInst |-> Many,
                         insts |-> stmts, dyops |-> [d \in {} |-> BlankOperand]]

\* base.pasm: push reg1 -> nop / {*}{stack}::any {*}{!r}reg1 / pop reg1 -> nop
PushPop == Pattern("sequence",
  <<Nop(One("push", Pop("reg", "reg1"), NoPop)), Between("reg1"),
    Nop(One("pop", Pop("reg", "reg1"), NoPop))>>)
\* wl23_1.pasm: mov reg1,imm1 -> mov reg1,imm3 / {*}{-}{stack}::any {*}{!r}reg1
\* / add reg1,imm2 -> nop / imm3=imm1+imm2
MovAdd == Pattern("sequence",
  <<Becomes(One("mov", Pop("reg", "reg1"), Pop("imm", "imm1")),
            "mov", Pop("reg", "reg1"), Pop("imm", "imm3")),
    Lazy(Between("reg1")),
    Nop(One("add", Pop("reg", "reg1"), Pop("imm", "imm2"))),
    Assign("imm3", Sum("imm1", "imm2"))>>)
\* wl23_1.pasm: .mode reserve / mov reg1,op1 / {*}{-}{stack}::any {*}{!r}reg1
\* / {stack}::{strict}{mnem1}any reg1,op2 -> nop / mnem1!=xchg|cmpxchg
Dead == Pattern("reverse",
  <<One("mov", Pop("reg", "reg1"), Pop("any", "op1")), Lazy(Between("reg1")),
    Nop(Stack([BlankStmt EXCEPT !.bodies =
      <<[Body(None, Pop("reg", "reg1"), Pop("any", "op2")) EXCEPT
           !.strict = TRUE, !.mnemvar = "mnem1"]>>])),
    Unless("mnem1", {"xchg", "cmpxchg"})>>)
\* test.pasm: push reg1 -> nop / pop reg2 -> mov reg2,reg1
PushMov == Pattern("sequence",
  <<Nop(One("push", Pop("reg", "reg1"), NoPop)),
    Becomes(One("pop", Pop("reg", "reg2"), NoPop),
            "mov", Pop("reg", "reg2"), Pop("reg", "reg1"))>>)

MCPatterns == <<PushPop, Dead, MovAdd, PushMov>>
ASSUME MCPatternsDelete == Deleting

-----------------------------------------------------------------------------
\* A machine for these records: registers, and a stack that is deep enough.
Depth == 6
Word  == 0..Imms - 1
Start(a, b) == [eax |-> a, ebx |-> b, stack |-> [n \in 1..Depth |-> n % Imms]]
Run(m, ins) ==
  LET r == ins.ops[1].index
      s == ins.ops[2].index
      v == IF ins.ops[2].type = "imm" THEN ins.imm ELSE m[s]
  IN  CASE ins.opcode = "push" -> [m EXCEPT !.stack = <<m[r]>> \o @]
        [] ins.opcode = "pop"  -> [m EXCEPT ![r] = m.stack[1], !.stack = Tail(@)]
        [] ins.opcode = "mov"  -> [m EXCEPT ![r] = v]
        [] ins.opcode = "add"  -> [m EXCEPT ![r] = (@ + v) % Imms]
RunAll(m, trace) ==
  LET run_[n \in 0..Len(trace)] ==
        IF n = 0 THEN m ELSE Run(run_[n-1], trace[n].ins)
  IN  run_[Len(trace)]

\* What the simplified trace does to registers and stack is what the trace did,
\* whatever they held: deletions, replacements and their places, in both
\* directions and over all the rounds.
MeaningPreserved ==
  pc \in {"pass", "done"} =>
    \A a, b \in Word : RunAll(Start(a, b), insts) = RunAll(Start(a, b), given)
=============================================================================
