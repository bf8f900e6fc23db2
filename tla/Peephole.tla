------------------------------ MODULE Peephole ------------------------------
(***************************************************************************)
(* Simplifying a trace by rules (xVMDebugFrame::doDeobfuscateNormal,       *)
(* doDeobfuscateTempPushPop and the commands Y, N, B, V, C and Del of the  *)
(* trace window).  A record is an instruction and the flags of the record. *)
(*                                                                         *)
(* Operands are 32 bits wide, without index and scale, and one stack slot  *)
(* is one address: the 4 of the code is Slot here.  What a rule puts is    *)
(* what is encoded in its records, Gone for a record that is flagged.  The *)
(* library that decodes, compares and encodes operands is external.        *)
(***************************************************************************)
EXTENDS Integers, Sequences, FiniteSets, Bitwise
LOCAL INSTANCE SequencesExt

CONSTANTS
  Traces,       \* the traces the user may begin with
  Scripts,      \* bound: the commands the user may give, in their order
  Word          \* number of values of a word, a power of two

ASSUME PeepholeAssumption == Word \in Nat \ {0}

VARIABLES
  insts,        \* m_seq1.insts
  cmd,          \* the command at work
  pc,           \* "idle", "normal" or "pushpop"
  at,           \* the record the pass has come to
  nonce,        \* rewritings counted in this round
  silent,       \* history: the round has changed the trace without counting it
  pair,         \* tr1, tr2 and lastReg of the push/pop pass
  given         \* bound: the commands given so far

vars == <<insts, cmd, pc, at, nonce, silent, pair, given>>

-----------------------------------------------------------------------------
(* Operands and instructions.                                              *)

Operand(kind, base, n) == [kind |-> kind, base |-> base, n |-> n]
None      == Operand("none", "none", 0)
Reg(r)    == Operand("reg", r, 0)
Imm(n)    == Operand("imm", "none", n)
Mem(r, n) == Operand("mem", r, n)
Slot == 1
Esp  == Reg("esp")
Top  == Mem("esp", 0)

IsImm(x)             == x.kind = "imm"
IsSameOperand(x, y)  == x # None /\ x = y
IsNoneEspRelateOP(x) == x # None /\ x.base # "esp"

Inst(op, a, b) == [op |-> op, a |-> a, b |-> b]
push(x)        == Inst("push", x, None)
pop(x)         == Inst("pop", x, None)
mov(x, y)      == Inst("mov", x, y)

Unary == {"bswap", "not", "neg", "dec", "inc"}
Arith == {"sub", "add", "xor", "and", "or", "shr", "shl"}

\* The emulated step leaves ESP different.
IsEffectESP(ins) ==
  \/ ins.op \in {"push", "pop", "ret"}
  \/ ins.a = Esp /\ ~(ins.op \in {"add", "sub"} /\ ins.b = Imm(0))
  \/ ins.op = "xchg" /\ ins.b = Esp

\* The constant that instruction op makes of constant x with constant y.
Fold(op, x, y) ==
  CASE op = "add"  -> (x + y) % Word
    [] op = "sub"  -> (x - y) % Word
    [] op = "xor"  -> (x % Word) ^^ (y % Word)
    [] op = "and"  -> (x % Word) & (y % Word)
    [] op = "or"   -> (x % Word) | (y % Word)
    [] op = "shl"  -> (x * 2^(y % Word)) % Word
    [] op = "shr"  -> x \div 2^(y % Word)
    [] op = "inc"  -> (x + 1) % Word
    [] op = "dec"  -> (x - 1) % Word
    [] op = "not"  -> (-x - 1) % Word
    [] op = "neg"  -> (-x) % Word
    [] op = "bswap" -> LET half == CHOOSE h \in 1..Word : h * h = Word
                       IN  ((x % Word) % half) * half + (x % Word) \div half
    [] OTHER       -> x

-----------------------------------------------------------------------------
(* The rules.  v is the view of a window: m its mnemonics, "none" past the *)
(* end of the trace, and op01, op02, op11 ... the operands.  The rules of  *)
(* a list are tried in its order.                                          *)

Gone == Inst("gone", None, None)
Keep == Inst("keep", None, None)
Rule(when, put)  == [when |-> when, put |-> put, counted |-> TRUE]
Quiet(when, put) == [when |-> when, put |-> put, counted |-> FALSE]

\* Twice the same on one operand is nothing.
Involution(v) ==
  <<Rule(v.m[2] = v.m[1] /\ IsSameOperand(v.op01, v.op11), <<Gone, Gone>>)>>

Xchg(v) ==
  LET first == {v.op01, v.op02}
      third == {v.op21, v.op22}
      x     == IF v.op02 \in third THEN v.op02 ELSE v.op01
      y     == IF x = v.op02 THEN v.op01 ELSE v.op02
      other == IF x = v.op22 THEN v.op21 ELSE v.op22
  IN <<Quiet(v.op01 = v.op02, <<Gone>>),
       Rule(v.m[2] = "xchg" /\ first = {v.op11, v.op12}, <<Gone, Gone>>),
       \* xchg x,y  xchg y,z  xchg x,z
       Rule(/\ v.m[2] = "xchg" /\ v.m[3] = "xchg"
            /\ first \cap third # {}
            /\ <<v.op11, v.op12>> \in {<<other, y>>, <<y, other>>},
            <<Inst("xchg", v.op11, v.op12), Gone, Gone>>),
       \* xchg x,y  not x  xchg x,y
       Rule(/\ v.m[2] \in Unary /\ v.m[3] = "xchg"
            /\ first = third /\ v.op11 \in first,
            <<Inst(v.m[2], IF v.op11 = v.op01 THEN v.op02 ELSE v.op01, None),
              Gone, Gone>>)>>

\* push x  mov y,z ...
AsPush(v) ==
  <<push(v.op12), IF v.op12 = Esp THEN Inst("sub", Top, Imm(Slot)) ELSE Gone>>
AnyEspMem(x) == x.kind = "mem" /\ x.base = "esp"
PushMov(v) ==
  LET saved == v.op11.kind = "reg" /\ IsSameOperand(v.op01, v.op11)
      apart == /\ IsNoneEspRelateOP(v.op01) /\ IsNoneEspRelateOP(v.op11)
               /\ IsNoneEspRelateOP(v.op12)
      moved == /\ v.m[3] = "mov" /\ v.m[4] = "pop" /\ apart
               /\ IsNoneEspRelateOP(v.op21) /\ IsNoneEspRelateOP(v.op22)
               /\ IsSameOperand(v.op01, v.op11) /\ IsSameOperand(v.op01, v.op31)
      at01(x) == v.op01.kind = "reg" /\ x = Mem(v.op01.base, 0)
      negated == /\ v.m[3] = "sub" /\ v.m[5] = "pop" /\ v.op12 = Imm(0)
                 /\ \A x \in {v.op11, v.op21, v.op41} : IsSameOperand(v.op01, x)
  IN <<Rule(v.op01 = Esp /\ v.op11 = Esp /\ v.op12 = Top, <<Gone, Gone>>),
       \* push x  mov [esp],y, whatever the displacement
       Rule(AnyEspMem(v.op11), AsPush(v)),
       Rule(saved /\ v.op12 = Esp /\ v.m[3] = "xchg" /\ v.op21 = Top /\ v.op22 = v.op01,
            <<push(Esp), Inst("sub", Top, Imm(Slot)), Gone>>),
       Rule(/\ saved /\ v.op12 = Esp
            /\ v.m[3] = "add" /\ v.op21 = v.op01 /\ IsImm(v.op22)
            /\ v.m[4] = "xchg" /\ v.op31 = Top /\ v.op32 = v.op01
            /\ v.op41 = Esp /\ (v.m[5] = "pop" \/ (v.m[5] = "mov" /\ v.op42 = Top)),
            <<Inst("add", Esp, Imm(v.op22.n - Slot)), Gone, Gone, Gone, Gone>>),
       Rule(saved /\ v.op12 = Mem("esp", Slot) /\ v.m[3] = "pop" /\ v.op21 = Top,
            <<Inst("xchg", Top, v.op01), Gone, Gone>>),
       Rule(/\ v.op01 = Top /\ v.op12 = Top
            /\ v.m[3] = "add" /\ v.op21 = Esp /\ v.op22 = Imm(2 * Slot),
            <<pop(v.op11), Gone, Gone>>),
       Rule(apart /\ v.op01 = v.op11 /\ v.m[3] = "pop" /\ IsSameOperand(v.op12, v.op21),
            <<Inst("xchg", v.op01, v.op21), Gone, Gone>>),
       Rule(moved /\ v.op22 = v.op01, <<mov(v.op21, v.op12), Gone, Gone, Gone>>),
       Rule(moved /\ at01(v.op21), <<mov(Mem(v.op12.base, 0), v.op22), Gone, Gone, Gone>>),
       Rule(moved /\ at01(v.op22), <<mov(v.op21, Mem(v.op12.base, 0)), Gone, Gone, Gone>>),
       \* push x  mov x,0  sub x,y  xchg x,y (or mov y,x)  pop x
       Rule(/\ negated
            /\ \/ v.m[4] = "xchg" /\ <<v.op31, v.op32>> \in
                                      {<<v.op21, v.op22>>, <<v.op22, v.op21>>}
               \/ v.m[4] = "mov" /\ v.op31 = v.op22 /\ v.op32 = v.op21,
            <<Inst("neg", v.op22, None), Gone, Gone, Gone, Gone>>)>>

PushPop_BothMemory(v) ==
  <<Rule(IsSameOperand(v.op01, v.op11), <<Gone, Gone>>),
    Rule(TRUE, <<mov(v.op11, v.op01), Gone>>)>>
PushPop(v) ==
  LET onemem == ~(v.op01.kind = "mem" /\ v.op11.kind = "mem") IN
  <<Rule(onemem /\ IsSameOperand(v.op01, v.op11), <<Gone, Gone>>),
    Rule(onemem, <<mov(v.op11, v.op01), Gone>>)>>

\* push x  add [esp],y  pop z
PushAdd(v) ==
  <<Rule(v.op01 = Esp /\ v.op11 = Mem("esp", Slot) /\ v.m[3] = "pop" /\ v.op21 = Top,
         <<mov(Top, Esp), Gone, Gone>>),
    Rule(/\ v.op01 = Esp /\ v.op11 = Top /\ IsImm(v.op12)
         /\ v.m[3] = "pop" /\ v.op21.kind = "reg",
         <<Inst("lea", v.op21, Mem("esp", v.op12.n)), Gone, Gone>>),
    Rule(v.op01 # Esp /\ v.op11 = Top /\ v.op12 # None /\ v.m[3] = "pop",
         <<mov(v.op21, v.op01), Inst("add", v.op21, v.op12), Gone>>)>>

\* push r  lea r,[esp+n]  xchg [esp],r
PushLea(v) ==
  LET swapped == /\ v.op01.kind = "reg" /\ v.op01 = v.op11
                 /\ v.m[3] = "xchg" /\ v.op21 = Top /\ v.op22 = v.op01
  IN <<Rule(swapped /\ v.op12 = Mem("esp", Slot), <<push(Esp), Gone, Gone>>),
       Rule(/\ swapped /\ AnyEspMem(v.op12)
            /\ v.m[4] = "mov" /\ v.op31 = Esp /\ v.op32 = Top,
            <<Inst("lea", Esp, Mem("esp", v.op12.n - Slot)), Gone, Gone, Gone>>)>>

\* The second is not counted, and with pop the rule for push x ?? pop x puts the same
\* again and counts.
PushSub(v) ==
  LET lowered == v.op01 = Esp /\ v.op11 = Top /\ IsImm(v.op12) /\ v.op21 = Esp
      put     == <<Inst("sub", Esp, v.op12), Gone, Gone>>
  IN <<Rule(/\ v.op01 = Imm(0) /\ v.op11 = Top
            /\ v.m[3] = "pop" /\ IsSameOperand(v.op12, v.op21),
            <<Inst("neg", v.op12, None), Gone, Gone>>),
       Rule(lowered /\ v.m[3] = "pop", put),
       Quiet(lowered /\ v.m[3] = "mov" /\ v.op22 = Top, put)>>

PushRet(v) ==
  <<Rule(IsImm(v.op01) /\ v.op11 = None, <<Inst("jmp", v.op01, None), Gone>>)>>

\* push x  ?? y,z  pop w, with any instruction between.
PushAny(v) ==
  LET popped  == v.m[3] = "pop"
      same    == popped /\ IsSameOperand(v.op01, v.op21)
      two     == v.op11 # None /\ v.op12 # None
      foreign == v.op12.base # "esp"
  IN <<\* the slot below is written first, then x is pushed
       Rule(two /\ v.op11 = Mem("esp", Slot) /\ foreign,
            <<Inst(v.m[2], Top, v.op12), Inst("push", v.op01, None)>>),
       Rule(same /\ two /\ v.op11 = Top, <<Inst(v.m[2], v.op01, v.op12), Gone, Gone>>),
       Rule(same /\ two /\ v.op12 = Top, <<Inst(v.m[2], v.op11, v.op01), Gone, Gone>>),
       Rule(same /\ v.op11 = Top /\ v.op12 = None,
            <<Inst(v.m[2], v.op01, None), Gone, Gone>>),
       Rule(popped /\ two /\ v.op11 = Top /\ foreign /\ ~IsEffectESP(v.second),
            <<mov(v.op21, v.op01), Inst(v.m[2], v.op21, v.op12), Gone>>)>>

Push(v) ==
  (CASE v.m[2] = "mov" -> PushMov(v)
     [] v.m[2] = "pop" -> PushPop(v)
     [] v.m[2] = "add" -> PushAdd(v)
     [] v.m[2] = "lea" -> PushLea(v)
     [] v.m[2] = "sub" -> PushSub(v)
     [] v.m[2] = "ret" -> PushRet(v)
     [] OTHER          -> <<>>) \o PushAny(v)

\* add x,y  +- x,z  sub x,y, and the other way round.
Undone(v, inverse) ==
  Rule(/\ v.m[2] \in {"sub", "add"} /\ v.m[3] = inverse
       /\ IsSameOperand(v.op01, v.op11) /\ IsSameOperand(v.op01, v.op21)
       /\ IsSameOperand(v.op02, v.op22),
       <<Gone, Keep, Gone>>)
Add(v) ==
  <<Rule(v.op02 = Imm(0), <<Gone>>),
    Quiet(v.op01 = Esp /\ v.op02 = Imm(Slot) /\ v.m[2] = "mov" /\ v.op12 = Mem("esp", -Slot),
          <<pop(v.op11), Gone>>),
    Undone(v, "sub")>>
Sub(v) ==
  <<Rule(v.op02 = Imm(0), <<Gone>>),
    Rule(v.m[2] = "mov" /\ v.op01 = Esp /\ v.op02 = Imm(Slot) /\ AnyEspMem(v.op11), AsPush(v)),
    Undone(v, "add")>>

\* mov x,imm and what is computed with it.
Mov(v) ==
  LET const == IsImm(v.op02) /\ IsSameOperand(v.op01, v.op11)
      around(inverse) == /\ v.m[3] = inverse /\ v.m[2] \in {"sub", "add"}
                         /\ IsImm(v.op02) /\ IsImm(v.op22)
                         /\ IsSameOperand(v.op01, v.op21) /\ v.op01 # v.op12
      put == <<mov(v.op01, Imm(0)), Keep, Gone>>
  IN <<Rule(const /\ (v.m[2] \in Unary \ {"bswap"} \/ (v.m[2] \in Arith /\ IsImm(v.op12))),
            <<mov(v.op01, Imm(Fold(v.m[2], v.op02.n, v.op12.n))), Gone>>),
       Rule(v.m[2] = "add" /\ v.op02 = Top /\ v.op11 = Esp /\ v.op12 = Imm(Slot),
            <<pop(v.op01), Gone>>),
       Rule(v.m[2] = "add" /\ const /\ v.op02.n = 0, <<mov(v.op01, v.op12), Gone>>),
       Rule(v.m[2] = "mov" /\ IsSameOperand(v.op01, v.op11), <<Gone, Keep>>),
       Rule(around("sub") /\ v.op02 = v.op22, put),
       Rule(around("add") /\ (v.op02.n + v.op22.n) % Word = 0, put)>>

XorTwice(v) ==
  <<Rule(v.m[2] = "xor" /\ v.op01 = v.op11 /\ v.op02 = v.op12, <<Gone, Gone>>),
    Rule(/\ v.m[2] = "xor" /\ v.m[3] = "xor"
         /\ v.op01 = v.op12 /\ v.op01 = v.op21 /\ v.op02 = v.op11 /\ v.op02 = v.op22,
         <<Inst("xchg", v.op01, v.op02), Gone, Gone>>)>>

Lea(v) ==
  LET same  == IsSameOperand(v.op01, v.op11)
      moved == Inst("lea", v.op01,
                 Mem(v.op02.base,
                     CASE v.m[2] = "sub" -> v.op02.n - v.op12.n
                       [] v.m[2] = "add" -> v.op02.n + v.op12.n
                       [] v.m[2] = "inc" -> v.op02.n + 1
                       [] OTHER          -> v.op02.n - 1))
      onEsp == v.op01 = Esp /\ v.op02.base = "esp" /\ ~same
  IN <<Rule(/\ v.m[2] = "jmp" /\ v.op01 = Esp
            /\ v.op02 = Mem("esp", Slot) /\ v.op11 = Mem("esp", -Slot),
            <<Inst("ret", None, None), Gone>>),
       Rule(v.m[2] = "lea" /\ same, <<Gone, Keep>>),
       Rule(same /\ (v.m[2] \in {"inc", "dec"} \/ (v.m[2] \in {"sub", "add"} /\ IsImm(v.op12))),
            <<moved, Gone>>),
       Rule(onEsp /\ v.op02.n = 0, <<Gone>>),
       Rule(onEsp /\ v.op02.n > 0, <<Inst("add", Esp, Imm(v.op02.n))>>),
       Rule(onEsp /\ v.op02.n < 0, <<Inst("sub", Esp, Imm(-v.op02.n))>>)>>

\* Whatever the first instruction: two constants added or subtracted become one, and
\* what [esp] is given is dead when it is given something else.  The last does not see
\* the operands of an xchg x,y  mov x,z  xchg x,y in their order.
Signed(op, x) == IF op = "sub" THEN -x.n ELSE x.n
AnyFirst(v) ==
  LET delta == Signed(v.m[1], v.op02) + Signed(v.m[2], v.op12)
      sums  == /\ {v.m[1], v.m[2]} \subseteq {"sub", "add"}
               /\ IsSameOperand(v.op01, v.op11) /\ IsImm(v.op02) /\ IsImm(v.op12)
      upset == /\ v.m[1] = "xchg" /\ v.m[3] = "xchg"
               /\ {v.op01, v.op02} = {v.op21, v.op22} /\ v.op01 = v.op11
  IN <<Rule(sums /\ delta = 0, <<Gone, Gone>>),
       Rule(sums /\ delta > 0, <<Inst("add", v.op01, Imm(delta)), Gone>>),
       Rule(sums /\ delta < 0, <<Inst("sub", v.op01, Imm(-delta)), Gone>>),
       Rule(/\ v.op01 = Top /\ v.op02 # None /\ v.m[2] = "mov" /\ v.op11 = Top
            /\ ~IsEffectESP(v.first) /\ ~upset,
            <<Gone, Keep>>)>>

Rules(v) ==
  (CASE v.m[1] \in {"bswap", "neg", "not"} -> Involution(v)
     [] v.m[1] = "rdtsc" -> <<Rule(TRUE, <<Gone>>)>>
     [] v.m[1] = "xchg"  -> Xchg(v)
     [] v.m[1] = "push"  -> Push(v)
     [] v.m[1] = "add"   -> Add(v)
     [] v.m[1] = "sub"   -> Sub(v)
     [] v.m[1] = "mov"   -> Mov(v)
     [] v.m[1] = "xor"   -> XorTwice(v)
     [] v.m[1] = "lea"   -> Lea(v)
     [] OTHER            -> <<>>) \o AnyFirst(v)

-----------------------------------------------------------------------------
(* The pass of rules.                                                      *)

Width == 6      \* MAX_N_INST
Junk    == "JUNK"
Deleted == "DELETE"
Mark    == IF cmd = "mark" THEN Junk ELSE Deleted
Past    == [ins |-> Inst("none", None, None), flags |-> {}]

\* The records from i on that are decoded for one window, and the view of them.
Window(s, i) == [k \in 1..Width |-> IF i + k - 1 <= Len(s) THEN s[i+k-1] ELSE Past]
View(w) ==
  [m |-> [k \in 1..Width |-> w[k].ins.op], first |-> w[1].ins, second |-> w[2].ins,
   op01 |-> w[1].ins.a, op02 |-> w[1].ins.b, op11 |-> w[2].ins.a, op12 |-> w[2].ins.b,
   op21 |-> w[3].ins.a, op22 |-> w[3].ins.b, op31 |-> w[4].ins.a, op32 |-> w[4].ins.b,
   op41 |-> w[5].ins.a, op42 |-> w[5].ins.b]

\* The rule for the window at i: the first that holds.  A window with a record that is
\* flagged is passed over.
NoRule == [when |-> FALSE, put |-> <<>>, counted |-> FALSE]
FirstOf(rules) ==
  LET hold == {k \in DOMAIN rules : rules[k].when}
  IN  IF hold = {} THEN NoRule ELSE rules[CHOOSE k \in hold : \A j \in hold : k <= j]
RuleAt(s, i, mark) ==
  LET w == Window(s, i) IN
  IF (\E k \in 1..Width : mark \in w[k].flags) \/ w[2] = Past THEN NoRule
  ELSE CHOOSE r \in {FirstOf(Rules(v)) : v \in {View(w)}} : TRUE

\* The records with what a rule puts in those from i on.
Apply(s, i, put, mark) ==
  [k \in 1..Len(s) |->
     IF k < i \/ k >= i + Len(put) \/ put[k-i+1] = Keep THEN s[k]
     ELSE IF put[k-i+1] = Gone THEN [s[k] EXCEPT !.flags = @ \cup {mark}]
     ELSE [s[k] EXCEPT !.ins = put[k-i+1]]]

Normal ==
  /\ pc = "normal"
  /\ at <= Len(insts)
  /\ \E rule \in {RuleAt(insts, at, Mark)} :
       /\ insts' = Apply(insts, at, rule.put, Mark)
       /\ nonce' = IF rule.counted THEN nonce + 1 ELSE nonce
       /\ silent' = (silent \/ (rule.when /\ ~rule.counted))
  /\ at' = at + 1
  /\ UNCHANGED <<cmd, pc, pair, given>>

deleteFlagedInSeq(s) == SelectSeq(s, LAMBDA r : Deleted \notin r.flags)
NoPair == [tr1 |-> 0, tr2 |-> 0, lastReg |-> "none"]
EndNormal ==
  /\ pc = "normal"
  /\ at > Len(insts)
  /\ insts' = deleteFlagedInSeq(insts)
  /\ pc' = IF cmd = "all" THEN "pushpop" ELSE "idle"
  /\ at' = 1
  /\ pair' = NoPair
  /\ UNCHANGED <<cmd, nonce, silent, given>>

-----------------------------------------------------------------------------
(* The pass for push r ... pop r.                                          *)

\* What is known of register r after records after a push of it: ts is -1 when the
\* pair must stay, 0 when nothing has touched r, 1 or 2 when lv is the constant in it,
\* 3 when that constant has been used once, 4 when the slot itself was changed; use is
\* the register to look for, and marks the flags put on records.
Untouched == [ts |-> 0, use |-> "none", lv |-> 0, marks |-> {}]
Touches_RegisterOnly(x, r) == x.base = r
Touches(x, r) == x.base \in {r, "esp"}
Marked(f, flag, k) == [f EXCEPT !.marks = @ \cup {<<k, flag>>}]
Computed(f, k, v) == [Marked(f, "TEMPFLAG", k) EXCEPT !.ts = 2, !.lv = v]
After(f, k, ins, r) ==
  LET const == ins.a = Reg(r) /\ IsImm(ins.b)
      used  == ins.a # Reg(r) /\ f.use # "none" /\ ins.b = Reg(f.use)
  IN CASE f.ts = -1 -> f
       [] ins.op = "mov" /\ f.ts \in {0, 1} /\ const ->
            [Computed(f, k, ins.b.n) EXCEPT !.ts = 1, !.use = r]
       [] ins.op = "mov" /\ f.ts = 2 /\ const -> Computed(f, k, ins.b.n)
       [] ins.op \in Unary /\ f.ts < 3 /\ f.use = r /\ ins.a = Reg(r) ->
            Computed(f, k, Fold(ins.op, f.lv, 0))
       [] ins.op \in Arith /\ f.ts < 3 /\ const ->
            Computed(f, k, Fold(ins.op, f.lv, ins.b.n))
       [] ins.op \in Arith \cup {"mov"} /\ f.ts < 3 /\ used ->
            [Marked(f, "OPERFLAG", k) EXCEPT !.ts = 3]
       [] ins.op \in Unary /\ ins.a = Top -> [Marked(f, "MOVETOTOP", k) EXCEPT !.ts = 4]
       [] OTHER -> IF Touches(ins.a, r) \/ Touches(ins.b, r) THEN [f EXCEPT !.ts = -1]
                   ELSE f

\* The records after tr1 up to tr2, or to the end when tr2 lies before tr1.
Followed(s, i, j, r) ==
  LET last == IF i < j THEN j - 1 ELSE Len(s)
      f[k \in i..last] == IF k = i THEN Untouched ELSE After(f[k-1], k, s[k].ins, r)
  IN  f[last]

\* What becomes of the records of the pair at i and j: with the flags put, those from
\* tr1 to the record after tr2 (or to the end) are deleted, moved or given the constant.
\* Nothing is cleaned up when the record after tr2 is tr1.
Temporary == {"TEMPFLAG", "OPERFLAG", "MOVETOTOP"}
PairDone(s, i, j, r) ==
  LET f == Followed(s, i, j, r)
      flagged == [k \in 1..Len(s) |-> [s[k] EXCEPT !.flags = @ \cup
                    {m[2] : m \in {x \in f.marks : x[1] = k}} \cup
                    (IF k \in {i, j} THEN {"TEMPFLAG"} ELSE {})]]
      range == IF i < j THEN i..j ELSE IF j + 1 = i THEN {} ELSE i..Len(s)
      has(flag) == {k \in range : flag \in flagged[k].flags}
      valid == f.ts = 0 \/ (f.ts = 3 /\ has("OPERFLAG") # {})
      lower(x) == IF valid /\ AnyEspMem(x) THEN [x EXCEPT !.n = @ - Slot] ELSE x
      ins(k) == LET x == flagged[k].ins IN
        [op |-> x.op,
         a |-> IF k \in has("MOVETOTOP") THEN Reg(r) ELSE lower(x.a),
         b |-> IF valid /\ f.ts = 3 /\ k \in has("OPERFLAG") THEN Imm(f.lv) ELSE lower(x.b)]
      done == [k \in 1..Len(s) |->
                 IF k \notin range THEN flagged[k]
                 ELSE IF valid /\ k \in has("TEMPFLAG")
                 THEN [flagged[k] EXCEPT !.flags = (@ \ Temporary) \cup {Junk, Deleted}]
                 ELSE [ins |-> ins(k), flags |-> flagged[k].flags \ Temporary]]
      pick(S) == LET order == SetToSortSeq(S, <) IN [n \in 1..Cardinality(S) |-> done[order[n]]]
      top == has("MOVETOTOP")
  IN  [insts |-> pick(1..i-1) \o pick(top) \o pick((i..Len(s)) \ top),
       at    |-> IF i < j THEN j ELSE i + Cardinality(top)]

\* One record of the pass.
Seen_AcrossEsp(ins) ==
  CASE ins.op = "push" /\ ins.a.kind = "reg" ->
         [pair EXCEPT !.tr1 = at, !.lastReg = ins.a.base]
    [] ins.op = "pop" /\ ins.a.kind = "reg" /\ ins.a.base = pair.lastReg ->
         [pair EXCEPT !.tr2 = at]
    [] OTHER -> pair
Seen(ins) ==
  LET last == pair.lastReg IN
  CASE ins.op = "push" /\ ins.a.kind = "reg" ->
         [pair EXCEPT !.tr1 = at, !.lastReg = ins.a.base]
    [] ins.op = "pop" /\ ins.a.kind = "reg" /\ ins.a.base = last -> [pair EXCEPT !.tr2 = at]
    [] IsEffectESP(ins) -> [NoPair EXCEPT !.lastReg = last]
    [] OTHER -> pair
PushPopStep ==
  /\ pc = "pushpop"
  /\ at <= Len(insts)
  /\ \E p \in {IF Deleted \in insts[at].flags THEN pair ELSE Seen(insts[at].ins)} :
       IF Deleted \notin insts[at].flags /\ p.tr1 # 0 /\ p.tr2 # 0
       THEN \E done \in {PairDone(insts, p.tr1, p.tr2, p.lastReg)} :
              /\ insts' = done.insts
              /\ at' = done.at + 1
              /\ pair' = [NoPair EXCEPT !.lastReg = p.lastReg]
       ELSE /\ at' = at + 1
            /\ pair' = p
            /\ UNCHANGED insts
  /\ silent' = (silent \/ insts' # insts)
  /\ UNCHANGED <<cmd, pc, nonce, given>>

\* It returns 0 whatever it has done.
EndPushPop_LastCounts ==
  /\ pc = "pushpop"
  /\ at > Len(insts)
  /\ insts' = deleteFlagedInSeq(insts)
  /\ at' = 1
  /\ IF cmd = "all" /\ nonce > 1
     THEN pc' = "normal" /\ nonce' = 0 /\ silent' = FALSE
     ELSE pc' = "idle" /\ UNCHANGED <<nonce, silent>>
  /\ UNCHANGED <<cmd, pair, given>>
EndPushPop_NotReset ==
  /\ pc = "pushpop"
  /\ at > Len(insts)
  /\ insts' = deleteFlagedInSeq(insts)
  /\ at' = 1
  /\ IF cmd = "all" /\ nonce >= 1
     THEN pc' = "normal" /\ silent' = FALSE /\ UNCHANGED nonce
     ELSE pc' = "idle" /\ UNCHANGED <<nonce, silent>>
  /\ UNCHANGED <<cmd, pair, given>>
EndPushPop ==
  /\ pc = "pushpop"
  /\ at > Len(insts)
  /\ insts' = deleteFlagedInSeq(insts)
  /\ at' = 1
  /\ IF cmd = "all" /\ nonce >= 1
     THEN pc' = "normal" /\ nonce' = 0 /\ silent' = FALSE
     ELSE pc' = "idle" /\ UNCHANGED <<nonce, silent>>
  /\ UNCHANGED <<cmd, pair, given>>

-----------------------------------------------------------------------------
(* The commands.                                                           *)

Begin(c) ==
  /\ pc = "idle"
  /\ given' = Append(given, c)
  /\ \E script \in Scripts : IsPrefix(given', script)
  /\ cmd' = c

\* Y, N, V and B.
Simplify(c) ==
  /\ Begin(c)
  /\ pc' = IF c = "pushpop" THEN "pushpop" ELSE "normal"
  /\ at' = 1
  /\ nonce' = 0
  /\ silent' = FALSE
  /\ pair' = NoPair
  /\ UNCHANGED insts

\* Del, with the rows selected that the window selects: those that are junk.
DeleteSelected ==
  /\ Begin("del")
  /\ insts' = SelectSeq(insts, LAMBDA r : Junk \notin r.flags)
  /\ UNCHANGED <<pc, at, nonce, silent, pair>>

\* C.
clearSeqFlag ==
  /\ Begin("clear")
  /\ insts' = [k \in 1..Len(insts) |-> [insts[k] EXCEPT !.flags = @ \ {Junk}]]
  /\ UNCHANGED <<pc, at, nonce, silent, pair>>

Init ==
  /\ insts \in {[k \in 1..Len(t) |-> [ins |-> t[k], flags |-> {}]] : t \in Traces}
  /\ cmd = "none"
  /\ pc = "idle"
  /\ at = 1
  /\ nonce = 0
  /\ silent = FALSE
  /\ pair = NoPair
  /\ given = <<>>

Pass == Normal \/ EndNormal \/ PushPopStep \/ EndPushPop
Next ==
  \/ Pass
  \/ \E c \in {"mark", "normal", "all", "pushpop"} : Simplify(c)
  \/ DeleteSelected
  \/ clearSeqFlag

Spec == Init /\ [][Next]_vars /\ WF_vars(Pass)

\* Between commands no record is flagged for deletion; what the push/pop pass notes on
\* a record may be left on it (a pop that is followed by the push of its register).
TypeOK ==
  /\ \A k \in 1..Len(insts) :
       insts[k].flags \subseteq {Junk} \cup Temporary \cup IF pc = "idle" THEN {} ELSE {Deleted}
  /\ pc \in {"idle", "normal", "pushpop"}
  /\ at \in 1..Len(insts)+1
  /\ nonce \in Nat
  /\ silent \in BOOLEAN
  /\ pc = "pushpop" => {pair.tr1, pair.tr2} \subseteq 0..at-1
=============================================================================
