---------------------------- MODULE MC_Peephole ----------------------------
(***************************************************************************)
(* Instances of Peephole: traces in the shape of the rules, and a machine  *)
(* that runs a trace, so that the meaning of a trace before and after a    *)
(* rewriting can be compared.                                              *)
(***************************************************************************)
EXTENDS Peephole, TLC

A == Reg("eax")
B == Reg("ebx")
C == Reg("ecx")
AtA == Mem("eax", 0)
Top1 == Mem("esp", Slot)
add(x, y)  == Inst("add", x, y)
sub(x, y)  == Inst("sub", x, y)
xchg(x, y) == Inst("xchg", x, y)
lea(x, y)  == Inst("lea", x, y)
xor(x, y)  == Inst("xor", x, y)
unary(op, x) == Inst(op, x, None)

Pairs(S, T) == {<<s, t>> : s \in S, t \in T}
Triples(S, T, U) == {<<s, t, u>> : s \in S, t \in T, u \in U}

\* push x  ??  (pop z, or another end of the rules).
Sources == {A, B, Esp, Imm(0), Imm(2), Top, AtA}
Pushes  == {push(x) : x \in Sources}
Middles ==
  {mov(x, y) : x \in {A, B, Esp, Top, Top1}, y \in {A, B, Esp, Imm(0)}}
  \cup {mov(x, y) : x \in {A, B, Esp}, y \in {Top, Top1, AtA}}
  \cup {add(x, y) : x \in {Top, Top1, A}, y \in {A, B, Esp, Imm(2)}}
  \cup {add(A, Top), add(B, Top), Inst("and", Top, B), Inst("or", A, Top)}
  \cup {sub(x, y) : x \in {Top, A}, y \in {A, B, Imm(2)}}
  \cup {xchg(Top, A), xchg(Top, B), xchg(A, B)}
  \cup {lea(A, Top), lea(A, Top1), lea(A, Mem("esp", 2)), lea(B, Top)}
  \cup {unary("not", Top), unary("neg", A), unary("not", B)}
  \cup {pop(x) : x \in {A, B, Esp, Top, AtA}} \cup {Inst("ret", None, None)}
Ends ==
  {pop(x) : x \in {A, B, C, Esp, Top, AtA}}
  \cup {xchg(Top, A), mov(Esp, Top), add(Esp, Imm(2))}
PushTraces == Triples(Pushes, Middles, Ends)

\* The rules that do not begin with a push.
Places == {A, B, Esp, Top, AtA}
Values == {A, B, Imm(0), Imm(2), AtA}
Ops    == {"add", "sub", "xor"}
Pairs2 ==
  Pairs({unary(op, x) : op \in {"bswap", "neg", "not"}, x \in {A, AtA}}
        \cup {Inst("rdtsc", None, None)},
        {unary(op, x) : op \in {"bswap", "neg", "not"}, x \in {A, AtA}})
  \cup Pairs({xchg(x, y) : x \in {A, B, Top}, y \in {A, B, Top}},
             {xchg(x, y) : x \in {A, B, Top}, y \in {A, B, C, Top}} \cup {mov(Top, B)})
  \cup Pairs({Inst(op, x, y) : op \in {"add", "sub"}, x \in Places,
                               y \in {A, Imm(0), Imm(Slot), Imm(2)}},
             {Inst(op, x, y) : op \in {"add", "sub"}, x \in Places,
                               y \in {B, Imm(Slot), Imm(2)}}
             \cup {mov(x, y) : x \in {A, Esp, Top, Top1},
                               y \in {B, Esp, Top, Mem("esp", -Slot), Imm(0)}})
  \cup Pairs({mov(x, y) : x \in Places, y \in {B, Imm(0), Imm(2), Top}},
             {Inst(op, x, y) : op \in Arith \cup {"mov"}, x \in {A, B, Esp, Top},
                               y \in {A, AtA, Top, Imm(Slot)}}
             \cup {unary(op, A) : op \in Unary})
  \cup Pairs({xor(x, y) : x \in {A, B}, y \in {A, AtA, Imm(2)}},
             {xor(x, y) : x \in {A, B}, y \in {A, AtA, Imm(2)}})
  \cup Pairs({lea(x, y) : x \in {A, Esp}, y \in {AtA, Mem("ebx", 2), Top, Top1, Mem("esp", -Slot)}},
             {lea(x, y) : x \in {A, Esp}, y \in {AtA, Mem("ebx", 2), Mem("esp", 2)}}
             \cup {unary("inc", A), unary("dec", Esp), Inst("jmp", Mem("esp", -Slot), None),
                   Inst("jmp", A, None)}
             \cup {Inst(op, x, y) : op \in {"add", "sub"}, x \in {A, Esp}, y \in {B, Imm(2)}})
Triples2 ==
  Triples({xchg(x, y) : x \in {A, B}, y \in {A, B, C, Top}},
          {xchg(x, y) : x \in {A, B, C, Top}, y \in {A, B, C}}
          \cup {unary("not", x) : x \in {A, B, C, Top}} \cup {mov(Top, C)},
          {xchg(x, y) : x \in {A, B, Top}, y \in {A, B, C}})
  \cup Triples({Inst(op, x, y) : op \in {"add", "sub", "xor"}, x \in {A, B}, y \in {A, B, Imm(2), AtA}},
               {Inst(op, x, y) : op \in {"add", "sub", "xor"}, x \in {A, B}, y \in {A, B, Imm(2), AtA}},
               {Inst(op, x, y) : op \in {"add", "sub", "xor"}, x \in {A, B}, y \in {A, B, Imm(2), AtA}})
  \cup Triples({mov(x, Imm(n)) : x \in {A, B}, n \in {2, -2}},
               {Inst(op, x, y) : op \in {"add", "sub"}, x \in {A, B, AtA}, y \in {A, B, C, AtA}},
               {Inst(op, x, Imm(2)) : op \in {"add", "sub"}, x \in {A, B}})
Long ==
  {<<push(x), mov(x, y), mov(z, w), pop(x)>> :
      x \in {A, AtA}, y \in {B, Imm(2), AtA, Mem("ebx", 0)},
      z \in {A, B, C, AtA, Mem("ebx", 0), Mem("ecx", 0)},
      w \in {A, B, C, AtA, Mem("ebx", 0)}}
  \cup {<<push(A), mov(A, Imm(0)), sub(A, y), last, pop(A)>> :
           y \in {A, B, AtA, Top}, last \in {xchg(A, B), xchg(B, A), xchg(A, Top), mov(B, A),
                                            mov(Top, A), mov(AtA, A), xchg(A, A)}}
  \cup {<<push(A), mov(A, Esp), add(A, Imm(n)), xchg(Top, A), last>> :
           n \in {Slot, 2, -2}, last \in {pop(Esp), mov(Esp, Top)}}
  \cup {<<push(A), lea(A, Mem("esp", n)), xchg(Top, A), last>> :
           n \in {Slot, 2, 0, -2}, last \in {pop(Esp), mov(Esp, Top)}}

\* For the push/pop pass: what may lie in a pair, pairs in one another and pairs that
\* are cut by a change of ESP.
Inside == {mov(A, Imm(2)), mov(A, B), mov(B, A), mov(B, Top1), mov(Top1, B), mov(Top, A),
           add(A, Imm(2)), add(B, A), add(Top1, A), add(B, C), Inst("shl", B, A),
           unary("not", A), unary("not", Top), xchg(A, B), lea(B, Mem("esp", 2)),
           add(AtA, B), mov(B, Esp)}
Cut    == {push(A), push(B), pop(A), pop(B), add(Esp, Imm(2)), mov(A, Imm(2))}
Enclosed ==
  {<<push(A), x, y, pop(A)>> : x \in Inside, y \in Inside}
  \cup {<<push(A), mov(A, Imm(2)), x, y, pop(A), z>> : x \in Inside, y \in Inside, z \in {mov(B, A), pop(B)}}
  \cup {<<push(A), w, x, y, z>> : w \in Cut, x \in Cut, y \in Cut, z \in Cut}
AllTraces == PushTraces \cup Pairs2 \cup Triples2 \cup Long \cup Enclosed
RuleTraces == {t \in AllTraces : Len(t) > 3 \/ RuleAt([k \in 1..Len(t) |-> [ins |-> t[k], flags |-> {}]], 1, Deleted).when}
AllScripts == {<<"mark", "del">>, <<"mark", "clear">>, <<"all">>, <<"pushpop">>}

\* A machine.  The cells of Stack are the stack: held are those of them that hold
\* something, freed when ESP passes them; left says that ESP has been given a value of
\* its own, so that nothing is known of them.
Stack == 4..11
Base  == 9
Machine(a, b, c) ==
  [reg |-> "eax" :> a @@ "ebx" :> b @@ "ecx" :> c @@ "esp" :> Base @@ "eip" :> 0,
   mem |-> [x \in 0..Word-1 |-> (7 * x + 3) % Word], held |-> {x \in Stack : x >= Base}, left |-> FALSE,
   bad |-> FALSE]
Starts == {Machine(14, 13, 2), Machine(1, 15, 12), Machine(2, 0, 13)}

Addr(m, x) == ((IF x.base = "none" THEN 0 ELSE m.reg[x.base]) + x.n) % Word
Value(m, x) ==
  CASE x.kind = "reg" -> m.reg[x.base]
    [] x.kind = "imm" -> x.n % Word
    [] x.kind = "mem" -> m.mem[Addr(m, x)]
    [] OTHER          -> 0
Freed(m) == [m EXCEPT !.held = {x \in @ : x >= m.reg["esp"]}]
Store(m, x, v) ==
  [m EXCEPT !.mem[x] = v,
            !.held = IF x \in Stack /\ x >= m.reg["esp"] THEN @ \cup {x} ELSE @]
PutEsp(m, x, v, relative) ==
  CASE x = Esp        -> Freed([m EXCEPT !.reg["esp"] = v, !.left = @ \/ ~relative])
    [] x.kind = "reg" -> [m EXCEPT !.reg[x.base] = v]
    [] x.kind = "mem" -> Store(m, Addr(m, x), v)
    [] OTHER          -> [m EXCEPT !.bad = TRUE]
Put(m, x, v) == PutEsp(m, x, v, FALSE)
Shifted(m, n) == Freed([m EXCEPT !.reg["esp"] = (@ + n) % Word])
Alu(op, x, y) ==
  CASE op = "add" -> (x + y) % Word
    [] op = "sub" -> (x - y) % Word
    [] op = "xor" -> x ^^ y
    [] op = "and" -> x & y
    [] op = "or"  -> x | y
    [] op = "shl" -> (x * 2^y) % Word
    [] op = "shr" -> x \div 2^y
    [] op = "not" -> (Word - 1) - x
    [] op = "neg" -> (Word - x) % Word
    [] op = "inc" -> (x + 1) % Word
    [] op = "dec" -> (x + Word - 1) % Word
    [] op = "bswap" -> (x % 4) * 4 + x \div 4
\* What no encoding exists for.
Unencodable(ins) ==
  \/ ins.op \notin {"push", "pop"} /\ ins.a.kind = "mem" /\ ins.b.kind = "mem"
  \/ ins.op = "lea" /\ ins.b.kind # "mem"
  \/ ins.op \notin {"push", "ret", "jmp", "rdtsc"} /\ ins.a.kind \notin {"reg", "mem"}
Exec(m, ins) ==
  LET x == Value(m, ins.a)
      y == Value(m, ins.b)
  IN CASE m.bad \/ Unencodable(ins) -> [m EXCEPT !.bad = TRUE]
       [] ins.op = "push"  -> LET n == Shifted(m, -1) IN Store(n, n.reg["esp"], x)
       [] ins.op = "pop"   -> Put(Shifted(m, 1), ins.a, m.mem[m.reg["esp"]])
       [] ins.op = "mov"   -> Put(m, ins.a, y)
       [] ins.op = "lea"   -> PutEsp(m, ins.a, Addr(m, ins.b), ins.b.base = "esp")
       [] ins.op = "xchg"  -> LET n == Put(m, ins.a, y) IN
                              IF ins.b.kind = "mem" THEN Store(n, Addr(m, ins.b), x)
                              ELSE Put(n, ins.b, x)
       [] ins.op = "ret"   -> [Shifted(m, 1) EXCEPT !.reg["eip"] = m.mem[m.reg["esp"]]]
       [] ins.op = "jmp"   -> [m EXCEPT !.reg["eip"] = x]
       [] ins.op = "rdtsc" -> m
       [] OTHER            -> PutEsp(m, ins.a, Alu(ins.op, x, y), IsImm(ins.b))
Run(m, s) ==
  LET f[k \in 0..Len(s)] == IF k = 0 THEN m ELSE Exec(f[k-1], s[k].ins) IN f[Len(s)]

\* Two ends that a program cannot tell apart: what is not held of the stack is free.
Same(m, n) ==
  m.bad \/ (/\ ~n.bad /\ m.reg = n.reg /\ (m.left \/ m.held \subseteq n.held)
            /\ \A x \in 0..Word-1 : x \in Stack \ (m.held \cap n.held)
                                    \/ m.mem[x] = n.mem[x])
Equivalent(s, t) == \A m \in Starts : Same(Run(m, s), Run(m, t))

Standing(s) == SelectSeq(s, LAMBDA r : Deleted \notin r.flags /\
                                       (Mark = Junk => Junk \notin r.flags))

-----------------------------------------------------------------------------
(* The traces the rules are made for.  t is what a rule looks at.          *)

Operands(ins) == {ins.a, ins.b}
Given(ins) == IF ins.op \in {"push", "ret", "jmp"} THEN {}
              ELSE {x \in {ins.a} \cup (IF ins.op = "xchg" THEN {ins.b} ELSE {}) : x.kind = "reg"}

\* No instruction has twice the same operand, and no memory operand is addressed with
\* a register that the window changes.
Apart(t) ==
  /\ \A k \in DOMAIN t : t[k].a # t[k].b
  /\ \A j, k \in DOMAIN t : \A x \in Given(t[j]) \ {Esp}, y \in Operands(t[k]) :
       y.kind = "mem" => y.base # x.base

\* ESP is only moved by constants, or given up at the end, and is not computed with.
EspMoves(t) ==
  \A k \in DOMAIN t :
    /\ t[k].b = Esp => t[k].op = "mov" /\ t[k].a.kind = "reg"
    /\ t[k].a = Esp =>
         \/ t[k].op = "push"
         \/ t[k].op \in {"add", "sub"} /\ IsImm(t[k].b)
         \/ t[k].op = "lea" /\ t[k].b.base = "esp" /\ (k < Len(t) => t[k+1].op # "lea")
         \/ k = Len(t) /\ t[k].op \in {"pop", "mov"}

\* What is pushed is not changed behind the push, what computes with the slot has
\* nothing to do with what is pushed or popped, and one operand is in memory.
SlotOnly(t) ==
  LET middle == 2..Len(t)-1
      memory(k) == \E x \in Operands(t[k]) :
                     x.kind = "mem" /\ (k \in middle => x \notin {Top, Top1})
  IN t[1].op = "push" =>
       /\ AnyEspMem(t[1].a) => t[2].a # Top1
       /\ Len(t) = 3 /\ t[3].op = "pop" =>
            /\ Top \in Operands(t[2]) => Operands(t[2]) \cap {t[1].a, t[3].a} \subseteq {Top}
            /\ t[2].op \notin {"lea", "pop"}
       /\ Len(t) > 2 => Cardinality({k \in DOMAIN t : memory(k)}) <= 1

Plain(t) == Apart(t) /\ EspMoves(t) /\ SlotOnly(t)

\* Windows that are plain and lose their meaning all the same: an xchg with [esp] that
\* is dropped with its other half, and push x  mov x,0  sub x,[esp] ... pop x, where
\* the [esp] inside is not the [esp] outside.
HalfDropped(t) == t[1].op = "xchg" /\ t[2].op = "mov"
OtherSlot(t)   == t[1].op = "push" /\ Len(t) = 5 /\ t[3].b = Top

\* push x (or sub esp,4) and a mov to another slot than [esp].
Displaced(t) == /\ Len(t) = 2 /\ t[1].op \in {"push", "sub"} /\ t[2].op = "mov"
                /\ AnyEspMem(t[2].a) /\ t[2].a # Top

Looked == LET put == RuleAt(insts, at, Mark).put
          IN  [k \in 1..Len(put) |-> insts[at+k-1].ins]
Rewriting == pc = "normal" /\ at <= Len(insts) /\ RuleAt(insts, at, Mark).when
Kept == insts' = insts \/ Equivalent(Standing(insts), Standing(insts'))

-----------------------------------------------------------------------------
(* Properties.                                                             *)

\* A rule that rewrites a plain window leaves a trace with the same meaning (the rules
\* of doDeobfuscateNormal), whether it marks (Y) or deletes (N, V), in every round.
RulesKeepMeaning ==
  [][Rewriting /\ Plain(Looked) /\ ~HalfDropped(Looked) /\ ~OtherSlot(Looked)
       /\ ~Displaced(Looked) => Kept]_vars

\* Dropping push r .. pop r keeps the meaning of the trace, constants put in the place
\* of r and operands of the stack lowered by the slot, when the pop follows the push, r
\* addresses no memory, r is not stored in the slot of the pair, and r is not read when
\* the slot is computed with (doDeobfuscateTempPushPop).
Reads(ins, r) == Reg(r) \in IF ins.op \in {"mov", "lea"} THEN {ins.b} ELSE Operands(ins)
PairPlain(p) ==
  LET between == p.tr1+1..p.tr2-1
      ins(k)  == insts[k].ins
  IN /\ p.tr1 < p.tr2
     /\ \A k \in between : /\ \A x \in Operands(ins(k)) : x.kind = "mem" => x.base # p.lastReg
                           /\ ~(ins(k).a = Top /\ ins(k).b = Reg(p.lastReg))
     /\ (\E k \in between : ins(k).op \in Unary /\ ins(k).a = Top) =>
          \A k \in between : ~Reads(ins(k), p.lastReg)
PairsKeepMeaning ==
  [][pc = "pushpop" /\ at <= Len(insts)
       /\ (LET p == Seen(insts[at].ins) IN p.tr1 # 0 /\ p.tr2 # 0 => PairPlain(p)) => Kept]_vars

\* The types; and the register that the push/pop pass holds is the one the record at tr1 pushes, and
\* ESP has not moved since: a pop of it is the pop of that slot.
PairIsOpen ==
  /\ TypeOK
  /\ pc = "pushpop" /\ pair.tr1 # 0 =>
       /\ insts[pair.tr1].ins = push(Reg(pair.lastReg))
       /\ \A k \in pair.tr1+1..at-1 :
            Deleted \in insts[k].flags \/ ~IsEffectESP(insts[k].ins)

\* When V has ended and its last round has changed nothing but what it counts, no rule
\* holds anywhere in the trace.
NothingLeft ==
  pc = "idle" /\ cmd = "all" /\ ~silent =>
    \A i \in 1..Len(insts) : ~RuleAt(insts, i, Deleted).when

\* A command ends, V too: no rule undoes another for ever.
CommandEnds == pc # "idle" ~> pc = "idle"
=============================================================================
