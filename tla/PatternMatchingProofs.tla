------------------------ MODULE PatternMatchingProofs ------------------------
(***************************************************************************)
(* Proofs about the instruction matcher, for any scripts and instructions: *)
(* what a variable stands for is never changed by a later call, and what   *)
(* follows from it for the instruction a line has accepted.                *)
(***************************************************************************)
EXTENDS PatternMatching, TLAPS, WellFoundedInduction

-----------------------------------------------------------------------------
(***************************************************************************)
(* The environment: en here, as env is the variable of the specification.  *)
(* What variables stand for holds no names, so that a                      *)
(* resolved template is a plain operand; a template holds none but N, the  *)
(* names the script gives its templates.                                   *)
(***************************************************************************)
Fields == DOMAIN BlankOperand
Value(x) ==
  /\ DOMAIN x = Fields
  /\ x.base \notin VarNames
  /\ x.index \notin VarNames
  /\ x.size \notin VarNames
  /\ x.dispvar \notin VarNames
Template(N, t) ==
  /\ DOMAIN t = Fields
  /\ t.index \notin VarNames
  /\ t.size \notin VarNames
  /\ t.base \in VarNames => t.base \in N
  /\ t.dispvar \in VarNames => t.dispvar \in N
  /\ t.base \in VarNames => t.base # t.dispvar
Good(N, en) ==
  /\ DOMAIN en = {"vars", "opvars", "nvars"}
  /\ DOMAIN en.vars \subseteq VarNames
  /\ \A v \in DOMAIN en.vars : Value(en.vars[v])
  /\ \A d \in DOMAIN en.opvars : Template(N, en.opvars[d])

\* A variable stands for what it stood for; the type of one that a template names may change.
SameOperand(a, b) ==
  /\ a.base = b.base
  /\ a.index = b.index
  /\ a.imm = b.imm
  /\ a.scale = b.scale
  /\ a.size = b.size
Keeps(N, en, e) ==
  /\ DOMAIN e.opvars = DOMAIN en.opvars
  /\ \A v \in DOMAIN en.vars :
       /\ v \in DOMAIN e.vars
       /\ SameOperand(e.vars[v], en.vars[v])
       /\ v \notin N => e.vars[v].type = en.vars[v].type
Extends(N, en, e) == Good(N, e) /\ Keeps(N, en, e)

LEMMA ExtendsRefl == ASSUME NEW N, NEW en, Good(N, en) PROVE Extends(N, en, en)
BY DEF Extends, Keeps, SameOperand

LEMMA ExtendsTrans ==
  ASSUME NEW N, NEW a, NEW b, NEW c, Extends(N, a, b), Extends(N, b, c)
  PROVE  Extends(N, a, c)
BY DEF Extends, Keeps, SameOperand

LEMMA NoneIsNoName == None \notin VarNames
BY OperandAssumption

LEMMA BindExtends ==
  ASSUME NEW N, NEW en, Good(N, en), NEW v \in VarNames, v \notin DOMAIN en.vars,
         NEW x, Value(x)
  PROVE  /\ Extends(N, en, Bind(en, v, x))
         /\ v \in DOMAIN Bind(en, v, x).vars
         /\ Bind(en, v, x).vars[v] = x
<1> DEFINE vs == [y \in DOMAIN en.vars \cup {v} |-> IF y = v THEN x ELSE en.vars[y]]
           e  == Bind(en, v, x)
<1>1. e.vars = vs /\ e.opvars = en.opvars /\ DOMAIN e = {"vars", "opvars", "nvars"}
  BY DEF Bind, Good
<1>2. /\ DOMAIN vs = DOMAIN en.vars \cup {v}
      /\ vs[v] = x
      /\ \A y \in DOMAIN en.vars : vs[y] = en.vars[y]
  OBVIOUS
<1> HIDE DEF vs, e
<1>3. Good(N, e)
  BY <1>1, <1>2 DEF Good
<1>4. Keeps(N, en, e)
  BY <1>1, <1>2 DEF Keeps, SameOperand
<1> QED
  BY <1>1, <1>2, <1>3, <1>4 DEF Extends, e

LEMMA CheckRegExtends ==
  ASSUME NEW N, NEW en, Good(N, en), NEW pop, pop.var \in VarNames,
         NEW iop, iop.index \notin VarNames, iop.size \notin VarNames
  PROVE  Extends(N, en, CheckReg(en, pop, iop).env)
<1> DEFINE x == [BlankOperand EXCEPT !.type = "reg", !.base = iop.index, !.size = iop.size]
<1>1. Value(x)
  BY NoneIsNoName DEF Value, Fields, BlankOperand
<1> HIDE DEF x
<1>2. ~Bound(en, pop.var) => Extends(N, en, Bind(en, pop.var, x))
  BY <1>1, BindExtends DEF Bound
<1>3. CheckReg(en, pop, iop).env \in {en, Bind(en, pop.var, x)}
  BY Zenon DEF CheckReg, Verdict, x
<1>4. Bound(en, pop.var) => CheckReg(en, pop, iop).env = en
  BY DEF CheckReg, Verdict
<1> QED
  BY <1>2, <1>3, <1>4, ExtendsRefl

LEMMA CheckImmExtends ==
  ASSUME NEW N, NEW en, Good(N, en), NEW pop, pop.var \in VarNames,
         NEW ins, NEW iop, iop.size \notin VarNames
  PROVE  Extends(N, en, CheckImm(en, pop, ins, iop).env)
<1> DEFINE x == [BlankOperand EXCEPT !.type = "imm", !.imm = ins.imm, !.size = iop.size]
<1>1. Value(x)
  BY NoneIsNoName DEF Value, Fields, BlankOperand
<1> HIDE DEF x
<1>2. ~Bound(en, pop.var) => Extends(N, en, Bind(en, pop.var, x))
  BY <1>1, BindExtends DEF Bound
<1>3. CheckImm(en, pop, ins, iop).env \in {en, Bind(en, pop.var, x)}
  BY Zenon DEF CheckImm, Verdict, x
<1>4. Bound(en, pop.var) => CheckImm(en, pop, ins, iop).env = en
  BY DEF CheckImm, Verdict
<1> QED
  BY <1>2, <1>3, <1>4, ExtendsRefl

LEMMA MemValueIs ==
  ASSUME NEW ins, ins.base \notin VarNames,
         NEW iop, iop.index \notin VarNames, iop.size \notin VarNames
  PROVE  Value(MemValue(ins, iop))
BY NoneIsNoName DEF Value, Fields, BlankOperand, MemValue

LEMMA CheckMemExtends ==
  ASSUME NEW N, NEW en, Good(N, en), NEW pop, pop.type # "memexpr" => pop.var \in VarNames,
         NEW ins, ins.base \notin VarNames,
         NEW iop, iop.index \notin VarNames, iop.size \notin VarNames
  PROVE  Extends(N, en, CheckMem(en, pop, ins, iop).env)
<1> DEFINE x == MemValue(ins, iop)
           fresh == pop.type # "memexpr" /\ ~Bound(en, pop.var)
<1>1. Value(x)
  BY MemValueIs
<1> HIDE DEF x
<1>2. fresh => Extends(N, en, Bind(en, pop.var, x))
  BY <1>1, BindExtends DEF Bound
<1>3. CASE fresh
  <2>1. CheckMem(en, pop, ins, iop).env \in {en, Bind(en, pop.var, x)}
    BY <1>3 DEF CheckMem, Verdict, x
  <2> QED
    BY <1>2, <1>3, <2>1, ExtendsRefl
<1>4. CASE ~fresh
  <2>1. CheckMem(en, pop, ins, iop).env = en
    BY <1>4 DEF CheckMem, Verdict
  <2> QED
    BY <2>1, ExtendsRefl
<1> QED
  BY <1>3, <1>4

LEMMA CheckVarExtends ==
  ASSUME NEW N, NEW en, Good(N, en), NEW pop, pop.type # "memexpr" => pop.var \in VarNames,
         NEW ins, ins.base \notin VarNames,
         NEW iop, iop.index \notin VarNames, iop.size \notin VarNames,
         pop.type = "memexpr" => iop.type \notin {"reg", "imm"}
  PROVE  Extends(N, en, checkAndSaveVar(en, pop, ins, iop).env)
<1>1. CASE iop.type = "reg"
  <2>1. checkAndSaveVar(en, pop, ins, iop) = CheckReg(en, pop, iop)
    BY <1>1 DEF checkAndSaveVar
  <2> QED
    BY <1>1, <2>1, CheckRegExtends
<1>2. CASE iop.type = "imm"
  <2>1. checkAndSaveVar(en, pop, ins, iop) = CheckImm(en, pop, ins, iop)
    BY <1>2 DEF checkAndSaveVar
  <2> QED
    BY <1>2, <2>1, CheckImmExtends
<1>3. CASE iop.type \in {"mem", "smem", "disp"}
  <2>1. checkAndSaveVar(en, pop, ins, iop) = CheckMem(en, pop, ins, iop)
    BY <1>3 DEF checkAndSaveVar
  <2> QED
    BY <2>1, CheckMemExtends
<1>4. CASE iop.type \notin {"reg", "imm", "mem", "smem", "disp"}
  <2>1. checkAndSaveVar(en, pop, ins, iop) = Verdict(TRUE, en)
    BY <1>4, Zenon DEF checkAndSaveVar
  <2> QED
    BY <2>1, ExtendsRefl DEF Verdict
<1> QED
  BY <1>1, <1>2, <1>3, <1>4

-----------------------------------------------------------------------------
(***************************************************************************)
(* Templates.  A plain one that has matched binds what was free in it, and *)
(* what was not stands for what was met already.                           *)
(***************************************************************************)
\* A memory operand that a template resolved to op has accepted.
MetTemplate(en, pop, ins, iop) ==
  /\ pop.var \in DOMAIN en.opvars
  /\ iop.type \in MemTypes
  /\ MemSame(Resolved(en, en.opvars[pop.var], pop), ins, iop)

LEMMA ResolvedIs ==
  ASSUME NEW N, NEW en, DOMAIN en.vars \subseteq VarNames, NEW t, Template(N, t), NEW pop
  PROVE  LET op == Resolved(en, t, pop) IN
         /\ DOMAIN op = Fields
         /\ op.type = t.type /\ op.scale = t.scale /\ op.index = t.index
         /\ op.base = IF t.base \in DOMAIN en.vars THEN en.vars[t.base].base ELSE t.base
         /\ op.dispvar = IF t.dispvar \in DOMAIN en.vars THEN en.vars[t.dispvar].dispvar
                                                           ELSE t.dispvar
         /\ op.imm = IF t.dispvar \in DOMAIN en.vars THEN en.vars[t.dispvar].imm ELSE t.imm
         /\ op.size = IF pop.szvar # None /\ pop.szvar \in DOMAIN en.vars
                      THEN en.vars[pop.szvar].size ELSE t.size
<1>1. DOMAIN t = {"type", "size", "opcode", "base", "index", "dispvar", "scale", "imm"}
  BY DEF Template, Fields, BlankOperand
<1>2. t.index \notin VarNames /\ t.size \notin VarNames
  BY DEF Template
<1> QED
  BY <1>1, <1>2 DEF Resolved, Bound, IsVar, Fields, BlankOperand

\* What a variable holds before a match, and where a memory operand is based.
OldValue(en, v) == IF v \in DOMAIN en.vars THEN en.vars[v] ELSE BlankOperand
BaseOf(ins, iop) == IF iop.type = "mem" THEN ins.base ELSE iop.index
AsDisp(x, ins) == [x EXCEPT !.type = "imm", !.imm = ins.disp]
AsBase(x, r) == [x EXCEPT !.type = "reg", !.base = r]

LEMMA TemplateValueIs ==
  ASSUME NEW N, NEW en, Good(N, en), NEW t, Template(N, t),
         NEW ins, ins.base \notin VarNames,
         NEW iop, iop.index \notin VarNames,
         NEW v \in VarNames
  PROVE  LET new == TemplateValue(en, t, ins, iop, v) IN
         /\ Value(new)
         /\ v = t.dispvar => new = AsDisp(OldValue(en, v), ins)
         /\ v = t.base => new = AsBase(OldValue(en, v), BaseOf(ins, iop))
         /\ v # t.base /\ v # t.dispvar => new = OldValue(en, v)
<1> DEFINE new == TemplateValue(en, t, ins, iop, v)
           old == OldValue(en, v)
           asDisp == AsDisp(old, ins)
           asBase == AsBase(old, BaseOf(ins, iop))
<1>1. v # t.index /\ v # t.size /\ (v = t.base => v # t.dispvar)
  BY DEF Template
<1>2. Value(old)
  <2>1. Value(BlankOperand)
    BY NoneIsNoName DEF Value, Fields, BlankOperand
  <2> QED
    BY <2>1 DEF Good, OldValue
<1> HIDE DEF old
<1>3. Value(asDisp) /\ Value(asBase)
  BY <1>2 DEF Value, Fields, BlankOperand, BaseOf, AsDisp, AsBase
<1> HIDE DEF asDisp, asBase
<1>4. v = t.dispvar => new = asDisp
  BY <1>1, Zenon DEF TemplateValue, Bound, asDisp, old, OldValue, AsDisp
<1>5. v = t.base => new = asBase
  BY <1>1, Zenon DEF TemplateValue, Bound, asBase, old, OldValue, BaseOf, AsBase
<1>6. v # t.base /\ v # t.dispvar => new = old
  BY <1>1, Zenon DEF TemplateValue, Bound, old, OldValue
<1>7. Value(new)
  BY <1>2, <1>3, <1>4, <1>5, <1>6
<1> HIDE DEF new
<1> QED
  BY <1>4, <1>5, <1>6, <1>7 DEF new, old, asBase, asDisp

\* The environment that saveMemoryExprVar resolves the template in.
BoundBy(en, t, ins, iop) ==
  [v \in DOMAIN en.vars \cup ({t.dispvar, t.base} \cap VarNames) |->
     TemplateValue(en, t, ins, iop, v)]
Typed(t, ins, iop) ==
  [t EXCEPT !.type = iop.type, !.scale = IF iop.type = "mem" THEN ins.scale ELSE 0]

LEMMA SavedIs ==
  ASSUME NEW N, NEW en, Good(N, en), NEW pop, pop.var \in DOMAIN en.opvars,
         NEW ins, NEW iop
  PROVE  LET t == en.opvars[pop.var]
             e == saveMemoryExprVar(en, pop, ins, iop) IN
         /\ DOMAIN e = {"vars", "opvars", "nvars"}
         /\ e.vars = BoundBy(en, t, ins, iop)
         /\ \E b : /\ DOMAIN b = {"vars", "opvars", "nvars"}
                   /\ b.vars = BoundBy(en, t, ins, iop)
                   /\ e.opvars = [en.opvars EXCEPT ![pop.var] =
                                    Resolved(b, Typed(t, ins, iop), pop)]
<1> DEFINE t == en.opvars[pop.var]
           Names(fields) == {t[f] : f \in fields} \cap VarNames
           b == [en EXCEPT
             !.vars  = [v \in DOMAIN @ \cup Names({"dispvar", "size", "base", "index"}) |->
                          TemplateValue(en, t, ins, iop, v)],
             !.nvars = @ \cup (Names({"dispvar", "size", "index"}) \ DOMAIN en.vars)]
           e == saveMemoryExprVar(en, pop, ins, iop)
<1>1. Names({"dispvar", "size", "base", "index"}) = {t.dispvar, t.base} \cap VarNames
  <2>1. t.index \notin VarNames /\ t.size \notin VarNames
    BY DEF Good, Template
  <2>2. {t[f] : f \in {"dispvar", "size", "base", "index"}} = {t.dispvar, t.size, t.base, t.index}
    OBVIOUS
  <2> HIDE DEF t
  <2> QED
    BY <2>1, <2>2
<1>2. DOMAIN b = {"vars", "opvars", "nvars"} /\ b.opvars = en.opvars
  BY DEF Good
<1>3. b.vars = BoundBy(en, t, ins, iop)
  <2>1. b.vars = [v \in DOMAIN en.vars \cup Names({"dispvar", "size", "base", "index"}) |->
                    TemplateValue(en, t, ins, iop, v)]
    BY DEF Good
  <2> HIDE DEF b, t
  <2> QED
    BY <1>1, <2>1, Zenon DEF BoundBy
<1>4. e = StoreTemplate(b, pop.var, Resolved(b, Typed(t, ins, iop), pop))
  BY DEF saveMemoryExprVar, Typed
<1> HIDE DEF b, t
<1>5. /\ DOMAIN e = {"vars", "opvars", "nvars"} /\ e.vars = b.vars
      /\ e.opvars = [en.opvars EXCEPT ![pop.var] = Resolved(b, Typed(t, ins, iop), pop)]
  <2> HIDE DEF e
  <2> QED
    BY <1>2, <1>4 DEF StoreTemplate
<1> QED
  BY <1>2, <1>3, <1>5 DEF t

\* Operand iop is at the address, whatever its width.
AtAddress(op, ins, iop) ==
  /\ op.type = iop.type
  /\ op.imm = ins.disp
  /\ op.base = IF iop.type = "mem" THEN ins.base ELSE iop.index
  /\ iop.type = "mem" => op.index = iop.index /\ op.scale = ins.scale

LEMMA SaveIs ==
  ASSUME NEW N, NEW en, Good(N, en), NEW pop, NEW ins, ins.base \notin VarNames,
         NEW iop, iop.index \notin VarNames, MetTemplate(en, pop, ins, iop),
         pop.szvar # None => pop.szvar \in DOMAIN en.vars
  PROVE  LET e == saveMemoryExprVar(en, pop, ins, iop)
             stored == e.opvars[pop.var] IN
         /\ Extends(N, en, e)
         /\ stored.base \notin VarNames /\ stored.dispvar \notin VarNames
         /\ AtAddress(stored, ins, iop)
         /\ stored.size = IF pop.szvar # None THEN en.vars[pop.szvar].size
                          ELSE en.opvars[pop.var].size
<1> DEFINE t == en.opvars[pop.var]
           typed == Typed(t, ins, iop)
           e == saveMemoryExprVar(en, pop, ins, iop)
           vs == BoundBy(en, t, ins, iop)
           op == Resolved(en, t, pop)
           stored == e.opvars[pop.var]
<1>1. DOMAIN en.vars \subseteq VarNames /\ Template(N, t) /\ pop.var \in DOMAIN en.opvars
  BY DEF Good, MetTemplate
<1>2. /\ DOMAIN vs = DOMAIN en.vars \cup ({t.dispvar, t.base} \cap VarNames)
      /\ DOMAIN vs \subseteq VarNames
      /\ \A v \in DOMAIN vs : vs[v] = TemplateValue(en, t, ins, iop, v)
  BY <1>1 DEF BoundBy
<1>3. PICK b : /\ DOMAIN b = {"vars", "opvars", "nvars"} /\ b.vars = vs
               /\ e.opvars = [en.opvars EXCEPT ![pop.var] = Resolved(b, typed, pop)]
  BY <1>1, SavedIs
<1>4. DOMAIN e = {"vars", "opvars", "nvars"} /\ e.vars = vs
  BY <1>1, SavedIs
<1>5. /\ Template(N, typed) /\ typed.type = iop.type
      /\ typed.scale = IF iop.type = "mem" THEN ins.scale ELSE 0
      /\ typed.base = t.base /\ typed.index = t.index /\ typed.dispvar = t.dispvar
      /\ typed.imm = t.imm /\ typed.size = t.size
  BY <1>1 DEF Template, Typed, Fields, BlankOperand
<1> HIDE DEF typed, vs, e
<1>6. /\ DOMAIN stored = Fields
      /\ stored.type = iop.type /\ stored.index = t.index
      /\ stored.scale = (IF iop.type = "mem" THEN ins.scale ELSE 0)
      /\ stored.base = (IF t.base \in DOMAIN vs THEN vs[t.base].base ELSE t.base)
      /\ stored.dispvar = (IF t.dispvar \in DOMAIN vs THEN vs[t.dispvar].dispvar ELSE t.dispvar)
      /\ stored.imm = (IF t.dispvar \in DOMAIN vs THEN vs[t.dispvar].imm ELSE t.imm)
      /\ stored.size = IF pop.szvar # None /\ pop.szvar \in DOMAIN vs
                       THEN vs[pop.szvar].size ELSE t.size
  <2>1. stored = Resolved(b, typed, pop)
    BY <1>1, <1>3
  <2> HIDE DEF stored, t
  <2> QED
    BY <1>2, <1>3, <1>5, <2>1, ResolvedIs
<1>7. /\ op.type = t.type /\ op.scale = t.scale /\ op.index = t.index
      /\ op.base = (IF t.base \in DOMAIN en.vars THEN en.vars[t.base].base ELSE t.base)
      /\ op.dispvar = (IF t.dispvar \in DOMAIN en.vars THEN en.vars[t.dispvar].dispvar
                                                        ELSE t.dispvar)
      /\ op.imm = (IF t.dispvar \in DOMAIN en.vars THEN en.vars[t.dispvar].imm ELSE t.imm)
  BY <1>1, ResolvedIs
<1>8. MemSame(op, ins, iop) /\ iop.type \in MemTypes
  BY DEF MetTemplate
<1> DEFINE where == BaseOf(ins, iop)
           old(v) == OldValue(en, v)
<1>9. /\ t.base \notin VarNames => t.base = where
      /\ t.base \in DOMAIN en.vars => en.vars[t.base].base = where
      /\ t.dispvar \notin VarNames => t.imm = ins.disp
      /\ t.dispvar \in DOMAIN en.vars => en.vars[t.dispvar].imm = ins.disp
      /\ iop.type = "mem" => t.index = iop.index
  <2>1. \A v \in DOMAIN en.vars : en.vars[v].base \notin VarNames /\ en.vars[v].dispvar \notin VarNames
    BY DEF Good, Value
  <2>2. op.type = iop.type
    BY <1>8 DEF MemSame
  <2>3. op.base \notin VarNames => op.base = where
    BY <1>8, <2>2 DEF MemSame, IsVar, BaseOf
  <2>4. op.dispvar \notin VarNames => op.imm = ins.disp
    BY <1>8 DEF MemSame, IsVar
  <2>5. iop.type = "mem" => op.index = iop.index
    BY <1>1, <1>7, <1>8, <2>2 DEF MemSame, IsVar, Template
  <2> HIDE DEF op, t, where
  <2> QED
    BY <1>1, <1>7, <2>1, <2>3, <2>4, <2>5
<1>10. ASSUME NEW v \in DOMAIN vs
       PROVE  /\ Value(vs[v])
              /\ v = t.dispvar => vs[v] = AsDisp(old(v), ins)
              /\ v = t.base => vs[v] = AsBase(old(v), where)
              /\ v # t.base /\ v # t.dispvar => vs[v] = old(v)
  <2>1. v \in VarNames /\ vs[v] = TemplateValue(en, t, ins, iop, v)
    BY <1>2
  <2> DEFINE new == TemplateValue(en, t, ins, iop, v)
  <2>2. /\ Value(new)
        /\ v = t.dispvar => new = AsDisp(old(v), ins)
        /\ v = t.base => new = AsBase(old(v), where)
        /\ v # t.base /\ v # t.dispvar => new = old(v)
    BY <1>1, <2>1, TemplateValueIs
  <2> HIDE DEF new, t, where, old
  <2> QED
    BY <2>1, <2>2 DEF new
<1>11. \A v \in DOMAIN en.vars : Value(en.vars[v]) /\ old(v) = en.vars[v]
  BY DEF Good, OldValue
<1>12. ASSUME NEW v PROVE DOMAIN old(v) = Fields
  <2>1. Value(BlankOperand)
    BY NoneIsNoName DEF Value, Fields, BlankOperand
  <2> QED
    BY <1>11, <2>1 DEF Value, OldValue
<1> HIDE DEF stored, t, where, op, old
<1>13. /\ t.base \in VarNames => t.base \in DOMAIN vs /\ vs[t.base].base = where
       /\ t.dispvar \in VarNames => t.dispvar \in DOMAIN vs /\ vs[t.dispvar].imm = ins.disp
  <2>1. \A v : /\ AsBase(old(v), where).base = where
               /\ AsDisp(old(v), ins).imm = ins.disp
    BY <1>12 DEF Fields, BlankOperand, AsBase, AsDisp
  <2>2. \A v : v \in VarNames /\ (v = t.base \/ v = t.dispvar) => v \in DOMAIN vs
    BY <1>2
  <2>3. ASSUME t.base \in VarNames PROVE t.base \in DOMAIN vs /\ vs[t.base].base = where
    <3>1. t.base \in DOMAIN vs
      BY <2>2, <2>3
    <3>2. vs[t.base] = AsBase(old(t.base), where)
      BY <1>10, <3>1, Zenon
    <3> QED
      BY <2>1, <3>1, <3>2
  <2>4. ASSUME t.dispvar \in VarNames
        PROVE  t.dispvar \in DOMAIN vs /\ vs[t.dispvar].imm = ins.disp
    <3>1. t.dispvar \in DOMAIN vs
      BY <2>2, <2>4
    <3>2. vs[t.dispvar] = AsDisp(old(t.dispvar), ins)
      BY <1>10, <3>1, Zenon
    <3> QED
      BY <2>1, <3>1, <3>2
  <2> QED
    BY <2>3, <2>4
<1>14. \A v \in DOMAIN vs : Value(vs[v])
  BY <1>10
<1>15. /\ stored.base = where /\ stored.imm = ins.disp /\ stored.dispvar \notin VarNames
       /\ where \notin VarNames
  <2>1. where \notin VarNames
    BY DEF where, BaseOf
  <2> QED
    BY <1>2, <1>6, <1>9, <1>13, <1>14, <2>1 DEF Value
<1>16. ASSUME NEW v \in DOMAIN en.vars
       PROVE  /\ v \in DOMAIN vs /\ SameOperand(vs[v], en.vars[v])
              /\ v \notin N => vs[v].type = en.vars[v].type
  <2>1. v \in DOMAIN vs /\ v \in VarNames
    BY <1>1, <1>2
  <2>2. CASE v = t.dispvar
    <3>1. vs[v] = AsDisp(en.vars[v], ins) /\ v \in N
      BY <1>1, <1>10, <1>11, <2>1, <2>2 DEF Template
    <3> QED
      BY <1>9, <1>11, <2>1, <2>2, <3>1 DEF SameOperand, Value, Fields, BlankOperand, AsBase, AsDisp
  <2>3. CASE v = t.base
    <3>1. vs[v] = AsBase(en.vars[v], where) /\ v \in N
      BY <1>1, <1>10, <1>11, <2>1, <2>3 DEF Template
    <3> QED
      BY <1>9, <1>11, <2>1, <2>3, <3>1 DEF SameOperand, Value, Fields, BlankOperand, AsBase, AsDisp
  <2>4. CASE v # t.dispvar /\ v # t.base
    <3>1. vs[v] = en.vars[v]
      BY <1>10, <1>11, <2>1, <2>4
    <3> QED
      BY <2>1, <3>1 DEF SameOperand
  <2> QED
    BY <2>2, <2>3, <2>4
<1>17. stored.size = IF pop.szvar # None THEN en.vars[pop.szvar].size ELSE t.size
  BY <1>6, <1>16 DEF SameOperand
<1>18. Template(N, stored)
  <2>1. stored.size \notin VarNames
    BY <1>1, <1>11, <1>17 DEF Template, Value
  <2> QED
    BY <1>1, <1>6, <1>15, <2>1 DEF Template
<1>19. /\ DOMAIN e.opvars = DOMAIN en.opvars
       /\ \A d \in DOMAIN en.opvars : d # pop.var => e.opvars[d] = en.opvars[d]
  BY <1>3
<1>20. Good(N, e)
  BY <1>2, <1>4, <1>14, <1>18, <1>19 DEF Good, stored
<1>21. Keeps(N, en, e)
  BY <1>4, <1>16, <1>19 DEF Keeps
<1>22. AtAddress(stored, ins, iop)
  BY <1>6, <1>9, <1>15 DEF AtAddress, where, BaseOf
<1> QED
  BY <1>15, <1>17, <1>20, <1>21, <1>22 DEF Extends, stored, e, t

-----------------------------------------------------------------------------
(***************************************************************************)
(* One operand.  Whatever the verdict, the environment is extended.        *)
(***************************************************************************)
SlotOK(en, pop) ==
  /\ pop.szvar \in VarNames \cup {None}
  /\ pop.type = "memexpr" => pop.var \in DOMAIN en.opvars /\ pop.ref = "plain"
  /\ pop.type \notin {None, "explicit", "memexpr"} => pop.var \in VarNames

LEMMA SlotStaysOK ==
  ASSUME NEW N, NEW en, NEW e, Extends(N, en, e), NEW pop, SlotOK(en, pop)
  PROVE  SlotOK(e, pop)
BY DEF Extends, Keeps, SlotOK

LEMMA CheckSizeExtends ==
  ASSUME NEW N, NEW en, Good(N, en), NEW szvar \in VarNames \cup {None},
         NEW size, size \notin VarNames
  PROVE  LET v == CheckSize(en, szvar, size) IN
         /\ Extends(N, en, v.env)
         /\ v.ok /\ szvar # None => szvar \in DOMAIN v.env.vars /\ v.env.vars[szvar].size = size
<1> DEFINE x == [BlankOperand EXCEPT !.size = size]
           v == CheckSize(en, szvar, size)
<1>1. Value(x) /\ x.size = size
  BY NoneIsNoName DEF Value, Fields, BlankOperand
<1> HIDE DEF x
<1>2. CASE szvar = None \/ szvar \in DOMAIN en.vars
  <2>1. v.env = en /\ (szvar # None => v.ok = (en.vars[szvar].size = size))
    BY <1>2 DEF CheckSize, Verdict, Bound
  <2> QED
    BY <1>2, <2>1, ExtendsRefl
<1>3. CASE szvar # None /\ szvar \notin DOMAIN en.vars
  <2>1. v.env = Bind(en, szvar, x)
    BY <1>3 DEF CheckSize, Verdict, Bound, x
  <2> QED
    BY <1>1, <1>3, <2>1, BindExtends
<1> QED
  BY <1>2, <1>3

\* A template slot that has accepted: what was checked, and what was saved.
LEMMA TemplateAccepts ==
  ASSUME NEW en, NEW pop, SlotOK(en, pop), pop.type = "memexpr",
         NEW tmpl, NEW i, NEW ins, NEW j
  PROVE  LET v == CheckOperand(en, pop, tmpl, i, ins, j) IN
         \/ ~v.ok /\ v.env = en
         \/ /\ v.ok /\ MetTemplate(en, pop, ins, ins.ops[j])
            /\ v.env = saveMemoryExprVar(en, pop, ins, ins.ops[j])
<1> DEFINE iop == ins.ops[j]
           v == CheckOperand(en, pop, tmpl, i, ins, j)
           c == checkAndSaveVar(en, pop, ins, iop)
<1>1. pop.var \in DOMAIN en.opvars /\ pop.ref = "plain"
  BY DEF SlotOK
<1>2. KindOK(pop, iop) <=> iop.type \in MemTypes
  <2>1. pop.type # "reg" /\ pop.type # "imm" /\ pop.type \in {"mem", "memexpr"}
    OBVIOUS
  <2> QED
    BY <1>1, <2>1, Zenon DEF KindOK
<1>3. pop.type # None
  <2>1. None = "none"
    BY DEF None
  <2> QED
    BY <2>1
<1>4. v = IF ~KindOK(pop, iop) THEN Verdict(FALSE, en)
          ELSE IF c.ok THEN Verdict(TRUE, saveMemoryExprVar(c.env, pop, ins, iop)) ELSE c
  BY <1>3 DEF CheckOperand, Then
<1>5. CASE iop.type \notin MemTypes
  <2>1. v = Verdict(FALSE, en)
    BY <1>2, <1>4, <1>5
  <2> HIDE DEF v
  <2>2. ~v.ok /\ v.env = en
    BY <2>1 DEF Verdict
  <2> QED
    BY <2>2 DEF v
<1>6. CASE iop.type \in MemTypes
  <2>1. c = CheckMem(en, pop, ins, iop)
    BY <1>6 DEF checkAndSaveVar, MemTypes
  <2>2. c = Verdict(MemSame(Resolved(en, en.opvars[pop.var], pop), ins, iop), en)
    BY <1>1, <2>1 DEF CheckMem
  <2>3. c.env = en /\ c.ok = MemSame(Resolved(en, en.opvars[pop.var], pop), ins, iop)
    BY <2>2 DEF Verdict
  <2> HIDE DEF c
  <2>4. CASE c.ok
    <3>1. v = Verdict(TRUE, saveMemoryExprVar(en, pop, ins, iop))
      BY <1>2, <1>4, <1>6, <2>3, <2>4
    <3>2. MetTemplate(en, pop, ins, iop)
      BY <1>1, <1>6, <2>3, <2>4 DEF MetTemplate
    <3> HIDE DEF v
    <3>3. v.ok /\ v.env = saveMemoryExprVar(en, pop, ins, iop)
      BY <3>1 DEF Verdict
    <3> QED
      BY <3>2, <3>3 DEF v
  <2>5. CASE ~c.ok
    BY <1>2, <1>4, <1>6, <2>3, <2>5
  <2> QED
    BY <2>4, <2>5
<1> QED
  BY <1>5, <1>6

LEMMA CheckOperandExtends ==
  ASSUME NEW N, NEW en, Good(N, en), NEW pop, SlotOK(en, pop),
         pop.szvar # None => pop.szvar \in DOMAIN en.vars,
         NEW ins, Decoded(ins), NEW tmpl, NEW i, NEW j \in 1..2
  PROVE  Extends(N, en, CheckOperand(en, pop, tmpl, i, ins, j).env)
<1> DEFINE iop == ins.ops[j]
           v == CheckOperand(en, pop, tmpl, i, ins, j)
           c == checkAndSaveVar(en, pop, ins, iop)
<1>1. ins.base \notin VarNames /\ iop.index \notin VarNames /\ iop.size \notin VarNames
  BY DEF Decoded
<1>2. CASE pop.type \in {None, "explicit"}
  <2>1. v.env = en
    BY <1>2 DEF CheckOperand, Verdict, None
  <2> QED
    BY <2>1, ExtendsRefl
<1>3. CASE pop.type = "memexpr"
  <2>1. v.env = en \/ (MetTemplate(en, pop, ins, iop) /\ v.env = saveMemoryExprVar(en, pop, ins, iop))
    BY <1>3, TemplateAccepts
  <2> HIDE DEF v
  <2>2. Extends(N, en, v.env)
    BY <1>1, <2>1, ExtendsRefl, SaveIs
  <2> QED
    BY <2>2 DEF v
<1>4. CASE pop.type \notin {None, "explicit", "memexpr"}
  <2>1. v = IF ~KindOK(pop, iop) THEN Verdict(FALSE, en)
            ELSE IF c.ok THEN Verdict(TRUE, c.env) ELSE c
    BY <1>4, Zenon DEF CheckOperand, Then
  <2>2. pop.var \in VarNames
    BY <1>4 DEF SlotOK
  <2>3. Extends(N, en, c.env)
    BY <1>1, <1>4, <2>2, CheckVarExtends
  <2> HIDE DEF c, v
  <2>4. v.env \in {en, c.env}
    BY <2>1 DEF Verdict
  <2> QED
    BY <2>3, <2>4, ExtendsRefl DEF v
<1> QED
  BY <1>2, <1>3, <1>4

LEMMA OperandExtends ==
  ASSUME NEW N, NEW en, Good(N, en), NEW pop, SlotOK(en, pop),
         NEW ins, Decoded(ins), NEW tmpl, NEW i, NEW j \in 1..2
  PROVE  Extends(N, en, isMatchInstOperand(en, pop, tmpl, i, ins, j).env)
<1> DEFINE v == isMatchInstOperand(en, pop, tmpl, i, ins, j)
           z == CheckSize(en, pop.szvar, ins.ops[j].size)
           c == CheckOperand(z.env, pop, tmpl, i, ins, j)
<1>1. pop.szvar \in VarNames \cup {None} /\ ins.ops[j].size \notin VarNames
  BY DEF SlotOK, Decoded
<1>2. /\ Extends(N, en, z.env)
      /\ z.ok /\ pop.szvar # None => pop.szvar \in DOMAIN z.env.vars
  BY <1>1, CheckSizeExtends
<1>3. z.ok => Extends(N, z.env, c.env)
  <2>1. Good(N, z.env) /\ SlotOK(z.env, pop)
    BY <1>2, SlotStaysOK DEF Extends
  <2> QED
    BY <1>2, <2>1, CheckOperandExtends
<1>4. v = IF pop.bits # None /\ ins.ops[j].size # pop.bits THEN Verdict(FALSE, en)
          ELSE IF z.ok THEN c ELSE z
  BY DEF isMatchInstOperand, Then
<1> HIDE DEF z, c, v
<1>5. z.ok => Extends(N, en, c.env)
  BY <1>2, <1>3, ExtendsTrans
<1> QED
  BY <1>2, <1>4, <1>5, ExtendsRefl DEF Verdict, v

-----------------------------------------------------------------------------
(***************************************************************************)
(* One alternative.                                                        *)
(***************************************************************************)
BodyOK(en, body) ==
  /\ body.szvar \in VarNames \cup {None}
  /\ body.mnemvar \in VarNames \cup {None}
  /\ \A i \in 1..2 : SlotOK(en, body.ops[i])

LEMMA BodyStaysOK ==
  ASSUME NEW N, NEW en, NEW e, Extends(N, en, e), NEW body, BodyOK(en, body)
  PROVE  BodyOK(e, body)
BY SlotStaysOK DEF BodyOK

\* Slot i asked of operand j, with its NOT.
Against(en, body, i, ins, j) ==
  Negated(body.ops[i], isMatchInstOperand(en, body.ops[i], body.tmpl, i, ins, j))

LEMMA AgainstExtends ==
  ASSUME NEW N, NEW en, Good(N, en), NEW body, BodyOK(en, body),
         NEW ins, Decoded(ins), NEW i \in 1..2, NEW j \in 1..2
  PROVE  /\ Extends(N, en, Against(en, body, i, ins, j).env)
         /\ BodyOK(Against(en, body, i, ins, j).env, body)
<1> DEFINE pop == body.ops[i]
           o == isMatchInstOperand(en, pop, body.tmpl, i, ins, j)
<1>1. Extends(N, en, o.env)
  BY OperandExtends DEF BodyOK
<1> HIDE DEF o
<1>2. Negated(pop, o).env = o.env
  BY DEF Negated, Verdict
<1>3. Against(en, body, i, ins, j) = Negated(pop, o)
  BY DEF Against, o
<1> QED
  BY <1>1, <1>2, <1>3, BodyStaysOK

LEMMA MatchSlotIs ==
  ASSUME NEW en, NEW body, NEW i, NEW ins
  PROVE  MatchSlot(en, body, i, ins) =
           LET a == Against(en, body, i, ins, 1) IN
           IF body.ops[i].type = None /\ ~body.strict THEN Verdict(TRUE, en)
           ELSE IF ~body.ops[i].inall THEN Against(en, body, i, ins, i)
           ELSE IF ins.ops[1].type = None THEN Verdict(TRUE, en)
           ELSE IF ~a.ok THEN a
           ELSE IF ins.ops[2].type = None THEN Verdict(TRUE, a.env)
           ELSE Against(a.env, body, i, ins, 2)
BY DEF MatchSlot, Then, Against

LEMMA MatchSlotExtends ==
  ASSUME NEW N, NEW en, Good(N, en), NEW body, BodyOK(en, body),
         NEW ins, Decoded(ins), NEW i \in 1..2
  PROVE  /\ Extends(N, en, MatchSlot(en, body, i, ins).env)
         /\ BodyOK(MatchSlot(en, body, i, ins).env, body)
<1> DEFINE a == Against(en, body, i, ins, 1)
           b == Against(a.env, body, i, ins, 2)
           c == Against(en, body, i, ins, i)
           m == MatchSlot(en, body, i, ins)
<1>1. Extends(N, en, a.env) /\ Extends(N, en, c.env) /\ BodyOK(a.env, body)
  BY AgainstExtends
<1>2. Extends(N, a.env, b.env)
  <2>1. Good(N, a.env)
    BY <1>1 DEF Extends
  <2> QED
    BY <1>1, <2>1, AgainstExtends
<1>3. m.env \in {en, a.env, b.env, c.env}
  BY MatchSlotIs DEF Verdict
<1>4. Extends(N, en, b.env)
  BY <1>1, <1>2, ExtendsTrans
<1> HIDE DEF a, b, c, m
<1>5. Extends(N, en, m.env)
  BY <1>1, <1>3, <1>4, ExtendsRefl
<1> QED
  BY <1>5, BodyStaysOK DEF m

LEMMA MatchBodyIs ==
  ASSUME NEW en, NEW body, NEW ins
  PROVE  isMatchInstBody(en, body, ins) =
           LET s == MatchSlot(en, body, 1, ins) IN
           IF ~(body.opcode # None => (ins.opcode = body.opcode) = ~body.not)
           THEN Verdict(FALSE, en)
           ELSE IF ~s.ok THEN s ELSE MatchSlot(s.env, body, 2, ins)
<1> DEFINE s == MatchSlot(en, body, 1, ins)
           opcodeOK == body.opcode # None => (ins.opcode = body.opcode) = ~body.not
           first == Then(Verdict(opcodeOK, en), LAMBDA e : MatchSlot(e, body, 1, ins))
<1>1. isMatchInstBody(en, body, ins) = Then(first, LAMBDA e : MatchSlot(e, body, 2, ins))
  BY DEF isMatchInstBody
<1>2. first = IF opcodeOK THEN s ELSE Verdict(FALSE, en)
  <2>1. Verdict(opcodeOK, en).ok = opcodeOK /\ Verdict(opcodeOK, en).env = en
    BY Zenon DEF Verdict
  <2>2. opcodeOK \in BOOLEAN
    OBVIOUS
  <2>3. ~opcodeOK => Verdict(opcodeOK, en) = Verdict(FALSE, en)
    BY <2>2
  <2> HIDE DEF opcodeOK
  <2> QED
    BY <2>1, <2>3, Zenon DEF Then
<1> HIDE DEF first, s, opcodeOK
<1>3. isMatchInstBody(en, body, ins) = IF first.ok THEN MatchSlot(first.env, body, 2, ins) ELSE first
  BY <1>1 DEF Then
<1>4. Verdict(FALSE, en).ok = FALSE
  BY DEF Verdict
<1> QED
  BY <1>2, <1>3, <1>4, Zenon DEF s, opcodeOK

LEMMA MatchBodyExtends ==
  ASSUME NEW N, NEW en, Good(N, en), NEW body, BodyOK(en, body), NEW ins, Decoded(ins)
  PROVE  Extends(N, en, isMatchInstBody(en, body, ins).env)
<1> DEFINE s == MatchSlot(en, body, 1, ins)
           t == MatchSlot(s.env, body, 2, ins)
           m == isMatchInstBody(en, body, ins)
<1>1. Extends(N, en, s.env) /\ BodyOK(s.env, body)
  BY MatchSlotExtends
<1>2. Extends(N, s.env, t.env)
  <2>1. Good(N, s.env)
    BY <1>1 DEF Extends
  <2> QED
    BY <1>1, <2>1, MatchSlotExtends
<1>3. m \in {Verdict(FALSE, en), s, t}
  BY MatchBodyIs
<1>4. Extends(N, en, t.env)
  BY <1>1, <1>2, ExtendsTrans
<1> HIDE DEF s, t, m
<1>5. m.env \in {en, s.env, t.env}
  BY <1>3 DEF Verdict
<1>6. Extends(N, en, m.env)
  BY <1>1, <1>4, <1>5, ExtendsRefl
<1> QED
  BY <1>6 DEF m

-----------------------------------------------------------------------------
(***************************************************************************)
(* The alternatives of a line, and the line.                               *)
(***************************************************************************)
\* One more alternative, after acc.
Alternative(en, body, ins) ==
  LET z == CheckSize(en, body.szvar, ins.opsize) IN
  IF z.ok THEN isMatchInstBody(z.env, body, ins) ELSE z
Mnemonic(v, body, ins) ==
  IF v.ok THEN CheckMnemonic(v.env, body.mnemvar, ins.opcode) ELSE v
Tried(acc, body, ins) ==
  LET a == Alternative(acc.v.env, body, ins) IN
  [done |-> a.ok, v |-> Mnemonic(a, body, ins)]

LEMMA AlternativeExtends ==
  ASSUME NEW N, NEW en, Good(N, en), NEW body, BodyOK(en, body), NEW ins, Decoded(ins)
  PROVE  Extends(N, en, Alternative(en, body, ins).env)
<1> DEFINE z == CheckSize(en, body.szvar, ins.opsize)
           b == isMatchInstBody(z.env, body, ins)
<1>1. Extends(N, en, z.env)
  BY CheckSizeExtends DEF BodyOK, Decoded
<1>2. Extends(N, z.env, b.env)
  <2>1. Good(N, z.env) /\ BodyOK(z.env, body)
    BY <1>1, BodyStaysOK DEF Extends
  <2> QED
    BY <2>1, MatchBodyExtends
<1>3. Extends(N, en, b.env)
  BY <1>1, <1>2, ExtendsTrans
<1>4. Alternative(en, body, ins) \in {z, b}
  BY DEF Alternative
<1> HIDE DEF z, b
<1> QED
  BY <1>1, <1>3, <1>4

LEMMA MnemonicExtends ==
  ASSUME NEW N, NEW v, Good(N, v.env), NEW body, BodyOK(v.env, body), NEW ins
  PROVE  Extends(N, v.env, Mnemonic(v, body, ins).env)
<1> DEFINE x == [BlankOperand EXCEPT !.opcode = ins.opcode]
           e == v.env
           m == CheckMnemonic(e, body.mnemvar, ins.opcode)
<1>1. Value(x)
  BY NoneIsNoName DEF Value, Fields, BlankOperand
<1> HIDE DEF x
<1>2. Extends(N, e, m.env)
  <2>1. CASE body.mnemvar = None \/ body.mnemvar \in DOMAIN e.vars
    <3>1. m.env = e
      BY <2>1 DEF CheckMnemonic, Verdict, Bound
    <3> QED
      BY <3>1, ExtendsRefl
  <2>2. CASE body.mnemvar # None /\ body.mnemvar \notin DOMAIN e.vars
    <3>1. m.env = Bind(e, body.mnemvar, x)
      BY <2>2 DEF CheckMnemonic, Verdict, Bound, x
    <3>2. body.mnemvar \in VarNames
      BY <2>2 DEF BodyOK
    <3> QED
      BY <1>1, <2>2, <3>1, <3>2, BindExtends
  <2> QED
    BY <2>1, <2>2
<1> QED
  BY <1>2, ExtendsRefl DEF Mnemonic

LEMMA TriedExtends ==
  ASSUME NEW N, NEW acc, Good(N, acc.v.env), NEW body, BodyOK(acc.v.env, body),
         NEW ins, Decoded(ins)
  PROVE  Extends(N, acc.v.env, Tried(acc, body, ins).v.env)
<1> DEFINE a == Alternative(acc.v.env, body, ins)
<1>1. Extends(N, acc.v.env, a.env)
  BY AlternativeExtends
<1> HIDE DEF a
<1>2. Good(N, a.env) /\ BodyOK(a.env, body)
  BY <1>1, BodyStaysOK DEF Extends
<1>3. Extends(N, a.env, Mnemonic(a, body, ins).env)
  BY <1>2, MnemonicExtends
<1>4. Tried(acc, body, ins).v = Mnemonic(a, body, ins)
  BY DEF Tried, a
<1> QED
  BY <1>1, <1>3, <1>4, ExtendsTrans

\* Induction over a set of numbers, since the provers cannot cite a theorem that takes
\* a predicate.
LessThan == OpToRel(<, Nat)
LEMMA InductionBySet ==
  ASSUME NEW T \in SUBSET Nat, 0 \in T, \A n \in T : n + 1 \in T
  PROVE  T = Nat
<1> SUFFICES ASSUME Nat \ T # {} PROVE FALSE
  OBVIOUS
<1>1. PICK q \in Nat \ T : \A x \in Nat \ T : ~ (<<x, q>> \in LessThan)
  BY NatLessThanWellFounded, WFMin DEF LessThan
<1>2. q - 1 \in T
  <2>1. q # 0 /\ q - 1 \in Nat /\ q - 1 < q
    BY <1>1
  <2>2. <<q - 1, q>> \in LessThan
    BY <2>1 DEF LessThan, OpToRel
  <2> QED
    BY <1>1, <2>1, <2>2
<1> QED
  BY <1>1, <1>2

\* The function in MatchBodies, for the first n alternatives.
NoTry(en) == [done |-> FALSE, v |-> Verdict(FALSE, en)]
NextTry(acc, body, ins) == IF acc.done THEN acc ELSE Tried(acc, body, ins)
IsTried(en, bodies, ins, n, f) ==
  f = [k \in 0..n |-> IF k = 0 THEN NoTry(en) ELSE NextTry(f[k-1], bodies[k], ins)]

LEMMA TriedAt ==
  ASSUME NEW en, NEW bodies, NEW ins, NEW n \in Nat, NEW f, IsTried(en, bodies, ins, n, f)
  PROVE  /\ f[0] = NoTry(en)
         /\ \A k \in 1..n : f[k] = NextTry(f[k-1], bodies[k], ins)
<1> DEFINE E(k) == IF k = 0 THEN NoTry(en) ELSE NextTry(f[k-1], bodies[k], ins)
<1>1. f = [k \in 0..n |-> E(k)]
  BY DEF IsTried
<1>2. \A k \in 0..n : f[k] = E(k)
  <2> HIDE DEF E
  <2> QED
    BY <1>1
<1> QED
  BY <1>2

LEMMA TriedExists ==
  ASSUME NEW en, NEW bodies, NEW ins, NEW n \in Nat
  PROVE  \E f : IsTried(en, bodies, ins, n, f)
<1> DEFINE T == {m \in Nat : \E f : IsTried(en, bodies, ins, m, f)}
<1>1. 0 \in T
  <2> DEFINE f == [k \in 0..0 |-> NoTry(en)]
  <2>1. IsTried(en, bodies, ins, 0, f)
    BY DEF IsTried
  <2> QED
    BY <2>1
<1>2. ASSUME NEW m \in T PROVE m + 1 \in T
  <2>1. PICK f : IsTried(en, bodies, ins, m, f)
    OBVIOUS
  <2> DEFINE g == [k \in 0..m+1 |-> IF k <= m THEN f[k] ELSE NextTry(f[m], bodies[k], ins)]
             h == [k \in 0..m+1 |-> IF k = 0 THEN NoTry(en) ELSE NextTry(g[k-1], bodies[k], ins)]
  <2>2. ASSUME NEW k \in 0..m+1 PROVE g[k] = h[k]
    <3>1. CASE k = 0
      <4>1. f[0] = NoTry(en)
        BY <2>1, TriedAt, ZenonT(60)
      <4>2. g[0] = f[0] /\ h[0] = NoTry(en)
        OBVIOUS
      <4> HIDE DEF g, h
      <4> QED
        BY <3>1, <4>1, <4>2
    <3>2. CASE k # 0 /\ k <= m
      <4>1. f[k] = NextTry(f[k-1], bodies[k], ins)
        <5>1. k \in 1..m
          BY <3>2
        <5> QED
          BY <2>1, <5>1, TriedAt
      <4>2. g[k] = f[k] /\ g[k-1] = f[k-1]
        BY <3>2
      <4>3. h[k] = NextTry(g[k-1], bodies[k], ins)
        BY <3>2
      <4> HIDE DEF g, h
      <4> QED
        BY <4>1, <4>2, <4>3
    <3>3. CASE k = m + 1
      <4>1. g[k] = NextTry(f[m], bodies[k], ins) /\ g[m] = f[m] /\ k # 0 /\ k - 1 = m
        BY <3>3
      <4>2. h[k] = NextTry(g[k-1], bodies[k], ins)
        BY <3>3
      <4> HIDE DEF g, h
      <4> QED
        BY <4>1, <4>2
    <3> QED
      BY <3>1, <3>2, <3>3
  <2>3. g = h
    <3>1. DOMAIN g = 0..m+1 /\ DOMAIN h = 0..m+1
      OBVIOUS
    <3> QED
      BY <2>2, <3>1
  <2>4. IsTried(en, bodies, ins, m + 1, g)
    BY <2>3 DEF IsTried
  <2> HIDE DEF g
  <2> QED
    BY <2>4
<1>3. T = Nat
  <2> HIDE DEF T
  <2>1. T \in SUBSET Nat
    BY DEF T
  <2> QED
    BY <1>1, <1>2, <2>1, InductionBySet
<1> QED
  BY <1>3

LEMMA MatchBodiesIs ==
  ASSUME NEW en, NEW bodies, NEW ins, Len(bodies) \in Nat
  PROVE  \E f : IsTried(en, bodies, ins, Len(bodies), f) /\ MatchBodies(en, bodies, ins) = f[Len(bodies)].v
<1> DEFINE n == Len(bodies)
           E(f, k) == IF k = 0 THEN [done |-> FALSE, v |-> Verdict(FALSE, en)]
                      ELSE IF f[k-1].done THEN f[k-1]
                      ELSE WithMnemonic(
                             Then(CheckSize(f[k-1].v.env, bodies[k].szvar, ins.opsize),
                                  LAMBDA e : isMatchInstBody(e, bodies[k], ins)), bodies[k], ins)
           c == CHOOSE f : f = [k \in 0..n |-> E(f, k)]
<1>1. MatchBodies(en, bodies, ins) = c[n].v
  BY DEF MatchBodies
<1>2. \A f, k : E(f, k) = IF k = 0 THEN NoTry(en) ELSE NextTry(f[k-1], bodies[k], ins)
  <2>1. \A acc, body : WithMnemonic(
                          Then(CheckSize(acc.v.env, body.szvar, ins.opsize),
                               LAMBDA e : isMatchInstBody(e, body, ins)), body, ins)
                        = Tried(acc, body, ins)
    BY DEF WithMnemonic, Then, Tried, Alternative, Mnemonic
  <2> QED
    BY <2>1 DEF NoTry, NextTry
<1> HIDE DEF E
<1>3. \A f : f = [k \in 0..n |-> E(f, k)] <=> IsTried(en, bodies, ins, n, f)
  BY <1>2, Zenon DEF IsTried
<1>4. \E f : f = [k \in 0..n |-> E(f, k)]
  BY <1>3, TriedExists
<1>5. c = [k \in 0..n |-> E(c, k)]
  BY <1>4
<1> HIDE DEF c
<1> QED
  BY <1>1, <1>3, <1>5

LEMMA MatchBodiesExtends ==
  ASSUME NEW N, NEW en, Good(N, en), NEW bodies, Len(bodies) \in Nat,
         \A k \in 1..Len(bodies) : BodyOK(en, bodies[k]), NEW ins, Decoded(ins)
  PROVE  Extends(N, en, MatchBodies(en, bodies, ins).env)
<1> DEFINE n == Len(bodies)
<1>1. PICK f : IsTried(en, bodies, ins, n, f) /\ MatchBodies(en, bodies, ins) = f[n].v
  BY MatchBodiesIs
<1>2. /\ f[0] = NoTry(en)
      /\ \A k \in 1..n : f[k] = NextTry(f[k-1], bodies[k], ins)
  BY <1>1, TriedAt
<1> DEFINE T == {k \in Nat : k <= n => Extends(N, en, f[k].v.env)}
<1>3. 0 \in T
  BY <1>2, ExtendsRefl DEF NoTry, Verdict
<1>4. ASSUME NEW k \in T PROVE k + 1 \in T
  <2> SUFFICES ASSUME k + 1 <= n PROVE Extends(N, en, f[k+1].v.env)
    OBVIOUS
  <2>1. Extends(N, en, f[k].v.env)
    OBVIOUS
  <2>2. f[k+1] = NextTry(f[k], bodies[k+1], ins)
    <3>1. k + 1 \in 1..n /\ (k + 1) - 1 = k
      OBVIOUS
    <3> QED
      BY <1>2, <3>1
  <2>3. Extends(N, f[k].v.env, Tried(f[k], bodies[k+1], ins).v.env)
    <3>1. Good(N, f[k].v.env) /\ BodyOK(f[k].v.env, bodies[k+1])
      BY <2>1, BodyStaysOK DEF Extends
    <3> QED
      BY <3>1, TriedExtends
  <2> QED
    BY <2>1, <2>2, <2>3, ExtendsTrans DEF NextTry
<1>5. T = Nat
  <2> HIDE DEF T
  <2>1. T \in SUBSET Nat
    BY DEF T
  <2> QED
    BY <1>3, <1>4, <2>1, InductionBySet
<1> QED
  BY <1>1, <1>5

\* A line works on the environment with the list of new variables emptied.
Fresh(en) == [en EXCEPT !.nvars = {}]

LEMMA FreshExtends ==
  ASSUME NEW N, NEW en, Good(N, en) PROVE Extends(N, en, Fresh(en))
BY DEF Good, Fresh, Extends, Keeps, SameOperand

LEMMA InstExtends ==
  ASSUME NEW N, NEW en, Good(N, en), NEW line, Len(line.bodies) \in Nat,
         \A k \in 1..Len(line.bodies) : BodyOK(en, line.bodies[k]),
         NEW ins, Decoded(ins), NEW esp, NEW efl
  PROVE  Extends(N, en, isMatchInst(en, line, ins, esp, efl).env)
<1> DEFINE m == MatchBodies(Fresh(en), line.bodies, ins)
<1>1. Extends(N, en, Fresh(en))
  BY FreshExtends
<1>2. Extends(N, Fresh(en), m.env)
  <2>1. Good(N, Fresh(en)) /\ \A k \in 1..Len(line.bodies) : BodyOK(Fresh(en), line.bodies[k])
    BY <1>1, BodyStaysOK DEF Extends
  <2> QED
    BY <2>1, MatchBodiesExtends
<1>3. isMatchInst(en, line, ins, esp, efl) \in {Verdict(FALSE, Fresh(en)), m}
  BY DEF isMatchInst, Fresh
<1>4. Extends(N, en, m.env)
  BY <1>1, <1>2, ExtendsTrans
<1> HIDE DEF m
<1> QED
  BY <1>1, <1>3, <1>4 DEF Verdict

-----------------------------------------------------------------------------
(***************************************************************************)
(* The matcher, call after call.                                           *)
(***************************************************************************)
TemplateNames(s) == UNION {{s.dyops[d].base, s.dyops[d].dispvar} : d \in DOMAIN s.dyops}
MatchInv ==
  /\ script \in Scripts
  /\ Good(TemplateNames(script), env)
  /\ DOMAIN env.opvars = DOMAIN script.dyops

LEMMA MatchInvInit == ASSUME PlainTemplates, Init PROVE MatchInv
<1>1. script \in Scripts
  BY DEF Init
<1>2. /\ DOMAIN env = {"vars", "opvars", "nvars"} /\ DOMAIN env.vars = {}
      /\ env.opvars = script.dyops
  BY DEF Init
<1>3. ASSUME NEW d \in DOMAIN script.dyops PROVE Template(TemplateNames(script), script.dyops[d])
  <2>1. script.dyops[d].index \notin VarNames /\ script.dyops[d].size \notin VarNames
    BY <1>1 DEF PlainTemplates
  <2>2. /\ DOMAIN script.dyops[d] = Fields
        /\ script.dyops[d].base \in VarNames => script.dyops[d].base # script.dyops[d].dispvar
    BY <1>1, MatchingAssumption DEF Fields
  <2>3. /\ script.dyops[d].base \in TemplateNames(script)
        /\ script.dyops[d].dispvar \in TemplateNames(script)
    BY DEF TemplateNames
  <2> QED
    BY <2>1, <2>2, <2>3 DEF Template
<1> QED
  BY <1>1, <1>2, <1>3 DEF MatchInv, Good

\* The slots of a script are what its compiler makes of them, in any environment of it.
LEMMA BodiesOK ==
  ASSUME PlainTemplates, MatchInv, NEW line \in script.lines, NEW k \in 1..Len(line.bodies)
  PROVE  BodyOK(env, line.bodies[k])
<1>1. script \in Scripts /\ Compiled(script, line.bodies[k])
  BY MatchingAssumption DEF MatchInv
<1>2. \A i \in 1..2 : line.bodies[k].ops[i].type = "memexpr" => line.bodies[k].ops[i].ref = "plain"
  BY <1>1 DEF PlainTemplates
<1>3. DOMAIN env.opvars = DOMAIN script.dyops
  BY DEF MatchInv
<1> QED
  BY <1>1, <1>2, <1>3 DEF BodyOK, SlotOK, Compiled

LEMMA MatchExtends ==
  ASSUME PlainTemplates, MatchInv, NEW line \in script.lines, NEW ins \in Insts, Match(line, ins)
  PROVE  Extends(TemplateNames(script), env, env') /\ script' = script
<1>1. PICK esp \in BOOLEAN, efl \in BOOLEAN :
        env' = isMatchInst(env, line, ins, esp, efl).env /\ script' = script
  BY DEF Match
<1>2. Len(line.bodies) \in Nat /\ Decoded(ins) /\ Good(TemplateNames(script), env)
  BY MatchingAssumption DEF MatchInv
<1>3. \A k \in 1..Len(line.bodies) : BodyOK(env, line.bodies[k])
  BY BodiesOK
<1> QED
  BY <1>1, <1>2, <1>3, InstExtends

LEMMA MatchInvStep == ASSUME PlainTemplates, MatchInv, [Next]_vars PROVE MatchInv'
<1>1. CASE Next
  <2>1. PICK line \in script.lines, ins \in Insts : Match(line, ins)
    BY <1>1 DEF Next
  <2>2. Extends(TemplateNames(script), env, env') /\ script' = script
    BY <2>1, MatchExtends
  <2> QED
    BY <2>2 DEF MatchInv, Extends, Keeps
<1>2. CASE UNCHANGED vars
  BY <1>2 DEF vars, MatchInv
<1> QED
  BY <1>1, <1>2

LEMMA MatchInvAlways == ASSUME PlainTemplates PROVE Spec => []MatchInv
<1>1. Init => MatchInv
  BY MatchInvInit
<1>2. MatchInv /\ [Next]_vars => MatchInv'
  BY MatchInvStep
<1> QED
  BY <1>1, <1>2, PTL DEF Spec

\* What a variable stands for is never changed by a later call of the matcher, whether it
\* succeeds, fails half way or saves a memory template (isMatchInst on crt.vars).
THEOREM VariablesStand == ASSUME PlainTemplates PROVE Spec => BindingsKept
<1>1. ASSUME MatchInv, Next
      PROVE  \A v \in DOMAIN env.vars :
               v \in DOMAIN env'.vars /\ Meaning(env'.vars[v]) = Meaning(env.vars[v])
  <2>1. PICK line \in script.lines, ins \in Insts : Match(line, ins)
    BY <1>1 DEF Next
  <2>2. Keeps(TemplateNames(script), env, env')
    BY <1>1, <2>1, MatchExtends DEF Extends
  <2> QED
    BY <2>2 DEF Keeps, SameOperand, Meaning
<1>2. MatchInv /\ [Next]_vars =>
        [\A v \in DOMAIN env.vars :
           v \in DOMAIN env'.vars /\ Meaning(env'.vars[v]) = Meaning(env.vars[v])]_vars
  BY <1>1
<1> QED
  BY <1>2, MatchInvAlways, PTL DEF Spec, BindingsKept

-----------------------------------------------------------------------------
(***************************************************************************)
(* What an accepted slot has checked.  First the way from the line to the  *)
(* operand: a line of one alternative was accepted because the size, both  *)
(* slots and the mnemonic were, each in what the one before it left.       *)
(***************************************************************************)
\* Bindings made on the way touch no template but those of D.
TemplatesKept(D, en, e) ==
  \A d \in DOMAIN en.opvars \ D : d \in DOMAIN e.opvars /\ e.opvars[d] = en.opvars[d]

LEMMA TemplatesKeptTrans ==
  ASSUME NEW D, NEW a, NEW b, NEW c, TemplatesKept(D, a, b), TemplatesKept(D, b, c)
  PROVE  TemplatesKept(D, a, c)
BY DEF TemplatesKept

LEMMA BindKeepsTemplates ==
  ASSUME NEW N, NEW en, Good(N, en), NEW v, NEW x
  PROVE  Bind(en, v, x).opvars = en.opvars
BY DEF Bind, Good

LEMMA CheckSizeKeepsTemplates ==
  ASSUME NEW N, NEW en, Good(N, en), NEW szvar, NEW size
  PROVE  CheckSize(en, szvar, size).env.opvars = en.opvars
<1> DEFINE x == [BlankOperand EXCEPT !.size = size]
<1>1. CheckSize(en, szvar, size).env \in {en, Bind(en, szvar, x)}
  BY Zenon DEF CheckSize, Verdict
<1> HIDE DEF x
<1> QED
  BY <1>1, BindKeepsTemplates

LEMMA CheckVarKeepsTemplates ==
  ASSUME NEW N, NEW en, Good(N, en), NEW pop, NEW ins, NEW iop
  PROVE  checkAndSaveVar(en, pop, ins, iop).env.opvars = en.opvars
<1> DEFINE r == [BlankOperand EXCEPT !.type = "reg", !.base = iop.index, !.size = iop.size]
           m == [BlankOperand EXCEPT !.type = "imm", !.imm = ins.imm, !.size = iop.size]
           c == CheckMem(en, pop, ins, iop)
           v == checkAndSaveVar(en, pop, ins, iop)
<1>1. CheckReg(en, pop, iop).env.opvars = en.opvars
  <2>1. CheckReg(en, pop, iop).env \in {en, Bind(en, pop.var, r)}
    BY Zenon DEF CheckReg, Verdict
  <2> HIDE DEF r
  <2> QED
    BY <2>1, BindKeepsTemplates
<1>2. CheckImm(en, pop, ins, iop).env.opvars = en.opvars
  <2>1. CheckImm(en, pop, ins, iop).env \in {en, Bind(en, pop.var, m)}
    BY Zenon DEF CheckImm, Verdict
  <2> HIDE DEF m
  <2> QED
    BY <2>1, BindKeepsTemplates
<1>3. c.env.opvars = en.opvars
  <2> DEFINE fresh == pop.type # "memexpr" /\ ~Bound(en, pop.var)
             x == MemValue(ins, iop)
  <2>1. CASE fresh
    <3>1. c.env \in {en, Bind(en, pop.var, x)}
      BY <2>1 DEF CheckMem, Verdict
    <3> HIDE DEF x, c
    <3> QED
      BY <3>1, BindKeepsTemplates
  <2>2. CASE ~fresh
    BY <2>2 DEF CheckMem, Verdict
  <2> QED
    BY <2>1, <2>2
<1>4. v \in {CheckReg(en, pop, iop), CheckImm(en, pop, ins, iop), c, Verdict(TRUE, en)}
  BY Zenon DEF checkAndSaveVar
<1>5. Verdict(TRUE, en).env = en
  BY DEF Verdict
<1> HIDE DEF r, m, c, v
<1> QED
  BY <1>1, <1>2, <1>3, <1>4, <1>5, Zenon DEF v

\* The templates a slot saves.
Saved(pop) == IF pop.type = "memexpr" THEN {pop.var} ELSE {}

LEMMA OperandKeepsTemplates ==
  ASSUME NEW N, NEW en, Good(N, en), NEW pop, SlotOK(en, pop),
         NEW ins, Decoded(ins), NEW tmpl, NEW i, NEW j \in 1..2
  PROVE  TemplatesKept(Saved(pop), en, isMatchInstOperand(en, pop, tmpl, i, ins, j).env)
<1> DEFINE iop == ins.ops[j]
           v == isMatchInstOperand(en, pop, tmpl, i, ins, j)
           z == CheckSize(en, pop.szvar, iop.size)
           c == CheckOperand(z.env, pop, tmpl, i, ins, j)
           k == checkAndSaveVar(z.env, pop, ins, iop)
<1>1. /\ Extends(N, en, z.env) /\ z.env.opvars = en.opvars
  <2>1. pop.szvar \in VarNames \cup {None} /\ iop.size \notin VarNames
    BY DEF SlotOK, Decoded
  <2> QED
    BY <2>1, CheckSizeExtends, CheckSizeKeepsTemplates
<1>2. Good(N, z.env) /\ SlotOK(z.env, pop)
  BY <1>1, SlotStaysOK DEF Extends
<1>3. v = IF pop.bits # None /\ iop.size # pop.bits THEN Verdict(FALSE, en)
          ELSE IF z.ok THEN c ELSE z
  BY DEF isMatchInstOperand, Then
<1> HIDE DEF z
<1>4. TemplatesKept(Saved(pop), z.env, c.env)
  <2>1. CASE pop.type = "memexpr"
    <3>1. c.env = z.env \/ (/\ pop.var \in DOMAIN z.env.opvars
                            /\ c.env = saveMemoryExprVar(z.env, pop, ins, iop))
      BY <1>2, <2>1, TemplateAccepts DEF MetTemplate
    <3> HIDE DEF c, iop
    <3>2. ASSUME pop.var \in DOMAIN z.env.opvars, c.env = saveMemoryExprVar(z.env, pop, ins, iop)
          PROVE  \A d \in DOMAIN z.env.opvars \ {pop.var} :
                   d \in DOMAIN c.env.opvars /\ c.env.opvars[d] = z.env.opvars[d]
      <4>1. PICK b : c.env.opvars = [z.env.opvars EXCEPT
                       ![pop.var] = Resolved(b, Typed(z.env.opvars[pop.var], ins, iop), pop)]
        BY <1>2, <3>2, SavedIs
      <4> QED
        BY <4>1
    <3> QED
      BY <2>1, <3>1, <3>2 DEF TemplatesKept, Saved
  <2>2. CASE pop.type # "memexpr"
    <3>1. k.env.opvars = z.env.opvars
      BY <1>2, CheckVarKeepsTemplates
    <3>2. c.env \in {z.env, k.env}
      <4>1. CASE pop.type \in {None, "explicit"}
        BY <4>1 DEF CheckOperand, Verdict, None
      <4>2. CASE pop.type \notin {None, "explicit"}
        <5>1. c = IF ~KindOK(pop, iop) THEN Verdict(FALSE, z.env)
                  ELSE IF k.ok THEN Verdict(TRUE, k.env) ELSE k
          BY <2>2, <4>2, Zenon DEF CheckOperand, Then
        <5> HIDE DEF c, k
        <5> QED
          BY <5>1 DEF Verdict
      <4> QED
        BY <4>1, <4>2
    <3> HIDE DEF c, k
    <3> QED
      BY <3>1, <3>2 DEF TemplatesKept
  <2> QED
    BY <2>1, <2>2
<1> HIDE DEF c, v
<1> QED
  BY <1>1, <1>3, <1>4 DEF TemplatesKept, Verdict, v

LEMMA AgainstKeepsTemplates ==
  ASSUME NEW N, NEW en, Good(N, en), NEW body, BodyOK(en, body),
         NEW ins, Decoded(ins), NEW i \in 1..2, NEW j \in 1..2
  PROVE  TemplatesKept(Saved(body.ops[i]), en, Against(en, body, i, ins, j).env)
<1> DEFINE pop == body.ops[i]
           o == isMatchInstOperand(en, pop, body.tmpl, i, ins, j)
<1>1. TemplatesKept(Saved(pop), en, o.env)
  BY OperandKeepsTemplates DEF BodyOK
<1> HIDE DEF o
<1>2. Against(en, body, i, ins, j).env = o.env
  BY DEF Against, Negated, Verdict, o
<1> QED
  BY <1>1, <1>2

LEMMA SlotKeepsTemplates ==
  ASSUME NEW N, NEW en, Good(N, en), NEW body, BodyOK(en, body),
         NEW ins, Decoded(ins), NEW i \in 1..2
  PROVE  TemplatesKept(Saved(body.ops[i]), en, MatchSlot(en, body, i, ins).env)
<1> DEFINE a == Against(en, body, i, ins, 1)
           b == Against(a.env, body, i, ins, 2)
           c == Against(en, body, i, ins, i)
           m == MatchSlot(en, body, i, ins)
           D == Saved(body.ops[i])
<1>1. TemplatesKept(D, en, a.env) /\ TemplatesKept(D, en, c.env)
  BY AgainstKeepsTemplates
<1>2. Good(N, a.env) /\ BodyOK(a.env, body)
  BY AgainstExtends DEF Extends
<1>3. m.env \in {en, a.env, b.env, c.env}
  BY MatchSlotIs DEF Verdict
<1>4. TemplatesKept(D, a.env, b.env)
  BY <1>2, AgainstKeepsTemplates
<1> HIDE DEF a, b, c, m, D
<1>5. TemplatesKept(D, en, b.env)
  BY <1>1, <1>4, TemplatesKeptTrans
<1>6. TemplatesKept(D, en, en)
  BY DEF TemplatesKept
<1> QED
  BY <1>1, <1>3, <1>5, <1>6 DEF m, D

LEMMA MnemonicKeepsTemplates ==
  ASSUME NEW N, NEW v, Good(N, v.env), NEW body, NEW ins
  PROVE  Mnemonic(v, body, ins).env.opvars = v.env.opvars
<1> DEFINE x == [BlankOperand EXCEPT !.opcode = ins.opcode]
           c == CheckMnemonic(v.env, body.mnemvar, ins.opcode)
<1>1. c.env \in {v.env, Bind(v.env, body.mnemvar, x)}
  BY Zenon DEF CheckMnemonic, Verdict
<1>2. Mnemonic(v, body, ins) \in {v, c}
  BY DEF Mnemonic
<1> HIDE DEF x, c
<1> QED
  BY <1>1, <1>2, BindKeepsTemplates

LEMMA OneBody ==
  ASSUME NEW en, NEW bodies, Len(bodies) = 1, NEW ins
  PROVE  MatchBodies(en, bodies, ins) = Tried(NoTry(en), bodies[1], ins).v
<1>1. PICK f : IsTried(en, bodies, ins, Len(bodies), f) /\ MatchBodies(en, bodies, ins) = f[Len(bodies)].v
  <2>1. Len(bodies) \in Nat
    OBVIOUS
  <2> QED
    BY <2>1, MatchBodiesIs, Zenon
<1>2. f[0] = NoTry(en) /\ f[1] = NextTry(f[0], bodies[1], ins)
  BY <1>1, TriedAt
<1>3. ~NoTry(en).done
  BY DEF NoTry
<1> QED
  BY <1>1, <1>2, <1>3 DEF NextTry

LEMMA OneAlternative ==
  ASSUME NEW N, NEW en, Good(N, en), NEW line, Len(line.bodies) = 1,
         BodyOK(en, line.bodies[1]), NEW ins, Decoded(ins), NEW esp, NEW efl,
         isMatchInst(en, line, ins, esp, efl).ok
  PROVE  \E e :
           LET body == line.bodies[1]
               s == MatchSlot(e, body, 1, ins)
               t == MatchSlot(s.env, body, 2, ins)
               v == isMatchInst(en, line, ins, esp, efl) IN
           /\ Good(N, e) /\ BodyOK(e, body)
           /\ s.ok /\ t.ok
           /\ Extends(N, t.env, v.env) /\ v.env.opvars = t.env.opvars
<1> DEFINE body == line.bodies[1]
           f == Fresh(en)
           z == CheckSize(f, body.szvar, ins.opsize)
           s == MatchSlot(z.env, body, 1, ins)
           t == MatchSlot(s.env, body, 2, ins)
           a == Alternative(f, body, ins)
           n == Mnemonic(a, body, ins)
           v == isMatchInst(en, line, ins, esp, efl)
<1>1. v = n
  <2>1. v = MatchBodies(f, line.bodies, ins)
    <3>1. v \in {Verdict(FALSE, f), MatchBodies(f, line.bodies, ins)}
      BY DEF isMatchInst, Fresh
    <3>2. ~Verdict(FALSE, f).ok
      BY DEF Verdict
    <3> QED
      BY <3>1, <3>2
  <2>2. NoTry(f).v.env = f
    BY DEF NoTry, Verdict
  <2> QED
    BY <2>1, <2>2, OneBody DEF Tried
<1>2. a.ok
  BY <1>1 DEF Mnemonic
<1>3. z.ok /\ a = isMatchInstBody(z.env, body, ins)
  BY <1>2 DEF Alternative
<1>4. s.ok /\ a = t
  BY <1>2, <1>3, MatchBodyIs DEF Verdict
<1>5. Good(N, z.env) /\ BodyOK(z.env, body)
  <2>1. Good(N, f) /\ BodyOK(f, body)
    BY FreshExtends, BodyStaysOK DEF Extends
  <2>2. Extends(N, f, z.env)
    BY <2>1, CheckSizeExtends DEF BodyOK, Decoded
  <2> QED
    BY <2>1, <2>2, BodyStaysOK DEF Extends
<1>6. Good(N, s.env) /\ BodyOK(s.env, body)
  <2>1. Extends(N, z.env, s.env) /\ BodyOK(s.env, body)
    <3> HIDE DEF z, body
    <3> QED
      BY <1>5, MatchSlotExtends
  <2> QED
    BY <2>1 DEF Extends
<1>7. Good(N, t.env) /\ BodyOK(t.env, body)
  <2>1. Extends(N, s.env, t.env) /\ BodyOK(t.env, body)
    <3> HIDE DEF s, body
    <3> QED
      BY <1>6, MatchSlotExtends
  <2> QED
    BY <2>1 DEF Extends
<1> HIDE DEF v, a, n, t
<1>8. Extends(N, t.env, v.env) /\ v.env.opvars = t.env.opvars
  BY <1>1, <1>4, <1>7, MnemonicExtends, MnemonicKeepsTemplates, ZenonT(60) DEF n
<1>9. t.ok
  BY <1>2, <1>4
<1> QED
  BY <1>4, <1>5, <1>8, <1>9 DEF v, t

\* Each slot of an accepted line, in the environment that it was tried in.  What the line
\* binds after it are names, and at most the template of the other slot.
Later(body, i) == IF i = 1 THEN Saved(body.ops[2]) ELSE {}
Passes(N, e, body, i, ins, final) ==
  /\ Good(N, e) /\ BodyOK(e, body)
  /\ MatchSlot(e, body, i, ins).ok
  /\ Extends(N, MatchSlot(e, body, i, ins).env, final)
  /\ TemplatesKept(Later(body, i), MatchSlot(e, body, i, ins).env, final)

LEMMA SlotPasses ==
  ASSUME NEW N, NEW en, Good(N, en), NEW line, Len(line.bodies) = 1,
         BodyOK(en, line.bodies[1]), NEW ins, Decoded(ins), NEW esp, NEW efl,
         isMatchInst(en, line, ins, esp, efl).ok, NEW i \in 1..2
  PROVE  \E e : Passes(N, e, line.bodies[1], i, ins, isMatchInst(en, line, ins, esp, efl).env)
<1> DEFINE body == line.bodies[1]
           final == isMatchInst(en, line, ins, esp, efl).env
           s(e) == MatchSlot(e, body, 1, ins)
           t(e) == MatchSlot(s(e).env, body, 2, ins)
<1>1. PICK e : /\ Good(N, e) /\ BodyOK(e, body) /\ s(e).ok /\ t(e).ok
               /\ Extends(N, t(e).env, final) /\ final.opvars = t(e).env.opvars
  BY OneAlternative
<1>2. Extends(N, e, s(e).env) /\ BodyOK(s(e).env, body)
  BY <1>1, MatchSlotExtends
<1>3. Good(N, s(e).env)
  BY <1>2 DEF Extends
<1>4. Extends(N, s(e).env, t(e).env)
  BY <1>2, <1>3, MatchSlotExtends
<1>5. TemplatesKept(Saved(body.ops[2]), s(e).env, t(e).env)
  BY <1>2, <1>3, SlotKeepsTemplates
<1> HIDE DEF final, body
<1>6. CASE i = 1
  <2>1. Extends(N, s(e).env, final)
    BY <1>1, <1>4, ExtendsTrans
  <2>2. TemplatesKept(Saved(body.ops[2]), s(e).env, final)
    BY <1>1, <1>5 DEF TemplatesKept
  <2>3. Passes(N, e, body, i, ins, final)
    BY <1>1, <1>6, <2>1, <2>2 DEF Passes, Later
  <2> QED
    BY <2>3 DEF final, body
<1>7. CASE i = 2
  <2>1. TemplatesKept({}, t(e).env, final)
    BY <1>1 DEF TemplatesKept
  <2>2. Passes(N, s(e).env, body, i, ins, final)
    BY <1>1, <1>2, <1>3, <1>7, <2>1 DEF Passes, Later
  <2> QED
    BY <2>2 DEF final, body
<1> QED
  BY <1>6, <1>7

\* The operands slot i speaks of, and one of them in the environment it was tried in.
SpokenOf(body, i, ins) ==
  IF body.ops[i].inall THEN {j \in 1..2 : ins.ops[j].type # None} ELSE {i}

LEMMA OperandPasses ==
  ASSUME NEW N, NEW e, NEW body, NEW i \in 1..2, NEW ins, Decoded(ins), NEW final,
         Passes(N, e, body, i, ins, final),
         body.ops[i].type # None, NEW j \in SpokenOf(body, i, ins)
  PROVE  \E x : /\ Good(N, x) /\ BodyOK(x, body)
                /\ Against(x, body, i, ins, j).ok
                /\ Extends(N, Against(x, body, i, ins, j).env, final)
                /\ ~body.ops[i].inall => TemplatesKept(Later(body, i), Against(x, body, i, ins, j).env, final)
<1> DEFINE m == MatchSlot(e, body, i, ins)
           a == Against(e, body, i, ins, 1)
           b == Against(a.env, body, i, ins, 2)
           c == Against(e, body, i, ins, i)
<1>1. /\ Good(N, e) /\ BodyOK(e, body) /\ m.ok
      /\ Extends(N, m.env, final) /\ TemplatesKept(Later(body, i), m.env, final)
  BY DEF Passes
<1>2. CASE ~body.ops[i].inall
  <2>1. m = c /\ j = i
    BY <1>2, MatchSlotIs DEF SpokenOf
  <2> HIDE DEF m
  <2> QED
    BY <1>1, <2>1
<1>3. CASE body.ops[i].inall
  <2>1. j \in 1..2 /\ ins.ops[j].type # None /\ ins.ops[1].type # None
    BY <1>3 DEF SpokenOf, Decoded
  <2>2. Good(N, a.env) /\ BodyOK(a.env, body)
    BY <1>1, AgainstExtends DEF Extends
  <2>3. Extends(N, a.env, b.env)
    BY <2>2, AgainstExtends
  <2>4. m = IF ~a.ok THEN a ELSE IF ins.ops[2].type = None THEN Verdict(TRUE, a.env) ELSE b
    BY <1>3, <2>1, MatchSlotIs
  <2>5. a.ok
    BY <1>1, <2>4
  <2>6. CASE ins.ops[2].type = None
    <3>1. j = 1
      BY <2>1, <2>6
    <3>2. m.env = a.env
      BY <2>4, <2>5, <2>6 DEF Verdict
    <3> HIDE DEF m
    <3> QED
      BY <1>1, <1>3, <2>5, <3>1, <3>2
  <2>7. CASE ins.ops[2].type # None
    <3>1. m = b
      BY <2>4, <2>5, <2>7
    <3>2. Extends(N, b.env, final) /\ b.ok
      BY <1>1, <3>1
    <3> HIDE DEF m, b
    <3>3. Extends(N, a.env, final)
      BY <2>3, <3>2, ExtendsTrans
    <3>4. CASE j = 1
      BY <1>1, <1>3, <2>5, <3>3, <3>4
    <3>5. CASE j = 2
      BY <1>3, <2>2, <3>2, <3>5 DEF b
    <3> QED
      BY <2>1, <3>4, <3>5
  <2> QED
    BY <2>6, <2>7
<1> QED
  BY <1>2, <1>3

\* A slot that names a variable has had its operand checked against it.
LEMMA VariableAsked ==
  ASSUME NEW N, NEW x, Good(N, x), NEW body, BodyOK(x, body), NEW i \in 1..2,
         body.ops[i].type \notin {None, "explicit", "memexpr"}, ~body.ops[i].not,
         NEW ins, Decoded(ins), NEW j \in 1..2, Against(x, body, i, ins, j).ok
  PROVE  \E z : LET c == checkAndSaveVar(z, body.ops[i], ins, ins.ops[j]) IN
           /\ Good(N, z) /\ c.ok /\ KindOK(body.ops[i], ins.ops[j])
           /\ Against(x, body, i, ins, j).env = c.env
<1> DEFINE pop == body.ops[i]
           iop == ins.ops[j]
           o == isMatchInstOperand(x, pop, body.tmpl, i, ins, j)
           z == CheckSize(x, pop.szvar, iop.size)
           c == checkAndSaveVar(z.env, pop, ins, iop)
           k == CheckOperand(z.env, pop, body.tmpl, i, ins, j)
<1>1. Against(x, body, i, ins, j) = o
  BY DEF Against, Negated
<1>2. o.ok
  BY <1>1
<1>3. Good(N, z.env)
  <2>1. pop.szvar \in VarNames \cup {None} /\ iop.size \notin VarNames
    BY DEF BodyOK, SlotOK, Decoded
  <2> QED
    BY <2>1, CheckSizeExtends DEF Extends
<1>4. o = IF pop.bits # None /\ iop.size # pop.bits THEN Verdict(FALSE, x)
          ELSE IF z.ok THEN k ELSE z
  BY DEF isMatchInstOperand, Then
<1>5. k = IF ~KindOK(pop, iop) THEN Verdict(FALSE, z.env)
          ELSE IF c.ok THEN Verdict(TRUE, c.env) ELSE c
  BY Zenon DEF CheckOperand, Then
<1> HIDE DEF o, z, c, k, pop, iop
<1>6. o = k
  BY <1>2, <1>4 DEF Verdict
<1>7. KindOK(pop, iop) /\ c.ok /\ k.env = c.env
  BY <1>2, <1>5, <1>6 DEF Verdict
<1> QED
  BY <1>1, <1>3, <1>6, <1>7 DEF c, pop, iop

LEMMA NorefChecked ==
  ASSUME NEW N, NEW z, Good(N, z), NEW pop, pop.type = "reg", pop.ref = "noref",
         NEW ins, Decoded(ins), NEW j \in 1..2,
         checkAndSaveVar(z, pop, ins, ins.ops[j]).ok
  PROVE  LET c == checkAndSaveVar(z, pop, ins, ins.ops[j]) IN
         BaseRegisters(ins, ins.ops[j]) # {} =>
           /\ pop.var \in DOMAIN c.env.vars
           /\ ~Uses(c.env.vars[pop.var], BaseRegisters(ins, ins.ops[j]))
<1> DEFINE iop == ins.ops[j]
           c == checkAndSaveVar(z, pop, ins, iop)
           op == z.vars[pop.var]
<1>1. /\ ins.base # None => ~SameRegister(None, ins.base)
      /\ iop.index # None => iop.type \in {"reg", "mem", "smem"} /\ ~SameRegister(None, iop.index)
  BY DEF Decoded
<1>2. pop.var \in DOMAIN z.vars => op.base \notin VarNames
  BY DEF Good, Value
<1>3. CASE iop.type = "reg"
  <2>1. c = CheckReg(z, pop, iop)
    BY <1>3 DEF checkAndSaveVar
  <2>2. pop.var \in DOMAIN z.vars /\ c = Verdict(~SameRegister(op.base, iop.index), z)
    BY <2>1 DEF CheckReg, Bound, Verdict
  <2>3. c.env = z /\ ~SameRegister(op.base, iop.index)
    <3>1. Verdict(~SameRegister(op.base, iop.index), z).ok <=> ~SameRegister(op.base, iop.index)
      BY Zenon DEF Verdict
    <3>2. Verdict(~SameRegister(op.base, iop.index), z).env = z
      BY Zenon DEF Verdict
    <3> QED
      BY <2>2, <3>1, <3>2, Zenon
  <2> HIDE DEF c
  <2> QED
    BY <1>3, <2>2, <2>3 DEF Uses, BaseRegisters, Registers, c
<1>4. CASE iop.type \in {"mem", "smem"}
  <2>1. c = CheckMem(z, pop, ins, iop)
    BY <1>4 DEF checkAndSaveVar
  <2>2. pop.var \in DOMAIN z.vars /\ c = Verdict(MemNotReferenced(op, ins, iop), z)
    BY <2>1 DEF CheckMem, Bound, Verdict
  <2>3. c.env = z /\ MemNotReferenced(op, ins, iop)
    BY <2>2 DEF Verdict
  <2> HIDE DEF c, op
  <2>4. op.base \notin VarNames
    BY <1>2, <2>2
  <2>5. CASE iop.type = "mem"
    <3>1. op.base # None => ~SameRegister(op.base, ins.base)
      BY <2>3, <2>4, <2>5 DEF MemNotReferenced, IsVar
    <3>2. ASSUME NEW r \in BaseRegisters(ins, iop) PROVE ~SameRegister(op.base, r)
      BY <1>1, <2>5, <3>1, <3>2 DEF BaseRegisters
    <3> QED
      BY <2>2, <2>3, <3>2 DEF Uses, c, op
  <2>6. CASE iop.type = "smem"
    <3>1. op.base # None => ~SameRegister(op.base, iop.index)
      BY <2>3, <2>4, <2>6 DEF MemNotReferenced, IsVar
    <3>2. ASSUME NEW r \in BaseRegisters(ins, iop) PROVE ~SameRegister(op.base, r)
      BY <1>1, <2>6, <3>1, <3>2 DEF BaseRegisters, Registers
    <3> QED
      BY <2>2, <2>3, <3>2 DEF Uses, c, op
  <2> QED
    BY <1>4, <2>5, <2>6
<1>5. CASE iop.type \notin {"reg", "mem", "smem"}
  <2>1. BaseRegisters(ins, iop) = {}
    BY <1>1, <1>5 DEF BaseRegisters, Registers
  <2> QED
    BY <2>1
<1> QED
  BY <1>3, <1>4, <1>5

LEMMA NorefInst ==
  ASSUME NEW N, NEW en, Good(N, en), NEW line, Len(line.bodies) = 1,
         BodyOK(en, line.bodies[1]), NEW ins, Decoded(ins), NEW esp, NEW efl,
         isMatchInst(en, line, ins, esp, efl).ok, NEW i \in 1..2,
         line.bodies[1].ops[i].type = "reg", line.bodies[1].ops[i].ref = "noref",
         ~line.bodies[1].ops[i].not,
         NEW j \in SpokenOf(line.bodies[1], i, ins)
  PROVE  ~Uses(isMatchInst(en, line, ins, esp, efl).env.vars[line.bodies[1].ops[i].var],
               BaseRegisters(ins, ins.ops[j]))
<1> DEFINE body == line.bodies[1]
           pop == body.ops[i]
           final == isMatchInst(en, line, ins, esp, efl).env
<1>1. PICK e : Passes(N, e, body, i, ins, final)
  BY SlotPasses
<1>2. j \in 1..2 /\ pop.type # None /\ pop.type \notin {None, "explicit", "memexpr"}
  BY DEF SpokenOf, None
<1> HIDE DEF final
<1>3. PICK x : /\ Good(N, x) /\ BodyOK(x, body)
               /\ Against(x, body, i, ins, j).ok
               /\ Extends(N, Against(x, body, i, ins, j).env, final)
  BY <1>1, <1>2, OperandPasses
<1>4. PICK z : /\ Good(N, z)
               /\ checkAndSaveVar(z, pop, ins, ins.ops[j]).ok
               /\ Against(x, body, i, ins, j).env = checkAndSaveVar(z, pop, ins, ins.ops[j]).env
  BY ONLY <1>2, <1>3, i \in 1..2, Decoded(ins), ~body.ops[i].not, VariableAsked
<1> DEFINE c == checkAndSaveVar(z, pop, ins, ins.ops[j])
           regs == BaseRegisters(ins, ins.ops[j])
<1>5. regs # {} => pop.var \in DOMAIN c.env.vars /\ ~Uses(c.env.vars[pop.var], regs)
  BY <1>2, <1>4, NorefChecked
<1>6. Extends(N, c.env, final)
  BY <1>3, <1>4
<1> HIDE DEF c, regs
<1>7. pop.var \in DOMAIN c.env.vars => final.vars[pop.var].base = c.env.vars[pop.var].base
  BY <1>6 DEF Extends, Keeps, SameOperand
<1>8. ~Uses(final.vars[pop.var], regs)
  BY <1>5, <1>7 DEF Uses
<1> QED
  BY <1>8 DEF final, regs

-----------------------------------------------------------------------------
(***************************************************************************)
(* What the call that accepted a line has left.                            *)
(***************************************************************************)
LEMMA AcceptedCall ==
  ASSUME PlainTemplates, MatchInv, Next, met'.ok, Len(met'.line.bodies) = 1
  PROVE  /\ met'.line \in script.lines /\ Decoded(met'.ins)
         /\ BodyOK(env, met'.line.bodies[1]) /\ Good(TemplateNames(script), env)
         /\ \E esp, efl : LET v == isMatchInst(env, met'.line, met'.ins, esp, efl) IN
              v.ok /\ env' = v.env
<1>1. PICK line \in script.lines, ins \in Insts : Match(line, ins)
  BY DEF Next
<1>2. PICK esp \in BOOLEAN, efl \in BOOLEAN :
        LET v == isMatchInst(env, line, ins, esp, efl) IN
        /\ env' = v.env
        /\ met' = IF v.ok THEN [ok |-> TRUE, line |-> line, ins |-> ins, esp |-> esp, efl |-> efl]
                          ELSE NoCall
  BY <1>1 DEF Match
<1> DEFINE v == isMatchInst(env, line, ins, esp, efl)
<1>3. v.ok
  BY <1>2 DEF NoCall
<1>4. met'.line = line /\ met'.ins = ins
  BY <1>2, <1>3
<1>5. Decoded(ins) /\ Good(TemplateNames(script), env)
  BY MatchingAssumption DEF MatchInv
<1>6. BodyOK(env, line.bodies[1])
  <2>1. 1 \in 1..Len(line.bodies)
    BY <1>4
  <2> QED
    BY <2>1, BodiesOK
<1> QED
  BY <1>2, <1>3, <1>4, <1>5, <1>6

LEMMA NorefStep == ASSUME PlainTemplates, MatchInv, NorefKeepsOut, [Next]_vars PROVE NorefKeepsOut'
<1>1. CASE Next
  <2> SUFFICES ASSUME NEW i \in 1..2, Accepted(i)', RegisterVar(i)', Slot(i).ref' = "noref",
                      NEW j \in Spoken(i)'
               PROVE  ~Uses(env.vars[Slot(i).var], BaseRegisters(met.ins, met.ins.ops[j]))'
    BY DEF NorefKeepsOut
  <2> DEFINE line == met'.line
             ins == met'.ins
             pop == line.bodies[1].ops[i]
  <2>1. met'.ok /\ Len(line.bodies) = 1
    BY DEF Accepted
  <2>2. PICK esp, efl : LET v == isMatchInst(env, line, ins, esp, efl) IN v.ok /\ env' = v.env
    BY <1>1, <2>1, AcceptedCall
  <2>3. BodyOK(env, line.bodies[1]) /\ Decoded(ins) /\ Good(TemplateNames(script), env)
    BY <1>1, <2>1, AcceptedCall
  <2>4. pop.type = "reg" /\ ~pop.not /\ pop.ref = "noref"
    BY DEF RegisterVar, Slot
  <2>5. j \in SpokenOf(line.bodies[1], i, ins)
    BY DEF Spoken, SpokenOf, Slot
  <2>6. ~Uses(env'.vars[pop.var], BaseRegisters(ins, ins.ops[j]))
    BY <2>1, <2>2, <2>3, <2>4, <2>5, NorefInst
  <2> QED
    BY <2>6 DEF Uses, Slot
<1>2. CASE UNCHANGED vars
  BY <1>2 DEF vars, NorefKeepsOut, Accepted, RegisterVar, Slot, Spoken, Uses
<1> QED
  BY <1>1, <1>2

\* {!r} on a register variable keeps out every instruction one of whose operands is the
\* register, in any width, or addresses memory with it as the base, whatever the line
\* binds afterwards (checkAndSaveVar with PATTERN_CFLAG_NOREF).
THEOREM ReferencesAreKeptOut == ASSUME PlainTemplates PROVE Spec => []NorefKeepsOut
<1>1. Init => NorefKeepsOut
  BY DEF Init, NorefKeepsOut, Accepted, NoCall
<1>2. MatchInv /\ NorefKeepsOut /\ [Next]_vars => NorefKeepsOut'
  BY NorefStep
<1> QED
  BY <1>1, <1>2, MatchInvAlways, PTL DEF Spec

-----------------------------------------------------------------------------
(***************************************************************************)
(* What an accepted variable or template stands for.                       *)
(***************************************************************************)
LEMMA DenotesStays ==
  ASSUME NEW a, NEW b, SameOperand(b, a), NEW ins, NEW iop, Denotes(a, ins, iop),
         iop.type \notin {"reg", "imm"} => b.type = a.type
  PROVE  Denotes(b, ins, iop)
<1>1. CASE iop.type = "reg"
  BY <1>1 DEF Denotes, SameOperand
<1>2. CASE iop.type = "imm"
  BY <1>2 DEF Denotes, SameOperand
<1>3. CASE iop.type = "mem"
  BY <1>3 DEF Denotes, SameOperand
<1>4. CASE iop.type = "smem"
  BY <1>4 DEF Denotes, SameOperand
<1>5. CASE iop.type \notin {"reg", "imm", "mem", "smem"}
  BY <1>5, Zenon DEF Denotes
<1> QED
  BY <1>1, <1>2, <1>3, <1>4, <1>5

LEMMA RegisterDenotes ==
  ASSUME NEW N, NEW z, Good(N, z), NEW pop, pop.var \in VarNames, pop.ref = "plain",
         NEW ins, NEW iop, iop.type = "reg", CheckReg(z, pop, iop).ok
  PROVE  LET c == CheckReg(z, pop, iop) IN
         pop.var \in DOMAIN c.env.vars /\ Denotes(c.env.vars[pop.var], ins, iop)
<1> DEFINE x == [BlankOperand EXCEPT !.type = "reg", !.base = iop.index, !.size = iop.size]
           c == CheckReg(z, pop, iop)
           op == z.vars[pop.var]
<1>1. x.base = iop.index /\ x.size = iop.size
  BY DEF BlankOperand
<1> HIDE DEF x
<1>2. CASE pop.var \in DOMAIN z.vars
  <2>1. c = Verdict(iop.index = op.base /\ iop.size = op.size, z)
    BY <1>2 DEF CheckReg, Bound
  <2>2. c.env = z
    BY <2>1 DEF Verdict
  <2>3. Verdict(iop.index = op.base /\ iop.size = op.size, z).ok
          <=> (iop.index = op.base /\ iop.size = op.size)
    BY Zenon DEF Verdict
  <2>4. iop.index = op.base /\ iop.size = op.size
    BY <2>1, <2>3, Zenon
  <2> HIDE DEF c
  <2> QED
    BY <1>2, <2>2, <2>4 DEF Denotes, c
<1>3. CASE pop.var \notin DOMAIN z.vars
  <2>1. c.env = Bind(z, pop.var, x)
    BY <1>3 DEF CheckReg, Bound, Verdict, x
  <2>2. pop.var \in DOMAIN Bind(z, pop.var, x).vars /\ Bind(z, pop.var, x).vars[pop.var] = x
    BY DEF Bind, Good
  <2> HIDE DEF c
  <2> QED
    BY <1>1, <2>1, <2>2 DEF Denotes, c
<1> QED
  BY <1>2, <1>3

LEMMA ImmediateDenotes ==
  ASSUME NEW N, NEW z, Good(N, z), NEW pop, pop.var \in VarNames, pop.ref = "plain",
         NEW ins, NEW iop, iop.type = "imm", CheckImm(z, pop, ins, iop).ok
  PROVE  LET c == CheckImm(z, pop, ins, iop) IN
         pop.var \in DOMAIN c.env.vars /\ Denotes(c.env.vars[pop.var], ins, iop)
<1> DEFINE x == [BlankOperand EXCEPT !.type = "imm", !.imm = ins.imm, !.size = iop.size]
           c == CheckImm(z, pop, ins, iop)
           op == z.vars[pop.var]
<1>1. x.imm = ins.imm /\ x.size = iop.size
  BY DEF BlankOperand
<1> HIDE DEF x
<1>2. CASE pop.var \in DOMAIN z.vars
  <2>1. c = Verdict(op.imm = ins.imm /\ op.size = iop.size, z)
    BY <1>2 DEF CheckImm, Bound
  <2>2. c.env = z
    BY <2>1 DEF Verdict
  <2>3. Verdict(op.imm = ins.imm /\ op.size = iop.size, z).ok
          <=> (op.imm = ins.imm /\ op.size = iop.size)
    BY Zenon DEF Verdict
  <2>4. op.imm = ins.imm /\ op.size = iop.size
    BY <2>1, <2>3, Zenon
  <2> HIDE DEF c
  <2> QED
    BY <1>2, <2>2, <2>4 DEF Denotes, c
<1>3. CASE pop.var \notin DOMAIN z.vars
  <2>1. c.env = Bind(z, pop.var, x)
    BY <1>3 DEF CheckImm, Bound, Verdict, x
  <2>2. pop.var \in DOMAIN Bind(z, pop.var, x).vars /\ Bind(z, pop.var, x).vars[pop.var] = x
    BY DEF Bind, Good
  <2> HIDE DEF c
  <2> QED
    BY <1>1, <2>1, <2>2 DEF Denotes, c
<1> QED
  BY <1>2, <1>3

\* A plain value that the comparison accepts is the operand met.
LEMMA SameDenotes ==
  ASSUME NEW op, Value(op), NEW ins, NEW iop, iop.type \in MemTypes, MemSame(op, ins, iop)
  PROVE  Denotes(op, ins, iop)
<1>1. op.type = iop.type /\ op.imm = ins.disp /\ op.size \in {None, iop.size}
  BY DEF MemSame, IsVar, Value
<1>2. CASE iop.type = "mem"
  BY <1>1, <1>2 DEF MemSame, IsVar, Value, Denotes
<1>3. CASE iop.type = "smem"
  BY <1>1, <1>3 DEF MemSame, IsVar, Value, Denotes
<1>4. CASE iop.type = "disp"
  BY <1>1, <1>4 DEF Denotes
<1> QED
  BY <1>2, <1>3, <1>4 DEF MemTypes

LEMMA MemoryDenotes ==
  ASSUME NEW N, NEW z, Good(N, z), NEW pop, pop.var \in VarNames, pop.ref = "plain",
         pop.type # "memexpr", NEW ins, ins.base \notin VarNames,
         NEW iop, iop.index \notin VarNames, iop.size \notin VarNames,
         iop.type \in MemTypes, CheckMem(z, pop, ins, iop).ok
  PROVE  LET c == CheckMem(z, pop, ins, iop) IN
         pop.var \in DOMAIN c.env.vars /\ Denotes(c.env.vars[pop.var], ins, iop)
<1> DEFINE x == MemValue(ins, iop)
           c == CheckMem(z, pop, ins, iop)
           op == z.vars[pop.var]
<1>1. \A y, e : (Verdict(MemSame(y, ins, iop), e).ok <=> MemSame(y, ins, iop))
                /\ Verdict(MemSame(y, ins, iop), e).env = e
  BY Zenon DEF Verdict
<1>2. CASE pop.var \in DOMAIN z.vars
  <2>1. c = Verdict(MemSame(op, ins, iop), z)
    BY <1>2 DEF CheckMem, Bound
  <2>2. Value(op)
    BY <1>2 DEF Good
  <2>3. c.ok
    OBVIOUS
  <2> HIDE DEF c, op
  <2>4. c.env = z /\ MemSame(op, ins, iop)
    BY <1>1, <2>1, <2>3, Zenon
  <2>5. Denotes(op, ins, iop)
    BY <2>2, <2>4, SameDenotes
  <2> QED
    BY <1>2, <2>4, <2>5 DEF c, op
<1>3. CASE pop.var \notin DOMAIN z.vars
  <2>1. c = Verdict(MemSame(x, ins, iop), Bind(z, pop.var, x))
    BY <1>3 DEF CheckMem, Bound
  <2>2. c.env = Bind(z, pop.var, x) /\ MemSame(x, ins, iop)
    BY <1>1, <2>1, SMTT(60)
  <2>3. Value(x)
    BY MemValueIs
  <2> HIDE DEF c, x
  <2>4. pop.var \in DOMAIN Bind(z, pop.var, x).vars /\ Bind(z, pop.var, x).vars[pop.var] = x
    BY DEF Bind, Good
  <2>5. Denotes(x, ins, iop)
    BY <2>2, <2>3, SameDenotes
  <2> QED
    BY <2>2, <2>4, <2>5 DEF c
<1> QED
  BY <1>2, <1>3

LEMMA VariableDenotes ==
  ASSUME NEW N, NEW z, Good(N, z), NEW pop, pop.var \in VarNames, pop.ref = "plain",
         pop.type # "memexpr", NEW ins, Decoded(ins), NEW j \in 1..2, ins.ops[j].type # None,
         checkAndSaveVar(z, pop, ins, ins.ops[j]).ok
  PROVE  LET c == checkAndSaveVar(z, pop, ins, ins.ops[j]) IN
         pop.var \in DOMAIN c.env.vars /\ Denotes(c.env.vars[pop.var], ins, ins.ops[j])
<1> DEFINE iop == ins.ops[j]
<1>1. /\ ins.base \notin VarNames /\ iop.index \notin VarNames /\ iop.size \notin VarNames
      /\ iop.type \in {"reg", "imm", "mem", "smem", "disp"}
  BY DEF Decoded
<1>2. CASE iop.type = "reg"
  <2>1. checkAndSaveVar(z, pop, ins, iop) = CheckReg(z, pop, iop)
    BY <1>2 DEF checkAndSaveVar
  <2> QED
    BY <1>2, <2>1, RegisterDenotes
<1>3. CASE iop.type = "imm"
  <2>1. checkAndSaveVar(z, pop, ins, iop) = CheckImm(z, pop, ins, iop)
    BY <1>3 DEF checkAndSaveVar
  <2> QED
    BY <1>3, <2>1, ImmediateDenotes
<1>4. CASE iop.type \in MemTypes
  <2>1. checkAndSaveVar(z, pop, ins, iop) = CheckMem(z, pop, ins, iop)
    BY <1>4 DEF checkAndSaveVar, MemTypes
  <2> QED
    BY <1>1, <1>4, <2>1, MemoryDenotes
<1> QED
  BY <1>1, <1>2, <1>3, <1>4 DEF MemTypes

LEMMA VariableInst ==
  ASSUME NEW N, NEW en, Good(N, en), NEW line, Len(line.bodies) = 1,
         BodyOK(en, line.bodies[1]), NEW ins, Decoded(ins), NEW esp, NEW efl,
         isMatchInst(en, line, ins, esp, efl).ok, NEW i \in 1..2,
         Plain(line.bodies[1].ops[i]), line.bodies[1].ops[i].type \in {"any", "reg", "imm", "mem"},
         line.bodies[1].ops[i].type \in {"any", "mem"} => line.bodies[1].ops[i].var \notin N,
         ins.ops[i].type # None
  PROVE  Denotes(isMatchInst(en, line, ins, esp, efl).env.vars[line.bodies[1].ops[i].var],
                 ins, ins.ops[i])
<1> DEFINE body == line.bodies[1]
           pop == body.ops[i]
           iop == ins.ops[i]
           final == isMatchInst(en, line, ins, esp, efl).env
<1>1. PICK e : Passes(N, e, body, i, ins, final)
  BY SlotPasses
<1>2. /\ i \in SpokenOf(body, i, ins) /\ pop.type # None
      /\ pop.type \notin {None, "explicit", "memexpr"} /\ ~pop.not /\ pop.ref = "plain"
  BY DEF SpokenOf, None, Plain
<1>3. pop.var \in VarNames
  BY <1>2 DEF BodyOK, SlotOK
<1> HIDE DEF final
<1>4. PICK x : /\ Good(N, x) /\ BodyOK(x, body)
               /\ Against(x, body, i, ins, i).ok
               /\ Extends(N, Against(x, body, i, ins, i).env, final)
  BY <1>1, <1>2, OperandPasses
<1>5. PICK z : /\ Good(N, z)
               /\ checkAndSaveVar(z, pop, ins, iop).ok /\ KindOK(pop, iop)
               /\ Against(x, body, i, ins, i).env = checkAndSaveVar(z, pop, ins, iop).env
  BY ONLY <1>2, <1>4, i \in 1..2, Decoded(ins), VariableAsked
<1> DEFINE c == checkAndSaveVar(z, pop, ins, iop)
<1>6. pop.var \in DOMAIN c.env.vars /\ Denotes(c.env.vars[pop.var], ins, iop)
  BY <1>2, <1>3, <1>5, VariableDenotes
<1>7. Extends(N, c.env, final)
  BY <1>4, <1>5
<1>8. iop.type \notin {"reg", "imm"} => pop.var \notin N
  <2>1. pop.type = "reg" => iop.type = "reg"
    BY <1>2, <1>5 DEF KindOK
  <2>2. pop.type = "imm" => iop.type = "imm"
    BY <1>2, <1>5 DEF KindOK
  <2> QED
    BY <2>1, <2>2
<1> HIDE DEF c, pop, iop
<1>9. /\ SameOperand(final.vars[pop.var], c.env.vars[pop.var])
      /\ iop.type \notin {"reg", "imm"} => final.vars[pop.var].type = c.env.vars[pop.var].type
  BY <1>6, <1>7, <1>8 DEF Extends, Keeps
<1>10. Denotes(final.vars[pop.var], ins, iop)
  BY <1>6, <1>9, DenotesStays
<1> QED
  BY <1>10 DEF final, pop, iop

\* What a template slot that has accepted has stored.
LEMMA TemplateOperand ==
  ASSUME NEW N, NEW x, Good(N, x), NEW pop, SlotOK(x, pop), pop.type = "memexpr",
         NEW ins, Decoded(ins), NEW tmpl, NEW i, NEW j \in 1..2,
         isMatchInstOperand(x, pop, tmpl, i, ins, j).ok
  PROVE  LET e == isMatchInstOperand(x, pop, tmpl, i, ins, j).env
             stored == e.opvars[pop.var] IN
         /\ ins.ops[j].type \in MemTypes
         /\ pop.var \in DOMAIN e.opvars
         /\ stored.base \notin VarNames /\ stored.dispvar \notin VarNames
         /\ AtAddress(stored, ins, ins.ops[j])
         /\ pop.szvar # None => pop.szvar \in DOMAIN e.vars /\ e.vars[pop.szvar].size = ins.ops[j].size
         /\ pop.szvar = None => stored.size \in {None, ins.ops[j].size}
<1> DEFINE iop == ins.ops[j]
           o == isMatchInstOperand(x, pop, tmpl, i, ins, j)
           z == CheckSize(x, pop.szvar, iop.size)
           k == CheckOperand(z.env, pop, tmpl, i, ins, j)
<1>1. iop.size \notin VarNames /\ iop.index \notin VarNames /\ ins.base \notin VarNames
  BY DEF Decoded
<1>2. pop.szvar \in VarNames \cup {None}
  BY DEF SlotOK
<1>3. o.ok /\ o = IF pop.bits # None /\ iop.size # pop.bits THEN Verdict(FALSE, x)
                  ELSE IF z.ok THEN k ELSE z
  BY DEF isMatchInstOperand, Then
<1>4. z.ok /\ o = k
  <2> HIDE DEF o, z, k, iop
  <2> QED
    BY <1>3 DEF Verdict
<1>5. k.ok
  BY <1>3, <1>4
<1> HIDE DEF iop, o
<1>6. /\ Extends(N, x, z.env)
      /\ pop.szvar # None => pop.szvar \in DOMAIN z.env.vars /\ z.env.vars[pop.szvar].size = iop.size
  BY <1>1, <1>2, <1>4, CheckSizeExtends
<1> HIDE DEF z
<1>7. Good(N, z.env) /\ SlotOK(z.env, pop)
  BY <1>6, SlotStaysOK DEF Extends
<1>8. /\ MetTemplate(z.env, pop, ins, iop)
      /\ k.env = saveMemoryExprVar(z.env, pop, ins, iop)
  BY <1>5, <1>7, TemplateAccepts DEF iop
<1> HIDE DEF k
<1> DEFINE stored == k.env.opvars[pop.var]
           t == z.env.opvars[pop.var]
<1>9. /\ Extends(N, z.env, k.env)
      /\ stored.base \notin VarNames /\ stored.dispvar \notin VarNames
      /\ AtAddress(stored, ins, iop)
      /\ stored.size = IF pop.szvar # None THEN z.env.vars[pop.szvar].size ELSE t.size
  <2> DEFINE y == z.env
             e == saveMemoryExprVar(y, pop, ins, iop)
  <2>1. /\ Good(N, y) /\ ins.base \notin VarNames /\ iop.index \notin VarNames
        /\ MetTemplate(y, pop, ins, iop)
        /\ pop.szvar # None => pop.szvar \in DOMAIN y.vars
    BY <1>1, <1>6, <1>7, <1>8
  <2> HIDE DEF y
  <2>2. Extends(N, y, e)
    BY <2>1, SaveIs
  <2>3. e.opvars[pop.var].base \notin VarNames /\ e.opvars[pop.var].dispvar \notin VarNames
    BY <2>1, SaveIs
  <2>4. AtAddress(e.opvars[pop.var], ins, iop)
    BY <2>1, SaveIs
  <2>5. e.opvars[pop.var].size = IF pop.szvar # None THEN y.vars[pop.szvar].size
                                 ELSE y.opvars[pop.var].size
    <3>1. CASE pop.szvar # None
      BY <2>1, <3>1, SaveIs
    <3>2. CASE pop.szvar = None
      BY <2>1, <3>2, SaveIs
    <3> QED
      BY <3>1, <3>2
  <2>6. k.env = e
    BY <1>8 DEF y
  <2> HIDE DEF e
  <2> QED
    BY <2>2, <2>3, <2>4, <2>5, <2>6 DEF y
<1>10. pop.var \in DOMAIN z.env.opvars
  BY <1>8 DEF MetTemplate
<1> HIDE DEF stored, t
<1>11. pop.var \in DOMAIN k.env.opvars
  BY <1>9, <1>10 DEF Extends, Keeps
<1>12. pop.szvar # None => pop.szvar \in DOMAIN k.env.vars /\ k.env.vars[pop.szvar].size = iop.size
  BY <1>6, <1>9 DEF Extends, Keeps, SameOperand
<1>13. ASSUME pop.szvar = None PROVE stored.size \in {None, iop.size}
  <2>1. Resolved(z.env, t, pop).size = t.size
    BY <1>7, <1>10, <1>13, ResolvedIs DEF Good, t
  <2>2. MemSame(Resolved(z.env, t, pop), ins, iop)
    BY <1>8 DEF MetTemplate, t
  <2>3. t.size \in {None, iop.size}
    BY <2>1, <2>2 DEF MemSame
  <2> QED
    BY <1>9, <1>13, <2>3
<1>14. iop.type \in MemTypes
  BY <1>8 DEF MetTemplate
<1> QED
  BY <1>4, <1>9, <1>11, <1>12, <1>13, <1>14 DEF iop, o, stored

\* The sizes among what an accepted template slot has stored.
LEMMA TemplateSizes ==
  ASSUME NEW N, NEW x, Good(N, x), NEW pop, SlotOK(x, pop), pop.type = "memexpr",
         NEW ins, Decoded(ins), NEW tmpl, NEW i, NEW j \in 1..2,
         NEW o, o = isMatchInstOperand(x, pop, tmpl, i, ins, j), o.ok
  PROVE  /\ pop.szvar # None => pop.szvar \in DOMAIN o.env.vars
         /\ pop.szvar # None => o.env.vars[pop.szvar].size = ins.ops[j].size
         /\ pop.szvar = None => o.env.opvars[pop.var].size \in {None, ins.ops[j].size}
<1> DEFINE r == isMatchInstOperand(x, pop, tmpl, i, ins, j)
           iop == ins.ops[j]
<1>1. r.ok
  OBVIOUS
<1>2. pop.szvar # None => pop.szvar \in DOMAIN r.env.vars
  BY <1>1, TemplateOperand, Zenon
<1>3. pop.szvar # None => r.env.vars[pop.szvar].size = iop.size
  BY ONLY Good(N, x), SlotOK(x, pop), pop.type = "memexpr", Decoded(ins), j \in 1..2, <1>1,
     TemplateOperand
<1>4. pop.szvar = None => r.env.opvars[pop.var].size \in {None, iop.size}
  BY <1>1, TemplateOperand, Zenon
<1>5. r = o
  OBVIOUS
<1> HIDE DEF r
<1> QED
  BY <1>2, <1>3, <1>4, <1>5

LEMMA TemplateInst ==
  ASSUME NEW N, NEW en, Good(N, en), NEW line, Len(line.bodies) = 1,
         BodyOK(en, line.bodies[1]), NEW ins, Decoded(ins), NEW esp, NEW efl,
         isMatchInst(en, line, ins, esp, efl).ok, NEW i \in 1..2,
         Plain(line.bodies[1].ops[i]), line.bodies[1].ops[i].type = "memexpr",
         ~line.bodies[1].ops[i].inall,
         line.bodies[1].ops[i].var \notin Later(line.bodies[1], i)
  PROVE  LET pop == line.bodies[1].ops[i]
             final == isMatchInst(en, line, ins, esp, efl).env IN
         Denotes(Resolved(final, final.opvars[pop.var], pop), ins, ins.ops[i])
<1> DEFINE body == line.bodies[1]
           pop == body.ops[i]
           iop == ins.ops[i]
           final == isMatchInst(en, line, ins, esp, efl).env
<1>1. PICK e : Passes(N, e, body, i, ins, final)
  BY SlotPasses
<1>2. /\ i \in SpokenOf(body, i, ins) /\ pop.type # None /\ ~pop.not
  BY DEF SpokenOf, None, Plain
<1> HIDE DEF final
<1>3. PICK x : /\ Good(N, x) /\ BodyOK(x, body)
               /\ Against(x, body, i, ins, i).ok
               /\ Extends(N, Against(x, body, i, ins, i).env, final)
               /\ TemplatesKept(Later(body, i), Against(x, body, i, ins, i).env, final)
  BY <1>1, <1>2, OperandPasses
<1> DEFINE o == isMatchInstOperand(x, pop, body.tmpl, i, ins, i)
           stored == final.opvars[pop.var]
           op == Resolved(final, stored, pop)
<1>4. Against(x, body, i, ins, i) = o
  BY <1>2 DEF Against, Negated
<1>5. SlotOK(x, pop)
  BY <1>3 DEF BodyOK
<1>6. /\ iop.type \in MemTypes /\ pop.var \in DOMAIN o.env.opvars
      /\ o.env.opvars[pop.var].base \notin VarNames
      /\ o.env.opvars[pop.var].dispvar \notin VarNames
      /\ AtAddress(o.env.opvars[pop.var], ins, iop)
      /\ pop.szvar # None => pop.szvar \in DOMAIN o.env.vars /\ o.env.vars[pop.szvar].size = iop.size
      /\ pop.szvar = None => o.env.opvars[pop.var].size \in {None, iop.size}
  <2>1. Good(N, x) /\ SlotOK(x, pop) /\ pop.type = "memexpr" /\ o.ok
    BY <1>3, <1>4, <1>5
  <2> DEFINE s == o.env.opvars[pop.var]
  <2> HIDE DEF pop, body
  <2>2. iop.type \in MemTypes /\ pop.var \in DOMAIN o.env.opvars
    BY <2>1, TemplateOperand
  <2>3. s.base \notin VarNames /\ s.dispvar \notin VarNames
    BY <2>1, TemplateOperand
  <2>4. AtAddress(s, ins, iop)
    BY <2>1, TemplateOperand
  <2>5. i \in 1..2 /\ Decoded(ins) /\ o = isMatchInstOperand(x, pop, body.tmpl, i, ins, i)
    OBVIOUS
  <2>6. iop = ins.ops[i] /\ s = o.env.opvars[pop.var]
    BY DEF s
  <2> HIDE DEF o, iop
  <2>7. pop.szvar # None => pop.szvar \in DOMAIN o.env.vars
    BY ONLY <2>1, <2>5, TemplateSizes
  <2>8. pop.szvar # None => o.env.vars[pop.szvar].size = iop.size
    BY ONLY <2>1, <2>5, <2>6, TemplateSizes
  <2>9. pop.szvar = None => s.size \in {None, iop.size}
    BY ONLY <2>1, <2>5, <2>6, TemplateSizes
  <2> QED
    BY <2>2, <2>3, <2>4, <2>7, <2>8, <2>9 DEF s
<1>7. /\ pop.var \notin Later(body, i) /\ Extends(N, o.env, final)
      /\ TemplatesKept(Later(body, i), o.env, final)
  BY <1>3, <1>4
<1> HIDE DEF o, pop, iop, body
<1>8. pop.var \in DOMAIN final.opvars /\ stored = o.env.opvars[pop.var]
  BY <1>6, <1>7 DEF TemplatesKept
<1>9. DOMAIN final.vars \subseteq VarNames /\ Template(N, stored)
  BY <1>7, <1>8 DEF Extends, Good
<1> HIDE DEF stored
<1>10. /\ op.type = stored.type /\ op.scale = stored.scale /\ op.index = stored.index
       /\ op.base = stored.base /\ op.imm = stored.imm
       /\ op.size = IF pop.szvar # None /\ pop.szvar \in DOMAIN final.vars
                    THEN final.vars[pop.szvar].size ELSE stored.size
  <2>1. stored.base \notin DOMAIN final.vars /\ stored.dispvar \notin DOMAIN final.vars
    BY <1>6, <1>8, <1>9
  <2> QED
    BY <1>9, <2>1, ResolvedIs
<1> HIDE DEF op
<1>11. op.size \in {None, iop.size}
  <2>1. CASE pop.szvar # None
    <3>1. pop.szvar \in DOMAIN final.vars /\ final.vars[pop.szvar].size = iop.size
      BY <1>6, <1>7, <2>1 DEF Extends, Keeps, SameOperand
    <3> QED
      BY <1>10, <2>1, <3>1
  <2>2. CASE pop.szvar = None
    BY <1>6, <1>8, <1>10, <2>2
  <2> QED
    BY <2>1, <2>2
<1>12. Denotes(op, ins, iop)
  <2>1. AtAddress(stored, ins, iop) /\ iop.type \in MemTypes
    BY <1>6, <1>8
  <2>2. CASE iop.type = "mem"
    BY <1>10, <1>11, <2>1, <2>2 DEF Denotes, AtAddress
  <2>3. CASE iop.type = "smem"
    BY <1>10, <1>11, <2>1, <2>3 DEF Denotes, AtAddress
  <2>4. CASE iop.type = "disp"
    BY <1>10, <2>1, <2>4 DEF Denotes, AtAddress
  <2> QED
    BY <2>1, <2>2, <2>3, <2>4 DEF MemTypes
<1> QED
  BY <1>12 DEF final, stored, pop, iop, op, body

LEMMA DenotesStep ==
  ASSUME PlainTemplates, OwnOperands, MatchInv, AcceptedDenotes, [Next]_vars
  PROVE  AcceptedDenotes'
<1>1. CASE Next
  <2> SUFFICES ASSUME NEW i \in 1..2, Accepted(i)', Plain(Slot(i))'
               PROVE  (/\ Slot(i).type \in {"any", "reg", "imm", "mem"} /\ met.ins.ops[i].type # None
                            => Denotes(env.vars[Slot(i).var], met.ins, met.ins.ops[i])
                       /\ Slot(i).type = "memexpr"
                            => Denotes(Resolved(env, env.opvars[Slot(i).var], Slot(i)),
                                       met.ins, met.ins.ops[i]))'
    BY DEF AcceptedDenotes
  <2> DEFINE line == met'.line
             ins == met'.ins
             body == line.bodies[1]
             pop == body.ops[i]
             N == TemplateNames(script)
  <2>1. met'.ok /\ Len(line.bodies) = 1
    BY DEF Accepted
  <2>2. PICK esp, efl : LET v == isMatchInst(env, line, ins, esp, efl) IN v.ok /\ env' = v.env
    BY <1>1, <2>1, AcceptedCall
  <2>3. BodyOK(env, body) /\ Decoded(ins) /\ Good(N, env) /\ line \in script.lines
    BY <1>1, <2>1, AcceptedCall
  <2>4. script \in Scripts /\ 1 \in 1..Len(line.bodies)
    BY <2>1 DEF MatchInv
  <2>5. Compiled(script, body)
    BY <2>3, <2>4, MatchingAssumption
  <2>6. Plain(pop)
    BY DEF Plain, Slot
  <2>7. ASSUME pop.type \in {"any", "reg", "imm", "mem"}, ins.ops[i].type # None
        PROVE  Denotes(env'.vars[pop.var], ins, ins.ops[i])
    <3>1. pop.type \in {"any", "mem"} => pop.var \notin N
      BY <2>5 DEF Compiled, TemplateNames
    <3> QED
      BY <2>1, <2>2, <2>3, <2>6, <2>7, <3>1, VariableInst
  <2>8. ASSUME pop.type = "memexpr"
        PROVE  Denotes(Resolved(env', env'.opvars[pop.var], pop), ins, ins.ops[i])
    <3>1. ~pop.inall
      BY <2>3, <2>4, <2>8 DEF OwnOperands
    <3>2. pop.var \notin Later(body, i)
      BY <2>5, <2>8 DEF Compiled, Later, Saved
    <3> QED
      BY <2>1, <2>2, <2>3, <2>6, <2>8, <3>1, <3>2, TemplateInst
  <2> QED
    BY <2>7, <2>8 DEF Slot
<1>2. CASE UNCHANGED vars
  BY <1>2 DEF vars, AcceptedDenotes, Accepted, Plain, Slot
<1> QED
  BY <1>1, <1>2

\* What a plain variable or template stands for after a match is the operand it met, field
\* by field, whether this match bound it or an earlier one did, and whatever the other
\* slot and the mnemonic of the line have bound since (checkAndSaveVar, saveMemoryExprVar).
THEOREM MatchedIsMeant == ASSUME PlainTemplates, OwnOperands PROVE Spec => []AcceptedDenotes
<1>1. Init => AcceptedDenotes
  BY DEF Init, AcceptedDenotes, Accepted, NoCall
<1>2. MatchInv /\ AcceptedDenotes /\ [Next]_vars => AcceptedDenotes'
  BY DenotesStep
<1> QED
  BY <1>1, <1>2, MatchInvAlways, PTL DEF Spec
=============================================================================
