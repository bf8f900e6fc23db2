------------------------------- MODULE IATCalls -------------------------------
(***************************************************************************)
(* Calls through a destroyed import table (xVMIATCallFrame).  A protector   *)
(* has led the calls of an image to stubs of its own.  The frame finds what *)
(* looks like a call, emulates it until it enters a library, and writes a   *)
(* call of the function that was reached: directly (test mode) or through   *)
(* the cell of an import table (real mode).                                 *)
(*                                                                         *)
(* The image is bytes: instruction op, with its operand to, and the number  *)
(* k of the byte in it.  Operands are absolute.  A machine word is 1 on     *)
(* the stack and 4 bytes in the code.  A stub is made of one byte           *)
(* instructions, which are named for what they do.  Only the first byte of  *)
(* a call looks like one.  Half an instruction cannot be executed.          *)
(***************************************************************************)
EXTENDS Integers, Sequences, FiniteSets
LOCAL INSTANCE SequencesExt

CONSTANTS
  Images,             \* the images the program may be; a field bounds the commands given
  Apis,               \* functions of the library, numbers from 1
  Bases,              \* where the library may be loaded
  maxIATTraceLines,   \* option
  bIATTraceCheckCtx   \* option

ASSUME IATCallsAssumption ==
  /\ Apis \subseteq Nat \ {0}
  /\ Bases \subseteq Nat
  /\ maxIATTraceLines \in Nat
  /\ bIATTraceCheckCtx \in BOOLEAN

VARIABLES
  img,          \* the image: code, stubs, cells, blocks, regions, selections, maxCommands
  base,         \* where the library is loaded
  code,         \* the bytes of the image
  cell,         \* its pointers
  harmed,       \* history: a repair was made that was not offered in good faith
  meant,        \* history: what the calls of the image do before any repair
  m_calls,      \* the rows of the frame, by cmdaddr
  IATRVA,       \* m_mods: the cell of a function, 0 if none is known
  m_mmaddrEnd,  \* where the user says that the program's own data ends
  file,         \* what has been saved
  given         \* bound: commands given

memory == <<img, base, code, cell, harmed, meant>>
vars == <<memory, m_calls, IATRVA, m_mmaddrEnd, file, given>>

-----------------------------------------------------------------------------
(* Memory.                                                                 *)

Size(op) ==
  CASE op \in {"E8", "E9"} -> 5
    [] op \in {"FF15", "FF25", "68C3", "mov"} -> 6
    [] OTHER -> 1
Byte(op, to, k) == [op |-> op, to |-> to, k |-> k]
Bytes(op, to) == [k \in 1..Size(op) |-> Byte(op, to, k)]
Nops(n) == [k \in 1..n |-> Byte("nop", 0, 1)]

\* A library has one entry per function; what follows is its body.
LibSize == 100
Entry(api) == base + 10 * api
InLib(a) == a \in base..(base + LibSize - 1)
getExport(a) ==
  IF \E f \in Apis : a = Entry(f) THEN CHOOSE f \in Apis : a = Entry(f) ELSE 0

Readable(a) ==
  InLib(a) \/ a \in DOMAIN code \cup DOMAIN cell \cup DOMAIN img.stubs
Word(a) == IF a \in DOMAIN cell THEN cell[a] ELSE 0

\* The whole of an instruction is at a.
Whole(a) ==
  /\ a \in DOMAIN code
  /\ code[a].k = 1
  /\ \A k \in 1..Size(code[a].op) :
        /\ a + k - 1 \in DOMAIN code
        /\ code[a + k - 1] = [code[a] EXCEPT !.k = k]

WriteMemory(a, bytes) ==
  [b \in DOMAIN code |->
     IF b - a + 1 \in DOMAIN bytes THEN bytes[b - a + 1] ELSE code[b]]

-----------------------------------------------------------------------------
(* The emulating CPU: step() in the mode vmexec_dob_iatrace.  The stack     *)
(* begins empty, over zeros; low counts the words taken from there.         *)

Start(ip) == [ip |-> ip, st |-> <<>>, low |-> 0, did |-> {}, end |-> "no"]
TopOf(m) == IF m.st = <<>> THEN 0 ELSE Head(m.st)
Drop(m) == IF m.st = <<>> THEN [m EXCEPT !.low = @ + 1] ELSE [m EXCEPT !.st = Tail(@)]
Push(m, w) == [m EXCEPT !.st = <<w>> \o @]
Goto(m, a) == [m EXCEPT !.ip = a]

Fetch(a) ==
  CASE Whole(a) -> code[a]
    [] a \in DOMAIN img.stubs -> img.stubs[a]
    [] OTHER -> Byte("fault", 0, 1)

Step(m) ==
  LET ins  == Fetch(m.ip)
      next == m.ip + Size(ins.op)
      done == CASE ins.op = "E8"      -> Goto(Push(m, next), ins.to)
                [] ins.op = "FF15"    -> Goto(Push(m, next), Word(ins.to))
                [] ins.op \in {"E9", "68C3"} -> Goto(m, ins.to)
                [] ins.op \in {"FF25", "mov"} -> Goto(m, Word(ins.to))
                [] ins.op = "push"    -> Goto(Push(m, 1), next)
                [] ins.op = "adjust"  -> Goto(Push(Drop(m), TopOf(m) + 1), next)
                [] ins.op = "under"   -> Goto(Push(Drop(Drop(m)), TopOf(m)), next)
                [] ins.op = "drop"    -> Goto(Drop(m), next)
                [] ins.op = "spoil"   -> Goto([m EXCEPT !.did = @ \cup {"ecx"}], next)
                [] ins.op = "stolen"  -> Goto([m EXCEPT !.did = @ \cup {"api"}], next)
                [] ins.op = "leave"   -> Goto(m, Entry(ins.to))
                [] ins.op = "inside"  -> Goto(m, Entry(ins.to) + 1)
                [] ins.op = "loop"    -> m
                [] ins.op = "fault"   -> [m EXCEPT !.end = "fault"]
                [] OTHER              -> Goto(m, next)
  IN  IF done.end = "no" /\ InLib(done.ip)
      THEN [done EXCEPT !.end = "finished"] ELSE done

\* The loop of traceIAT: the one state after each of its lines.
Line(m) ==
  CASE m.end # "no"          -> m
    [] m.low - Len(m.st) > 2 -> [m EXCEPT !.end = "dropped"]
    [] OTHER                 -> Step(m)
Trace(ip, lines) ==
  LET after[n \in 0..lines] ==
        IF n = 0 THEN {Start(ip)} ELSE {Line(m) : m \in after[n - 1]}
  IN  CHOOSE m \in after[lines] : TRUE

isValidIATCall(m) == bIATTraceCheckCtx => "ecx" \notin m.did
\* How far the byte op moves the stack.
checkESPSpace(op, words) == words = IF op = "push" THEN 1 ELSE 0

-----------------------------------------------------------------------------
(* A row.                                                                  *)

Keep == {"markinvaild"}     \* IATCALL_FLAG_KEEPMARK_MASK
Row(type, callto) ==
  [calltype |-> type, callto |-> callto, szop |-> 0, ophead |-> "other",
   opsuffix |-> "other", memoft |-> 0, retaddr |-> 0, hasHead |-> FALSE,
   rtflags |-> {}, func |-> 0, result_addr |-> 0, fixedState |-> "none"]

Named(row, api) ==
  [row EXCEPT !.func = api, !.rtflags = (@ \cap Keep) \cup {"tracedout"}]
\* Mutant: the function whose body holds the address.
hitIATCallModule_Body(row) ==
  LET api == (row.result_addr - base) \div 10
  IN  IF row.result_addr # 0 /\ api \in Apis THEN Named(row, api) ELSE row

hitIATCallModule(row) ==
  LET api == getExport(row.result_addr)
  IN  CASE row.result_addr = 0 -> row
        [] api # 0 -> Named(row, api)
        [] OTHER   -> [row EXCEPT !.func = 0, !.rtflags = {"suspect"}]

Near(a, ret, n) == ret - a \in 0..n
Accept(row, m, head, flags) ==
  [row EXCEPT !.retaddr = TopOf(m), !.result_addr = m.ip, !.hasHead = head,
              !.rtflags = (@ \cap Keep) \cup flags]
WithHead(row) ==
  IF row.result_addr # 0 /\ row.ophead = "nop"
  THEN [row EXCEPT !.hasHead = TRUE] ELSE row

\* What the types but iatcall_call make of a trace that has ended in a library.
Judge(row, a, m) ==
  LET vi    == Len(m.st) - m.low
      blank == [row EXCEPT !.hasHead = FALSE, !.retaddr = 0]
      back  == TopOf(m) = 0 \/ Near(a, TopOf(m), 6)
  IN CASE row.calltype = "callmem" ->
            IF vi = 1 /\ TopOf(m) = a + 6 THEN Accept(blank, m, FALSE, {}) ELSE blank
       [] row.calltype = "jmp" ->
            WithHead(CASE vi = 0 /\ back -> Accept(blank, m, FALSE, {})
                       [] vi < 0 /\ back /\ checkESPSpace(row.ophead, -vi) ->
                            Accept(blank, m, TRUE, {"suspect"})
                       [] OTHER -> blank)
       [] OTHER ->
            IF vi = 0 /\ back THEN Accept(blank, m, FALSE, {}) ELSE blank

\* What the end of the trace leaves in the row, before it is judged.
Valid(m) == m.end = "finished" /\ isValidIATCall(m)
Ended(row, m) ==
  [row EXCEPT !.rtflags = (@ \cap Keep) \cup
     CASE m.end = "no"    -> {"reachlimit"}
       [] m.end = "fault" -> {"tracefaild"}
       [] OTHER           -> {"reachlimit", "tracefaild"}]

\* Mutant: the call that does not return is not marked.
AsJmp_Trusted(row, a, m) ==
  LET jmp == hitIATCallModule(Judge(Ended([row EXCEPT !.calltype = "jmp"], m), a, m))
  IN  IF jmp.result_addr # 0 THEN [jmp EXCEPT !.calltype = "call"] ELSE row

\* A call that does not return is traced once more as a jmp.
AsJmp(row, a, m) ==
  LET jmp == hitIATCallModule(Judge(Ended([row EXCEPT !.calltype = "jmp"], m), a, m))
  IN  IF jmp.result_addr # 0 THEN [jmp EXCEPT !.rtflags = @ \cup {"suspect"}] ELSE row
JudgeCall(row, a, m) ==
  LET vi    == Len(m.st) - m.low
      blank == [row EXCEPT !.hasHead = FALSE, !.retaddr = 0]
      near  == Near(a, TopOf(m), 8)
      seen  == CASE vi = 1 /\ near -> Accept(blank, m, FALSE, {})
                 [] vi <= 0 /\ checkESPSpace(row.ophead, 1 - vi) ->
                      IF near THEN Accept(blank, m, TRUE, {}) ELSE blank
                 [] vi <= 0 -> AsJmp(blank, a, m)
                 [] OTHER -> blank
  IN  WithHead(seen)

Outcome(row, a, m) ==
  CASE ~Valid(m)             -> Ended(row, m)
    [] row.calltype = "call" -> JudgeCall(Ended(row, m), a, m)
    [] OTHER                 -> Judge(Ended(row, m), a, m)

\* For a pointer, what it points to is traced, unless that is a function.
traceIAT(row, a) ==
  LET pointer == Word(row.callto)
      first   == IF row.calltype = "memaddr" THEN pointer ELSE a
  IN CASE row.calltype = "memaddr" /\ ~Readable(row.callto) ->
            [row EXCEPT !.rtflags = @ \cup {"tracefaild"}]
       [] row.calltype = "memaddr" /\ getExport(pointer) # 0 ->
            hitIATCallModule([row EXCEPT !.retaddr = a + row.szop,
                                         !.result_addr = pointer])
       [] OTHER ->
            hitIATCallModule(Outcome(row, a, Trace(first, maxIATTraceLines)))

-----------------------------------------------------------------------------
(* Finding calls in block b, from its first address lo to the last, hi.     *)

TypeOfOp(op) ==
  CASE op = "E8" -> "call" [] op = "E9" -> "jmp" [] op = "FF15" -> "callmem"
    [] op = "FF25" -> "jmpmem" [] op = "68C3" -> "pushret" [] OTHER -> "none"

\* The byte at a, as far as it matters alone.
ByteAt(a) == IF code[a].k = 1 /\ Size(code[a].op) = 1 THEN code[a].op ELSE "other"
\* At the beginning of a block nop is taken for both of its neighbours.
FoundRow(b, a) ==
  LET type  == TypeOfOp(code[a].op)
      sides == type \in {"call", "jmp"}
      side(c) == IF ~sides THEN "other" ELSE IF a = b.lo THEN "nop" ELSE ByteAt(c)
  IN [Row(type, code[a].to) EXCEPT !.szop = Size(code[a].op),
                                   !.ophead = side(a - 1), !.opsuffix = side(a + 5)]

\* The pointer leads out of what the user takes for the program.
LeadsOut(c) ==
  LET band == IF m_mmaddrEnd \in img.lo..(img.hi - 1) THEN m_mmaddrEnd ELSE img.hi
  IN  cell[c] \notin img.lo..(band - 1) /\ Readable(cell[c])

\* The last pass, over all rows, also over those of earlier searches.
Target(row) ==
  IF row.calltype \in {"callmem", "jmpmem"} THEN Word(row.callto) ELSE row.callto
Kept(row) == Readable(row.callto) /\ Readable(Target(row))

searchCallsInMemory(b, old) ==
  LET oft == b.lo..(b.hi - 5)
      inside == {a \in oft : Whole(a)}
      calls  == {a \in inside : TypeOfOp(code[a].op) # "none"}
      movs   == {a \in inside \ (calls \cup DOMAIN old) :
                   code[a].op = "mov" /\ a + 2 \in oft /\ LeadsOut(code[a].to)}
      row(a) == CASE a \in calls -> FoundRow(b, a)
                  [] a \in movs  ->
                       [Row("memaddr", code[a].to) EXCEPT !.szop = 6, !.memoft = 2]
                  [] OTHER       -> old[a]
      kept   == {a \in calls \cup movs \cup DOMAIN old : Kept(row(a))}
  IN [a \in kept |-> [row(a) EXCEPT !.callto = Target(row(a))]]

-----------------------------------------------------------------------------
(* What the places of the image do, now.                                   *)

\* Who comes back to the nops that end a call comes behind it.
Past(w) ==
  IF \E p \in img.regions :
       w \in (p + 1)..(p + 5) /\ \A u \in w..(p + 5) : ByteAt(u) = "nop"
  THEN CHOOSE v \in w..(w + 5) : v - 6 \in img.regions
  ELSE w
Meaning(ip) ==
  LET m == Trace(ip, 2 * maxIATTraceLines)
  IN  [api |-> IF InLib(m.ip) THEN getExport(m.ip) ELSE 0, low |-> m.low, did |-> m.did,
       st |-> [i \in DOMAIN m.st |-> Past(m.st[i])]]
Meanings == [p \in img.regions \cup DOMAIN cell |->
               Meaning(IF p \in DOMAIN cell THEN cell[p] ELSE p)]
Place(a) ==
  IF a \in DOMAIN cell THEN a ELSE CHOOSE p \in img.regions : a \in p..(p + 5)

-----------------------------------------------------------------------------
(* The commands.                                                           *)

Init ==
  /\ img \in Images
  /\ base = CHOOSE b \in Bases : \A c \in Bases : b <= c
  /\ code = img.code
  /\ cell = [c \in DOMAIN img.cells |-> img.cells[c][base]]
  /\ harmed = FALSE
  /\ meant = Meanings
  /\ m_calls = <<>>
  /\ IATRVA = [f \in Apis |-> 0]
  /\ m_mmaddrEnd = 0
  /\ file = [rows |-> <<>>, rva |-> <<>>]
  /\ given = 0

Command == given < img.maxCommands /\ given' = given + 1

FindCalls(b, beMerge) ==
  /\ Command
  /\ m_calls' = searchCallsInMemory(b, IF beMerge THEN m_calls ELSE <<>>)
  /\ UNCHANGED <<memory, IATRVA, m_mmaddrEnd, file>>

SetEndOfImage(end) ==
  /\ Command
  /\ m_mmaddrEnd' = end
  /\ UNCHANGED <<memory, m_calls, IATRVA, file>>

\* The user selects some of the pointers in a dump.
AddArray(cells) ==
  /\ Command
  /\ LET new == {c \in cells \ DOMAIN m_calls : Readable(cell[c])}
     IN  m_calls' = [a \in DOMAIN m_calls \cup new |->
                       IF a \in new THEN Row("memaddr", a) ELSE m_calls[a]]
  /\ UNCHANGED <<memory, IATRVA, m_mmaddrEnd, file>>

TraceSelected(rows) ==
  /\ Command
  /\ m_calls' = [a \in DOMAIN m_calls |->
                   IF a \in rows THEN traceIAT(m_calls[a], a) ELSE m_calls[a]]
  /\ UNCHANGED <<memory, IATRVA, m_mmaddrEnd, file>>

\* A call of a place that is a call itself is no call of the library.
Refined(rows, a) ==
  LET row   == rows[a]
      named == row.callto + 1 \in DOMAIN rows
                /\ rows[row.callto + 1].calltype \in {"call", "jmp"}
                /\ rows[row.callto + 1].hasHead
      at    == IF row.callto \in DOMAIN rows THEN row.callto ELSE row.callto + 1
      leads == row.callto \in DOMAIN rows \/ named
  IN  IF row.calltype = "call" /\ leads /\ "tracedout" \in rows[at].rtflags
      THEN [row EXCEPT !.rtflags = {"tracedout", "markinvaild", "suspect"}]
      ELSE row

\* In the order of the table, so that a mark may lead to the next.
refineResults(rows, shown) ==
  FoldLeft(LAMBDA acc, a : [acc EXCEPT ![a] = Refined(acc, a)], rows,
           SetToSortSeq(shown, <))

Refine(shown) ==
  /\ Command
  /\ m_calls' = refineResults(m_calls, shown)
  /\ UNCHANGED <<memory, IATRVA, m_mmaddrEnd, file>>

TraceAll(shown) ==
  /\ Command
  /\ m_calls' = refineResults([a \in DOMAIN m_calls |->
                   IF a \in shown THEN traceIAT(m_calls[a], a) ELSE m_calls[a]], shown)
  /\ UNCHANGED <<memory, IATRVA, m_mmaddrEnd, file>>

\* All but the last pointer of the selection (VMDebug_SetIAT).
SetIATArea(cells, onlyFix) ==
  LET area == {c \in cells : \E d \in cells : c < d}
      traced == [c \in area |-> traceIAT(Row("memaddr", c), c)]
      hits == {c \in area : Readable(cell[c]) /\ traced[c].result_addr # 0}
      of(f) == {c \in hits : traced[c].func = f}
  IN /\ Command
     /\ IF onlyFix
        THEN /\ cell' = [c \in DOMAIN cell |->
                           IF c \in hits THEN traced[c].result_addr ELSE cell[c]]
             /\ UNCHANGED IATRVA
        ELSE /\ IATRVA' = [f \in Apis |->
                   IF of(f) = {} THEN IATRVA[f]
                   ELSE CHOOSE c \in of(f) : \A d \in of(f) : d <= c]
             /\ UNCHANGED cell
     /\ harmed' = (harmed \/ (onlyFix /\ \E c \in hits : traced[c].func = 0))
     /\ UNCHANGED <<img, meant, base, code, m_calls, m_mmaddrEnd, file>>

-----------------------------------------------------------------------------
(* Repairing one call.                                                     *)

Returns(row) == row.calltype \in {"call", "callmem"}
\* Mutant: whatever the trace has said of the byte in front.
FixAddr_Always(row, a) == IF row.calltype \in {"call", "jmp"} THEN a - 1 ELSE a
FixAddr(row, a) == IF row.calltype \in {"call", "jmp"} /\ row.hasHead THEN a - 1 ELSE a
RegionOf(row, a) == row.retaddr - FixAddr(row, a)
Room(row, a) ==
  \/ ~Returns(row)
  \/ RegionOf(row, a) = 6
  \/ row.calltype = "call" /\ RegionOf(row, a) = 5 /\ row.opsuffix = "nop"
Fixable(row, a, direct) ==
  /\ Room(row, a)
  /\ IF direct THEN row.result_addr # 0 /\ (Returns(row) => row.retaddr # 0)
     ELSE row.func # 0 /\ IATRVA[row.func] # 0

\* A row that the table shows as known.
Known(row) ==
  "tracedout" \in row.rtflags /\ row.rtflags \cap {"suspect", "markinvaild"} = {}

\* A fix that the table offers in good faith: the row is known and of this run
\* of the program, the byte in front belongs to the call.  An entry of an
\* array is repaired in test mode only, and a call of five bytes not in test mode
\* after real mode.
Sound(a, direct) ==
  LET row == m_calls[a]
  IN  /\ Known(row)
      /\ row.hasHead /\ row.calltype \in {"call", "jmp"} =>
            Place(a) \in (a - 5)..(a - 1)
      /\ IF direct
         THEN /\ getExport(row.result_addr) = row.func
              /\ Returns(row) /\ RegionOf(row, a) = 5 =>
                    code[FixAddr(row, a)].op # "FF15"
         ELSE row.memoft > 0 \/ row.calltype # "memaddr"

Patch(row, a, direct) ==
  IF direct
  THEN IF Returns(row) THEN Bytes("E8", row.result_addr) \o Nops(RegionOf(row, a) - 5)
       ELSE Bytes("E9", row.result_addr)
  ELSE Bytes(IF Returns(row) THEN "FF15" ELSE "FF25", IATRVA[row.func])

\* Of a memaddr the pointer is changed, or the operand that leads to it.
FixPointer(row, a, direct) ==
  CASE direct -> /\ cell' = [cell EXCEPT ![row.callto] = row.result_addr]
                 /\ UNCHANGED code
    [] ~direct /\ row.memoft = 0 -> /\ cell' = [cell EXCEPT ![a] = IATRVA[row.func]]
                                    /\ UNCHANGED code
    [] OTHER -> /\ code' = WriteMemory(a, Bytes(code[a].op, IATRVA[row.func]))
                /\ UNCHANGED cell

fixIATCall(a, direct) ==
  LET row == m_calls[a]
      fixable == Fixable(row, a, direct)
      state == IF ~fixable THEN "faild" ELSE IF direct THEN "testmode" ELSE "realmode"
  IN /\ Command
     /\ m_calls' = [m_calls EXCEPT ![a].fixedState = state]
     /\ CASE ~fixable -> UNCHANGED <<code, cell>>
          [] fixable /\ row.calltype = "memaddr" -> FixPointer(row, a, direct)
          [] OTHER -> /\ code' = WriteMemory(FixAddr(row, a), Patch(row, a, direct))
                      /\ UNCHANGED cell
     /\ harmed' = (harmed \/ (fixable /\ ~Sound(a, direct)))
     /\ UNCHANGED <<img, meant, base, IATRVA, m_mmaddrEnd, file>>

-----------------------------------------------------------------------------
(* Records, and another run of the program.                                *)

saveRecords ==
  /\ Command
  /\ m_calls' = [a \in DOMAIN m_calls |-> hitIATCallModule(m_calls[a])]
  /\ file' = [rows |-> m_calls', rva |-> IATRVA]
  /\ UNCHANGED <<memory, IATRVA, m_mmaddrEnd>>

\* Mutant: one field of a row is not in the file.
loadRecords_HeadLost ==
  /\ Command
  /\ file.rva # <<>>
  /\ m_calls' = [a \in DOMAIN file.rows |->
                   [file.rows[a] EXCEPT !.result_addr = 0, !.fixedState = "none",
                                        !.hasHead = FALSE]]
  /\ IATRVA' = file.rva
  /\ UNCHANGED <<memory, m_mmaddrEnd, file>>

\* What was reached is not saved, only its name.
loadRecords ==
  /\ Command
  /\ file.rva # <<>>
  /\ m_calls' = [a \in DOMAIN file.rows |->
                   [file.rows[a] EXCEPT !.result_addr = 0, !.fixedState = "none"]]
  /\ IATRVA' = file.rva
  /\ UNCHANGED <<memory, m_mmaddrEnd, file>>

\* The program is loaded again (ODBG2_Pluginreset); the frame keeps its rows.
Restart(b) ==
  /\ Command
  /\ base' = b
  /\ code' = img.code
  /\ cell' = [c \in DOMAIN img.cells |-> img.cells[c][b]]
  /\ m_mmaddrEnd' = 0
  /\ UNCHANGED <<img, meant, harmed, m_calls, IATRVA, file>>

\* With the filter for what is known on or off.
Shown == {DOMAIN m_calls, {a \in DOMAIN m_calls : ~Known(m_calls[a])}}

Next ==
  \/ \E b \in img.blocks, beMerge \in BOOLEAN : FindCalls(b, beMerge)
  \/ \E end \in img.ends : SetEndOfImage(end)
  \/ \E cells \in img.selections : AddArray(cells)
  \/ \E a \in DOMAIN m_calls : TraceSelected({a})
  \/ \E shown \in Shown : Refine(shown)
  \/ \E shown \in Shown : TraceAll(shown)
  \/ \E cells \in img.selections, onlyFix \in BOOLEAN : SetIATArea(cells, onlyFix)
  \/ \E a \in DOMAIN m_calls, direct \in BOOLEAN : fixIATCall(a, direct)
  \/ saveRecords
  \/ loadRecords
  \/ \E b \in Bases : Restart(b)

Spec == Init /\ [][Next]_vars

-----------------------------------------------------------------------------
(* Properties.                                                             *)

\* However calls are found, traced and repaired, in this run of the program or with the
\* records of an earlier one: every call of the image keeps the function it had, the
\* stack it had, and the place it returns to (fixIATCall).
MeaningKept == ~harmed => Meanings = meant

\* A repair writes over nothing but the six bytes of one call.
NeighboursKept ==
  [][~harmed' /\ code' # img.code =>
       \E p \in img.regions :
         \A b \in DOMAIN code \ (p..(p + 5)) : code'[b] = code[b]]_vars

\* What a row is shown to call is what the image calls there, once more than
\* it returns or as often.
KnownIsTrue ==
  ~harmed => \A a \in DOMAIN m_calls :
    Known(m_calls[a]) =>
      LET m == Meanings[Place(a)]
      IN  m.api = m_calls[a].func /\ m.did = {} /\ m.low = 0
          /\ Len(m.st) = IF Returns(m_calls[a]) THEN 1 ELSE 0

\* The cell remembered for a function leads to it.
AreaIsTrue ==
  ~harmed => \A f \in Apis : IATRVA[f] # 0 => Meanings[IATRVA[f]].api = f
===============================================================================
