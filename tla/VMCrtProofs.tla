----------------------------- MODULE VMCrtProofs -----------------------------
(***************************************************************************)
(* The sample virtual machine does what the block does, for every block of *)
(* known instructions, all constants and registers, and wherever section   *)
(* and machine are put.                                                    *)
(***************************************************************************)
EXTENDS VMCrt, TLAPS

Instrs == szCode \div 5

\* What the encoder makes of the j-th instruction.
Translated(mem, j) ==
  /\ code[5 * j] \in {5, 184}
  /\ mem[6 * j] = IF code[5 * j] = 184 THEN op_mov ELSE op_add
  /\ mem[6 * j + 1] = RAX
  /\ ReadLong(mem, 6 * j + 2) = ReadLong(code, 5 * j + 1)

\* The instructions before lpCode are translated, and nothing runs yet.
EncodeInv ==
  /\ code \in [Offsets -> Byte]
  /\ DOMAIN opbuf = 0 .. szOpbuf - 1
  /\ phase \in {"encode", "failed", "packed"}
  /\ phase # "packed" =>
       /\ loc = "program"
       /\ \E n \in 0 .. Instrs :
            /\ lpCode = 5 * n /\ oppos = 6 * n
            /\ \A j \in 0 .. n - 1 : Translated(opbuf, j)

\* The section holds the translation of the whole block and the exit, the
\* machine is given its address, and the jump leads to the machine.
ImageInv ==
  phase = "packed" =>
    /\ \A j \in 0 .. Instrs - 1 : Translated(image.section, j)
    /\ image.section[6 * Instrs] = op_exit
    /\ ReadLong(image.section, 6 * Instrs + 1) = LongOf(ExitAddress)
    /\ image.opcode = ImageBase + secrva
    /\ image.crt \in Nat
    /\ image.jmp = vmcrtentry - CodeRva + image.crt + secrva - BlockRva - 5

\* The processor is where the program or the machine put it, with the saved
\* registers on the stack and lpop at the start of an opcode.
CpuInv ==
  /\ loc \in {"program", "block", "entry", "loop", "leave"}
  /\ loc # "program" => phase = "packed" /\ DOMAIN stack = Slots
  /\ loc \in {"block", "entry"} =>
       regs = [r \in RegIds |-> regs[r]] /\ regs[RSP] \in 12 .. szStack
  /\ loc \in {"loop", "leave"} => x86ctx \in 2 .. szStack - 10
  /\ loc = "loop" =>
       /\ vregs = [r \in RegIds |-> vregs[r]]
       /\ \E j \in 0 .. Instrs : lpop = ImageBase + secrva + 6 * j
  /\ loc = "leave" => stack[x86ctx + retaddrField] = LongOf(ExitAddress)

Inv == EncodeInv /\ ImageInv /\ CpuInv

-----------------------------------------------------------------------------
\* A long holds a number of any size in its four bytes.
LEMMA LongHoldsNumber == ASSUME NEW n \in Nat PROVE Number(LongOf(n)) = n
<1> DEFINE n2 == n \div 256
           n3 == n2 \div 256
<1>1. n2 \in Nat /\ n = 256 * n2 + (n % 256) /\ n % 256 \in Nat
  BY SMT
<1>2. n3 \in Nat /\ n2 = 256 * n3 + (n2 % 256) /\ n2 % 256 \in Nat
  BY <1>1, SMT
<1>3. n3 = 256 * (n3 \div 256) + (n3 % 256) /\ n3 % 256 \in Nat /\ n3 \div 256 \in Nat
  BY <1>2, SMT
<1>4. LongOf(n) = <<n % 256, n2 % 256, n3 % 256, n3 \div 256>>
  BY DEF LongOf
<1> HIDE DEF n2, n3
<1> QED
  BY <1>1, <1>2, <1>3, <1>4, SMT DEF Number

\* The numbers of the program are numbers; no more is needed of them.
LEMMA Numbers ==
  /\ ImageBase \in Nat /\ BlockRva \in Nat /\ CodeRva \in Nat
  BY SMT DEF ImageBase, BlockRva, CodeRva

\* The instructions fill the block.
LEMMA WholeInstructions ==
  /\ Instrs \in Nat
  /\ szCode = 5 * Instrs
  /\ szOpbuf \in Nat /\ 6 * Instrs + 5 =< szOpbuf
<1>1. \A n \in Nat : n % 5 = 0 => n \div 5 \in Nat /\ n = 5 * (n \div 5)
  BY SMT
<1> QED
  BY <1>1, SampleAssumption, SMT DEF Instrs

\* What Write puts where, for the two lengths the encoder writes.
LEMMA WriteSix ==
  ASSUME NEW mem, NEW n \in Nat, DOMAIN mem = 0 .. n - 1, NEW p \in Nat, p + 6 =< n,
         NEW b1, NEW b2, NEW b3, NEW b4, NEW b5, NEW b6,
         NEW new, new = Write(mem, p, <<b1, b2, b3, b4, b5, b6>>)
  PROVE  /\ DOMAIN new = 0 .. n - 1
         /\ new[p] = b1 /\ new[p + 1] = b2
         /\ ReadLong(new, p + 2) = <<b3, b4, b5, b6>>
         /\ \A a \in 0 .. p - 1 : new[a] = mem[a]
<1> DEFINE bytes == <<b1, b2, b3, b4, b5, b6>>
<1>1. Len(bytes) = 6 /\ bytes[1] = b1 /\ bytes[2] = b2 /\ bytes[3] = b3
        /\ bytes[4] = b4 /\ bytes[5] = b5 /\ bytes[6] = b6
  OBVIOUS
<1>0. new = Write(mem, p, bytes)
  OBVIOUS
<1> HIDE DEF bytes
<1>2. new = [a \in 0 .. n - 1 |-> IF a \in p .. p + 5 THEN bytes[a - p + 1] ELSE mem[a]]
  <2>1. p + Len(bytes) - 1 = p + 5
    BY <1>1
  <2> QED
    BY <1>0, <2>1 DEF Write
<1>3. \A a \in 0 .. 5 : p + a \in 0 .. n - 1 /\ new[p + a] = bytes[a + 1]
  <2> SUFFICES ASSUME NEW a \in 0 .. 5
               PROVE  p + a \in 0 .. n - 1 /\ new[p + a] = bytes[a + 1]
    OBVIOUS
  <2>1. p + a \in 0 .. n - 1 /\ p + a \in p .. p + 5 /\ (p + a) - p + 1 = a + 1
    OBVIOUS
  <2>2. new[p + a] = bytes[(p + a) - p + 1]
    BY <1>2, <2>1, Zenon
  <2> QED
    BY <2>1, <2>2, Zenon
<1>4. DOMAIN new = 0 .. n - 1 /\ \A a \in 0 .. p - 1 : new[a] = mem[a]
  <2>1. \A a \in 0 .. p - 1 : a \in 0 .. n - 1 /\ a \notin p .. p + 5
    OBVIOUS
  <2> QED
    BY <1>2, <2>1, Zenon
<1>5. /\ new[p] = b1 /\ new[p + 1] = b2 /\ new[p + 2] = b3 /\ new[(p + 2) + 1] = b4
      /\ new[(p + 2) + 2] = b5 /\ new[(p + 2) + 3] = b6
  BY <1>1, <1>3
<1> QED
  BY <1>4, <1>5 DEF ReadLong

LEMMA WriteFive ==
  ASSUME NEW mem, NEW n \in Nat, DOMAIN mem = 0 .. n - 1, NEW p \in Nat, p + 5 =< n,
         NEW b1, NEW b2, NEW b3, NEW b4, NEW b5,
         NEW new, new = Write(mem, p, <<b1, b2, b3, b4, b5>>)
  PROVE  /\ DOMAIN new = 0 .. n - 1
         /\ new[p] = b1
         /\ ReadLong(new, p + 1) = <<b2, b3, b4, b5>>
         /\ \A a \in 0 .. p - 1 : new[a] = mem[a]
<1> DEFINE bytes == <<b1, b2, b3, b4, b5>>
<1>1. Len(bytes) = 5 /\ bytes[1] = b1 /\ bytes[2] = b2 /\ bytes[3] = b3
        /\ bytes[4] = b4 /\ bytes[5] = b5
  OBVIOUS
<1>0. new = Write(mem, p, bytes)
  OBVIOUS
<1> HIDE DEF bytes
<1>2. new = [a \in 0 .. n - 1 |-> IF a \in p .. p + 4 THEN bytes[a - p + 1] ELSE mem[a]]
  <2>1. p + Len(bytes) - 1 = p + 4
    BY <1>1
  <2> QED
    BY <1>0, <2>1 DEF Write
<1>3. \A a \in 0 .. 4 : p + a \in 0 .. n - 1 /\ new[p + a] = bytes[a + 1]
  <2> SUFFICES ASSUME NEW a \in 0 .. 4
               PROVE  p + a \in 0 .. n - 1 /\ new[p + a] = bytes[a + 1]
    OBVIOUS
  <2>1. p + a \in 0 .. n - 1 /\ p + a \in p .. p + 4 /\ (p + a) - p + 1 = a + 1
    OBVIOUS
  <2>2. new[p + a] = bytes[(p + a) - p + 1]
    BY <1>2, <2>1, Zenon
  <2> QED
    BY <2>1, <2>2, Zenon
<1>4. DOMAIN new = 0 .. n - 1 /\ \A a \in 0 .. p - 1 : new[a] = mem[a]
  <2>1. \A a \in 0 .. p - 1 : a \in 0 .. n - 1 /\ a \notin p .. p + 4
    OBVIOUS
  <2> QED
    BY <1>2, <2>1, Zenon
<1>5. /\ new[p] = b1 /\ new[p + 1] = b2 /\ new[(p + 1) + 1] = b3
      /\ new[(p + 1) + 2] = b4 /\ new[(p + 1) + 3] = b5
  BY <1>1, <1>3
<1> QED
  BY <1>4, <1>5 DEF ReadLong

\* A translation depends on its six bytes only.
LEMMA TranslatedKept ==
  ASSUME NEW mem, NEW new, NEW n \in Nat, NEW j \in 0 .. n - 1, Translated(mem, j),
         \A a \in 0 .. 6 * n - 1 : new[a] = mem[a]
  PROVE  Translated(new, j)
<1>1. /\ new[6 * j] = mem[6 * j] /\ new[6 * j + 1] = mem[6 * j + 1]
      /\ new[6 * j + 2] = mem[6 * j + 2] /\ new[(6 * j + 2) + 1] = mem[(6 * j + 2) + 1]
      /\ new[(6 * j + 2) + 2] = mem[(6 * j + 2) + 2]
      /\ new[(6 * j + 2) + 3] = mem[(6 * j + 2) + 3]
  OBVIOUS
<1> QED
  BY <1>1 DEF Translated, ReadLong

-----------------------------------------------------------------------------
LEMMA InitInv == ASSUME Init PROVE Inv
<1>1. EncodeInv
  <2>1. 0 \in 0 .. Instrs /\ lpCode = 5 * 0 /\ oppos = 6 * 0
    BY WholeInstructions DEF Init
  <2>2. \A j \in 0 .. 0 - 1 : Translated(opbuf, j)
    OBVIOUS
  <2>3. code \in [Offsets -> Byte]
    BY SampleAssumption DEF Init
  <2> QED
    BY <2>1, <2>2, <2>3 DEF Init, EncodeInv
<1>2. ImageInv /\ CpuInv
  BY DEF Init, ImageInv, CpuInv
<1> QED
  BY <1>1, <1>2 DEF Inv

\* One turn of the encoder.
LEMMA EncodeKeeps == ASSUME Inv, encodeOpcode PROVE Inv'
<1>1. PICK n \in 0 .. Instrs :
        /\ lpCode = 5 * n /\ oppos = 6 * n
        /\ \A j \in 0 .. n - 1 : Translated(opbuf, j)
  BY DEF Inv, EncodeInv, encodeOpcode
<1>2. n \in Nat /\ n < Instrs /\ n + 1 \in 0 .. Instrs /\ 6 * n + 6 =< szOpbuf
      /\ szOpbuf \in Nat /\ Instrs \in Nat
  BY <1>1, WholeInstructions DEF encodeOpcode
<1>3. DOMAIN opbuf = 0 .. szOpbuf - 1 /\ code' = code
  BY DEF Inv, EncodeInv, encodeOpcode
<1>4. ASSUME NEW op, Emit(op), code[lpCode] \in {5, 184},
             op = IF code[lpCode] = 184 THEN op_mov ELSE op_add
      PROVE  /\ DOMAIN opbuf' = 0 .. szOpbuf - 1
             /\ lpCode' = 5 * (n + 1) /\ oppos' = 6 * (n + 1)
             /\ \A j \in 0 .. n : Translated(opbuf, j)'
  <2> DEFINE imm == ReadLong(code, 5 * n + 1)
  <2>1. opbuf' = Write(opbuf, 6 * n, <<op, RAX, imm[1], imm[2], imm[3], imm[4]>>)
    BY <1>1, <1>4 DEF Emit
  <2>2. imm = <<imm[1], imm[2], imm[3], imm[4]>>
    BY DEF ReadLong
  <2>3. /\ DOMAIN opbuf' = 0 .. szOpbuf - 1
        /\ opbuf'[6 * n] = op /\ opbuf'[6 * n + 1] = RAX
        /\ ReadLong(opbuf', 6 * n + 2) = <<imm[1], imm[2], imm[3], imm[4]>>
        /\ \A a \in 0 .. 6 * n - 1 : opbuf'[a] = opbuf[a]
    <3> DEFINE p == 6 * n
    <3>1. p \in Nat /\ szOpbuf \in Nat /\ p + 6 =< szOpbuf
      BY <1>2
    <3>2. opbuf' = Write(opbuf, p, <<op, RAX, imm[1], imm[2], imm[3], imm[4]>>)
      BY <2>1
    <3> HIDE DEF imm, p
    <3>3. /\ DOMAIN opbuf' = 0 .. szOpbuf - 1
          /\ opbuf'[p] = op /\ opbuf'[p + 1] = RAX
          /\ ReadLong(opbuf', p + 2) = <<imm[1], imm[2], imm[3], imm[4]>>
          /\ \A a \in 0 .. p - 1 : opbuf'[a] = opbuf[a]
      BY <3>1, <3>2, <1>3, WriteSix, SMTT(30)
    <3> QED
      BY <3>3 DEF p
  <2>4. Translated(opbuf', n)
    BY <2>2, <2>3, <1>1, <1>4 DEF Translated
  <2>5. \A j \in 0 .. n - 1 : Translated(opbuf', j)
    BY <1>1, <1>2, <2>3, TranslatedKept
  <2>6. \A j \in 0 .. n : Translated(opbuf', j)
    BY <1>2, <2>4, <2>5
  <2>7. \A j \in 0 .. n : Translated(opbuf, j)'
    BY <2>6, <1>3 DEF Translated
  <2>8. lpCode' = 5 * (n + 1) /\ oppos' = 6 * (n + 1)
    BY <1>1, <1>2, <1>4 DEF Emit
  <2> QED
    BY <2>3, <2>7, <2>8
<1>5. EncodeInv'
  <2>1. CASE code[lpCode] \notin {184, 5}
    <3>1. UNCHANGED <<phase, code, opbuf, lpCode, oppos, loc>>
      BY <2>1 DEF encodeOpcode, cpu
    <3>2. \A j \in 0 .. n - 1 : Translated(opbuf, j)'
      BY <3>1, <1>1 DEF Translated
    <3> QED
      BY <1>1, <3>1, <3>2 DEF Inv, EncodeInv
  <2>2. CASE code[lpCode] \in {184, 5}
    <3>1. /\ DOMAIN opbuf' = 0 .. szOpbuf - 1
          /\ lpCode' = 5 * (n + 1) /\ oppos' = 6 * (n + 1)
          /\ \A j \in 0 .. n : Translated(opbuf, j)'
      BY <1>4, <2>2 DEF encodeOpcode
    <3>2. \A j \in 0 .. (n + 1) - 1 : Translated(opbuf, j)'
      BY <3>1, <1>2
    <3>3. UNCHANGED <<phase, code, loc>>
      BY DEF encodeOpcode, cpu
    <3> QED
      BY <1>2, <3>1, <3>2, <3>3 DEF Inv, EncodeInv
  <2> QED
    BY <2>1, <2>2
<1>6. ImageInv' /\ CpuInv'
  BY DEF Inv, ImageInv, CpuInv, encodeOpcode, cpu, machine
<1> QED
  BY <1>5, <1>6 DEF Inv

\* The exit opcode and the new program.
LEMMA PackKeeps == ASSUME Inv, _tmain PROVE Inv'
<1> DEFINE oplen == oppos + 5
           exit == LongOf(ExitAddress)
           place == vmcrtentry - CodeRva + oplen + secrva
<1>1. /\ lpCode = szCode /\ oppos = 6 * Instrs
      /\ \A j \in 0 .. Instrs - 1 : Translated(opbuf, j)
  <2>1. PICK n \in 0 .. Instrs :
          /\ lpCode = 5 * n /\ oppos = 6 * n
          /\ \A j \in 0 .. n - 1 : Translated(opbuf, j)
    BY DEF Inv, EncodeInv, _tmain
  <2>2. n = Instrs /\ lpCode = szCode
    BY <2>1, WholeInstructions DEF _tmain
  <2> QED
    BY <2>1, <2>2
<1>2. /\ opbuf' = Write(opbuf, oppos, <<op_exit, exit[1], exit[2], exit[3], exit[4]>>)
      /\ image' = [section |-> [a \in 0 .. oplen - 1 |-> opbuf'[a]], crt |-> oplen,
                   opcode |-> secrva + ImageBase, jmp |-> place - BlockRva - 5]
      /\ phase' = "packed" /\ code' = code /\ loc' = loc /\ loc = "program"
  BY DEF _tmain, cpu, Inv, EncodeInv
<1>3. exit = <<exit[1], exit[2], exit[3], exit[4]>>
  BY DEF LongOf
<1>4. /\ DOMAIN opbuf' = 0 .. szOpbuf - 1
      /\ opbuf'[6 * Instrs] = op_exit
      /\ ReadLong(opbuf', 6 * Instrs + 1) = exit
      /\ \A a \in 0 .. 6 * Instrs - 1 : opbuf'[a] = opbuf[a]
  <2> HIDE DEF exit
  <2>1. /\ 6 * Instrs \in Nat /\ szOpbuf \in Nat /\ 6 * Instrs + 5 =< szOpbuf
        /\ DOMAIN opbuf = 0 .. szOpbuf - 1
    BY WholeInstructions DEF Inv, EncodeInv
  <2>2. opbuf' = Write(opbuf, 6 * Instrs, <<op_exit, exit[1], exit[2], exit[3], exit[4]>>)
    BY <1>1, <1>2
  <2>3. /\ DOMAIN opbuf' = 0 .. szOpbuf - 1
        /\ opbuf'[6 * Instrs] = op_exit
        /\ ReadLong(opbuf', 6 * Instrs + 1) = <<exit[1], exit[2], exit[3], exit[4]>>
        /\ \A a \in 0 .. 6 * Instrs - 1 : opbuf'[a] = opbuf[a]
    BY <2>1, <2>2, WriteFive
  <2> QED
    BY <1>3, <2>3
<1>5. \A a \in 0 .. 6 * Instrs + 4 : image'.section[a] = opbuf'[a]
  BY <1>1, <1>2
<1>6. \A j \in 0 .. Instrs - 1 : Translated(image'.section, j)
  <2>1. \A a \in 0 .. 6 * Instrs - 1 : image'.section[a] = opbuf[a]
    BY <1>4, <1>5, WholeInstructions
  <2> QED
    BY <1>1, <2>1, TranslatedKept, WholeInstructions
<1>7. /\ image'.section[6 * Instrs] = op_exit
      /\ ReadLong(image'.section, 6 * Instrs + 1) = LongOf(ExitAddress)
  <2> HIDE DEF exit
  <2>1. /\ image'.section[6 * Instrs] = opbuf'[6 * Instrs]
        /\ image'.section[6 * Instrs + 1] = opbuf'[6 * Instrs + 1]
        /\ image'.section[(6 * Instrs + 1) + 1] = opbuf'[(6 * Instrs + 1) + 1]
        /\ image'.section[(6 * Instrs + 1) + 2] = opbuf'[(6 * Instrs + 1) + 2]
        /\ image'.section[(6 * Instrs + 1) + 3] = opbuf'[(6 * Instrs + 1) + 3]
    BY <1>5, WholeInstructions
  <2>2. ReadLong(image'.section, 6 * Instrs + 1) = ReadLong(opbuf', 6 * Instrs + 1)
    BY <2>1 DEF ReadLong
  <2> QED
    BY <1>4, <2>1, <2>2 DEF exit
<1>8. /\ image'.opcode = ImageBase + secrva /\ image'.crt \in Nat
      /\ image'.jmp = vmcrtentry - CodeRva + image'.crt + secrva - BlockRva - 5
  <2>1. image'.crt = oplen /\ image'.opcode = secrva + ImageBase
        /\ image'.jmp = place - BlockRva - 5
    BY <1>2
  <2>2. oplen \in Nat /\ vmcrtentry \in Nat /\ secrva \in Nat
        /\ ImageBase \in Nat /\ BlockRva \in Nat /\ CodeRva \in Nat
    BY <1>1, Numbers, WholeInstructions, SampleAssumption
  <2>3. place = vmcrtentry - CodeRva + oplen + secrva
    OBVIOUS
  <2> HIDE DEF oplen, place
  <2> QED
    BY <2>1, <2>2, <2>3
<1>9. ImageInv'
  <2>1. \A j \in 0 .. Instrs - 1 : Translated(image.section, j)'
    <3>1. code' = code
      BY <1>2
    <3> QED
      BY <1>6, <3>1, Zenon DEF Translated
  <2> QED
    BY <1>7, <1>8, <2>1 DEF ImageInv
<1>10. EncodeInv'
  BY <1>2, <1>4 DEF Inv, EncodeInv
<1>11. CpuInv'
  BY <1>2 DEF Inv, CpuInv
<1> QED
  BY <1>9, <1>10, <1>11 DEF Inv

\* From now on the packer's part stays.
LEMMA PackedStays ==
  ASSUME Inv, UNCHANGED <<packer, code>>, loc # "program" \/ phase = "packed"
  PROVE  EncodeInv' /\ ImageInv'
<1>1. phase = "packed"
  BY DEF Inv, CpuInv
<1>2. UNCHANGED <<phase, code, opbuf, image>>
  BY DEF packer
<1>3. ImageInv'
  <2>1. \A j \in 0 .. Instrs - 1 : Translated(image.section, j)'
    BY <1>1, <1>2 DEF Inv, ImageInv, Translated
  <2> QED
    BY <1>1, <1>2, <2>1 DEF Inv, ImageInv
<1> QED
  BY <1>1, <1>2, <1>3 DEF Inv, EncodeInv

\* The steps of the processor: the invariant holds after each, and each is a
\* step of the original program or none.
Simulates == Native!Next \/ UNCHANGED Native!vars

LEMMA FailKeeps == ASSUME Inv, _tmain_Fails PROVE Inv' /\ Simulates
<1>1. /\ UNCHANGED <<code, opbuf, oppos, lpCode, image, loc, regs, stack, x86ctx, vregs, lpop>>
      /\ phase = "encode" /\ phase' = "failed" /\ loc = "program"
  BY DEF _tmain_Fails, cpu, machine, Inv, EncodeInv
<1>2. EncodeInv'
  <2>1. PICK n \in 0 .. Instrs :
          /\ lpCode = 5 * n /\ oppos = 6 * n
          /\ \A j \in 0 .. n - 1 : Translated(opbuf, j)
    BY <1>1 DEF Inv, EncodeInv
  <2>2. \A j \in 0 .. n - 1 : Translated(opbuf, j)'
    BY <1>1, <2>1 DEF Translated
  <2> QED
    BY <1>1, <2>1, <2>2 DEF Inv, EncodeInv
<1>3. ImageInv' /\ CpuInv'
  BY <1>1 DEF Inv, ImageInv, CpuInv
<1>4. UNCHANGED Native!vars
  BY <1>1 DEF Native!vars, NativeIp, NativeRegs, NativeStack
<1> QED
  BY <1>2, <1>3, <1>4 DEF Inv, Simulates

LEMMA ReachKeeps == ASSUME Inv, Reach PROVE Inv' /\ Simulates
<1>1. /\ phase = "packed" /\ loc = "program" /\ loc' = "block"
      /\ UNCHANGED <<packer, code>>
  BY DEF Reach
<1>2. /\ DOMAIN stack' = Slots /\ regs' = [r \in RegIds |-> regs'[r]]
      /\ regs'[RSP] \in 12 .. szStack
  BY SampleAssumption DEF Reach
<1>3. EncodeInv' /\ ImageInv'
  BY <1>1, PackedStays
<1>4. CpuInv'
  BY <1>1, <1>2 DEF CpuInv, packer
<1>5. Native!Enter
  BY <1>1 DEF Native!Enter, NativeIp
<1> QED
  BY <1>3, <1>4, <1>5 DEF Inv, Simulates, Native!Next

LEMMA JumpKeeps == ASSUME Inv, Jump PROVE Inv' /\ Simulates
<1>1. /\ loc = "block" /\ phase = "packed"
      /\ UNCHANGED <<packer, code, regs, stack, x86ctx, vregs, lpop>>
  BY DEF Jump, Inv, CpuInv, machine
<1>2. loc' = "entry"
  <2>1. /\ image.crt \in Nat
        /\ image.jmp = vmcrtentry - CodeRva + image.crt + secrva - BlockRva - 5
    BY <1>1 DEF Inv, ImageInv
  <2>2. ImageBase + BlockRva + 5 + image.jmp
          = ImageBase + secrva + image.crt + (vmcrtentry - CodeRva)
    BY <2>1, Numbers, SampleAssumption
  <2> QED
    BY <2>2 DEF Jump
<1>3. EncodeInv' /\ ImageInv'
  BY <1>1, PackedStays
<1>4. CpuInv'
  BY <1>1, <1>2 DEF Inv, CpuInv, packer
<1>5. UNCHANGED Native!vars
  BY <1>1, <1>2 DEF Native!vars, NativeIp, NativeRegs, NativeStack
<1> QED
  BY <1>3, <1>4, <1>5 DEF Inv, Simulates

\* The entry saves the registers in struct x86Ctx, and the machine starts with
\* them at the first opcode.
LEMMA EntryKeeps == ASSUME Inv, simVMEntry PROVE Inv' /\ Simulates
<1> DEFINE ctx == regs[RSP] - 10
<1>1. /\ loc = "entry" /\ loc' = "loop" /\ phase = "packed"
      /\ DOMAIN stack = Slots /\ regs = [r \in RegIds |-> regs[r]]
      /\ regs[RSP] \in Nat /\ regs[RSP] >= 12 /\ regs[RSP] =< szStack
      /\ UNCHANGED <<packer, code>>
      /\ image.opcode = ImageBase + secrva
      /\ szStack \in Nat /\ secrva \in Nat
  BY SampleAssumption DEF simVMEntry, Inv, CpuInv, ImageInv
<1>2. /\ x86ctx' = ctx /\ stack' = Pushed(ctx)
      /\ vregs' = [r \in RegIds |-> stack'[ctx + FieldOf(r)]]
      /\ lpop' = Number(stack'[ctx + retaddrField])
  BY DEF simVMEntry
<1>3. ctx \in 2 .. szStack - 10 /\ ctx + 10 = regs[RSP]
  BY <1>1
<1>4. DOMAIN stack' = Slots
  BY <1>1, <1>2 DEF Pushed
<1> HIDE DEF ctx
<1>5. lpop' = ImageBase + secrva + 6 * 0
  <2> DEFINE a == ctx + retaddrField
  <2>1. /\ a \in Slots /\ a # ctx + eflagsField /\ a \notin ctx .. ctx + 7
        /\ a # ctx - 1 /\ a # ctx - 2
    BY <1>1, <1>3 DEF retaddrField, eflagsField, Slots
  <2>4. a = ctx + retaddrField
    OBVIOUS
  <2> HIDE DEF a
  <2>2. stack'[a] = LongOf(image.opcode)
    BY <1>1, <1>2, <2>1, <2>4 DEF Pushed
  <2>3. ImageBase + secrva \in Nat
    BY <1>1, Numbers
  <2> QED
    BY <1>1, <1>2, <2>2, <2>3, <2>4, LongHoldsNumber
<1>6. \A r \in RegIds \ {RSP} : vregs'[r] = regs[r]
  <2> SUFFICES ASSUME NEW r \in RegIds, r # RSP PROVE vregs'[r] = regs[r]
    OBVIOUS
  <2> DEFINE a == ctx + FieldOf(r)
  <2>1. /\ a \in Slots /\ a \in ctx .. ctx + 7 /\ 7 - (a - ctx) = r
        /\ a # ctx + retaddrField /\ a # ctx + eflagsField /\ a # ctx + FieldOf(RSP)
        /\ a # ctx - 1 /\ a # ctx - 2
    <3>1. r \in 0 .. 7 /\ r # 4 /\ ctx \in 2 .. szStack - 10 /\ szStack \in Nat
      BY <1>1, <1>3 DEF RegIds, RSP
    <3>2. a = ctx + (7 - r) /\ FieldOf(RSP) = 3
      BY DEF FieldOf, RSP
    <3> HIDE DEF a
    <3> QED
      BY <3>1, <3>2, SMT DEF Slots, retaddrField, eflagsField
  <2>2. vregs'[r] = stack'[a]
    BY <1>2
  <2> HIDE DEF a
  <2>3. stack'[a] = regs[7 - (a - ctx)]
    BY <1>1, <1>2, <2>1, SMT DEF Pushed
  <2> QED
    BY <2>1, <2>2, <2>3
<1>7. \A a \in Slots : a >= ctx + 10 => stack'[a] = stack[a]
  <2> SUFFICES ASSUME NEW a \in Slots, a >= ctx + 10 PROVE stack'[a] = stack[a]
    OBVIOUS
  <2>1. /\ a # ctx + retaddrField /\ a # ctx + eflagsField
        /\ a \notin ctx .. ctx + 7 /\ a # ctx - 1 /\ a # ctx - 2
    BY <1>1, <1>3 DEF Slots, retaddrField, eflagsField
  <2> QED
    BY <1>1, <1>2, <2>1 DEF Pushed
<1>8. EncodeInv' /\ ImageInv'
  BY <1>1, PackedStays
<1>9. CpuInv'
  <2>1. vregs' = [r \in RegIds |-> vregs'[r]]
    BY <1>2
  <2>2. 0 \in 0 .. Instrs
    BY WholeInstructions
  <2> QED
    BY <1>1, <1>2, <1>3, <1>4, <1>5, <2>1, <2>2 DEF CpuInv, packer
<1>10. NativeIp = 0 /\ NativeIp' = 0
  <2>1. lpop' - (ImageBase + secrva) = 0
    BY <1>1, <1>5, Numbers
  <2>2. 0 \div 6 = 0
    BY SMT
  <2> QED
    BY <1>1, <2>1, <2>2 DEF NativeIp
<1>11. NativeRegs = regs /\ NativeRegs' = regs
  <2>1. NativeRegs' = [vregs' EXCEPT ![RSP] = ctx + 10]
    BY <1>1, <1>2 DEF NativeRegs
  <2>2. NativeRegs' = [r \in RegIds |-> IF r = RSP THEN ctx + 10 ELSE vregs'[r]]
    BY <1>2, <2>1
  <2>3. \A r \in RegIds : NativeRegs'[r] = regs[r]
    BY <1>3, <1>6, <2>2
  <2> QED
    BY <1>1, <2>2, <2>3 DEF NativeRegs
<1>12. NativeStack' = NativeStack
  BY <1>3, <1>1, <1>4, <1>7, <1>11 DEF NativeStack, Slots
<1>13. UNCHANGED Native!vars
  BY <1>1, <1>10, <1>11, <1>12 DEF Native!vars
<1> QED
  BY <1>8, <1>9, <1>13 DEF Inv, Simulates

\* A turn of the machine's loop: the machine reads what the encoder made of the
\* next instruction, puts the result v into its eax, and goes to the one behind.
LEMMA TurnKeeps ==
  ASSUME Inv, loc = "loop", NEW op \in {op_mov, op_add}, Fetch(lpop) = op, NEW v,
         vregs' = [vregs EXCEPT ![Regid] = v], lpop' = lpop + 6,
         UNCHANGED <<packer, code, loc, regs, eflags, stack, x86ctx, veflags>>
  PROVE  /\ Inv'
         /\ NativeIp \in 0 .. szCode - 1 /\ NativeIp' = NativeIp + 5
         /\ code[NativeIp] = IF op = op_mov THEN 184 ELSE 5
         /\ Regid = RAX
         /\ Imm = ReadLong(code, NativeIp + 1)
         /\ NativeRegs[RAX] = vregs[RAX]
         /\ NativeRegs' = [NativeRegs EXCEPT ![RAX] = v]
         /\ NativeStack' = NativeStack
<1> DEFINE base == ImageBase + secrva
<1>1. /\ phase = "packed" /\ x86ctx \in 2 .. szStack - 10
      /\ vregs = [r \in RegIds |-> vregs[r]] /\ DOMAIN stack = Slots
      /\ base \in Nat /\ Instrs \in Nat /\ szCode = 5 * Instrs
  BY SampleAssumption, Numbers, WholeInstructions DEF Inv, CpuInv
<1>2. PICK j \in 0 .. Instrs : lpop = base + 6 * j
  BY DEF Inv, CpuInv
<1>3. /\ lpop - base = 6 * j /\ (lpop + 1) - base = 6 * j + 1
      /\ (lpop + 2) - base = 6 * j + 2 /\ lpop' = base + 6 * (j + 1)
      /\ lpop' - base = 6 * (j + 1)
  <2> HIDE DEF base
  <2> QED
    BY <1>1, <1>2
<1>4. /\ Fetch(lpop) = image.section[6 * j] /\ Regid = image.section[6 * j + 1]
      /\ Imm = ReadLong(image.section, 6 * j + 2)
  BY <1>3 DEF Fetch, FetchLong, Regid, Imm
<1>5. j < Instrs
  <2>1. image.section[6 * Instrs] = op_exit
    BY <1>1 DEF Inv, ImageInv
  <2>2. j # Instrs
    BY <1>4, <2>1 DEF op_mov, op_add, op_exit
  <2> QED
    BY <1>1, <2>2
<1>6. Translated(image.section, j)
  BY <1>1, <1>5 DEF Inv, ImageInv
<1>7. NativeIp = 5 * j /\ NativeIp' = 5 * (j + 1)
  <2>1. \A n \in Nat : 5 * ((6 * n) \div 6) = 5 * n
    BY SMT
  <2>2. j \in Nat /\ j + 1 \in Nat
    BY <1>1
  <2>3. NativeIp = 5 * ((lpop - base) \div 6) /\ NativeIp' = 5 * ((lpop' - base) \div 6)
    BY DEF NativeIp
  <2> HIDE DEF base
  <2> QED
    BY <1>3, <2>1, <2>2, <2>3
<1>8. NativeIp \in 0 .. szCode - 1 /\ NativeIp' = NativeIp + 5
  BY <1>1, <1>5, <1>7
<1>9. /\ code[NativeIp] = IF op = op_mov THEN 184 ELSE 5
      /\ Regid = RAX
      /\ Imm = ReadLong(code, NativeIp + 1)
  BY <1>4, <1>6, <1>7 DEF Translated, op_mov, op_add
<1>10. /\ NativeRegs = [vregs EXCEPT ![RSP] = x86ctx + 10]
       /\ NativeRegs' = [vregs' EXCEPT ![RSP] = x86ctx + 10]
  BY DEF NativeRegs
<1>11. /\ NativeRegs[RAX] = vregs[RAX]
       /\ NativeRegs' = [NativeRegs EXCEPT ![RAX] = v]
  <2>1. vregs' = [vregs EXCEPT ![RAX] = v]
    BY <1>9
  <2> QED
    <3>1. /\ NativeRegs = [r \in RegIds |-> IF r = RSP THEN x86ctx + 10 ELSE vregs[r]]
          /\ NativeRegs' = [r \in RegIds |-> IF r = RSP THEN x86ctx + 10
                                             ELSE IF r = RAX THEN v ELSE vregs[r]]
      BY <1>1, <1>10, <2>1
    <3>2. RAX \in RegIds /\ RAX # RSP
      BY DEF RAX, RSP, RegIds
    <3> QED
      BY <3>1, <3>2
<1>12. NativeRegs'[RSP] = NativeRegs[RSP]
  BY <1>11 DEF RAX, RSP
<1>13. NativeStack' = NativeStack
  BY <1>12 DEF NativeStack
<1>14. EncodeInv' /\ ImageInv'
  BY PackedStays
<1>15. CpuInv'
  <2>1. j + 1 \in 0 .. Instrs
    BY <1>1, <1>5
  <2>2. vregs' = [r \in RegIds |-> vregs'[r]]
    BY <1>1, <1>9
  <2> QED
    BY <1>1, <1>3, <2>1, <2>2 DEF CpuInv, packer
<1> QED
  BY <1>8, <1>9, <1>11, <1>13, <1>14, <1>15 DEF Inv

\* Both sides read and add longs alike.
LEMMA SameLongs ==
  /\ \A mem, a : Native!ReadLong(mem, a) = ReadLong(mem, a)
  /\ \A x, y : Native!Plus(x, y) = Plus(x, y)
BY DEF Native!ReadLong, ReadLong, Native!Plus, Plus

LEMMA MovKeeps == ASSUME Inv, Op_mov PROVE Inv' /\ Simulates
<1>1. /\ loc = "loop" /\ Fetch(lpop) = op_mov /\ lpop' = lpop + 6
      /\ vregs' = [vregs EXCEPT ![Regid] = Imm]
      /\ UNCHANGED <<packer, code, loc, regs, eflags, stack, x86ctx, veflags>>
  BY DEF Op_mov, Operate
<1>2. /\ Inv'
      /\ NativeIp \in 0 .. szCode - 1 /\ NativeIp' = NativeIp + 5
      /\ code[NativeIp] = 184
      /\ Imm = ReadLong(code, NativeIp + 1)
      /\ NativeRegs' = [NativeRegs EXCEPT ![RAX] = Imm]
      /\ NativeStack' = NativeStack
  BY <1>1, TurnKeeps
<1>3. Native!Mov
  BY <1>1, <1>2, SameLongs DEF Native!Mov, Native!Execute, Native!mov
<1> QED
  BY <1>2, <1>3 DEF Simulates, Native!Next

LEMMA AddKeeps == ASSUME Inv, Op_add PROVE Inv' /\ Simulates
<1>1. /\ loc = "loop" /\ Fetch(lpop) = op_add /\ lpop' = lpop + 6
      /\ vregs' = [vregs EXCEPT ![Regid] =
                     Plus(vregs[Regid], Imm)]
      /\ UNCHANGED <<packer, code, loc, regs, eflags, stack, x86ctx, veflags>>
  BY DEF Op_add, Operate
<1>2. /\ Inv'
      /\ NativeIp \in 0 .. szCode - 1 /\ NativeIp' = NativeIp + 5
      /\ code[NativeIp] = 5
      /\ Regid = RAX
      /\ Imm = ReadLong(code, NativeIp + 1)
      /\ NativeRegs[RAX] = vregs[RAX]
      /\ NativeStack' = NativeStack
      /\ NativeRegs' = [NativeRegs EXCEPT ![RAX] =
                          Plus(vregs[Regid], Imm)]
  <2> DEFINE v == Plus(vregs[Regid], Imm)
  <2>1. vregs' = [vregs EXCEPT ![Regid] = v]
    BY <1>1
  <2>2. op_add \in {op_mov, op_add} /\ op_add # op_mov
    BY DEF op_mov, op_add
  <2> HIDE DEF v
  <2>3. /\ Inv'
        /\ NativeIp \in 0 .. szCode - 1 /\ NativeIp' = NativeIp + 5
        /\ code[NativeIp] = IF op_add = op_mov THEN 184 ELSE 5
        /\ Regid = RAX
        /\ Imm = ReadLong(code, NativeIp + 1)
        /\ NativeRegs[RAX] = vregs[RAX]
        /\ NativeStack' = NativeStack
        /\ NativeRegs' = [NativeRegs EXCEPT ![RAX] = v]
    BY <1>1, <2>1, <2>2, TurnKeeps
  <2> QED
    BY <2>2, <2>3 DEF v
<1>3. Native!Add
  BY <1>1, <1>2, SameLongs DEF Native!Add, Native!Execute, Native!add
<1> QED
  BY <1>2, <1>3 DEF Simulates, Native!Next

\* The exit opcode: the machine's registers go into the struct, and with them
\* the exit address.
LEMMA ExitKeeps == ASSUME Inv, Op_exit PROVE Inv' /\ Simulates
<1> DEFINE base == ImageBase + secrva
<1>1. /\ loc = "loop" /\ loc' = "leave" /\ Fetch(lpop) = op_exit /\ phase = "packed"
      /\ x86ctx \in 2 .. szStack - 10 /\ szStack \in Nat
      /\ vregs = [r \in RegIds |-> vregs[r]] /\ DOMAIN stack = Slots
      /\ base \in Nat /\ Instrs \in Nat /\ szCode = 5 * Instrs
      /\ UNCHANGED <<packer, code, regs, x86ctx, vregs, lpop>>
  BY SampleAssumption, Numbers, WholeInstructions
  DEF Inv, CpuInv, Op_exit, machine
<1>2. PICK j \in 0 .. Instrs : lpop = base + 6 * j
  BY <1>1 DEF Inv, CpuInv
<1>3. lpop - base = 6 * j /\ (lpop + 1) - base = 6 * j + 1
  <2> HIDE DEF base
  <2> QED
    BY <1>1, <1>2
<1>4. /\ Fetch(lpop) = image.section[6 * j]
      /\ FetchLong(lpop + 1) = ReadLong(image.section, 6 * j + 1)
  BY <1>3 DEF Fetch, FetchLong
<1>5. j = Instrs
  <2>1. \A i \in 0 .. Instrs - 1 : image.section[6 * i] # op_exit
    BY <1>1 DEF Inv, ImageInv, Translated, op_mov, op_add, op_exit
  <2> QED
    BY <1>1, <1>4, <2>1
<1>6. FetchLong(lpop + 1) = LongOf(ExitAddress)
  BY <1>1, <1>4, <1>5 DEF Inv, ImageInv
<1>7. stack' = [a \in Slots |->
                  CASE a = x86ctx + retaddrField -> LongOf(ExitAddress)
                    [] a = x86ctx + eflagsField -> veflags
                    [] a \in x86ctx .. x86ctx + 7 -> vregs[7 - (a - x86ctx)]
                    [] OTHER -> stack[a]]
  BY <1>1, <1>6 DEF Op_exit
<1>8. stack'[x86ctx + retaddrField] = LongOf(ExitAddress)
  <2> DEFINE a == x86ctx + retaddrField
  <2>1. a \in Slots /\ a # x86ctx + eflagsField /\ a \notin x86ctx .. x86ctx + 7
    BY <1>1 DEF retaddrField, eflagsField, Slots
  <2>2. a = x86ctx + retaddrField
    OBVIOUS
  <2> HIDE DEF a
  <2>3. stack'[a] = LongOf(ExitAddress)
    BY <1>7, <2>1, <2>2
  <2> QED
    BY <2>2, <2>3
<1>9. \A r \in RegIds : stack'[x86ctx + FieldOf(r)] = vregs[r]
  <2> SUFFICES ASSUME NEW r \in RegIds PROVE stack'[x86ctx + FieldOf(r)] = vregs[r]
    OBVIOUS
  <2> DEFINE a == x86ctx + FieldOf(r)
  <2>1. /\ a \in Slots /\ a \in x86ctx .. x86ctx + 7 /\ 7 - (a - x86ctx) = r
        /\ a # x86ctx + retaddrField /\ a # x86ctx + eflagsField
    <3>1. r \in 0 .. 7 /\ x86ctx \in 2 .. szStack - 10 /\ szStack \in Nat
      BY <1>1 DEF RegIds
    <3>2. a = x86ctx + (7 - r)
      BY DEF FieldOf
    <3> HIDE DEF a
    <3> QED
      BY <3>1, <3>2, SMT DEF Slots, retaddrField, eflagsField
  <2>2. a = x86ctx + FieldOf(r)
    OBVIOUS
  <2> HIDE DEF a
  <2>3. stack'[a] = vregs[7 - (a - x86ctx)]
    BY <1>7, <2>1
  <2> QED
    BY <2>1, <2>2, <2>3
<1>10. \A a \in Slots : a >= x86ctx + 10 => stack'[a] = stack[a]
  <2> SUFFICES ASSUME NEW a \in Slots, a >= x86ctx + 10 PROVE stack'[a] = stack[a]
    OBVIOUS
  <2>1. /\ a # x86ctx + retaddrField /\ a # x86ctx + eflagsField
        /\ a \notin x86ctx .. x86ctx + 7
    BY <1>1 DEF Slots, retaddrField, eflagsField
  <2> QED
    BY <1>7, <2>1
<1>11. NativeIp' = NativeIp
  <2>1. NativeIp = 5 * ((lpop - base) \div 6) /\ NativeIp' = szCode
    BY <1>1 DEF NativeIp
  <2>2. \A n \in Nat : 5 * ((6 * n) \div 6) = 5 * n
    BY SMT
  <2> HIDE DEF base
  <2> QED
    BY <1>1, <1>3, <1>5, <2>1, <2>2
<1>12. NativeRegs' = NativeRegs
  <2>1. NativeRegs = [vregs EXCEPT ![RSP] = x86ctx + 10]
    BY <1>1 DEF NativeRegs
  <2>2. NativeRegs' = [[r \in RegIds |-> stack'[x86ctx + FieldOf(r)]]
                         EXCEPT ![RSP] = x86ctx + 10]
    BY <1>1 DEF NativeRegs
  <2>3. [r \in RegIds |-> stack'[x86ctx + FieldOf(r)]] = vregs
    BY <1>1, <1>9
  <2> QED
    BY <2>1, <2>2, <2>3
<1>13. NativeStack' = NativeStack
  <2>1. NativeRegs[RSP] = x86ctx + 10
    <3>1. NativeRegs = [vregs EXCEPT ![RSP] = x86ctx + 10] /\ RSP \in RegIds
      BY <1>1 DEF NativeRegs, RSP, RegIds
    <3> QED
      BY <1>1, <3>1
  <2>2. DOMAIN stack' = Slots
    BY <1>7
  <2> QED
    BY <1>1, <1>10, <1>12, <2>1, <2>2 DEF NativeStack
<1>14. UNCHANGED Native!vars
  BY <1>1, <1>11, <1>12, <1>13 DEF Native!vars
<1>15. EncodeInv' /\ ImageInv'
  BY <1>1, PackedStays
<1>16. CpuInv'
  BY <1>1, <1>7, <1>8 DEF CpuInv, packer
<1> QED
  BY <1>14, <1>15, <1>16 DEF Inv, Simulates

\* The processor takes the registers from the struct and the exit address.
LEMMA LeaveKeeps == ASSUME Inv, simVMLeave PROVE Inv' /\ Simulates
<1>1. /\ loc = "leave" /\ phase = "packed"
      /\ stack[x86ctx + retaddrField] = LongOf(ExitAddress)
      /\ UNCHANGED <<packer, code, stack, x86ctx>>
      /\ regs' = [r \in RegIds |-> IF r = RSP THEN x86ctx + 10
                                   ELSE stack[x86ctx + FieldOf(r)]]
  BY DEF Inv, CpuInv, simVMLeave
<1>2. loc' = "program"
  BY <1>1, SampleAssumption, Zenon DEF simVMLeave
<1>3. NativeRegs' = NativeRegs
  BY <1>1, <1>2 DEF NativeRegs
<1>4. NativeStack' = NativeStack
  BY <1>1, <1>3 DEF NativeStack
<1>5. NativeIp = szCode /\ NativeIp' = -1
  BY <1>1, <1>2 DEF NativeIp
<1>6. Native!Leave
  BY <1>1, <1>3, <1>4, <1>5 DEF Native!Leave
<1>7. EncodeInv' /\ ImageInv'
  BY <1>1, PackedStays
<1>8. CpuInv'
  BY <1>1, <1>2 DEF CpuInv, packer
<1> QED
  BY <1>6, <1>7, <1>8 DEF Inv, Simulates, Native!Next

-----------------------------------------------------------------------------
\* Each step, and the step that changes nothing.
LEMMA StepKeeps == ASSUME Inv, [Next]_vars PROVE Inv' /\ Simulates
<1>1. CASE Pack
  <2>1. Inv'
    BY <1>1, EncodeKeeps, PackKeeps DEF Pack
  <2>2. UNCHANGED <<code, cpu>>
    BY <1>1 DEF Pack, encodeOpcode, _tmain
  <2>3. UNCHANGED Native!vars
    BY <2>2 DEF cpu, machine, Native!vars, NativeIp, NativeRegs, NativeStack
  <2> QED
    BY <2>1, <2>3 DEF Simulates
<1>2. CASE Virtual
  BY <1>2, JumpKeeps, EntryKeeps, MovKeeps, AddKeeps, ExitKeeps, LeaveKeeps DEF Virtual
<1>3. CASE _tmain_Fails
  BY <1>3, FailKeeps
<1>4. CASE Reach
  BY <1>4, ReachKeeps
<1>5. CASE UNCHANGED vars
  <2>1. UNCHANGED <<phase, code, lpCode, opbuf, oppos, image, loc, regs, stack,
                    x86ctx, vregs, lpop>>
    BY <1>5 DEF vars, packer, cpu, machine
  <2>2. Inv'
    BY <2>1 DEF Inv, EncodeInv, ImageInv, CpuInv, Translated
  <2>3. UNCHANGED Native!vars
    BY <2>1 DEF Native!vars, NativeIp, NativeRegs, NativeStack
  <2> QED
    BY <2>2, <2>3 DEF Simulates
<1> QED
  BY <1>1, <1>2, <1>3, <1>4, <1>5 DEF Next

\* At every moment the opcodes before the encoder's place are the translation
\* of the block, the section holds all of it with the address given to the
\* machine, and the machine reads at the start of an opcode, with the saved
\* registers in the struct on the stack (simulateVM.cpp 17-48, 66-100;
\* VMCrt.cpp 35-103).
THEOREM MachineInvariant == Spec => []Inv
<1>1. Init => Inv
  BY InitInv
<1>2. Inv /\ [Next]_vars => Inv'
  BY StepKeeps
<1> QED
  BY <1>1, <1>2, PTL DEF Spec

\* The virtualised program does what the original does, for every block, all
\* registers and every place of section and machine
\* (simulateVM.cpp 17-48, 66-100; VMCrt.cpp 35-103).
THEOREM VirtualIsAlwaysNative == Spec => VirtualIsNative
<1>1. Init => Native!Init
  BY DEF Init, Native!Init, NativeIp
<1>2. Inv /\ [Next]_vars => [Native!Next]_(Native!vars)
  BY StepKeeps DEF Simulates
<1> QED
  BY <1>1, <1>2, MachineInvariant, PTL DEF Spec, VirtualIsNative, Native!Spec
=============================================================================
