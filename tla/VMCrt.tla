-------------------------------- MODULE VMCrt --------------------------------
(***************************************************************************)
(* The sample virtualiser of chapter 2: simulateVM.cpp turns a block of a  *)
(* program into opcodes of a virtual machine and puts opcodes and machine  *)
(* into a new section of the program; VMCrt.cpp is the machine, entered by *)
(* a jump in place of the block.                                           *)
(*                                                                         *)
(* Addresses and offsets are numbers, the contents of code are bytes.  The *)
(* stack is counted in longs.  The machine's own code is the address at    *)
(* which it was put; what it was compiled to is external.                  *)
(***************************************************************************)
EXTENDS Words

CONSTANTS szCode,       \* length of the block (10 in the sample)
          ExitAddress,  \* the place behind it (0x401010 in the sample)
          secrva,       \* where add_section puts the new section
          vmcrtentry,   \* entry of the machine in VMCrt.dll
          szOpbuf,      \* sizeof(opbuf)
          szStack,      \* longs of stack
          Programs,     \* blocks
          Inputs        \* states of the program at the block: regs, eflags, stack

ImageBase == 4194304   \* 0x400000
BlockRva  == 4102      \* 0x1006
CodeRva   == 4096      \* 0x1000, first section of VMCrt.dll

RAX == 0
RSP == 4
RegIds == 0 .. 7       \* VREG_RAX .. VREG_RDI
op_mov  == 0
op_add  == 1
op_exit == 2

Slots == 0 .. szStack - 1
Offsets == 0 .. szCode - 1

\* The block consists of whole instructions, the exit address is the one behind
\* it, opbuf is large enough, and there is room on the stack for the ten longs
\* of struct x86Ctx and two more.
ASSUME SampleAssumption ==
  /\ szCode \in Nat /\ szCode % 5 = 0
  /\ ExitAddress = ImageBase + BlockRva + szCode
  /\ secrva \in Nat /\ vmcrtentry \in Nat /\ szStack \in Nat
  /\ szOpbuf \in Nat /\ 6 * (szCode \div 5) + 5 =< szOpbuf
  /\ Programs \subseteq [Offsets -> Byte]
  /\ \A i \in Inputs :
       /\ i.regs = [r \in RegIds |-> i.regs[r]]
       /\ i.regs[RSP] \in 12 .. szStack
       /\ DOMAIN i.stack = Slots

VARIABLES phase,     \* encodeOpcode and the rest of _tmain: encode, failed, packed
          code,      \* the bytes of the block in the original program
          lpCode,    \* offset of the next byte to translate
          opbuf,     \* lpOpcode, the opcodes
          oppos,     \* bytes written to it
          image,     \* what was written to the file: section, crt, opcode, jmp
          loc,       \* where the processor is
          regs, eflags, stack,
          x86ctx,    \* address of the saved registers
          vregs, veflags, lpop  \* the virtual machine: vcpu_ctx and lpop
packer == <<phase, lpCode, opbuf, oppos, image>>
machine == <<vregs, veflags, lpop>>
cpu == <<loc, regs, eflags, stack, x86ctx, machine>>
vars == <<packer, code, cpu>>

-----------------------------------------------------------------------------
(* simulateVM.cpp *)

\* A translated instruction: op, the register, and the constant as it was.
Emit(op) ==
  LET imm == ReadLong(code, lpCode + 1)
  IN  /\ opbuf' = Write(opbuf, oppos, <<op, RAX, imm[1], imm[2], imm[3], imm[4]>>)
      /\ oppos' = oppos + 6
      /\ lpCode' = lpCode + 5

encodeOpcode ==
  /\ phase = "encode"
  /\ lpCode < szCode
  /\ \/ code[lpCode] = 184 /\ Emit(op_mov)
     \/ code[lpCode] = 5 /\ Emit(op_add)
     \/ /\ code[lpCode] \notin {184, 5}   \* no default: the loop goes round
        /\ UNCHANGED <<lpCode, opbuf, oppos>>
  /\ UNCHANGED <<phase, image, code, cpu>>

\* The exit opcode (44-46), and what _tmain does with the result (70-100):
\* opcodes and machine side by side into the new section, the address of the
\* opcodes into the constant of the machine's first push, and in place of the
\* block a jump to the machine's entry.
_tmain ==
  /\ phase = "encode"
  /\ lpCode >= szCode
  /\ LET exit  == LongOf(ExitAddress)
         oplen == oppos + 5
         entry == vmcrtentry - CodeRva + oplen + secrva
     IN  /\ opbuf' = Write(opbuf, oppos, <<op_exit, exit[1], exit[2], exit[3], exit[4]>>)
         /\ oppos' = oplen
         /\ image' = [section |-> [a \in 0 .. oplen - 1 |-> opbuf'[a]],
                      crt |-> oplen,
                      opcode |-> secrva + ImageBase,
                      jmp |-> entry - BlockRva - 5]
  /\ phase' = "packed"
  /\ UNCHANGED <<lpCode, code, cpu>>

\* A file cannot be opened, or no section be added (56-63, 74).
_tmain_Fails ==
  /\ phase = "encode"
  /\ lpCode = 0 \/ lpCode >= szCode
  /\ phase' = "failed"
  /\ UNCHANGED <<lpCode, opbuf, oppos, image, code, cpu>>

-----------------------------------------------------------------------------
(* VMCrt.cpp, in the program that was written *)

\* The program comes to the block.
Reach ==
  /\ phase = "packed"
  /\ loc = "program"
  /\ \E i \in Inputs : regs' = i.regs /\ eflags' = i.eflags /\ stack' = i.stack
  /\ loc' = "block"
  /\ UNCHANGED <<packer, code, x86ctx, machine>>

\* The jump in its place.
Jump ==
  /\ loc = "block"
  /\ LET target == ImageBase + BlockRva + 5 + image.jmp
         entry  == ImageBase + secrva + image.crt + (vmcrtentry - CodeRva)
     IN  loc' = IF target = entry THEN "entry" ELSE "lost"
  /\ UNCHANGED <<packer, code, regs, eflags, stack, x86ctx, machine>>

\* struct x86Ctx: eight registers, the last first, the flags and the address
\* of the opcodes.
FieldOf_AsNumbered(r) == r
FieldOf(r) == 7 - r
eflagsField == 8
retaddrField == 9

\* push, pushfd, pushad, push esp, call (94-98).  pushad saves esp as it was
\* before.  What the call pushes, and what the machine's code leaves in the
\* registers, does not matter.
Scratch == <<0, 0, 0, 0>>

Pushed(ctx) ==
  [a \in DOMAIN stack |->
     CASE a = ctx + retaddrField -> LongOf(image.opcode)
       [] a = ctx + eflagsField -> eflags
       [] a \in ctx .. ctx + 7 -> IF a = ctx + FieldOf(RSP) THEN LongOf(ctx + 8)
                                  ELSE regs[7 - (a - ctx)]
       [] a = ctx - 1 -> LongOf(ctx)
       [] a = ctx - 2 -> Scratch
       [] OTHER -> stack[a]]

\* simVMEntry as far as the call, and simVMInit as far as simVMLoop.
simVMEntry ==
  /\ loc = "entry"
  /\ x86ctx' = regs[RSP] - 10
  /\ stack' = Pushed(x86ctx')
  /\ regs' = [r \in RegIds |-> IF r = RSP THEN x86ctx' - 2 ELSE Scratch]
  /\ vregs' = [r \in RegIds |-> stack'[x86ctx' + FieldOf(r)]]
  /\ veflags' = stack'[x86ctx' + eflagsField]
  /\ lpop' = Number(stack'[x86ctx' + retaddrField])
  /\ loc' = "loop"
  /\ UNCHANGED <<packer, code, eflags>>

\* A byte and a long at an address of the new section.
Fetch(a) == image.section[a - (ImageBase + secrva)]
FetchLong(a) == ReadLong(image.section, a - (ImageBase + secrva))

\* simVMLoop, one turn: an operation on a register and a constant.
Regid == Fetch(lpop + 1)
Imm   == FetchLong(lpop + 2)

Operate(op, result) ==
  /\ loc = "loop"
  /\ Fetch(lpop) = op
  /\ vregs' = [vregs EXCEPT ![Regid] = result]
  /\ lpop' = lpop + 6
  /\ UNCHANGED <<packer, code, loc, regs, eflags, stack, x86ctx, veflags>>

Op_mov_InPlace ==
  /\ loc = "loop"
  /\ Fetch(lpop) = op_mov
  /\ vregs' = [vregs EXCEPT ![Regid] = Imm]
  /\ UNCHANGED <<packer, code, loc, regs, eflags, stack, x86ctx, veflags, lpop>>
Op_mov == Operate(op_mov, Imm)
Op_add == Operate(op_add, Plus(vregs[Regid], Imm))

\* op_exit, and the rest of simVMInit (77-86).
Op_exit ==
  /\ loc = "loop"
  /\ Fetch(lpop) = op_exit
  /\ stack' = [a \in DOMAIN stack |->
                 CASE a = x86ctx + retaddrField -> FetchLong(lpop + 1)
                   [] a = x86ctx + eflagsField -> veflags
                   [] a \in x86ctx .. x86ctx + 7 -> vregs[7 - (a - x86ctx)]
                   [] OTHER -> stack[a]]
  /\ loc' = "leave"
  /\ UNCHANGED <<packer, code, regs, eflags, x86ctx, machine>>

\* popad, which leaves out esp, popfd, ret (99-101).
simVMLeave ==
  /\ loc = "leave"
  /\ regs' = [r \in RegIds |-> IF r = RSP THEN x86ctx + 10
                               ELSE stack[x86ctx + FieldOf(r)]]
  /\ eflags' = stack[x86ctx + eflagsField]
  /\ loc' = IF stack[x86ctx + retaddrField] = LongOf(ImageBase + BlockRva + szCode)
            THEN "program" ELSE "lost"
  /\ UNCHANGED <<packer, code, stack, x86ctx, machine>>

-----------------------------------------------------------------------------
Init ==
  /\ phase = "encode"
  /\ code \in Programs
  /\ lpCode = 0
  /\ opbuf = [a \in 0 .. szOpbuf - 1 |-> 0]  \* only what is written is copied
  /\ oppos = 0
  /\ image = [section |-> <<>>, crt |-> 0, opcode |-> 0, jmp |-> 0]
  /\ loc = "program"
  /\ regs = [r \in RegIds |-> IF r = RSP THEN 0 ELSE Scratch]
  /\ eflags = Scratch /\ stack = <<>>
  /\ x86ctx = 0
  /\ vregs = [r \in RegIds |-> Scratch] /\ veflags = Scratch /\ lpop = 0

Pack == encodeOpcode \/ _tmain
Virtual == Jump \/ simVMEntry \/ Op_mov \/ Op_add \/ Op_exit \/ simVMLeave
Next == Pack \/ _tmain_Fails \/ Reach \/ Virtual

\* Neither the packer nor the processor stands still.
Spec == Init /\ [][Next]_vars /\ WF_vars(Pack) /\ WF_vars(Virtual)

-----------------------------------------------------------------------------
(* The virtual machine as the original program *)

\* Where the original program would be: behind as many instructions as the
\* machine has executed opcodes.
NativeIp ==
  CASE loc = "program" -> -1
    [] loc \in {"block", "entry"} -> 0
    [] loc = "loop" -> 5 * ((lpop - (ImageBase + secrva)) \div 6)
    [] loc = "leave" -> szCode
    [] OTHER -> -2

\* Its registers: in the machine, saved on the stack, or the processor's own.
NativeRegs ==
  LET saved == CASE loc = "loop" -> vregs
                 [] loc = "leave" -> [r \in RegIds |-> stack[x86ctx + FieldOf(r)]]
                 [] OTHER -> regs
  IN  IF loc \in {"loop", "leave"} THEN [saved EXCEPT ![RSP] = x86ctx + 10] ELSE saved

\* The part of the stack that is in use.
NativeStack == [a \in {b \in DOMAIN stack : b >= NativeRegs[RSP]} |-> stack[a]]

Native == INSTANCE NativeBlock
            WITH EAX <- RAX, Outside <- -1,
                 ip <- NativeIp, regs <- NativeRegs, stack <- NativeStack

\* The program that was written does what the original does: every
\* instruction of the block is executed once and in order, with its constant,
\* on the registers the program came with, and the program goes on behind the
\* block with these registers, esp, and an untouched stack
\* (simulateVM.cpp 17-48, 66-100; VMCrt.cpp 35-103).  Only the flags are not
\* those of the block: the machine has none of its own.
VirtualIsNative == Native!Spec

\* A block of known instructions is translated in the end, or the packer has
\* failed; and a program that came to the block comes out of the machine
\* (the loops at simulateVM.cpp 21 and VMCrt.cpp 38).
Known == \A k \in Offsets : k % 5 = 0 => code[k] \in {5, 184}
LoopsEnd ==
  /\ Known => <>(phase # "encode")
  /\ loc = "block" ~> loc = "program"
=============================================================================
