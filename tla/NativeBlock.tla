----------------------------- MODULE NativeBlock -----------------------------
(***************************************************************************)
(* What virtualising a block of code promises: the block as the processor  *)
(* would run it in the original program (vm1/main.cpp 7-11).  A block is   *)
(* bytes, of which the first of each instruction is its operation and the  *)
(* next four its constant.  The flags are no part of the promise.          *)
(***************************************************************************)
EXTENDS Words

CONSTANTS szCode,  \* length of the block in bytes
          EAX,     \* place of that register in the register file
          Outside  \* value of ip while the rest of the program runs

VARIABLES code,   \* the block, a function from offsets to bytes
          ip,     \* offset of the next instruction, or Outside
          regs,   \* the registers, esp among them
          stack   \* the stack from esp up
vars == <<code, ip, regs, stack>>

mov == 184  \* 0xB8: mov eax, imm
add == 5    \* 0x05: add eax, imm

Init == ip = Outside

\* The program reaches the block, with any registers and any stack.
Enter ==
  /\ ip = Outside
  /\ ip' = 0
  /\ UNCHANGED code

Execute(op, Eax) ==
  /\ ip \in 0 .. szCode - 1
  /\ code[ip] = op
  /\ regs' = [regs EXCEPT ![EAX] = Eax]
  /\ ip' = ip + 5
  /\ UNCHANGED <<code, stack>>

Mov == Execute(mov, ReadLong(code, ip + 1))
Add == Execute(add, Plus(regs[EAX], ReadLong(code, ip + 1)))

\* The program goes on behind the block, with the registers and the stack as
\* the block has left them.
Leave ==
  /\ ip = szCode
  /\ ip' = Outside
  /\ UNCHANGED <<code, regs, stack>>

Next == Enter \/ Mov \/ Add \/ Leave
Spec == Init /\ [][Next]_vars
=============================================================================
