-------------------------------- MODULE Words --------------------------------
(***************************************************************************)
(* Bytes and longs as the samples of chapter 2 read and write them: a long *)
(* is four bytes in memory, the low one first.  Shared by the program that *)
(* is virtualised (NativeBlock) and the machine that runs it (VMCrt).      *)
(***************************************************************************)
EXTENDS Integers, Sequences

Byte == 0 .. 255
Long == Byte \X Byte \X Byte \X Byte

\* A number as a long, and a long as a number.
LongOf(n) ==
  LET n2 == n \div 256
      n3 == n2 \div 256
  IN  <<n % 256, n2 % 256, n3 % 256, n3 \div 256>>
Number(l) == l[1] + 256 * (l[2] + 256 * (l[3] + 256 * l[4]))

\* The sum of two longs, with the carry running through the bytes and out of
\* the last one.
Plus(x, y) ==
  LET s1 == x[1] + y[1]
      s2 == x[2] + y[2] + s1 \div 256
      s3 == x[3] + y[3] + s2 \div 256
      s4 == x[4] + y[4] + s3 \div 256
  IN  <<s1 % 256, s2 % 256, s3 % 256, s4 % 256>>

\* *(long *)(mem + p)
ReadLong(mem, p) == <<mem[p], mem[p + 1], mem[p + 2], mem[p + 3]>>

\* mem with the bytes given written from place p on.
Write(mem, p, bytes) ==
  [a \in DOMAIN mem |->
     IF a \in p .. p + Len(bytes) - 1 THEN bytes[a - p + 1] ELSE mem[a]]
=============================================================================
