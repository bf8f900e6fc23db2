------------------------------ MODULE MC_VMCrt ------------------------------
(***************************************************************************)
(* Instances of VMCrt: the block of the sample has two instructions, each  *)
(* any of the two, with constants that carry and wrap; and blocks with an  *)
(* instruction the encoder does not know.                                  *)
(***************************************************************************)
EXTENDS VMCrt

Constants == {<<52, 18, 0, 0>>, <<0, 0, 0, 16>>, <<255, 255, 255, 255>>}
Operations == {5, 184}

\* Instructions one behind the other.
Block(ops, imms) ==
  [a \in Offsets |-> LET k == a \div 5
                     IN  IF a % 5 = 0 THEN ops[k] ELSE imms[k][a % 5]]
Indexes == 0 .. szCode \div 5 - 1
MCPrograms ==
  {Block(ops, imms) : ops \in [Indexes -> Operations], imms \in [Indexes -> Constants]}
    \cup {Block([k \in Indexes |-> IF k = u THEN 187 ELSE 5],
                [k \in Indexes |-> <<1, 0, 0, 0>>]) : u \in Indexes}

\* Registers all different, two places of the stack, its longs different too.
RegFile(x, esp) == [r \in RegIds |-> IF r = RSP THEN esp ELSE <<x, r, 0, x>>]
MCInputs ==
  {[regs |-> RegFile(x, esp), eflags |-> <<x, 2, 0, 0>>,
    stack |-> [a \in Slots |-> <<a, x, x, a>>]] :
     x \in {1, 255}, esp \in {12, szStack - 1}}
=============================================================================
