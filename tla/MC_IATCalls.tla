---------------------------- MODULE MC_IATCalls -----------------------------
(***************************************************************************)
(* Instances of IATCalls: images of two protected calls, side by side or   *)
(* with code between them, and a call of one of them from another block.    *)
(***************************************************************************)
EXTENDS IATCalls

Own  == <<Byte("own", 0, 1)>>
Junk == <<Byte("junk", 0, 1)>>
Nop  == Nops(1)
Save == <<Byte("push", 0, 1)>>

Lo == 100           \* the first block
Caller == 130       \* the second block
Table == 200        \* pointers
Stubs == 300        \* stub i is at Stubs + 10 * i

\* The bytes of a protected call, with its stub and its pointer, and the stub.
Layout(kind, to, ptr) ==
  CASE kind = "call+junk" -> Bytes("E8", to) \o Junk
    [] kind = "call+nop"  -> Bytes("E8", to) \o Nop
    [] kind = "nop+call"  -> Nop \o Bytes("E8", to)
    [] kind = "push+call" -> Save \o Bytes("E8", to)
    [] kind \in {"call[]", "call[] stolen", "call[] spoilt", "call[] api"} -> Bytes("FF15", ptr)
    [] kind = "jmp+junk"  -> Bytes("E9", to) \o Junk
    [] kind = "jmp+nop"   -> Bytes("E9", to) \o Nop
    [] kind = "nop+jmp"   -> Nop \o Bytes("E9", to)
    [] kind = "push+jmp"  -> Save \o Bytes("E9", to)
    [] kind = "jmp[]"     -> Bytes("FF25", ptr)
    [] kind = "push ret"  -> Bytes("68C3", to)
    [] kind = "call as jmp" -> Bytes("E8", to) \o Junk
    [] kind = "push+call as jmp" -> Save \o Bytes("E8", to)
    [] kind = "mov"       -> Bytes("mov", ptr)

Micro(op) == <<Byte(op, 0, 1)>>
StubOf(kind) ==
  CASE kind \in {"call+junk"} -> Micro("adjust")
    [] kind = "push+call" -> Micro("under")
    [] kind \in {"push+jmp", "call as jmp"} -> Micro("drop")
    [] kind = "push+call as jmp" -> Micro("drop") \o Micro("drop")
    [] kind = "call[] stolen" -> Micro("stolen")
    [] kind = "call[] spoilt" -> Micro("spoil")
    [] OTHER -> <<>>
Leave(kind, api) == <<Byte(IF kind = "call[] stolen" THEN "inside" ELSE "leave", api, 1)>>

\* Two calls, of functions 1 and 2, with gap bytes between them.
At(i, gap) == IF i = 1 THEN Lo + 1 ELSE Lo + 7 + gap
Ptr(i) == Table + 4 * (i - 1)
HasPointer(kind) == kind \in {"call[]", "call[] stolen", "call[] spoilt", "jmp[]", "mov"}
Fill(n) == [k \in 1..n |-> Own[1]]
AsFunction(lo, bytes) == [a \in lo..(lo + Len(bytes) - 1) |-> bytes[a - lo + 1]]
Merged(f, g) == [a \in DOMAIN f \cup DOMAIN g |-> IF a \in DOMAIN f THEN f[a] ELSE g[a]]

Image(kinds, gap) ==
  LET site(i) == Layout(kinds[i], Stubs + 10 * i, Ptr(i))
      stub(i) == AsFunction(Stubs + 10 * i, StubOf(kinds[i]) \o Leave(kinds[i], i))
      first   == Own \o site(1) \o Fill(gap) \o site(2) \o Fill(6)
      second  == Own \o Nop \o Bytes("E8", At(2, gap)) \o Fill(6)
  IN [code    |-> Merged(AsFunction(Lo, first), AsFunction(Caller, second)),
      stubs   |-> Merged(stub(1), stub(2)),
      cells   |-> [c \in {Ptr(1), Ptr(2), Ptr(3)} |-> [b \in Bases |->
                     CASE c = Ptr(3) -> 0
                       [] c # Ptr(3) /\ HasPointer(kinds[(c - Table) \div 4 + 1]) ->
                            Stubs + 10 * ((c - Table) \div 4 + 1)
                       [] OTHER -> b + 10 * ((c - Table) \div 4 + 1)]],
      blocks  |-> {[lo |-> Lo, hi |-> Lo + Len(first) - 1],
                   [lo |-> Caller, hi |-> Caller + Len(second) - 1]},
      ends    |-> {Table},
      selections |-> {{Ptr(1), Ptr(2)}, {Ptr(1), Ptr(2), Ptr(3)}},
      regions |-> {At(1, gap), At(2, gap), Caller + 1},
      lo |-> Lo, hi |-> Stubs + 100,
      maxCommands |-> 5]

\* Every kind with code in between, and side by side those that may touch.
Apart == {Image(kinds, 1) : kinds \in {
  <<"call+junk", "jmp+junk">>, <<"call+nop", "jmp+nop">>, <<"nop+call", "nop+jmp">>,
  <<"push+call", "push+jmp">>, <<"call[]", "jmp[]">>, <<"call[] stolen", "push ret">>,
  <<"call[] spoilt", "call as jmp">>, <<"call[] api", "push+call as jmp">>,
  <<"call[]", "mov">>}}
Touching == {Image(kinds, 0) : kinds \in {
  <<"call+nop", "nop+call">>, <<"call+nop", "push+jmp">>, <<"jmp+nop", "call+nop">>,
  <<"jmp+nop", "nop+call">>, <<"call+junk", "push+jmp">>, <<"call+junk", "jmp+junk">>}}

\* For longer sequences of commands: one block is searched and all pointers
\* are selected.
Reload(image) == [image EXCEPT !.blocks = {b \in @ : b.lo = Lo}, !.ends = {},
                               !.selections = {{Ptr(1), Ptr(2), Ptr(3)}}, !.maxCommands = 7]
Reloads == {Reload(Image(kinds, 0)) : kinds \in {
  <<"call+nop", "push+jmp">>, <<"jmp+nop", "nop+call">>}}
MCImages == Apart \cup Touching \cup Reloads
=============================================================================
