---------------------------- MODULE MC_ApiWatch ----------------------------
(***************************************************************************)
(* An instance of ApiWatch: the program between two libraries, a block of  *)
(* private code, and the library at the top of the address space.          *)
(***************************************************************************)
EXTENDS ApiWatch, TLC

Section(mod, p) ==
  [mod |-> mod, header |-> FALSE, mz |-> mod # NoModule, guard |-> FALSE, prot |-> p]

\* The first library ends where the program begins and cannot be taken the right of
\* execution.
MCLayout == <<
  Section("low", "X"),
  Section("prog", "XR"),
  Section("mid", "XWC"),
  Section(NoModule, "XRW"),
  Section("top", "XR")>>

\* The program makes its code writable data, and data code, at any time.
MCRequests == {2} \X {"RW", "XR"}

ThreadSymmetry == Permutations(Threads)
=============================================================================
