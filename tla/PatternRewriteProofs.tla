------------------------ MODULE PatternRewriteProofs ------------------------
(***************************************************************************)
(* Proofs about the simplification of a trace: the engine's window is the  *)
(* stretch of the trace between the two cursors of the pass, a match       *)
(* changes records of that stretch only, every scan leaves fewer records   *)
(* to start at, and when the rounds end because nothing was deleted no     *)
(* pattern matches, for every trace and every list of patterns.            *)
(***************************************************************************)
EXTENDS PatternRewrite, PatternAsmProofs, SequenceTheorems

-----------------------------------------------------------------------------
(***************************************************************************)
(* FlattenSeq is defined by recursion on its argument.  What it does is    *)
(* proved by induction on a set of numbers (InductionBySet).               *)
(***************************************************************************)
\* The function that FlattenSeq chooses, for the first n sequences.
IsFlat(seqs, n, f) ==
  f = [i \in 1..n |-> IF i = 1 THEN seqs[i] ELSE f[i-1] \o seqs[i]]

LEMMA FlatAt ==
  ASSUME NEW seqs, NEW n \in Nat, NEW f, IsFlat(seqs, n, f), NEW i \in 1..n
  PROVE  f[i] = IF i = 1 THEN seqs[i] ELSE f[i-1] \o seqs[i]
<1> DEFINE E(j) == IF j = 1 THEN seqs[j] ELSE f[j-1] \o seqs[j]
<1>1. f = [j \in 1..n |-> E(j)]
  BY DEF IsFlat
<1>2. f[i] = E(i)
  <2> HIDE DEF E
  <2> QED
    BY <1>1
<1> QED
  BY <1>2

LEMMA FlatExists ==
  ASSUME NEW seqs, NEW n \in Nat PROVE \E f : IsFlat(seqs, n, f)
<1> DEFINE T == {m \in Nat : \E f : IsFlat(seqs, m, f)}
<1>1. 0 \in T
  <2> DEFINE f == [i \in 1..0 |-> seqs[i]]
  <2>1. IsFlat(seqs, 0, f)
    BY DEF IsFlat
  <2> QED
    BY <2>1
<1>2. ASSUME NEW m \in T PROVE m + 1 \in T
  <2>1. PICK f : IsFlat(seqs, m, f)
    OBVIOUS
  <2> DEFINE g == [i \in 1..m+1 |-> IF i <= m THEN f[i]
                                    ELSE IF i = 1 THEN seqs[i] ELSE f[i-1] \o seqs[i]]
  <2>2. ASSUME NEW i \in 1..m+1
        PROVE  g[i] = IF i = 1 THEN seqs[i] ELSE g[i-1] \o seqs[i]
    <3>1. CASE i <= m
      <4>1. f[i] = IF i = 1 THEN seqs[i] ELSE f[i-1] \o seqs[i]
        BY <2>1, <3>1, FlatAt
      <4>2. i # 1 => g[i-1] = f[i-1]
        BY <3>1
      <4> QED
        BY <3>1, <4>1, <4>2
    <3>2. CASE i = m + 1
      BY <3>2
    <3> QED
      BY <3>1, <3>2
  <2>3. IsFlat(seqs, m + 1, g)
    <3> DEFINE h == [i \in 1..m+1 |-> IF i = 1 THEN seqs[i] ELSE g[i-1] \o seqs[i]]
    <3>1. \A i \in 1..m+1 : g[i] = h[i]
      BY <2>2
    <3>2. DOMAIN g = 1..m+1 /\ DOMAIN h = 1..m+1
      OBVIOUS
    <3>3. g = h
      BY <3>1, <3>2
    <3> QED
      BY <3>3 DEF IsFlat
  <2> HIDE DEF g
  <2> QED
    BY <2>3
<1>3. T = Nat
  <2> HIDE DEF T
  <2>1. T \in SUBSET Nat
    BY DEF T
  <2> QED
    BY <1>1, <1>2, <2>1, InductionBySet
<1> QED
  BY <1>3

\* It depends on no sequence behind the one it has come to.
Agree(s, t, k) == \A i \in 1..k : s[i] = t[i]
LEMMA FlatAgree ==
  ASSUME NEW s, NEW t, NEW n \in Nat, NEW m \in Nat, NEW k \in Nat, k <= n, k <= m,
         Agree(s, t, k), NEW f, IsFlat(s, n, f), NEW g, IsFlat(t, m, g)
  PROVE  Agree(f, g, k)
<1> DEFINE T == {i \in Nat : i \in 1..k => f[i] = g[i]}
<1>1. 0 \in T
  OBVIOUS
<1>2. ASSUME NEW i \in T PROVE i + 1 \in T
  <2> SUFFICES ASSUME i + 1 \in 1..k PROVE f[i+1] = g[i+1]
    OBVIOUS
  <2>1. f[i+1] = IF i + 1 = 1 THEN s[i+1] ELSE f[(i+1)-1] \o s[i+1]
    BY FlatAt
  <2>2. g[i+1] = IF i + 1 = 1 THEN t[i+1] ELSE g[(i+1)-1] \o t[i+1]
    BY FlatAt
  <2>3. i + 1 # 1 => f[i] = g[i]
    OBVIOUS
  <2>4. (i + 1) - 1 = i
    OBVIOUS
  <2> QED
    BY <2>1, <2>2, <2>3, <2>4 DEF Agree
<1>3. T = Nat
  <2> HIDE DEF T
  <2>1. T \in SUBSET Nat
    BY DEF T
  <2> QED
    BY <1>1, <1>2, <2>1, InductionBySet
<1> QED
  BY <1>3 DEF Agree

LEMMA FlattenIsFlat ==
  ASSUME NEW seqs, Len(seqs) \in Nat, Len(seqs) # 0, NEW f, IsFlat(seqs, Len(seqs), f)
  PROVE  FlattenSeq(seqs) = f[Len(seqs)]
<1> DEFINE n == Len(seqs)
           c == CHOOSE g : g = [i \in 1..n |-> IF i = 1 THEN seqs[i] ELSE g[i-1] \o seqs[i]]
<1>1. FlattenSeq(seqs) = c[n]
  BY DEF FlattenSeq
<1>2. IsFlat(seqs, n, c)
  BY DEF IsFlat
<1> HIDE DEF c
<1>3. Agree(c, f, n)
  <2>1. n \in Nat /\ n <= n /\ IsFlat(seqs, n, f)
    OBVIOUS
  <2>2. Agree(seqs, seqs, n)
    BY DEF Agree
  <2> HIDE DEF n
  <2> QED
    BY <1>2, <2>1, <2>2, FlatAgree
<1> QED
  BY <1>1, <1>3 DEF Agree

\* The first j members of a sequence of sequences, given as a function.
Prefix(R, j) == [n \in 1..j |-> R[n]]

\* What FlattenSeq makes of the prefixes, one member after the other.
LEMMA FlattenPrefix ==
  ASSUME NEW S, NEW L \in Nat, NEW R \in [1..L -> Seq(S)]
  PROVE  /\ FlattenSeq(Prefix(R, 0)) = <<>>
         /\ \A j \in 0..L : FlattenSeq(Prefix(R, j)) \in Seq(S)
         /\ \A j \in 1..L : FlattenSeq(Prefix(R, j)) = FlattenSeq(Prefix(R, j-1)) \o R[j]
<1> DEFINE F(j) == FlattenSeq(Prefix(R, j))
<1>1. \A j \in 0..L : Prefix(R, j) \in Seq(Seq(S)) /\ Len(Prefix(R, j)) = j
  BY DEF Prefix
<1>2. F(0) = <<>>
  <2>1. Prefix(R, 0) = <<>>
    BY DEF Prefix
  <2>2. Len(<<>>) = 0
    OBVIOUS
  <2> QED
    BY <2>1, <2>2 DEF FlattenSeq
<1>3. PICK f : IsFlat(R, L, f)
  BY FlatExists
<1>4. ASSUME NEW j \in 1..L PROVE F(j) = f[j]
  <2>0. j \in Nat /\ j # 0 /\ j <= j /\ j <= L /\ j \in 1..j
    OBVIOUS
  <2>1. PICK g : IsFlat(Prefix(R, j), j, g)
    BY <2>0, FlatExists
  <2>2. F(j) = g[j]
    <3>1. Len(Prefix(R, j)) = j
      BY <1>1, <2>0
    <3> QED
      BY <2>0, <2>1, <3>1, FlattenIsFlat
  <2>3. Agree(Prefix(R, j), R, j)
    BY DEF Prefix, Agree
  <2>4. Agree(g, f, j)
    BY <1>3, <2>0, <2>1, <2>3, FlatAgree
  <2> QED
    BY <2>0, <2>2, <2>4 DEF Agree
<1>5. ASSUME NEW j \in 1..L PROVE F(j) = F(j-1) \o R[j]
  <2>1. f[j] = IF j = 1 THEN R[j] ELSE f[j-1] \o R[j]
    BY <1>3, FlatAt
  <2>2. CASE j = 1
    <3>1. R[1] \in Seq(S) /\ F(1) = R[1] /\ F(1-1) = <<>>
      BY <1>2, <1>4, <2>1, <2>2
    <3>2. <<>> \o R[1] = R[1]
      BY <3>1, ConcatEmptySeq
    <3> QED
      BY <2>2, <3>1, <3>2
  <2>3. CASE j # 1
    <3>1. j - 1 \in 1..L
      BY <2>3
    <3>2. F(j-1) = f[j-1]
      BY <1>4, <3>1
    <3> QED
      BY <1>4, <2>1, <2>3, <3>2
  <2> QED
    BY <2>2, <2>3
<1>6. \A j \in 0..L : F(j) \in Seq(S)
  <2> DEFINE T == {j \in Nat : j <= L => F(j) \in Seq(S)}
  <2>1. 0 \in T
    <3>1. <<>> \in Seq(S)
      OBVIOUS
    <3> HIDE DEF F
    <3> QED
      BY <1>2, <3>1
  <2>2. ASSUME NEW j \in T PROVE j + 1 \in T
    <3> SUFFICES ASSUME j + 1 <= L PROVE F(j+1) \in Seq(S)
      OBVIOUS
    <3>1. F(j+1) = F((j+1)-1) \o R[j+1]
      BY <1>5
    <3>2. F(j) \in Seq(S) /\ R[j+1] \in Seq(S) /\ (j+1)-1 = j
      OBVIOUS
    <3>3. F(j) \o R[j+1] \in Seq(S)
      BY <3>2, ConcatProperties
    <3> HIDE DEF F
    <3> QED
      BY <3>1, <3>2, <3>3
  <2>3. T = Nat
    <3> HIDE DEF T
    <3>1. T \in SUBSET Nat
      BY DEF T
    <3> QED
      BY <2>1, <2>2, <3>1, InductionBySet
  <2> QED
    BY <2>3
<1> QED
  BY <1>2, <1>5, <1>6

\* Lengths: nothing is lost, and members of one length are counted.
LEMMA FlattenGap ==
  ASSUME NEW S, NEW L \in Nat, NEW R \in [1..L -> Seq(S)], NEW i \in 0..L, NEW j \in i..L
  PROVE  /\ Len(FlattenSeq(Prefix(R, i))) \in Nat
         /\ Len(FlattenSeq(Prefix(R, j))) \in Nat
         /\ Len(FlattenSeq(Prefix(R, i))) <= Len(FlattenSeq(Prefix(R, j)))
         /\ (\A n \in i+1..j : Len(R[n]) = 1) =>
              Len(FlattenSeq(Prefix(R, j))) = Len(FlattenSeq(Prefix(R, i))) + (j - i)
         /\ (\A n \in i+1..j : Len(R[n]) = 0) =>
              Len(FlattenSeq(Prefix(R, j))) = Len(FlattenSeq(Prefix(R, i)))
<1> DEFINE N(m) == Len(FlattenSeq(Prefix(R, m)))
<1>1. \A m \in 0..L : N(m) \in Nat
  <2>1. \A m \in 0..L : FlattenSeq(Prefix(R, m)) \in Seq(S)
    BY FlattenPrefix
  <2> QED
    BY <2>1
<1>2. \A m \in 1..L : Len(R[m]) \in Nat
  OBVIOUS
<1>3. ASSUME NEW m \in 1..L PROVE N(m) = N(m-1) + Len(R[m])
  <2>1. FlattenSeq(Prefix(R, m)) = FlattenSeq(Prefix(R, m-1)) \o R[m]
    BY FlattenPrefix
  <2>2. m - 1 \in 0..L
    OBVIOUS
  <2>3. FlattenSeq(Prefix(R, m-1)) \in Seq(S) /\ R[m] \in Seq(S)
    BY <2>2, FlattenPrefix
  <2> QED
    BY <2>1, <2>3, ConcatProperties
<1> HIDE DEF N
<1> DEFINE Claim(d) == /\ N(i) <= N(i+d)
                       /\ (\A n \in i+1..i+d : Len(R[n]) = 1) => N(i+d) = N(i) + d
                       /\ (\A n \in i+1..i+d : Len(R[n]) = 0) => N(i+d) = N(i)
           T == {d \in Nat : i + d <= L => Claim(d)}
<1>4. 0 \in T
  BY <1>1
<1>5. ASSUME NEW d \in T PROVE d + 1 \in T
  <2> SUFFICES ASSUME i + (d + 1) <= L PROVE Claim(d+1)
    OBVIOUS
  <2>1. Claim(d)
    OBVIOUS
  <2>2. N(i+(d+1)) = N(i+d) + Len(R[i+(d+1)])
    <3>1. i + (d + 1) \in 1..L /\ (i + (d + 1)) - 1 = i + d
      OBVIOUS
    <3> QED
      BY <1>3, <3>1
  <2>3. N(i+d) \in Nat /\ N(i) \in Nat /\ Len(R[i+(d+1)]) \in Nat
    BY <1>1, <1>2
  <2>4. /\ \A n \in i+1..i+d : n \in i+1..i+(d+1)
        /\ i+(d+1) \in i+1..i+(d+1)
    OBVIOUS
  <2>5. N(i) <= N(i+(d+1))
    BY <2>1, <2>2, <2>3
  <2>6. ASSUME \A n \in i+1..i+(d+1) : Len(R[n]) = 1 PROVE N(i+(d+1)) = N(i) + (d+1)
    <3>1. N(i+d) = N(i) + d /\ Len(R[i+(d+1)]) = 1
      BY <2>1, <2>4, <2>6
    <3> QED
      BY <2>2, <2>3, <3>1
  <2>7. ASSUME \A n \in i+1..i+(d+1) : Len(R[n]) = 0 PROVE N(i+(d+1)) = N(i)
    <3>1. N(i+d) = N(i) /\ Len(R[i+(d+1)]) = 0
      BY <2>1, <2>4, <2>7
    <3> QED
      BY <2>2, <2>3, <3>1
  <2> QED
    BY <2>5, <2>6, <2>7
<1>6. T = Nat
  <2> HIDE DEF T
  <2>1. T \in SUBSET Nat
    BY DEF T
  <2> QED
    BY <1>4, <1>5, <2>1, InductionBySet
<1>7. Claim(j - i)
  <2>1. j - i \in Nat /\ i + (j - i) <= L
    OBVIOUS
  <2>2. \A d \in Nat : i + d <= L => Claim(d)
    BY <1>6
  <2> HIDE DEF Claim
  <2> QED
    BY <2>1, <2>2
<1>8. i + (j - i) = j
  OBVIOUS
<1> QED
  BY <1>1, <1>7, <1>8 DEF N

\* Sequences, whatever they hold.
LEMMA SeqIsSequence == ASSUME NEW S, NEW s \in Seq(S) PROVE IsSequence(s)
<1>1. s \in [1..Len(s) -> {s[n] : n \in DOMAIN s}] /\ Len(s) \in Nat
  OBVIOUS
<1> QED
  BY <1>1 DEF IsSequence, ToSet

LEMMA EmptyIsSequence == IsSequence(<<>>) /\ Len(<<>>) = 0
<1>1. <<>> \in Seq({})
  OBVIOUS
<1> QED
  BY <1>1, SeqIsSequence

LEMMA SequenceIs ==
  ASSUME NEW s, IsSequence(s)
  PROVE  Len(s) \in Nat /\ DOMAIN s = 1..Len(s) /\ s = [n \in 1..Len(s) |-> s[n]]
BY DEF IsSequence

\* Joining any number of sequences makes a sequence.
LEMMA FlattenFamily ==
  ASSUME NEW L \in Nat, NEW R, R = [n \in 1..L |-> R[n]], \A n \in 1..L : IsSequence(R[n])
  PROVE  /\ \E S : R \in [1..L -> Seq(S)]
         /\ IsSequence(FlattenSeq(R))
<1> DEFINE S == UNION {ToSet(R[n]) : n \in 1..L}
<1>1. ASSUME NEW n \in 1..L PROVE R[n] \in Seq(S)
  <2>1. ToSet(R[n]) \subseteq S
    OBVIOUS
  <2>2. R[n] \in Seq(ToSet(R[n]))
    BY DEF IsSequence
  <2> HIDE DEF S
  <2> QED
    BY <2>1, <2>2, SeqMonotonic
<1> HIDE DEF S
<1>2. R \in [1..L -> Seq(S)]
  BY <1>1
<1>3. Prefix(R, L) = R
  BY DEF Prefix
<1>4. FlattenSeq(R) \in Seq(S)
  <2>1. \A j \in 0..L : FlattenSeq(Prefix(R, j)) \in Seq(S)
    BY <1>2, FlattenPrefix
  <2>2. L \in 0..L
    OBVIOUS
  <2> QED
    BY <1>3, <2>1, <2>2
<1> QED
  BY <1>2, <1>4, SeqIsSequence

-----------------------------------------------------------------------------
(***************************************************************************)
(* The userdata of a pattern.  Every statement points at no record or at   *)
(* one that was fed in this scan, whichever way testForSequence goes.      *)
(***************************************************************************)
Points(run, m, n) ==
  /\ DOMAIN run = RunFields
  /\ DOMAIN run.userdata = 1..m
  /\ \A k \in 1..m : run.userdata[k] \in 0..n

LEMMA PointsFresh ==
  ASSUME NEW pattern, Len(pattern.insts) \in Nat, NEW n \in Nat
  PROVE  Points(FreshRun(pattern), Len(pattern.insts), n)
BY DEF Points, FreshRun, RunFields, NoRecord

LEMMA PointsMore ==
  ASSUME NEW run, NEW m \in Nat, NEW n \in Nat, Points(run, m, n)
  PROVE  Points(run, m, n + 1)
BY DEF Points

\* Fields other than userdata are of no account.
LEMMA PointsElse ==
  ASSUME NEW run, NEW m \in Nat, NEW n \in Nat, Points(run, m, n), NEW x
  PROVE  /\ Points([run EXCEPT !.inst = x], m, n)
         /\ Points([run EXCEPT !.count = x], m, n)
         /\ Points([run EXCEPT !.env = x], m, n)
BY DEF Points, RunFields

LEMMA PointsTry ==
  ASSUME NEW insts_, NEW run, NEW m \in Nat, NEW n \in Nat, Points(run, m, n),
         NEW k, NEW r, r.id \in 0..n
  PROVE  Points(TryStatement(insts_, run, k, r).run, m, n)
<1> DEFINE v == isMatchInst(run.env, insts_[k], r.ins, r.esp, r.efl)
           t == [run EXCEPT !.env = v.env,
                            !.matched[k]  = IF v.ok THEN @ + 1 ELSE @,
                            !.userdata[k] = IF v.ok THEN r.id ELSE @]
<1>1. TryStatement(insts_, run, k, r).run = t
  BY DEF TryStatement, Counted
<1> HIDE DEF v
<1>2. Points(t, m, n)
  <2>1. DOMAIN t = RunFields /\ t.userdata = [run.userdata EXCEPT ![k] = IF v.ok THEN r.id ELSE @]
    BY DEF Points, RunFields
  <2> HIDE DEF t
  <2> QED
    BY <2>1 DEF Points
<1> QED
  BY <1>1, <1>2

LEMMA PointsForget ==
  ASSUME NEW run, NEW m \in Nat, NEW n \in Nat, Points(run, m, n)
  PROVE  Points(Forget(run), m, n)
BY DEF Points, RunFields, Forget

LEMMA PointsAdvance ==
  ASSUME NEW insts_, NEW run, NEW m \in Nat, NEW n \in Nat, Points(run, m, n),
         NEW k, NEW r, r.id \in 0..n
  PROVE  Points(Advance(insts_, run, k, r), m, n)
<1>1. Points(TryLazily(insts_, run, k, r), m, n)
  BY PointsTry, PointsElse, PointsForget DEF TryLazily, TakenOver
<1> QED
  BY <1>1, PointsElse DEF Advance

LEMMA PointsTake ==
  ASSUME NEW insts_, NEW t, NEW m \in Nat, NEW n \in Nat, Points(t.run, m, n),
         NEW k, NEW r, r.id \in 0..n
  PROVE  /\ Points(TakeOrFail(insts_, t, k, r).run, m, n)
         /\ Points(TakeOrGiveWay(insts_, t, k, r).run, m, n)
<1>1. ASSUME NEW u, Points(u.run, m, n), NEW j
      PROVE  Points(TakeOrFail(insts_, u, j, r).run, m, n)
  BY <1>1, PointsAdvance DEF TakeOrFail, Outcome
<1> DEFINE moved == [t.run EXCEPT !.inst = k + 1]
<1>2. Points(moved, m, n)
  BY PointsElse
<1> HIDE DEF moved
<1>3. Points(TakeOrFail(insts_, TryStatement(insts_, moved, k + 1, r), k + 1, r).run, m, n)
  BY <1>1, <1>2, PointsTry
<1>4. Points(Advance(insts_, t.run, k, r), m, n)
  BY PointsAdvance
<1>5. Points(TakeOrGiveWay(insts_, t, k, r).run, m, n)
  BY <1>2, <1>3, <1>4 DEF TakeOrGiveWay, Outcome, moved
<1> QED
  BY <1>1, <1>5

LEMMA PointsTested ==
  ASSUME NEW pattern, NEW run, NEW m \in Nat, NEW n \in Nat, Points(run, m, n),
         NEW r, r.id \in 0..n
  PROVE  Points(testForSequence(pattern, run, r).run, m, n)
<1> DEFINE I == pattern.insts
           counted == [run EXCEPT !.count = @ + 1]
           before  == ExecuteFrom(I, run.env, run.inst)
           begun   == [counted EXCEPT !.env = before.env]
           t       == testForInstruction(I, begun, before.at, r)
<1>1. Points(counted, m, n)
  BY PointsElse
<1>2. Points(begun, m, n)
  BY <1>1, PointsElse
<1>3. Points(t.run, m, n)
  BY <1>2, PointsTry, PointsTake DEF testForInstruction
<1>4. Points(Tested(I, t).run, m, n)
  <2>1. \A e : Points([t.run EXCEPT !.env = e], m, n)
    BY <1>3, PointsElse
  <2> HIDE DEF t
  <2>2. \A after : Points(Followed(I, t.run, after).run, m, n)
    BY <2>1 DEF Followed, Outcome
  <2> QED
    BY <1>3, <2>2 DEF Tested, Outcome
<1>5. Points(Preceded(I, counted, before, r).run, m, n)
  BY <1>2, <1>4 DEF Preceded, Outcome
<1> QED
  BY <1>1, <1>5 DEF testForSequence, Outcome

LEMMA PointsCleaned ==
  ASSUME NEW run, NEW m \in Nat, NEW n \in Nat, Points(run, m, n)
  PROVE  Points(Cleaned(run), m, n)
BY DEF Points, RunFields, Cleaned, NoRecord

-----------------------------------------------------------------------------
(***************************************************************************)
(* The scan.  WindowIsStretch needs the direction of the cursors, that the *)
(* first record is still to be fed while the verdict is new, and the list  *)
(* invariant of the engine, which says that a call is under way only under *)
(* an open verdict.                                                        *)
(***************************************************************************)
Stretch ==
  /\ subtr # 0
  /\ IF reserve THEN subtr <= tr ELSE tr <= subtr
  /\ Len(window) = (IF reserve THEN tr - subtr ELSE subtr - tr) + 1
  /\ \A n \in 1..Len(window) : window[n] = Fed(insts[FedAt(n)], n)
Scanning ==
  /\ tr # 0
  /\ IF ret = "new" /\ seq = Nil THEN window = <<>> /\ subtr = tr ELSE Stretch
  /\ \A p \in alive : Points(rt[p], Len(Patterns[p].insts), Len(window))
PassInv ==
  /\ ListInv
  /\ IsSequence(insts)
  /\ IsSequence(window)
  /\ DOMAIN rt = PIds
  /\ reserve \in BOOLEAN
  /\ tr \in 0..Len(insts)
  /\ subtr \in 0..Len(insts)
  /\ pc = "scan" => Scanning

LEMMA PassInvInit == RewriteInit => PassInv
<1> SUFFICES ASSUME RewriteInit PROVE PassInv
  OBVIOUS
<1>1. ListInv
  BY ListInvInit DEF RewriteInit
<1>2. IsSequence(insts) /\ Len(insts) \in Nat
  BY RewriteAssumption, SequenceIs DEF RewriteInit
<1>3. IsSequence(window)
  BY EmptyIsSequence DEF RewriteInit, Init
<1>4. DOMAIN rt = PIds
  BY DEF RewriteInit, Init
<1>5. reserve \in BOOLEAN /\ pc # "scan"
  BY DEF RewriteInit
<1>6. tr \in 0..Len(insts) /\ subtr \in 0..Len(insts)
  <2>1. tr = 0 /\ subtr = 0
    BY DEF RewriteInit
  <2> QED
    BY <1>2, <2>1
<1> QED
  BY <1>1, <1>2, <1>3, <1>4, <1>5, <1>6 DEF PassInv

\* One record on, or off the list.
LEMMA AlongIs ==
  ASSUME NEW s, Len(s) \in Nat, NEW i \in 0..Len(s), reserve \in BOOLEAN
  PROVE  /\ Along(s, i) \in 0..Len(s)
         /\ i = 0 => Along(s, i) = 0
         /\ i # 0 /\ reserve => Along(s, i) = i - 1
         /\ i # 0 /\ ~reserve => Along(s, i) = IF i < Len(s) THEN i + 1 ELSE 0
<1>1. CASE i = 0
  BY <1>1 DEF Along
<1>2. CASE i # 0 /\ reserve
  BY <1>2 DEF Along
<1>3. CASE i # 0 /\ ~reserve
  BY <1>3 DEF Along
<1> QED
  BY <1>1, <1>2, <1>3

LEMMA PatternsAre ==
  ASSUME NEW p \in PIds
  PROVE  /\ Len(Patterns[p].insts) \in Nat
         /\ DOMAIN Patterns[p].insts = 1..Len(Patterns[p].insts)
         /\ \A k \in DOMAIN Patterns[p].insts : IsSequence(Patterns[p].insts[k].rps)
BY RewriteAssumption, SequenceIs

LEMMA PassInvBeginPass == ASSUME PassInv, BeginPass PROVE PassInv'
<1>1. Len(insts) \in Nat /\ (insts # <<>> => 1 <= Len(insts))
  BY EmptySeq DEF PassInv, IsSequence
<1>2. UNCHANGED <<vars, insts, reserve, subtr>> /\ pc' = "next"
  BY DEF BeginPass
<1>3. tr' \in 0..Len(insts')
  BY <1>1, <1>2 DEF BeginPass
<1>4. UNCHANGED <<m_seqList, prev, next, rt, seq, ret, sr, window, alive>>
  BY <1>2 DEF vars, list
<1>5. ListInv'
  BY <1>4 DEF PassInv, ListInv, TypeOK, ListIsAlive, VerdictIsRight, CallOpen, IsNext, IsPrev
<1> QED
  BY <1>2, <1>3, <1>4, <1>5 DEF PassInv, IsSequence

LEMMA PassInvBeginScan == ASSUME PassInv, BeginScan PROVE PassInv'
<1> DEFINE S == Selected(reserve)
<1>1. ListInv'
  BY ListInvSelect DEF PassInv, BeginScan
<1>2. /\ seq' = Nil /\ ret' = "new" /\ window' = <<>> /\ alive' = S
      /\ rt' = [p \in PIds |-> IF p \in S THEN Restarted(p) ELSE rt[p]]
      /\ insts' = insts /\ tr # 0
  BY DEF BeginScan, initForTest
<1>3. IsSequence(window') /\ Len(window') = 0
  BY <1>2, EmptyIsSequence
<1>4. \A p \in alive' : Points(rt'[p], Len(Patterns[p].insts), Len(window'))
  <2>1. S \subseteq PIds
    BY DEF Selected
  <2>2. \A p \in S : Points(FreshRun(Patterns[p]), Len(Patterns[p].insts), 0)
    BY <2>1, PatternsAre, PointsFresh
  <2> HIDE DEF S
  <2> QED
    BY <1>2, <1>3, <2>1, <2>2 DEF Restarted
<1>5. /\ reserve' \in BOOLEAN
      /\ tr' \in 0..Len(insts') /\ subtr' \in 0..Len(insts')
      /\ pc' = "scan" => tr' = tr /\ subtr' = tr
  <2>1. Len(insts) \in Nat
    BY SequenceIs DEF PassInv
  <2>2. CASE S = {}
    <3>1. Return(0)
      BY <2>2 DEF BeginScan
    <3>2. tr' = 0 /\ subtr' = 0 /\ reserve' \in BOOLEAN /\ pc' \in {"pass", "done"}
      BY <3>1 DEF Return
    <3> QED
      BY <1>2, <2>1, <3>2
  <2>3. CASE S # {}
    BY <1>2, <2>3 DEF BeginScan, PassInv
  <2> QED
    BY <2>2, <2>3
<1>6. pc' = "scan" => Scanning'
  BY <1>2, <1>4, <1>5 DEF Scanning
<1> QED
  BY <1>1, <1>2, <1>3, <1>5, <1>6 DEF PassInv, IsSequence

LEMMA PassInvFeed == ASSUME PassInv, Feed PROVE PassInv'
<1> DEFINE at == IF ret = "new" THEN subtr ELSE Along(insts, subtr)
           new == Fed(insts[at], Len(window) + 1)
<1>1. /\ pc = "scan" /\ at # 0 /\ testInstruction(insts[at]) /\ subtr' = at
      /\ UNCHANGED <<insts, reserve, tr, pc, nr, ncount>>
  BY DEF Feed
<1>2. /\ seq = Nil /\ ret \in {"new", "0"} /\ m_seqList # Nil
      /\ window' = Append(window, new) /\ seq' = m_seqList
      /\ UNCHANGED <<m_seqList, prev, next, rt, ret, sr, alive>>
  BY <1>1 DEF testInstruction, list
<1>3. ListInv'
  BY <1>1, ListInvCall DEF PassInv
<1>4. /\ Len(insts) \in Nat /\ Len(window) \in Nat
      /\ tr \in 0..Len(insts) /\ subtr \in 0..Len(insts) /\ reserve \in BOOLEAN
      /\ tr # 0
  BY <1>1, SequenceIs DEF PassInv, Scanning
<1>5. at \in 1..Len(insts)
  BY <1>1, <1>4, AlongIs
<1>6. /\ IsSequence(window') /\ Len(window') = Len(window) + 1
      /\ window'[Len(window) + 1] = new
      /\ \A n \in 1..Len(window) : window'[n] = window[n]
  <2> DEFINE S == ToSet(window) \cup {new}
  <2>1. window \in Seq(ToSet(window))
    BY DEF PassInv, IsSequence
  <2>2. window \in Seq(S)
    BY <2>1, SeqMonotonic
  <2>3. new \in S
    OBVIOUS
  <2> HIDE DEF S, new
  <2> QED
    BY <1>2, <2>2, <2>3, AppendProperties, SeqIsSequence, ZenonT(60)
<1>7. new = Fed(insts[at], Len(window) + 1)
  OBVIOUS
<1> HIDE DEF new
<1>8. Stretch'
  <2>1. CASE ret = "new"
    <3>1. window = <<>> /\ subtr = tr /\ Len(window) = 0 /\ at = tr
      BY <1>1, <1>2, <2>1, EmptyIsSequence DEF PassInv, Scanning
    <3>2. FedAt(1) = at
      BY <1>4, <3>1 DEF FedAt
    <3> HIDE DEF at
    <3>3. Len(window') = 1 /\ window'[1] = new
      BY <1>6, <3>1
    <3>4. subtr' = tr' /\ tr' \in Nat /\ subtr' \in Nat /\ tr' # 0
      BY <1>1, <1>4, <3>1
    <3>5. FedAt(1)' = at
      BY <1>1, <3>2 DEF FedAt
    <3>6. window'[1] = Fed(insts'[FedAt(1)'], 1)
      <4>1. Len(window) + 1 = 1
        BY <3>1
      <4> QED
        BY <1>1, <1>7, <3>3, <3>5, <4>1
    <3>7. \A n \in 1..Len(window') :
            window'[n] = Fed(insts'[FedAt(n)'], n)
      <4>1. \A n \in 1..Len(window') : n = 1
        BY <3>3
      <4> QED
        BY <3>6, <4>1
    <3>8. /\ IF reserve' THEN subtr' <= tr' ELSE tr' <= subtr'
          /\ Len(window') = (IF reserve' THEN tr' - subtr' ELSE subtr' - tr') + 1
      <4>1. subtr' <= tr' /\ tr' <= subtr'
        BY <3>4
      <4>2. 1 = (tr' - subtr') + 1 /\ 1 = (subtr' - tr') + 1
        <5>1. \A a \in Nat : 1 = (a - a) + 1
          OBVIOUS
        <5> QED
          BY <3>4, <5>1, Zenon
      <4> QED
        BY <3>3, <4>1, <4>2
    <3>9. subtr' # 0
      BY <3>4
    <3> QED
      BY <3>7, <3>8, <3>9 DEF Stretch
  <2>2. CASE ret # "new"
    <3>1. Stretch
      BY <1>1, <2>2 DEF PassInv, Scanning
    <3>2. at = Along(insts, subtr) /\ subtr # 0
      BY <2>2, <3>1 DEF Stretch
    <3>3. at = IF reserve THEN subtr - 1 ELSE subtr + 1
      BY <1>1, <1>4, <3>2, AlongIs
    <3> HIDE DEF at
    <3>4. /\ at # 0
          /\ IF reserve THEN at <= tr ELSE tr <= at
          /\ Len(window) + 1 = (IF reserve THEN tr - at ELSE at - tr) + 1
      BY <1>4, <1>5, <3>1, <3>3 DEF Stretch
    <3>5. FedAt(Len(window) + 1) = at
      BY <1>4, <1>5, <3>4 DEF FedAt
    <3>6. \A n \in 1..Len(window) + 1 : FedAt(n)' = FedAt(n)
      BY <1>1 DEF FedAt
    <3>7. ASSUME NEW n \in 1..Len(window) + 1
          PROVE  window'[n] = Fed(insts'[FedAt(n)'], n)
      <4>1. CASE n = Len(window) + 1
        BY <1>1, <1>6, <1>7, <3>5, <3>6, <4>1
      <4>2. CASE n \in 1..Len(window)
        BY <1>1, <1>6, <3>1, <3>6, <4>2 DEF Stretch
      <4> QED
        BY <1>4, <4>1, <4>2
    <3> QED
      BY <1>1, <1>6, <3>4, <3>7 DEF Stretch
  <2> QED
    BY <2>1, <2>2
<1>9. \A p \in alive' : Points(rt'[p], Len(Patterns[p].insts), Len(window'))
  <2>1. \A p \in alive : p \in PIds /\ Points(rt[p], Len(Patterns[p].insts), Len(window))
    BY <1>1 DEF PassInv, Scanning, ListInv, TypeOK
  <2> QED
    BY <1>2, <1>4, <1>6, <2>1, PatternsAre, PointsMore
<1>10. Scanning'
  <2>1. seq' # Nil /\ tr' # 0
    BY <1>1, <1>2, <1>4
  <2> QED
    BY <1>8, <1>9, <2>1 DEF Scanning
<1> QED
  BY <1>1, <1>2, <1>3, <1>4, <1>5, <1>6, <1>10 DEF PassInv, IsSequence

LEMMA PassInvTest == ASSUME PassInv, Test PROVE PassInv'
<1> DEFINE o == testForSequence(Patterns[seq], rt[seq], window[Len(window)])
<1>1. pc = "scan" /\ TestPattern /\ UNCHANGED <<insts, reserve, tr, subtr, pc, nr, ncount>>
  BY DEF Test, pass
<1>2. ListInv'
  BY <1>1, ListInvTest DEF PassInv
<1>3. /\ seq # Nil /\ seq \in alive /\ seq \in PIds /\ alive \subseteq PIds
      /\ ret \in {"new", "0"} /\ DOMAIN rt = PIds
  BY <1>1 DEF TestPattern, PassInv, ListInv, TypeOK, ListIsAlive, CallOpen
<1>4. /\ window' = window
      /\ rt' = [rt EXCEPT ![seq] = IF o.state = "fail" THEN Cleaned(o.run) ELSE o.run]
      /\ alive' \subseteq alive
  BY <1>1 DEF TestPattern, Answered
<1>5. ~(ret' = "new" /\ seq' = Nil)
  BY <1>1, <1>3 DEF TestPattern, Answered, StepPast
<1>6. Scanning
  BY <1>1 DEF PassInv
<1>7. Stretch /\ tr # 0
  BY <1>3, <1>6 DEF Scanning
<1>8. Stretch'
  BY <1>1, <1>4, <1>7 DEF Stretch, FedAt
<1>9. Len(window) \in Nat /\ window[Len(window)].id = Len(window)
  <2>1. Len(window) \in Nat
    BY SequenceIs DEF PassInv
  <2>2. Len(window) # 0
    <3>1. tr \in Nat /\ subtr \in Nat
      BY SequenceIs DEF PassInv
    <3>2. CASE reserve
      <4>1. Len(window) = (tr - subtr) + 1 /\ subtr <= tr
        BY <1>7, <3>2 DEF Stretch
      <4> QED
        BY <3>1, <4>1
    <3>3. CASE ~reserve
      <4>1. Len(window) = (subtr - tr) + 1 /\ tr <= subtr
        BY <1>7, <3>3 DEF Stretch
      <4> QED
        BY <3>1, <4>1
    <3> QED
      BY <3>2, <3>3
  <2>3. window[Len(window)] = Fed(insts[FedAt(Len(window))], Len(window))
    BY <1>7, <2>1, <2>2 DEF Stretch
  <2> QED
    BY <2>1, <2>3 DEF Fed
<1>10. \A p \in alive' : Points(rt'[p], Len(Patterns[p].insts), Len(window'))
  <2>1. \A p \in alive : Points(rt[p], Len(Patterns[p].insts), Len(window))
    BY <1>6 DEF Scanning
  <2>2. Points(o.run, Len(Patterns[seq].insts), Len(window))
    <3>1. window[Len(window)].id \in 0..Len(window)
      BY <1>9
    <3>2. Len(Patterns[seq].insts) \in Nat
      BY <1>3, PatternsAre
    <3> QED
      BY <1>3, <1>9, <2>1, <3>1, <3>2, PointsTested
  <2>3. Points(Cleaned(o.run), Len(Patterns[seq].insts), Len(window))
    BY <1>3, <1>9, <2>2, PatternsAre, PointsCleaned
  <2> HIDE DEF o
  <2> QED
    BY <1>3, <1>4, <2>1, <2>2, <2>3
<1>11. Scanning'
  BY <1>1, <1>5, <1>7, <1>8, <1>10 DEF Scanning
<1>12. DOMAIN rt' = PIds
  BY <1>3, <1>4
<1> QED
  BY <1>1, <1>2, <1>4, <1>11, <1>12 DEF PassInv, IsSequence

LEMMA PassInvNextStart == ASSUME PassInv, NextStart PROVE PassInv'
<1>1. /\ UNCHANGED <<vars, insts, reserve, subtr>> /\ pc' = "next"
      /\ tr' = Along(insts, tr)
  BY DEF NextStart
<1>2. tr' \in 0..Len(insts)
  BY <1>1, SequenceIs, AlongIs DEF PassInv
<1>3. UNCHANGED <<m_seqList, prev, next, rt, seq, ret, sr, window, alive>>
  BY <1>1 DEF vars, list
<1>4. ListInv'
  BY <1>3 DEF PassInv, ListInv, TypeOK, ListIsAlive, VerdictIsRight, CallOpen, IsNext, IsPrev
<1> QED
  BY <1>1, <1>2, <1>3, <1>4 DEF PassInv, IsSequence

LEMMA PassInvEndPass == ASSUME PassInv, EndPass PROVE PassInv'
<1> DEFINE R == [n \in DOMAIN insts |-> IF insts[n].deleted THEN <<>> ELSE <<insts[n]>>]
<1>1. insts' = FlattenSeq(R)
  BY DEF EndPass, deleteFlagedInSeq
<1>2. Len(insts) \in Nat /\ DOMAIN insts = 1..Len(insts)
  BY SequenceIs DEF PassInv
<1>3. IsSequence(insts')
  <2>1. \A x : IsSequence(<<x>>)
    <3>1. \A x : <<x>> \in Seq({x})
      OBVIOUS
    <3> QED
      BY <3>1, SeqIsSequence
  <2>2. R = [n \in 1..Len(insts) |-> R[n]]
    BY <1>2
  <2>3. \A n \in 1..Len(insts) : IsSequence(R[n])
    BY <1>2, <2>1, EmptyIsSequence
  <2> HIDE DEF R
  <2> QED
    BY <1>1, <1>2, <2>2, <2>3, FlattenFamily
<1>4. Return(Len(insts) - Len(insts')) /\ UNCHANGED vars
  BY DEF EndPass
<1>5. /\ tr' = 0 /\ subtr' = 0 /\ reserve' \in BOOLEAN /\ pc' # "scan"
      /\ UNCHANGED <<m_seqList, prev, next, rt, seq, ret, sr, window, alive>>
  <2>1. pc' \in {"pass", "done"}
    BY <1>4 DEF Return
  <2> QED
    BY <1>4, <2>1 DEF Return, vars, list
<1>6. tr' \in 0..Len(insts') /\ subtr' \in 0..Len(insts')
  BY <1>3, <1>5, SequenceIs
<1>7. ListInv'
  BY <1>5 DEF PassInv, ListInv, TypeOK, ListIsAlive, VerdictIsRight, CallOpen, IsNext, IsPrev
<1> QED
  BY <1>3, <1>5, <1>6, <1>7 DEF PassInv, IsSequence

-----------------------------------------------------------------------------
(***************************************************************************)
(* A match.  The statements of the pattern point into the stretch, so the  *)
(* records before and after it stay one record each; a record of it may    *)
(* become several.                                                         *)
(***************************************************************************)
Matched == PassInv /\ pc = "scan" /\ ret = "1"

LEMMA MatchIs ==
  ASSUME Matched
  PROVE  /\ sr \in PIds
         /\ Points(rt[sr], Len(Patterns[sr].insts), Len(window))
         /\ Stretch
         /\ reserve \in BOOLEAN
         /\ Len(insts) \in Nat /\ Len(window) \in Nat
         /\ tr \in 1..Len(insts) /\ subtr \in 1..Len(insts)
<1>1. sr \in PIds /\ sr \in alive
  BY DEF Matched, PassInv, ListInv, TypeOK, VerdictIsRight
<1>2. Scanning
  BY DEF Matched, PassInv
<1>3. Stretch /\ Points(rt[sr], Len(Patterns[sr].insts), Len(window)) /\ tr # 0
  BY <1>1, <1>2 DEF Scanning, Matched
<1>4. Len(insts) \in Nat /\ Len(window) \in Nat
  BY SequenceIs DEF Matched, PassInv
<1>5. tr \in 0..Len(insts) /\ subtr \in 0..Len(insts) /\ reserve \in BOOLEAN
  BY DEF Matched, PassInv
<1>6. subtr # 0
  BY <1>3 DEF Stretch
<1> QED
  BY <1>1, <1>3, <1>4, <1>5, <1>6

LEMMA PointingInside ==
  ASSUME Matched, NEW i \in Int, (i < tr /\ i < subtr) \/ (tr < i /\ subtr < i)
  PROVE  PointingAt(i) = {}
<1> SUFFICES ASSUME NEW k \in PointingAt(i) PROVE FALSE
  OBVIOUS
<1> DEFINE u == rt[sr].userdata[k]
<1>1. u # NoRecord /\ FedAt(u) = i /\ k \in DOMAIN Patterns[sr].insts
  BY DEF PointingAt
<1>2. u \in 0..Len(window)
  BY <1>1, MatchIs, PatternsAre DEF Points
<1>3. u \in 1..Len(window)
  BY <1>1, <1>2, MatchIs DEF NoRecord
<1> HIDE DEF u
<1>4. CASE reserve
  <2>1. Len(window) = (tr - subtr) + 1 /\ subtr <= tr
    BY <1>4, MatchIs DEF Stretch
  <2>2. tr - u + 1 = i
    BY <1>1, <1>4 DEF FedAt
  <2> QED
    BY <1>3, <2>1, <2>2, MatchIs
<1>5. CASE ~reserve
  <2>1. Len(window) = (subtr - tr) + 1 /\ tr <= subtr
    BY <1>5, MatchIs DEF Stretch
  <2>2. tr + u - 1 = i
    BY <1>1, <1>5 DEF FedAt
  <2> QED
    BY <1>3, <2>1, <2>2, MatchIs
<1> QED
  BY <1>4, <1>5

LEMMA NewRecordsAre ==
  ASSUME Matched, NEW k \in DOMAIN Patterns[sr].insts, NEW i
  PROVE  IsSequence(NewRecords(k, i))
<1> DEFINE rps == Patterns[sr].insts[k].rps
           R == [n \in DOMAIN rps |-> IF Produces(rps[n]) THEN <<NewRecord(k, i, rps[n])>> ELSE <<>>]
<1>1. Len(rps) \in Nat /\ DOMAIN rps = 1..Len(rps)
  BY MatchIs, PatternsAre, SequenceIs
<1>2. \A n \in 1..Len(rps) : IsSequence(R[n])
  <2>1. \A x : IsSequence(<<x>>)
    <3>1. \A x : <<x>> \in Seq({x})
      OBVIOUS
    <3> QED
      BY <3>1, SeqIsSequence
  <2> QED
    BY <1>1, <2>1, EmptyIsSequence
<1>3. R = [n \in 1..Len(rps) |-> R[n]]
  BY <1>1
<1>4. NewRecords(k, i) = FlattenSeq(R)
  BY DEF NewRecords
<1> HIDE DEF R, rps
<1> QED
  BY <1>1, <1>2, <1>3, <1>4, FlattenFamily

LEMMA AddedAre ==
  ASSUME Matched, NEW i
  PROVE  /\ IsSequence(Added(i))
         /\ PointingAt(i) = {} => Len(Added(i)) = 0
<1> DEFINE m == Len(Patterns[sr].insts)
           R == [n \in 1..m |->
                  IF m + 1 - n \in PointingAt(i) THEN NewRecords(m + 1 - n, i) ELSE <<>>]
<1>1. m \in Nat /\ DOMAIN Patterns[sr].insts = 1..m
  BY MatchIs, PatternsAre
<1>2. \A n \in 1..m : IsSequence(R[n])
  <2>1. \A k \in PointingAt(i) : k \in DOMAIN Patterns[sr].insts
    BY DEF PointingAt
  <2> QED
    BY <2>1, NewRecordsAre, EmptyIsSequence
<1>3. Added(i) = FlattenSeq(R) /\ R = [n \in 1..m |-> R[n]]
  BY DEF Added
<1>4. PointingAt(i) = {} => \A n \in 1..m : Len(R[n]) = 0
  BY EmptyIsSequence
<1> HIDE DEF R, m
<1>5. PICK S : R \in [1..m -> Seq(S)]
  BY <1>1, <1>2, <1>3, FlattenFamily
<1>6. ASSUME PointingAt(i) = {} PROVE Len(Added(i)) = 0
  <2>1. 0 \in 0..m /\ m \in 0..m
    BY <1>1
  <2>2. \A n \in 0+1..m : Len(R[n]) = 0
    BY <1>4, <1>6
  <2>3. Len(FlattenSeq(Prefix(R, m))) = Len(FlattenSeq(Prefix(R, 0)))
    BY <1>1, <1>5, <2>1, <2>2, FlattenGap
  <2>4. Len(FlattenSeq(Prefix(R, 0))) = 0
    BY <1>1, <1>5, FlattenPrefix, EmptyIsSequence
  <2>5. Prefix(R, m) = R
    BY <1>3 DEF Prefix
  <2> QED
    BY <1>3, <2>3, <2>4, <2>5
<1> QED
  BY <1>1, <1>2, <1>3, <1>6, FlattenFamily

LEMMA ReplacedAre ==
  ASSUME Matched, NEW i
  PROVE  /\ IsSequence(Replaced(i))
         /\ Len(Replaced(i)) >= 1
         /\ PointingAt(i) = {} => Len(Replaced(i)) = 1
<1> DEFINE x == [insts[i] EXCEPT !.deleted = @ \/ \E k \in PointingAt(i) : Condemns(k)]
           S == ToSet(Added(i)) \cup {x}
<1>1. Replaced(i) = <<x>> \o Added(i)
  BY DEF Replaced
<1> HIDE DEF x
<1>2. Added(i) \in Seq(S) /\ <<x>> \in Seq(S)
  <2>1. Added(i) \in Seq(ToSet(Added(i)))
    BY AddedAre DEF IsSequence
  <2>2. Added(i) \in Seq(S)
    BY <2>1, SeqMonotonic
  <2>3. x \in S
    OBVIOUS
  <2> HIDE DEF S
  <2> QED
    BY <2>2, <2>3
<1> HIDE DEF S
<1>3. <<x>> \o Added(i) \in Seq(S) /\ Len(<<x>> \o Added(i)) = 1 + Len(Added(i))
  BY <1>2, ConcatProperties
<1>4. Len(Added(i)) \in Nat
  BY <1>2
<1>5. IsSequence(Replaced(i)) /\ Len(Replaced(i)) = 1 + Len(Added(i))
  BY <1>1, <1>3, SeqIsSequence
<1>6. PointingAt(i) = {} => Len(Added(i)) = 0
  BY AddedAre
<1> QED
  BY <1>4, <1>5, <1>6

\* The list after the replacement: it is a sequence, an index of the old list is moved to
\* one of the new, the records up to the first of the stretch keep their index, and
\* behind a record that is behind the stretch there are as many as before.
LEMMA MovedIs ==
  ASSUME Matched,
         NEW s, s = FlattenSeq([n \in 1..Len(insts) |-> Replaced(n)])
  PROVE  /\ IsSequence(s) /\ Len(s) \in Nat
         /\ \A j \in 0..Len(insts) : Moved(j) \in 0..Len(s)
         /\ \A j \in 1..Len(insts) :
              /\ Moved(j) # 0
              /\ j <= tr /\ j <= subtr => Moved(j) = j
              /\ tr < j /\ subtr < j => Len(s) - Moved(j) = Len(insts) - j
<1> DEFINE L == Len(insts)
           R == [n \in 1..L |-> Replaced(n)]
           N(j) == Len(FlattenSeq(Prefix(R, j)))
<1>1. L \in Nat
  BY MatchIs
<1>2. /\ \A n \in 1..L : IsSequence(R[n])
      /\ R = [n \in 1..L |-> R[n]]
  BY ReplacedAre
<1>3. PICK S : R \in [1..L -> Seq(S)]
  <2> HIDE DEF R
  <2> QED
    BY <1>1, <1>2, FlattenFamily
<1>4. IsSequence(s) /\ Len(s) = N(L)
  <2>1. Prefix(R, L) = R
    BY DEF Prefix
  <2>2. s = FlattenSeq(R)
    OBVIOUS
  <2>3. IsSequence(FlattenSeq(R))
    <3> HIDE DEF R
    <3> QED
      BY <1>1, <1>2, FlattenFamily
  <2> QED
    BY <2>1, <2>2, <2>3
<1>5. \A j \in 1..L : Moved(j) = N(j-1) + 1
  <2>1. ASSUME NEW j \in 1..L PROVE Prefix(R, j-1) = [n \in 1..(j-1) |-> Replaced(n)]
    <3>1. \A n \in 1..(j-1) : n \in 1..L
      OBVIOUS
    <3> QED
      BY <3>1 DEF Prefix
  <2>2. \A j \in 1..L : j # 0
    OBVIOUS
  <2> QED
    BY <2>1, <2>2 DEF Moved
<1>6. /\ \A n \in 1..L : Len(R[n]) \in Nat /\ Len(R[n]) >= 1
      /\ \A n \in 1..L : (n < tr /\ n < subtr) \/ (tr < n /\ subtr < n) => Len(R[n]) = 1
  <2>1. \A n \in 1..L : R[n] = Replaced(n)
    OBVIOUS
  <2>2. \A n \in 1..L : Len(Replaced(n)) \in Nat
    BY ReplacedAre, SequenceIs
  <2>3. \A n \in 1..L :
          (n < tr /\ n < subtr) \/ (tr < n /\ subtr < n) => PointingAt(n) = {}
    <3>1. \A n \in 1..L : n \in Int
      OBVIOUS
    <3> QED
      BY <3>1, PointingInside
  <2> HIDE DEF R
  <2> QED
    BY <2>1, <2>2, <2>3, ReplacedAre
<1>7. ASSUME NEW j \in 1..L PROVE N(j) = N(j-1) + Len(R[j])
  <2>1. FlattenSeq(Prefix(R, j)) = FlattenSeq(Prefix(R, j-1)) \o R[j]
    BY <1>1, <1>3, FlattenPrefix
  <2>2. j - 1 \in 0..L
    BY <1>1
  <2>3. FlattenSeq(Prefix(R, j-1)) \in Seq(S) /\ R[j] \in Seq(S)
    BY <1>1, <1>3, <2>2, FlattenPrefix
  <2> QED
    BY <2>1, <2>3, ConcatProperties
<1>8. N(0) = 0
  BY <1>1, <1>3, FlattenPrefix, EmptyIsSequence
<1>9. \A i \in 0..L : \A j \in i..L :
        /\ N(i) \in Nat /\ N(j) \in Nat /\ N(i) <= N(j)
        /\ (\A n \in i+1..j : Len(R[n]) = 1) => N(j) = N(i) + (j - i)
  <2> HIDE DEF R, L
  <2> SUFFICES ASSUME NEW i \in 0..L, NEW j \in i..L
               PROVE  /\ N(i) \in Nat /\ N(j) \in Nat /\ N(i) <= N(j)
                      /\ (\A n \in i+1..j : Len(R[n]) = 1) => N(j) = N(i) + (j - i)
    BY Zenon
  <2> QED
    BY <1>1, <1>3, FlattenGap
<1>10. tr \in 1..L /\ subtr \in 1..L
  BY MatchIs
<1> HIDE DEF R, N, L
<1>11. ASSUME NEW j \in 1..L
       PROVE  /\ Moved(j) # 0 /\ Moved(j) \in 0..Len(s)
              /\ j <= tr /\ j <= subtr => Moved(j) = j
              /\ tr < j /\ subtr < j => Len(s) - Moved(j) = L - j
  <2>1. 0 \in 0..L /\ j - 1 \in 0..L /\ j - 1 \in 0..L /\ j \in 0..L /\ L \in j..L
    BY <1>1
  <2>2. N(j-1) \in Nat /\ N(j) \in Nat /\ N(L) \in Nat /\ N(j) <= N(L)
    BY <1>9, <2>1
  <2>3. N(j) = N(j-1) + Len(R[j]) /\ Moved(j) = N(j-1) + 1
    BY <1>5, <1>7
  <2>4. Moved(j) # 0 /\ Moved(j) \in 0..Len(s)
    BY <1>4, <1>6, <2>2, <2>3
  <2>5. ASSUME j <= tr, j <= subtr PROVE Moved(j) = j
    <3>1. \A n \in 0+1..j-1 : n \in 1..L /\ n < tr /\ n < subtr
      BY <1>1, <1>10, <2>5
    <3>2. j - 1 \in 0..L /\ 0 \in 0..L /\ j - 1 \in 0..j-1
      BY <1>1
    <3>3. N(j-1) = N(0) + ((j - 1) - 0)
      BY <1>1, <1>6, <1>9, <3>1, <3>2
    <3> QED
      BY <1>8, <2>3, <3>3
  <2>6. ASSUME tr < j, subtr < j PROVE Len(s) - Moved(j) = L - j
    <3>1. \A n \in (j-1)+1..L : n \in 1..L /\ tr < n /\ subtr < n
      BY <1>1, <1>10, <2>6
    <3>2. N(L) = N(j-1) + (L - (j - 1))
      BY <1>1, <1>6, <1>9, <2>1, <3>1
    <3> QED
      BY <1>1, <1>4, <2>2, <2>3, <3>2
  <2> QED
    BY <2>4, <2>5, <2>6
<1>12. Moved(0) = 0 /\ Len(s) \in Nat
  BY <1>4, SequenceIs DEF Moved
<1>13. \A j \in 0..L : Moved(j) \in 0..Len(s)
  BY <1>1, <1>11, <1>12
<1> QED
  BY <1>4, <1>11, <1>12, <1>13 DEF L

LEMMA ReplaceIs ==
  ASSUME PassInv, Replace
  PROVE  /\ Matched
         /\ insts' = FlattenSeq([n \in 1..Len(insts) |-> Replaced(n)])
         /\ subtr' = Moved(Along(insts, subtr))
         /\ tr' = Along(insts', subtr')
         /\ subtr' \in 0..Len(insts') /\ tr' \in 0..Len(insts')
         /\ IsSequence(insts') /\ Len(insts') \in Nat
         /\ reserve' = reserve /\ pc' = "next" /\ UNCHANGED vars
<1> DEFINE s == FlattenSeq([n \in 1..Len(insts) |-> Replaced(n)])
<1>1. /\ Matched
      /\ insts' = s
      /\ subtr' = Moved(Along(insts, subtr))
      /\ tr' = Along(s, subtr')
      /\ reserve' = reserve /\ pc' = "next" /\ UNCHANGED vars
  BY DEF Replace, Resume, Matched
<1>2. /\ IsSequence(s) /\ Len(s) \in Nat
      /\ \A j \in 0..Len(insts) : Moved(j) \in 0..Len(s)
  BY <1>1, MovedIs
<1>3. Along(insts, subtr) \in 0..Len(insts) /\ reserve \in BOOLEAN
  BY <1>1, MatchIs, AlongIs
<1> HIDE DEF s
<1>4. subtr' \in 0..Len(s)
  BY <1>1, <1>2, <1>3
<1>5. tr' \in 0..Len(s)
  BY <1>1, <1>2, <1>3, <1>4, AlongIs
<1> QED
  BY <1>1, <1>2, <1>4, <1>5 DEF s

LEMMA PassInvReplace == ASSUME PassInv, Replace PROVE PassInv'
<1>1. /\ IsSequence(insts') /\ subtr' \in 0..Len(insts') /\ tr' \in 0..Len(insts')
      /\ reserve' = reserve /\ pc' = "next"
      /\ UNCHANGED <<m_seqList, prev, next, rt, seq, ret, sr, window, alive>>
  BY ReplaceIs DEF vars, list
<1>2. ListInv'
  BY <1>1 DEF PassInv, ListInv, TypeOK, ListIsAlive, VerdictIsRight, CallOpen, IsNext, IsPrev
<1> QED
  BY <1>1, <1>2 DEF PassInv, IsSequence

LEMMA PassInvStep == PassInv /\ [RewriteNext]_rvars => PassInv'
<1> SUFFICES ASSUME PassInv, [RewriteNext]_rvars PROVE PassInv'
  OBVIOUS
<1>1. CASE BeginPass
  BY <1>1, PassInvBeginPass
<1>2. CASE BeginScan
  BY <1>2, PassInvBeginScan
<1>3. CASE EndPass
  BY <1>3, PassInvEndPass
<1>4. CASE Feed
  BY <1>4, PassInvFeed
<1>5. CASE Test
  BY <1>5, PassInvTest
<1>6. CASE NextStart
  BY <1>6, PassInvNextStart
<1>7. CASE Replace
  BY <1>7, PassInvReplace
<1>8. CASE UNCHANGED rvars
  <2>1. /\ UNCHANGED <<m_seqList, prev, next, rt, seq, ret, sr, window, alive>>
        /\ UNCHANGED <<insts, reserve, tr, subtr, pc>>
    BY <1>8 DEF rvars, vars, pass, list
  <2>2. ListInv'
    BY <2>1 DEF PassInv, ListInv, TypeOK, ListIsAlive, VerdictIsRight, CallOpen, IsNext, IsPrev
  <2>3. Stretch => Stretch'
    BY <2>1 DEF Stretch, FedAt
  <2>4. Scanning => Scanning'
    BY <2>1, <2>3 DEF Scanning
  <2>5. IsSequence(insts)' /\ IsSequence(window)'
    BY <2>1 DEF PassInv, IsSequence
  <2> QED
    BY <2>1, <2>2, <2>4, <2>5 DEF PassInv
<1> QED
  BY <1>1, <1>2, <1>3, <1>4, <1>5, <1>6, <1>7, <1>8 DEF RewriteNext

LEMMA PassInvAlways == RewriteSpec => []PassInv
<1>1. RewriteInit => PassInv
  BY PassInvInit
<1>2. PassInv /\ [RewriteNext]_rvars => PassInv'
  BY PassInvStep
<1> QED
  BY <1>1, <1>2, PTL DEF RewriteSpec

-----------------------------------------------------------------------------
(***************************************************************************)
(* A statement k that must take a record: before it has taken one, the     *)
(* pattern is not past it, and it cannot match.                            *)
(***************************************************************************)
LEMMA FirstTaker ==
  ASSUME NEW s, Len(s) \in Nat, NEW k \in 1..Len(s), s[k].type = "instruction",
         NEW j \in 1..k, NEW e
  PROVE  ExecuteFrom(s, e, j).ok => ExecuteFrom(s, e, j).at \in j..k
<1> DEFINE L == Len(s)
           Q(f, n) == IF n = j - 1 THEN RanInit(s, e) ELSE RanNext(s, f[n-1], n)
           c == CHOOSE f : IsRan(s, e, j, L, f)
<1>1. ExecuteFrom(s, e, j) = c[L]
  BY DEF ExecuteFrom, IsRan, RanInit, RanNext
<1>2. IsRan(s, e, j, L, c)
  <2>1. j \in Nat /\ L \in Nat
    OBVIOUS
  <2>2. \E f : IsRan(s, e, j, L, f)
    BY <2>1, RanExists
  <2> QED
    BY <2>2
<1>3. \A n \in (j-1)..L : c[n] = Q(c, n)
  BY <1>2, RanAt
<1> HIDE DEF c
<1> DEFINE Claim(x, n) ==
             /\ DOMAIN x = {"ok", "env", "at"}
             /\ x.ok => x.at \in j..k \/ (n < k /\ x.at = L + 1)
           T == {n \in Nat : (j - 1) + n <= L => Claim(c[(j-1)+n], (j-1)+n)}
<1>4. 0 \in T
  <2>1. (j - 1) + 0 = j - 1 /\ j - 1 \in (j-1)..L /\ j - 1 < k
    OBVIOUS
  <2>2. c[j-1] = RanInit(s, e)
    BY <1>3, <2>1
  <2>3. Claim(c[j-1], j-1)
    BY <2>1, <2>2 DEF RanInit
  <2> QED
    BY <2>1, <2>3
<1>5. ASSUME NEW i \in T PROVE i + 1 \in T
  <2> SUFFICES ASSUME (j - 1) + (i + 1) <= L PROVE Claim(c[(j-1)+(i+1)], (j-1)+(i+1))
    OBVIOUS
  <2> DEFINE n == (j - 1) + (i + 1)
             x == c[n-1]
  <2>1. n \in (j-1)..L /\ n # j - 1 /\ n - 1 = (j - 1) + i /\ n \in j..L /\ n \in Nat
    OBVIOUS
  <2>2. c[n] = RanNext(s, x, n)
    BY <1>3, <2>1
  <2>3. Claim(x, n - 1)
    BY <2>1
  <2> HIDE DEF n, x
  <2>4. Claim(RanNext(s, x, n), n)
    <3>1. CASE ~x.ok \/ x.at <= L
      <4>1. RanNext(s, x, n) = x
        BY <3>1 DEF RanNext
      <4> QED
        BY <2>1, <2>3, <3>1, <4>1
    <3>2. CASE ~(~x.ok \/ x.at <= L) /\ s[n].type = "instruction"
      <4>1. RanNext(s, x, n) = [x EXCEPT !.at = n]
        BY <3>2 DEF RanNext
      <4>2. n - 1 < k
        BY <2>3, <3>2
      <4> QED
        BY <2>1, <2>3, <4>1, <4>2
    <3>3. CASE ~(~x.ok \/ x.at <= L) /\ s[n].type # "instruction"
      <4>1. RanNext(s, x, n) = [ok |-> Execute(x.env, s[n]).ok, env |-> Execute(x.env, s[n]).env,
                                at |-> L + 1]
        BY <3>3 DEF RanNext
      <4>2. n - 1 < k /\ n # k
        BY <2>3, <3>3
      <4> QED
        BY <2>1, <4>1, <4>2
    <3> QED
      BY <3>1, <3>2, <3>3
  <2> QED
    BY <2>2, <2>4 DEF n
<1>6. T = Nat
  <2> HIDE DEF T
  <2>1. T \in SUBSET Nat
    BY DEF T
  <2> QED
    BY <1>4, <1>5, <2>1, InductionBySet
<1>7. Claim(c[L], L)
  <2>1. PICK d \in Nat : (j - 1) + d = L
    <3>1. L - (j - 1) \in Nat /\ (j - 1) + (L - (j - 1)) = L
      OBVIOUS
    <3> QED
      BY <3>1
  <2>2. (j - 1) + d <= L => Claim(c[(j-1)+d], (j-1)+d)
    BY <1>6
  <2> QED
    BY <2>1, <2>2
<1> QED
  BY <1>1, <1>7

\* A run of a pattern of m statements: statement k has taken a record, or has not and
\* is still to come.
Took(run, m, k) ==
  Shaped(run, m) /\ run.matched[k] \in Nat \ {0} /\ run.userdata[k] # NoRecord
Owes(run, m, k) ==
  Shaped(run, m) /\ run.matched[k] = 0 /\ run.inst \in 1..k
InTime(run, m, k) == Took(run, m, k) \/ Owes(run, m, k)

LEMMA TookElse ==
  ASSUME NEW run, NEW m, NEW k, Took(run, m, k), NEW x
  PROVE  /\ Took([run EXCEPT !.inst = x], m, k)
         /\ Took([run EXCEPT !.count = x], m, k)
         /\ Took([run EXCEPT !.env = x], m, k)
BY DEF Took, Shaped, RunFields

LEMMA TookForget ==
  ASSUME NEW run, NEW m, NEW k, Took(run, m, k)
  PROVE  Took(Forget(run), m, k)
BY DEF Took, Shaped, RunFields, Forget

\* What a try does to the counts and the userdata.
Tries(t, run, m, j, r) ==
  /\ Shaped(t.run, m)
  /\ t.run.inst = run.inst
  /\ t.run.matched = [run.matched EXCEPT ![j] = IF t.ok THEN @ + 1 ELSE @]
  /\ t.run.userdata = [run.userdata EXCEPT ![j] = IF t.ok THEN r.id ELSE @]

LEMMA TryIs ==
  ASSUME NEW s, NEW run, NEW m, Shaped(run, m), NEW j, NEW r,
         NEW t, t = TryStatement(s, run, j, r)
  PROVE  Tries(t, run, m, j, r)
<1> DEFINE v == isMatchInst(run.env, s[j], r.ins, r.esp, r.efl)
           u == [run EXCEPT !.env = v.env,
                            !.matched[j]  = IF v.ok THEN @ + 1 ELSE @,
                            !.userdata[j] = IF v.ok THEN r.id ELSE @]
<1>1. t.run = u /\ t.ok = v.ok
  BY DEF TryStatement, Counted
<1> HIDE DEF v
<1>2. /\ Shaped(u, m)
      /\ u.inst = run.inst
      /\ u.matched = [run.matched EXCEPT ![j] = IF v.ok THEN @ + 1 ELSE @]
      /\ u.userdata = [run.userdata EXCEPT ![j] = IF v.ok THEN r.id ELSE @]
  BY DEF Shaped, RunFields
<1> HIDE DEF u
<1> QED
  BY <1>1, <1>2 DEF Tries

LEMMA TookTry ==
  ASSUME NEW run, NEW m \in Nat, NEW k \in 1..m, Took(run, m, k),
         NEW s, NEW j, NEW r, r.id # NoRecord
  PROVE  Took(TryStatement(s, run, j, r).run, m, k)
<1> DEFINE t == TryStatement(s, run, j, r)
<1>1. Shaped(run, m) /\ run.matched[k] \in Nat \ {0} /\ run.userdata[k] # NoRecord
  BY DEF Took
<1>0. t = TryStatement(s, run, j, r)
  OBVIOUS
<1> HIDE DEF t
<1>2. Tries(t, run, m, j, r)
  BY <1>0, <1>1, TryIs
<1>3. t.run.matched[k] \in Nat \ {0}
  BY <1>1, <1>2 DEF Shaped, Tries
<1>4. t.run.userdata[k] # NoRecord
  BY <1>1, <1>2 DEF Shaped, Tries
<1> QED
  BY <1>2, <1>3, <1>4 DEF t, Took, Tries

LEMMA TookAdvance ==
  ASSUME NEW run, NEW m \in Nat, NEW k \in 1..m, Took(run, m, k),
         NEW s, NEW j, NEW r, r.id # NoRecord
  PROVE  Took(Advance(s, run, j, r), m, k)
<1>1. Took(TryLazily(s, run, j, r), m, k)
  BY TookTry, TookElse, TookForget DEF TryLazily, TakenOver
<1> QED
  BY <1>1, TookElse DEF Advance

LEMMA TookTake ==
  ASSUME NEW t, NEW m \in Nat, NEW k \in 1..m, Took(t.run, m, k),
         NEW s, NEW j, NEW r, r.id # NoRecord
  PROVE  /\ Took(TakeOrFail(s, t, j, r).run, m, k)
         /\ Took(TakeOrGiveWay(s, t, j, r).run, m, k)
<1>1. ASSUME NEW u, Took(u.run, m, k), NEW i
      PROVE  Took(TakeOrFail(s, u, i, r).run, m, k)
  BY <1>1, TookAdvance DEF TakeOrFail, Outcome
<1> DEFINE moved == [t.run EXCEPT !.inst = j + 1]
<1>2. Took(moved, m, k)
  BY TookElse
<1> HIDE DEF moved
<1>3. Took(TakeOrFail(s, TryStatement(s, moved, j + 1, r), j + 1, r).run, m, k)
  BY <1>1, <1>2, TookTry
<1>4. Took(Advance(s, t.run, j, r), m, k)
  BY TookAdvance
<1>5. Took(TakeOrGiveWay(s, t, j, r).run, m, k)
  BY <1>2, <1>3, <1>4 DEF TakeOrGiveWay, Outcome, moved
<1> QED
  BY <1>1, <1>5

-----------------------------------------------------------------------------
\* A try of statement k or of one before it.
LEMMA OwesTry ==
  ASSUME NEW run, NEW m \in Nat, NEW k \in 1..m, Owes(run, m, k),
         NEW s, NEW j \in 1..k, NEW r, r.id # NoRecord,
         NEW t, t = TryStatement(s, run, j, r)
  PROVE  /\ t.ok /\ j = k => Took(t.run, m, k)
         /\ ~t.ok \/ j < k => Owes(t.run, m, k)
<1>1. Shaped(run, m) /\ run.matched[k] = 0 /\ run.inst \in 1..k
  BY DEF Owes
<1>2. Tries(t, run, m, j, r)
  BY <1>1, TryIs
<1>3. ASSUME t.ok, j = k PROVE Took(t.run, m, k)
  <2>1. t.run.matched[k] = 1 /\ t.run.userdata[k] = r.id
    BY <1>1, <1>2, <1>3 DEF Shaped, Tries
  <2> QED
    BY <1>2, <2>1 DEF Took, Tries
<1>4. ASSUME ~t.ok \/ j < k PROVE Owes(t.run, m, k)
  <2>1. t.run.matched[k] = 0
    BY <1>1, <1>2, <1>4 DEF Shaped, Tries
  <2> QED
    BY <1>1, <1>2, <2>1 DEF Owes, Tries
<1> QED
  BY <1>3, <1>4

LEMMA OwesForget ==
  ASSUME NEW run, NEW m, NEW k, Owes(run, m, k)
  PROVE  Owes(Forget(run), m, k)
BY DEF Owes, Shaped, RunFields, Forget

LEMMA OwesElse ==
  ASSUME NEW run, NEW m \in Nat, NEW k \in 1..m, Owes(run, m, k), NEW x
  PROVE  /\ x \in 1..k => Owes([run EXCEPT !.inst = x], m, k)
         /\ Owes([run EXCEPT !.count = x], m, k)
         /\ Owes([run EXCEPT !.env = x], m, k)
BY DEF Owes, Shaped, RunFields

LEMMA OwesAdvance ==
  ASSUME NEW run, NEW s, Len(s) \in Nat, NEW k \in 1..Len(s), Owes(run, Len(s), k),
         NEW j \in 1..k, j < k, NEW r, r.id # NoRecord
  PROVE  InTime(Advance(s, run, j, r), Len(s), k)
<1> DEFINE m == Len(s)
           t == TryStatement(s, run, j + 1, r)
<1>1. j + 1 \in 1..k /\ ~(j + 1 > Len(s)) /\ m \in Nat /\ (j + 1 < k => (j + 1) + 1 \in 1..k)
  OBVIOUS
<1>2. /\ t.ok /\ j + 1 = k => Took(t.run, m, k)
      /\ ~t.ok \/ j + 1 < k => Owes(t.run, m, k)
  BY <1>1, OwesTry
<1>3. InTime(TryLazily(s, run, j, r), m, k)
  <2>1. TryLazily(s, run, j, r) = TakenOver(t, j + 1)
    BY <1>1 DEF TryLazily
  <2> HIDE DEF t, m
  <2>2. CASE ~t.ok
    <3>1. Owes(Forget(t.run), m, k)
      BY <1>2, <2>2, OwesForget
    <3> QED
      BY <2>1, <2>2, <3>1 DEF TakenOver, InTime
  <2>3. CASE t.ok /\ j + 1 = k
    <3>1. Took([t.run EXCEPT !.inst = (j + 1) + 1], m, k)
      BY <1>2, <2>3, TookElse
    <3> QED
      BY <2>1, <2>3, <3>1 DEF TakenOver, InTime
  <2>4. CASE t.ok /\ j + 1 < k
    <3>1. Owes([t.run EXCEPT !.inst = (j + 1) + 1], m, k)
      BY <1>1, <1>2, <2>4, OwesElse, k \in 1..m DEF m
    <3> QED
      BY <2>1, <2>4, <3>1 DEF TakenOver, InTime
  <2> QED
    BY <1>1, <2>2, <2>3, <2>4
<1>4. InTime([run EXCEPT !.inst = j + 1], m, k)
  BY <1>1, OwesElse DEF InTime
<1>5. InTime(run, m, k)
  BY DEF InTime
<1> QED
  BY <1>3, <1>4, <1>5 DEF Advance

\* Whatever the first statement tried, up to k, makes of the record.
LEMMA OwesTest ==
  ASSUME NEW run, NEW s, Len(s) \in Nat, NEW k \in 1..Len(s), Owes(run, Len(s), k),
         s[k].minc \in Nat \ {0},
         NEW j \in 1..k, NEW r, r.id # NoRecord,
         NEW o, o = testForInstruction(s, run, j, r)
  PROVE  o.state = "fail" \/ InTime(o.run, Len(s), k)
<1> DEFINE m == Len(s)
           t == TryStatement(s, run, j, r)
           moved == [t.run EXCEPT !.inst = j + 1]
           u == TryStatement(s, moved, j + 1, r)
           f == TakeOrFail(s, u, j + 1, r)
<1>0. o = TakeOrGiveWay(s, t, j, r) /\ m = Len(s) /\ m \in Nat /\ k \in 1..m
  BY DEF testForInstruction
<1>1. /\ t.ok /\ j = k => Took(t.run, m, k)
      /\ ~t.ok \/ j < k => Owes(t.run, m, k)
  BY OwesTry
<1>2. u = TryStatement(s, moved, j + 1, r) /\ moved = [t.run EXCEPT !.inst = j + 1]
  OBVIOUS
<1>3. o = IF t.ok /\ Room(s, t.run, j)
            THEN Outcome("more", Advance(s, t.run, j, r))
          ELSE IF t.run.matched[j] < s[j].minc THEN Outcome("fail", t.run)
          ELSE IF j + 1 > Len(s) THEN Outcome("fail", moved)
          ELSE f
  BY <1>0 DEF TakeOrGiveWay
<1> HIDE DEF t, m, moved, u
<1>4. CASE t.ok /\ j = k
  <2>1. Took(TakeOrGiveWay(s, t, j, r).run, m, k)
    BY <1>0, <1>1, <1>4, TookTake
  <2> QED
    BY <1>0, <2>1 DEF InTime
<1>5. CASE ~t.ok /\ j = k
  <2>1. t.run.matched[j] = 0
    BY <1>1, <1>5 DEF Owes
  <2>2. t.run.matched[j] < s[j].minc
    BY <1>5, <2>1
  <2> QED
    BY <1>3, <1>5, <2>2 DEF Outcome
<1>6. CASE j < k
  <2>1. Owes(t.run, m, k) /\ j + 1 \in 1..k /\ ~(j + 1 > Len(s))
    BY <1>1, <1>6
  <2>2. InTime(Advance(s, t.run, j, r), m, k)
    BY <1>0, <1>6, <2>1, OwesAdvance
  <2>3. Owes(moved, m, k)
    BY <1>0, <1>2, <2>1, OwesElse
  <2>4. /\ u.ok /\ j + 1 = k => Took(u.run, m, k)
        /\ ~u.ok \/ j + 1 < k => Owes(u.run, m, k)
    BY <1>0, <1>2, <2>1, <2>3, OwesTry
  <2>5. f.state = "fail" \/ InTime(f.run, m, k)
    <3>1. CASE ~(u.ok /\ Room(s, u.run, j + 1))
      BY <3>1 DEF TakeOrFail, Outcome
    <3>2. CASE u.ok /\ j + 1 = k
      BY <1>0, <2>4, <3>2, TookTake DEF InTime
    <3>3. CASE u.ok /\ Room(s, u.run, j + 1) /\ j + 1 < k
      <4>1. InTime(Advance(s, u.run, j + 1, r), m, k)
        BY <1>0, <2>1, <2>4, <3>3, OwesAdvance
      <4> QED
        BY <3>3, <4>1 DEF TakeOrFail, Outcome
    <3> QED
      BY <2>1, <3>1, <3>2, <3>3
  <2> HIDE DEF f
  <2>6. CASE t.ok /\ Room(s, t.run, j)
    BY <1>0, <1>3, <2>2, <2>6 DEF Outcome
  <2>7. CASE ~(t.ok /\ Room(s, t.run, j))
    BY <1>0, <1>3, <2>1, <2>5, <2>7 DEF Outcome
  <2> QED
    BY <2>6, <2>7
<1> QED
  BY <1>4, <1>5, <1>6

LEMMA InTimeElse ==
  ASSUME NEW run, NEW m \in Nat, NEW k \in 1..m, InTime(run, m, k), NEW x
  PROVE  /\ InTime([run EXCEPT !.count = x], m, k)
         /\ InTime([run EXCEPT !.env = x], m, k)
BY TookElse, OwesElse DEF InTime

\* After a record statement k is in time or the pattern has failed, and if the pattern
\* has matched, statement k points at a record.
LEMMA InTimeTested ==
  ASSUME NEW pattern, NEW s, s = pattern.insts, Len(s) \in Nat,
         NEW k \in 1..Len(s), s[k].type = "instruction", s[k].minc \in Nat \ {0},
         NEW run, InTime(run, Len(s), k), NEW r, r.id # NoRecord,
         NEW o, o = testForSequence(pattern, run, r)
  PROVE  /\ o.state = "fail" \/ InTime(o.run, Len(s), k)
         /\ o.state = "match" => Took(o.run, Len(s), k)
<1> DEFINE m == Len(s)
           counted == [run EXCEPT !.count = @ + 1]
           before  == ExecuteFrom(s, run.env, run.inst)
           begun   == [counted EXCEPT !.env = before.env]
           t       == testForInstruction(s, begun, before.at, r)
           after   == ExecuteFrom(s, t.run.env, t.run.inst)
           final   == [t.run EXCEPT !.env = after.env]
<1>0. m \in Nat /\ k \in 1..m /\ m = Len(s) /\ ~(k > m)
  OBVIOUS
<1>1. \/ o.state = "fail"
      \/ before.ok /\ before.at > m /\ o = Outcome("match", begun)
      \/ before.ok /\ t.state # "fail" /\ t.run.inst > m /\ o = Outcome("match", t.run)
      \/ before.ok /\ t.state # "fail" /\ after.ok /\ after.at > m /\ o = Outcome("match", final)
      \/ before.ok /\ t.state # "fail" /\ o = Outcome("more", final)
  <2>1. o = IF run.count >= pattern.maximumInst THEN Outcome("fail", counted)
            ELSE IF ~before.ok THEN Outcome("fail", begun)
            ELSE IF before.at > m THEN Outcome("match", begun)
            ELSE IF t.state = "fail" THEN t
            ELSE IF t.run.inst > m THEN Outcome("match", t.run)
            ELSE IF ~after.ok THEN Outcome("fail", final)
            ELSE Outcome(IF after.at > m THEN "match" ELSE "more", final)
    BY DEF testForSequence, Preceded, Tested, Followed
  <2>2. \A x : Outcome("fail", x).state = "fail"
    BY DEF Outcome
  <2> HIDE DEF m, counted, before, begun, t, after, final
  <2> QED
    BY <2>1, <2>2, Zenon
<1>2. InTime(counted, m, k) /\ InTime(begun, m, k)
  <2>1. InTime(counted, m, k)
    BY InTimeElse
  <2> HIDE DEF counted
  <2> QED
    BY <1>0, <2>1, InTimeElse
<1>3. /\ Owes(begun, m, k) /\ before.ok => before.at \in 1..k
      /\ Owes(t.run, m, k) /\ after.ok => after.at \in 1..k
  <2>1. ASSUME NEW v, Owes(v, m, k), NEW e, ExecuteFrom(s, e, v.inst).ok
        PROVE  ExecuteFrom(s, e, v.inst).at \in 1..k
    <3>1. v.inst \in 1..k
      BY <2>1 DEF Owes
    <3>2. ExecuteFrom(s, e, v.inst).at \in v.inst..k
      BY <2>1, <3>1, FirstTaker
    <3> QED
      BY <1>0, <3>1, <3>2
  <2>2. begun.inst = run.inst
    <3>1. DOMAIN run = RunFields
      BY DEF InTime, Took, Owes, Shaped
    <3> QED
      BY <3>1 DEF RunFields
  <2>3. ASSUME Owes(begun, m, k), before.ok PROVE before.at \in 1..k
    <3>1. before = ExecuteFrom(s, run.env, begun.inst)
      BY <2>2
    <3> HIDE DEF before, begun
    <3> QED
      BY <2>1, <2>3, <3>1
  <2>4. ASSUME Owes(t.run, m, k), after.ok PROVE after.at \in 1..k
    <3>1. after = ExecuteFrom(s, t.run.env, t.run.inst)
      OBVIOUS
    <3> HIDE DEF after, t
    <3> QED
      BY <2>1, <2>4, <3>1
  <2> QED
    BY <2>3, <2>4
<1>4. /\ Took(begun, m, k) => Took(t.run, m, k)
      /\ Owes(begun, m, k) /\ before.ok => t.state = "fail" \/ InTime(t.run, m, k)
  <2>1. ASSUME Took(begun, m, k) PROVE Took(t.run, m, k)
    <3> HIDE DEF begun, before, m
    <3>1. Took(TryStatement(s, begun, before.at, r).run, m, k)
      BY <1>0, <2>1, TookTry
    <3> QED
      BY <1>0, <3>1, TookTake DEF testForInstruction
  <2>2. ASSUME Owes(begun, m, k), before.ok PROVE t.state = "fail" \/ InTime(t.run, m, k)
    <3>1. before.at \in 1..k
      BY <1>3, <2>2
    <3> HIDE DEF begun, before
    <3> QED
      BY <2>2, <3>1, OwesTest
  <2> QED
    BY <2>1, <2>2
<1>5. /\ Took(t.run, m, k) => Took(final, m, k)
      /\ Owes(t.run, m, k) => Owes(final, m, k)
  <2> HIDE DEF t, after
  <2> QED
    BY <1>0, TookElse, OwesElse
<1> HIDE DEF m, counted, before, begun, t, after, final
<1>6. \A x : /\ Outcome("match", x).run = x /\ Outcome("more", x).run = x
             /\ Outcome("more", x).state = "more"
  BY DEF Outcome
<1>7. CASE o.state = "fail"
  BY <1>7
<1>8. CASE before.ok /\ before.at > m /\ o = Outcome("match", begun)
  <2>1. Took(begun, m, k)
    BY <1>0, <1>2, <1>3, <1>8 DEF InTime
  <2> QED
    BY <1>0, <1>6, <1>8, <2>1 DEF InTime
<1>9. ASSUME before.ok, t.state # "fail" PROVE InTime(t.run, m, k)
  BY <1>2, <1>4, <1>9 DEF InTime
<1>10. CASE before.ok /\ t.state # "fail" /\ t.run.inst > m /\ o = Outcome("match", t.run)
  <2>1. Took(t.run, m, k)
    <3>1. SUFFICES ASSUME Owes(t.run, m, k) PROVE FALSE
      BY <1>9, <1>10 DEF InTime
    <3>2. t.run.inst \in 1..k
      BY <3>1 DEF Owes
    <3> QED
      BY <1>0, <1>10, <3>2
  <2> QED
    BY <1>0, <1>6, <1>10, <2>1 DEF InTime
<1>11. CASE before.ok /\ t.state # "fail" /\ after.ok /\ after.at > m /\ o = Outcome("match", final)
  <2>1. Took(t.run, m, k)
    <3>1. SUFFICES ASSUME Owes(t.run, m, k) PROVE FALSE
      BY <1>9, <1>11 DEF InTime
    <3>2. after.at \in 1..k
      BY <1>3, <1>11, <3>1
    <3> QED
      BY <1>0, <1>11, <3>2
  <2> QED
    BY <1>0, <1>5, <1>6, <1>11, <2>1 DEF InTime
<1>12. CASE before.ok /\ t.state # "fail" /\ o = Outcome("more", final)
  <2>1. InTime(final, m, k)
    BY <1>5, <1>9, <1>12 DEF InTime
  <2> QED
    BY <1>0, <1>6, <1>12, <2>1
<1> QED
  BY <1>1, <1>7, <1>8, <1>10, <1>11, <1>12

-----------------------------------------------------------------------------
(***************************************************************************)
(* The reference: what MatchesFrom computes, record after record.          *)
(***************************************************************************)
TrialLen(p, i)   == IF Patterns[p].mode = "reverse" THEN i ELSE Len(insts) - i + 1
TrialAt(p, i, n) == IF Patterns[p].mode = "reverse" THEN i - n + 1 ELSE i + n - 1
TrialNext(p, i, x, n) ==
  IF x.state # "more" THEN x
  ELSE testForSequence(Patterns[p], x.run, Fed(insts[TrialAt(p, i, n)], n))
IsTrial(p, i, m, f) ==
  f = [n \in 0..m |-> IF n = 0 THEN Outcome("more", FreshRun(Patterns[p]))
                      ELSE TrialNext(p, i, f[n-1], n)]
Trial(p, i) == CHOOSE f : IsTrial(p, i, TrialLen(p, i), f)

LEMMA TrialStep ==
  ASSUME NEW p, NEW i, NEW m, NEW f, IsTrial(p, i, m, f), NEW n \in 0..m
  PROVE  f[n] = IF n = 0 THEN Outcome("more", FreshRun(Patterns[p]))
                ELSE TrialNext(p, i, f[n-1], n)
<1> DEFINE E(j) == IF j = 0 THEN Outcome("more", FreshRun(Patterns[p]))
                   ELSE TrialNext(p, i, f[j-1], j)
<1>1. f = [j \in 0..m |-> E(j)]
  BY DEF IsTrial
<1>2. f[n] = E(n)
  <2> HIDE DEF E
  <2> QED
    BY <1>1
<1> QED
  BY <1>2

LEMMA TrialExists ==
  ASSUME NEW p, NEW i, NEW m \in Nat PROVE \E f : IsTrial(p, i, m, f)
<1> DEFINE T == {j \in Nat : \E f : IsTrial(p, i, j, f)}
           Q(f, j) == IF j = 0 THEN Outcome("more", FreshRun(Patterns[p]))
                      ELSE TrialNext(p, i, f[j-1], j)
<1>1. ASSUME NEW j \in Nat, NEW f, IsTrial(p, i, j, f) PROVE j + 1 \in T
  <2> DEFINE g == [n \in 0..j+1 |-> IF n <= j THEN f[n] ELSE Q(f, n)]
  <2>1. ASSUME NEW n \in 0..j+1 PROVE g[n] = Q(g, n)
    <3>1. n # 0 => n - 1 \in 0..j+1 /\ n - 1 <= j
      OBVIOUS
    <3>2. n # 0 => g[n-1] = f[n-1]
      BY <3>1
    <3>3. n <= j => f[n] = Q(f, n)
      <4> SUFFICES ASSUME n <= j PROVE f[n] = Q(f, n)
        OBVIOUS
      <4>1. n \in 0..j
        OBVIOUS
      <4> QED
        BY <1>1, <4>1, TrialStep
    <3>4. g[n] = Q(f, n)
      <4> HIDE DEF Q
      <4> QED
        BY <3>3
    <3> HIDE DEF g
    <3> QED
      BY <3>2, <3>4
  <2>2. g = [n \in 0..j+1 |-> Q(g, n)]
    <3> DEFINE h == [n \in 0..j+1 |-> Q(g, n)]
    <3>1. \A n \in 0..j+1 : g[n] = h[n]
      <4> HIDE DEF Q, g
      <4> QED
        BY <2>1
    <3>2. DOMAIN g = 0..j+1 /\ DOMAIN h = 0..j+1
      OBVIOUS
    <3>3. g = [n \in DOMAIN g |-> g[n]] /\ h = [n \in DOMAIN h |-> h[n]]
      OBVIOUS
    <3> HIDE DEF g, h
    <3>4. g = h
      BY <3>1, <3>2, <3>3
    <3> QED
      BY <3>4 DEF h
  <2>3. IsTrial(p, i, j + 1, g)
    <3> HIDE DEF g
    <3> QED
      BY <2>2 DEF IsTrial
  <2> HIDE DEF g
  <2> QED
    BY <2>3
<1>2. 0 \in T
  <2> DEFINE f == [n \in 0..0 |-> Outcome("more", FreshRun(Patterns[p]))]
  <2>1. [n \in 0..0 |-> Outcome("more", FreshRun(Patterns[p]))]
        = [n \in 0..0 |-> IF n = 0 THEN Outcome("more", FreshRun(Patterns[p]))
                          ELSE TrialNext(p, i, f[n-1], n)]
    <3>1. \A n \in 0..0 : n = 0
      OBVIOUS
    <3> HIDE DEF f
    <3> QED
      BY <3>1
  <2>2. IsTrial(p, i, 0, f)
    <3> HIDE DEF f
    <3> QED
      BY <2>1 DEF IsTrial, f
  <2> HIDE DEF f
  <2> QED
    BY <2>2
<1>3. T = Nat
  <2>1. \A j \in T : j + 1 \in T
    BY <1>1
  <2> HIDE DEF T
  <2>2. T \in SUBSET Nat
    BY DEF T
  <2> QED
    BY <1>2, <2>1, <2>2, InductionBySet
<1> QED
  BY <1>3

LEMMA TrialIs ==
  ASSUME NEW p, NEW i, TrialLen(p, i) \in Nat
  PROVE  /\ Trial(p, i)[0] = Outcome("more", FreshRun(Patterns[p]))
         /\ \A n \in 1..TrialLen(p, i) :
              Trial(p, i)[n] = TrialNext(p, i, Trial(p, i)[n-1], n)
         /\ MatchesFrom(p, i) = (Trial(p, i)[TrialLen(p, i)].state = "match")
<1> DEFINE c == Trial(p, i)
           m == TrialLen(p, i)
<1>1. MatchesFrom(p, i) = (c[m].state = "match")
  BY DEF MatchesFrom, Trial, IsTrial, TrialLen, TrialAt, TrialNext
<1>2. IsTrial(p, i, m, c)
  <2>1. \E f : IsTrial(p, i, m, f)
    BY TrialExists
  <2> QED
    BY <2>1 DEF Trial
<1> HIDE DEF c, m
<1>3. c[0] = Outcome("more", FreshRun(Patterns[p]))
  <2>1. 0 \in 0..m
    BY DEF m
  <2> QED
    BY <1>2, <2>1, TrialStep
<1>4. ASSUME NEW n \in 1..m PROVE c[n] = TrialNext(p, i, c[n-1], n)
  <2>1. n \in 0..m /\ n # 0
    BY DEF m
  <2> QED
    BY <1>2, <2>1, TrialStep
<1> QED
  BY <1>1, <1>3, <1>4 DEF c, m

\* A trial that is decided stays so.
LEMMA TrialStays ==
  ASSUME NEW p, NEW i, TrialLen(p, i) \in Nat, NEW n \in 0..TrialLen(p, i),
         Trial(p, i)[n].state # "more"
  PROVE  Trial(p, i)[TrialLen(p, i)] = Trial(p, i)[n]
<1> DEFINE m == TrialLen(p, i)
           c == Trial(p, i)
           T == {j \in Nat : n + j <= m => c[n+j] = c[n]}
<1>1. 0 \in T
  BY n + 0 = n
<1>2. ASSUME NEW j \in T PROVE j + 1 \in T
  <2> SUFFICES ASSUME n + (j + 1) <= m PROVE c[n+(j+1)] = c[n]
    OBVIOUS
  <2>1. n + (j + 1) \in 1..m /\ (n + (j + 1)) - 1 = n + j /\ n + j <= m
    OBVIOUS
  <2>2. c[n+(j+1)] = TrialNext(p, i, c[(n + (j + 1)) - 1], n + (j + 1))
    BY <2>1, TrialIs
  <2>3. c[n+j] = c[n]
    BY <2>1
  <2> HIDE DEF c
  <2>4. TrialNext(p, i, c[n], n + (j + 1)) = c[n]
    BY DEF TrialNext, c
  <2> QED
    BY <2>1, <2>2, <2>3, <2>4
<1>3. T = Nat
  <2> HIDE DEF T
  <2>1. T \in SUBSET Nat
    BY DEF T
  <2> QED
    BY <1>1, <1>2, <2>1, InductionBySet
<1>4. PICK d \in Nat : n + d = m
  <2>1. m - n \in Nat /\ n + (m - n) = m
    OBVIOUS
  <2> QED
    BY <2>1
<1>5. n + d <= m => c[n+d] = c[n]
  BY <1>3
<1> QED
  BY <1>4, <1>5

-----------------------------------------------------------------------------
(***************************************************************************)
(* A scan and its reference.  While no pattern has matched, each selected  *)
(* pattern is where its trial is: at the last record, or at the one before *)
(* if the last has not come to it yet; one that has left the list has      *)
(* failed.                                                                 *)
(***************************************************************************)
Follows(p) ==
  LET c == Trial(p, tr)
      w == Len(window)
  IN  IF p \notin alive THEN c[w].state = "fail"
      ELSE IF Waiting(p) THEN w # 0 /\ c[w-1].state = "more" /\ c[w-1].run = rt[p]
      ELSE c[w].state = "more" /\ c[w].run = rt[p]
Timely(p) ==
  \A k \in DOMAIN Patterns[p].insts :
    Anchor(p, k) => InTime(rt[p], Len(Patterns[p].insts), k)
Complete(p) ==
  \A k \in DOMAIN Patterns[p].insts :
    Anchor(p, k) => Took(rt[p], Len(Patterns[p].insts), k)
ScanInv ==
  pc = "scan" =>
    /\ alive \subseteq Selected(reserve)
    /\ \A p \in alive : Timely(p)
    /\ IF ret = "1" THEN Complete(sr) ELSE \A p \in Selected(reserve) : Follows(p)

LEMMA SelectedIs ==
  ASSUME NEW p \in Selected(reserve), reserve \in BOOLEAN
  PROVE  /\ p \in PIds /\ ~Patterns[p].off
         /\ (Patterns[p].mode = "reverse") = reserve
BY DEF Selected

\* The window is no longer than the trial, which takes the same records.
LEMMA WindowFits ==
  ASSUME PassInv, pc = "scan", NEW p \in Selected(reserve)
  PROVE  /\ TrialLen(p, tr) \in Nat /\ Len(window) \in 0..TrialLen(p, tr)
         /\ TrialLen(p, tr) = IF reserve THEN tr ELSE Len(insts) - tr + 1
         /\ \A n : TrialAt(p, tr, n) = FedAt(n)
<1>1. /\ tr \in 1..Len(insts) /\ subtr \in 0..Len(insts) /\ Len(insts) \in Nat
      /\ Len(window) \in Nat /\ reserve \in BOOLEAN
  BY SequenceIs DEF PassInv, Scanning
<1>2. (Patterns[p].mode = "reverse") = reserve
  BY <1>1, SelectedIs
<1>3. TrialLen(p, tr) = IF reserve THEN tr ELSE Len(insts) - tr + 1
  BY <1>2 DEF TrialLen
<1>4. \A n : TrialAt(p, tr, n) = FedAt(n)
  BY <1>2 DEF TrialAt, FedAt
<1>5. CASE ret = "new" /\ seq = Nil
  <2>1. Len(window) = 0
    BY <1>5, EmptyIsSequence DEF PassInv, Scanning
  <2> QED
    BY <1>1, <1>3, <1>4, <2>1
<1>6. CASE ~(ret = "new" /\ seq = Nil)
  <2>1. Stretch
    BY <1>6 DEF PassInv, Scanning
  <2>2. subtr # 0 /\ Len(window) = (IF reserve THEN tr - subtr ELSE subtr - tr) + 1
    BY <2>1 DEF Stretch
  <2> QED
    BY <1>1, <1>3, <1>4, <2>2
<1> QED
  BY <1>5, <1>6

LEMMA TrialPrime ==
  ASSUME insts' = insts, NEW p, NEW i
  PROVE  Trial(p, i)' = Trial(p, i) /\ MatchesFrom(p, i)' = MatchesFrom(p, i)
<1>1. \A j, m, f : IsTrial(p, j, m, f)' = IsTrial(p, j, m, f)
  BY DEF IsTrial, TrialNext, TrialAt
<1>2. TrialLen(p, i)' = TrialLen(p, i)
  BY DEF TrialLen
<1>3. Trial(p, i)' = Trial(p, i)
  BY DEF Trial, IsTrial, TrialNext, TrialAt, TrialLen
<1>4. MatchesFrom(p, i)' = MatchesFrom(p, i)
  BY DEF MatchesFrom
<1> QED
  BY <1>3, <1>4

\* The cursor passes the pattern under test and no other.
LEMMA CursorPasses ==
  ASSUME ListInv, TestPattern, ret' # "1", NEW q, q = seq
  PROVE  /\ q \in alive /\ Waiting(q) /\ ~Waiting(q)'
         /\ \A p \in alive : p # q => (Waiting(p)' <=> Waiting(p))
<1>1. /\ seq # Nil /\ q \in alive /\ q \in PIds /\ ret \in {"new", "0"}
      /\ IsNext(alive, q, next[q])
      /\ \A p \in alive : p \in Nat /\ p > 0
  BY PIdsAreNat DEF TestPattern, ListInv, TypeOK, ListIsAlive, CallOpen
<1>2. seq' = next[q] /\ alive \ {q} \subseteq alive' /\ alive' \subseteq alive
  BY <1>1 DEF TestPattern, Answered, StepPast
<1>3. Waiting(q)
  BY <1>1 DEF Waiting
<1>4. next[q] # Nil => next[q] \in Nat /\ next[q] > q
  BY <1>1 DEF IsNext
<1>5. ~Waiting(q)'
  <2>1. next[q] # Nil => ~(q >= next[q])
    BY <1>1, <1>4
  <2> QED
    BY <1>2, <2>1 DEF Waiting
<1>6. ASSUME NEW p \in alive, p # q PROVE Waiting(p)' <=> Waiting(p)
  <2>1. p \in alive' /\ p \in Nat /\ q \in Nat
    BY <1>1, <1>2, <1>6
  <2>2. Waiting(p) <=> p >= q
    BY <1>1 DEF Waiting
  <2>3. Waiting(p)' <=> (next[q] # Nil /\ p >= next[q])
    BY <1>2, <2>1 DEF Waiting
  <2>4. p >= q <=> (next[q] # Nil /\ p >= next[q])
    BY <1>1, <1>4, <1>6, <2>1 DEF IsNext
  <2> QED
    BY <2>2, <2>3, <2>4
<1> QED
  BY <1>1, <1>3, <1>5, <1>6

LEMMA ScanInvBegin == ASSUME PassInv, BeginScan PROVE ScanInv'
<1> SUFFICES ASSUME pc' = "scan"
             PROVE  /\ alive' \subseteq Selected(reserve')
                    /\ \A p \in alive' : Timely(p)'
                    /\ ret' # "1" /\ \A p \in Selected(reserve') : Follows(p)'
  BY DEF ScanInv
<1> DEFINE S == Selected(reserve)
<1>1. S # {}
  BY DEF BeginScan, Return
<1>2. /\ reserve' = reserve /\ tr' = tr /\ insts' = insts
      /\ seq' = Nil /\ ret' = "new" /\ window' = <<>> /\ alive' = S
      /\ rt' = [p \in PIds |-> IF p \in S THEN Restarted(p) ELSE rt[p]]
      /\ reserve \in BOOLEAN
  BY <1>1 DEF BeginScan, initForTest, PassInv
<1>3. Selected(reserve') = S
  BY <1>2
<1>4. \A p \in S : p \in PIds /\ rt'[p] = FreshRun(Patterns[p])
  BY <1>2, SelectedIs DEF Restarted
<1> HIDE DEF S
<1>5. ASSUME NEW p \in S PROVE Timely(p)'
  <2> DEFINE m == Len(Patterns[p].insts)
  <2>1. DOMAIN Patterns[p].insts = 1..m /\ m \in Nat
    BY <1>4, PatternsAre
  <2>2. ASSUME NEW k \in 1..m PROVE Owes(FreshRun(Patterns[p]), m, k)
    BY <2>1 DEF Owes, Shaped, RunFields, FreshRun
  <2>3. ASSUME NEW k \in DOMAIN Patterns[p].insts PROVE InTime(rt'[p], m, k)
    <3>1. k \in 1..m
      BY <2>1
    <3> QED
      BY <1>4, <2>2, <3>1 DEF InTime
  <2> QED
    BY <2>3 DEF Timely
<1>6. ASSUME NEW p \in S PROVE Follows(p)'
  <2>1. ~Waiting(p)'
    BY <1>2 DEF Waiting
  <2>2. Trial(p, tr)' = Trial(p, tr)
    BY <1>2, TrialPrime DEF Trial, IsTrial, TrialNext, TrialAt, TrialLen
  <2>3. TrialLen(p, tr) \in Nat
    <3>1. tr \in Nat /\ Len(insts) \in Nat /\ tr <= Len(insts)
      BY SequenceIs DEF PassInv
    <3> QED
      BY <3>1 DEF TrialLen
  <2>4. Trial(p, tr)[0] = Outcome("more", FreshRun(Patterns[p]))
    BY <2>3, TrialIs
  <2>5. Len(window') = 0
    BY <1>2, EmptyIsSequence
  <2>6. Trial(p, tr)[0].state = "more" /\ Trial(p, tr)[0].run = rt'[p]
    BY <1>4, <2>4 DEF Outcome
  <2> QED
    BY <1>2, <2>1, <2>2, <2>5, <2>6 DEF Follows
<1> QED
  BY <1>2, <1>3, <1>5, <1>6

LEMMA ScanInvFeed == ASSUME PassInv, ScanInv, Feed PROVE ScanInv'
<1> DEFINE at == IF ret = "new" THEN subtr ELSE Along(insts, subtr)
           w  == Len(window)
<1>1. /\ pc = "scan" /\ at # 0 /\ seq = Nil /\ ret \in {"new", "0"} /\ m_seqList # Nil
      /\ window' = Append(window, Fed(insts[at], w + 1)) /\ seq' = m_seqList
      /\ UNCHANGED <<rt, ret, sr, alive, insts, reserve, tr, pc>>
  BY DEF Feed, testInstruction, list
<1>2. Len(window') = w + 1 /\ w \in Nat
  <2> DEFINE x == Fed(insts[at], w + 1)
             S == ToSet(window) \cup {x}
  <2>1. window \in Seq(ToSet(window))
    BY DEF PassInv, IsSequence
  <2>2. window \in Seq(S)
    BY <2>1, SeqMonotonic
  <2>3. x \in S
    OBVIOUS
  <2>4. window' = Append(window, x)
    BY <1>1
  <2> HIDE DEF S, x
  <2>5. Len(Append(window, x)) = Len(window) + 1 /\ Len(window) \in Nat
    BY <2>2, <2>3, AppendProperties
  <2> QED
    BY <2>4, <2>5
<1>3. /\ alive \subseteq Selected(reserve)
      /\ \A p \in alive : Timely(p)
      /\ \A p \in Selected(reserve) : Follows(p)
  BY <1>1 DEF ScanInv
<1>4. \A p \in alive : Timely(p)'
  BY <1>1, <1>3 DEF Timely
<1>5. /\ tr \in 1..Len(insts) /\ subtr \in 0..Len(insts) /\ Len(insts) \in Nat
      /\ reserve \in BOOLEAN
  BY <1>1, SequenceIs DEF PassInv, Scanning
<1>6. w + 1 <= (IF reserve THEN tr ELSE Len(insts) - tr + 1)
  <2>1. CASE ret = "new"
    <3>1. w = 0
      BY <1>1, <2>1, EmptyIsSequence DEF PassInv, Scanning
    <3> QED
      BY <1>5, <3>1
  <2>2. CASE ret # "new"
    <3>1. Stretch
      BY <1>1, <2>2 DEF PassInv, Scanning
    <3>2. subtr # 0 /\ w = (IF reserve THEN tr - subtr ELSE subtr - tr) + 1
      BY <3>1 DEF Stretch
    <3>3. at = Along(insts, subtr)
      BY <2>2
    <3>4. IF reserve THEN subtr - 1 # 0 ELSE subtr < Len(insts)
      <4>1. Along(insts, subtr) # 0 /\ subtr \in 0..Len(insts)
        BY <1>1, <1>5, <3>3
      <4>2. CASE reserve
        BY <3>2, <4>1, <4>2 DEF Along
      <4>3. CASE ~reserve
        BY <3>2, <4>1, <4>3 DEF Along
      <4> QED
        BY <4>2, <4>3
    <3> HIDE DEF w, at
    <3> QED
      BY <1>5, <3>2, <3>4
  <2> QED
    BY <2>1, <2>2
<1>7. ASSUME NEW p \in Selected(reserve) PROVE Follows(p)'
  <2> DEFINE c == Trial(p, tr)
  <2>1. Trial(p, tr)' = c
    BY <1>1 DEF Trial, IsTrial, TrialNext, TrialAt, TrialLen
  <2>2. ~Waiting(p)
    BY <1>1 DEF Waiting
  <2>3. Follows(p)
    BY <1>3
  <2>4. CASE p \notin alive
    <3>1. TrialLen(p, tr) \in Nat /\ w + 1 \in 1..TrialLen(p, tr) /\ (w + 1) - 1 = w
      BY <1>1, <1>2, <1>5, <1>6, WindowFits
    <3>2. c[w+1] = TrialNext(p, tr, c[(w + 1) - 1], w + 1)
      BY <3>1, TrialIs
    <3>3. c[w].state = "fail"
      BY <2>3, <2>4 DEF Follows
    <3>4. TrialNext(p, tr, c[w], w + 1) = c[w]
      BY <3>3 DEF TrialNext
    <3>5. c[w+1].state = "fail"
      BY <3>1, <3>2, <3>3, <3>4
    <3> HIDE DEF c, w
    <3> QED
      BY <1>1, <1>2, <2>1, <2>4, <3>5 DEF Follows
  <2>5. CASE p \in alive
    <3>1. Waiting(p)'
      <4>1. IsNext(alive, 0, m_seqList) /\ p \in PIds
        BY <2>5 DEF PassInv, ListInv, ListIsAlive, TypeOK
      <4>2. m_seqList <= p /\ m_seqList \in Nat /\ p \in Nat
        BY <1>1, <2>5, <4>1, PIdsAreNat DEF IsNext, PassInv, ListInv, TypeOK
      <4>3. p >= m_seqList
        BY <4>2
      <4> QED
        BY <1>1, <2>5, <4>3 DEF Waiting
    <3>2. c[w].state = "more" /\ c[w].run = rt[p]
      BY <2>2, <2>3, <2>5 DEF Follows
    <3>3. Len(window') # 0 /\ Len(window') - 1 = w
      BY <1>2
    <3> HIDE DEF c, w
    <3> QED
      BY <1>1, <2>1, <2>5, <3>1, <3>2, <3>3 DEF Follows
  <2> QED
    BY <2>4, <2>5
<1> HIDE DEF at, w
<1> QED
  BY <1>1, <1>3, <1>4, <1>7 DEF ScanInv

LEMMA ScanInvTest == ASSUME PassInv, ScanInv, Test PROVE ScanInv'
<1> DEFINE w == Len(window)
<1>0. PICK q : q = seq
  OBVIOUS
<1> DEFINE o == testForSequence(Patterns[q], rt[q], window[w])
<1>1. /\ pc = "scan" /\ TestPattern
      /\ UNCHANGED <<insts, reserve, tr, pc, window>>
  BY DEF Test, pass, TestPattern
<1>2. /\ q # Nil /\ q \in alive /\ q \in PIds /\ ret \in {"new", "0"}
      /\ alive \subseteq PIds /\ DOMAIN rt = PIds
  BY <1>0, <1>1 DEF TestPattern, PassInv, ListInv, TypeOK, ListIsAlive, CallOpen
<1>3. \/ /\ o.state = "fail" /\ rt' = [rt EXCEPT ![q] = Cleaned(o.run)]
         /\ alive' = alive \ {q} /\ ret' # "1"
      \/ /\ o.state = "match" /\ rt' = [rt EXCEPT ![q] = o.run]
         /\ sr' = q /\ ret' = "1" /\ alive' = alive
      \/ /\ o.state = "more" /\ rt' = [rt EXCEPT ![q] = o.run]
         /\ alive' = alive /\ ret' # "1"
  BY <1>0, <1>1, <1>2 DEF TestPattern, Answered, StepPast
<1>4. /\ alive \subseteq Selected(reserve)
      /\ \A p \in alive : Timely(p)
      /\ \A p \in Selected(reserve) : Follows(p)
  BY <1>1, <1>2 DEF ScanInv
<1>5. Waiting(q) /\ q \in Selected(reserve)
  BY <1>0, <1>2, <1>4 DEF Waiting, PassInv, ListInv, TypeOK, PIds
<1>6. /\ w # 0 /\ Trial(q, tr)[w-1].state = "more" /\ Trial(q, tr)[w-1].run = rt[q]
  BY <1>2, <1>4, <1>5 DEF Follows
<1>7. /\ TrialLen(q, tr) \in Nat /\ w \in 1..TrialLen(q, tr)
      /\ TrialAt(q, tr, w) = FedAt(w)
  BY <1>1, <1>5, <1>6, WindowFits
<1>8. Stretch
  BY <1>0, <1>1, <1>2 DEF PassInv, Scanning
<1>9. window[w] = Fed(insts[FedAt(w)], w) /\ w \in Nat /\ window[w].id = w
  <2>1. window[w] = Fed(insts[FedAt(w)], w)
    BY <1>7, <1>8 DEF Stretch
  <2> QED
    BY <1>7, <2>1 DEF Fed
<1>10. Trial(q, tr)[w] = o
  <2>1. Trial(q, tr)[w] = TrialNext(q, tr, Trial(q, tr)[w-1], w)
    BY <1>7, TrialIs
  <2> QED
    BY <1>6, <1>7, <1>9, <2>1 DEF TrialNext
<1>11. ASSUME NEW k \in DOMAIN Patterns[q].insts, Anchor(q, k)
       PROVE  /\ o.state = "fail" \/ InTime(o.run, Len(Patterns[q].insts), k)
              /\ o.state = "match" => Took(o.run, Len(Patterns[q].insts), k)
  <2>1. k \in 1..Len(Patterns[q].insts) /\ Len(Patterns[q].insts) \in Nat
    BY <1>2, PatternsAre
  <2>2. InTime(rt[q], Len(Patterns[q].insts), k)
    BY <1>2, <1>4, <1>11 DEF Timely
  <2>3. window[w].id # NoRecord
    BY <1>7, <1>9 DEF NoRecord
  <2>4. Patterns[q].insts[k].type = "instruction" /\ Patterns[q].insts[k].minc \in Nat \ {0}
    BY <1>11 DEF Anchor
  <2> HIDE DEF w
  <2> QED
    BY <2>1, <2>2, <2>3, <2>4, InTimeTested
<1> HIDE DEF o, w
<1>12. alive' \subseteq Selected(reserve')
  BY <1>1, <1>3, <1>4
<1>13. ASSUME NEW p \in alive' PROVE Timely(p)'
  <2>1. CASE p # q
    <3>1. p \in alive /\ rt'[p] = rt[p]
      BY <1>2, <1>3, <1>13, <2>1
    <3> QED
      BY <1>4, <3>1 DEF Timely
  <2>2. CASE p = q
    <3>1. o.state # "fail" /\ rt'[q] = o.run
      BY <1>2, <1>3, <1>13, <2>2
    <3> QED
      BY <1>11, <2>2, <3>1 DEF Timely
  <2> QED
    BY <2>1, <2>2
<1>14. ASSUME ret' = "1" PROVE Complete(sr)'
  <2>1. sr' = q /\ o.state = "match" /\ rt'[q] = o.run
    BY <1>2, <1>3, <1>14
  <2> QED
    BY <1>11, <2>1 DEF Complete
<1>15. ASSUME ret' # "1", NEW p \in Selected(reserve) PROVE Follows(p)'
  <2>1. Trial(p, tr)' = Trial(p, tr) /\ Len(window') = w
    BY <1>1 DEF Trial, IsTrial, TrialNext, TrialAt, TrialLen, w
  <2>2. Follows(p)
    BY <1>4
  <2>3. /\ ~Waiting(q)'
        /\ \A x \in alive : x # q => (Waiting(x)' <=> Waiting(x))
    BY <1>0, <1>1, <1>15, CursorPasses DEF PassInv
  <2>4. CASE p # q
    <3>1. (p \in alive' <=> p \in alive) /\ (p \in alive => rt'[p] = rt[p])
      BY <1>2, <1>3, <2>4
    <3>2. CASE p \notin alive
      BY <2>1, <2>2, <3>1, <3>2 DEF Follows, w
    <3>3. CASE p \in alive
      <4>1. Waiting(p)' <=> Waiting(p)
        BY <2>3, <2>4, <3>3
      <4> QED
        BY <2>1, <2>2, <3>1, <3>3, <4>1 DEF Follows, w
    <3> QED
      BY <3>2, <3>3
  <2>5. CASE p = q
    <3>1. Trial(p, tr)'[Len(window')] = o
      BY <1>10, <2>1, <2>5
    <3>2. CASE o.state = "fail"
      <4>1. p \notin alive'
        BY <1>3, <2>5, <3>2
      <4> QED
        BY <3>1, <3>2, <4>1 DEF Follows
    <3>3. CASE o.state # "fail"
      <4>1. p \in alive' /\ o.state = "more" /\ rt'[p] = o.run
        BY <1>2, <1>3, <1>15, <2>5, <3>3
      <4>2. ~Waiting(p)'
        BY <2>3, <2>5
      <4> QED
        BY <3>1, <4>1, <4>2 DEF Follows
    <3> QED
      BY <3>2, <3>3
  <2> QED
    BY <2>4, <2>5
<1> QED
  BY <1>1, <1>12, <1>13, <1>14, <1>15 DEF ScanInv

LEMMA ScanInvStep == PassInv /\ ScanInv /\ [RewriteNext]_rvars => ScanInv'
<1> SUFFICES ASSUME PassInv, ScanInv, [RewriteNext]_rvars PROVE ScanInv'
  OBVIOUS
<1>1. CASE BeginPass \/ EndPass \/ NextStart \/ Replace
  <2>1. pc' # "scan"
    BY <1>1 DEF BeginPass, EndPass, NextStart, Replace, Return
  <2> QED
    BY <2>1 DEF ScanInv
<1>2. CASE BeginScan
  BY <1>2, ScanInvBegin
<1>3. CASE Feed
  BY <1>3, ScanInvFeed
<1>4. CASE Test
  BY <1>4, ScanInvTest
<1>5. CASE UNCHANGED rvars
  <2>1. UNCHANGED <<seq, rt, ret, sr, window, alive, insts, reserve, tr, pc>>
    BY <1>5 DEF rvars, vars, pass, list
  <2>2. \A p : Trial(p, tr)' = Trial(p, tr)
    BY <2>1 DEF Trial, IsTrial, TrialNext, TrialAt, TrialLen
  <2>3. \A p : Waiting(p)' = Waiting(p)
    BY <2>1 DEF Waiting
  <2>4. \A p : Follows(p)' = Follows(p)
    BY <2>1, <2>2, <2>3 DEF Follows
  <2>5. \A p : Timely(p)' = Timely(p)
    BY <2>1 DEF Timely
  <2>6. Complete(sr)' = Complete(sr)
    BY <2>1 DEF Complete
  <2> QED
    BY <2>1, <2>4, <2>5, <2>6 DEF ScanInv
<1> QED
  BY <1>1, <1>2, <1>3, <1>4, <1>5 DEF RewriteNext

-----------------------------------------------------------------------------
(***************************************************************************)
(* What a replacement puts into the trace, and what is deleted from it.    *)
(***************************************************************************)
AreRecords(s) == \A n \in 1..Len(s) : DOMAIN s[n] = RecordFields
Dirty         == \E i \in 1..Len(insts) : insts[i].deleted

LEMMA FlattenRecords ==
  ASSUME NEW L \in Nat, NEW R, R = [n \in 1..L |-> R[n]], \A n \in 1..L : IsSequence(R[n]),
         \A n \in 1..L : AreRecords(R[n])
  PROVE  AreRecords(FlattenSeq(R))
<1> DEFINE D == {x \in UNION {ToSet(R[n]) : n \in 1..L} : DOMAIN x = RecordFields}
<1>1. ASSUME NEW n \in 1..L PROVE R[n] \in Seq(D)
  <2>1. DOMAIN R[n] = 1..Len(R[n]) /\ R[n] \in Seq(ToSet(R[n]))
    BY SequenceIs DEF IsSequence
  <2>2. ToSet(R[n]) \subseteq D
    <3>1. \A x \in ToSet(R[n]) : DOMAIN x = RecordFields
      BY <2>1 DEF ToSet, AreRecords
    <3> QED
      BY <3>1
  <2> HIDE DEF D
  <2> QED
    BY <2>1, <2>2, SeqMonotonic
<1>2. \A x \in D : DOMAIN x = RecordFields
  OBVIOUS
<1> HIDE DEF D
<1>3. R \in [1..L -> Seq(D)]
  BY <1>1
<1>4. Prefix(R, L) = R
  BY DEF Prefix
<1>5. FlattenSeq(R) \in Seq(D)
  <2>1. \A j \in 0..L : FlattenSeq(Prefix(R, j)) \in Seq(D)
    BY <1>3, FlattenPrefix
  <2>2. L \in 0..L
    OBVIOUS
  <2> QED
    BY <1>4, <2>1, <2>2
<1>6. \A n \in 1..Len(FlattenSeq(R)) : FlattenSeq(R)[n] \in D
  BY <1>5
<1> QED
  BY <1>2, <1>6 DEF AreRecords

\* The first of member j is behind what the members before it make.
LEMMA FlattenAt ==
  ASSUME NEW S, NEW L \in Nat, NEW R \in [1..L -> Seq(S)], NEW j \in 1..L, Len(R[j]) >= 1
  PROVE  /\ Len(FlattenSeq(Prefix(R, j-1))) + 1 \in 1..Len(FlattenSeq(R))
         /\ FlattenSeq(R)[Len(FlattenSeq(Prefix(R, j-1))) + 1] = R[j][1]
<1> DEFINE F(m) == FlattenSeq(Prefix(R, m))
           q    == Len(F(j-1)) + 1
           T    == {d \in Nat : j + d <= L => q \in 1..Len(F(j+d)) /\ F(j+d)[q] = R[j][1]}
<1>1. \A m \in 0..L : F(m) \in Seq(S)
  BY FlattenPrefix
<1>2. \A m \in 1..L : F(m) = F(m-1) \o R[m]
  BY FlattenPrefix
<1>3. j - 1 \in 0..L /\ j \in 0..L /\ R[j] \in Seq(S)
  OBVIOUS
<1>4. F(L) = FlattenSeq(R)
  <2>1. Prefix(R, L) = R
    BY DEF Prefix
  <2> QED
    BY <2>1
<1> HIDE DEF F
<1>5. 0 \in T
  <2>1. F(j) = F(j-1) \o R[j] /\ F(j-1) \in Seq(S)
    BY <1>1, <1>2, <1>3
  <2>2. /\ Len(F(j-1) \o R[j]) = Len(F(j-1)) + Len(R[j])
        /\ \A n \in 1..(Len(F(j-1)) + Len(R[j])) :
             (F(j-1) \o R[j])[n] = IF n <= Len(F(j-1)) THEN F(j-1)[n] ELSE R[j][n - Len(F(j-1))]
    BY <1>3, <2>1, ConcatProperties
  <2>3. Len(F(j-1)) \in Nat /\ Len(R[j]) \in Nat
    BY <1>3, <2>1
  <2>4. q \in 1..(Len(F(j-1)) + Len(R[j])) /\ ~(q <= Len(F(j-1))) /\ q - Len(F(j-1)) = 1
    BY <2>3
  <2>5. j + 0 = j
    OBVIOUS
  <2> HIDE DEF q
  <2> QED
    BY <2>1, <2>2, <2>4, <2>5
<1>6. ASSUME NEW d \in T PROVE d + 1 \in T
  <2> SUFFICES ASSUME j + (d+1) <= L
               PROVE  q \in 1..Len(F(j+(d+1))) /\ F(j+(d+1))[q] = R[j][1]
    OBVIOUS
  <2> DEFINE e == j + (d+1)
  <2>1. e \in 1..L /\ e - 1 = j + d /\ j + d \in 0..L
    OBVIOUS
  <2>2. q \in 1..Len(F(j+d)) /\ F(j+d)[q] = R[j][1]
    OBVIOUS
  <2> HIDE DEF q, e
  <2>3. F(e) = F(j+d) \o R[e] /\ F(j+d) \in Seq(S) /\ R[e] \in Seq(S)
    BY <1>1, <1>2, <2>1
  <2> DEFINE A == F(j+d)
             B == R[e]
  <2>0. F(e) = A \o B /\ A \in Seq(S) /\ B \in Seq(S) /\ q \in 1..Len(A) /\ A[q] = R[j][1]
    BY <2>2, <2>3
  <2> HIDE DEF A, B
  <2>4. /\ Len(A \o B) = Len(A) + Len(B)
        /\ \A n \in 1..(Len(A) + Len(B)) :
             (A \o B)[n] = IF n <= Len(A) THEN A[n] ELSE B[n - Len(A)]
    BY <2>0, ConcatProperties
  <2>5. Len(A) \in Nat /\ Len(B) \in Nat
    BY <2>0
  <2>6. q \in 1..(Len(A) + Len(B)) /\ q <= Len(A)
    BY <2>0, <2>5
  <2>7. q \in 1..Len(F(e)) /\ F(e)[q] = R[j][1]
    BY <2>0, <2>4, <2>6
  <2> QED
    BY <2>7 DEF e
<1>7. T = Nat
  <2> HIDE DEF T
  <2>1. T \in SUBSET Nat
    BY DEF T
  <2> QED
    BY <1>5, <1>6, <2>1, InductionBySet
<1>8. PICK d \in Nat : j + d = L
  <2>1. L - j \in Nat /\ j + (L - j) = L
    OBVIOUS
  <2> QED
    BY <2>1
<1>9. q \in 1..Len(F(L)) /\ F(L)[q] = R[j][1]
  <2> HIDE DEF q
  <2>1. d \in T
    BY <1>7
  <2>2. j + d <= L
    BY <1>8
  <2>3. q \in 1..Len(F(j+d)) /\ F(j+d)[q] = R[j][1]
    BY <2>1, <2>2
  <2> QED
    BY <1>8, <2>3
<1> QED
  BY <1>4, <1>9 DEF F

\* No member is longer than one: nothing is longer than the number of members, and
\* shorter if one of them is empty.
LEMMA FlattenShrinks ==
  ASSUME NEW S, NEW L \in Nat, NEW R \in [1..L -> Seq(S)], \A n \in 1..L : Len(R[n]) <= 1
  PROVE  /\ Len(FlattenSeq(R)) \in 0..L
         /\ (\E n \in 1..L : Len(R[n]) = 0) => Len(FlattenSeq(R)) < L
<1> DEFINE N(m) == Len(FlattenSeq(Prefix(R, m)))
           Claim(m) == /\ N(m) \in 0..m
                       /\ (\E n \in 1..m : Len(R[n]) = 0) => N(m) < m
           T == {m \in Nat : m <= L => Claim(m)}
<1>1. N(0) = 0
  BY FlattenPrefix, EmptyIsSequence
<1>2. ASSUME NEW m \in 1..L PROVE N(m) = N(m-1) + Len(R[m])
  <2>1. FlattenSeq(Prefix(R, m)) = FlattenSeq(Prefix(R, m-1)) \o R[m]
    BY FlattenPrefix
  <2>2. m - 1 \in 0..L
    OBVIOUS
  <2>3. FlattenSeq(Prefix(R, m-1)) \in Seq(S) /\ R[m] \in Seq(S)
    BY <2>2, FlattenPrefix
  <2> QED
    BY <2>1, <2>3, ConcatProperties
<1>3. N(L) = Len(FlattenSeq(R))
  <2>1. Prefix(R, L) = R
    BY DEF Prefix
  <2> QED
    BY <2>1
<1>4. \A n \in 1..L : Len(R[n]) \in {0, 1}
  <2>1. \A n \in 1..L : Len(R[n]) \in Nat
    OBVIOUS
  <2>2. \A x \in Nat : x <= 1 => x \in {0, 1}
    OBVIOUS
  <2> QED
    BY <2>1, <2>2, Zenon
<1> HIDE DEF N
<1>5. Claim(0)
  <2>1. \A n \in 1..0 : FALSE
    OBVIOUS
  <2>2. N(0) \in 0..0
    BY <1>1
  <2> QED
    BY <2>1, <2>2
<1>6. ASSUME NEW m \in Nat, m + 1 <= L, Claim(m) PROVE Claim(m+1)
  <2>0. m + 1 \in 1..L /\ (m + 1) - 1 = m
    BY <1>6
  <2>1. N(m) \in 0..m /\ ((\E n \in 1..m : Len(R[n]) = 0) => N(m) < m)
    BY <1>6
  <2>2. N(m+1) = N(m) + Len(R[m+1])
    BY <1>2, <2>0
  <2>3. Len(R[m+1]) \in {0, 1}
    BY <1>4, <2>0
  <2>4. N(m+1) \in 0..m+1
    <3>1. \A a \in 0..m : \A b \in {0, 1} : a + b \in 0..m+1
      OBVIOUS
    <3> QED
      BY <2>1, <2>2, <2>3, <3>1
  <2>5. ASSUME NEW n \in 1..m+1, Len(R[n]) = 0 PROVE N(m+1) < m + 1
    <3>1. CASE n = m + 1
      BY <2>1, <2>2, <2>5, <3>1
    <3>2. CASE n # m + 1
      <4>1. n \in 1..m
        BY <3>2
      <4>2. N(m) < m /\ N(m) \in Int
        BY <2>1, <2>5, <4>1
      <4>3. \A a \in Int : \A b \in {0, 1} : a < m => a + b < m + 1
        OBVIOUS
      <4> QED
        BY <2>2, <2>3, <4>2, <4>3
    <3> QED
      BY <3>1, <3>2
  <2> QED
    BY <2>4, <2>5
<1> HIDE DEF Claim
<1>7. T = Nat
  <2>1. 0 \in T /\ T \in SUBSET Nat
    BY <1>5
  <2>2. \A m \in T : m + 1 \in T
    <3>1. ASSUME NEW m \in T, m + 1 <= L PROVE Claim(m+1)
      <4>1. m \in Nat /\ (m <= L => Claim(m))
        BY <3>1, Zenon
      <4>2. m <= L
        BY <3>1, <4>1
      <4> QED
        BY <1>6, <3>1, <4>1, <4>2
    <3> QED
      BY <3>1
  <2> HIDE DEF T
  <2> QED
    BY <2>1, <2>2, InductionBySet
<1>8. Claim(L)
  <2>1. L \in T /\ L <= L
    BY <1>7
  <2> QED
    BY <2>1
<1> QED
  BY <1>3, <1>8 DEF Claim

\* A record stays a record, and so does what is made of it.
LEMMA OneRecord ==
  /\ IsSequence(<<>>) /\ AreRecords(<<>>) /\ Len(<<>>) = 0
  /\ \A x : IsSequence(<<x>>) /\ Len(<<x>>) = 1 /\ <<x>>[1] = x
  /\ \A x : DOMAIN x = RecordFields => AreRecords(<<x>>)
<1>1. \A x : <<x>> \in Seq({x}) /\ Len(<<x>>) = 1 /\ <<x>>[1] = x
  OBVIOUS
<1>2. \A x : IsSequence(<<x>>)
  BY <1>1, SeqIsSequence
<1>3. ASSUME NEW x, DOMAIN x = RecordFields PROVE AreRecords(<<x>>)
  <2>1. \A n \in 1..1 : <<x>>[n] = x
    BY <1>1
  <2> QED
    BY <1>1, <1>3, <2>1 DEF AreRecords
<1>4. \A n \in 1..0 : FALSE
  OBVIOUS
<1>5. AreRecords(<<>>)
  BY <1>4, EmptyIsSequence DEF AreRecords
<1> QED
  BY <1>1, <1>2, <1>3, <1>5, EmptyIsSequence

LEMMA NewRecordsFields ==
  ASSUME Matched, NEW i, DOMAIN insts[i] = RecordFields, NEW k \in DOMAIN Patterns[sr].insts
  PROVE  AreRecords(NewRecords(k, i))
<1> DEFINE rps == Patterns[sr].insts[k].rps
           R == [n \in DOMAIN rps |-> IF Produces(rps[n]) THEN <<NewRecord(k, i, rps[n])>> ELSE <<>>]
<1>1. Len(rps) \in Nat /\ DOMAIN rps = 1..Len(rps)
  BY MatchIs, PatternsAre, SequenceIs
<1>2. \A body : DOMAIN NewRecord(k, i, body) = RecordFields
  BY DEF NewRecord
<1>3. \A n \in 1..Len(rps) : IsSequence(R[n]) /\ AreRecords(R[n])
  BY <1>1, <1>2, OneRecord
<1>4. R = [n \in 1..Len(rps) |-> R[n]]
  BY <1>1
<1>5. NewRecords(k, i) = FlattenSeq(R)
  BY DEF NewRecords
<1> HIDE DEF R, rps
<1> QED
  BY <1>1, <1>3, <1>4, <1>5, FlattenRecords

LEMMA AddedFields ==
  ASSUME Matched, NEW i, DOMAIN insts[i] = RecordFields
  PROVE  AreRecords(Added(i))
<1> DEFINE m == Len(Patterns[sr].insts)
           R == [n \in 1..m |->
                  IF m + 1 - n \in PointingAt(i) THEN NewRecords(m + 1 - n, i) ELSE <<>>]
<1>1. m \in Nat
  BY MatchIs, PatternsAre
<1>2. \A n \in 1..m : IsSequence(R[n]) /\ AreRecords(R[n])
  <2>1. \A k \in PointingAt(i) : k \in DOMAIN Patterns[sr].insts
    BY DEF PointingAt
  <2>2. \A k \in PointingAt(i) : IsSequence(NewRecords(k, i)) /\ AreRecords(NewRecords(k, i))
    BY <2>1, NewRecordsAre, NewRecordsFields
  <2> QED
    BY <2>2, OneRecord
<1>3. Added(i) = FlattenSeq(R) /\ R = [n \in 1..m |-> R[n]]
  BY DEF Added
<1> HIDE DEF R, m
<1> QED
  BY <1>1, <1>2, <1>3, FlattenRecords

LEMMA ReplacedFields ==
  ASSUME Matched, NEW i, DOMAIN insts[i] = RecordFields
  PROVE  /\ AreRecords(Replaced(i))
         /\ (\E k \in PointingAt(i) : Condemns(k)) => Replaced(i)[1].deleted
<1> DEFINE x == [insts[i] EXCEPT !.deleted = @ \/ \E k \in PointingAt(i) : Condemns(k)]
           A == Added(i)
           S == ToSet(A) \cup {x}
<1>1. Replaced(i) = <<x>> \o A
  BY DEF Replaced
<1>2. DOMAIN x = RecordFields
  OBVIOUS
<1>3. (\E k \in PointingAt(i) : Condemns(k)) => x.deleted
  BY DEF RecordFields
<1>4. IsSequence(A) /\ AreRecords(A)
  BY AddedAre, AddedFields
<1> HIDE DEF x, A
<1>5. A \in Seq(S) /\ <<x>> \in Seq(S)
  <2>1. A \in Seq(ToSet(A)) /\ x \in S
    BY <1>4 DEF IsSequence
  <2> HIDE DEF S
  <2>2. ToSet(A) \subseteq S
    BY DEF S
  <2> QED
    BY <2>1, <2>2, SeqMonotonic
<1> HIDE DEF S
<1>6. /\ Len(<<x>> \o A) = Len(<<x>>) + Len(A)
      /\ \A n \in 1..(Len(<<x>>) + Len(A)) :
           (<<x>> \o A)[n] = IF n <= Len(<<x>>) THEN <<x>>[n] ELSE A[n - Len(<<x>>)]
  BY <1>5, ConcatProperties
<1>7. Len(<<x>>) = 1 /\ <<x>>[1] = x /\ Len(A) \in Nat
  BY <1>5, OneRecord
<1>8. Replaced(i)[1] = x
  BY <1>1, <1>6, <1>7
<1>9. ASSUME NEW n \in 1..Len(Replaced(i)) PROVE DOMAIN Replaced(i)[n] = RecordFields
  <2>1. CASE n = 1
    BY <1>2, <1>8, <2>1
  <2>2. CASE n # 1
    <3>1. n - 1 \in 1..Len(A) /\ n \in 1..(1 + Len(A)) /\ ~(n <= 1)
      BY <1>1, <1>6, <1>7, <2>2
    <3>2. Replaced(i)[n] = A[n - 1]
      BY <1>1, <1>6, <1>7, <3>1
    <3> QED
      BY <1>4, <3>1, <3>2 DEF AreRecords
  <2> QED
    BY <2>1, <2>2
<1> QED
  BY <1>3, <1>8, <1>9 DEF AreRecords

\* A match of a pattern that deletes leaves a record marked.
LEMMA ReplaceMarks ==
  ASSUME PassInv, AreRecords(insts), Replace
  PROVE  /\ AreRecords(insts')
         /\ ScanInv /\ Deleting => Dirty'
<1> DEFINE L == Len(insts)
           R == [n \in 1..L |-> Replaced(n)]
<1>1. /\ Matched /\ insts' = FlattenSeq(R)
  BY ReplaceIs
<1>2. L \in Nat
  BY <1>1, MatchIs
<1>3. \A n \in 1..L : DOMAIN insts[n] = RecordFields
  BY DEF AreRecords
<1>4. \A n \in 1..L : IsSequence(Replaced(n)) /\ AreRecords(Replaced(n)) /\ Len(Replaced(n)) >= 1
  BY <1>1, <1>3, ReplacedAre, ReplacedFields
<1>5. R = [n \in 1..L |-> R[n]] /\ \A n \in 1..L : R[n] = Replaced(n)
  OBVIOUS
<1>6. ASSUME NEW i \in 1..L, NEW k \in PointingAt(i), Condemns(k) PROVE Dirty'
  <2>1. Replaced(i)[1].deleted
    BY <1>1, <1>3, <1>6, ReplacedFields
  <2> HIDE DEF R, L
  <2>2. PICK S : R \in [1..L -> Seq(S)]
    BY <1>2, <1>4, <1>5, FlattenFamily
  <2> DEFINE q == Len(FlattenSeq(Prefix(R, i-1))) + 1
  <2>3. q \in 1..Len(FlattenSeq(R)) /\ FlattenSeq(R)[q] = R[i][1]
    <3>1. R[i] = Replaced(i) /\ Len(R[i]) >= 1
      BY <1>4, <1>5
    <3> QED
      BY <1>2, <2>2, <3>1, FlattenAt
  <2> HIDE DEF q
  <2>4. q \in 1..Len(insts') /\ insts'[q].deleted
    BY <1>1, <1>5, <2>1, <2>3
  <2> QED
    BY <2>4 DEF Dirty
<1>7. AreRecords(insts')
  <2> HIDE DEF R, L
  <2> QED
    BY <1>1, <1>2, <1>4, <1>5, FlattenRecords
<1>8. ASSUME ScanInv, Deleting PROVE Dirty'
  <2>1. pc = "scan" /\ ret = "1" /\ seq = Nil
    BY DEF Replace
  <2>2. Complete(sr) /\ sr \in Selected(reserve)
    <3>1. sr \in alive
      BY <2>1 DEF PassInv, ListInv, VerdictIsRight
    <3> QED
      BY <1>8, <2>1, <3>1 DEF ScanInv
  <2>3. sr \in PIds /\ ~Patterns[sr].off
    BY <1>1, <2>2, MatchIs, SelectedIs
  <2>4. PICK k \in DOMAIN Patterns[sr].insts : Anchor(sr, k)
    BY <1>8, <2>3 DEF Deleting
  <2> DEFINE u == rt[sr].userdata[k]
             m == Len(Patterns[sr].insts)
  <2>5. Took(rt[sr], m, k) /\ k \in 1..m
    BY <2>2, <2>3, <2>4, PatternsAre DEF Complete
  <2>6. u # NoRecord /\ u \in 0..Len(window)
    BY <1>1, <2>5, MatchIs DEF Took, Points
  <2> HIDE DEF u
  <2>7. FedAt(u) \in 1..L
    <3>0. u \in 1..Len(window) /\ tr \in 1..L /\ subtr \in 1..L /\ reserve \in BOOLEAN
      BY <1>1, <2>6, MatchIs DEF NoRecord
    <3>1. CASE reserve
      <4>1. Len(window) = (tr - subtr) + 1 /\ subtr <= tr
        BY <1>1, <3>1, MatchIs DEF Stretch
      <4>2. FedAt(u) = tr - u + 1
        BY <3>1 DEF FedAt
      <4> HIDE DEF L
      <4> QED
        BY <1>2, <3>0, <4>1, <4>2
    <3>2. CASE ~reserve
      <4>1. Len(window) = (subtr - tr) + 1 /\ tr <= subtr
        BY <1>1, <3>2, MatchIs DEF Stretch
      <4>2. FedAt(u) = tr + u - 1
        BY <3>2 DEF FedAt
      <4> HIDE DEF L
      <4> QED
        BY <1>2, <3>0, <4>1, <4>2
    <3> QED
      BY <3>1, <3>2
  <2>8. k \in PointingAt(FedAt(u))
    BY <2>6 DEF PointingAt, u
  <2>9. Condemns(k)
    BY <2>4 DEF Anchor, Condemns
  <2> QED
    BY <1>6, <2>7, <2>8, <2>9
<1> QED
  BY <1>7, <1>8

\* What is marked is deleted, and nothing else.
LEMMA EndPassIs ==
  ASSUME PassInv, AreRecords(insts), EndPass
  PROVE  /\ AreRecords(insts')
         /\ Len(insts) \in Nat /\ Len(insts') \in 0..Len(insts)
         /\ Dirty => Len(insts') < Len(insts)
         /\ ~Dirty => insts' = insts
<1> DEFINE L == Len(insts)
           R == [n \in 1..L |-> IF insts[n].deleted THEN <<>> ELSE <<insts[n]>>]
<1>1. L \in Nat /\ DOMAIN insts = 1..L /\ IsSequence(insts)
  BY SequenceIs DEF PassInv
<1>2. insts' = FlattenSeq(R)
  BY <1>1 DEF EndPass, deleteFlagedInSeq
<1>3. ASSUME NEW n \in 1..L
      PROVE  /\ R[n] = IF insts[n].deleted THEN <<>> ELSE <<insts[n]>>
             /\ IsSequence(R[n]) /\ AreRecords(R[n]) /\ Len(R[n]) <= 1
             /\ insts[n].deleted => Len(R[n]) = 0
             /\ ~insts[n].deleted => Len(R[n]) = 1 /\ R[n][1] = insts[n]
  <2>1. R[n] = IF insts[n].deleted THEN <<>> ELSE <<insts[n]>>
    OBVIOUS
  <2>2. DOMAIN insts[n] = RecordFields
    BY DEF AreRecords
  <2> HIDE DEF R, L
  <2>3. CASE insts[n].deleted
    <3>1. R[n] = <<>>
      BY <2>1, <2>3
    <3> QED
      BY <2>1, <2>3, <3>1, OneRecord
  <2>4. CASE ~insts[n].deleted
    <3>1. R[n] = <<insts[n]>>
      BY <2>1, <2>4
    <3> QED
      BY <2>1, <2>2, <2>4, <3>1, OneRecord
  <2> QED
    BY <2>3, <2>4
<1>4. R = [n \in 1..L |-> R[n]] /\ Prefix(R, L) = R
  BY DEF Prefix
<1> HIDE DEF R
<1>5. PICK S : R \in [1..L -> Seq(S)]
  BY <1>1, <1>3, <1>4, FlattenFamily
<1>6. AreRecords(insts')
  BY <1>1, <1>2, <1>3, <1>4, FlattenRecords
<1>7. /\ Len(insts') \in 0..L
      /\ (\E n \in 1..L : Len(R[n]) = 0) => Len(insts') < L
  BY <1>1, <1>2, <1>3, <1>5, FlattenShrinks
<1>8. Dirty => Len(insts') < L
  BY <1>3, <1>7 DEF Dirty
<1>9. ASSUME ~Dirty PROVE insts' = insts
  <2>1. \A n \in 1..L : Len(R[n]) = 1 /\ R[n][1] = insts[n]
    BY <1>3, <1>9 DEF Dirty
  <2>2. ASSUME NEW j \in 0..L PROVE Len(FlattenSeq(Prefix(R, j))) = j
    <3> HIDE DEF L
    <3>1. 0 \in 0..L /\ j \in 0..L /\ j \in 0..j + L /\ \A n \in 0+1..j : n \in 1..L
      BY <1>1
    <3>2. j \in 0..L
      OBVIOUS
    <3>3. \A n \in 0+1..j : Len(R[n]) = 1
      BY <2>1, <3>1
    <3>4. Len(FlattenSeq(Prefix(R, j))) = Len(FlattenSeq(Prefix(R, 0))) + (j - 0)
      BY <1>1, <1>5, <3>1, <3>3, FlattenGap
    <3>5. Len(FlattenSeq(Prefix(R, 0))) = 0
      BY <1>1, <1>5, FlattenPrefix, EmptyIsSequence
    <3> QED
      BY <3>4, <3>5
  <2>3. Len(insts') = L
    BY <1>1, <1>2, <1>4, <2>2
  <2>4. ASSUME NEW j \in 1..L PROVE insts'[j] = insts[j]
    <3>0. j - 1 \in 0..L /\ (j - 1) + 1 = j
      BY <1>1
    <3>1. Len(FlattenSeq(Prefix(R, j-1))) = j - 1
      BY <2>2, <3>0
    <3>2. Len(R[j]) >= 1
      BY <2>1
    <3>3. /\ Len(FlattenSeq(Prefix(R, j-1))) + 1 \in 1..Len(FlattenSeq(R))
          /\ FlattenSeq(R)[Len(FlattenSeq(Prefix(R, j-1))) + 1] = R[j][1]
      <4>1. L \in Nat /\ R \in [1..L -> Seq(S)] /\ j \in 1..L /\ Len(R[j]) >= 1
        BY <1>1, <1>5, <3>2
      <4> HIDE DEF L
      <4> QED
        BY <4>1, FlattenAt
    <3>4. FlattenSeq(R)[j] = R[j][1]
      BY <3>0, <3>1, <3>3
    <3> QED
      BY <1>2, <2>1, <3>4
  <2>5. IsSequence(insts')
    BY <1>1, <1>2, <1>3, <1>4, FlattenFamily
  <2>6. insts' = [n \in 1..L |-> insts'[n]] /\ insts = [n \in 1..L |-> insts[n]]
    BY <1>1, <2>3, <2>5, SequenceIs
  <2> QED
    BY <2>4, <2>6
<1> QED
  BY <1>1, <1>6, <1>7, <1>8, <1>9

-----------------------------------------------------------------------------
(***************************************************************************)
(* What the passes leave.  Where a scan has started and gone on, no        *)
(* pattern of its direction matches, unless a record is marked; a record   *)
(* that is marked is counted when it is deleted.                           *)
(***************************************************************************)
Clear(rev, i) == \A p \in Selected(rev) : ~MatchesFrom(p, i)
Passed(i)     == tr = 0 \/ IF reserve THEN i > tr ELSE i < tr
AllClear(rev) == \A i \in 1..Len(insts) : Clear(rev, i)
Swept         == \A i \in 1..Len(insts) : Passed(i) => Clear(reserve, i)
LeftInv ==
  /\ AreRecords(insts)
  /\ nr \in Nat
  /\ pc \in {"pass", "next", "scan", "done"}
  /\ pc \in {"next", "scan"} => Dirty \/ Swept
  /\ pc = "pass" /\ reserve /\ nr = 0 => AllClear(FALSE)
  /\ pc \in {"next", "scan"} /\ reserve /\ nr = 0 =>
       AllClear(FALSE) \/ (Dirty /\ Selected(TRUE) # {})
  /\ pc = "done" /\ nr = 0 => AllClear(FALSE) /\ AllClear(TRUE)

\* A scan that ends without a match was long enough to see all that follows.
LEMMA ScanDone ==
  ASSUME PassInv, ScanInv, NextStart
  PROVE  Clear(reserve, tr)
<1> SUFFICES ASSUME NEW p \in Selected(reserve) PROVE ~MatchesFrom(p, tr)
  BY DEF Clear
<1> DEFINE c   == Trial(p, tr)
           len == TrialLen(p, tr)
           w   == Len(window)
<1>1. pc = "scan" /\ seq = Nil /\ (ret = "-1" \/ (ret = "0" /\ Along(insts, subtr) = 0))
  BY DEF NextStart
<1>2. Follows(p)
  BY <1>1 DEF ScanInv
<1>3. /\ len \in Nat /\ w \in 0..len
      /\ len = IF reserve THEN tr ELSE Len(insts) - tr + 1
  BY <1>1, WindowFits
<1>4. MatchesFrom(p, tr) = (c[len].state = "match")
  BY <1>3, TrialIs
<1>5. ~Waiting(p)
  BY <1>1 DEF Waiting
<1>6. CASE p \notin alive
  <2>1. c[w].state = "fail"
    BY <1>2, <1>6 DEF Follows
  <2>2. c[len].state = "fail"
    BY <1>3, <2>1, TrialStays
  <2> QED
    BY <1>4, <2>2
<1>7. CASE p \in alive
  <2>1. c[w].state = "more"
    BY <1>2, <1>5, <1>7 DEF Follows
  <2>2. ret = "0" /\ Along(insts, subtr) = 0
    BY <1>1, <1>7 DEF PassInv, ListInv, VerdictIsRight
  <2>3. w = len
    <3>1. Stretch
      BY <1>1, <2>2 DEF PassInv, Scanning
    <3>2. /\ subtr # 0 /\ reserve \in BOOLEAN /\ Len(insts) \in Nat
          /\ tr \in 0..Len(insts) /\ subtr \in 0..Len(insts)
          /\ w = (IF reserve THEN tr - subtr ELSE subtr - tr) + 1
      BY <3>1, SequenceIs DEF PassInv, Stretch
    <3> HIDE DEF w, len
    <3>3. CASE reserve
      <4>1. subtr - 1 = 0
        BY <2>2, <3>2, <3>3, AlongIs
      <4> QED
        BY <1>3, <3>2, <3>3, <4>1
    <3>4. CASE ~reserve
      <4>1. subtr = Len(insts)
        BY <2>2, <3>2, <3>4, AlongIs
      <4> QED
        BY <1>3, <3>2, <3>4, <4>1
    <3> QED
      BY <3>3, <3>4
  <2> QED
    BY <1>4, <2>1, <2>3
<1> QED
  BY <1>6, <1>7

\* While the trace stays, so does what matches in it.
LEMMA ClearStays ==
  ASSUME insts' = insts
  PROVE  /\ \A rev, i : Clear(rev, i)' <=> Clear(rev, i)
         /\ AllClear(FALSE)' <=> AllClear(FALSE)
         /\ AllClear(TRUE)' <=> AllClear(TRUE)
         /\ Dirty' <=> Dirty
         /\ AreRecords(insts') <=> AreRecords(insts)
<1>1. ASSUME NEW rev, NEW i PROVE Clear(rev, i)' <=> Clear(rev, i)
  <2>1. \A p : MatchesFrom(p, i)' = MatchesFrom(p, i)
    BY TrialPrime
  <2> QED
    BY <2>1 DEF Clear
<1> QED
  BY <1>1 DEF AllClear, Dirty

LEMMA LeftInvInit == RewriteInit => LeftInv
<1> SUFFICES ASSUME RewriteInit PROVE LeftInv
  OBVIOUS
<1>1. insts \in Traces /\ nr = 0 /\ pc = "pass" /\ reserve = FALSE
  BY DEF RewriteInit
<1>2. AreRecords(insts)
  BY <1>1, RewriteAssumption, SequenceIs DEF AreRecords
<1> QED
  BY <1>1, <1>2 DEF LeftInv

LEMMA LeftInvBeginPass == ASSUME PassInv, LeftInv, BeginPass PROVE LeftInv'
<1>1. /\ pc = "pass" /\ pc' = "next" /\ insts' = insts /\ reserve' = reserve /\ nr' = nr
      /\ tr' = IF reserve \/ insts = <<>> THEN Len(insts) ELSE 1
  BY DEF BeginPass
<1>2. Len(insts) \in Nat /\ reserve \in BOOLEAN /\ (insts = <<>> => Len(insts) = 0)
  BY SequenceIs, EmptyIsSequence DEF PassInv
<1>3. ASSUME NEW i \in 1..Len(insts) PROVE ~Passed(i)'
  <2>1. CASE reserve
    BY <1>1, <1>2, <2>1 DEF Passed
  <2>2. CASE ~reserve
    <3>1. tr' = 1
      BY <1>1, <1>2, <2>2
    <3> QED
      BY <1>1, <1>2, <2>2, <3>1 DEF Passed
  <2> QED
    BY <2>1, <2>2
<1>4. Swept'
  BY <1>1, <1>3 DEF Swept
<1> QED
  BY <1>1, <1>4, ClearStays DEF LeftInv

LEMMA LeftInvBeginScan == ASSUME PassInv, LeftInv, BeginScan PROVE LeftInv'
<1>1. pc = "next" /\ insts' = insts /\ reserve \in BOOLEAN /\ nr \in Nat /\ AreRecords(insts)
  BY DEF BeginScan, PassInv, LeftInv
<1>2. AreRecords(insts')
  BY <1>1
<1>3. CASE Selected(reserve) = {}
  <2>1. Return(0)
    BY <1>3 DEF BeginScan
  <2>2. AllClear(reserve)
    BY <1>3 DEF AllClear, Clear
  <2>3. CASE ~reserve
    <3>1. reserve' = TRUE /\ nr' = 0 /\ pc' = "pass"
      BY <2>1, <2>3 DEF Return
    <3>2. AllClear(FALSE)'
      <4>1. reserve = FALSE
        BY <1>1, <2>3
      <4> QED
        BY <1>1, <2>2, <4>1, ClearStays
    <3> QED
      BY <1>2, <3>1, <3>2 DEF LeftInv
  <2>4. CASE reserve
    <3>1. reserve' = FALSE /\ nr' = nr + 0 /\ pc' \in {"pass", "done"}
      BY <2>1, <2>4 DEF Return
    <3>2. nr' = nr
      BY <1>1, <3>1
    <3>3. nr = 0 => AllClear(FALSE)
      BY <1>1, <1>3, <2>4 DEF LeftInv
    <3>4. nr' = 0 => AllClear(FALSE)' /\ AllClear(TRUE)'
      <4>1. reserve = TRUE
        BY <1>1, <2>4
      <4> QED
        BY <1>1, <2>2, <3>2, <3>3, <4>1, ClearStays
    <3> QED
      BY <1>1, <1>2, <3>1, <3>2, <3>4 DEF LeftInv
  <2> QED
    BY <2>3, <2>4
<1>4. CASE Selected(reserve) # {}
  <2>1. pc' = "scan" /\ UNCHANGED <<reserve, tr, nr>>
    BY <1>4 DEF BeginScan
  <2>2. Swept => Swept'
    BY <1>1, <2>1, ClearStays DEF Swept, Passed
  <2> QED
    BY <1>1, <1>2, <2>1, <2>2, ClearStays DEF LeftInv
<1> QED
  BY <1>3, <1>4

LEMMA LeftInvEndPass == ASSUME PassInv, LeftInv, EndPass PROVE LeftInv'
<1>1. /\ pc = "next" /\ tr = 0 /\ Return(Len(insts) - Len(insts'))
      /\ reserve \in BOOLEAN /\ nr \in Nat /\ AreRecords(insts) /\ (Dirty \/ Swept)
  BY DEF EndPass, PassInv, LeftInv
<1>2. /\ AreRecords(insts')
      /\ Len(insts) \in Nat /\ Len(insts') \in 0..Len(insts)
      /\ Dirty => Len(insts') < Len(insts)
      /\ ~Dirty => insts' = insts
  BY <1>1, EndPassIs
<1> DEFINE n == Len(insts) - Len(insts')
<1>3. n \in Nat /\ (n = 0 => ~Dirty)
  BY <1>2
<1>4. n = 0 => insts' = insts /\ AllClear(reserve)
  BY <1>1, <1>2, <1>3 DEF Swept, Passed, AllClear
<1>5. Return(n)
  BY <1>1
<1> HIDE DEF n
<1>6. CASE ~reserve
  <2>1. reserve' = TRUE /\ nr' = n /\ pc' = "pass"
    BY <1>5, <1>6 DEF Return
  <2>2. n = 0 => AllClear(FALSE)'
    <3>1. reserve = FALSE
      BY <1>1, <1>6
    <3> QED
      BY <1>4, <3>1, ClearStays
  <2> QED
    BY <1>2, <1>3, <2>1, <2>2 DEF LeftInv
<1>7. CASE reserve
  <2>1. reserve' = FALSE /\ nr' = nr + n /\ pc' \in {"pass", "done"}
    BY <1>5, <1>7 DEF Return
  <2>2. nr' \in Nat /\ (nr' = 0 => nr = 0 /\ n = 0)
    BY <1>1, <1>3, <2>1
  <2>3. nr' = 0 => AllClear(FALSE)' /\ AllClear(TRUE)'
    <3>1. reserve = TRUE
      BY <1>1, <1>7
    <3>2. ASSUME nr' = 0 PROVE AllClear(FALSE) /\ AllClear(TRUE) /\ insts' = insts
      BY <1>1, <1>3, <1>4, <2>2, <3>1, <3>2 DEF LeftInv
    <3> QED
      BY <3>2, ClearStays
  <2> QED
    BY <1>2, <2>1, <2>2, <2>3 DEF LeftInv
<1> QED
  BY <1>6, <1>7

LEMMA LeftInvSame ==
  ASSUME LeftInv, UNCHANGED <<insts, reserve, tr, pc, nr>>
  PROVE  LeftInv'
<1>1. Swept => Swept'
  BY ClearStays DEF Swept, Passed
<1> QED
  BY <1>1, ClearStays DEF LeftInv

LEMMA LeftInvNextStart == ASSUME PassInv, ScanInv, LeftInv, NextStart PROVE LeftInv'
<1>1. /\ pc = "scan" /\ pc' = "next" /\ UNCHANGED <<insts, reserve, nr>>
      /\ tr' = Along(insts, tr)
  BY DEF NextStart
<1>2. Len(insts) \in Nat /\ tr \in 1..Len(insts) /\ reserve \in BOOLEAN
  BY <1>1, SequenceIs DEF PassInv, Scanning
<1>3. Clear(reserve, tr)
  BY ScanDone
<1>4. ASSUME NEW i \in 1..Len(insts), Passed(i)' PROVE i = tr \/ Passed(i)
  <2>1. CASE reserve
    <3>1. tr' = tr - 1
      BY <1>1, <1>2, <2>1, AlongIs
    <3>2. tr' = 0 \/ i > tr'
      BY <1>1, <1>4, <2>1 DEF Passed
    <3>3. i = tr \/ i > tr
      BY <1>2, <3>1, <3>2
    <3> QED
      BY <2>1, <3>3 DEF Passed
  <2>2. CASE ~reserve
    <3>1. tr' = IF tr < Len(insts) THEN tr + 1 ELSE 0
      BY <1>1, <1>2, <2>2, AlongIs
    <3>2. tr' = 0 \/ i < tr'
      BY <1>1, <1>4, <2>2 DEF Passed
    <3>3. i = tr \/ i < tr
      BY <1>2, <3>1, <3>2
    <3> QED
      BY <2>2, <3>3 DEF Passed
  <2> QED
    BY <2>1, <2>2
<1>5. Swept => Swept'
  <2> SUFFICES ASSUME Swept, NEW i \in 1..Len(insts'), Passed(i)' PROVE Clear(reserve, i)'
    BY DEF Swept
  <2>1. i \in 1..Len(insts) /\ (i = tr \/ Passed(i))
    BY <1>1, <1>4
  <2>2. Clear(reserve, i)
    BY <1>3, <2>1 DEF Swept
  <2>3. \A p : MatchesFrom(p, i)' = MatchesFrom(p, i)
    BY <1>1, TrialPrime
  <2> QED
    BY <1>1, <2>2, <2>3 DEF Clear
<1> QED
  BY <1>1, <1>5, ClearStays DEF LeftInv

LEMMA LeftInvReplace ==
  ASSUME Deleting, PassInv, ScanInv, LeftInv, Replace PROVE LeftInv'
<1>1. pc = "scan" /\ pc' = "next" /\ reserve' = reserve /\ nr' = nr /\ ret = "1"
  BY DEF Replace
<1>2. AreRecords(insts') /\ Dirty' /\ nr \in Nat
  BY ReplaceMarks DEF LeftInv
<1>3. Selected(reserve) # {}
  BY <1>1 DEF ScanInv, PassInv, ListInv, VerdictIsRight
<1>4. reserve => Selected(TRUE) # {}
  <2>1. reserve => reserve = TRUE
    BY DEF PassInv
  <2> QED
    BY <1>3, <2>1
<1> QED
  BY <1>1, <1>2, <1>4 DEF LeftInv

LEMMA LeftInvStep ==
  Deleting /\ PassInv /\ ScanInv /\ LeftInv /\ [RewriteNext]_rvars => LeftInv'
<1> SUFFICES ASSUME Deleting, PassInv, ScanInv, LeftInv, [RewriteNext]_rvars PROVE LeftInv'
  OBVIOUS
<1>1. CASE BeginPass
  BY <1>1, LeftInvBeginPass
<1>2. CASE BeginScan
  BY <1>2, LeftInvBeginScan
<1>3. CASE EndPass
  BY <1>3, LeftInvEndPass
<1>4. CASE Feed
  <2>1. UNCHANGED <<insts, reserve, tr, pc, nr>>
    BY <1>4 DEF Feed
  <2> QED
    BY <2>1, LeftInvSame
<1>5. CASE Test
  <2>1. UNCHANGED <<insts, reserve, tr, pc, nr>>
    BY <1>5 DEF Test, pass
  <2> QED
    BY <2>1, LeftInvSame
<1>6. CASE NextStart
  BY <1>6, LeftInvNextStart
<1>7. CASE Replace
  BY <1>7, LeftInvReplace
<1>8. CASE UNCHANGED rvars
  <2>1. UNCHANGED <<insts, reserve, tr, pc, nr>>
    BY <1>8 DEF rvars, pass
  <2> QED
    BY <2>1, LeftInvSame
<1> QED
  BY <1>1, <1>2, <1>3, <1>4, <1>5, <1>6, <1>7, <1>8 DEF RewriteNext

-----------------------------------------------------------------------------
(***************************************************************************)
(* The results.                                                            *)
(***************************************************************************)
\* The records the engine compares a pattern with are, in order, those of the trace from
\* the start of the scan to the record last fed, whatever was replaced or deleted
\* before (doDeObfuscatePattern: tr, subtr and testInstruction).
THEOREM WindowIsRight == RewriteSpec => []WindowIsStretch
<1>1. PassInv => WindowIsStretch
  <2> SUFFICES ASSUME PassInv, pc = "scan", ret # "new" PROVE WindowIsStretch
    BY DEF WindowIsStretch
  <2>1. Stretch
    BY DEF PassInv, Scanning
  <2>2. \A x, n : Fed(x, n).ins = x.ins
    BY DEF Fed
  <2>3. \A n \in 1..Len(window) : window[n].ins = insts[FedAt(n)].ins
    BY <2>1, <2>2 DEF Stretch
  <2> QED
    BY <2>1, <2>3 DEF Stretch, WindowIsStretch
<1> QED
  BY <1>1, PassInvAlways, PTL

\* Used by the simplification of a trace, which starts scans, feeds records and stops
\* when it likes, the engine keeps its list of live patterns and its verdict right
\* (initForTest, testInstruction and testForSequence as doDeObfuscatePattern calls them).
THEOREM EngineInPass == RewriteSpec => [](ListIsAlive /\ VerdictIsRight)
<1>1. PassInv => ListIsAlive /\ VerdictIsRight
  BY DEF PassInv, ListInv
<1> QED
  BY <1>1, PassInvAlways, PTL

\* A stretch that shrinks: where the start moves past a replacement that ends n - y instructions
\* before the end, the instructions left to start at are fewer.
LEMMA FewerLeft ==
  ASSUME NEW m \in Nat, NEW s \in Nat, NEW t \in Nat, t <= s, t <= m,
         NEW n \in Nat, NEW y \in Nat, n - y = m - (s + 1),
         NEW w, w = IF y < n THEN y + 1 ELSE 0
  PROVE  (IF w = 0 THEN 0 ELSE n - w + 1) < m - t + 1
<1>1. CASE y < n
  <2>1. w = y + 1 /\ w # 0
    BY <1>1
  <2>2. n - w + 1 = n - y
    BY <2>1
  <2> QED
    BY <2>1, <2>2
<1>2. CASE ~(y < n)
  <2>1. w = 0
    BY <1>2
  <2> QED
    BY <2>1
<1> QED
  BY <1>1, <1>2

\* A scan ends at its start or at the match it found; either way the next start is further on.
LEMMA ScanEnds ==
  ASSUME PassInv, RewriteNext, pc = "scan", pc' = "next"
  PROVE  Remaining' < Remaining
<1>1. NextStart \/ Replace
  BY DEF RewriteNext, BeginPass, BeginScan, EndPass, Feed, Test, pass
<1>2. /\ tr # 0 /\ tr \in Nat /\ Len(insts) \in Nat /\ tr <= Len(insts)
      /\ reserve \in BOOLEAN
  BY SequenceIs DEF PassInv, Scanning
<1>3. CASE NextStart
  <2>1. insts' = insts /\ reserve' = reserve /\ tr' = Along(insts, tr)
    BY <1>3 DEF NextStart
  <2>2. CASE reserve
    <3>1. tr' = tr - 1
      BY <1>2, <2>1, <2>2, AlongIs
    <3> QED
      BY <1>2, <2>1, <2>2, <3>1 DEF Remaining
  <2>3. CASE ~reserve
    <3>1. tr' = IF tr < Len(insts) THEN tr + 1 ELSE 0
      BY <1>2, <2>1, <2>3, AlongIs
    <3>2. Remaining = Len(insts) - tr + 1
      BY <1>2, <2>3 DEF Remaining
    <3>3. Remaining' = IF tr' = 0 THEN 0 ELSE Len(insts) - tr' + 1
      BY <2>1, <2>3 DEF Remaining
    <3> QED
      BY <1>2, <3>1, <3>2, <3>3
  <2> QED
    BY <2>2, <2>3
<1>4. CASE Replace
  <2> DEFINE j == Along(insts, subtr)
  <2>1. /\ Matched
        /\ insts' = FlattenSeq([n \in 1..Len(insts) |-> Replaced(n)])
        /\ subtr' = Moved(j) /\ tr' = Along(insts', subtr')
        /\ subtr' \in 0..Len(insts') /\ Len(insts') \in Nat
        /\ reserve' = reserve
    BY <1>4, ReplaceIs
  <2>2. subtr \in 1..Len(insts) /\ Stretch
    BY <2>1, MatchIs
  <2>3. j \in 0..Len(insts)
    BY <1>2, <2>2, AlongIs
  <2>4. j # 0 => /\ j <= tr /\ j <= subtr => Moved(j) = j
                 /\ tr < j /\ subtr < j => Len(insts') - Moved(j) = Len(insts) - j
    BY <2>1, <2>3, MovedIs
  <2>5. CASE subtr' = 0
    <3>1. tr' = 0
      BY <1>2, <2>1, <2>5, AlongIs
    <3>2. Remaining' = 0
      BY <3>1 DEF Remaining
    <3> QED
      BY <1>2, <3>2 DEF Remaining
  <2>6. CASE subtr' # 0
    <3>1. j # 0
      BY <2>1, <2>6 DEF Moved
    <3>2. CASE reserve
      <4>1. j = subtr - 1 /\ subtr <= tr
        BY <1>2, <2>2, <3>2, AlongIs DEF Stretch
      <4> HIDE DEF j
      <4>2. subtr' = j
        BY <1>2, <2>1, <2>2, <2>4, <3>1, <4>1
      <4>3. tr' = subtr' - 1
        BY <1>2, <2>1, <2>6, <3>2, AlongIs
      <4>4. Remaining' = IF tr' = 0 THEN 0 ELSE tr'
        BY <2>1, <3>2 DEF Remaining
      <4>5. Remaining = tr
        BY <1>2, <3>2 DEF Remaining
      <4> QED
        BY <1>2, <2>2, <4>1, <4>2, <4>3, <4>4, <4>5
    <3>3. CASE ~reserve
      <4>1. j = subtr + 1 /\ tr <= subtr
        BY <1>2, <2>2, <3>1, <3>3, AlongIs DEF Stretch
      <4> HIDE DEF j
      <4>2. Len(insts') - subtr' = Len(insts) - j
        BY <1>2, <2>1, <2>2, <2>4, <3>1, <4>1
      <4>3. tr' = IF subtr' < Len(insts') THEN subtr' + 1 ELSE 0
        BY <1>2, <2>1, <2>6, <3>3, AlongIs
      <4>4. Remaining' = IF tr' = 0 THEN 0 ELSE Len(insts') - tr' + 1
        BY <2>1, <3>3 DEF Remaining
      <4>5. Remaining = Len(insts) - tr + 1
        BY <1>2, <3>3 DEF Remaining
      <4>6. Len(insts) \in Nat /\ tr \in Nat /\ tr <= Len(insts)
        BY <1>2
      <4>7. subtr \in Nat /\ subtr <= Len(insts)
        BY <2>2, <4>6
      <4>8. Len(insts') \in Nat /\ subtr' \in Nat
        BY <2>1
      <4>9. Len(insts') - subtr' = Len(insts) - (subtr + 1)
        BY <4>1, <4>2
      <4>10. (IF tr' = 0 THEN 0 ELSE Len(insts') - tr' + 1) < Len(insts) - tr + 1
        BY ONLY <4>1, <4>3, <4>6, <4>7, <4>8, <4>9, FewerLeft
      <4> QED
        BY <4>4, <4>5, <4>10
    <3> QED
      BY <1>2, <3>2, <3>3
  <2> QED
    BY <2>5, <2>6
<1> QED
  BY <1>1, <1>3, <1>4

\* Every scan leaves fewer records to start at than there were before it, whatever a
\* match has put into the trace (the outer loop of doDeObfuscatePattern ends).
THEOREM ScansEnd == RewriteSpec => ScansProgress
<1>1. PassInv /\ [RewriteNext]_rvars => [pc = "scan" /\ pc' = "next" => Remaining' < Remaining]_rvars
  BY ScanEnds
<1> QED
  BY <1>1, PassInvAlways, PTL DEF RewriteSpec, ScansProgress

\* When the rounds end because one deleted nothing, no enabled pattern matches anywhere
\* in the trace (xVMDebugFrame::doDeObfuscatePatternAll, doDeObfuscatePattern and
\* deleteFlagedInSeq), if every enabled pattern has a statement that must match and is
\* replaced by nop: a match then leaves a record to delete, and the round is not the last.
THEOREM NothingIsLeft == Deleting => (RewriteSpec => []NothingLeft)
<1> SUFFICES ASSUME Deleting PROVE RewriteSpec => []NothingLeft
  OBVIOUS
<1> DEFINE IInv == PassInv /\ ScanInv /\ LeftInv
<1>1. RewriteInit => IInv
  <2>1. RewriteInit => ScanInv
    BY DEF RewriteInit, ScanInv
  <2> QED
    BY <2>1, PassInvInit, LeftInvInit
<1>2. IInv /\ [RewriteNext]_rvars => IInv'
  BY PassInvStep, ScanInvStep, LeftInvStep
<1>3. IInv => NothingLeft
  <2> SUFFICES ASSUME IInv, pc = "done", nr = 0, NEW p \in PIds, ~Patterns[p].off,
                      NEW i \in 1..Len(insts)
               PROVE  ~MatchesFrom(p, i)
    BY DEF NothingLeft
  <2>1. Clear(FALSE, i) /\ Clear(TRUE, i)
    BY DEF LeftInv, AllClear
  <2>2. p \in Selected(FALSE) \/ p \in Selected(TRUE)
    BY RewriteAssumption DEF Selected
  <2> QED
    BY <2>1, <2>2 DEF Clear
<1> QED
  BY <1>1, <1>2, <1>3, PTL DEF RewriteSpec
=============================================================================
