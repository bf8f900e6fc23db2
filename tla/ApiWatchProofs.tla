--------------------------- MODULE ApiWatchProofs ---------------------------
(***************************************************************************)
(* ApiWatch for every layout of the address space, any number of threads   *)
(* and any changes of protections by the program.  The invariant says what *)
(* a page can have: its own protection, or the own one without the right   *)
(* of execution; so that a page that setAllModuleNoneExec finds executable  *)
(* has its own.  Two sets of pages are apart.  Of those the program has    *)
(* changed while they were remembered (changed) the record is out of date; *)
(* those that were given back by such a record (spoiled) have had some     *)
(* right of execution, and what is remembered of them later is at least    *)
(* what was found.                                                         *)
(***************************************************************************)
EXTENDS ApiWatch, TLAPS

\* A page has what the program gave it, or that without execution.
Halved == \A i \in Region \ spoiled : prot[i] # own[i] =>
            own[i] \in Executable /\ prot[i] = NonExec(own[i])
\* What is remembered could be executed and is taken, unless the program has changed
\* it since; and it is the program's own.
Recorded ==
  /\ DOMAIN gMemBks \subseteq Region
  /\ changed \subseteq DOMAIN gMemBks
  /\ \A i \in DOMAIN gMemBks : gMemBks[i] \in Executable
  /\ \A i \in DOMAIN gMemBks \ changed : prot[i] = NonExec(gMemBks[i])
  /\ \A i \in DOMAIN gMemBks \ (changed \cup spoiled) : gMemBks[i] = own[i]
Inv == /\ Halved
       /\ Recorded
       /\ NothingForgotten
       /\ prot \in [Region -> Protections]
       /\ own \in [Region -> Protections]

\* What Inv speaks of.
pages == <<gMemBks, prot, own, changed, spoiled, again>>

\* No protection without execution is executable.
LEMMA NonExecIsNot ==
  ASSUME NEW p PROVE NonExec(p) \notin Executable
                     /\ (p \in Protections => NonExec(p) \in Protections)
<1>1. CASE p \in Executable
  BY <1>1 DEF NonExec, Executable, Protections
<1>2. CASE p \notin Executable
  <2>1. NonExec(p) = p
    BY <1>2 DEF NonExec, Executable
  <2> QED
    BY <1>2, <2>1
<1> QED
  BY <1>1, <1>2

LEMMA InvInit == Init => Inv
BY LayoutAssumption
   DEF Init, Fresh, Inv, Halved, Recorded, NothingForgotten, Taken, Empty

\* A watch begins: the regions it finds executable have their own protection, or are
\* spoiled.
LEMMA InvWatch == ASSUME Inv, NEW t \in Threads, xApi_StepOver(t) PROVE Inv'
<1> DEFINE W == Watched(ip[t])
<1>1. /\ W \subseteq Region
      /\ \A i \in W : prot[i] \in Executable
      /\ gMemBks' = [i \in W |-> prot[i]]
      /\ prot' = [i \in Region |-> IF i \in W THEN NonExec(prot[i]) ELSE prot[i]]
      /\ own' = own /\ spoiled' = spoiled /\ changed' = {}
  BY DEF xApi_StepOver, setAllModuleNoneExec, Watched
<1>2. \A i \in W \ spoiled : prot[i] = own[i]
  BY <1>1, NonExecIsNot DEF Inv, Halved
<1> HIDE DEF W
<1>3. Halved'
  BY <1>1, <1>2 DEF Inv, Halved
<1>4. Recorded'
  BY <1>1, <1>2 DEF Recorded
<1>5. NothingForgotten'
  <2> SUFFICES ASSUME ~again', NEW i \in Region, Taken(i)'
               PROVE  i \in DOMAIN gMemBks'
    BY DEF NothingForgotten
  <2>1. ~again /\ DOMAIN gMemBks = {}
    BY DEF xApi_StepOver
  <2>2. prot[i] \in Executable
    BY <1>1, <2>1 DEF Inv, NothingForgotten, Taken
  <2> QED
    BY <1>1, <2>2 DEF Taken
<1>6. prot' \in [Region -> Protections] /\ own' \in [Region -> Protections]
  BY <1>1, NonExecIsNot DEF Inv
<1> QED
  BY <1>3, <1>4, <1>5, <1>6 DEF Inv

\* An exception event: everything is given back, or nothing changes.
LEMMA InvEvent ==
  ASSUME Inv, NEW eaddr, NEW otherwise, ExceptionEvent(eaddr, otherwise),
         UNCHANGED <<own, again>>
  PROVE  Inv'
<1>1. CASE /\ restoreAllModuleNoneExec
           /\ spoiled' = spoiled \cup changed
           /\ changed' = {}
  <2>1. DOMAIN gMemBks' = {}
    BY <1>1 DEF restoreAllModuleNoneExec, Empty
  <2>2. prot' = [i \in Region |-> IF i \in DOMAIN gMemBks THEN gMemBks[i] ELSE prot[i]]
    BY <1>1 DEF restoreAllModuleNoneExec
  <2>3. prot' \in [Region -> Protections]
    BY <2>2 DEF Inv, Recorded, Executable, Protections
  <2>4. Halved'
    BY <1>1, <2>2 DEF Inv, Halved, Recorded
  <2>5. NothingForgotten'
    BY <2>2 DEF Inv, Recorded, NothingForgotten, Taken
  <2>6. Recorded'
    BY <1>1, <2>1 DEF Recorded
  <2> QED
    BY <2>3, <2>4, <2>5, <2>6 DEF Inv
<1>2. CASE UNCHANGED <<gMemBks, prot, changed, spoiled>>
  BY <1>2 DEF Inv, Halved, Recorded, NothingForgotten, Taken
<1> QED
  BY <1>1, <1>2 DEF ExceptionEvent

\* The program changes a protection: the page has its own again, and a record of it is
\* out of date.
LEMMA InvProtect ==
  ASSUME Inv, NEW t \in Threads, NEW i \in Region, NEW p \in Protections, Protect(t, i, p)
  PROVE  Inv'
<1>1. /\ prot' = [prot EXCEPT ![i] = p]
      /\ own' = [own EXCEPT ![i] = p]
      /\ changed' = changed \cup ({i} \cap DOMAIN gMemBks)
      /\ spoiled' = spoiled \ {i}
      /\ gMemBks' = gMemBks /\ again' = again
  BY DEF Protect
<1>2. prot'[i] = own'[i]
  BY <1>1 DEF Inv
<1>3. \A j \in Region \ {i} : prot'[j] = prot[j] /\ own'[j] = own[j]
  BY <1>1 DEF Inv
<1>4. Halved'
  BY <1>1, <1>2, <1>3 DEF Inv, Halved
<1>5. Recorded'
  <2>1. \A j \in DOMAIN gMemBks \ changed' : j \in Region \ {i} /\ j \notin changed
    BY <1>1 DEF Inv, Recorded
  <2>2. changed' \subseteq DOMAIN gMemBks'
    BY <1>1 DEF Inv, Recorded
  <2>3. \A j \in DOMAIN gMemBks' \ changed' : prot'[j] = NonExec(gMemBks'[j])
    BY <1>1, <1>3, <2>1 DEF Inv, Recorded
  <2>4. \A j \in DOMAIN gMemBks' \ (changed' \cup spoiled') : gMemBks'[j] = own'[j]
    BY <1>1, <1>3, <2>1 DEF Inv, Recorded
  <2> QED
    BY <1>1, <2>2, <2>3, <2>4 DEF Inv, Recorded
<1>6. NothingForgotten'
  BY <1>1, <1>2, <1>3 DEF Inv, NothingForgotten, Taken
<1>7. prot' \in [Region -> Protections] /\ own' \in [Region -> Protections]
  BY <1>1 DEF Inv
<1> QED
  BY <1>4, <1>5, <1>6, <1>7 DEF Inv

LEMMA InvReset == ASSUME Inv, ODBG2_Pluginreset PROVE Inv'
<1>1. /\ gMemBks' = Empty /\ own' = prot' /\ changed' = {}
      /\ prot' = [i \in Region |-> Layout[i].prot]
  BY DEF ODBG2_Pluginreset, resetApiWatch
<1>2. DOMAIN gMemBks' = {} /\ prot' \in [Region -> Protections]
  BY <1>1, LayoutAssumption DEF Empty
<1> QED
  BY <1>1, <1>2 DEF Inv, Halved, Recorded, NothingForgotten, Taken

LEMMA InvStep == Inv /\ [Next]_vars => Inv'
<1> SUFFICES ASSUME Inv, [Next]_vars PROVE Inv'
  OBVIOUS
<1>1. ASSUME NEW t \in Threads, xApi_StepOver(t) PROVE Inv'
  BY <1>1, InvWatch
<1>2. ASSUME NEW t \in Threads, ODBG2_Pluginmainloop(t) PROVE Inv'
  BY <1>2, InvEvent DEF ODBG2_Pluginmainloop
<1>3. ASSUME NEW t \in Threads, NEW j \in Region, Break(t, j) PROVE Inv'
  BY <1>3, InvEvent DEF Break
<1>4. ASSUME NEW t \in Threads, NEW i \in Region, NEW p \in Protections,
             Protect(t, i, p)
      PROVE  Inv'
  BY <1>4, InvProtect
<1>5. CASE ODBG2_Pluginreset
  BY <1>5, InvReset
<1>6. ASSUME UNCHANGED pages PROVE Inv'
  BY <1>6 DEF pages, Inv, Halved, Recorded, NothingForgotten, Taken
<1>7. ASSUME NEW t \in Threads, xApi_RunToReturn(t) PROVE Inv'
  BY <1>6, <1>7 DEF xApi_RunToReturn, history, shifts, pages
<1>8. ASSUME NEW t \in Threads, NEW j \in Region, Execute(t, j) PROVE Inv'
  BY <1>6, <1>8 DEF Execute, shifts, pages
<1>9. ASSUME NEW t \in Threads, Raise(t) PROVE Inv'
  BY <1>6, <1>9 DEF Raise, shifts, pages
<1>10. CASE Pause \/ Run \/ UNCHANGED vars
  BY <1>6, <1>10 DEF Pause, Run, vars, history, shifts, pages
<1> QED
  BY <1>1, <1>2, <1>3, <1>4, <1>5, <1>7, <1>8, <1>9, <1>10 DEF Next

LEMMA InvHolds == Spec => []Inv
<1> QED
  BY InvInit, InvStep, PTL DEF Spec

\* Giving back what is remembered gives every page what the program had given it,
\* however often a watch is begun on top of another, unless the program has changed
\* the page while it was remembered (setAllModuleNoneExec, restoreAllModuleNoneExec).
THEOREM RecordsAreTrue == Spec => []RecordIsTrue
<1>1. Inv => RecordIsTrue
  BY DEF Inv, Recorded, RecordIsTrue
<1> QED
  BY <1>1, InvHolds, PTL

\* The program may read and write all its pages throughout, until a record that is out
\* of date is given back.
THEOREM OnlyExecutionIsTaken == Spec => []OnlyExecutionTaken
<1>1. Inv => OnlyExecutionTaken
  BY DEF Inv, Halved, OnlyExecutionTaken
<1> QED
  BY <1>1, InvHolds, PTL

\* Unless a watch is begun on top of another, every page taken can be given back.
THEOREM NothingIsForgotten == Spec => []NothingForgotten
<1>1. Inv => NothingForgotten
  BY DEF Inv
<1> QED
  BY <1>1, InvHolds, PTL

(***************************************************************************)
(* Which pages are forgotten, step by step.                                *)
(***************************************************************************)

LEMMA SameForgotten ==
  ASSUME UNCHANGED <<gMemBks, prot, own>> PROVE Forgotten' = Forgotten
BY DEF Forgotten, Taken

LEMMA WatchForgets ==
  ASSUME Inv, NEW t \in Threads, xApi_StepOver(t)
  PROVE  /\ Forgotten \subseteq Forgotten'
         /\ Forgotten' \subseteq Forgotten \/ BeginsAgain
<1> DEFINE W == Watched(ip[t])
<1>1. /\ W \subseteq Region
      /\ \A i \in W : prot[i] \in Executable
      /\ DOMAIN gMemBks' = W
      /\ \A i \in Region \ W : prot'[i] = prot[i]
      /\ own' = own
  BY DEF xApi_StepOver, setAllModuleNoneExec, Watched
<1> HIDE DEF W
<1>2. Forgotten \subseteq Forgotten'
  BY <1>1 DEF Forgotten, Taken
<1>3. CASE DOMAIN gMemBks = {}
  BY <1>1, <1>2, <1>3 DEF Forgotten, Taken
<1>4. CASE DOMAIN gMemBks # {}
  BY <1>2, <1>4 DEF BeginsAgain
<1> QED
  BY <1>3, <1>4

LEMMA EventForgets ==
  ASSUME Inv, NEW eaddr, NEW otherwise, ExceptionEvent(eaddr, otherwise), own' = own
  PROVE  Forgotten' = Forgotten
<1>1. CASE restoreAllModuleNoneExec
  <2>1. /\ DOMAIN gMemBks' = {}
        /\ \A i \in Region : prot'[i] = IF i \in DOMAIN gMemBks THEN gMemBks[i] ELSE prot[i]
    BY <1>1 DEF restoreAllModuleNoneExec, Empty
  <2> QED
    BY <2>1 DEF Inv, Recorded, Forgotten, Taken
<1>2. CASE UNCHANGED <<gMemBks, prot, changed, spoiled>>
  BY <1>2, SameForgotten
<1> QED
  BY <1>1, <1>2 DEF ExceptionEvent

LEMMA ProtectForgets ==
  ASSUME Inv, NEW t \in Threads, NEW j \in Region, NEW p \in Protections, Protect(t, j, p)
  PROVE  /\ Forgotten' \subseteq Forgotten
         /\ Forgotten \ Forgotten' \subseteq {j}
<1>1. /\ prot'[j] = own'[j]
      /\ \A i \in Region \ {j} : prot'[i] = prot[i] /\ own'[i] = own[i]
      /\ gMemBks' = gMemBks
  BY DEF Protect, Inv
<1> QED
  BY <1>1 DEF Forgotten, Taken

\* A page is forgotten in one way only, by a watch begun on top of another, and is given
\* back by no command, stop or exception (setAllModuleNoneExec clears the map and passes
\* over what may not be executed).
THEOREM ForgottenIsForGood == Spec => ForgottenForGood
<1> DEFINE Right == /\ Forgotten' \subseteq Forgotten \/ BeginsAgain
                    /\ \A i \in Forgotten \ Forgotten' : Changes(i)
<1>1. ASSUME Inv, [Next]_vars PROVE Right
  <2>1. ASSUME Forgotten' = Forgotten PROVE Right
    BY <2>1
  <2>2. ASSUME NEW t \in Threads, xApi_StepOver(t) PROVE Right
    BY <1>1, <2>2, WatchForgets
  <2>3. ASSUME NEW t \in Threads, ODBG2_Pluginmainloop(t) PROVE Right
    BY <1>1, <2>1, <2>3, EventForgets DEF ODBG2_Pluginmainloop
  <2>4. ASSUME NEW t \in Threads, NEW j \in Region, Break(t, j) PROVE Right
    BY <1>1, <2>1, <2>4, EventForgets DEF Break
  <2>5. ASSUME NEW t \in Threads, NEW j \in Region, NEW p \in Protections,
               Protect(t, j, p)
        PROVE  Right
    <3>1. Changes(j)
      BY <2>5 DEF Changes
    <3> QED
      BY <1>1, <2>5, <3>1, ProtectForgets
  <2>6. CASE ODBG2_Pluginreset
    <3>1. Forgotten' = {}
      BY <2>6 DEF ODBG2_Pluginreset, Forgotten, Taken
    <3>2. \A i : Changes(i)
      BY <2>6 DEF Changes
    <3> QED
      BY <3>1, <3>2
  <2>7. ASSUME NEW t \in Threads, xApi_RunToReturn(t) PROVE Right
    BY <2>1, <2>7, SameForgotten DEF xApi_RunToReturn, history, shifts
  <2>8. ASSUME NEW t \in Threads, NEW j \in Region, Execute(t, j) PROVE Right
    BY <2>1, <2>8, SameForgotten DEF Execute, shifts
  <2>9. ASSUME NEW t \in Threads, Raise(t) PROVE Right
    BY <2>1, <2>9, SameForgotten DEF Raise, shifts
  <2>10. CASE Pause \/ Run \/ UNCHANGED vars
    BY <2>1, <2>10, SameForgotten DEF Pause, Run, vars, history, shifts
  <2> QED
    BY <1>1, <2>2, <2>3, <2>4, <2>5, <2>6, <2>7, <2>8, <2>9, <2>10 DEF Next
<1>2. Inv /\ [Next]_vars => [Right]_vars
  BY <1>1
<1> QED
  BY <1>2, InvHolds, PTL DEF Spec, ForgottenForGood

(***************************************************************************)
(* Typing: with Inv, whose record is a part of the program's protections.  *)
(***************************************************************************)
LEMMA TypesInit == Init => TypeOK
  BY LayoutAssumption DEF Init, Fresh, TypeOK, Empty

LEMMA TypesWatch ==
  ASSUME TypeOK, NEW t \in Threads, xApi_StepOver(t) PROVE TypeOK'
<1>1. /\ DOMAIN gMemBks' \subseteq Region
      /\ \A i \in DOMAIN gMemBks' : gMemBks'[i] \in Protections
      /\ prot' \in [Region -> Protections]
  BY NonExecIsNot DEF xApi_StepOver, setAllModuleNoneExec, Watched, TypeOK
<1>2. again' \in BOOLEAN
  BY DEF xApi_StepOver, TypeOK
<1>3. /\ early' \subseteq Threads /\ running' \subseteq Threads
      /\ status' = "running" /\ changed' = {}
  BY DEF xApi_StepOver
<1> QED
  BY <1>1, <1>2, <1>3 DEF xApi_StepOver, TypeOK

LEMMA TypesEvent ==
  ASSUME TypeOK, Inv', NEW eaddr, NEW otherwise \in {"fault", "other"},
         ExceptionEvent(eaddr, otherwise)
  PROVE  /\ DOMAIN gMemBks' \subseteq Region
         /\ \A i \in DOMAIN gMemBks' : gMemBks'[i] \in Protections
         /\ prot' \in [Region -> Protections]
         /\ own' \in [Region -> Protections]
         /\ status' = "paused" /\ running' = {}
         /\ stopped' \in {"api", "fault", "other"}
         /\ int3' \subseteq Region
         /\ changed' \subseteq DOMAIN gMemBks'
         /\ spoiled' \subseteq Region
<1>1. /\ prot' \in [Region -> Protections] /\ own' \in [Region -> Protections]
      /\ DOMAIN gMemBks' \subseteq Region
      /\ changed' \subseteq DOMAIN gMemBks'
  BY DEF Inv, Recorded
<1>2. \A i \in DOMAIN gMemBks' : gMemBks'[i] \in Protections
  BY DEF Inv, Recorded, Executable, Protections
<1>3. int3' \subseteq Region /\ stopped' \in {"api", "fault", "other"}
  BY DEF ExceptionEvent, TypeOK
<1>4. spoiled' \subseteq Region /\ status' = "paused" /\ running' = {}
  BY DEF ExceptionEvent, TypeOK
<1> QED
  BY <1>1, <1>2, <1>3, <1>4

LEMMA TypesStep == TypeOK /\ Inv' /\ [Next]_vars => TypeOK'
<1> SUFFICES ASSUME TypeOK, Inv', [Next]_vars PROVE TypeOK'
  OBVIOUS
<1>1. ASSUME NEW t \in Threads, xApi_StepOver(t) PROVE TypeOK'
  BY <1>1, TypesWatch
<1>2. ASSUME NEW t \in Threads, ODBG2_Pluginmainloop(t) PROVE TypeOK'
  <2>1. fault' \in [Threads -> Region \cup {0}]
    BY <1>2 DEF ODBG2_Pluginmainloop, TypeOK
  <2>2. ExceptionEvent(fault[t], "fault")
    BY <1>2 DEF ODBG2_Pluginmainloop
  <2> QED
    BY <1>2, <2>1, <2>2, TypesEvent DEF ODBG2_Pluginmainloop, TypeOK
<1>3. ASSUME NEW t \in Threads, NEW j \in Region, Break(t, j) PROVE TypeOK'
  <2>1. ip' \in [Threads -> Region]
    BY <1>3 DEF Break, TypeOK
  <2>2. ExceptionEvent(j, "other")
    BY <1>3 DEF Break
  <2> QED
    BY <1>3, <2>1, <2>2, TypesEvent DEF Break, TypeOK
<1>4. ASSUME NEW t \in Threads, NEW i \in Region, NEW p \in Protections,
             Protect(t, i, p)
      PROVE  TypeOK'
  <2>1. /\ prot' \in [Region -> Protections]
        /\ own' \in [Region -> Protections]
    BY <1>4 DEF Protect, TypeOK
  <2>2. changed' \subseteq DOMAIN gMemBks' /\ spoiled' \subseteq Region
    BY <1>4 DEF Protect, TypeOK
  <2> QED
    BY <1>4, <2>1, <2>2 DEF Protect, asked, TypeOK
<1>5. CASE ODBG2_Pluginreset
  BY <1>5, LayoutAssumption DEF ODBG2_Pluginreset, resetApiWatch, Empty, TypeOK
<1>6. ASSUME NEW t \in Threads, xApi_RunToReturn(t) PROVE TypeOK'
  <2>1. int3' \subseteq Region
    BY <1>6 DEF xApi_RunToReturn, Code, TypeOK
  <2> QED
    BY <1>6, <2>1 DEF xApi_RunToReturn, history, shifts, TypeOK
<1>7. ASSUME NEW t \in Threads, NEW j \in Region, Execute(t, j) PROVE TypeOK'
  <2>1. ip' \in [Threads -> Region] /\ fault' \in [Threads -> Region \cup {0}]
    BY <1>7 DEF Execute, TypeOK
  <2>2. genuine' \subseteq Threads
    BY <1>7 DEF Execute, TypeOK
  <2> QED
    BY <1>7, <2>1, <2>2 DEF Execute, shifts, TypeOK
<1>8. ASSUME NEW t \in Threads, Raise(t) PROVE TypeOK'
  BY <1>8 DEF Raise, asked, shifts, TypeOK
<1>9. CASE Pause \/ Run
  BY <1>9 DEF Pause, Run, history, shifts, TypeOK
<1>10. CASE UNCHANGED vars
  BY <1>10 DEF vars, asked, history, shifts, TypeOK
<1> QED
  BY <1>1, <1>2, <1>3, <1>4, <1>5, <1>6, <1>7, <1>8, <1>9, <1>10 DEF Next

\* The plugin's map, the debugger's state and the pages keep their types.
THEOREM TypeCorrect == Spec => []TypeOK
  BY TypesInit, TypesStep, InvHolds, PTL DEF Spec

(***************************************************************************)
(* Which exceptions are taken for calls.                                   *)
(***************************************************************************)

\* The search in the map finds exactly the remembered regions below the last.
LEMMA Recognised ==
  ASSUME DOMAIN gMemBks \subseteq Region, NEW i
  PROVE  isHookedExecutionAddr(i) <=>
           i \in DOMAIN gMemBks /\ \E j \in DOMAIN gMemBks : j > i
<1>1. \A j \in DOMAIN gMemBks : j \in Nat
  BY LayoutAssumption DEF Region
<1> QED
  BY <1>1 DEF isHookedExecutionAddr

\* Nothing is missing when all that was remembered is given back.
LEMMA AllGivenBack ==
  ASSUME Inv, ~again, restoreAllModuleNoneExec, own' = own,
         spoiled' = spoiled \cup changed, NEW r \in Region
  PROVE  /\ ~Taken(r)'
         /\ r \notin spoiled' => prot'[r] = own[r]
<1>1. prot'[r] = IF r \in DOMAIN gMemBks THEN gMemBks[r] ELSE prot[r]
  BY DEF restoreAllModuleNoneExec
<1>2. CASE r \in DOMAIN gMemBks
  BY <1>1, <1>2 DEF Inv, Recorded, Taken
<1>3. CASE r \notin DOMAIN gMemBks
  <2>1. ~Taken(r)
    BY <1>3 DEF Inv, NothingForgotten
  <2>2. r \notin spoiled => prot[r] = own[r]
    BY <2>1, NonExecIsNot DEF Inv, Halved, Taken
  <2> QED
    BY <1>1, <1>3, <2>1, <2>2 DEF Taken
<1> QED
  BY <1>2, <1>3

\* An exception in a watched region becomes a stop at the call and lets every
\* page be executed again, unless the region is the topmost or a second watch has made
\* the plugin forget; and nothing else becomes one (isHookedExecutionAddr,
\* restoreAllModuleNoneExec, and the exception branch of the main loop).  A page then
\* has what the program gave it last, unless it did so while the page was remembered.
THEOREM CallsStop == Spec => CallsBelowTopStop
<1> DEFINE Stopped(t) ==
      LET i     == fault[t]
          below == \E j \in DOMAIN gMemBks : j > i
      IN  /\ stopped' = "api" => i \in DOMAIN gMemBks /\ below
          /\ i \in DOMAIN gMemBks /\ below =>
               /\ stopped' = "api"
               /\ again \/ \A r \in Region : /\ ~Taken(r)'
                                            /\ r \notin spoiled' => prot'[r] = own[r]
<1>1. ASSUME Inv, NEW t \in Threads, ODBG2_Pluginmainloop(t) PROVE Stopped(t)
  <2>1. isHookedExecutionAddr(fault[t]) <=>
          fault[t] \in DOMAIN gMemBks /\ \E j \in DOMAIN gMemBks : j > fault[t]
    BY <1>1, Recognised DEF Inv, Recorded
  <2>2. ExceptionEvent(fault[t], "fault") /\ own' = own
    BY <1>1 DEF ODBG2_Pluginmainloop
  <2>3. CASE isHookedExecutionAddr(fault[t])
    <3>1. /\ restoreAllModuleNoneExec /\ stopped' = "api"
          /\ spoiled' = spoiled \cup changed
      BY <2>2, <2>3 DEF ExceptionEvent
    <3>2. again \/ \A r \in Region : /\ ~Taken(r)'
                                      /\ r \notin spoiled' => prot'[r] = own[r]
      BY <1>1, <2>2, <3>1, AllGivenBack
    <3> QED
      BY <2>1, <2>3, <3>1, <3>2
  <2>4. CASE ~isHookedExecutionAddr(fault[t])
    <3>1. stopped' = "fault"
      BY <2>2, <2>4 DEF ExceptionEvent
    <3> QED
      BY <2>1, <2>4, <3>1
  <2> QED
    BY <2>3, <2>4
<1>2. Inv /\ [Next]_vars =>
        [\A t \in Threads : ODBG2_Pluginmainloop(t) => Stopped(t)]_vars
  BY <1>1
<1> QED
  BY <1>2, InvHolds, PTL DEF Spec, CallsBelowTopStop

(***************************************************************************)
(* The program's own exceptions.  One raised during the watch comes from a *)
(* page that may be executed, or that the program itself has taken the     *)
(* right from: no remembered one, unless its record is out of date.  It    *)
(* stays so until it is delivered, unless another watch begins, which      *)
(* makes it an early one.                                                  *)
(***************************************************************************)
OwnOutside ==
  /\ \A t \in genuine : fault[t] # 0
  /\ \A t \in genuine \ early :
       fault[t] \in DOMAIN gMemBks => fault[t] \in changed \cup spoiled

LEMMA OwnOutsideInit == Init => OwnOutside
  BY DEF Init, Fresh, OwnOutside

LEMMA OwnOutsideStep ==
  TypeOK /\ Inv /\ OwnOutside /\ [Next]_vars => OwnOutside'
<1> SUFFICES ASSUME TypeOK, Inv, OwnOutside, [Next]_vars PROVE OwnOutside'
  OBVIOUS
<1> USE DEF OwnOutside
<1>1. ASSUME NEW t \in Threads, xApi_StepOver(t) PROVE OwnOutside'
  BY <1>1 DEF xApi_StepOver, TypeOK
<1>2. ASSUME NEW eaddr, NEW otherwise, ExceptionEvent(eaddr, otherwise)
      PROVE  DOMAIN gMemBks' = {} \/ UNCHANGED <<gMemBks, changed, spoiled>>
  BY <1>2 DEF ExceptionEvent, restoreAllModuleNoneExec, Empty
<1>3. ASSUME NEW t \in Threads, ODBG2_Pluginmainloop(t) PROVE OwnOutside'
  <2>1. DOMAIN gMemBks' = {} \/ UNCHANGED <<gMemBks, changed, spoiled>>
    BY <1>2, <1>3 DEF ODBG2_Pluginmainloop
  <2>2. \A u \in Threads \ {t} : fault'[u] = fault[u]
    BY <1>3 DEF ODBG2_Pluginmainloop, TypeOK
  <2>3. genuine' = genuine \ {t} /\ early' = early \ {t}
    BY <1>3 DEF ODBG2_Pluginmainloop
  <2> QED
    BY <2>1, <2>2, <2>3 DEF TypeOK
<1>4. ASSUME NEW t \in Threads, NEW j \in Region, Break(t, j) PROVE OwnOutside'
  <2>1. DOMAIN gMemBks' = {} \/ UNCHANGED <<gMemBks, changed, spoiled>>
    BY <1>2, <1>4 DEF Break
  <2> QED
    BY <1>4, <2>1 DEF Break
<1>5. ASSUME NEW t \in Threads, NEW j \in Region, Execute(t, j) PROVE OwnOutside'
  <2>1. t \notin genuine /\ UNCHANGED <<gMemBks, early, changed, spoiled>>
    BY <1>5 DEF Execute, shifts
  <2>2. CASE UNCHANGED <<fault, genuine>>
    BY <2>1, <2>2
  <2>3. CASE /\ prot[j] \notin Executable
             /\ fault' = [fault EXCEPT ![t] = j]
             /\ genuine' = IF own[j] \in Executable THEN genuine ELSE genuine \cup {t}
    <3>1. j # 0
      BY LayoutAssumption DEF Region
    <3>2. fault'[t] = j /\ \A u \in Threads \ {t} : fault'[u] = fault[u]
      BY <2>3 DEF TypeOK
    <3>3. own[j] \notin Executable /\ j \in DOMAIN gMemBks => j \in changed \cup spoiled
      BY DEF Inv, Recorded
    <3>4. genuine' \subseteq genuine \cup {t} /\ genuine \subseteq Threads
      BY <2>3 DEF TypeOK
    <3>5. t \in genuine' => own[j] \notin Executable
      BY <2>1, <2>3
    <3> QED
      BY <2>1, <3>1, <3>2, <3>3, <3>4, <3>5
  <2> QED
    BY <1>5, <2>2, <2>3 DEF Execute
<1>6. ASSUME NEW t \in Threads, Raise(t) PROVE OwnOutside'
  <2>1. ip[t] \in DOMAIN gMemBks => ip[t] \in changed
    BY <1>6, NonExecIsNot DEF Raise, Live, Inv, Recorded
  <2>2. ip[t] # 0
    BY LayoutAssumption DEF TypeOK, Region
  <2>3. UNCHANGED <<gMemBks, early, changed, spoiled>>
    BY <1>6 DEF Raise, shifts
  <2>4. fault'[t] = ip[t] /\ \A u \in Threads \ {t} : fault'[u] = fault[u]
    BY <1>6 DEF Raise, TypeOK
  <2>5. genuine' = genuine \cup {t} /\ genuine \subseteq Threads
    BY <1>6 DEF Raise, TypeOK
  <2> QED
    BY <2>1, <2>2, <2>3, <2>4, <2>5
<1>7. ASSUME NEW t \in Threads, NEW i \in Region, NEW p \in Protections,
             Protect(t, i, p)
      PROVE  OwnOutside'
  BY <1>7 DEF Protect
<1>8. CASE ODBG2_Pluginreset
  BY <1>8 DEF ODBG2_Pluginreset
<1>9. ASSUME UNCHANGED <<gMemBks, fault, genuine, early, changed, spoiled>>
      PROVE  OwnOutside'
  BY <1>9
<1>10. ASSUME NEW t \in Threads, xApi_RunToReturn(t) PROVE OwnOutside'
  BY <1>9, <1>10 DEF xApi_RunToReturn, history, shifts
<1>11. CASE Pause \/ Run \/ UNCHANGED vars
  BY <1>9, <1>11 DEF Pause, Run, vars, history, shifts
<1> QED
  BY <1>1, <1>3, <1>4, <1>5, <1>6, <1>7, <1>8, <1>10, <1>11 DEF Next

\* An exception the program raises while a watch is on is never taken for a call
\* of another module: it is passed on (the exception branch of the main loop); unless
\* it comes from a page whose record is or was out of date.
THEOREM OwnExceptionsAreKept == Spec => OwnExceptionKept
<1>1. Inv /\ OwnOutside /\ [Next]_vars =>
        [\A t \in genuine \ early :
           ODBG2_Pluginmainloop(t) /\ fault[t] \notin changed \cup spoiled
             => stopped' # "api"]_vars
  <2> SUFFICES ASSUME Inv, OwnOutside, NEW t \in genuine \ early,
                      ODBG2_Pluginmainloop(t), fault[t] \notin changed \cup spoiled
               PROVE  stopped' # "api"
    OBVIOUS
  <2>1. ~isHookedExecutionAddr(fault[t])
    BY Recognised DEF Inv, Recorded, OwnOutside
  <2> QED
    BY <2>1 DEF ODBG2_Pluginmainloop, ExceptionEvent
<1> QED
  BY <1>1, InvHolds, TypeCorrect, OwnOutsideInit, OwnOutsideStep, PTL
     DEF Spec, OwnExceptionKept
=============================================================================
