------------------------------ MODULE ApiWatch ------------------------------
(***************************************************************************)
(* "Run To Api Entry" (xApiWatch.cpp and the exception branch of           *)
(* ODBG2_Pluginmainloop, ollydbg2_plugin.cpp).  To run a thread to its     *)
(* next call of another module the plugin takes the right of execution     *)
(* from the code of all other modules and remembers in gMemBks what the    *)
(* pages had.  The first exception inside a remembered region gives        *)
(* everything back and becomes a breakpoint at the address it was raised   *)
(* at.                                                                     *)
(*                                                                         *)
(* The address space is the regions VirtualQueryEx walks, in the order of  *)
(* their addresses and without gaps; an address is the region it lies in.  *)
(* Free and reserved regions have the protection "NA".  VirtualProtectEx   *)
(* fails where it is asked for no protection at all and nowhere else.      *)
(* Regions keep their bounds; the program may change their protections at  *)
(* any time, also during a watch: the library that makes the system call   *)
(* may be the one the watch was begun in, and is then not watched, and no  *)
(* library is needed to make one.                                          *)
(***************************************************************************)
EXTENDS Naturals, FiniteSets

CONSTANTS
  Regions,     \* number of regions
  Layout,      \* region -> [mod, header, mz, guard, prot]: its module or
               \*   NoModule, whether it begins an allocation, whether that
               \*   allocation begins with MZ, PAGE_GUARD, first protection
  NoModule,
  Threads,
  Requests,    \* <<region, protection>>: the changes the program may ask for
  MaxBreaks    \* bound on the breakpoints of the plugin at one time

Region == 1..Regions
Executable == {"X", "XR", "XRW", "XWC"}
Protections == Executable \cup {"NA", "R", "RW", "WC"}

ASSUME LayoutAssumption ==
  /\ Regions \in Nat
  /\ \A i \in Region : /\ Layout[i].prot \in Protections
                       /\ \A f \in {"header", "mz", "guard"} : Layout[i][f] \in BOOLEAN
  /\ Requests \subseteq Region \X Protections

VARIABLES
  gMemBks,     \* region -> oldPG, for the regions in the map
  prot,        \* protection of each region
  status,      \* gRuninfo->status: "paused" or "running"
  stopped,     \* what OllyDbg has paused for: "api", "fault" or "other"
  int3,        \* regions with a one-shot breakpoint of the plugin
  running,     \* threads the last continue has let run
  ip,          \* where each thread executes
  fault,       \* its exception not yet delivered to the main loop: a region or 0
  \* history
  genuine,     \* threads whose exception is the program's own doing
  early,       \* threads whose exception is older than the watch
  own,         \* protection each region has by the program's own doing
  changed,     \* remembered regions whose protection the program has changed since
  spoiled,     \* regions that were given back what they had before such a change
  again        \* a watch was begun while another one had pages to give back

asked   == <<int3, running, ip>>
shifts  == <<own, changed, spoiled>>
history == <<genuine, early, shifts, again>>
vars    == <<gMemBks, prot, status, stopped, asked, fault, history>>

Empty == [i \in {} |-> "NA"]

\* A process has just been started under the debugger.
Fresh ==
  /\ gMemBks = Empty
  /\ prot = [i \in Region |-> Layout[i].prot]
  /\ own = prot
  /\ status = "paused"
  /\ stopped = "other"
  /\ int3 = {}
  /\ running = {}
  /\ fault = [t \in Threads |-> 0]
  /\ genuine = {}
  /\ early = {}
  /\ changed = {}
  /\ spoiled = {}
  /\ again = FALSE
Init ==
  /\ Fresh
  /\ ip \in [Threads -> {i \in Region : Layout[i].prot \in Executable}]

-----------------------------------------------------------------------------
(* setAllModuleNoneExec.                                                   *)

\* The first test that applies decides; of "X" no protection is left, which fails.
NonExec(p) ==
  CASE p = "XWC" -> "WC"
    [] p = "XRW" -> "RW"
    [] p = "XR"  -> "R"
    [] p = "X"   -> "NA"
    [] OTHER     -> p

\* A region that ends where module m begins counts as part of it, too.
Inside(m, i) == m # NoModule /\ Layout[i].mod = m
Exempt(except, i) ==
  \/ i = except
  \/ Inside(Layout[except].mod, i)
  \/ i < Regions /\ Inside(Layout[except].mod, i + 1)

\* Mutant: whether or not the region may be executed.
Watched_AnyRight(except) ==
  {i \in Region : /\ ~Layout[i].header
                  /\ ~Layout[i].guard
                  /\ ~Exempt(except, i)
                  /\ Layout[i].mz
                  /\ NonExec(prot[i]) # "NA"}

\* The regions that lose the right of execution.
Watched(except) ==
  {i \in Region : /\ prot[i] \in Executable
                  /\ ~Layout[i].header
                  /\ ~Layout[i].guard
                  /\ ~Exempt(except, i)
                  /\ Layout[i].mz
                  /\ NonExec(prot[i]) # "NA"}

setAllModuleNoneExec(except) ==
  /\ gMemBks' = [i \in Watched(except) |-> prot[i]]
  /\ prot' = [i \in Region |-> IF i \in Watched(except) THEN NonExec(prot[i]) ELSE prot[i]]

xApi_StepOver(t) ==
  /\ status = "paused"
  /\ setAllModuleNoneExec(ip[t])
  /\ again' = (again \/ DOMAIN gMemBks # {})
  /\ status' = "running"
  /\ running' = {t}
  /\ early' = {u \in Threads : fault[u] # 0}
  /\ changed' = {}
  /\ UNCHANGED <<stopped, int3, ip, fault, genuine, own, spoiled>>

\* "Run To Call Ret.": a breakpoint where the word on the stack points, or else
\* the word above EBP, if code is there, and the thread runs.  If there is no code
\* at either nothing happens, although TRUE is returned.  OllyDbg's list of memory
\* is taken to be up to date.
Code(i) == i # 0 /\ prot[i] \in Executable
xApi_RunToReturn(t) ==
  \E top, frame \in Region \cup {0} :
    /\ status = "paused"
    /\ Code(top) \/ Code(frame)
    /\ Cardinality(int3) < MaxBreaks
    /\ int3' = int3 \cup {IF Code(top) THEN top ELSE frame}
    /\ status' = "running"
    /\ running' = {t}
    /\ UNCHANGED <<gMemBks, prot, stopped, ip, fault, history>>

-----------------------------------------------------------------------------
(* The main loop.                                                          *)

\* upper_bound, the end of the map, and the region before it.
isHookedExecutionAddr_AnyAbove(eaddr) == \E i \in DOMAIN gMemBks : i >= eaddr
isHookedExecutionAddr(eaddr) ==
  LET above == {i \in DOMAIN gMemBks : i > eaddr}
      below == DOMAIN gMemBks \ above
  IN  /\ above # {}
      /\ below # {}
      /\ \E i \in below : i = eaddr /\ \A j \in below : j <= i

restoreAllModuleNoneExec_LastKept ==
  /\ prot' = [i \in Region |-> IF \E j \in DOMAIN gMemBks : i \in DOMAIN gMemBks /\ j > i
                               THEN gMemBks[i] ELSE prot[i]]
  /\ gMemBks' = Empty
restoreAllModuleNoneExec ==
  /\ prot' = [i \in Region |-> IF i \in DOMAIN gMemBks THEN gMemBks[i] ELSE prot[i]]
  /\ gMemBks' = Empty

\* EXCEPTION_DEBUG_EVENT at eaddr.  OllyDbg, which handles the event next, takes
\* an exception turned into a breakpoint for the one-shot breakpoint just set.
ExceptionEvent(eaddr, otherwise) ==
  /\ status' = "paused"
  /\ running' = {}
  /\ \/ /\ isHookedExecutionAddr(eaddr)
        /\ restoreAllModuleNoneExec
        /\ stopped' = "api"
        /\ int3' = int3 \ {eaddr}
        /\ spoiled' = spoiled \cup changed
        /\ changed' = {}
     \/ /\ ~isHookedExecutionAddr(eaddr)
        /\ stopped' = otherwise
        /\ int3' = IF otherwise = "fault" THEN int3 ELSE int3 \ {eaddr}
        /\ UNCHANGED <<gMemBks, prot, changed, spoiled>>

\* The exception of thread t is delivered.
ODBG2_Pluginmainloop(t) ==
  /\ status = "running"
  /\ fault[t] # 0
  /\ fault' = [fault EXCEPT ![t] = 0]
  /\ ExceptionEvent(fault[t], "fault")
  /\ genuine' = genuine \ {t}
  /\ early' = early \ {t}
  /\ UNCHANGED <<ip, own, again>>

\* ODBG2_Pluginreset, called before a new process is started.
resetApiWatch_MapKept == UNCHANGED gMemBks
resetApiWatch == gMemBks' = Empty
ODBG2_Pluginreset ==
  /\ resetApiWatch
  /\ prot' = [i \in Region |-> Layout[i].prot]
  /\ own' = prot'
  /\ status' = "paused"
  /\ stopped' = "other"
  /\ int3' = {}
  /\ running' = {}
  /\ fault' = [t \in Threads |-> 0]
  /\ genuine' = {}
  /\ early' = {}
  /\ ip' \in [Threads -> {i \in Region : Layout[i].prot \in Executable}]
  /\ changed' = {}
  /\ spoiled' = {}
  /\ again' = FALSE

-----------------------------------------------------------------------------
(* OllyDbg and the program, which are external.                            *)

\* Thread t is running and may execute the instruction it is at.
Live(t) ==
  /\ status = "running"
  /\ t \in running
  /\ fault[t] = 0
  /\ prot[ip[t]] \in Executable

\* A running thread goes on executing in region j or faults there.  The fault is the
\* program's own doing where it has no right of execution itself.
Execute(t, j) ==
  /\ status = "running"
  /\ t \in running
  /\ fault[t] = 0
  /\ prot[ip[t]] \in Executable \/ j = ip[t]
  /\ ip' = [ip EXCEPT ![t] = j]
  /\ \/ /\ prot[j] \in Executable /\ j \notin int3
        /\ UNCHANGED <<fault, genuine>>
     \/ /\ prot[j] \notin Executable
        /\ fault' = [fault EXCEPT ![t] = j]
        /\ genuine' = IF own[j] \in Executable THEN genuine ELSE genuine \cup {t}
  /\ UNCHANGED <<gMemBks, prot, status, stopped, int3, running, early, shifts, again>>

\* It hits a breakpoint of the plugin, which is an exception event, too.
Break(t, j) ==
  /\ Live(t)
  /\ prot[j] \in Executable /\ j \in int3
  /\ ip' = [ip EXCEPT ![t] = j]
  /\ ExceptionEvent(j, "other")
  /\ UNCHANGED <<fault, genuine, early, own, again>>

\* The program raises an exception of its own.
Raise(t) ==
  /\ Live(t)
  /\ fault' = [fault EXCEPT ![t] = ip[t]]
  /\ genuine' = genuine \cup {t}
  /\ UNCHANGED <<gMemBks, prot, status, stopped, asked, early, shifts, again>>

\* Any other reason to stop, and the user's own command to run.
Pause ==
  /\ status = "running"
  /\ status' = "paused"
  /\ stopped' = "other"
  /\ running' = {}
  /\ UNCHANGED <<gMemBks, prot, int3, ip, fault, history>>
Run ==
  /\ status = "paused"
  /\ status' = "running"
  /\ running' = Threads
  /\ UNCHANGED <<gMemBks, prot, stopped, int3, ip, fault, history>>

\* The program gives region i the protection p, for instance to unpack itself.
Protect(t, i, p) ==
  /\ Live(t)
  /\ <<i, p>> \in Requests
  /\ prot' = [prot EXCEPT ![i] = p]
  /\ own' = [own EXCEPT ![i] = p]
  /\ changed' = changed \cup ({i} \cap DOMAIN gMemBks)
  /\ spoiled' = spoiled \ {i}
  /\ UNCHANGED <<gMemBks, status, stopped, asked, fault, genuine, early, again>>

Next ==
  \/ \E t \in Threads : \/ xApi_StepOver(t)
                        \/ xApi_RunToReturn(t)
                        \/ ODBG2_Pluginmainloop(t)
                        \/ \E j \in Region : Execute(t, j) \/ Break(t, j)
                        \/ Raise(t)
                        \/ \E i \in Region, p \in Protections : Protect(t, i, p)
  \/ ODBG2_Pluginreset
  \/ Pause
  \/ Run

Spec == Init /\ [][Next]_vars
-----------------------------------------------------------------------------
(* Properties.                                                             *)

\* Type invariant.
TypeOK ==
  /\ DOMAIN gMemBks \subseteq Region
  /\ \A i \in DOMAIN gMemBks : gMemBks[i] \in Protections
  /\ prot \in [Region -> Protections]
  /\ own \in [Region -> Protections]
  /\ status \in {"paused", "running"}
  /\ stopped \in {"api", "fault", "other"}
  /\ int3 \subseteq Region
  /\ running \subseteq Threads
  /\ ip \in [Threads -> Region]
  /\ fault \in [Threads -> Region \cup {0}]
  /\ genuine \subseteq Threads /\ early \subseteq Threads
  /\ changed \subseteq DOMAIN gMemBks /\ spoiled \subseteq Region
  /\ again \in BOOLEAN

\* What is remembered of a region is what the program itself has given it, however
\* often a watch is begun on top of another, and through restarts.  The one exception is
\* a region whose protection the program changes while it is remembered: from then on
\* the record is out of date, and so is what comes of giving it back (spoiled).
RecordIsTrue ==
  \A i \in DOMAIN gMemBks \ (changed \cup spoiled) :
    gMemBks[i] = own[i] /\ prot[i] = NonExec(own[i])

\* The plugin takes nothing but the right of execution: the program may read and
\* write its pages throughout a watch, also those whose protection it changes; until an
\* out of date record is given back.
OnlyExecutionTaken ==
  \A i \in Region \ spoiled :
    prot[i] # own[i] => own[i] \in Executable /\ prot[i] = NonExec(own[i])

\* The program has given region i the right of execution, and the plugin has taken it.
Taken(i) == own[i] \in Executable /\ prot[i] \notin Executable

\* As long as no watch is begun on top of another, no page is forgotten: whatever
\* has been taken can still be given back.
NothingForgotten == ~again => \A i \in Region : Taken(i) => i \in DOMAIN gMemBks

\* A page is forgotten in one way only, when a watch is begun on top of another; and then for
\* good: no later watch and no stop gives it back, until the program itself changes its
\* protection or ends (setAllModuleNoneExec clears the map and passes over pages that
\* may not be executed, lines 59 and 70).
Forgotten   == {i \in Region : Taken(i)} \ DOMAIN gMemBks
BeginsAgain == DOMAIN gMemBks # {} /\ \E t \in Threads : xApi_StepOver(t)
Changes(i)  == \/ ODBG2_Pluginreset
               \/ \E t \in Threads, p \in Protections : Protect(t, i, p)
ForgottenForGood ==
  [][/\ Forgotten' \subseteq Forgotten \/ BeginsAgain
     /\ \A i \in Forgotten \ Forgotten' : Changes(i)]_vars

\* The topmost remembered region is never recognised (isHookedExecutionAddr), and
\* neither is an address that is not remembered.  Every other call of a watched
\* module stops the program there.  If no page was forgotten before, all may be executed
\* again then, and each has the protection the program gave it last, unless the program
\* gave it that during a watch (spoiled).
CallsBelowTopStop ==
  [][\A t \in Threads : ODBG2_Pluginmainloop(t) =>
       LET i     == fault[t]
           below == \E j \in DOMAIN gMemBks : j > i
       IN  /\ stopped' = "api" => i \in DOMAIN gMemBks /\ below
           /\ i \in DOMAIN gMemBks /\ below =>
                /\ stopped' = "api"
                /\ again \/ \A r \in Region : /\ ~Taken(r)'
                                             /\ r \notin spoiled' => prot'[r] = own[r]
    ]_vars

\* An exception that the program itself raises during a watch is passed on, and not
\* taken for a call, unless it comes from a region whose protection the program has
\* changed while the plugin remembered it.
OwnExceptionKept ==
  [][\A t \in genuine \ early :
       ODBG2_Pluginmainloop(t) /\ fault[t] \notin changed \cup spoiled => stopped' # "api"
    ]_vars
=============================================================================
