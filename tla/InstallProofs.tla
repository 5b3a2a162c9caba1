---------------------------- MODULE InstallProofs ----------------------------
(***************************************************************************)
(* Proofs about Install, for any modules, threads and number of calls.     *)
(* What install() and uninstall() promise holds when one call is under way *)
(* at a time; the invariant follows that call through its phases, and the  *)
(* modules that it has yet to visit.                                       *)
(***************************************************************************)
EXTENDS Install, TLAPS

-----------------------------------------------------------------------------
(* The invariant.                                                          *)

\* One call at a time.
OneCall == \A t, u \in Threads : pc[t] # "idle" /\ pc[u] # "idle" => t = u

\* What the entry of sys.modules and the flag are in each phase of a call.
Phases ==
  \A t \in Threads :
    /\ pc[t] \in {"capture", "patch"} =>
         ~installed /\ entry = "stdlib" /\ call[t] # "uninstall"
    /\ pc[t] = "unpatch" => installed /\ entry = "ferro" /\ call[t] = "uninstall"
    /\ pc[t] \in {"snapshot", "visit", "finish"} =>
         /\ target[t] = entry
         /\ IF call[t] = "uninstall" THEN installed /\ entry = "stdlib"
                                     ELSE ~installed /\ entry = "ferro"
    /\ pc[t] \in {"snapshot", "visit"} => call[t] # "install_only"
    /\ pc[t] = "visit" => other[t] # target[t]
    /\ \A m \in found[t] : pc[t] = "visit" /\ attr[m] # "unset"

\* ... and between calls.  _original_asyncio is what it says.
AtRest == /\ original = "stdlib"
          /\ Quiet => entry = IF installed THEN "ferro" ELSE "stdlib"
          /\ hooked => installed

\* A module binds its name once; what it has found is what the entry names, or
\* it has found it before the entry was replaced.
Imports ==
  \A m \in Modules :
    /\ m \notin loaded => fetched[m] = "none" /\ attr[m] = "unset"
    /\ fetched[m] # "none" =>
         /\ attr[m] = "unset"
         /\ m \in straddles \/ fetched[m] = IF m \in Deliberate THEN "ferro" ELSE entry

\* What the modules use that a call can reach, before, in and after its walk.
Walk ==
  \A m \in Reachable :
    /\ hooked /\ entry = "ferro" => attr[m] = "ferro"
    /\ m \notin Deliberate /\ ~installed /\ entry = "stdlib" => attr[m] = "stdlib"
    /\ m \notin Deliberate \/ entry = "ferro" =>
         \A t \in Threads :
           /\ pc[t] = "visit" => attr[m] = entry \/ m \in todo[t] \/ m \in found[t]
           /\ pc[t] = "finish" /\ call[t] # "install_only" => attr[m] = entry

IInv == /\ TypeOK
        /\ Serial => OneCall /\ Phases /\ AtRest /\ Imports /\ Walk

-----------------------------------------------------------------------------
(* Types, for any number of calls at a time.                               *)

LEMMA TypeStep == TypeOK /\ [Next]_vars => TypeOK'
<1> SUFFICES ASSUME TypeOK, [Next]_vars PROVE TypeOK'
  OBVIOUS
<1> USE DEF TypeOK, Packages, Goto, importVars, rebindVars
<1>1. ASSUME NEW m \in Modules, Fetch(m) PROVE TypeOK'
  BY <1>1 DEF Fetch
<1>2. ASSUME NEW m \in Modules, Bind(m) PROVE TypeOK'
  BY <1>2 DEF Bind
<1>3. ASSUME NEW t \in Threads, NEW c \in {"install", "install_only", "uninstall"},
             Begin(t, c)
      PROVE  calls' \in 0..MaxCalls /\ call' \in [Threads -> {"install", "install_only", "uninstall"}]
  BY <1>3, InstallAssumption DEF Begin
<1>4. ASSUME NEW t \in Threads, NEW c \in {"install", "install_only"}, CallInstall(t, c)
      PROVE  TypeOK'
  BY <1>3, <1>4 DEF CallInstall
<1>5. ASSUME NEW t \in Threads, CallUninstall(t) PROVE TypeOK'
  BY <1>3, <1>5 DEF CallUninstall
<1>6. ASSUME NEW t \in Threads, Capture(t) PROVE TypeOK'
  BY <1>6 DEF Capture
<1>7. ASSUME NEW t \in Threads, Patch(t) PROVE TypeOK'
  BY <1>7 DEF Patch, Replace
<1>8. ASSUME NEW t \in Threads, Unpatch(t) PROVE TypeOK'
  BY <1>8 DEF Unpatch, Replace
<1>9. ASSUME NEW t \in Threads, Snapshot(t) PROVE TypeOK'
  BY <1>9 DEF Snapshot
<1>10. ASSUME NEW t \in Threads, NEW m \in Modules, Look(t, m) \/ Rebind(t, m)
       PROVE  TypeOK'
  BY <1>10 DEF Look, Rebind
<1>11. ASSUME NEW t \in Threads, Visited(t) \/ Finish(t) PROVE TypeOK'
  BY <1>11 DEF Visited, Finish
<1>12. CASE UNCHANGED vars
  BY <1>12 DEF vars
<1> QED
  BY <1>1, <1>2, <1>4, <1>5, <1>6, <1>7, <1>8, <1>9, <1>10, <1>11, <1>12 DEF Next

-----------------------------------------------------------------------------
(* One call at a time.                                                     *)

Serialised == OneCall /\ Phases /\ AtRest /\ Imports /\ Walk

LEMMA FetchSerial ==
  ASSUME TypeOK, Serialised, NEW m \in Modules, Fetch(m) PROVE Serialised'
<1> USE DEF Serialised, TypeOK, Packages
<1>1. /\ UNCHANGED <<entry, original, installed, attr, pc, call, todo, found, other, target,
                    straddles, hooked>>
      /\ m \notin loaded /\ loaded' = loaded \cup {m}
      /\ fetched' = [fetched EXCEPT ![m] = IF m \in Deliberate THEN "ferro" ELSE entry]
  BY DEF Fetch, rebindVars
<1>2. OneCall' /\ Phases' /\ AtRest'
  BY <1>1 DEF OneCall, Phases, AtRest, Quiet
<1>3. Imports'
  BY <1>1 DEF Imports
<1>4. Walk'
  BY <1>1 DEF Walk, Reachable
<1> QED
  BY <1>2, <1>3, <1>4

LEMMA BindSerial ==
  ASSUME TypeOK, Serialised, NEW m \in Modules, Bind(m) PROVE Serialised'
<1> USE DEF Serialised, TypeOK, Packages
<1>1. /\ UNCHANGED <<entry, original, installed, loaded, pc, call, todo, found, other, target,
                    straddles, hooked>>
      /\ fetched[m] # "none" /\ attr' = [attr EXCEPT ![m] = fetched[m]]
      /\ fetched' = [fetched EXCEPT ![m] = "none"]
  BY DEF Bind, rebindVars
<1>2. OneCall' /\ Phases' /\ AtRest'
  BY <1>1 DEF OneCall, Phases, AtRest, Quiet
<1>3. Imports'
  BY <1>1 DEF Imports
<1>4. /\ \A n \in Reachable' : n # m => n \in Reachable /\ attr'[n] = attr[n]
      /\ m \notin straddles => attr'[m] = IF m \in Deliberate THEN "ferro" ELSE entry
  BY <1>1 DEF Imports, Reachable
<1>5. m \in Reachable' => m \notin straddles
  BY <1>1 DEF Reachable
<1>6. Walk'
  BY <1>1, <1>4, <1>5 DEF Walk
<1> QED
  BY <1>2, <1>3, <1>6

\* Calls, and the steps that leave entry, flag and modules alone.
LEMMA MoveSerial ==
  ASSUME Serial, TypeOK, Serialised, NEW t \in Threads,
         \/ \E c \in {"install", "install_only"} : CallInstall(t, c)
         \/ CallUninstall(t) \/ Capture(t) \/ Snapshot(t) \/ Visited(t)
  PROVE  Serialised'
<1> USE DEF Serialised, TypeOK, Packages
<1>1. /\ UNCHANGED <<entry, installed, loaded, attr, fetched, found, target, straddles,
                    hooked>>
      /\ \A u \in Threads \ {t} : pc[u] = "idle" /\ pc'[u] = pc[u]
      /\ \A u \in Threads \ {t} : call'[u] = call[u]
  BY DEF CallInstall, CallUninstall, Begin, Capture, Snapshot, Visited, Goto, importVars,
         rebindVars, OneCall
<1>2. original' = "stdlib"
  BY DEF CallInstall, CallUninstall, Capture, Snapshot, Visited, Phases, AtRest
<1>3. OneCall'
  BY <1>1 DEF OneCall
<1>4. Imports'
  BY <1>1 DEF Imports
<1>5. Reachable' = Reachable
  BY <1>1 DEF Reachable
<1>6. ASSUME NEW c \in {"install", "install_only"}, CallInstall(t, c)
      PROVE  Phases' /\ AtRest' /\ Walk'
  <2>1. /\ pc[t] = "idle" /\ pc'[t] = (IF installed THEN "idle" ELSE "capture")
        /\ call'[t] = c /\ Quiet
    BY <1>1, <1>6 DEF CallInstall, Begin, Goto, Quiet
  <2>2. entry = IF installed THEN "ferro" ELSE "stdlib"
    BY <2>1 DEF AtRest
  <2>3. Phases' /\ AtRest'
    BY <1>1, <1>2, <2>1, <2>2 DEF Phases, AtRest
  <2> QED
    BY <1>1, <1>5, <2>1, <2>3 DEF Walk
<1>7. CASE CallUninstall(t)
  <2>1. /\ pc[t] = "idle" /\ pc'[t] = (IF installed THEN "unpatch" ELSE "idle")
        /\ call'[t] = "uninstall" /\ Quiet
    BY <1>1, <1>7 DEF CallUninstall, Begin, Goto, Quiet
  <2>2. entry = IF installed THEN "ferro" ELSE "stdlib"
    BY <2>1 DEF AtRest
  <2>3. Phases' /\ AtRest'
    BY <1>1, <1>2, <2>1, <2>2 DEF Phases, AtRest
  <2>4. Walk'
    BY <1>1, <1>5, <2>1 DEF Walk
  <2> QED
    BY <1>3, <1>4, <2>3, <2>4
<1>8. CASE Capture(t)
  <2>1. pc[t] = "capture" /\ pc'[t] = "patch" /\ call' = call
    BY <1>8 DEF Capture, Goto
  <2>2. Phases' /\ AtRest'
    BY <1>1, <1>2, <2>1 DEF Phases, AtRest, Quiet
  <2>3. Walk'
    BY <1>1, <1>5, <2>1 DEF Walk
  <2> QED
    BY <1>3, <1>4, <2>2, <2>3
<1>9. CASE Snapshot(t)
  <2>1. /\ pc[t] = "snapshot" /\ pc'[t] = "visit" /\ call' = call
        /\ other'[t] = (IF target[t] = "ferro" THEN original ELSE "ferro")
        /\ todo'[t] = loaded
    BY <1>9 DEF Snapshot, Goto
  <2>2. Phases' /\ AtRest'
    BY <1>1, <1>2, <2>1 DEF Phases, AtRest, Quiet
  <2>3. \A m \in Reachable : m \in loaded
    BY DEF Reachable, Imports
  <2>4. Walk'
    BY <1>1, <1>5, <2>1, <2>3 DEF Walk
  <2> QED
    BY <1>3, <1>4, <2>2, <2>4
<1>10. CASE Visited(t)
  <2>1. pc[t] = "visit" /\ pc'[t] = "finish" /\ call' = call
        /\ todo[t] = {} /\ found[t] = {}
    BY <1>10 DEF Visited, Goto
  <2>2. Phases' /\ AtRest'
    BY <1>1, <1>2, <2>1 DEF Phases, AtRest, Quiet
  <2>3. Walk'
    BY <1>1, <1>5, <2>1 DEF Walk
  <2> QED
    BY <1>3, <1>4, <2>2, <2>3
<1> QED
  BY <1>3, <1>4, <1>6, <1>7, <1>8, <1>9, <1>10

LEMMA ReplaceSerial ==
  ASSUME Serial, TypeOK, Serialised, NEW t \in Threads, Patch(t) \/ Unpatch(t)
  PROVE  Serialised'
<1> USE DEF Serialised, TypeOK, Packages
<1>1. /\ UNCHANGED <<original, installed, loaded, attr, fetched, call, hooked>>
      /\ pc[t] \in {"patch", "unpatch"} /\ found' = found
      /\ \A u \in Threads \ {t} : pc[u] = "idle" /\ pc'[u] = pc[u]
      /\ straddles' = straddles \cup {m \in Modules : fetched[m] # "none"}
  BY DEF Patch, Unpatch, Replace, Goto, importVars, OneCall
<1>2. /\ target'[t] = entry'
      /\ IF pc[t] = "patch"
         THEN /\ entry' = "ferro"
              /\ pc'[t] = IF call[t] = "install" THEN "snapshot" ELSE "finish"
         ELSE entry' = "stdlib" /\ pc'[t] = "snapshot"
  BY DEF Patch, Unpatch, Replace, Goto, AtRest
<1>3. OneCall'
  BY <1>1 DEF OneCall
<1>4. Imports'
  BY <1>1 DEF Imports
<1>5. Phases' /\ AtRest'
  BY <1>1, <1>2 DEF Phases, AtRest, Quiet
<1>6. Reachable' \subseteq Reachable
  BY <1>1 DEF Reachable
<1>7. ~hooked \/ entry' = "stdlib"
  BY <1>1, <1>2 DEF Phases, AtRest
<1>8. installed \/ entry' = "ferro"
  BY <1>1, <1>2 DEF Phases
<1>9. pc'[t] = "finish" => call[t] = "install_only"
  BY <1>1, <1>2 DEF Phases
<1>10. Walk'
  BY <1>1, <1>2, <1>6, <1>7, <1>8, <1>9 DEF Walk
<1> QED
  BY <1>3, <1>4, <1>5, <1>10

LEMMA LookSerial ==
  ASSUME Serial, TypeOK, Serialised, NEW t \in Threads, NEW m \in Modules, Look(t, m)
  PROVE  Serialised'
<1> USE DEF Serialised, TypeOK, Packages
<1>1. /\ UNCHANGED <<entry, original, installed, loaded, attr, fetched, pc, call, other,
                    target, straddles, hooked>>
      /\ pc[t] = "visit" /\ \A u \in Threads \ {t} : pc[u] = "idle"
      /\ todo'[t] = todo[t] \ {m}
      /\ found' = IF attr[m] = other[t] THEN [found EXCEPT ![t] = {m}] ELSE found
      /\ found[t] = {}
  BY DEF Look, OneCall, importVars
<1>2. /\ target[t] = entry /\ other[t] # entry /\ other[t] \in Packages
      /\ IF call[t] = "uninstall" THEN installed /\ entry = "stdlib"
                                  ELSE ~installed /\ entry = "ferro"
  BY <1>1 DEF Phases
<1>3. OneCall' /\ AtRest' /\ Imports'
  BY <1>1 DEF OneCall, AtRest, Imports, Quiet
<1>4. \A n \in found'[t] : n = m /\ attr[n] # "unset"
  BY <1>1, <1>2
<1>5. Phases'
  BY <1>1, <1>4 DEF Phases
<1>6. Reachable' = Reachable
  BY <1>1 DEF Reachable
<1>7. m \in Reachable => attr[m] = entry \/ m \in found'[t]
  BY <1>1, <1>2 DEF Reachable
<1>8. Walk'
  BY <1>1, <1>2, <1>6, <1>7 DEF Walk
<1> QED
  BY <1>3, <1>5, <1>8

LEMMA RebindSerial ==
  ASSUME Serial, TypeOK, Serialised, NEW t \in Threads, NEW m \in Modules, Rebind(t, m)
  PROVE  Serialised'
<1> USE DEF Serialised, TypeOK, Packages
<1>1. /\ UNCHANGED <<entry, original, installed, loaded, fetched, pc, call, todo, other,
                    target, straddles, hooked>>
      /\ pc[t] = "visit" /\ \A u \in Threads \ {t} : pc[u] = "idle"
      /\ found' = [found EXCEPT ![t] = @ \ {m}] /\ attr[m] # "unset"
      /\ attr' = IF m \in Frozen THEN attr ELSE [attr EXCEPT ![m] = target[t]]
  BY DEF Rebind, OneCall, Phases
<1>2. /\ target[t] = entry /\ other[t] # entry
      /\ IF call[t] = "uninstall" THEN installed /\ entry = "stdlib"
                                  ELSE ~installed /\ entry = "ferro"
  BY <1>1 DEF Phases
<1>4. \A n \in Modules : /\ attr'[n] = "unset" <=> attr[n] = "unset"
                         /\ n # m => attr'[n] = attr[n]
  BY <1>1
<1>3. OneCall' /\ AtRest' /\ Phases'
  BY <1>1, <1>4 DEF OneCall, AtRest, Phases, Quiet
<1>5. Imports'
  BY <1>1, <1>4 DEF Imports
<1>6. Reachable' = Reachable
  BY <1>1, <1>4 DEF Reachable
<1>7. m \in Reachable => attr'[m] = entry
  BY <1>1, <1>2 DEF Reachable
<1>8. ~hooked \/ entry = "stdlib"
  BY <1>2 DEF AtRest
<1>9. Walk'
  BY <1>1, <1>2, <1>4, <1>6, <1>7, <1>8 DEF Walk
<1> QED
  BY <1>3, <1>5, <1>9

LEMMA FinishSerial ==
  ASSUME Serial, TypeOK, Serialised, NEW t \in Threads, Finish(t)
  PROVE  Serialised'
<1> USE DEF Serialised, TypeOK, Packages
<1>1. /\ UNCHANGED <<entry, original, loaded, attr, fetched, call, todo, other, target, straddles>>
      /\ pc[t] = "finish" /\ pc'[t] = "idle" /\ found' = found
      /\ \A u \in Threads \ {t} : pc[u] = "idle" /\ pc'[u] = "idle"
      /\ installed' = (call[t] # "uninstall")
      /\ hooked' = (call[t] = "install")
  BY DEF Finish, OneCall, Goto, importVars, rebindVars
<1>2. IF call[t] = "uninstall" THEN entry = "stdlib" ELSE entry = "ferro"
  BY <1>1 DEF Phases
<1>3. OneCall' /\ Phases'
  BY <1>1 DEF OneCall, Phases
<1>4. AtRest'
  BY <1>1, <1>2 DEF AtRest
<1>5. Imports'
  BY <1>1 DEF Imports
<1>6. Reachable' = Reachable
  BY <1>1 DEF Reachable
<1>7. Walk'
  BY <1>1, <1>2, <1>6 DEF Walk
<1> QED
  BY <1>3, <1>4, <1>5, <1>7

-----------------------------------------------------------------------------
(* The invariant and what follows from it.                                 *)

LEMMA InitIInv == Init => IInv
<1> SUFFICES ASSUME Init PROVE IInv
  OBVIOUS
<1>1. 0 \in 0..MaxCalls
  BY InstallAssumption
<1>2. TypeOK
  BY <1>1 DEF Init, TypeOK, Packages
<1>3. OneCall /\ Phases /\ AtRest /\ Imports
  BY DEF Init, OneCall, Phases, AtRest, Imports
<1>4. Walk
  BY DEF Init, Walk, Reachable
<1> QED
  BY <1>2, <1>3, <1>4 DEF IInv

LEMMA NextIInv == IInv /\ [Next]_vars => IInv'
<1> SUFFICES ASSUME IInv, [Next]_vars PROVE IInv'
  OBVIOUS
<1>1. TypeOK /\ TypeOK'
  BY TypeStep DEF IInv
<1>2. ASSUME Serial PROVE Serialised'
  <2>1. Serialised
    BY <1>2 DEF IInv, Serialised
  <2>2. CASE UNCHANGED vars
    BY <2>1, <2>2 DEF vars, Serialised, OneCall, Phases, AtRest, Quiet, Imports, Walk,
                      Reachable
  <2>3. CASE Next
    BY <1>1, <1>2, <2>1, <2>3, FetchSerial, BindSerial, MoveSerial, ReplaceSerial,
       LookSerial, RebindSerial, FinishSerial DEF Next
  <2> QED
    BY <2>2, <2>3
<1> QED
  BY <1>1, <1>2 DEF IInv, Serialised

LEMMA AlwaysIInv == Spec => []IInv
  BY InitIInv, NextIInv, PTL DEF Spec

(* The state of install() and uninstall() is well-formed, also when calls  *)
(* of several threads race: the entry of sys.modules is never missing.     *)
THEOREM TypeCorrect == Spec => []TypeOK
<1>1. IInv => TypeOK
  BY DEF IInv
<1> QED
  BY <1>1, AlwaysIInv, PTL

(* With one call at a time, every module that install() can reach uses     *)
(* ferro_io after it, whatever is imported while it walks the modules.     *)
THEOREM InstallHooksAll == Spec => [](Serial => AllHooked)
<1>1. IInv => (Serial => AllHooked)
  BY DEF IInv, AllHooked, AtRest, Walk
<1> QED
  BY <1>1, AlwaysIInv, PTL

(* With one call at a time, every module that uninstall() can reach has    *)
(* the stdlib back, after any calls of install().                          *)
THEOREM UninstallRestores == Spec => [](Serial => Restored)
<1>1. IInv => (Serial => Restored)
  BY DEF IInv, Restored, AtRest, Walk
<1> QED
  BY <1>1, AlwaysIInv, PTL

(* With one call at a time, a bound name is only ever rebound to what the  *)
(* entry of sys.modules names.                                             *)
THEOREM RebindsToEntry == Spec => (Serial => ReboundWithEntry)
<1> SUFFICES ASSUME Serial PROVE Spec => ReboundWithEntry
  OBVIOUS
<1>1. IInv /\ [Next]_vars =>
        [\A m \in Modules : attr[m] # "unset" /\ attr'[m] # attr[m] =>
           attr'[m] = entry]_vars
  <2> SUFFICES ASSUME IInv, Next, NEW m \in Modules, attr[m] # "unset", attr'[m] # attr[m]
               PROVE  attr'[m] = entry
    BY DEF vars
  <2>0. TypeOK /\ Phases /\ Imports
    BY DEF IInv
  <2>1. \/ \E n \in Modules : Bind(n)
        \/ \E t \in Threads, n \in Modules : Rebind(t, n)
    BY DEF Next, Fetch, CallInstall, CallUninstall, Capture, Patch, Unpatch, Snapshot, Visited,
           Look, Finish, importVars
  <2>2. ASSUME NEW n \in Modules, Bind(n) PROVE FALSE
    BY <2>0, <2>2 DEF Bind, Imports, TypeOK
  <2>3. ASSUME NEW t \in Threads, NEW n \in Modules, Rebind(t, n) PROVE attr'[m] = entry
    BY <2>0, <2>3 DEF Rebind, Phases, TypeOK
  <2> QED
    BY <2>1, <2>2, <2>3
<1> QED
  BY <1>1, AlwaysIInv, PTL DEF Spec, ReboundWithEntry
=============================================================================
