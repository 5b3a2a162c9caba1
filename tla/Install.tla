------------------------------- MODULE Install -------------------------------
(***************************************************************************)
(* python/ferro_io/_install.py: install() puts ferro_io in the place of    *)
(* asyncio in sys.modules and in the modules that have imported asyncio,   *)
(* one module after the other; uninstall() undoes it.  Other threads       *)
(* import modules meanwhile, and may call install() and uninstall() too:   *)
(* nothing but the flag _installed, tested first and set last, keeps two   *)
(* calls apart.                                                            *)
(***************************************************************************)
EXTENDS Naturals

CONSTANTS Threads,    \* the threads that call install() and uninstall()
          Modules,    \* modules with an attribute `asyncio`, once imported
          Deliberate, \* those that say `import ferro_io as asyncio`
          Frozen,     \* those whose attributes cannot be set
          Serial,     \* TRUE: one call of install() or uninstall() at a time
          MaxCalls    \* bound on the calls of install() and uninstall()

ASSUME InstallAssumption ==
  /\ Deliberate \subseteq Modules
  /\ Frozen \subseteq Modules
  /\ Serial \in BOOLEAN
  /\ MaxCalls \in Nat

Packages == {"stdlib", "ferro"}

VARIABLES
  entry,     \* sys.modules["asyncio"]
  original,  \* _original_asyncio
  installed, \* _installed
  loaded,    \* the modules of sys.modules
  attr,      \* attr[m]: what m.asyncio is, "unset" before m has bound it
  fetched,   \* fetched[m]: what the import statement in m has found
  pc,        \* where each thread is
  call,      \* call[t]: its call: install(), install(rebind_existing=False)
             \* or uninstall()
  todo,      \* todo[t]: the modules that _rebind_to has yet to look at
  found,     \* found[t]: the one whose attribute it has found to be the other
             \* package, and has yet to set
  other,     \* other[t]: the package that _rebind_to replaces
  target,    \* target[t]: ... and the one it puts in its place
  calls,
  straddles, \* history: imports under way when the entry was replaced
  hooked     \* history: the last install() was told to rebind

vars == <<entry, original, installed, loaded, attr, fetched, pc, call, todo,
          found, other, target, calls, straddles, hooked>>

Init == /\ entry = "stdlib"
        /\ original = "stdlib"
        /\ installed = FALSE
        /\ loaded = {}
        /\ attr = [m \in Modules |-> "unset"]
        /\ fetched = [m \in Modules |-> "none"]
        /\ pc = [t \in Threads |-> "idle"]
        /\ call = [t \in Threads |-> "install"]
        /\ todo = [t \in Threads |-> {}]
        /\ found = [t \in Threads |-> {}]
        /\ other = [t \in Threads |-> "stdlib"]
        /\ target = [t \in Threads |-> "ferro"]
        /\ calls = 0
        /\ straddles = {}
        /\ hooked = FALSE

Goto(t, l) == pc' = [pc EXCEPT ![t] = l]
importVars == <<loaded, attr, fetched>>
rebindVars == <<todo, found, other, target>>

-----------------------------------------------------------------------------
(* Imports, in any thread: the module is in sys.modules before its body    *)
(* runs; its import statement looks the package up, then binds the name.   *)

Fetch(m) ==
  /\ m \notin loaded
  /\ loaded' = loaded \cup {m}
  /\ fetched' = [fetched EXCEPT ![m] = IF m \in Deliberate THEN "ferro" ELSE entry]
  /\ UNCHANGED <<entry, original, installed, attr, pc, call, rebindVars,
                 calls, straddles, hooked>>

Bind(m) ==
  /\ fetched[m] # "none"
  /\ attr' = [attr EXCEPT ![m] = fetched[m]]
  /\ fetched' = [fetched EXCEPT ![m] = "none"]
  /\ UNCHANGED <<entry, original, installed, loaded, pc, call, rebindVars,
                 calls, straddles, hooked>>

\* The entry of sys.modules becomes p; imports that have looked it up already
\* bind what they have found.
Replace(p) ==
  /\ entry' = p
  /\ straddles' = straddles \cup {m \in Modules : fetched[m] # "none"}

-----------------------------------------------------------------------------
(* install() and uninstall()                                               *)

Begin(t, c) ==
  /\ pc[t] = "idle"
  /\ calls < MaxCalls
  /\ calls' = calls + 1
  /\ Serial => \A u \in Threads : pc[u] = "idle"
  /\ call' = [call EXCEPT ![t] = c]

\* `if _installed: return`
CallInstall(t, c) ==
  /\ Begin(t, c)
  /\ Goto(t, IF installed THEN "idle" ELSE "capture")
  /\ UNCHANGED <<entry, original, installed, importVars, rebindVars, straddles,
                 hooked>>

\* `_original_asyncio = sys.modules.get("asyncio")`
Capture(t) ==
  /\ pc[t] = "capture"
  /\ original' = entry
  /\ Goto(t, "patch")
  /\ UNCHANGED <<entry, installed, importVars, call, rebindVars, calls,
                 straddles, hooked>>

Patch(t) ==
  /\ pc[t] = "patch"
  /\ Replace("ferro")
  /\ target' = [target EXCEPT ![t] = "ferro"]
  /\ Goto(t, IF call[t] = "install" THEN "snapshot" ELSE "finish")
  /\ UNCHANGED <<original, installed, importVars, call, todo, found, other,
                 calls, hooked>>

\* `if not _installed: return`
CallUninstall(t) ==
  /\ Begin(t, "uninstall")
  /\ Goto(t, IF installed THEN "unpatch" ELSE "idle")
  /\ UNCHANGED <<entry, original, installed, importVars, rebindVars, straddles,
                 hooked>>

\* (Mutant: the entry is dropped, for the next import to find the stdlib.)
UnpatchPops(t) ==
  /\ pc[t] = "unpatch"
  /\ Replace("unset")
  /\ target' = [target EXCEPT ![t] = original]
  /\ Goto(t, "snapshot")
  /\ UNCHANGED <<original, installed, importVars, call, todo, found, other,
                 calls, hooked>>

\* (Mutant: modules that use ferro_io are left alone.)
UnpatchEntryOnly(t) ==
  /\ pc[t] = "unpatch"
  /\ Replace(original)
  /\ target' = [target EXCEPT ![t] = original]
  /\ Goto(t, "finish")
  /\ UNCHANGED <<original, installed, importVars, call, todo, found, other,
                 calls, hooked>>

\* (Mutant: the entry is left as it is.)
UnpatchModulesOnly(t) ==
  /\ pc[t] = "unpatch"
  /\ target' = [target EXCEPT ![t] = original]
  /\ Goto(t, "snapshot")
  /\ UNCHANGED <<entry, original, installed, importVars, call, todo, found, other,
                 calls, straddles, hooked>>

\* ferro_io has imported asyncio itself, so that there always is an original: the
\* branches for None, here and in _rebind_to, are never taken.
Unpatch(t) ==
  /\ pc[t] = "unpatch"
  /\ Replace(original)
  /\ target' = [target EXCEPT ![t] = original]
  /\ Goto(t, "snapshot")
  /\ UNCHANGED <<original, installed, importVars, call, todo, found, other,
                 calls, hooked>>

\* (Mutant: the package to look for is the target.)
SnapshotSwapped(t) ==
  /\ pc[t] = "snapshot"
  /\ other' = [other EXCEPT ![t] = target[t]]
  /\ todo' = [todo EXCEPT ![t] = loaded]
  /\ Goto(t, "visit")
  /\ UNCHANGED <<entry, original, installed, importVars, call, found, target,
                 calls, straddles, hooked>>

\* _rebind_to: the package to look for, and a copy of the list of modules.
Snapshot(t) ==
  /\ pc[t] = "snapshot"
  /\ other' = [other EXCEPT ![t] = IF target[t] = "ferro" THEN original ELSE "ferro"]
  /\ todo' = [todo EXCEPT ![t] = loaded]
  /\ Goto(t, "visit")
  /\ UNCHANGED <<entry, original, installed, importVars, call, found, target,
                 calls, straddles, hooked>>

\* getattr: is the attribute of the next module the other package?
Look(t, m) ==
  /\ pc[t] = "visit"
  /\ found[t] = {}
  /\ m \in todo[t]
  /\ todo' = [todo EXCEPT ![t] = @ \ {m}]
  /\ found' = IF attr[m] = other[t] THEN [found EXCEPT ![t] = {m}] ELSE found
  /\ UNCHANGED <<entry, original, installed, importVars, pc, call, other, target,
                 calls, straddles, hooked>>

\* setattr: it is replaced, if it can be.
Rebind(t, m) ==
  /\ m \in found[t]
  /\ found' = [found EXCEPT ![t] = @ \ {m}]
  /\ attr' = IF m \in Frozen THEN attr ELSE [attr EXCEPT ![m] = target[t]]
  /\ UNCHANGED <<entry, original, installed, loaded, fetched, pc, call, todo,
                 other, target, calls, straddles, hooked>>

Visited(t) ==
  /\ pc[t] = "visit"
  /\ todo[t] = {} /\ found[t] = {}
  /\ Goto(t, "finish")
  /\ UNCHANGED <<entry, original, installed, importVars, call, rebindVars,
                 calls, straddles, hooked>>

\* Last, `_installed` is set or reset.
Finish(t) ==
  /\ pc[t] = "finish"
  /\ installed' = (call[t] # "uninstall")
  /\ hooked' = (call[t] = "install")
  /\ Goto(t, "idle")
  /\ UNCHANGED <<entry, original, importVars, call, rebindVars, calls, straddles>>

-----------------------------------------------------------------------------
Next == \/ \E m \in Modules : Fetch(m) \/ Bind(m)
        \/ \E t \in Threads :
             \/ \E c \in {"install", "install_only"} : CallInstall(t, c)
             \/ CallUninstall(t)
             \/ Capture(t) \/ Patch(t) \/ Unpatch(t) \/ Snapshot(t)
             \/ Visited(t) \/ Finish(t)
             \/ \E m \in Modules : Look(t, m) \/ Rebind(t, m)

Spec == Init /\ [][Next]_vars
-----------------------------------------------------------------------------
(* Properties                                                              *)

TypeOK ==
  /\ entry \in Packages
  /\ original \in Packages
  /\ installed \in BOOLEAN
  /\ loaded \subseteq Modules
  /\ attr \in [Modules -> Packages \cup {"unset"}]
  /\ fetched \in [Modules -> Packages \cup {"none"}]
  /\ pc \in [Threads -> {"idle", "capture", "patch", "unpatch", "snapshot",
                         "visit", "finish"}]
  /\ call \in [Threads -> {"install", "install_only", "uninstall"}]
  /\ todo \in [Threads -> SUBSET Modules]
  /\ found \in [Threads -> SUBSET Modules]
  /\ other \in [Threads -> Packages]
  /\ target \in [Threads -> Packages]
  /\ calls \in 0..MaxCalls
  /\ straddles \subseteq Modules
  /\ hooked \in BOOLEAN

Quiet == \A t \in Threads : pc[t] = "idle"

\* The modules that install() can reach: it cannot set attributes of frozen
\* ones, nor see a name that an import under way binds behind its back.
Reachable == {m \in Modules \ Frozen : attr[m] # "unset"} \ straddles

(* After install(), every module that has imported asyncio, before or      *)
(* after, uses ferro_io, whatever was imported while it ran.               *)
AllHooked == Quiet /\ hooked => /\ entry = "ferro"
                                /\ \A m \in Reachable : attr[m] = "ferro"

(* After uninstall(), and however often install() was called with or       *)
(* without rebinding in between, the stdlib is back everywhere but in      *)
(* modules that said `import ferro_io as asyncio` after it.                *)
Restored == Quiet /\ ~installed =>
              /\ entry = "stdlib"
              /\ \A m \in Reachable \ Deliberate : attr[m] = "stdlib"

(* A name once bound is never unbound, and only a call of install() or     *)
(* uninstall() rebinds it, to the package that the entry then names.       *)
ReboundWithEntry ==
  [][\A m \in Modules : attr[m] # "unset" /\ attr'[m] # attr[m] =>
       attr'[m] = entry]_vars
=============================================================================
