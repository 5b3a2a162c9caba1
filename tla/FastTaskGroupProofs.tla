------------------------- MODULE FastTaskGroupProofs -------------------------
(***************************************************************************)
(* For any number of coroutines, with or without an eager task factory:    *)
(* IInv of FastTaskGroup is inductive, and the safety invariants follow.   *)
(***************************************************************************)
EXTENDS FastTaskGroup, SequenceTheorems, TLAPS

(* Pushing adds one element and leaves the others.                         *)
LEMMA Push ==
  ASSUME NEW S, NEW s \in Seq(S), NEW e \in S
  PROVE  /\ Append(s, e) \in Seq(S)
         /\ Len(s) \in Nat
         /\ Len(Append(s, e)) = Len(s) + 1
         /\ \A i \in 1..Len(s) : Append(s, e)[i] = s[i]
         /\ Append(s, e)[Len(s) + 1] = e
  OBVIOUS

(* Popping takes the last element off and leaves the others.               *)
LEMMA Pop ==
  ASSUME NEW S, NEW s \in Seq(S), s # <<>>
  PROVE  /\ SubSeq(s, 1, Len(s) - 1) \in Seq(S)
         /\ Len(s) \in Nat \ {0}
         /\ Len(SubSeq(s, 1, Len(s) - 1)) = Len(s) - 1
         /\ \A i \in 1..(Len(s) - 1) : SubSeq(s, 1, Len(s) - 1)[i] = s[i]
         /\ SubSeq(s, 1, Len(s) - 1) # <<>> => Len(s) > 1
<1>1. Len(s) \in Nat \ {0}
  OBVIOUS
<1>2. \A i \in 1..(Len(s) - 1) : s[i] \in S
  BY <1>1, ElementOfSeq
<1>3. /\ SubSeq(s, 1, Len(s) - 1) \in Seq(S)
      /\ Len(SubSeq(s, 1, Len(s) - 1)) = Len(s) - 1
      /\ \A i \in 1..(Len(s) - 1) : SubSeq(s, 1, Len(s) - 1)[i] = s[i]
  <2>1. ASSUME NEW n \in Int, n >= 0, \A i \in 1..n : s[i] \in S
        PROVE  /\ SubSeq(s, 1, n) \in Seq(S)
               /\ Len(SubSeq(s, 1, n)) = n
               /\ \A i \in 1..n : SubSeq(s, 1, n)[i] = s[i]
    BY <2>1, SubSeqProperties
  <2>2. Len(s) - 1 \in Int /\ Len(s) - 1 >= 0
    BY <1>1
  <2> QED
    BY <1>2, <2>1, <2>2
<1>4. Len(s) = 1 => SubSeq(s, 1, Len(s) - 1) = <<>>
  BY SubSeqEmpty
<1> QED
  BY <1>1, <1>3, <1>4

(* A stack of one element.                                                 *)
LEMMA Singleton ==
  ASSUME NEW S, NEW e \in S
  PROVE  /\ <<e>> \in Seq(S)
         /\ Len(<<e>>) = 1
         /\ <<e>>[1] = e
         /\ <<e>> # <<>>
  OBVIOUS

(* With nobody on the stack above the loop's own callback, no child is in  *)
(* its eager first step.                                                   *)
LEMMA NobodyEager ==
  ASSUME IInv, Len(stack) = 0 \/ Len(stack) = 1
  PROVE  \A t \in Tasks : state[t] # "eager"
<1>1. ASSUME NEW n, n = 0 \/ n = 1 PROVE 2..n = {}
  BY <1>1
<1>2. 2..Len(stack) = {}
  BY <1>1
<1> QED
  BY <1>2 DEF IInv, StackShape

(* The parent is only ever run by the loop, so nothing is below it.        *)
LEMMA ParentAlone ==
  ASSUME IInv, Running(Parent)
  PROVE  Len(stack) = 1 /\ stack[1] = Parent /\ at \in {"before", "body"}
<1>1. Len(stack) \in Nat \ {0}
  BY EmptySeq DEF IInv, TypeOK, Running
<1>2. ~(Len(stack) \in 2..Len(stack))
  BY GroupAssumption DEF IInv, StackShape, Running
<1>3. Len(stack) = 1
  <2>1. ASSUME NEW n \in Nat \ {0}, ~(n \in 2..n) PROVE n = 1
    BY <2>1
  <2> QED
    BY <1>1, <1>2, <2>1
<1> QED
  BY <1>3 DEF IInv, StackShape, Running

(* The invariant holds before the parent enters the block.                 *)
LEMMA InitInv == Init => IInv
<1> SUFFICES ASSUME Init PROVE IInv
  OBVIOUS
<1>1. Len(stack) = 1 /\ stack[1] = Parent /\ stack \in Seq(Actors)
  BY Singleton DEF Actors, Init
<1>2. TypeOK
  <2>1. state \in [Tasks -> {"none", "refused"} \cup Active \cup Over]
    BY DEF Init
  <2>2. external \in 0..MaxCancels /\ cancels \in Nat
    BY GroupAssumption DEF Init
  <2> QED
    BY <1>1, <2>1, <2>2 DEF TypeOK, Init
<1> USE GroupAssumption DEF Init
<1>3. StackShape
  BY <1>1 DEF StackShape
<1>4. GuardsNotStale /\ Tracked
  BY DEF GuardsNotStale, Tracked
<1>5. Reasons /\ Pending
  BY DEF Reasons, Pending
<1>6. NoOrphan /\ NoErrorLost /\ CancelNotSwallowed /\ NoStrayCancel
  BY DEF NoOrphan, NoErrorLost, CancelNotSwallowed, NoStrayCancel
<1>7. AbortReachesAll /\ CancelCountBalanced
  BY DEF AbortReachesAll, CancelCountBalanced
<1> QED
  BY <1>2, <1>3, <1>4, <1>5, <1>6, <1>7 DEF IInv

(* What becomes of the stack when the coroutine on top gives up control.   *)
LEMMA PopStack ==
  ASSUME IInv, stack # <<>>, Return
  PROVE  /\ stack' \in Seq(Actors)
         /\ Len(stack) \in Nat \ {0}
         /\ Len(stack') = Len(stack) - 1
         /\ \A i \in 1..(Len(stack) - 1) : stack'[i] = stack[i]
         /\ stack' # <<>> => Len(stack) > 1
<1>1. stack \in Seq(Actors)
  BY DEF IInv, TypeOK
<1> QED
  BY <1>1, Pop DEF Return

(* The loop runs one callback.                                             *)
LEMMA OneOnStack ==
  ASSUME NEW x \in Actors, stack' = <<x>>
  PROVE  stack' \in Seq(Actors) /\ Len(stack') = 1 /\ stack'[1] = x
  BY Singleton

(* Between two callbacks the stack is empty.                               *)
LEMMA EmptyStack == Idle => Len(stack) = 0
  BY DEF Idle

(* A child that runs is in its eager first step exactly when somebody is   *)
(* below it on the stack; when it gives up control, no other child changes *)
(* its place.                                                              *)
LEMMA ChildOnTop ==
  ASSUME IInv, NEW t \in Tasks, Running(t), Return
  PROVE  /\ state[t] = "eager" <=> Len(stack) > 1
         /\ state[t] \in {"eager", "started"}
         /\ \A i \in 1..Len(stack') : stack'[i] # t
         /\ \A u \in Tasks \ {t} : state[u] = "eager" =>
              \E i \in 2..Len(stack') : stack'[i] = u
         /\ t \notin scheduled
<1>1. /\ Len(stack) \in Nat \ {0}
      /\ Len(stack') = Len(stack) - 1
      /\ \A i \in 1..(Len(stack) - 1) : stack'[i] = stack[i]
  BY PopStack DEF Running
<1>2. /\ \A i, j \in 1..Len(stack) : stack[i] = stack[j] => i = j
      /\ \A i \in 2..Len(stack) : stack[i] \in Tasks /\ state[stack[i]] = "eager"
      /\ stack # <<>> /\ stack[1] \in Tasks => state[stack[1]] = "started"
      /\ \A u \in Tasks : state[u] = "eager" =>
           \E i \in 2..Len(stack) : stack[i] = u
  BY DEF IInv, StackShape
<1>3. stack[Len(stack)] = t /\ Len(stack) \in 1..Len(stack)
  BY <1>1 DEF Running
<1>4. t \notin scheduled
  BY <1>3 DEF IInv, Tracked
<1>5. \A i \in 1..Len(stack') : stack'[i] # t
  BY <1>1, <1>2, <1>3
<1>6. ASSUME NEW u \in Tasks \ {t}, state[u] = "eager"
      PROVE  \E i \in 2..Len(stack') : stack'[i] = u
  <2>1. PICK i \in 2..Len(stack) : stack[i] = u
    BY <1>2, <1>6
  <2>2. i # Len(stack)
    BY <1>3, <2>1
  <2> QED
    BY <1>1, <2>1, <2>2
<1>7. CASE Len(stack) = 1
  BY <1>2, <1>3, <1>4, <1>5, <1>6, <1>7 DEF Running
<1>8. CASE Len(stack) > 1
  <2>1. Len(stack) \in 2..Len(stack)
    BY <1>1, <1>8
  <2> QED
    BY <1>2, <1>3, <1>4, <1>5, <1>6, <1>8, <2>1
<1> QED
  BY <1>1, <1>7, <1>8

-----------------------------------------------------------------------------
(* Every step of the specification keeps the inductive invariant; one      *)
(* lemma per action.                                                       *)

(* A suspended task becomes ready.                                         *)
LEMMA WakeKeeps ==
  ASSUME IInv, NEW x \in Tasks \cup {Parent}, Wake(x)
  PROVE  IInv'
<1> USE GroupAssumption DEF IInv, Active, Over, loop, group, parent, Set
<1>1. TypeOK'
  BY DEF Wake, Suspended, TypeOK, NoOrphan, Tracked
<1>2. StackShape' /\ GuardsNotStale'
  BY DEF Wake, Suspended, TypeOK, NoOrphan, Tracked, StackShape,
      GuardsNotStale
<1>3. Tracked'
  BY DEF Wake, Suspended, TypeOK, NoOrphan, Tracked
<1>4. Reasons' /\ Pending'
  BY DEF Wake, Suspended, TypeOK, NoOrphan, Tracked, Reasons, Pending
<1>5. NoOrphan' /\ NoErrorLost' /\ AbortReachesAll'
  BY DEF Wake, Suspended, TypeOK, NoOrphan, Tracked, NoErrorLost,
      AbortReachesAll, Undone, Settled
<1>6. CancelCountBalanced' /\ CancelNotSwallowed' /\ NoStrayCancel'
  BY DEF Wake, Suspended, TypeOK, NoOrphan, Tracked, CancelCountBalanced,
      CancelNotSwallowed, NoStrayCancel
<1> QED
  BY <1>1, <1>2, <1>3, <1>4, <1>5, <1>6

(* The loop runs the next step of a child.                                 *)
LEMMA StepKeeps ==
  ASSUME IInv, NEW t \in Tasks, Step(t)
  PROVE  IInv'
<1> USE GroupAssumption DEF IInv, Active, Over, loop, group, parent, Set
<1>1. Len(stack) = 0 /\ stack \in Seq(Actors)
  BY EmptyStack DEF Step, TypeOK
<1>2. stack' = <<t>> => stack' \in Seq(Actors) /\ Len(stack') = 1 /\ stack'[1] = t
  BY OneOnStack DEF Actors
<1>3. stack' \in Seq(Actors)
  BY <1>1, <1>2 DEF Step
<1>4. TypeOK'
  BY <1>3 DEF Step, TypeOK
<1>5. StackShape' /\ GuardsNotStale'
  BY <1>1, <1>2, <1>3 DEF Step, TypeOK, NoOrphan, Tracked, StackShape,
      GuardsNotStale
<1>6. Tracked'
  BY <1>1, <1>2, <1>3 DEF Step, TypeOK, NoOrphan, Tracked
<1>7. Reasons' /\ Pending'
  BY <1>1, <1>2, <1>3 DEF Step, TypeOK, NoOrphan, Tracked, Reasons, Pending
<1>8. NoOrphan' /\ NoErrorLost' /\ AbortReachesAll'
  BY <1>1, <1>2, <1>3 DEF Step, TypeOK, NoOrphan, Tracked, NoErrorLost,
      AbortReachesAll, Undone, Settled
<1>9. CancelCountBalanced' /\ CancelNotSwallowed' /\ NoStrayCancel'
  BY <1>1, <1>2, <1>3 DEF Step, TypeOK, NoOrphan, Tracked,
      CancelCountBalanced, CancelNotSwallowed, NoStrayCancel
<1> QED
  BY <1>4, <1>5, <1>6, <1>7, <1>8, <1>9

(* Another task gets the loop.                                             *)
LEMMA OutsiderRunsKeeps ==
  ASSUME IInv, OutsiderRuns
  PROVE  IInv'
<1> USE GroupAssumption DEF IInv, Active, Over, loop, group, parent, Set
<1>1. Len(stack) = 0
  BY EmptyStack DEF OutsiderRuns
<1>2. stack' \in Seq(Actors) /\ Len(stack') = 1 /\ stack'[1] = Outsider
  BY OneOnStack DEF OutsiderRuns, Actors
<1>3. TypeOK'
  BY <1>1, <1>2 DEF OutsiderRuns, TypeOK, NoOrphan, Tracked
<1>4. StackShape' /\ GuardsNotStale'
  BY <1>1, <1>2 DEF OutsiderRuns, TypeOK, NoOrphan, Tracked, StackShape,
      GuardsNotStale
<1>5. Tracked'
  BY <1>1, <1>2 DEF OutsiderRuns, TypeOK, NoOrphan, Tracked
<1>6. Reasons' /\ Pending'
  BY <1>1, <1>2 DEF OutsiderRuns, TypeOK, NoOrphan, Tracked, Reasons,
      Pending
<1>7. NoOrphan' /\ NoErrorLost' /\ AbortReachesAll'
  BY <1>1, <1>2 DEF OutsiderRuns, TypeOK, NoOrphan, Tracked, NoErrorLost,
      AbortReachesAll, Undone, Settled
<1>8. CancelCountBalanced' /\ CancelNotSwallowed' /\ NoStrayCancel'
  BY <1>1, <1>2 DEF OutsiderRuns, TypeOK, NoOrphan, Tracked,
      CancelCountBalanced, CancelNotSwallowed, NoStrayCancel
<1> QED
  BY <1>3, <1>4, <1>5, <1>6, <1>7, <1>8

(* Another task gives the loop back.                                       *)
LEMMA OutsiderYieldsKeeps ==
  ASSUME IInv, OutsiderYields
  PROVE  IInv'
<1> USE GroupAssumption DEF IInv, Active, Over, loop, group, parent, Set
<1>1. TypeOK'
  BY DEF OutsiderYields, Running, TypeOK, NoOrphan, Tracked
<1>2. StackShape' /\ GuardsNotStale'
  BY DEF OutsiderYields, Running, TypeOK, NoOrphan, Tracked, StackShape,
      GuardsNotStale
<1>3. Tracked'
  BY DEF OutsiderYields, Running, TypeOK, NoOrphan, Tracked
<1>4. Reasons' /\ Pending'
  BY DEF OutsiderYields, Running, TypeOK, NoOrphan, Tracked, Reasons,
      Pending
<1>5. NoOrphan' /\ NoErrorLost' /\ AbortReachesAll'
  BY DEF OutsiderYields, Running, TypeOK, NoOrphan, Tracked, NoErrorLost,
      AbortReachesAll, Undone, Settled
<1>6. CancelCountBalanced' /\ CancelNotSwallowed' /\ NoStrayCancel'
  BY DEF OutsiderYields, Running, TypeOK, NoOrphan, Tracked,
      CancelCountBalanced, CancelNotSwallowed, NoStrayCancel
<1> QED
  BY <1>1, <1>2, <1>3, <1>4, <1>5, <1>6

(* create_task raises RuntimeError.                                        *)
LEMMA CreateRefusedKeeps ==
  ASSUME IInv, NEW t \in Tasks, CreateRefused(t)
  PROVE  IInv'
<1> USE GroupAssumption DEF IInv, Active, Over, loop, group, parent, Set
<1>1. TypeOK'
  BY DEF CreateRefused, Refuses, TypeOK, NoOrphan, Tracked
<1>2. StackShape' /\ GuardsNotStale'
  BY DEF CreateRefused, Refuses, TypeOK, NoOrphan, Tracked, StackShape,
      GuardsNotStale
<1>3. Tracked'
  BY DEF CreateRefused, Refuses, TypeOK, NoOrphan, Tracked
<1>4. Reasons' /\ Pending'
  BY DEF CreateRefused, Refuses, TypeOK, NoOrphan, Tracked, Reasons, Pending
<1>5. NoOrphan' /\ NoErrorLost' /\ AbortReachesAll'
  BY DEF CreateRefused, Refuses, TypeOK, NoOrphan, Tracked, NoErrorLost,
      AbortReachesAll, Undone, Settled
<1>6. CancelCountBalanced' /\ CancelNotSwallowed' /\ NoStrayCancel'
  BY DEF CreateRefused, Refuses, TypeOK, NoOrphan, Tracked,
      CancelCountBalanced, CancelNotSwallowed, NoStrayCancel
<1> QED
  BY <1>1, <1>2, <1>3, <1>4, <1>5, <1>6

(* create_task without an eager task factory.                              *)
LEMMA CreateLazyKeeps ==
  ASSUME IInv, NEW t \in Tasks, CreateLazy(t)
  PROVE  IInv'
<1> USE GroupAssumption DEF IInv, Active, Over, loop, group, parent, Set
<1>1. \A i \in 1..Len(stack) : stack[i] # t
  BY DEF CreateLazy, StackShape, TypeOK
<1>2. TypeOK'
  BY <1>1 DEF CreateLazy, Refuses, Track, TypeOK, NoOrphan, Tracked
<1>3. StackShape' /\ GuardsNotStale'
  BY <1>1 DEF CreateLazy, Refuses, Track, TypeOK, NoOrphan, Tracked,
      StackShape, GuardsNotStale
<1>4. Tracked'
  BY <1>1 DEF CreateLazy, Refuses, Track, TypeOK, NoOrphan, Tracked
<1>5. Reasons' /\ Pending'
  BY <1>1 DEF CreateLazy, Refuses, Track, TypeOK, NoOrphan, Tracked,
      Reasons, Pending
<1>6. NoOrphan' /\ NoErrorLost' /\ AbortReachesAll'
  BY <1>1 DEF CreateLazy, Refuses, Track, TypeOK, NoOrphan, Tracked,
      NoErrorLost, AbortReachesAll, Undone, Settled
<1>7. CancelCountBalanced' /\ CancelNotSwallowed' /\ NoStrayCancel'
  BY <1>1 DEF CreateLazy, Refuses, Track, TypeOK, NoOrphan, Tracked,
      CancelCountBalanced, CancelNotSwallowed, NoStrayCancel
<1> QED
  BY <1>2, <1>3, <1>4, <1>5, <1>6, <1>7

(* create_task up to the eager first step of the child.                    *)
LEMMA CreateEagerKeeps ==
  ASSUME IInv, NEW t \in Tasks, CreateEager(t)
  PROVE  IInv'
<1> USE GroupAssumption DEF IInv, Active, Over, loop, group, parent, Set
<1>1. /\ stack' \in Seq(Actors)
      /\ Len(stack) \in Nat \ {0} /\ Len(stack') = Len(stack) + 1
      /\ \A i \in 1..Len(stack) : stack'[i] = stack[i]
      /\ stack'[Len(stack) + 1] = t
      /\ stack' # <<>>
  BY Push DEF CreateEager, Idle, TypeOK, Actors
<1>2. state' = [state EXCEPT ![t] = "eager"] /\ state[t] = "none" /\ UNCHANGED at /\ state \in [Tasks -> {"none", "refused"} \cup Active \cup Over]
  BY DEF CreateEager, TypeOK
<1>3. TypeOK'
  BY <1>1, <1>2 DEF CreateEager, Refuses, TypeOK, NoOrphan, Tracked
<1>4. StackShape'
  <2>1. \A i \in 1..Len(stack) : stack[i] # t
    BY <1>1, <1>2 DEF StackShape
  <2>2. \A i, j \in 1..Len(stack') : stack'[i] = stack'[j] => i = j
    BY <1>1, <2>1 DEF StackShape
  <2>3. \A i \in 2..Len(stack') : stack'[i] \in Tasks /\ state'[stack'[i]] = "eager"
    BY <1>1, <1>2, <2>1 DEF StackShape
  <2>4. /\ stack'[1] \in Tasks => state'[stack'[1]] = "started"
        /\ stack'[1] = Parent => at' \in {"before", "body"}
    BY <1>1, <1>2, <2>1 DEF StackShape
  <2>5. \A u \in Tasks : state'[u] = "eager" =>
          \E i \in 2..Len(stack') : stack'[i] = u
    BY <1>1, <1>2 DEF StackShape
  <2> QED
    BY <2>2, <2>3, <2>4, <2>5 DEF StackShape
<1>5. GuardsNotStale'
  BY <1>1, <1>2 DEF CreateEager, Refuses, TypeOK, NoOrphan, Tracked,
      GuardsNotStale
<1>6. Tracked'
  BY <1>1, <1>2 DEF CreateEager, Refuses, TypeOK, NoOrphan, Tracked
<1>7. Reasons' /\ Pending'
  BY <1>1, <1>2 DEF CreateEager, Refuses, TypeOK, NoOrphan, Tracked,
      Reasons, Pending
<1>8. NoOrphan' /\ NoErrorLost' /\ AbortReachesAll'
  BY <1>1, <1>2 DEF CreateEager, Refuses, TypeOK, NoOrphan, Tracked,
      NoErrorLost, AbortReachesAll, Undone, Settled
<1>9. CancelCountBalanced' /\ CancelNotSwallowed' /\ NoStrayCancel'
  BY <1>1, <1>2 DEF CreateEager, Refuses, TypeOK, NoOrphan, Tracked,
      CancelCountBalanced, CancelNotSwallowed, NoStrayCancel
<1> QED
  BY <1>3, <1>4, <1>5, <1>6, <1>7, <1>8, <1>9

(* A child gives up control at an await.                                   *)
LEMMA SuspendKeeps ==
  ASSUME IInv, NEW t \in Tasks, Suspend(t)
  PROVE  IInv'
<1> USE GroupAssumption DEF IInv, Active, Over, loop, group, parent, Set
<1>1. /\ stack' \in Seq(Actors)
      /\ Len(stack) \in Nat \ {0} /\ Len(stack') = Len(stack) - 1
      /\ \A i \in 1..(Len(stack) - 1) : stack'[i] = stack[i]
  BY PopStack DEF Suspend, Running
<1>2. /\ state[t] = "eager" <=> Len(stack) > 1
      /\ state[t] \in {"eager", "started"}
      /\ \A i \in 1..Len(stack') : stack'[i] # t
      /\ \A u \in Tasks \ {t} : state[u] = "eager" =>
           \E i \in 2..Len(stack') : stack'[i] = u
      /\ t \notin scheduled
  BY ChildOnTop DEF Suspend
<1>3. TypeOK'
  BY <1>1, <1>2 DEF Suspend, Track, TypeOK, NoOrphan, Tracked
<1>4. StackShape'
  <2>1. \A i, j \in 1..Len(stack') : stack'[i] = stack'[j] => i = j
    BY <1>1 DEF StackShape
  <2>2. /\ \A i \in 1..Len(stack') : state'[stack'[i]] = state[stack[i]] /\ stack'[i] = stack[i]
        /\ at' = at
    BY <1>1, <1>2 DEF Suspend, TypeOK
  <2>3. \A i \in 2..Len(stack') : stack'[i] \in Tasks /\ state'[stack'[i]] = "eager"
    BY <1>1, <2>2 DEF StackShape
  <2>4. stack' # <<>> => 1 \in 1..Len(stack')
    BY <1>1
  <2>5. stack' # <<>> => stack # <<>>
    BY DEF Suspend, Running
  <2>6. \A u \in Tasks : state'[u] = "eager" => u # t /\ state[u] = "eager"
    BY DEF Suspend, TypeOK
  <2> QED
    BY <1>2, <2>1, <2>2, <2>3, <2>4, <2>5, <2>6 DEF StackShape
<1>5. GuardsNotStale'
  BY <1>1, <1>2 DEF Suspend, Track, TypeOK, NoOrphan, Tracked,
      GuardsNotStale
<1>6. Tracked'
  BY <1>1, <1>2 DEF Suspend, Track, TypeOK, NoOrphan, Tracked
<1>7. Reasons' /\ Pending'
  BY <1>1, <1>2 DEF Suspend, Track, TypeOK, NoOrphan, Tracked, Reasons,
      Pending
<1>8. NoOrphan'
  BY <1>1, <1>2 DEF Suspend, Track, TypeOK, NoOrphan, Tracked
<1>9. NoErrorLost'
  BY <1>1, <1>2 DEF Suspend, Track, TypeOK, NoOrphan, Tracked, NoErrorLost
<1>10. AbortReachesAll'
  BY <1>1, <1>2 DEF Suspend, Track, FastPath, TypeOK, Tracked, GuardsNotStale,
       AbortReachesAll, Undone, Settled
<1>11. CancelCountBalanced' /\ CancelNotSwallowed' /\ NoStrayCancel'
  BY <1>1, <1>2 DEF Suspend, Track, TypeOK, NoOrphan, Tracked,
      CancelCountBalanced, CancelNotSwallowed, NoStrayCancel
<1> QED
  BY <1>3, <1>4, <1>5, <1>6, <1>7, <1>8, <1>9, <1>10, <1>11

(* A child ends.                                                           *)
LEMMA FinishKeeps ==
  ASSUME IInv, NEW t \in Tasks, NEW how \in Over, Finish(t, how)
  PROVE  IInv'
<1> USE GroupAssumption DEF IInv, Active, Over, loop, group, parent, Set
<1>1. /\ stack' \in Seq(Actors)
      /\ Len(stack) \in Nat \ {0} /\ Len(stack') = Len(stack) - 1
      /\ \A i \in 1..(Len(stack) - 1) : stack'[i] = stack[i]
  BY PopStack DEF Finish, Running
<1>2. /\ state[t] = "eager" <=> Len(stack) > 1
      /\ state[t] \in {"eager", "started"}
      /\ \A i \in 1..Len(stack') : stack'[i] # t
      /\ \A u \in Tasks \ {t} : state[u] = "eager" =>
           \E i \in 2..Len(stack') : stack'[i] = u
      /\ t \notin scheduled
  BY ChildOnTop DEF Finish
<1>3. TypeOK'
  BY <1>1, <1>2 DEF Finish, Track, FastPath, TypeOK, NoOrphan, Tracked
<1>4. StackShape'
  <2>1. \A i, j \in 1..Len(stack') : stack'[i] = stack'[j] => i = j
    BY <1>1 DEF StackShape
  <2>2. /\ \A i \in 1..Len(stack') : state'[stack'[i]] = state[stack[i]] /\ stack'[i] = stack[i]
        /\ at' = at
    BY <1>1, <1>2 DEF Finish, TypeOK
  <2>3. \A i \in 2..Len(stack') : stack'[i] \in Tasks /\ state'[stack'[i]] = "eager"
    BY <1>1, <2>2 DEF StackShape
  <2>4. stack' # <<>> => 1 \in 1..Len(stack')
    BY <1>1
  <2>5. stack' # <<>> => stack # <<>>
    BY DEF Finish, Running
  <2>6. \A u \in Tasks : state'[u] = "eager" => u # t /\ state[u] = "eager"
    BY DEF Finish, TypeOK
  <2> QED
    BY <1>2, <2>1, <2>2, <2>3, <2>4, <2>5, <2>6 DEF StackShape
<1>5. GuardsNotStale'
  BY <1>1, <1>2 DEF Finish, Track, FastPath, TypeOK, NoOrphan, Tracked,
      GuardsNotStale
<1>6. Tracked'
  BY <1>1, <1>2 DEF Finish, Track, FastPath, TypeOK, NoOrphan, Tracked
<1>7. Reasons' /\ Pending'
  BY <1>1, <1>2 DEF Finish, Track, FastPath, TypeOK, NoOrphan, Tracked,
      Reasons, Pending
<1>8. NoOrphan'
  BY <1>1, <1>2 DEF Finish, Track, FastPath, TypeOK, NoOrphan, Tracked
<1>9. NoErrorLost'
  BY <1>1, <1>2 DEF Finish, Track, FastPath, TypeOK, NoOrphan, Tracked,
      NoErrorLost
<1>10. AbortReachesAll'
  BY <1>1, <1>2 DEF Finish, Track, FastPath, TypeOK, Tracked, GuardsNotStale,
       AbortReachesAll, Undone, Settled
<1>11. CancelCountBalanced' /\ CancelNotSwallowed' /\ NoStrayCancel'
  BY <1>1, <1>2 DEF Finish, Track, FastPath, TypeOK, NoOrphan, Tracked,
      CancelCountBalanced, CancelNotSwallowed, NoStrayCancel
<1> QED
  BY <1>3, <1>4, <1>5, <1>6, <1>7, <1>8, <1>9, <1>10, <1>11

(* The done-callback of a child.                                           *)
LEMMA OnTaskDoneKeeps ==
  ASSUME IInv, NEW t \in Tasks, OnTaskDone(t)
  PROVE  IInv'
<1> USE GroupAssumption DEF IInv, Active, Over, loop, group, parent, Set
<1>1. \A u \in Tasks : state[u] # "eager"
  BY NobodyEager, EmptyStack DEF OnTaskDone
<1>2. at # "after" /\ t \in tasks
  BY DEF OnTaskDone, NoOrphan
<1>3. TypeOK'
  BY <1>2 DEF OnTaskDone, Undone, TypeOK
<1>4. StackShape'
  BY <1>1, <1>2 DEF OnTaskDone, Aborts, Undone, Settled, TypeOK, NoOrphan,
      Tracked, StackShape
<1>5. GuardsNotStale'
  BY <1>1 DEF OnTaskDone, GuardsNotStale
<1>6. Tracked'
  <2>1. Len(stack) = 0
    BY EmptyStack DEF OnTaskDone
  <2>2. \A u \in Undone : u \in tasks /\ state[u] \in {"new", "started"}
    BY DEF Tracked, TypeOK, Undone, Settled
  <2> QED
    BY <1>2, <2>1, <2>2 DEF OnTaskDone, Settled, Tracked, TypeOK
<1>7. Reasons' /\ Pending'
  BY <1>1, <1>2 DEF OnTaskDone, Aborts, Undone, Settled, TypeOK, NoOrphan,
      Tracked, Reasons, Pending
<1>8. NoOrphan' /\ NoErrorLost' /\ AbortReachesAll'
  BY <1>1, <1>2 DEF OnTaskDone, Aborts, Undone, Settled, TypeOK, NoOrphan,
      Tracked, NoErrorLost, AbortReachesAll
<1>9. CancelCountBalanced'
  <2>1. CASE Aborts(t)
    <3>1. /\ ~parentCancelRequested /\ parentCancelRequested'
          /\ cancels' = cancels + 1
          /\ at' = at /\ external' = external
      BY <2>1 DEF OnTaskDone, Aborts, TypeOK
    <3>2. cancels = external
      BY <3>1 DEF CancelCountBalanced, TypeOK
    <3> QED
      BY <1>2, <3>1, <3>2 DEF CancelCountBalanced
  <2>2. CASE ~Aborts(t)
    BY <1>2, <2>2 DEF OnTaskDone, CancelCountBalanced, TypeOK
  <2> QED
    BY <2>1, <2>2
<1>10. CancelNotSwallowed'
  BY <1>1, <1>2 DEF OnTaskDone, Aborts, Undone, Settled, TypeOK, NoOrphan,
      Tracked, CancelNotSwallowed
<1>11. NoStrayCancel'
  BY <1>1, <1>2 DEF OnTaskDone, Aborts, Undone, Settled, TypeOK, NoOrphan,
      Tracked, NoStrayCancel
<1> QED
  BY <1>3, <1>4, <1>5, <1>6, <1>7, <1>8, <1>9, <1>10, <1>11

(* The parent is cancelled from outside the group.                         *)
LEMMA CancelParentKeeps ==
  ASSUME IInv, CancelParent
  PROVE  IInv'
<1> USE GroupAssumption DEF IInv, Active, Over, loop, group, parent, Set
<1>1. TypeOK'
  BY DEF CancelParent, TypeOK, NoOrphan, Tracked
<1>2. StackShape' /\ GuardsNotStale'
  BY DEF CancelParent, TypeOK, NoOrphan, Tracked, StackShape, GuardsNotStale
<1>3. Tracked'
  BY DEF CancelParent, TypeOK, NoOrphan, Tracked
<1>4. Reasons' /\ Pending'
  BY DEF CancelParent, TypeOK, NoOrphan, Tracked, Reasons, Pending
<1>5. NoOrphan' /\ NoErrorLost' /\ AbortReachesAll'
  BY DEF CancelParent, TypeOK, NoOrphan, Tracked, NoErrorLost,
      AbortReachesAll, Undone, Settled
<1>6. CancelCountBalanced' /\ CancelNotSwallowed' /\ NoStrayCancel'
  BY DEF CancelParent, TypeOK, NoOrphan, Tracked, CancelCountBalanced,
      CancelNotSwallowed, NoStrayCancel
<1> QED
  BY <1>1, <1>2, <1>3, <1>4, <1>5, <1>6

(* The parent enters the block.                                            *)
LEMMA EnterKeeps ==
  ASSUME IInv, Enter
  PROVE  IInv'
<1> USE GroupAssumption DEF IInv, Active, Over, loop, group, parent, Set
<1>1. TypeOK'
  BY DEF Enter, Running, Reasons, TypeOK, NoOrphan, Tracked
<1>2. StackShape' /\ GuardsNotStale'
  BY DEF Enter, Running, Reasons, TypeOK, NoOrphan, Tracked, StackShape,
      GuardsNotStale
<1>3. Tracked'
  BY DEF Enter, Running, Reasons, TypeOK, NoOrphan, Tracked
<1>4. Reasons' /\ Pending'
  BY DEF Enter, Running, Reasons, TypeOK, NoOrphan, Tracked, Pending
<1>5. NoOrphan' /\ NoErrorLost' /\ AbortReachesAll'
  BY DEF Enter, Running, Reasons, TypeOK, NoOrphan, Tracked, NoErrorLost,
      AbortReachesAll, Undone, Settled
<1>6. CancelCountBalanced' /\ CancelNotSwallowed' /\ NoStrayCancel'
  BY DEF Enter, Running, Reasons, TypeOK, NoOrphan, Tracked,
      CancelCountBalanced, CancelNotSwallowed, NoStrayCancel
<1> QED
  BY <1>1, <1>2, <1>3, <1>4, <1>5, <1>6

(* The body awaits something.                                              *)
LEMMA BodySuspendsKeeps ==
  ASSUME IInv, BodySuspends
  PROVE  IInv'
<1> USE GroupAssumption DEF IInv, Active, Over, loop, group, parent, Set
<1>1. Len(stack) = 1 /\ stack[1] = Parent
  BY ParentAlone DEF BodySuspends
<1>2. stack' \in Seq(Actors) /\ Len(stack') = 0
  BY <1>1, PopStack DEF BodySuspends, Running
<1>3. \A u \in Tasks : state[u] # "eager"
  BY <1>1, NobodyEager
<1>4. TypeOK'
  BY <1>1, <1>2, <1>3 DEF BodySuspends, TypeOK, NoOrphan, Tracked
<1>5. StackShape' /\ GuardsNotStale'
  BY <1>1, <1>2, <1>3 DEF BodySuspends, TypeOK, NoOrphan, Tracked,
      StackShape, GuardsNotStale
<1>6. Tracked'
  BY <1>1, <1>2, <1>3 DEF BodySuspends, TypeOK, NoOrphan, Tracked
<1>7. Reasons' /\ Pending'
  BY <1>1, <1>2, <1>3 DEF BodySuspends, TypeOK, NoOrphan, Tracked, Reasons,
      Pending
<1>8. NoOrphan' /\ NoErrorLost' /\ AbortReachesAll'
  BY <1>1, <1>2, <1>3 DEF BodySuspends, TypeOK, NoOrphan, Tracked,
      NoErrorLost, AbortReachesAll, Undone, Settled
<1>9. CancelCountBalanced' /\ CancelNotSwallowed' /\ NoStrayCancel'
  BY <1>1, <1>2, <1>3 DEF BodySuspends, TypeOK, NoOrphan, Tracked,
      CancelCountBalanced, CancelNotSwallowed, NoStrayCancel
<1> QED
  BY <1>4, <1>5, <1>6, <1>7, <1>8, <1>9

(* The body goes on.                                                       *)
LEMMA BodyStepKeeps ==
  ASSUME IInv, BodyStep
  PROVE  IInv'
<1> USE GroupAssumption DEF IInv, Active, Over, loop, group, parent, Set
<1>1. Len(stack) = 0
  BY EmptyStack DEF BodyStep
<1>2. stack' \in Seq(Actors) /\ Len(stack') = 1 /\ stack'[1] = Parent
  BY OneOnStack DEF BodyStep, Actors
<1>3. TypeOK'
  BY <1>1, <1>2 DEF BodyStep, TypeOK, NoOrphan, Tracked
<1>4. StackShape' /\ GuardsNotStale'
  BY <1>1, <1>2 DEF BodyStep, TypeOK, NoOrphan, Tracked, StackShape,
      GuardsNotStale
<1>5. Tracked'
  BY <1>1, <1>2 DEF BodyStep, TypeOK, NoOrphan, Tracked
<1>6. Reasons' /\ Pending'
  BY <1>1, <1>2 DEF BodyStep, TypeOK, NoOrphan, Tracked, Reasons, Pending
<1>7. NoOrphan' /\ NoErrorLost' /\ AbortReachesAll'
  BY <1>1, <1>2 DEF BodyStep, TypeOK, NoOrphan, Tracked, NoErrorLost,
      AbortReachesAll, Undone, Settled
<1>8. CancelCountBalanced' /\ CancelNotSwallowed' /\ NoStrayCancel'
  BY <1>1, <1>2 DEF BodyStep, TypeOK, NoOrphan, Tracked,
      CancelCountBalanced, CancelNotSwallowed, NoStrayCancel
<1> QED
  BY <1>3, <1>4, <1>5, <1>6, <1>7, <1>8

(* The body ends: __aexit__ up to its first await.                         *)
LEMMA LeaveBodyKeeps ==
  ASSUME IInv, NEW how \in Over, LeaveBody(how)
  PROVE  IInv'
<1> USE GroupAssumption DEF IInv, Active, Over, loop, group, parent, Set
<1>1. Len(stack) = 1 /\ stack[1] = Parent /\ at = "body"
  BY ParentAlone DEF LeaveBody
<1>2. \A u \in Tasks : state[u] # "eager"
  BY <1>1, NobodyEager
<1>3. stack' = <<>> /\ Len(stack') = 0 /\ stack' \in Seq(Actors)
  BY EmptySeq DEF LeaveBody, Aexit
<1>4. CASE tasks = {}
  <2>1. TypeOK'
    <3>1. Left \in Nat
      BY <1>1, <1>2, <1>3 DEF Left, CancelCountBalanced, TypeOK
    <3>2. outcome' \in {"returned", "cancelled", "group"}
      BY <1>4 DEF LeaveBody, Aexit, Conclude
    <3>3. /\ scheduled' \subseteq Tasks \cup {Parent}
          /\ interrupt' \subseteq Tasks \cup {Parent}
          /\ asked' \subseteq Tasks
      BY <1>4 DEF LeaveBody, Aexit, Conclude, StillPending, Undone, TypeOK
    <3>4. aborting' \in BOOLEAN /\ propagate' \in BOOLEAN /\ cancels' \in Nat
      BY <1>4, <3>1 DEF LeaveBody, Aexit, Conclude, TypeOK
    <3>5. UNCHANGED <<state, tasks, parentCancelRequested, errors, awaitedBy,
                      thrown, external>>
      BY DEF LeaveBody, Aexit
    <3>6. onCompletedFut' = "none" /\ at' = "after" /\ bodyEnd' \in {"none"} \cup Over
      BY <1>4 DEF LeaveBody, Aexit, Conclude, TypeOK
    <3> QED
      BY <1>3, <3>2, <3>3, <3>4, <3>5, <3>6 DEF TypeOK
  <2>2. StackShape' /\ GuardsNotStale'
    BY <1>4, <1>1, <1>2, <1>3 DEF LeaveBody, Aexit, Conclude, Left,
        Cleared, StillPending, TypeOK, NoOrphan, Tracked, StackShape,
        GuardsNotStale
  <2>3. Tracked'
    BY <1>4, <1>1, <1>2, <1>3 DEF LeaveBody, Aexit, Conclude, Left,
        Cleared, StillPending, TypeOK, NoOrphan, Tracked
  <2>4. Reasons' /\ Pending'
    BY <1>4, <1>1, <1>2, <1>3 DEF LeaveBody, Aexit, Conclude, Left,
        Cleared, StillPending, TypeOK, NoOrphan, Tracked, Reasons,
        Pending, CancelCountBalanced
  <2>5. NoOrphan' /\ NoErrorLost' /\ AbortReachesAll'
    BY <1>4, <1>1, <1>2, <1>3 DEF LeaveBody, Aexit, Conclude, Left,
        Cleared, StillPending, TypeOK, NoOrphan, Tracked, NoErrorLost,
        Reasons, Pending, CancelCountBalanced, AbortReachesAll, Undone,
        Settled
  <2>6. CancelCountBalanced' /\ CancelNotSwallowed' /\ NoStrayCancel'
    BY <1>4, <1>1, <1>2, <1>3 DEF LeaveBody, Aexit, Conclude, Left,
        Cleared, StillPending, TypeOK, NoOrphan, Tracked,
        CancelCountBalanced, Reasons, Pending, CancelNotSwallowed,
        NoStrayCancel
  <2> QED
    BY <2>1, <2>2, <2>3, <2>4, <2>5, <2>6
<1>5. CASE tasks # {}
  <2>1. TypeOK'
    <3>1. /\ scheduled' \subseteq Tasks \cup {Parent}
          /\ interrupt' \subseteq Tasks \cup {Parent}
          /\ asked' \subseteq Tasks
      BY <1>5 DEF LeaveBody, Aexit, Undone, TypeOK
    <3>2. aborting' \in BOOLEAN /\ propagate' \in BOOLEAN
      BY <1>5 DEF LeaveBody, Aexit, TypeOK
    <3>3. UNCHANGED <<state, tasks, parentCancelRequested, errors, awaitedBy,
                      thrown, external, cancels, outcome>>
      BY <1>5 DEF LeaveBody, Aexit
    <3>4. onCompletedFut' \in {"done", "pending"} /\ at' = "exit" /\ bodyEnd' \in {"none"} \cup Over
      BY <1>5 DEF LeaveBody, Aexit, TypeOK
    <3> QED
      BY <1>3, <3>1, <3>2, <3>3, <3>4 DEF TypeOK
  <2>2. StackShape' /\ GuardsNotStale'
    BY <1>5, <1>1, <1>2, <1>3 DEF LeaveBody, Aexit, Undone, Settled,
        TypeOK, NoOrphan, Tracked, StackShape, GuardsNotStale
  <2>3. Tracked'
    BY <1>5, <1>1, <1>2, <1>3 DEF LeaveBody, Aexit, Undone, Settled,
        TypeOK, NoOrphan, Tracked
  <2>4. Reasons'
    BY <1>5, <1>1, <1>2, <1>3 DEF LeaveBody, Aexit, TypeOK, Reasons
  <2>5. Pending'
    BY <1>5, <1>1, <1>2, <1>3 DEF LeaveBody, Aexit, Undone, Settled,
        TypeOK, NoOrphan, Tracked, Pending, Reasons, CancelCountBalanced
  <2>6. NoOrphan' /\ NoErrorLost' /\ AbortReachesAll'
    BY <1>5, <1>1, <1>2, <1>3 DEF LeaveBody, Aexit, Undone, Settled,
        TypeOK, NoOrphan, Tracked, NoErrorLost, Reasons, Pending,
        CancelCountBalanced, AbortReachesAll
  <2>7. CancelCountBalanced' /\ CancelNotSwallowed' /\ NoStrayCancel'
    BY <1>5, <1>1, <1>2, <1>3 DEF LeaveBody, Aexit, Undone, Settled,
        TypeOK, NoOrphan, Tracked, CancelCountBalanced, Reasons, Pending,
        CancelNotSwallowed, NoStrayCancel
  <2> QED
    BY <2>1, <2>2, <2>3, <2>4, <2>5, <2>6, <2>7
<1> QED
  BY <1>4, <1>5

(* __aexit__ wakes up.                                                     *)
LEMMA WaitStepKeeps ==
  ASSUME IInv, WaitStep
  PROVE  IInv'
<1> USE GroupAssumption DEF IInv, Active, Over, loop, group, parent, Set
<1>1. Len(stack) = 0 /\ at = "exit"
  BY EmptyStack DEF WaitStep
<1>2. \A u \in Tasks : state[u] # "eager"
  BY <1>1, NobodyEager
<1>3. stack' = <<>> /\ Len(stack') = 0 /\ stack' \in Seq(Actors)
  BY EmptySeq DEF WaitStep, Aexit
<1>4. CASE tasks = {}
  <2>1. TypeOK'
    <3>1. Left \in Nat
      BY <1>1, <1>2, <1>3 DEF Left, CancelCountBalanced, TypeOK
    <3>2. outcome' \in {"returned", "cancelled", "group"}
      BY <1>4 DEF WaitStep, Aexit, Conclude
    <3>3. /\ scheduled' \subseteq Tasks \cup {Parent}
          /\ interrupt' \subseteq Tasks \cup {Parent}
          /\ asked' \subseteq Tasks
      BY <1>4 DEF WaitStep, Aexit, Conclude, StillPending, Undone, TypeOK
    <3>4. aborting' \in BOOLEAN /\ propagate' \in BOOLEAN /\ cancels' \in Nat
      BY <1>4, <3>1 DEF WaitStep, Aexit, Conclude, TypeOK
    <3>5. UNCHANGED <<state, tasks, parentCancelRequested, errors, awaitedBy,
                      thrown, external>>
      BY DEF WaitStep, Aexit
    <3>6. onCompletedFut' = "none" /\ at' = "after" /\ bodyEnd' \in {"none"} \cup Over
      BY <1>4 DEF WaitStep, Aexit, Conclude, TypeOK
    <3> QED
      BY <1>3, <3>2, <3>3, <3>4, <3>5, <3>6 DEF TypeOK
  <2>2. StackShape' /\ GuardsNotStale'
    BY <1>4, <1>1, <1>2, <1>3 DEF WaitStep, Aexit, Conclude, Left,
        Cleared, StillPending, TypeOK, NoOrphan, Tracked, StackShape,
        GuardsNotStale
  <2>3. Tracked'
    BY <1>4, <1>1, <1>2, <1>3 DEF WaitStep, Aexit, Conclude, Left,
        Cleared, StillPending, TypeOK, NoOrphan, Tracked
  <2>4. Reasons' /\ Pending'
    BY <1>4, <1>1, <1>2, <1>3 DEF WaitStep, Aexit, Conclude, Left,
        Cleared, StillPending, TypeOK, NoOrphan, Tracked, Reasons,
        Pending, CancelCountBalanced
  <2>5. NoOrphan' /\ NoErrorLost' /\ AbortReachesAll'
    BY <1>4, <1>1, <1>2, <1>3 DEF WaitStep, Aexit, Conclude, Left,
        Cleared, StillPending, TypeOK, NoOrphan, Tracked, NoErrorLost,
        Reasons, Pending, CancelCountBalanced, AbortReachesAll, Undone,
        Settled
  <2>6. CancelCountBalanced' /\ CancelNotSwallowed' /\ NoStrayCancel'
    BY <1>4, <1>1, <1>2, <1>3 DEF WaitStep, Aexit, Conclude, Left,
        Cleared, StillPending, TypeOK, NoOrphan, Tracked,
        CancelCountBalanced, Reasons, Pending, CancelNotSwallowed,
        NoStrayCancel
  <2> QED
    BY <2>1, <2>2, <2>3, <2>4, <2>5, <2>6
<1>5. CASE tasks # {}
  <2>1. TypeOK'
    <3>1. /\ scheduled' \subseteq Tasks \cup {Parent}
          /\ interrupt' \subseteq Tasks \cup {Parent}
          /\ asked' \subseteq Tasks
      BY <1>5 DEF WaitStep, Aexit, Undone, TypeOK
    <3>2. aborting' \in BOOLEAN /\ propagate' \in BOOLEAN
      BY <1>5 DEF WaitStep, Aexit, TypeOK
    <3>3. UNCHANGED <<state, tasks, parentCancelRequested, errors, awaitedBy,
                      thrown, external, cancels, outcome>>
      BY <1>5 DEF WaitStep, Aexit
    <3>4. onCompletedFut' \in {"done", "pending"} /\ at' = "exit" /\ bodyEnd' \in {"none"} \cup Over
      BY <1>5 DEF WaitStep, Aexit, TypeOK
    <3> QED
      BY <1>3, <3>1, <3>2, <3>3, <3>4 DEF TypeOK
  <2>2. StackShape' /\ GuardsNotStale'
    BY <1>5, <1>1, <1>2, <1>3 DEF WaitStep, Aexit, Undone, Settled,
        TypeOK, NoOrphan, Tracked, StackShape, GuardsNotStale
  <2>3. Tracked'
    BY <1>5, <1>1, <1>2, <1>3 DEF WaitStep, Aexit, Undone, Settled,
        TypeOK, NoOrphan, Tracked
  <2>4. Reasons' /\ Pending'
    BY <1>5, <1>1, <1>2, <1>3 DEF WaitStep, Aexit, Undone, Settled,
        TypeOK, NoOrphan, Tracked, Reasons, Pending, CancelCountBalanced
  <2>5. NoOrphan' /\ NoErrorLost' /\ AbortReachesAll'
    BY <1>5, <1>1, <1>2, <1>3 DEF WaitStep, Aexit, Undone, Settled,
        TypeOK, NoOrphan, Tracked, NoErrorLost, Reasons, Pending,
        CancelCountBalanced, AbortReachesAll
  <2>6. CancelCountBalanced' /\ CancelNotSwallowed' /\ NoStrayCancel'
    BY <1>5, <1>1, <1>2, <1>3 DEF WaitStep, Aexit, Undone, Settled,
        TypeOK, NoOrphan, Tracked, CancelCountBalanced, Reasons, Pending,
        CancelNotSwallowed, NoStrayCancel
  <2> QED
    BY <2>1, <2>2, <2>3, <2>4, <2>5, <2>6
<1> QED
  BY <1>4, <1>5

(* Every step keeps the invariant.                                         *)
LEMMA NextInv == IInv /\ [Next]_vars => IInv'
<1> SUFFICES ASSUME IInv, [Next]_vars PROVE IInv'
  OBVIOUS
<1>1. ASSUME NEW t \in Tasks, Child(t) PROVE IInv'
  BY <1>1, StepKeeps, CreateRefusedKeeps, CreateLazyKeeps, CreateEagerKeeps,
     SuspendKeeps, FinishKeeps, OnTaskDoneKeeps DEF Child
<1>2. ASSUME NEW x \in Tasks \cup {Parent}, Wake(x) PROVE IInv'
  BY <1>2, WakeKeeps
<1>3. CASE ParentDoes
  BY <1>3, EnterKeeps, BodySuspendsKeeps, BodyStepKeeps, WaitStepKeeps,
     LeaveBodyKeeps DEF ParentDoes
<1>4. CASE CancelParent
  BY <1>4, CancelParentKeeps
<1>5. CASE OutsiderRuns \/ OutsiderYields
  BY <1>5, OutsiderRunsKeeps, OutsiderYieldsKeeps
<1>6. CASE UNCHANGED vars
  BY <1>6 DEF vars, loop, group, parent, IInv, TypeOK, StackShape,
     GuardsNotStale, Tracked, Reasons, Pending, NoOrphan, NoErrorLost,
     AbortReachesAll, CancelCountBalanced, CancelNotSwallowed, NoStrayCancel,
     Undone, Settled
<1> QED
  BY <1>1, <1>2, <1>3, <1>4, <1>5, <1>6 DEF Next

(* The inductive invariant holds in every run.                             *)
THEOREM GroupInvariant == Spec => []IInv
  BY InitInv, NextInv, PTL DEF Spec
-----------------------------------------------------------------------------
(* The results.                                                            *)

(* Every variable keeps its type in every run of the group.                *)
THEOREM TypeCorrect == Spec => []TypeOK
<1>1. IInv => TypeOK
  BY DEF IInv
<1> QED
  BY <1>1, GroupInvariant, PTL

(* No child that create_task accepted outlives the `async with` block,     *)
(* whether the fast path returned it untracked or not.                     *)
THEOREM NoChildOutlives == Spec => []NoOrphan
<1>1. IInv => NoOrphan
  BY DEF IInv
<1> QED
  BY <1>1, GroupInvariant, PTL

(* The exception of every child that failed is raised by the block.        *)
THEOREM ErrorsAreRaised == Spec => []NoErrorLost
<1>1. IInv => NoErrorLost
  BY DEF IInv
<1> QED
  BY <1>1, GroupInvariant, PTL

(* A group that aborts has cancelled every child it still waits for.       *)
THEOREM AbortIsComplete == Spec => []AbortReachesAll
<1>1. IInv => AbortReachesAll
  BY DEF IInv
<1> QED
  BY <1>1, GroupInvariant, PTL

(* The parent's cancellation requests are accounted for: the group's own   *)
(* is taken back, and one from outside is not lost.                        *)
THEOREM CancellationIsExact == Spec => [](CancelCountBalanced /\ CancelNotSwallowed)
<1>1. IInv => CancelCountBalanced /\ CancelNotSwallowed
  BY DEF IInv
<1> QED
  BY <1>1, GroupInvariant, PTL

(* The block never cancels its parent without a reason from outside.       *)
THEOREM NoCancelMadeUp == Spec => []NoStrayCancel
<1>1. IInv => NoStrayCancel
  BY DEF IInv
<1> QED
  BY <1>1, GroupInvariant, PTL
-----------------------------------------------------------------------------
(* The group implements TaskGroupContract.                                 *)

(* A step that changes the status of one child alone is a step of the      *)
(* contract or none.                                                       *)
LEMMA ChildStatus ==
  ASSUME IInv, NEW t \in Tasks, NEW s, Set(t, s)
  PROVE  ChildView' = [ChildView EXCEPT ![t] =
                         IF s \in Active THEN "active" ELSE s]
  BY DEF IInv, TypeOK, ChildView, Set

(* A child that stays active is not seen to change.                        *)
LEMMA ChildViewUnchanged ==
  ASSUME NEW t \in Tasks, ChildView[t] = "active",
         ChildView' = [ChildView EXCEPT ![t] = "active"]
  PROVE  ChildView' = ChildView
<1>1. ChildView = [u \in Tasks |-> ChildView[u]]
  BY DEF ChildView
<1>2. \A u \in Tasks : ChildView'[u] = ChildView[u]
  BY <1>1
<1>3. ChildView' = [u \in Tasks |-> ChildView'[u]]
  BY <1>1
<1> QED
  BY <1>1, <1>2, <1>3

(* The steps of a child are steps of the contract.                         *)
LEMMA ChildImplements ==
  ASSUME IInv, IInv', NEW t \in Tasks, Child(t)
  PROVE  [Contract!Next]_(Contract!vars)
<1> USE DEF Contract!Next, Contract!vars, Active, Over
<1>1. CASE Step(t)
  <2>1. state[t] \in {"new", "started"}
    BY <1>1 DEF Step, IInv, Tracked
  <2>2. ChildView[t] = "active"
    BY <2>1 DEF ChildView
  <2>3. UNCHANGED <<at, outcome>>
    BY <1>1 DEF Step, parent
  <2>4. CASE Set(t, "cancelled")
    <3>1. Contract!End(t, "cancelled")
      BY <2>2, <2>3, <2>4, ChildStatus DEF Contract!End
    <3> QED
      BY <3>1 DEF Contract!Over
  <2>5. CASE Set(t, "started")
    <3>1. ChildView' = [ChildView EXCEPT ![t] = "active"]
      BY <2>5, ChildStatus
    <3> QED
      BY <2>2, <2>3, <3>1, ChildViewUnchanged
  <2> QED
    BY <1>1, <2>4, <2>5 DEF Step
<1>2. CASE CreateRefused(t)
  <2>1. ChildView[t] = "none" /\ UNCHANGED <<at, outcome>> /\ Set(t, "refused")
    BY <1>2 DEF CreateRefused, ChildView, parent
  <2>2. Contract!Refuse(t)
    BY <2>1, ChildStatus DEF Contract!Refuse
  <2> QED
    BY <2>2
<1>3. CASE CreateLazy(t) \/ CreateEager(t)
  <2>1. ChildView[t] = "none" /\ UNCHANGED <<at, outcome>>
    BY <1>3 DEF CreateLazy, CreateEager, ChildView, parent
  <2>2. at # "after"
    BY <1>3 DEF CreateLazy, CreateEager, Refuses, IInv, NoOrphan
  <2>3. ChildView' = [ChildView EXCEPT ![t] = "active"]
    BY <1>3, ChildStatus DEF CreateLazy, CreateEager
  <2>4. Contract!Admit(t)
    BY <2>1, <2>2, <2>3 DEF Contract!Admit
  <2> QED
    BY <2>4
<1>4. CASE Suspend(t)
  <2>1. ChildView[t] = "active" /\ UNCHANGED <<at, outcome>> /\ Set(t, "started")
    BY <1>4, ChildOnTop DEF Suspend, ChildView, parent
  <2> QED
    <3>1. ChildView' = [ChildView EXCEPT ![t] = "active"]
      BY <2>1, ChildStatus
    <3> QED
      BY <2>1, <3>1, ChildViewUnchanged
<1>5. CASE OnTaskDone(t)
  BY <1>5 DEF OnTaskDone, ChildView
<1>6. ASSUME NEW how \in Over, Finish(t, how) PROVE Contract!Next
  <2>1. ChildView[t] = "active" /\ UNCHANGED <<at, outcome>> /\ Set(t, how)
    BY <1>6, ChildOnTop DEF Finish, ChildView, parent
  <2>2. Contract!End(t, how)
    BY <2>1, ChildStatus DEF Contract!End
  <2> QED
    BY <2>2 DEF Contract!Over
<1> QED
  BY <1>1, <1>2, <1>3, <1>4, <1>5, <1>6 DEF Child

(* Leaving the block is the contract's Close: nothing is left running.     *)
LEMMA AexitImplements ==
  ASSUME IInv, IInv', at \in {"body", "exit"},
         NEW prop, NEW abort, NEW pending, Aexit(prop, abort, pending)
  PROVE  [Contract!Next]_(Contract!vars)
<1>1. UNCHANGED ChildView
  BY DEF Aexit, ChildView
<1>2. CASE tasks = {}
  <2>1. /\ at' = "after" /\ state' = state
        /\ outcome' \in {"returned", "cancelled", "group"}
    BY <1>2 DEF Aexit, Conclude
  <2>2. \A t \in Tasks : state[t] \notin Active
    BY <2>1 DEF IInv, NoOrphan
  <2>3. (\E t \in Tasks : state[t] = "err") => outcome' = "group"
    BY <2>1 DEF IInv, NoErrorLost
  <2>4. \A t \in Tasks : ChildView[t] # "active" /\ (ChildView[t] = "err" => state[t] = "err")
    BY <2>2 DEF ChildView, IInv, TypeOK, Active, Over
  <2>5. Contract!Close(outcome')
    BY <1>1, <2>1, <2>3, <2>4 DEF Contract!Close
  <2> QED
    BY <2>1, <2>5 DEF Contract!Next
<1>3. CASE tasks # {}
  BY <1>1, <1>3 DEF Aexit, Contract!vars
<1> QED
  BY <1>2, <1>3

(* Every step of the group is a step of the contract, or none.             *)
LEMMA NextImplements ==
  IInv /\ IInv' /\ [Next]_vars => [Contract!Next]_(Contract!vars)
<1> SUFFICES ASSUME IInv, IInv', [Next]_vars
             PROVE  [Contract!Next]_(Contract!vars)
  OBVIOUS
<1> USE DEF Contract!vars, ChildView, loop, parent
<1>1. ASSUME NEW t \in Tasks, Child(t) PROVE [Contract!Next]_(Contract!vars)
  BY <1>1, ChildImplements
<1>2. ASSUME NEW x \in Tasks \cup {Parent}, Wake(x)
      PROVE  UNCHANGED Contract!vars
  BY <1>2 DEF Wake
<1>3. ASSUME NEW how \in Over, LeaveBody(how)
      PROVE  [Contract!Next]_(Contract!vars)
  BY <1>3, AexitImplements DEF LeaveBody
<1>4. CASE WaitStep
  BY <1>4, AexitImplements DEF WaitStep
<1>5. CASE Enter \/ BodySuspends \/ BodyStep
  BY <1>5 DEF Enter, BodySuspends, BodyStep
<1>6. CASE CancelParent \/ OutsiderRuns \/ OutsiderYields
  BY <1>6 DEF CancelParent, OutsiderRuns, OutsiderYields
<1>7. CASE UNCHANGED vars
  BY <1>7 DEF vars
<1> QED
  BY <1>1, <1>2, <1>3, <1>4, <1>5, <1>6, <1>7 DEF Next, ParentDoes

(* _FastTaskGroup keeps the contract of structured concurrency, for any    *)
(* number of children.                                                     *)
THEOREM GroupKeepsContract == Spec => KeepsContract
<1>1. Init => Contract!Init
  BY DEF Init, Contract!Init, ChildView, Active
<1> QED
  BY <1>1, NextImplements, GroupInvariant, PTL
     DEF Spec, KeepsContract, Contract!Spec

==============================================================================
