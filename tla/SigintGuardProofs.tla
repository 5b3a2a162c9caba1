--------------------------- MODULE SigintGuardProofs ---------------------------
(***************************************************************************)
(* Proofs about SigintGuard for any threads, Runners and starting handler, *)
(* any nesting of blocks and coroutines and any number of interrupts.      *)
(*                                                                         *)
(* Two parts of the inductive invariant hold for every program (TypeOK,    *)
(* Methods); the others are about a disciplined one, and lead to Chain:    *)
(* every guard of the main thread that is up holds what the guards below   *)
(* it have left, and so does the handler.                                  *)
(***************************************************************************)
EXTENDS SigintGuard, SequenceTheorems, TLAPS

-----------------------------------------------------------------------------
(* The invariant.                                                          *)

M == MainThread

\* Which methods a thread may be in, and on which guards.
Methods ==
  \A t \in Threads :
    /\ At(t, "body") => InBody(t)
    /\ doing[t].step \in {"mark", "close"} => doing[t].guard \in Runners
    /\ doing[t].step \in {"signal", "record"} => t = M
    /\ t # M => /\ frames[t] \in Seq(Runners)
                /\ ~InBody(t) => doing[t].guard \in Runners

Discipline == loose = {}

In(t, g) == \E i \in 1..Len(frames[t]) : frames[t][i] = g
Holds(t, r) == In(t, r) \/ doing[t].guard = r

\* A Runner is entered once, and serves one thread.
Apart ==
  /\ \A t, u \in Threads, r \in Runners : Holds(t, r) /\ Holds(u, r) => t = u
  /\ \A t \in Threads, r \in Runners : In(t, r) => entered[r] \/ closed[r]
  /\ \A t \in Threads : doing[t].guard \in Runners =>
       /\ doing[t].step \in {"signal", "record", "mark"} => ~closed[doing[t].guard]
       /\ doing[t].step \in {"restore", "unset"} => closed[doing[t].guard]

Entering == {"signal", "record", "mark"}
Leaving == {"close", "restore", "unset"}

\* F are the blocks of the main thread and C its coroutines, and it does step s
\* with guard g: Runners are below, and above them the run() whose coroutines
\* are nested in each other.
NestedBlocks(F, C, s, g, pop) ==
  /\ \A i, j \in 1..Len(F) : i < j => /\ F[i] # F[j]
                                      /\ F[i] \in Runs => F[j] \in Runs /\ F[i] < F[j]
  /\ \A i \in 1..Len(F) : F[i] \in Runs => \/ F[i] <= Len(C) /\ C[F[i]] = F[i]
                                           \/ s \in Leaving /\ F[i] = g
  /\ \A k \in 1..Len(C) : C[k] \in Runs => C[k] = k /\ \E i \in 1..Len(F) : F[i] = k
  /\ s \in Entering => ~pop /\ \A i \in 1..Len(F) : F[i] # g
  /\ s \in Leaving => F # <<>> /\ g = Last(F) /\ (g \in Runs => pop)
  /\ s \in Entering \cup Leaving => IF g \in Runs THEN g = Len(C) + 1 ELSE C = <<>>

Nested == NestedBlocks(frames[M], coroutine[M], doing[M].step, doing[M].guard,
                       doing[M].pop)

\* The guards that have replaced the handler, and will put it back.
Up == {k \in Guards :
         /\ installed[k]
         /\ IF k \in Runs THEN ~(At(M, "unset") /\ doing[M].guard = k)
                          ELSE ~closed[k] \/ (At(M, "restore") /\ doing[M].guard = k)}

\* No KeyboardInterrupt has struck inside of a guard.
Honest == ~cut

\* What an honest program has when no guard is up: its own handler, or what is
\* there since the exit of a guard has reported that it cannot restore that.
Own == IF reported THEN "default" ELSE wanted

\* v is what is to be found above guards of which one may be up, when w is below
\* them all.
Fits(up, v, w, honest) == IF up THEN v = "default" ELSE honest => Seen(v) = Seen(w)

\* Each guard of F that is up holds what those below have left, and v is what
\* all of F have left.
LeftBy(F, U, P, v, w, honest) ==
  /\ \A i \in 1..Len(F) : F[i] \in U =>
       Fits(\E j \in 1..(i - 1) : F[j] \in U, P[F[i]], w, honest)
  /\ Fits(\E j \in 1..Len(F) : F[j] \in U, v, w, honest)

\* The handler, or in the middle of __enter__ the one that was there before.
Left == IF At(M, "record") THEN doing[M].saved
        ELSE IF At(M, "mark") THEN prev[doing[M].guard] ELSE handler

Kept == /\ \A i \in 1..Len(frames[M]) :
             frames[M][i] \in Runs \/ ~closed[frames[M][i]] => installed[frames[M][i]]
        /\ At(M, "mark") => installed[doing[M].guard]
        /\ At(M, "record") \/ At(M, "mark") => handler = "default"

Chain == /\ Kept
         /\ LeftBy(frames[M], Up, prev, Left, Own, Honest)
         /\ Honest /\ reported => wanted = "foreign"

IInv == /\ TypeOK /\ Methods
        /\ Discipline => Apart /\ Nested /\ Chain

-----------------------------------------------------------------------------
(* Sequences, and what the steps of a method do to `doing`.                *)

LEMMA NamesApart == /\ Runners \cap Runs = {} /\ 1 \in Guards /\ 0 \notin Runners
                    /\ Runs \subseteq Guards /\ Runners \subseteq Guards
                    /\ Runs \subseteq Nat
  BY GuardAssumption DEF Runs, Guards

LEMMA FrontIs ==
  ASSUME NEW S, NEW s \in Seq(S)
  PROVE  /\ Front(s) \in Seq(S) /\ Len(s) \in Nat
         /\ s # <<>> => /\ Len(s) > 0
                        /\ Len(Front(s)) = Len(s) - 1
                        /\ \A i \in 1..(Len(s) - 1) : Front(s)[i] = s[i]
                        /\ Last(s) \in S /\ Last(s) = s[Len(s)]
<1>1. Len(s) \in Nat /\ (s # <<>> => Len(s) > 0)
  BY EmptySeq
<1>2. 1 \in Int /\ Len(s) - 1 \in Int /\ \A i \in 1..(Len(s) - 1) : s[i] \in S
  BY <1>1, ElementOfSeq
<1> DEFINE n == Len(s) - 1
<1>5. Front(s) = SubSeq(s, 1, n)
  BY DEF Front
<1> HIDE DEF n
<1>6. /\ SubSeq(s, 1, n) \in Seq(S)
      /\ Len(SubSeq(s, 1, n)) = IF 1 <= n THEN n - 1 + 1 ELSE 0
      /\ \A i \in 1..(n - 1 + 1) : SubSeq(s, 1, n)[i] = s[1 + i - 1]
  BY <1>2, SubSeqProperties DEF n
<1>3. /\ Front(s) \in Seq(S)
      /\ s # <<>> => Len(Front(s)) = n
      /\ \A i \in 1..n : Front(s)[i] = s[i]
  <2>1. n \in Int /\ (s # <<>> => n >= 0)
    BY <1>1 DEF n
  <2>2. s # <<>> => Len(Front(s)) = n
    BY <1>5, <1>6, <2>1
  <2>3. \A i \in 1..n : i \in 1..(n - 1 + 1) /\ 1 + i - 1 = i
    BY <2>1
  <2>4. \A i \in 1..n : Front(s)[i] = s[i]
    BY <1>5, <1>6, <2>3
  <2> QED
    BY <1>5, <1>6, <2>2, <2>4
<1>4. s # <<>> => Last(s) \in S
  BY <1>1, ElementOfSeq DEF Last
<1> QED
  BY <1>1, <1>3, <1>4 DEF Last, n

LEMMA AppendIs ==
  ASSUME NEW S, NEW s \in Seq(S), NEW e \in S
  PROVE  /\ Append(s, e) \in Seq(S)
         /\ Len(s) \in Nat /\ Len(Append(s, e)) = Len(s) + 1
         /\ \A i \in 1..Len(s) : Append(s, e)[i] = s[i]
         /\ Append(s, e)[Len(s) + 1] = e
  BY AppendProperties

Steps == {"body", "signal", "record", "mark", "close", "restore", "unset"}
Found == {"None", "default", "custom"}
Places == [step: Steps, guard: Guards, saved: Found, pop: BOOLEAN]

LEMMA BodyIs == /\ Body \in Places
                /\ Body.step = "body" /\ Body.guard = 1 /\ ~Body.pop
  BY NamesApart DEF Body, Places, Steps, Found

LEMMA PlaceIs ==
  ASSUME NEW p \in Places
  PROVE  p.step \in Steps /\ p.guard \in Guards /\ p.saved \in Found /\ p.pop \in BOOLEAN
  BY DEF Places

LEMMA DoneIs ==
  ASSUME NEW t \in Threads, doing \in [Threads -> Places],
         doing' = [doing EXCEPT ![t] = Body]
  PROVE  /\ doing' \in [Threads -> Places]
         /\ doing'[t] = Body
         /\ \A u \in Threads \ {t} : doing'[u] = doing[u]
  BY BodyIs

LEMMA CallIs ==
  ASSUME NEW t \in Threads, doing \in [Threads -> Places],
         NEW s \in Steps, NEW g \in Guards, NEW pop \in BOOLEAN, Call(t, s, g, pop)
  PROVE  /\ doing' \in [Threads -> Places]
         /\ doing'[t].step = s /\ doing'[t].guard = g /\ doing'[t].pop = pop
         /\ \A u \in Threads \ {t} : doing'[u] = doing[u]
<1> DEFINE p == [Body EXCEPT !.step = s, !.guard = g, !.pop = pop]
<1>1. p \in Places /\ p.step = s /\ p.guard = g /\ p.pop = pop
  BY NamesApart DEF Body, Places, Steps, Found
<1>2. doing' = [doing EXCEPT ![t] = p]
  BY DEF Call
<1> HIDE DEF p
<1> QED
  BY <1>1, <1>2

LEMMA GotoIs ==
  ASSUME NEW t \in Threads, doing \in [Threads -> Places], NEW s \in Steps,
         Goto(t, s)
  PROVE  /\ doing' \in [Threads -> Places]
         /\ doing'[t].step = s /\ doing'[t].guard = doing[t].guard
         /\ doing'[t].pop = doing[t].pop
         /\ \A u \in Threads \ {t} : doing'[u] = doing[u]
<1> DEFINE p == [doing[t] EXCEPT !.step = s]
<1>1. doing[t] \in Places
  OBVIOUS
<1>2. /\ p \in Places /\ p.step = s
      /\ p.guard = doing[t].guard /\ p.pop = doing[t].pop
  BY <1>1 DEF Places
<1>3. doing' = [doing EXCEPT ![t] = p]
  BY DEF Goto
<1> HIDE DEF p
<1> QED
  BY <1>2, <1>3

LEMMA SwapIs ==
  ASSUME NEW t \in Threads, doing \in [Threads -> Places], handler \in Handlers,
         doing' = [doing EXCEPT ![t].step = "record", ![t].saved = Seen(handler)]
  PROVE  /\ doing' \in [Threads -> Places]
         /\ doing'[t].step = "record" /\ doing'[t].guard = doing[t].guard
         /\ doing'[t].pop = doing[t].pop /\ doing'[t].saved = Seen(handler)
         /\ \A u \in Threads \ {t} : doing'[u] = doing[u]
<1> DEFINE p == [doing[t] EXCEPT !.step = "record", !.saved = Seen(handler)]
<1>1. doing[t] \in Places
  OBVIOUS
<1>2. Seen(handler) \in Found
  BY DEF Seen, Handlers, Found
<1>3. /\ p \in Places /\ p.step = "record" /\ p.saved = Seen(handler)
      /\ p.guard = doing[t].guard /\ p.pop = doing[t].pop
  BY <1>1, <1>2 DEF Places, Steps
<1>4. doing' = [doing EXCEPT ![t] = p]
  OBVIOUS
<1> HIDE DEF p
<1> QED
  BY <1>3, <1>4

LEMMA EntersIs ==
  ASSUME NEW t \in Threads, NEW g \in Guards, Enters(t, g),
         frames \in [Threads -> Seq(Guards)], doing \in [Threads -> Places]
  PROVE  /\ frames' \in [Threads -> Seq(Guards)]
         /\ frames'[t] = Append(frames[t], g)
         /\ \A u \in Threads \ {t} : frames'[u] = frames[u] /\ doing'[u] = doing[u]
         /\ doing' \in [Threads -> Places] /\ doing'[t] = Body
<1>1. Append(frames[t], g) \in Seq(Guards)
  BY AppendIs
<1>2. frames' = [frames EXCEPT ![t] = Append(frames[t], g)]
  BY DEF Enters
<1> QED
  BY <1>1, <1>2, DoneIs DEF Enters

LEMMA LeavesIs ==
  ASSUME NEW t \in Threads, Done(t),
         frames \in [Threads -> Seq(Guards)], doing \in [Threads -> Places]
  PROVE  /\ frames' \in [Threads -> Seq(Guards)]
         /\ frames'[t] = IF doing[t].pop THEN Front(frames[t]) ELSE frames[t]
         /\ \A u \in Threads \ {t} : frames'[u] = frames[u] /\ doing'[u] = doing[u]
         /\ doing' \in [Threads -> Places] /\ doing'[t] = Body
<1>1. Front(frames[t]) \in Seq(Guards)
  BY FrontIs
<1>2. frames' = IF doing[t].pop THEN [frames EXCEPT ![t] = Front(frames[t])] ELSE frames
  BY DEF Done
<1> QED
  BY <1>1, <1>2, DoneIs DEF Done

LEMMA BeginsIs ==
  ASSUME NEW t \in Threads, NEW g \in Guards, Begins(t, g),
         coroutine \in [Threads -> Seq(Guards)]
  PROVE  /\ coroutine' \in [Threads -> Seq(Guards)]
         /\ coroutine'[t] = Append(coroutine[t], g)
         /\ \A u \in Threads \ {t} : coroutine'[u] = coroutine[u]
<1>1. Append(coroutine[t], g) \in Seq(Guards)
  BY AppendIs
<1>2. coroutine' = [coroutine EXCEPT ![t] = Append(coroutine[t], g)]
  BY DEF Begins
<1> QED
  BY <1>1, <1>2

LEMMA EndsIs ==
  ASSUME NEW t \in Threads, Ends(t), coroutine[t] # <<>>,
         coroutine \in [Threads -> Seq(Guards)], doing \in [Threads -> Places]
  PROVE  /\ coroutine' \in [Threads -> Seq(Guards)]
         /\ coroutine'[t] = Front(coroutine[t])
         /\ \A u \in Threads \ {t} : coroutine'[u] = coroutine[u] /\ doing'[u] = doing[u]
         /\ doing' \in [Threads -> Places]
         /\ IF t = M /\ Last(coroutine[t]) \in Runs
            THEN /\ doing'[t].step = "restore" /\ doing'[t].pop
                 /\ doing'[t].guard = Last(coroutine[t])
            ELSE doing' = doing
<1>1. Front(coroutine[t]) \in Seq(Guards) /\ Last(coroutine[t]) \in Guards
  BY FrontIs
<1>2. coroutine' = [coroutine EXCEPT ![t] = Front(coroutine[t])]
  BY DEF Ends
<1>3. CASE t = M /\ Last(coroutine[t]) \in Runs
  <2>1. Call(t, "restore", Last(coroutine[t]), TRUE)
    BY <1>3 DEF Ends, M
  <2>2. "restore" \in Steps
    BY DEF Steps
  <2> QED
    BY <1>1, <1>2, <1>3, <2>1, <2>2, CallIs
<1>4. CASE ~(t = M /\ Last(coroutine[t]) \in Runs)
  BY <1>1, <1>2, <1>4 DEF Ends, M
<1> QED
  BY <1>3, <1>4

-----------------------------------------------------------------------------
(* What holds for every program.                                           *)

RestOK ==
  /\ loose \subseteq Runners
  /\ handler \in Handlers
  /\ wanted \in Handlers
  /\ prev \in [Guards -> Found]
  /\ installed \in [Guards -> BOOLEAN]
  /\ entered \in [Runners -> BOOLEAN]
  /\ closed \in [Runners -> BOOLEAN]
  /\ cut \in BOOLEAN /\ reported \in BOOLEAN
  /\ interrupts \in 0..MaxInterrupts
  /\ sets \in 0..MaxSets

ThreadsOK ==
  /\ frames \in [Threads -> Seq(Guards)]
  /\ doing \in [Threads -> Places]
  /\ coroutine \in [Threads -> Seq(Guards)]

LEMMA TypeIs == TypeOK <=> RestOK /\ ThreadsOK
  BY DEF TypeOK, RestOK, ThreadsOK, Places, Steps, Found

Base == RestOK /\ ThreadsOK /\ Methods

LEMMA InitBase == Init => Base
<1> SUFFICES ASSUME Init PROVE Base
  OBVIOUS
<1>1. \A S : <<>> \in Seq(S)
  BY EmptySeq
<1>2. RestOK
  <2>1. loose \subseteq Runners /\ handler \in Handlers /\ wanted \in Handlers
    BY GuardAssumption DEF Init
  <2>2. /\ prev \in [Guards -> Found] /\ installed \in [Guards -> BOOLEAN]
        /\ entered \in [Runners -> BOOLEAN] /\ closed \in [Runners -> BOOLEAN]
    BY DEF Init, NewGuards, NewRunners, Found
  <2>3. 0 \in 0..MaxInterrupts /\ 0 \in 0..MaxSets
    BY GuardAssumption
  <2>4. /\ cut \in BOOLEAN /\ reported \in BOOLEAN
        /\ interrupts \in 0..MaxInterrupts /\ sets \in 0..MaxSets
    BY <2>3 DEF Init
  <2> QED
    BY <2>1, <2>2, <2>4 DEF RestOK
<1>3. ThreadsOK
  BY <1>1, BodyIs DEF Init, ThreadsOK
<1>4. Methods
  BY <1>1, BodyIs DEF Init, Methods, At, InBody
<1> QED
  BY <1>2, <1>3, <1>4 DEF Base

\* Only t has moved, and where it is now is in order.
LEMMA MethodsStay ==
  ASSUME Methods, NEW t \in Threads,
         \A u \in Threads \ {t} : doing'[u] = doing[u] /\ frames'[u] = frames[u],
         doing'[t].step = "body" => doing'[t] = Body,
         doing'[t].step \in {"mark", "close"} => doing'[t].guard \in Runners,
         doing'[t].step \in {"signal", "record"} => t = M,
         t # M => /\ frames'[t] \in Seq(Runners)
                  /\ doing'[t] # Body => doing'[t].guard \in Runners
  PROVE  Methods'
  BY DEF Methods, At, InBody, M

LEMMA CallRunBase ==
  ASSUME Base, NEW t \in Threads, CallRun(t) PROVE Base'
<1> DEFINE g == Len(coroutine[t]) + 1
<1> USE DEF Base
<1>1. coroutine[t] \in Seq(Guards) /\ Len(coroutine[t]) \in Nat
  BY LenProperties DEF ThreadsOK
<1>2. g \in Guards
  BY <1>1, GuardAssumption DEF CallRun, MayRun, Guards, Runs
<1>3. CASE t = M
  <2>1. /\ Call(t, "signal", g, FALSE) /\ UNCHANGED <<coroutine, frames>>
        /\ prev' = [prev EXCEPT ![g] = "None"]
        /\ installed' = [installed EXCEPT ![g] = FALSE]
    BY <1>3 DEF CallRun, M
  <2>2. /\ doing' \in [Threads -> Places]
        /\ doing'[t].step = "signal"
        /\ \A u \in Threads \ {t} : doing'[u] = doing[u]
    BY <1>2, <2>1, CallIs DEF ThreadsOK, Steps
  <2>3. Methods'
    BY <1>3, <2>1, <2>2, MethodsStay
  <2>4. RestOK'
    BY <1>2, <2>1 DEF CallRun, RestOK, Found
  <2> QED
    BY <2>1, <2>2, <2>3, <2>4 DEF ThreadsOK
<1>4. CASE t # M
  <2>1. Begins(t, g) /\ UNCHANGED <<doing, frames, prev, installed>>
    BY <1>4 DEF CallRun, M
  <2>2. coroutine' \in [Threads -> Seq(Guards)]
    BY <1>2, <2>1, BeginsIs DEF ThreadsOK
  <2> QED
    BY <2>1, <2>2 DEF CallRun, RestOK, ThreadsOK, Methods, At, InBody
<1> QED
  BY <1>3, <1>4

(* Whatever method t leaves.                                               *)
LEMMA DoneBase ==
  ASSUME Base, NEW t \in Threads, Done(t), UNCHANGED coroutine, RestOK'
  PROVE  Base'
<1> USE DEF Base
<1>1. /\ frames' \in [Threads -> Seq(Guards)]
      /\ frames'[t] = IF doing[t].pop THEN Front(frames[t]) ELSE frames[t]
      /\ \A u \in Threads \ {t} : frames'[u] = frames[u] /\ doing'[u] = doing[u]
      /\ doing' \in [Threads -> Places] /\ doing'[t] = Body
  BY LeavesIs DEF ThreadsOK
<1>2. t # M => frames'[t] \in Seq(Runners)
  <2>1. t # M => frames[t] \in Seq(Runners)
    BY DEF Methods
  <2>2. t # M => Front(frames[t]) \in Seq(Runners)
    BY <2>1, FrontIs
  <2> QED
    BY <1>1, <2>1, <2>2
<1>3. Methods'
  BY <1>1, <1>2, MethodsStay, BodyIs
<1> QED
  BY <1>1, <1>3 DEF ThreadsOK

LEMMA EntersBase ==
  ASSUME Base, NEW t \in Threads,
         \/ \E r \in Runners : RunnerEnter(t, r)
         \/ Swap(t) \/ Record(t) \/ Mark(t)
  PROVE  Base'
<1> USE DEF Base
<1>0. /\ doing[t] \in Places /\ doing \in [Threads -> Places]
      /\ frames \in [Threads -> Seq(Guards)] /\ coroutine \in [Threads -> Seq(Guards)]
      /\ doing[t].guard \in Guards /\ doing[t].saved \in Found
  BY PlaceIs DEF ThreadsOK
<1>1. ASSUME NEW r \in Runners, RunnerEnter(t, r) PROVE Base'
  <2> DEFINE s == IF t = M THEN "signal" ELSE "mark"
  <2>1. Call(t, s, r, FALSE) /\ UNCHANGED <<frames, coroutine>>
    BY <1>1 DEF RunnerEnter, M
  <2>2. s \in Steps /\ r \in Guards
    BY NamesApart DEF Steps
  <2>3. /\ doing' \in [Threads -> Places]
        /\ doing'[t].step = s /\ doing'[t].guard = r
        /\ \A u \in Threads \ {t} : doing'[u] = doing[u]
    BY <1>0, <2>1, <2>2, CallIs
  <2>4. Methods'
    BY <2>1, <2>3, MethodsStay DEF Methods
  <2> QED
    BY <1>1, <2>1, <2>3, <2>4 DEF RunnerEnter, RestOK, ThreadsOK
<1>2. CASE Swap(t)
  <2>1. /\ doing' = [doing EXCEPT ![t].step = "record", ![t].saved = Seen(handler)]
        /\ handler \in Handlers /\ UNCHANGED <<frames, coroutine>>
        /\ t = M
    BY <1>2 DEF Swap, RestOK, Methods, At, M
  <2>2. /\ doing' \in [Threads -> Places]
        /\ doing'[t].step = "record"
        /\ \A u \in Threads \ {t} : doing'[u] = doing[u]
    BY <1>0, <2>1, SwapIs
  <2>3. Methods'
    BY <2>1, <2>2, MethodsStay
  <2> QED
    BY <1>2, <2>1, <2>2, <2>3 DEF Swap, RestOK, ThreadsOK, Handlers, M
<1>3. CASE Record(t)
  <2> DEFINE g == doing[t].guard
  <2>1. /\ t = M
        /\ prev' = [prev EXCEPT ![g] = doing[t].saved]
        /\ installed' = [installed EXCEPT ![g] = TRUE]
    BY <1>3 DEF Record, Methods, At
  <2>2. RestOK'
    BY <1>0, <1>3, <2>1 DEF Record, RestOK
  <2>3. CASE g \in Runs
    <3>1. Enters(t, g) /\ Begins(t, g)
      BY <1>3, <2>3 DEF Record
    <3>2. ThreadsOK' /\ Methods'
      BY <1>0, <2>1, <3>1, EntersIs, BeginsIs, MethodsStay, BodyIs DEF ThreadsOK
    <3> QED
      BY <2>2, <3>2
  <2>4. CASE g \notin Runs
    <3>1. Goto(t, "mark") /\ UNCHANGED <<frames, coroutine>>
      BY <1>3, <2>4 DEF Record
    <3>2. /\ doing' \in [Threads -> Places]
          /\ doing'[t].step = "mark" /\ doing'[t].guard = g
          /\ \A u \in Threads \ {t} : doing'[u] = doing[u]
      BY <1>0, <3>1, GotoIs DEF Steps
    <3>3. g \in Runners
      BY <1>0, <2>4 DEF Guards
    <3>4. Methods'
      BY <2>1, <3>1, <3>2, <3>3, MethodsStay
    <3> QED
      BY <1>0, <2>2, <3>1, <3>2, <3>4 DEF ThreadsOK
  <2> QED
    BY <2>3, <2>4
<1>4. CASE Mark(t)
  <2> DEFINE g == doing[t].guard
  <2>1. Enters(t, g) /\ UNCHANGED coroutine /\ g \in Runners
    BY <1>4 DEF Mark, Methods, At
  <2>2. /\ frames' \in [Threads -> Seq(Guards)]
        /\ frames'[t] = Append(frames[t], g)
        /\ \A u \in Threads \ {t} : frames'[u] = frames[u] /\ doing'[u] = doing[u]
        /\ doing' \in [Threads -> Places] /\ doing'[t] = Body
    BY <1>0, <2>1, EntersIs
  <2>3. t # M => frames'[t] \in Seq(Runners)
    BY <2>1, <2>2, AppendIs DEF Methods
  <2>4. Methods'
    BY <2>2, <2>3, MethodsStay, BodyIs
  <2>5. RestOK'
    BY <1>4, <2>1 DEF Mark, RestOK
  <2> QED
    BY <1>0, <2>1, <2>2, <2>4, <2>5 DEF ThreadsOK
<1> QED
  BY <1>1, <1>2, <1>3, <1>4

LEMMA LeavesBase ==
  ASSUME Base, NEW t \in Threads,
         \/ \E r \in Runners : RunnerRun(t, r) \/ CallClose(t, r)
         \/ CoroutineEnds(t) \/ Close(t)
  PROVE  Base'
<1> USE DEF Base
<1>0. /\ doing[t] \in Places /\ doing \in [Threads -> Places]
      /\ frames \in [Threads -> Seq(Guards)] /\ coroutine \in [Threads -> Seq(Guards)]
      /\ doing[t].guard \in Guards /\ Runners \subseteq Guards
  BY PlaceIs, NamesApart DEF ThreadsOK
<1>1. ASSUME NEW r \in Runners, RunnerRun(t, r) PROVE Base'
  <2>1. Begins(t, r) /\ UNCHANGED <<doing, frames>>
    BY <1>1 DEF RunnerRun
  <2>2. coroutine' \in [Threads -> Seq(Guards)]
    BY <1>0, <2>1, BeginsIs
  <2> QED
    BY <1>1, <2>1, <2>2 DEF RunnerRun, RestOK, ThreadsOK, Methods, At, InBody
<1>2. ASSUME NEW r \in Runners, CallClose(t, r) PROVE Base'
  <2>1. PICK pop \in BOOLEAN : Call(t, "close", r, pop)
    BY <1>2 DEF CallClose
  <2>2. /\ doing' \in [Threads -> Places]
        /\ doing'[t].step = "close" /\ doing'[t].guard = r
        /\ \A u \in Threads \ {t} : doing'[u] = doing[u]
    BY <1>0, <2>1, CallIs DEF Steps
  <2>3. UNCHANGED <<frames, coroutine>>
    BY <1>2 DEF CallClose
  <2>4. Methods'
    BY <2>2, <2>3, MethodsStay DEF Methods
  <2> QED
    BY <1>2, <2>2, <2>3, <2>4 DEF CallClose, RestOK, ThreadsOK
<1>3. CASE CoroutineEnds(t)
  <2>1. Ends(t) /\ coroutine[t] # <<>> /\ UNCHANGED frames
    BY <1>3 DEF CoroutineEnds
  <2>2. /\ coroutine' \in [Threads -> Seq(Guards)] /\ doing' \in [Threads -> Places]
        /\ \A u \in Threads \ {t} : doing'[u] = doing[u]
        /\ IF t = M /\ Last(coroutine[t]) \in Runs
           THEN doing'[t].step = "restore"
           ELSE doing' = doing
    BY <1>0, <2>1, EndsIs
  <2>3. Methods'
    BY <2>1, <2>2, MethodsStay DEF Methods, At, InBody
  <2> QED
    BY <1>3, <2>1, <2>2, <2>3 DEF CoroutineEnds, RestOK, ThreadsOK
<1>4. CASE Close(t)
  <2> DEFINE r == doing[t].guard
  <2>1. r \in Runners /\ closed' = [closed EXCEPT ![r] = TRUE] /\ UNCHANGED coroutine
    BY <1>4 DEF Close, Methods, At
  <2>2. RestOK'
    BY <1>4, <2>1 DEF Close, RestOK
  <2>3. CASE Goto(t, "restore") /\ UNCHANGED frames
    <3>1. /\ doing' \in [Threads -> Places]
          /\ doing'[t].step = "restore" /\ doing'[t].guard = r
          /\ \A u \in Threads \ {t} : doing'[u] = doing[u]
      BY <1>0, <2>3, GotoIs DEF Steps
    <3>2. Methods'
      BY <2>1, <2>3, <3>1, MethodsStay DEF Methods
    <3> QED
      BY <1>0, <2>1, <2>2, <2>3, <3>1, <3>2 DEF ThreadsOK
  <2>4. CASE Done(t)
    BY <1>0, <2>1, <2>2, <2>4, DoneBase
  <2> QED
    BY <1>4, <2>3, <2>4 DEF Close
<1> QED
  BY <1>1, <1>2, <1>3, <1>4

LEMMA DownBase ==
  ASSUME Base, NEW t \in Threads, NothingToRestore(t) \/ Restore(t) \/ Unset(t)
  PROVE  Base'
<1> DEFINE g == doing[t].guard
<1> USE DEF Base
<1>0. /\ doing[t] \in Places /\ doing \in [Threads -> Places]
      /\ frames \in [Threads -> Seq(Guards)] /\ coroutine \in [Threads -> Seq(Guards)]
      /\ g \in Guards /\ UNCHANGED coroutine
      /\ t # M => g \in Runners
  <2>1. doing[t].step # "body"
    BY DEF NothingToRestore, Restore, Unset, At
  <2> QED
    BY <2>1, PlaceIs, BodyIs DEF ThreadsOK, NothingToRestore, Restore, Unset, Methods,
                              InBody
<1>1. ASSUME Down(g),
             UNCHANGED <<loose, handler, wanted, closed, cut, reported, interrupts, sets>>
      PROVE  RestOK'
  <2>1. g \notin Runs => g \in Runners
    BY <1>0 DEF Guards
  <2> QED
    BY <1>0, <1>1, <2>1 DEF Down, RestOK, Found
<1>2. CASE NothingToRestore(t) \/ Unset(t)
  <2>1. Done(t) /\ Down(g)
        /\ UNCHANGED <<loose, handler, wanted, closed, cut, reported, interrupts, sets>>
    BY <1>2 DEF NothingToRestore, Unset
  <2> QED
    BY <1>0, <1>1, <2>1, DoneBase
<1>3. CASE Restore(t)
  <2>1. RestOK'
    BY <1>0, <1>3 DEF Restore, RestOK, Found, Handlers
  <2>2. CASE Goto(t, "unset") /\ UNCHANGED frames
    <3>1. /\ doing' \in [Threads -> Places]
          /\ doing'[t].step = "unset" /\ doing'[t].guard = g
          /\ \A u \in Threads \ {t} : doing'[u] = doing[u]
      BY <1>0, <2>2, GotoIs DEF Steps
    <3>2. Methods'
      BY <1>0, <2>2, <3>1, MethodsStay DEF Methods
    <3> QED
      BY <1>0, <2>1, <2>2, <3>1, <3>2 DEF ThreadsOK
  <2>3. CASE Done(t)
    BY <1>0, <2>1, <2>3, DoneBase
  <2> QED
    BY <1>3, <2>2, <2>3 DEF Restore
<1> QED
  BY <1>2, <1>3

LEMMA OutsideBase ==
  ASSUME Base, Interrupt \/ \E h \in {"default", "custom"} : AppSets(h)
  PROVE  Base'
<1> USE DEF Base
<1>0. /\ doing[M] \in Places /\ doing \in [Threads -> Places] /\ M \in Threads
      /\ frames \in [Threads -> Seq(Guards)] /\ coroutine \in [Threads -> Seq(Guards)]
  BY PlaceIs, GuardAssumption DEF ThreadsOK, M
<1>1. ASSUME NEW h \in {"default", "custom"}, AppSets(h) PROVE Base'
  <2>1. RestOK'
    <3>1. sets' \in 0..MaxSets
      BY <1>1, GuardAssumption DEF AppSets, RestOK
    <3> QED
      BY <1>1, <3>1 DEF AppSets, RestOK, Handlers
  <2> QED
    BY <1>1, <2>1 DEF AppSets, ThreadsOK, Methods, At, InBody
<1>2. CASE Interrupt
  <2>1. RestOK'
    <3>2. interrupts \in 0..MaxInterrupts /\ cut \in BOOLEAN
      BY DEF RestOK
    <3>3. cut' \in BOOLEAN
      BY <1>2, <3>2 DEF Interrupt
    <3>1. interrupts' \in 0..MaxInterrupts /\ cut' \in BOOLEAN
      BY <1>2, <3>2, <3>3, GuardAssumption DEF Interrupt
    <3> QED
      BY <1>2, <3>1 DEF Interrupt, RestOK
  <2>2. CASE Ends(M) /\ coroutine[M] # <<>> /\ InBody(M) /\ UNCHANGED frames
    <3>1. /\ coroutine' \in [Threads -> Seq(Guards)] /\ doing' \in [Threads -> Places]
          /\ \A u \in Threads \ {M} : doing'[u] = doing[u]
          /\ IF Last(coroutine[M]) \in Runs
             THEN doing'[M].step = "restore"
             ELSE doing' = doing
      BY <1>0, <2>2, EndsIs
    <3>2. Methods'
      BY <1>0, <2>2, <3>1, MethodsStay DEF Methods, At, InBody
    <3> QED
      BY <2>1, <2>2, <3>1, <3>2 DEF ThreadsOK
  <2>3. CASE Done(M) /\ UNCHANGED coroutine
    BY <1>0, <2>1, <2>3, DoneBase
  <2> QED
    BY <1>2, <2>2, <2>3 DEF Interrupt, M
<1> QED
  BY <1>1, <1>2

LEMMA NextBase == Base /\ [Next]_vars => Base'
<1> SUFFICES ASSUME Base, [Next]_vars PROVE Base'
  OBVIOUS
<1>1. CASE UNCHANGED vars
  BY <1>1 DEF vars, Base, RestOK, ThreadsOK, Methods, At, InBody
<1>2. CASE Next
  BY <1>2, CallRunBase, EntersBase, LeavesBase, DownBase, OutsideBase DEF Next
<1> QED
  BY <1>1, <1>2

-----------------------------------------------------------------------------
(* A Runner of a disciplined program serves one thread, once.              *)

LEMMA InAppend ==
  ASSUME NEW t \in Threads, NEW g \in Guards, frames[t] \in Seq(Guards),
         frames'[t] = Append(frames[t], g), NEW r
  PROVE  In(t, r)' <=> In(t, r) \/ r = g
  BY AppendIs DEF In

LEMMA InFront ==
  ASSUME NEW t \in Threads, frames[t] \in Seq(Guards),
         frames'[t] \in {frames[t], Front(frames[t])}, NEW r, In(t, r)'
  PROVE  In(t, r)
<1>1. CASE frames'[t] = frames[t]
  BY <1>1 DEF In
<1>2. CASE frames'[t] = Front(frames[t])
  <2>1. CASE frames[t] = <<>>
    <3>1. Front(frames[t]) = <<>>
      BY <2>1, SubSeqEmpty, EmptySeq DEF Front
    <3> QED
      BY <1>2, <2>1, <3>1 DEF In
  <2>2. CASE frames[t] # <<>>
    <3>1. /\ Len(Front(frames[t])) = Len(frames[t]) - 1 /\ Len(frames[t]) \in Nat
          /\ \A i \in 1..(Len(frames[t]) - 1) : Front(frames[t])[i] = frames[t][i]
      BY <2>2, FrontIs
    <3>2. PICK i \in 1..(Len(frames[t]) - 1) : Front(frames[t])[i] = r
      BY <1>2, <3>1 DEF In
    <3> QED
      BY <3>1, <3>2 DEF In
  <2> QED
    BY <2>1, <2>2
<1> QED
  BY <1>1, <1>2

LEMMA TopIs ==
  ASSUME Base, NEW t \in Threads, NEW r \in Runners, Top(t) = r
  PROVE  frames[t] # <<>> /\ r = Last(frames[t]) /\ In(t, r)
<1>1. frames[t] # <<>> /\ r = Last(frames[t])
  BY NamesApart DEF Top
<1>2. frames[t] \in Seq(Guards)
  BY DEF Base, ThreadsOK
<1>5. /\ Len(frames[t]) \in Nat /\ Len(frames[t]) > 0
      /\ Last(frames[t]) = frames[t][Len(frames[t])]
  BY <1>1, <1>2, FrontIs
<1>3. Len(frames[t]) \in 1..Len(frames[t]) /\ r = frames[t][Len(frames[t])]
  BY <1>1, <1>5
<1>4. In(t, r)
  BY <1>3 DEF In
<1> QED
  BY <1>1, <1>4

(* Thread t lays hold of a Runner only if it is free, and changes none that*)
(* it does not hold.                                                       *)
LEMMA ApartStays ==
  ASSUME Apart, NEW t \in Threads,
         \A u \in Threads \ {t} : doing'[u] = doing[u] /\ frames'[u] = frames[u],
         \A r \in Runners : Holds(t, r)' => Holds(t, r) \/ \A u \in Threads : ~Holds(u, r),
         \A r \in Runners : ~Holds(t, r) => closed'[r] = closed[r] /\ entered'[r] = entered[r],
         \A r \in Runners : In(t, r)' => entered'[r] \/ closed'[r],
         doing'[t].guard \in Runners =>
           /\ doing'[t].step \in {"signal", "record", "mark"} => ~closed'[doing'[t].guard]
           /\ doing'[t].step \in {"restore", "unset"} => closed'[doing'[t].guard]
  PROVE  Apart'
<1>5. ASSUME NEW u \in Threads, NEW r \in Runners, Holds(t, r)', Holds(u, r)', u # t
      PROVE  FALSE
  <2>1. Holds(u, r)
    BY <1>5 DEF Holds, In
  <2>2. Holds(t, r)
    BY <1>5, <2>1
  <2> QED
    BY <1>5, <2>1, <2>2 DEF Apart
<1>2. ASSUME NEW u \in Threads, NEW v \in Threads, NEW r \in Runners,
             Holds(u, r)', Holds(v, r)'
      PROVE  u = v
  <2>1. CASE u # t /\ v # t
    <3>1. Holds(u, r) /\ Holds(v, r)
      BY <1>2, <2>1 DEF Holds, In
    <3> QED
      BY <3>1 DEF Apart
  <2>2. CASE u = t \/ v = t
    BY <1>2, <1>5, <2>2
  <2> QED
    BY <2>1, <2>2
<1>3. ASSUME NEW u \in Threads, NEW r \in Runners, In(u, r)'
      PROVE  entered'[r] \/ closed'[r]
  <2>1. CASE u # t
    <3>1. In(u, r)
      BY <1>3, <2>1 DEF In
    <3>2. Holds(u, r)
      BY <3>1 DEF Holds
    <3>3. ~Holds(t, r)
      BY <2>1, <3>2 DEF Apart
    <3> QED
      BY <3>1, <3>3 DEF Apart
  <2> QED
    BY <1>3, <2>1
<1>4. ASSUME NEW u \in Threads \ {t}, doing'[u].guard \in Runners
      PROVE  /\ doing'[u].step \in {"signal", "record", "mark"} => ~closed'[doing'[u].guard]
             /\ doing'[u].step \in {"restore", "unset"} => closed'[doing'[u].guard]
  <2>1. Holds(u, doing[u].guard) /\ doing'[u] = doing[u]
    BY <1>4 DEF Holds
  <2>2. ~Holds(t, doing[u].guard)
    BY <1>4, <2>1 DEF Apart
  <2> QED
    BY <1>4, <2>1, <2>2 DEF Apart
<1> QED
  BY <1>2, <1>3, <1>4 DEF Apart

LEMMA BodyFree == Body.guard \notin Runners
  BY BodyIs, GuardAssumption

LEMMA InitApart == Init => Apart
<1> SUFFICES ASSUME Init PROVE Apart
  OBVIOUS
<1>1. \A t \in Threads, r \in Runners : ~In(t, r)
  BY EmptySeq DEF Init, In
<1>2. \A t \in Threads : doing[t] = Body
  BY DEF Init
<1>3. \A t \in Threads : doing[t].guard \notin Runners
  BY <1>2, BodyFree
<1> QED
  BY <1>1, <1>3 DEF Apart, Holds

(* Whatever t leaves, it lays hold of nothing.                             *)
LEMMA DoneApart ==
  ASSUME Base, Apart, NEW t \in Threads, Done(t),
         \A r \in Runners : ~Holds(t, r) => closed'[r] = closed[r] /\ entered'[r] = entered[r],
         \A r \in Runners : In(t, r) => entered'[r] \/ closed'[r]
  PROVE  Apart'
<1>1. /\ frames'[t] \in {frames[t], Front(frames[t])}
      /\ \A u \in Threads \ {t} : frames'[u] = frames[u] /\ doing'[u] = doing[u]
      /\ doing'[t] = Body /\ frames[t] \in Seq(Guards)
  BY LeavesIs DEF Base, ThreadsOK
<1>2. \A r \in Runners : In(t, r)' => In(t, r)
  BY <1>1, InFront
<1>3. \A r \in Runners : Holds(t, r)' => Holds(t, r)
  BY <1>1, <1>2, BodyFree DEF Holds
<1> QED
  BY <1>1, <1>2, <1>3, BodyFree, ApartStays

(* t goes on in a method, or calls one.                                    *)
LEMMA CallApart ==
  ASSUME Base, Apart, NEW t \in Threads, frames' = frames,
         \A u \in Threads \ {t} : doing'[u] = doing[u],
         doing'[t].guard \in Runners =>
           /\ \/ Holds(t, doing'[t].guard)
              \/ \A u \in Threads : ~Holds(u, doing'[t].guard)
           /\ doing'[t].step \in {"signal", "record", "mark"} => ~closed'[doing'[t].guard]
           /\ doing'[t].step \in {"restore", "unset"} => closed'[doing'[t].guard],
         \A r \in Runners : ~Holds(t, r) => closed'[r] = closed[r] /\ entered'[r] = entered[r],
         \A r \in Runners : In(t, r) => entered'[r] \/ closed'[r]
  PROVE  Apart'
<1>1. \A r \in Runners : In(t, r)' <=> In(t, r)
  BY DEF In
<1>2. \A r \in Runners : Holds(t, r)' => Holds(t, r) \/ \A u \in Threads : ~Holds(u, r)
  BY <1>1 DEF Holds
<1> QED
  BY <1>1, <1>2, ApartStays

LEMMA NextApart == Base /\ Discipline /\ Apart /\ [Next]_vars => Apart'
<1> SUFFICES ASSUME Base, Discipline, Apart, [Next]_vars PROVE Apart'
  OBVIOUS
<1>0. /\ frames \in [Threads -> Seq(Guards)] /\ doing \in [Threads -> Places]
      /\ coroutine \in [Threads -> Seq(Guards)]
      /\ \A t \in Threads : doing[t] \in Places /\ doing[t].guard \in Guards
      /\ \A t \in Threads, r \in Runners : In(t, r) => entered[r] \/ closed[r]
      /\ \A t \in Threads : doing[t].guard \in Runners => Holds(t, doing[t].guard)
      /\ entered \in [Runners -> BOOLEAN] /\ closed \in [Runners -> BOOLEAN]
  BY PlaceIs DEF Base, ThreadsOK, RestOK, Apart, Holds
<1>1. CASE UNCHANGED vars
  BY <1>1 DEF vars, Apart, Holds, In
<1>2. ASSUME NEW t \in Threads, CallRun(t) PROVE Apart'
  <2> DEFINE g == Len(coroutine[t]) + 1
  <2>6. coroutine[t] \in Seq(Guards) /\ Len(coroutine[t]) \in Nat
    BY <1>0, LenProperties
  <2>7. g \in Guards
    BY <1>2, <2>6, GuardAssumption DEF CallRun, MayRun, Guards, Runs
  <2>1. g \in Guards /\ g \notin Runners
    BY <2>6, <2>7, GuardAssumption
  <2>2. \/ UNCHANGED doing
        \/ Call(t, "signal", g, FALSE)
    BY <1>2 DEF CallRun
  <2>3. UNCHANGED <<frames, entered, closed>>
    BY <1>2 DEF CallRun
  <2>4. CASE UNCHANGED doing
    BY <2>3, <2>4 DEF Apart, Holds, In
  <2>5. CASE Call(t, "signal", g, FALSE)
    <3>1. doing'[t].guard = g /\ \A u \in Threads \ {t} : doing'[u] = doing[u]
      BY <1>0, <2>1, <2>5, CallIs DEF Steps
    <3> QED
      BY <1>0, <2>1, <2>3, <3>1, CallApart
  <2> QED
    BY <2>2, <2>4, <2>5
<1>3. ASSUME NEW t \in Threads, NEW r \in Runners, RunnerEnter(t, r) PROVE Apart'
  <2>1. PICK s \in {"signal", "mark"} : Call(t, s, r, FALSE)
    BY <1>3 DEF RunnerEnter
  <2>6. s \in Steps /\ r \in Guards
    BY NamesApart DEF Steps
  <2>2. /\ doing'[t].step = s /\ doing'[t].guard = r
        /\ \A u \in Threads \ {t} : doing'[u] = doing[u]
    BY <1>0, <2>1, <2>6, CallIs
  <2>3. UNCHANGED <<frames, entered, closed>>
    BY <1>3 DEF RunnerEnter
  <2>4. ~entered[r] /\ ~closed[r] /\ \A u \in Threads : doing[u].guard # r
    BY <1>3 DEF RunnerEnter, Discipline
  <2>5. \A u \in Threads : ~Holds(u, r)
    BY <1>0, <2>4 DEF Holds
  <2> QED
    BY <1>0, <2>2, <2>3, <2>4, <2>5, CallApart
<1>4. ASSUME NEW t \in Threads, Swap(t) PROVE Apart'
  <2>3. t = MainThread /\ handler \in Handlers
    BY <1>4 DEF Swap, At, Base, Methods, RestOK, M
  <2>1. /\ doing'[t].step = "record" /\ doing'[t].guard = doing[t].guard
        /\ \A u \in Threads \ {t} : doing'[u] = doing[u]
    BY <1>0, <1>4, <2>3, SwapIs DEF Swap
  <2>2. doing[t].step = "signal" /\ UNCHANGED <<frames, entered, closed>>
    BY <1>4 DEF Swap, At
  <2> QED
    BY <1>0, <2>1, <2>2, CallApart DEF Apart
<1>5. ASSUME NEW t \in Threads, Record(t) PROVE Apart'
  <2> DEFINE g == doing[t].guard
  <2>1. doing[t].step = "record" /\ UNCHANGED <<entered, closed>>
    BY <1>5 DEF Record, At
  <2>2. CASE g \in Runs
    <3>1. /\ frames'[t] = Append(frames[t], g) /\ doing'[t] = Body
          /\ \A u \in Threads \ {t} : frames'[u] = frames[u] /\ doing'[u] = doing[u]
      BY <1>0, <1>5, <2>2, EntersIs DEF Record
    <3>4. \A r \in Runners : r # g
      BY <2>2, NamesApart
    <3>5. g \in Guards /\ frames[t] \in Seq(Guards)
      BY <1>0
    <3>2. \A r \in Runners : In(t, r)' => In(t, r)
      BY <3>1, <3>4, <3>5, InAppend
    <3>3. \A r \in Runners : Holds(t, r)' => Holds(t, r)
      BY <3>1, <3>2, BodyFree DEF Holds
    <3> QED
      BY <1>0, <2>1, <3>1, <3>2, <3>3, BodyFree, ApartStays
  <2>3. CASE g \notin Runs
    <3>1. Goto(t, "mark") /\ UNCHANGED frames
      BY <1>5, <2>3 DEF Record
    <3>2. /\ doing'[t].step = "mark" /\ doing'[t].guard = g
          /\ \A u \in Threads \ {t} : doing'[u] = doing[u]
      BY <1>0, <3>1, GotoIs DEF Steps
    <3> QED
      BY <1>0, <2>1, <3>1, <3>2, CallApart DEF Apart
  <2> QED
    BY <2>2, <2>3
<1>6. ASSUME NEW t \in Threads, Mark(t) PROVE Apart'
  <2> DEFINE g == doing[t].guard
  <2>1. g \in Runners
    BY <1>6 DEF Mark, At, Base, Methods
  <2>2. /\ frames'[t] = Append(frames[t], g) /\ doing'[t] = Body
        /\ \A u \in Threads \ {t} : frames'[u] = frames[u] /\ doing'[u] = doing[u]
    BY <1>0, <1>6, EntersIs DEF Mark
  <2>3. entered' = [entered EXCEPT ![g] = TRUE] /\ UNCHANGED closed
    BY <1>6 DEF Mark
  <2>4. \A r \in Runners : In(t, r)' => In(t, r) \/ r = g
    BY <1>0, <2>2, InAppend
  <2>5. \A r \in Runners : Holds(t, r)' => Holds(t, r)
    BY <1>0, <2>1, <2>2, <2>4, BodyFree DEF Holds
  <2>6. Holds(t, g)
    BY DEF Holds
  <2> QED
    BY <1>0, <2>1, <2>2, <2>3, <2>4, <2>5, <2>6, BodyFree, ApartStays
<1>7. ASSUME NEW t \in Threads, Ends(t), coroutine[t] # <<>>,
             UNCHANGED <<frames, entered, closed>>
      PROVE  Apart'
  <2>1. /\ \A u \in Threads \ {t} : doing'[u] = doing[u]
        /\ \/ doing'[t].guard \in Runs
           \/ doing' = doing
    BY <1>0, <1>7, EndsIs
  <2>2. CASE doing' = doing
    BY <1>7, <2>2 DEF Apart, Holds, In
  <2>3. CASE doing'[t].guard \in Runs
    BY <1>0, <1>7, <2>1, <2>3, CallApart, NamesApart
  <2> QED
    BY <2>1, <2>2, <2>3
<1>8. ASSUME NEW t \in Threads, NEW r \in Runners, CallClose(t, r) PROVE Apart'
  <2>1. PICK pop \in BOOLEAN : Call(t, "close", r, pop)
    BY <1>8 DEF CallClose
  <2>5. "close" \in Steps /\ r \in Guards /\ doing \in [Threads -> Places]
    BY <1>0, NamesApart DEF Steps
  <2>2. /\ doing'[t].step = "close" /\ doing'[t].guard = r
        /\ \A u \in Threads \ {t} : doing'[u] = doing[u]
    BY <2>1, <2>5, CallIs
  <2>3. UNCHANGED <<frames, entered, closed>>
    BY <1>8 DEF CallClose
  <2>4. Holds(t, r)
    BY <1>8, TopIs DEF CallClose, Discipline, Holds
  <2> QED
    BY <1>0, <2>2, <2>3, <2>4, CallApart
<1>9. ASSUME NEW t \in Threads, Close(t) PROVE Apart'
  <2> DEFINE r == doing[t].guard
  <2>1. /\ r \in Runners /\ closed' = [closed EXCEPT ![r] = TRUE] /\ UNCHANGED entered
    BY <1>9 DEF Close, At, Base, Methods
  <2>2. /\ \A q \in Runners : ~Holds(t, q) => closed'[q] = closed[q] /\ entered'[q] = entered[q]
        /\ \A q \in Runners : In(t, q) => entered'[q] \/ closed'[q]
        /\ closed'[r]
    BY <1>0, <2>1
  <2>3. CASE Done(t)
    BY <2>2, <2>3, DoneApart
  <2>4. CASE Goto(t, "restore") /\ UNCHANGED frames
    <3>1. /\ doing'[t].step = "restore" /\ doing'[t].guard = r
          /\ \A u \in Threads \ {t} : doing'[u] = doing[u]
      BY <1>0, <2>4, GotoIs DEF Steps
    <3> QED
      BY <1>0, <2>1, <2>2, <2>4, <3>1, CallApart
  <2> QED
    BY <1>9, <2>3, <2>4 DEF Close
<1>10. ASSUME NEW t \in Threads, NothingToRestore(t) \/ Unset(t) PROVE Apart'
  <2> DEFINE g == doing[t].guard
  <2>1. Done(t) /\ Down(g) /\ UNCHANGED closed /\ doing[t].step \in {"restore", "unset"}
    BY <1>10 DEF NothingToRestore, Unset, At
  <2>2. g \in Runners => closed[g] /\ Holds(t, g)
    BY <1>0, <2>1 DEF Apart
  <2>3. \A r \in Runners : entered'[r] = entered[r] \/ r = g
    BY <1>0, <2>1 DEF Down
  <2> QED
    BY <1>0, <2>1, <2>2, <2>3, DoneApart
<1>11. ASSUME NEW t \in Threads, Restore(t) PROVE Apart'
  <2>1. doing[t].step = "restore" /\ UNCHANGED <<entered, closed>>
    BY <1>11 DEF Restore, At
  <2>2. CASE Done(t)
    BY <1>0, <2>1, <2>2, DoneApart
  <2>3. CASE Goto(t, "unset") /\ UNCHANGED frames
    <3>1. /\ doing'[t].step = "unset" /\ doing'[t].guard = doing[t].guard
          /\ \A u \in Threads \ {t} : doing'[u] = doing[u]
      BY <1>0, <2>3, GotoIs DEF Steps
    <3> QED
      BY <1>0, <2>1, <2>3, <3>1, CallApart DEF Apart
  <2> QED
    BY <1>11, <2>2, <2>3 DEF Restore
<1>12. CASE Interrupt
  <2>1. UNCHANGED <<entered, closed>> /\ M \in Threads
    BY <1>12, GuardAssumption DEF Interrupt, M
  <2>2. CASE Ends(M) /\ coroutine[M] # <<>> /\ UNCHANGED frames
    BY <1>7, <2>1, <2>2
  <2>3. CASE Done(M)
    BY <1>0, <2>1, <2>3, DoneApart
  <2> QED
    BY <1>12, <2>2, <2>3 DEF Interrupt, M
<1>13. ASSUME NEW t \in Threads, NEW r \in Runners, RunnerRun(t, r) PROVE Apart'
  BY <1>13 DEF RunnerRun, Apart, Holds, In
<1>14. ASSUME NEW h \in {"default", "custom"}, AppSets(h) PROVE Apart'
  BY <1>14 DEF AppSets, Apart, Holds, In
<1>15. ASSUME NEW t \in Threads, CoroutineEnds(t) PROVE Apart'
  BY <1>7, <1>15 DEF CoroutineEnds
<1> QED
  BY <1>1, <1>2, <1>3, <1>4, <1>5, <1>6, <1>8, <1>9, <1>10, <1>11, <1>12, <1>13,
     <1>14, <1>15 DEF Next

-----------------------------------------------------------------------------
(* How the blocks of the main thread nest.                                 *)

LEMMA SeqIs ==
  ASSUME NEW F \in Seq(Guards)
  PROVE  /\ Len(F) \in Nat
         /\ \A i \in 1..Len(F) : /\ F[i] \in Guards
                                /\ F[i] \in Runs => F[i] \in Nat \ {0}
  BY LenProperties, ElementOfSeq DEF Runs

LEMMA StepsApart ==
  /\ Entering \cap Leaving = {} /\ "body" \notin Entering \cup Leaving
  /\ "signal" \in Entering /\ "record" \in Entering /\ "mark" \in Entering
  /\ "close" \in Leaving /\ "restore" \in Leaving /\ "unset" \in Leaving
  BY DEF Entering, Leaving

LEMMA NestCall ==
  ASSUME NEW F \in Seq(Guards), NEW C \in Seq(Guards), NEW h, NEW p, NEW g \in Guards,
         NEW s \in Entering, NestedBlocks(F, C, "body", h, p),
         IF g \in Runs THEN g = Len(C) + 1 ELSE C = <<>>,
         g \notin Runs => \A i \in 1..Len(F) : F[i] # g
  PROVE  NestedBlocks(F, C, s, g, FALSE)
<1>1. s \notin Leaving /\ "body" \notin Leaving /\ "body" \notin Entering
  BY StepsApart
<1>2. \A i \in 1..Len(F) : F[i] # g
  <2>1. ASSUME g \in Runs, NEW i \in 1..Len(F), F[i] = g PROVE FALSE
    BY <1>1, <2>1, SeqIs DEF NestedBlocks
  <2> QED
    BY <2>1
<1> QED
  BY <1>1, <1>2 DEF NestedBlocks

LEMMA NestEntering ==
  ASSUME NEW F, NEW C, NEW g, NEW s \in Entering, NEW u \in Entering,
         NestedBlocks(F, C, s, g, FALSE)
  PROVE  NestedBlocks(F, C, u, g, FALSE)
  BY StepsApart DEF NestedBlocks

LEMMA NestLeaving ==
  ASSUME NEW F, NEW C, NEW g, NEW p, NEW s \in Leaving, NEW u \in Leaving,
         NestedBlocks(F, C, s, g, p)
  PROVE  NestedBlocks(F, C, u, g, p)
<1>1. s \notin Entering /\ u \notin Entering
  BY StepsApart
<1> QED
  BY <1>1 DEF NestedBlocks

LEMMA NestRun ==
  ASSUME NEW F \in Seq(Guards), NEW C \in Seq(Guards), NEW g \in Runs, NEW s \in Entering,
         NEW p, NEW q, NEW h, NestedBlocks(F, C, s, g, p)
  PROVE  NestedBlocks(Append(F, g), Append(C, g), "body", h, q)
<1> DEFINE A == Append(F, g)
           D == Append(C, g)
<1>1. s \notin Leaving /\ "body" \notin Leaving /\ "body" \notin Entering /\ g \in Guards
  BY StepsApart, NamesApart
<1>2. /\ Len(F) \in Nat /\ Len(A) = Len(F) + 1
      /\ \A i \in 1..Len(F) : A[i] = F[i]
      /\ A[Len(F) + 1] = g
  BY <1>1, AppendIs
<1>3. /\ Len(C) \in Nat /\ Len(D) = Len(C) + 1
      /\ \A i \in 1..Len(C) : D[i] = C[i]
      /\ D[Len(C) + 1] = g
  BY <1>1, AppendIs
<1>4. g = Len(C) + 1 /\ \A i \in 1..Len(F) : F[i] # g
  BY DEF NestedBlocks
<1>5. \A i \in 1..Len(F) : F[i] \in Runs => F[i] \in 1..Len(C) /\ C[F[i]] = F[i]
  BY <1>1, SeqIs DEF NestedBlocks
<1> HIDE DEF A, D
<1>6. ASSUME NEW i \in 1..Len(A), NEW j \in 1..Len(A), i < j
      PROVE  A[i] # A[j] /\ (A[i] \in Runs => A[j] \in Runs /\ A[i] < A[j])
  <2>1. CASE j \in 1..Len(F)
    BY <1>2, <1>6, <2>1 DEF NestedBlocks
  <2>2. CASE j = Len(F) + 1
    BY <1>2, <1>3, <1>4, <1>5, <1>6, <2>2
  <2> QED
    BY <1>2, <2>1, <2>2
<1>7. ASSUME NEW i \in 1..Len(A), A[i] \in Runs PROVE A[i] <= Len(D) /\ D[A[i]] = A[i]
  BY <1>2, <1>3, <1>4, <1>5, <1>7
<1>8. ASSUME NEW k \in 1..Len(D), D[k] \in Runs
      PROVE  D[k] = k /\ \E i \in 1..Len(A) : A[i] = k
  <2>1. CASE k \in 1..Len(C)
    <3>1. C[k] = k /\ \E i \in 1..Len(F) : F[i] = k
      BY <1>3, <1>8, <2>1 DEF NestedBlocks
    <3> QED
      BY <1>2, <1>3, <2>1, <3>1
  <2>2. CASE k = Len(C) + 1
    BY <1>2, <1>3, <1>4, <2>2
  <2> QED
    BY <1>3, <2>1, <2>2
<1> QED
  BY <1>1, <1>6, <1>7, <1>8 DEF NestedBlocks, A, D

LEMMA NestMark ==
  ASSUME NEW F \in Seq(Guards), NEW C \in Seq(Guards), NEW r \in Runners, NEW s \in Entering,
         NEW p, NEW q, NEW h, NestedBlocks(F, C, s, r, p)
  PROVE  NestedBlocks(Append(F, r), C, "body", h, q)
<1> DEFINE A == Append(F, r)
<1>1. /\ s \notin Leaving /\ "body" \notin Leaving /\ "body" \notin Entering
      /\ r \in Guards /\ r \notin Runs
  BY StepsApart, NamesApart
<1>2. /\ Len(F) \in Nat /\ Len(A) = Len(F) + 1
      /\ \A i \in 1..Len(F) : A[i] = F[i]
      /\ A[Len(F) + 1] = r
  BY <1>1, AppendIs
<1>3. C = <<>> /\ Len(C) = 0 /\ \A i \in 1..Len(F) : F[i] # r
  BY <1>1, EmptySeq DEF NestedBlocks
<1>4. \A i \in 1..Len(F) : F[i] \notin Runs
  BY <1>1, <1>3, SeqIs DEF NestedBlocks
<1> HIDE DEF A
<1>5. \A i \in 1..Len(A) : A[i] \notin Runs
  BY <1>1, <1>2, <1>4
<1>6. ASSUME NEW i \in 1..Len(A), NEW j \in 1..Len(A), i < j PROVE A[i] # A[j]
  BY <1>2, <1>3, <1>6 DEF NestedBlocks
<1> QED
  BY <1>1, <1>3, <1>5, <1>6 DEF NestedBlocks, A

LEMMA NestRunnerRun ==
  ASSUME NEW F \in Seq(Guards), NEW C \in Seq(Guards), NEW r \in Runners,
         NEW p, NEW h, NestedBlocks(F, C, "body", h, p)
  PROVE  NestedBlocks(F, Append(C, r), "body", h, p)
<1> DEFINE D == Append(C, r)
<1>1. "body" \notin Leaving /\ "body" \notin Entering /\ r \in Guards /\ r \notin Runs
  BY StepsApart, NamesApart
<1>2. /\ Len(C) \in Nat /\ Len(D) = Len(C) + 1
      /\ \A i \in 1..Len(C) : D[i] = C[i]
      /\ D[Len(C) + 1] = r
  BY <1>1, AppendIs
<1> HIDE DEF D
<1>3. \A i \in 1..Len(F) : F[i] \in Runs => F[i] <= Len(D) /\ D[F[i]] = F[i]
  BY <1>1, <1>2, SeqIs DEF NestedBlocks
<1>4. \A k \in 1..Len(D) : D[k] \in Runs => D[k] = k /\ \E i \in 1..Len(F) : F[i] = k
  BY <1>1, <1>2 DEF NestedBlocks
<1> QED
  BY <1>1, <1>3, <1>4 DEF NestedBlocks, D

\* A coroutine of a Runner ends.
LEMMA NestRunnerEnds ==
  ASSUME NEW F \in Seq(Guards), NEW C \in Seq(Guards), C # <<>>, Last(C) \notin Runs,
         NEW p, NEW h, NestedBlocks(F, C, "body", h, p)
  PROVE  NestedBlocks(F, Front(C), "body", h, p)
<1> DEFINE D == Front(C)
<1>1. "body" \notin Leaving /\ "body" \notin Entering
  BY StepsApart
<1>2. /\ Len(C) \in Nat /\ Len(C) > 0 /\ Len(D) = Len(C) - 1
      /\ \A i \in 1..(Len(C) - 1) : D[i] = C[i]
      /\ C[Len(C)] \notin Runs
  BY FrontIs
<1> HIDE DEF D
<1>3. \A i \in 1..Len(F) : F[i] \in Runs => F[i] <= Len(D) /\ D[F[i]] = F[i]
  <2>1. ASSUME NEW i \in 1..Len(F), F[i] \in Runs PROVE F[i] \in 1..(Len(C) - 1) /\ C[F[i]] = F[i]
    BY <1>1, <1>2, <2>1, SeqIs DEF NestedBlocks
  <2> QED
    BY <1>2, <2>1
<1>4. \A k \in 1..Len(D) : D[k] \in Runs => D[k] = k /\ \E i \in 1..Len(F) : F[i] = k
  BY <1>2 DEF NestedBlocks
<1> QED
  BY <1>1, <1>3, <1>4 DEF NestedBlocks, D

\* The coroutine of a run() ends: it is the innermost block.
LEMMA NestRunEnds ==
  ASSUME NEW F \in Seq(Guards), NEW C \in Seq(Guards), C # <<>>, Last(C) \in Runs,
         NEW p, NEW h, NestedBlocks(F, C, "body", h, p)
  PROVE  NestedBlocks(F, Front(C), "restore", Last(C), TRUE)
<1> DEFINE D == Front(C)
           g == Last(C)
<1>1. /\ "body" \notin Leaving /\ "body" \notin Entering
      /\ "restore" \in Leaving /\ "restore" \notin Entering
  BY StepsApart
<1>2. /\ Len(C) \in Nat /\ Len(C) > 0 /\ Len(D) = Len(C) - 1
      /\ \A i \in 1..(Len(C) - 1) : D[i] = C[i]
      /\ C[Len(C)] = g
  BY FrontIs
<1> HIDE DEF D, g
<1>3. g = Len(C) /\ g \in Runs
  BY <1>2 DEF NestedBlocks, g
<1>4. PICK i \in 1..Len(F) : F[i] = g
  BY <1>2, <1>3 DEF NestedBlocks
<1>5. Len(F) \in Nat /\ \A j \in 1..Len(F) : F[j] \in Runs => F[j] \in 1..Len(C) /\ C[F[j]] = F[j]
  BY <1>1, SeqIs DEF NestedBlocks
<1>6. i = Len(F)
  <2>1. CASE i < Len(F)
    <3>1. Len(F) \in 1..Len(F) /\ F[i] \in Runs
      BY <1>3, <1>4, <1>5
    <3>2. F[Len(F)] \in Runs /\ F[i] < F[Len(F)]
      BY <2>1, <3>1 DEF NestedBlocks
    <3> QED
      BY <1>2, <1>3, <1>4, <1>5, <3>1, <3>2
  <2> QED
    BY <1>5, <2>1
<1>7. F # <<>> /\ g = Last(F)
  BY <1>4, <1>5, <1>6, EmptySeq DEF Last
<1>8. \A j \in 1..Len(F) : F[j] \in Runs => \/ F[j] <= Len(D) /\ D[F[j]] = F[j]
                                           \/ F[j] = g
  BY <1>2, <1>3, <1>5
<1>9. \A k \in 1..Len(D) : D[k] \in Runs => D[k] = k /\ \E j \in 1..Len(F) : F[j] = k
  BY <1>2 DEF NestedBlocks
<1> QED
  BY <1>1, <1>2, <1>3, <1>7, <1>8, <1>9 DEF NestedBlocks, D, g

\* A Runner is closed: no coroutine is under way.
LEMMA NestClose ==
  ASSUME NEW F \in Seq(Guards), NEW p, NEW q, NEW h, NEW r \in Runners,
         F # <<>>, r = Last(F), NestedBlocks(F, <<>>, "body", h, p)
  PROVE  NestedBlocks(F, <<>>, "close", r, q)
<1>1. /\ "body" \notin Leaving /\ "body" \notin Entering
      /\ "close" \in Leaving /\ "close" \notin Entering /\ r \notin Runs
  BY StepsApart, NamesApart
<1> QED
  BY <1>1 DEF NestedBlocks

\* A method is left, and with it perhaps its block.
LEMMA NestDone ==
  ASSUME NEW F \in Seq(Guards), NEW C \in Seq(Guards), NEW s \in Entering \cup Leaving,
         NEW g \in Guards, NEW p \in BOOLEAN, NEW h, NEW q, NestedBlocks(F, C, s, g, p)
  PROVE  NestedBlocks(IF p THEN Front(F) ELSE F, C, "body", h, q)
<1>1. /\ "body" \notin Leaving /\ "body" \notin Entering
      /\ Entering \cap Leaving = {}
  BY StepsApart
<1>2. CASE ~p
  <2>1. \A i \in 1..Len(F) : F[i] \in Runs => F[i] <= Len(C) /\ C[F[i]] = F[i]
    BY <1>2 DEF NestedBlocks
  <2> QED
    BY <1>1, <1>2, <2>1 DEF NestedBlocks
<1>3. CASE p
  <2> DEFINE A == Front(F)
  <2>1. s \in Leaving /\ F # <<>> /\ g = Last(F)
    BY <1>1, <1>3 DEF NestedBlocks
  <2>2. /\ Len(F) \in Nat /\ Len(F) > 0 /\ Len(A) = Len(F) - 1
        /\ \A i \in 1..(Len(F) - 1) : A[i] = F[i]
        /\ F[Len(F)] = g
    BY <2>1, FrontIs
  <2> HIDE DEF A
  <2>3. \A i \in 1..(Len(F) - 1) : F[i] # g
    BY <2>2 DEF NestedBlocks
  <2>4. \A i, j \in 1..Len(A) : i < j =>
                /\ A[i] # A[j]
                /\ A[i] \in Runs => A[j] \in Runs /\ A[i] < A[j]
    BY <2>2 DEF NestedBlocks
  <2>5. \A i \in 1..Len(A) : A[i] \in Runs => A[i] <= Len(C) /\ C[A[i]] = A[i]
    BY <2>2, <2>3 DEF NestedBlocks
  <2>6. ASSUME NEW k \in 1..Len(C), C[k] \in Runs
        PROVE  C[k] = k /\ \E i \in 1..Len(A) : A[i] = k
    <3>1. PICK i \in 1..Len(F) : C[k] = k /\ F[i] = k
      BY <2>6 DEF NestedBlocks
    <3>2. k # g
      <4>1. Len(C) \in Nat
        BY SeqIs
      <4>2. IF g \in Runs THEN g = Len(C) + 1 ELSE C = <<>>
        BY DEF NestedBlocks
      <4>3. C # <<>>
        BY <4>1, EmptySeq
      <4> QED
        BY <4>1, <4>2, <4>3
    <3>3. i \in 1..Len(A)
      BY <2>2, <3>1, <3>2
    <3> QED
      BY <2>2, <3>1, <3>3
  <2>7. NestedBlocks(A, C, "body", h, q)
    BY <1>1, <2>4, <2>5, <2>6 DEF NestedBlocks
  <2> QED
    BY <1>3, <2>7 DEF A
<1> QED
  BY <1>2, <1>3

LEMMA InitNested == Init => Nested
<1> SUFFICES ASSUME Init PROVE Nested
  OBVIOUS
<1>1. frames[M] = <<>> /\ coroutine[M] = <<>> /\ doing[M].step = "body"
  BY BodyIs, GuardAssumption DEF Init, M
<1>2. "body" \notin Entering \cup Leaving /\ Len(<<>>) = 0
  BY StepsApart, EmptySeq
<1> QED
  BY <1>1, <1>2 DEF Nested, NestedBlocks

(* A step of another thread, or in the body of a coroutine.                *)
LEMMA NestedStays ==
  ASSUME Nested, frames'[M] = frames[M], coroutine'[M] = coroutine[M],
         doing'[M] = doing[M]
  PROVE  Nested'
  BY DEF Nested, NestedBlocks

LEMMA Others ==
  ASSUME Base, NEW t \in Threads \ {M},
         \/ CallRun(t) \/ Swap(t) \/ Record(t) \/ Mark(t) \/ CoroutineEnds(t)
         \/ Close(t) \/ NothingToRestore(t) \/ Restore(t) \/ Unset(t)
         \/ \E r \in Runners : RunnerEnter(t, r) \/ RunnerRun(t, r) \/ CallClose(t, r)
  PROVE  frames'[M] = frames[M] /\ coroutine'[M] = coroutine[M] /\ doing'[M] = doing[M]
<1>1. /\ M \in Threads /\ t \in Threads /\ t # M
      /\ frames \in [Threads -> Seq(Guards)] /\ doing \in [Threads -> Places]
      /\ coroutine \in [Threads -> Seq(Guards)]
  BY GuardAssumption DEF M, Base, ThreadsOK
<1>2. doing' = doing \/ \E p : doing' = [doing EXCEPT ![t] = p]
  BY DEF CallRun, Swap, Record, Mark, CoroutineEnds, Close, NothingToRestore, Restore,
         Unset, RunnerEnter, RunnerRun, CallClose, Call, Goto, Done, Enters, Ends
<1>3. frames' = frames \/ \E p : frames' = [frames EXCEPT ![t] = p]
  BY DEF CallRun, Swap, Record, Mark, CoroutineEnds, Close, NothingToRestore, Restore,
         Unset, RunnerEnter, RunnerRun, CallClose, Done, Enters
<1>4. coroutine' = coroutine \/ \E p : coroutine' = [coroutine EXCEPT ![t] = p]
  BY DEF CallRun, Swap, Record, Mark, CoroutineEnds, Close, NothingToRestore, Restore,
         Unset, RunnerEnter, RunnerRun, CallClose, Ends, Begins
<1> QED
  BY <1>1, <1>2, <1>3, <1>4

LEMMA NextNested == Base /\ Discipline /\ Apart /\ Nested /\ [Next]_vars => Nested'
<1> SUFFICES ASSUME Base, Discipline, Apart, Nested, [Next]_vars PROVE Nested'
  OBVIOUS
<1> DEFINE F == frames[M]
           C == coroutine[M]
           g == doing[M].guard
<1>0. /\ M \in Threads /\ F \in Seq(Guards) /\ C \in Seq(Guards)
      /\ frames \in [Threads -> Seq(Guards)] /\ doing \in [Threads -> Places]
      /\ coroutine \in [Threads -> Seq(Guards)] /\ handler \in Handlers
      /\ g \in Guards /\ doing[M].pop \in BOOLEAN /\ doing[M].step \in Steps
  BY GuardAssumption, PlaceIs DEF M, Base, ThreadsOK, RestOK
<1>1. NestedBlocks(F, C, doing[M].step, g, doing[M].pop)
  BY DEF Nested
<1>2. ASSUME NEW G, NEW D, NEW s, NEW k, NEW p, NestedBlocks(G, D, s, k, p),
             frames'[M] = G, coroutine'[M] = D,
             doing'[M].step = s, doing'[M].guard = k, doing'[M].pop = p
      PROVE  Nested'
  BY <1>2 DEF Nested, NestedBlocks
<1>3. doing[M].step \in Entering => doing[M].pop = FALSE
  BY <1>0, <1>1 DEF NestedBlocks
<1>4. InBody(M) => NestedBlocks(F, C, "body", Body.guard, Body.pop)
  BY <1>1, BodyIs DEF InBody
<1>5. CASE CallRun(M)
  <2> DEFINE k == Len(C) + 1
  <2>1. k \in Runs /\ k \in Guards /\ InBody(M)
    BY <1>0, <1>5, LenProperties, GuardAssumption DEF CallRun, MayRun, Guards, Runs, M
  <2>2. Call(M, "signal", k, FALSE) /\ UNCHANGED <<frames, coroutine>>
    BY <1>5 DEF CallRun, M
  <2>3. "signal" \in Steps /\ "signal" \in Entering
    BY DEF Steps, Entering
  <2>4. doing'[M].step = "signal" /\ doing'[M].guard = k /\ doing'[M].pop = FALSE
    BY <1>0, <2>1, <2>2, <2>3, CallIs
  <2>5. NestedBlocks(F, C, "signal", k, FALSE)
    BY <1>0, <1>4, <2>1, <2>3, NestCall
  <2> QED
    BY <1>2, <2>2, <2>4, <2>5
<1>6. ASSUME NEW r \in Runners, RunnerEnter(M, r) PROVE Nested'
  <2>1. /\ Call(M, "signal", r, FALSE) /\ UNCHANGED <<frames, coroutine>>
        /\ InBody(M) /\ C = <<>> /\ ~entered[r] /\ ~closed[r]
    BY <1>6 DEF RunnerEnter, Discipline, M
  <2>2. /\ "signal" \in Steps /\ "signal" \in Entering /\ r \in Guards /\ r \notin Runs
    BY NamesApart DEF Steps, Entering
  <2>3. doing'[M].step = "signal" /\ doing'[M].guard = r /\ doing'[M].pop = FALSE
    BY <1>0, <2>1, <2>2, CallIs
  <2>4. \A i \in 1..Len(F) : F[i] # r
    BY <1>0, <2>1 DEF Apart, In
  <2>5. NestedBlocks(F, C, "signal", r, FALSE)
    BY <1>0, <1>4, <2>1, <2>2, <2>4, NestCall
  <2> QED
    BY <1>2, <2>1, <2>3, <2>5
<1>7. CASE Swap(M)
  <2>1. /\ doing[M].step = "signal" /\ UNCHANGED <<frames, coroutine>>
        /\ doing'[M].step = "record" /\ doing'[M].guard = g /\ doing'[M].pop = doing[M].pop
    BY <1>0, <1>7, SwapIs DEF Swap, At, M
  <2>2. doing[M].pop = FALSE /\ NestedBlocks(F, C, "record", g, FALSE)
    BY <1>1, <1>3, <2>1, StepsApart, NestEntering
  <2> QED
    BY <1>2, <2>1, <2>2
<1>8. CASE Record(M)
  <2>1. doing[M].step = "record" /\ doing[M].step \in Entering
    BY <1>8, StepsApart DEF Record, At
  <2>2. CASE g \in Runs
    <3>1. Enters(M, g) /\ Begins(M, g)
      BY <1>8, <2>2 DEF Record
    <3>2. /\ frames'[M] = Append(F, g) /\ coroutine'[M] = Append(C, g) /\ doing'[M] = Body
      BY <1>0, <3>1, EntersIs, BeginsIs
    <3>3. NestedBlocks(Append(F, g), Append(C, g), "body", Body.guard, Body.pop)
      BY <1>0, <1>1, <2>1, <2>2, NestRun
    <3> QED
      BY <1>2, <3>2, <3>3, BodyIs
  <2>3. CASE g \notin Runs
    <3>1. Goto(M, "mark") /\ UNCHANGED <<frames, coroutine>> /\ "mark" \in Steps
      BY <1>8, <2>3 DEF Record, Steps
    <3>2. doing'[M].step = "mark" /\ doing'[M].guard = g /\ doing'[M].pop = doing[M].pop
      BY <1>0, <3>1, GotoIs
    <3>3. doing[M].pop = FALSE /\ NestedBlocks(F, C, "mark", g, FALSE)
      BY <1>1, <1>3, <2>1, StepsApart, NestEntering
    <3> QED
      BY <1>2, <3>1, <3>2, <3>3
  <2> QED
    BY <2>2, <2>3
<1>9. CASE Mark(M)
  <2>4. doing[M].step = "mark" /\ Enters(M, g) /\ UNCHANGED coroutine
    BY <1>9 DEF Mark, At
  <2>5. g \in Runners
    BY <1>0, <2>4 DEF Base, Methods
  <2>1. /\ doing[M].step \in Entering /\ g \in Runners /\ Enters(M, g) /\ UNCHANGED coroutine
    BY <2>4, <2>5, StepsApart
  <2>2. frames'[M] = Append(F, g) /\ doing'[M] = Body
    BY <1>0, <2>1, EntersIs
  <2>3. NestedBlocks(Append(F, g), C, "body", Body.guard, Body.pop)
    BY <1>0, <1>1, <2>1, NestMark
  <2> QED
    BY <1>2, <2>1, <2>2, <2>3, BodyIs
<1>10. ASSUME NEW r \in Runners, RunnerRun(M, r) PROVE Nested'
  <2>1. Begins(M, r) /\ UNCHANGED <<frames, doing>> /\ r \in Guards /\ InBody(M)
    BY <1>10, NamesApart DEF RunnerRun, MayRun
  <2>2. coroutine'[M] = Append(C, r)
    BY <1>0, <2>1, BeginsIs
  <2>3. NestedBlocks(F, Append(C, r), "body", Body.guard, Body.pop)
    BY <1>0, <1>4, <2>1, NestRunnerRun
  <2> QED
    BY <1>2, <2>1, <2>2, <2>3, BodyIs DEF InBody
<1>11. ASSUME Ends(M), C # <<>>, InBody(M), UNCHANGED frames PROVE Nested'
  <2>1. /\ coroutine'[M] = Front(C)
        /\ IF Last(C) \in Runs
           THEN doing'[M].step = "restore" /\ doing'[M].pop /\ doing'[M].guard = Last(C)
           ELSE doing' = doing
        /\ doing' \in [Threads -> Places]
    BY <1>0, <1>11, EndsIs
  <2>2. CASE Last(C) \in Runs
    <3>1. NestedBlocks(F, Front(C), "restore", Last(C), TRUE)
      BY <1>0, <1>4, <1>11, <2>2, NestRunEnds
    <3>2. doing'[M].pop = TRUE
      BY <1>0, <2>1, <2>2, PlaceIs
    <3> QED
      BY <1>2, <1>11, <2>1, <2>2, <3>1, <3>2
  <2>3. CASE Last(C) \notin Runs
    <3>1. NestedBlocks(F, Front(C), "body", Body.guard, Body.pop)
      BY <1>0, <1>4, <1>11, <2>3, NestRunnerEnds
    <3> QED
      BY <1>2, <1>11, <2>1, <2>3, <3>1, BodyIs DEF InBody
  <2> QED
    BY <2>2, <2>3
<1>12. ASSUME NEW r \in Runners, CallClose(M, r) PROVE Nested'
  <2>1. PICK pop \in BOOLEAN : Call(M, "close", r, pop)
    BY <1>12 DEF CallClose
  <2>2. /\ "close" \in Steps /\ r \in Guards
        /\ M \in Threads /\ doing \in [Threads -> Places]
    BY <1>0, NamesApart DEF Steps
  <2>3. doing'[M].step = "close" /\ doing'[M].guard = r /\ doing'[M].pop = pop
    BY <2>1, <2>2, CallIs
  <2>4. UNCHANGED <<frames, coroutine>> /\ InBody(M) /\ C = <<>>
    BY <1>12 DEF CallClose
  <2>5. F # <<>> /\ r = Last(F)
    BY <1>0, <1>12, TopIs DEF CallClose, Discipline
  <2>6. NestedBlocks(F, C, "close", r, pop)
    BY <1>0, <1>4, <2>4, <2>5, NestClose
  <2> QED
    BY <1>2, <2>3, <2>4, <2>6
<1>13. ASSUME Done(M), ~InBody(M), UNCHANGED coroutine PROVE Nested'
  <2>1. doing[M].step \in Entering \cup Leaving
    BY <1>0, <1>13 DEF Base, Methods, At, Steps, Entering, Leaving
  <2>2. /\ frames'[M] = IF doing[M].pop THEN Front(F) ELSE F
        /\ doing'[M] = Body
    BY <1>0, <1>13, LeavesIs
  <2>3. NestedBlocks(IF doing[M].pop THEN Front(F) ELSE F, C, "body", Body.guard, Body.pop)
    BY <1>0, <1>1, <2>1, NestDone
  <2> QED
    BY <1>2, <1>13, <2>2, <2>3, BodyIs
<1>14. ASSUME NEW s \in Leaving, doing[M].step \in Leaving, Goto(M, s),
              UNCHANGED <<frames, coroutine>>
       PROVE  Nested'
  <2>1. s \in Steps
    BY DEF Leaving, Steps
  <2>2. doing'[M].step = s /\ doing'[M].guard = g /\ doing'[M].pop = doing[M].pop
    BY <1>0, <1>14, <2>1, GotoIs
  <2>3. NestedBlocks(F, C, s, g, doing[M].pop)
    BY <1>1, <1>14, NestLeaving
  <2> QED
    BY <1>2, <1>14, <2>2, <2>3
<1>15. CASE Close(M) \/ NothingToRestore(M) \/ Restore(M) \/ Unset(M)
  <2>1. /\ doing[M].step \in Leaving /\ ~InBody(M) /\ UNCHANGED coroutine
    BY <1>15, BodyIs DEF Close, NothingToRestore, Restore, Unset, At, Leaving, InBody
  <2>2. \/ Done(M)
        \/ Goto(M, "restore") /\ UNCHANGED frames
        \/ Goto(M, "unset") /\ UNCHANGED frames
    BY <1>15 DEF Close, NothingToRestore, Restore, Unset
  <2> QED
    BY <1>13, <1>14, <2>1, <2>2, StepsApart
<1>16. CASE CoroutineEnds(M)
  BY <1>11, <1>16 DEF CoroutineEnds
<1>17. CASE Interrupt
  BY <1>11, <1>13, <1>17 DEF Interrupt, M
<1>18. ASSUME NEW h \in {"default", "custom"}, AppSets(h) PROVE Nested'
  BY <1>18, NestedStays DEF AppSets
<1>19. CASE UNCHANGED vars
  BY <1>19, NestedStays DEF vars
<1>20. ASSUME NEW t \in Threads \ {M},
              \/ CallRun(t) \/ Swap(t) \/ Record(t) \/ Mark(t) \/ CoroutineEnds(t)
              \/ Close(t) \/ NothingToRestore(t) \/ Restore(t) \/ Unset(t)
              \/ \E r \in Runners : RunnerEnter(t, r) \/ RunnerRun(t, r) \/ CallClose(t, r)
       PROVE  Nested'
  BY <1>20, Others, NestedStays
<1> QED
  BY <1>5, <1>6, <1>7, <1>8, <1>9, <1>10, <1>12, <1>15, <1>16, <1>17, <1>18, <1>19, <1>20
     DEF Next

-----------------------------------------------------------------------------
(* What guards leave to the ones above.                                    *)

LEMMA LeftSame ==
  ASSUME NEW F \in Seq(Guards), NEW U, NEW V, NEW P, NEW Q, NEW v, NEW w, NEW h, NEW i,
         LeftBy(F, U, P, v, w, h), i => h,
         \A n \in 1..Len(F) : F[n] \in V <=> F[n] \in U,
         \A n \in 1..Len(F) : F[n] \in U => Q[F[n]] = P[F[n]]
  PROVE  LeftBy(F, V, Q, v, w, i)
<1>1. Len(F) \in Nat
  BY SeqIs
<1>2. \A n \in 1..Len(F) : F[n] \in V => Fits(\E j \in 1..(n - 1) : F[j] \in V, Q[F[n]], w, i)
  BY <1>1 DEF LeftBy, Fits
<1>3. Fits(\E j \in 1..Len(F) : F[j] \in V, v, w, i)
  BY DEF LeftBy, Fits
<1> QED
  BY <1>2, <1>3 DEF LeftBy

\* A guard g is put up: it holds what was there.
LEMMA LeftPush ==
  ASSUME NEW F \in Seq(Guards), NEW U, NEW V, NEW P, NEW Q, NEW v, NEW w, NEW h,
         NEW g \in Guards, LeftBy(F, U, P, v, w, h),
         \A n \in 1..Len(F) : (F[n] \in V <=> F[n] \in U) /\ Q[F[n]] = P[F[n]],
         g \in V, Q[g] = v
  PROVE  LeftBy(Append(F, g), V, Q, "default", w, h)
<1> DEFINE A == Append(F, g)
<1>1. /\ Len(F) \in Nat /\ Len(A) = Len(F) + 1
      /\ \A n \in 1..Len(F) : A[n] = F[n]
      /\ A[Len(F) + 1] = g
  BY AppendIs
<1> HIDE DEF A
<1>2. ASSUME NEW n \in 1..Len(A), A[n] \in V
      PROVE  Fits(\E j \in 1..(n - 1) : A[j] \in V, Q[A[n]], w, h)
  <2>1. CASE n \in 1..Len(F)
    <3>1. F[n] \in U /\ Q[A[n]] = P[F[n]]
      BY <1>1, <1>2, <2>1
    <3>2. Fits(\E j \in 1..(n - 1) : F[j] \in U, P[F[n]], w, h)
      BY <2>1, <3>1 DEF LeftBy
    <3>3. \A j \in 1..(n - 1) : A[j] \in V <=> F[j] \in U
      BY <1>1, <2>1
    <3> QED
      BY <3>1, <3>2, <3>3 DEF Fits
  <2>2. CASE n = Len(F) + 1
    <3>1. \A j \in 1..(n - 1) : A[j] \in V <=> F[j] \in U
      BY <1>1, <2>2
    <3>2. n - 1 = Len(F) /\ Q[A[n]] = v
      BY <1>1, <2>2
    <3> QED
      BY <3>1, <3>2 DEF Fits, LeftBy
  <2>3. n \in 1..Len(F) \/ n = Len(F) + 1
    BY <1>1, <1>2
  <2> QED
    BY <2>1, <2>2, <2>3
<1>3. \E j \in 1..Len(A) : A[j] \in V
  <2>1. Len(F) + 1 \in 1..Len(A)
    BY <1>1
  <2> QED
    BY <1>1, <2>1
<1> QED
  BY <1>2, <1>3 DEF LeftBy, Fits, A

\* The innermost guard goes down: it leaves what it held.
LEMMA LeftDown ==
  ASSUME NEW F \in Seq(Guards), NEW U, NEW V, NEW P, NEW v, NEW w, NEW h,
         LeftBy(F, U, P, v, w, h), F # <<>>, Last(F) \in U, Last(F) \notin V,
         \A n \in 1..(Len(F) - 1) : F[n] \in V <=> F[n] \in U
  PROVE  LeftBy(F, V, P, P[Last(F)], w, h)
<1> DEFINE g == Last(F)
<1>1. Len(F) \in Nat /\ Len(F) > 0 /\ F[Len(F)] = g
  BY FrontIs
<1>2. \A n \in 1..Len(F) : F[n] \in V => n \in 1..(Len(F) - 1)
  BY <1>1
<1>3. ASSUME NEW n \in 1..Len(F), F[n] \in V
      PROVE  Fits(\E j \in 1..(n - 1) : F[j] \in V, P[F[n]], w, h)
  <2>1. F[n] \in U /\ \A j \in 1..(n - 1) : F[j] \in V <=> F[j] \in U
    BY <1>1, <1>2, <1>3
  <2> QED
    BY <2>1 DEF LeftBy, Fits
<1>4. Fits(\E j \in 1..Len(F) : F[j] \in V, P[g], w, h)
  <2>3. Len(F) \in 1..Len(F) /\ F[Len(F)] \in U
    BY <1>1
  <2>1. Fits(\E j \in 1..(Len(F) - 1) : F[j] \in U, P[g], w, h)
    BY <1>1, <2>3 DEF LeftBy
  <2>2. (\E j \in 1..Len(F) : F[j] \in V) <=> (\E j \in 1..(Len(F) - 1) : F[j] \in U)
    BY <1>1, <1>2
  <2> QED
    BY <2>1, <2>2 DEF Fits
<1> QED
  BY <1>3, <1>4 DEF LeftBy

\* A block is left whose guard is down.
LEMMA LeftPop ==
  ASSUME NEW F \in Seq(Guards), NEW U, NEW V, NEW P, NEW Q, NEW v, NEW w, NEW h, NEW i,
         LeftBy(F, U, P, v, w, h), i => h, F # <<>>, Last(F) \notin U,
         \A n \in 1..(Len(F) - 1) : (F[n] \in V <=> F[n] \in U) /\ Q[F[n]] = P[F[n]]
  PROVE  LeftBy(Front(F), V, Q, v, w, i)
<1> DEFINE A == Front(F)
<1>1. /\ Len(F) \in Nat /\ Len(F) > 0 /\ Len(A) = Len(F) - 1
      /\ \A n \in 1..(Len(F) - 1) : A[n] = F[n]
      /\ F[Len(F)] = Last(F)
  BY FrontIs
<1> HIDE DEF A
<1>2. ASSUME NEW n \in 1..Len(A), A[n] \in V
      PROVE  Fits(\E j \in 1..(n - 1) : A[j] \in V, Q[A[n]], w, i)
  <2>3. n \in 1..(Len(F) - 1) /\ n \in 1..Len(F) /\ A[n] = F[n]
    BY <1>1, <1>2
  <2>4. F[n] \in U /\ Q[A[n]] = P[F[n]]
    BY <1>2, <2>3
  <2>5. \A j \in 1..(n - 1) : j \in 1..(Len(F) - 1)
    BY <1>1, <2>3
  <2>1. \A j \in 1..(n - 1) : A[j] \in V <=> F[j] \in U
    BY <1>1, <2>5
  <2>2. Fits(\E j \in 1..(n - 1) : F[j] \in U, P[F[n]], w, h)
    BY <2>3, <2>4 DEF LeftBy
  <2> QED
    BY <2>1, <2>2, <2>4 DEF Fits
<1>3. Fits(\E j \in 1..Len(A) : A[j] \in V, v, w, i)
  <2>1. (\E j \in 1..Len(A) : A[j] \in V) <=> (\E j \in 1..Len(F) : F[j] \in U)
    BY <1>1
  <2> QED
    BY <2>1 DEF LeftBy, Fits
<1> QED
  BY <1>2, <1>3 DEF LeftBy, A

\* Nothing is claimed of what is below all guards: the handler need only be the
\* default one.
LEMMA LeftDefault ==
  ASSUME NEW F \in Seq(Guards), NEW U, NEW V, NEW P, NEW v, NEW w, NEW h, NEW i, NEW pop,
         LeftBy(F, U, P, v, w, h), ~i, pop => F # <<>>,
         \A n \in 1..Len(F) : F[n] \in V => F[n] \in U
  PROVE  LeftBy(IF pop THEN Front(F) ELSE F, V, P, "default", w, i)
<1> DEFINE A == IF pop THEN Front(F) ELSE F
<1>1. /\ Len(F) \in Nat /\ Len(A) \in Nat /\ Len(A) <= Len(F)
      /\ \A n \in 1..Len(A) : A[n] = F[n]
  BY FrontIs
<1> HIDE DEF A
<1>2. ASSUME NEW n \in 1..Len(A), A[n] \in V
      PROVE  Fits(\E j \in 1..(n - 1) : A[j] \in V, P[A[n]], w, i)
  <2>1. /\ F[n] \in U /\ A[n] = F[n] /\ n \in 1..Len(F)
        /\ \A j \in 1..(n - 1) : A[j] \in V => F[j] \in U
    BY <1>1, <1>2
  <2>2. Fits(\E j \in 1..(n - 1) : F[j] \in U, P[F[n]], w, h)
    BY <2>1 DEF LeftBy
  <2> QED
    BY <2>1, <2>2 DEF Fits
<1> QED
  BY <1>2 DEF LeftBy, Fits, A

-----------------------------------------------------------------------------
(* What is left when guards go up and down.                                *)

LEMMA Facts ==
  ASSUME Base, Apart
  PROVE  /\ M \in Threads /\ frames[M] \in Seq(Guards) /\ coroutine[M] \in Seq(Guards)
         /\ frames \in [Threads -> Seq(Guards)] /\ doing \in [Threads -> Places]
         /\ coroutine \in [Threads -> Seq(Guards)]
         /\ doing[M].guard \in Guards /\ doing[M].pop \in BOOLEAN
         /\ doing[M].step \in Steps /\ Len(frames[M]) \in Nat
         /\ handler \in Handlers /\ wanted \in Handlers
         /\ prev \in [Guards -> Found] /\ installed \in [Guards -> BOOLEAN]
         /\ closed \in [Runners -> BOOLEAN]
         /\ \A n \in 1..Len(frames[M]) :
              /\ frames[M][n] \in Guards
              /\ frames[M][n] \notin Runs => frames[M][n] \in Runners
              /\ frames[M][n] \in Runners =>
                   entered[frames[M][n]] \/ closed[frames[M][n]]
<1>1. M \in Threads
  BY GuardAssumption DEF M
<1>2. /\ frames[M] \in Seq(Guards) /\ coroutine[M] \in Seq(Guards)
      /\ doing[M] \in Places
  BY <1>1 DEF Base, ThreadsOK
<1>3. \A n \in 1..Len(frames[M]) : frames[M][n] \in Guards
  BY <1>2, SeqIs
<1>4. \A n \in 1..Len(frames[M]) : In(M, frames[M][n])
  BY DEF In
<1>5. \A n \in 1..Len(frames[M]) :
        frames[M][n] \in Runners => entered[frames[M][n]] \/ closed[frames[M][n]]
  BY <1>1, <1>4 DEF Apart
<1>6. \A n \in 1..Len(frames[M]) : frames[M][n] \notin Runs => frames[M][n] \in Runners
  BY <1>3 DEF Guards
<1> QED
  BY <1>1, <1>2, <1>3, <1>5, <1>6, SeqIs, PlaceIs DEF Base, ThreadsOK, RestOK

LEMMA UpIs ==
  ASSUME NEW k \in Guards
  PROVE  /\ k \in Up <=>
              /\ installed[k]
              /\ IF k \in Runs
                 THEN ~(doing[M].step = "unset" /\ doing[M].guard = k)
                 ELSE ~closed[k] \/ (doing[M].step = "restore" /\ doing[M].guard = k)
         /\ k \in Up' <=>
              /\ installed'[k]
              /\ IF k \in Runs
                 THEN ~(doing'[M].step = "unset" /\ doing'[M].guard = k)
                 ELSE ~closed'[k] \/ (doing'[M].step = "restore" /\ doing'[M].guard = k)
  BY DEF Up, At

LEMMA LeftIs ==
  /\ doing[M].step \notin {"record", "mark"} => Left = handler
  /\ doing[M].step = "record" => Left = doing[M].saved
  /\ doing[M].step = "mark" => Left = prev[doing[M].guard]
  /\ doing'[M].step \notin {"record", "mark"} => Left' = handler'
  /\ doing'[M].step = "record" => Left' = doing'[M].saved
  /\ doing'[M].step = "mark" => Left' = prev'[doing'[M].guard]
  BY DEF Left, At

\* No guard of a block goes up or down.
LEMMA ChainSame ==
  ASSUME Base, Apart, Chain, frames'[M] = frames[M], UNCHANGED <<wanted, cut, reported>>,
         Left' = Left, Kept',
         \A n \in 1..Len(frames[M]) :
           /\ frames[M][n] \in Up' <=> frames[M][n] \in Up
           /\ frames[M][n] \in Up => prev'[frames[M][n]] = prev[frames[M][n]]
  PROVE  Chain'
<1> DEFINE F == frames[M]
<1>1. LeftBy(F, Up, prev, Left, Own, Honest) /\ F \in Seq(Guards)
  BY Facts DEF Chain
<1>2. Honest' = Honest /\ Own' = Own /\ (Honest /\ reported => wanted = "foreign")
  BY DEF Honest, Own, Chain
<1>3. LeftBy(F, Up', prev', Left, Own, Honest)
  BY <1>1, LeftSame
<1> QED
  BY <1>2, <1>3 DEF Chain

\* A method is left with its guard down, and perhaps a block with it.
LEMMA ChainPop ==
  ASSUME Base, Apart, Nested, Chain, Done(M), UNCHANGED <<wanted, cut, reported, handler>>,
         doing[M].step \in {"close", "restore", "unset"},
         doing[M].guard \notin Up, doing[M].pop \/ doing[M].guard \notin Up',
         \A k \in Guards \ {doing[M].guard} :
           /\ k \in Up' <=> k \in Up
           /\ prev'[k] = prev[k]
           /\ installed'[k] = installed[k]
           /\ k \in Runners => closed'[k] = closed[k],
         doing[M].guard \in Runners => closed'[doing[M].guard]
  PROVE  Chain'
<1> DEFINE F == frames[M]
           g == doing[M].guard
<1>1. LeftBy(F, Up, prev, Left, Own, Honest) /\ F \in Seq(Guards) /\ Left = handler
  BY Facts, LeftIs DEF Chain
<1>2. Honest' = Honest /\ Own' = Own /\ (Honest /\ reported => wanted = "foreign")
  BY DEF Honest, Own, Chain
<1>3. frames'[M] = (IF doing[M].pop THEN Front(F) ELSE F) /\ doing'[M] = Body
  BY Facts, LeavesIs
<1>4. doing'[M].step = "body" /\ Left' = handler
  BY <1>3, BodyIs, LeftIs
<1>5. /\ F # <<>> /\ g = Last(F) /\ (g \in Runs => doing[M].pop)
      /\ \A i, j \in 1..Len(F) : i < j => F[i] # F[j]
  BY StepsApart DEF Nested, NestedBlocks, Leaving
<1>6. /\ Len(F) \in Nat /\ Len(F) > 0 /\ g = F[Len(F)]
      /\ Len(Front(F)) = Len(F) - 1
      /\ \A i \in 1..(Len(F) - 1) : Front(F)[i] = F[i]
  <2>1. F \in Seq(Guards) /\ F # <<>> /\ g = Last(F)
    BY <1>1, <1>5
  <2> HIDE DEF F, g
  <2>2. /\ Len(F) \in Nat
        /\ F # <<>> => /\ Len(F) > 0
                       /\ Len(Front(F)) = Len(F) - 1
                       /\ \A i \in 1..(Len(F) - 1) : Front(F)[i] = F[i]
                       /\ Last(F) = F[Len(F)]
    BY ONLY <2>1, FrontIs
  <2> QED
    BY ONLY <2>1, <2>2
<1>7. \A n \in 1..(Len(F) - 1) : F[n] # g /\ n \in 1..Len(F)
  BY <1>5, <1>6
<1>8. \A n \in 1..Len(F) : F[n] \in Guards /\ (F[n] \notin Runs => F[n] \in Runners)
  BY Facts
<1>9. \A n \in 1..(Len(F) - 1) : F[n] \in Guards \ {g}
  BY <1>7, <1>8
<1>10. Kept => \A i \in 1..(Len(F) - 1) : F[i] \in Runs \/ ~closed'[F[i]] => installed'[F[i]]
  BY <1>7, <1>8, <1>9 DEF Kept
<1>11. Kept
  BY DEF Chain
<1>12. CASE doing[M].pop
  <2>1. \A n \in 1..(Len(F) - 1) : (F[n] \in Up' <=> F[n] \in Up) /\ prev'[F[n]] = prev[F[n]]
    BY <1>9
  <2>2. LeftBy(Front(F), Up', prev', Left, Own, Honest)
    BY <1>1, <1>5, <2>1, LeftPop
  <2>3. Kept'
    BY <1>3, <1>4, <1>6, <1>10, <1>11, <1>12 DEF Kept, At
  <2> QED
    BY <1>1, <1>2, <1>3, <1>4, <1>12, <2>2, <2>3 DEF Chain
<1>13. CASE ~doing[M].pop
  <2>1. \A n \in 1..Len(F) : n \in 1..(Len(F) - 1) \/ F[n] = g
    BY <1>6
  <2>2. /\ \A n \in 1..Len(F) : F[n] \in Up' <=> F[n] \in Up
        /\ \A n \in 1..Len(F) : F[n] \in Up => prev'[F[n]] = prev[F[n]]
    BY <1>9, <1>13, <2>1
  <2>3. g \in Runners /\ closed'[g] /\ g \notin Runs
    BY <1>5, <1>6, <1>8, <1>13
  <2>4. \A n \in 1..Len(F) : F[n] \in Runs \/ ~closed'[F[n]] => installed'[F[n]]
    BY <1>10, <1>11, <2>1, <2>3
  <2>5. Kept'
    BY <1>3, <1>4, <1>13, <2>4 DEF Kept, At
  <2> QED
    BY <1>1, <1>3, <1>4, <1>13, <2>2, <2>5, ChainSame
<1> QED
  BY <1>12, <1>13

(* Calls, and the end of a coroutine, move no guard.                       *)
LEMMA QuietChain ==
  ASSUME Base, Discipline, Apart, Nested, Nested', Chain,
         \/ CallRun(M)
         \/ /\ Ends(M) /\ coroutine[M] # <<>> /\ InBody(M)
            /\ UNCHANGED <<prev, installed, closed, frames, handler, wanted, cut, reported>>
         \/ \E r \in Runners : RunnerEnter(M, r) \/ RunnerRun(M, r) \/ CallClose(M, r)
  PROVE  Chain'
<1> DEFINE F == frames[M]
<1>0. /\ doing \in [Threads -> Places] /\ M \in Threads
      /\ prev \in [Guards -> Found] /\ installed \in [Guards -> BOOLEAN]
      /\ \A n \in 1..Len(F) : F[n] \in Guards /\ (F[n] \notin Runs => F[n] \in Runners)
      /\ Kept
  BY Facts DEF Chain
<1>1. /\ UNCHANGED <<frames, handler, wanted, cut, reported, closed>> /\ doing[M] = Body
  BY DEF CallRun, MayRun, RunnerEnter, RunnerRun, CallClose, InBody
<1>2. /\ \/ doing'[M].step \in {"body", "signal", "close"}
         \/ doing'[M].step = "restore" /\ doing'[M].guard \in Runs
      /\ \/ UNCHANGED <<prev, installed>>
         \/ /\ doing'[M].step = "signal"
            /\ \A j \in Guards \ {doing'[M].guard} :
                 prev'[j] = prev[j] /\ installed'[j] = installed[j]
  <2>1. CASE CallRun(M)
    <3> DEFINE k == Len(coroutine[M]) + 1
    <3>1. k \in Guards /\ "signal" \in Steps
      BY <2>1, Facts, LenProperties, GuardAssumption DEF CallRun, MayRun, Guards, Runs, M, Steps
    <3>2. Call(M, "signal", k, FALSE)
      BY <2>1 DEF CallRun, M
    <3>3. doing'[M].step = "signal" /\ doing'[M].guard = k
      BY <1>0, <3>1, <3>2, CallIs
    <3>4. /\ prev' = [prev EXCEPT ![k] = "None"]
          /\ installed' = [installed EXCEPT ![k] = FALSE]
      BY <2>1 DEF CallRun, M
    <3> HIDE DEF k
    <3>5. \A j \in Guards \ {k} : prev'[j] = prev[j] /\ installed'[j] = installed[j]
      BY <1>0, <3>4
    <3> QED
      BY <3>3, <3>5
  <2>2. CASE Ends(M) /\ coroutine[M] # <<>> /\ UNCHANGED <<prev, installed>>
    <3>1. \/ doing'[M].step = "restore" /\ doing'[M].guard \in Runs
          \/ doing' = doing
      BY <2>2, Facts, EndsIs
    <3>2. doing' = doing => doing'[M].step = "body"
      BY <1>1, BodyIs
    <3> QED
      BY <2>2, <3>1, <3>2
  <2>3. ASSUME NEW r \in Runners, RunnerEnter(M, r) \/ CallClose(M, r)
        PROVE  doing'[M].step \in {"signal", "close"} /\ UNCHANGED <<prev, installed>>
    <3>1. PICK s \in {"signal", "close"}, pop \in BOOLEAN : Call(M, s, r, pop)
      BY <2>3 DEF RunnerEnter, CallClose, M
    <3>2. s \in Steps /\ r \in Guards
      BY NamesApart DEF Steps
    <3>3. doing'[M].step = s
      BY <1>0, <3>1, <3>2, CallIs
    <3> QED
      BY <2>3, <3>3 DEF RunnerEnter, CallClose
  <2>4. ASSUME NEW r \in Runners, RunnerRun(M, r)
        PROVE  doing'[M].step = "body" /\ UNCHANGED <<prev, installed>>
    BY <1>1, <2>4, BodyIs DEF RunnerRun
  <2>5. \/ CallRun(M)
        \/ Ends(M) /\ coroutine[M] # <<>> /\ UNCHANGED <<prev, installed>>
        \/ \E r \in Runners : RunnerEnter(M, r) \/ RunnerRun(M, r) \/ CallClose(M, r)
    OBVIOUS
  <2>6. CASE \E r \in Runners : RunnerEnter(M, r) \/ RunnerRun(M, r) \/ CallClose(M, r)
    <3>1. /\ doing'[M].step \in {"body", "signal", "close"}
          /\ UNCHANGED <<prev, installed>>
      BY <2>3, <2>4, <2>6
    <3> QED
      BY <3>1
  <2> QED
    BY <2>1, <2>2, <2>5, <2>6
<1>3. doing'[M].step = "signal" => \A n \in 1..Len(F) : F[n] # doing'[M].guard
  BY <1>1, StepsApart DEF Nested, NestedBlocks
<1>4. /\ \A n \in 1..Len(F) : prev'[F[n]] = prev[F[n]] /\ installed'[F[n]] = installed[F[n]]
  BY <1>0, <1>2, <1>3
<1>5. doing[M].step = "body"
  BY <1>1, BodyIs
<1>6. \A n \in 1..Len(F) : F[n] \in Up' <=> F[n] \in Up
  <2>1. ASSUME NEW n \in 1..Len(F) PROVE F[n] \in Up' <=> F[n] \in Up
    <3>1. F[n] \in Guards /\ installed'[F[n]] = installed[F[n]] /\ closed'[F[n]] = closed[F[n]]
      BY <1>0, <1>1, <1>4
    <3>2. doing'[M].step # "unset"
      BY <1>2
    <3>3. F[n] \notin Runs => ~(doing'[M].step = "restore" /\ doing'[M].guard = F[n])
      BY <1>2
    <3> QED
      BY <1>5, <3>1, <3>2, <3>3, UpIs
  <2> QED
    BY <2>1
<1>7. Left' = Left
  BY <1>1, <1>2, <1>5, LeftIs
<1>8. Kept'
  BY <1>0, <1>1, <1>2, <1>4 DEF Kept, At
<1> QED
  BY <1>1, <1>4, <1>6, <1>7, <1>8, ChainSame

LEMMA LeftSeen ==
  ASSUME NEW F, NEW U, NEW P, NEW w, NEW h, LeftBy(F, U, P, handler, w, h)
  PROVE  LeftBy(F, U, P, Seen(handler), w, h)
  BY DEF LeftBy, Fits, Seen

LEMMA SwapChain ==
  ASSUME Base, Discipline, Apart, Nested, Chain, Swap(M)
  PROVE  Chain'
<1> DEFINE F == frames[M]
<1>1. /\ doing[M].step = "signal"
      /\ doing'[M].step = "record" /\ doing'[M].saved = Seen(handler)
      /\ UNCHANGED <<frames, prev, installed, closed, wanted, cut, reported>>
      /\ handler' = "default"
  BY Facts, SwapIs DEF Swap, At, M
<1>2. LeftBy(F, Up, prev, handler, Own, Honest) /\ Kept /\ F \in Seq(Guards)
  BY <1>1, LeftIs, Facts DEF Chain
<1>3. LeftBy(F, Up, prev, Seen(handler), Own, Honest)
  BY <1>2, LeftSeen
<1>4. \A n \in 1..Len(F) : F[n] \in Up' <=> F[n] \in Up
  BY <1>1, UpIs, Facts
<1>5. LeftBy(F, Up', prev, Seen(handler), Own, Honest)
  BY <1>2, <1>3, <1>4, LeftSame
<1>6. Left' = Seen(handler)
  BY <1>1, LeftIs
<1>7. Honest' = Honest /\ Own' = Own
  BY <1>1 DEF Honest, Own
<1>8. Kept'
  BY <1>1, <1>2 DEF Kept, At
<1> QED
  BY <1>1, <1>5, <1>6, <1>7, <1>8 DEF Chain

LEMMA EnterChain ==
  ASSUME Base, Discipline, Apart, Nested, Chain, Record(M) \/ Mark(M)
  PROVE  Chain'
<1> DEFINE F == frames[M]
           g == doing[M].guard
<1>0. LeftBy(F, Up, prev, Left, Own, Honest) /\ Kept /\ F \in Seq(Guards) /\ g \in Guards
  BY Facts DEF Chain
<1>1. doing[M].step \in {"record", "mark"} /\ \A n \in 1..Len(F) : F[n] # g
  BY StepsApart DEF Nested, NestedBlocks, Record, Mark, At
<1>2. UNCHANGED <<handler, closed, wanted, cut, reported>> /\ handler = "default"
  BY <1>0 DEF Record, Mark, Kept
<1>3. Honest' = Honest /\ Own' = Own
  BY <1>2 DEF Honest, Own
<1>4. \A n \in 1..Len(F) : prev'[F[n]] = prev[F[n]] /\ installed'[F[n]] = installed[F[n]]
  BY <1>1, Facts DEF Record, Mark
<1>5. prev'[g] = Left /\ installed'[g]
  <2>1. CASE Record(M)
    BY <2>1, LeftIs, Facts DEF Record, At
  <2>2. CASE Mark(M)
    BY <1>0, <2>2, LeftIs DEF Mark, At, Kept
  <2> QED
    BY <2>1, <2>2
<1>6. ASSUME doing'[M].step \in {"body", "mark"}
      PROVE  \A n \in 1..Len(F) : F[n] \in Up' <=> F[n] \in Up
  BY <1>1, <1>2, <1>4, <1>6, UpIs, Facts
<1>7. CASE Enters(M, g) /\ (g \in Runners => ~closed[g])
  <2>1. frames'[M] = Append(F, g) /\ doing'[M] = Body
    BY <1>0, <1>7, Facts, EntersIs
  <2>2. doing'[M].step = "body"
    BY <2>1, BodyIs
  <2>3. g \in Up'
    BY <1>0, <1>2, <1>5, <1>7, <2>2, UpIs DEF Guards
  <2>4. LeftBy(Append(F, g), Up', prev', "default", Own, Honest)
    BY <1>0, <1>4, <1>5, <1>6, <2>2, <2>3, LeftPush
  <2>5. Left' = "default"
    BY <1>2, <2>2, LeftIs
  <2>6. /\ Len(F) \in Nat /\ Len(Append(F, g)) = Len(F) + 1
        /\ \A i \in 1..Len(F) : Append(F, g)[i] = F[i]
        /\ Append(F, g)[Len(F) + 1] = g
    BY <1>0, AppendIs
  <2>7. \A i \in 1..Len(Append(F, g)) : i \in 1..Len(F) \/ i = Len(F) + 1
    BY <2>6
  <2>8. \A i \in 1..Len(F) : F[i] \in Runs \/ ~closed'[F[i]] => installed'[F[i]]
    BY <1>0, <1>2, <1>4 DEF Kept
  <2>9. Kept'
    BY <1>5, <2>1, <2>2, <2>6, <2>7, <2>8 DEF Kept, At
  <2> QED
    BY <1>2, <1>3, <2>1, <2>4, <2>5, <2>9 DEF Chain
<1>8. CASE Goto(M, "mark") /\ UNCHANGED frames
  <2>1. doing'[M].step = "mark" /\ doing'[M].guard = g
    BY <1>8, Facts, GotoIs DEF Steps
  <2>2. Left' = Left
    BY <1>5, <2>1, LeftIs
  <2>3. Kept'
    BY <1>0, <1>2, <1>4, <1>5, <1>8, <2>1 DEF Kept, At
  <2> QED
    BY <1>2, <1>4, <1>6, <1>8, <2>1, <2>2, <2>3, ChainSame
<1>9. Mark(M) => Enters(M, g) /\ (g \in Runners => ~closed[g])
  BY Facts DEF Mark, At, Apart
<1>10. Record(M) => \/ Enters(M, g) /\ g \notin Runners
                    \/ Goto(M, "mark") /\ UNCHANGED frames
  BY NamesApart DEF Record
<1> QED
  BY <1>7, <1>8, <1>9, <1>10

LEMMA CloseChain ==
  ASSUME Base, Apart, Nested, Chain, Close(M)
  PROVE  Chain'
<1> DEFINE F == frames[M]
           r == doing[M].guard
<1>0. /\ doing \in [Threads -> Places] /\ M \in Threads /\ r \in Guards
      /\ closed \in [Runners -> BOOLEAN]
      /\ \A n \in 1..Len(F) : /\ F[n] \in Guards
                              /\ F[n] \notin Runs => F[n] \in Runners
                              /\ F[n] \in Runners => entered[F[n]] \/ closed[F[n]]
      /\ Kept
  BY Facts DEF Chain
<1>1. /\ doing[M].step = "close" /\ r \in Runners
      /\ closed' = [closed EXCEPT ![r] = TRUE]
      /\ UNCHANGED <<handler, wanted, prev, installed, entered, cut, reported>>
  BY <1>0 DEF Close, At, Base, Methods
<1>2. closed'[r] /\ \A k \in Runners \ {r} : closed'[k] = closed[k]
  BY <1>0, <1>1
<1>3. CASE Goto(M, "restore") /\ UNCHANGED frames /\ ~closed[r]
  <2>1. "restore" \in Steps
    BY DEF Steps
  <2>2. doing'[M].step = "restore" /\ doing'[M].guard = r
    BY <1>0, <1>3, <2>1, GotoIs
  <2>3. \A k \in Guards : k \in Up' <=> k \in Up
    BY <1>1, <1>2, <1>3, <2>2, UpIs, NamesApart DEF Guards
  <2>4. Left' = Left
    BY <1>1, <2>2, LeftIs
  <2>5. \A n \in 1..Len(F) : F[n] \notin Runs /\ ~closed'[F[n]] => ~closed[F[n]]
    BY <1>0, <1>2
  <2>6. Kept'
    BY <1>0, <1>1, <1>3, <2>2, <2>5 DEF Kept, At
  <2> QED
    BY <1>0, <1>1, <1>3, <2>3, <2>4, <2>6, ChainSame
<1>4. CASE Done(M) /\ closed[r]
  <2>1. doing'[M].step = "body"
    BY <1>4, Facts, LeavesIs, BodyIs
  <2>2. r \notin Up
    BY <1>0, <1>1, <1>4, UpIs, NamesApart
  <2>3. r \notin Up'
    BY <1>0, <1>1, <1>2, <2>1, UpIs, NamesApart
  <2>4. \A k \in Guards \ {r} : k \in Runners => closed'[k] = closed[k]
    BY <1>2
  <2>5. \A k \in Guards \ {r} : k \in Up' <=> k \in Up
    BY <1>1, <2>1, <2>4, UpIs DEF Guards
  <2> QED
    BY <1>1, <1>2, <1>4, <2>2, <2>3, <2>4, <2>5, ChainPop
<1>5. entered[r] \/ closed[r]
  <2>1. F # <<>> /\ r = Last(F)
    BY <1>1, StepsApart DEF Nested, NestedBlocks
  <2>2. Len(F) \in Nat /\ Len(F) > 0 /\ r = F[Len(F)]
    BY <2>1, Facts, FrontIs
  <2>3. Len(F) \in 1..Len(F)
    BY <2>2
  <2> QED
    BY <1>0, <1>1, <2>2, <2>3
<1> QED
  BY <1>3, <1>4, <1>5 DEF Close

\* What Down and the exit from a block do to the guards.
LEMMA DownChain ==
  ASSUME Base, Apart, Nested, Chain, NothingToRestore(M) \/ Unset(M)
  PROVE  Chain'
<1> DEFINE g == doing[M].guard
<1>0. /\ doing[M].step \in {"restore", "unset"} /\ g \in Guards
      /\ prev \in [Guards -> Found] /\ installed \in [Guards -> BOOLEAN]
  BY Facts DEF NothingToRestore, Unset, At
<1>1. /\ Done(M) /\ Down(g)
      /\ UNCHANGED <<handler, wanted, closed, cut, reported>>
  BY DEF NothingToRestore, Unset
<1>2. doing'[M].step = "body"
  BY <1>1, Facts, LeavesIs, BodyIs
<1>3. g \in Runners => closed[g]
  BY <1>0, Facts DEF Apart
<1>4. g \notin Up
  <2>1. CASE NothingToRestore(M)
    BY <1>0, <2>1, UpIs DEF NothingToRestore
  <2>2. CASE Unset(M)
    BY <1>0, <1>3, <2>2, UpIs DEF Unset, At, Guards
  <2> QED
    BY <2>1, <2>2
<1>5. g \notin Up'
  BY <1>0, <1>1, UpIs DEF Down
<1>6. \A k \in Guards \ {g} : prev'[k] = prev[k] /\ installed'[k] = installed[k]
  BY <1>0, <1>1 DEF Down
<1>7. \A k \in Guards \ {g} : k \in Up' <=> k \in Up
  BY <1>1, <1>2, <1>6, UpIs
<1> QED
  BY <1>0, <1>1, <1>3, <1>4, <1>5, <1>6, <1>7, ChainPop

LEMMA RestoreChain ==
  ASSUME Base, Apart, Nested, Chain, Restore(M)
  PROVE  Chain'
<1> DEFINE F == frames[M]
           g == doing[M].guard
<1>0. /\ doing \in [Threads -> Places] /\ M \in Threads /\ g \in Guards
      /\ F \in Seq(Guards) /\ wanted \in Handlers /\ handler \in Handlers
      /\ \A n \in 1..Len(F) : F[n] \in Guards
      /\ Kept /\ LeftBy(F, Up, prev, Left, Own, Honest)
  BY Facts DEF Chain
<1>1. /\ doing[M].step = "restore" /\ installed[g]
      /\ UNCHANGED <<wanted, prev, installed, closed, cut>>
  BY DEF Restore, At
<1>2. g \in Runners => closed[g]
  BY <1>0, <1>1, Facts DEF Apart
<1>3. /\ F # <<>> /\ g = Last(F) /\ (g \in Runs => doing[M].pop)
      /\ \A i, j \in 1..Len(F) : i < j => F[i] # F[j]
  BY <1>1, StepsApart DEF Nested, NestedBlocks
<1>4. /\ Len(F) \in Nat /\ Len(F) > 0 /\ g = F[Len(F)]
      /\ \A i \in 1..(Len(F) - 1) : Front(F)[i] = F[i]
      /\ Len(Front(F)) = Len(F) - 1
  BY <1>0, <1>3, FrontIs
<1>5. g \in Up
  BY <1>0, <1>1, UpIs
<1>6. Len(F) \in 1..Len(F) /\ \A n \in 1..(Len(F) - 1) : F[n] # g /\ n \in 1..Len(F)
  BY <1>3, <1>4
<1>7. Honest' = Honest
  BY <1>1 DEF Honest
<1>8. CASE Goto(M, "unset") /\ handler' = prev[g] /\ UNCHANGED <<frames, reported>>
  <2>1. "unset" \in Steps
    BY DEF Steps
  <2>2. doing'[M].step = "unset" /\ doing'[M].guard = g
    BY <1>0, <1>8, <2>1, GotoIs
  <2>3. g \notin Up'
    BY <1>0, <1>1, <1>2, <2>2, UpIs DEF Guards
  <2>4. \A k \in Guards \ {g} : k \in Up' <=> k \in Up
    BY <1>1, <2>2, UpIs
  <2>5. \A n \in 1..(Len(F) - 1) : F[n] \in Up' <=> F[n] \in Up
    BY <1>0, <1>6, <2>4
  <2>6. LeftBy(F, Up', prev, prev[g], Own, Honest)
    BY <1>0, <1>3, <1>5, <2>3, <2>5, LeftDown
  <2>7. Left' = prev[g]
    BY <1>8, <2>2, LeftIs
  <2>8. Kept'
    BY <1>0, <1>1, <1>8, <2>2 DEF Kept, At
  <2> QED
    BY <1>1, <1>7, <1>8, <2>6, <2>7, <2>8 DEF Chain, Own
<1>9. CASE Done(M) /\ prev[g] = "None" /\ handler' = handler /\ reported' = TRUE
  <2>1. /\ frames'[M] = (IF doing[M].pop THEN Front(F) ELSE F)
        /\ doing'[M].step = "body"
    BY <1>9, Facts, LeavesIs, BodyIs
  <2>2. Fits(\E j \in 1..(Len(F) - 1) : F[j] \in Up, "None", Own, Honest)
    BY <1>0, <1>4, <1>5, <1>6, <1>9 DEF LeftBy
  <2>3. /\ ~\E j \in 1..(Len(F) - 1) : F[j] \in Up
        /\ Honest => wanted = "foreign"
    BY <1>0, <2>2 DEF Fits, Handlers, Own, Seen
  <2>4. Left = "default"
    BY <1>0, <1>4, <1>5, <1>6 DEF LeftBy, Fits
  <2>5. handler = "default"
    BY <1>1, <2>4, LeftIs
  <2>6. \A k \in Guards : k \in Up' => k \in Up
    BY <1>1, <1>5, <2>1, UpIs
  <2>11. \A n \in 1..Len(F) : F[n] \notin Up' \/ (doing[M].pop /\ n = Len(F))
    <3>1. CASE doing[M].pop
      BY <1>0, <1>4, <1>6, <2>3, <2>6, <3>1
    <3>2. CASE ~doing[M].pop
      <4>1. g \notin Up'
        BY <1>0, <1>1, <1>2, <1>3, <2>1, <3>2, UpIs DEF Guards
      <4> QED
        BY <1>0, <1>4, <1>6, <2>3, <2>6, <4>1
    <3> QED
      BY <3>1, <3>2
  <2>7. LeftBy(IF doing[M].pop THEN Front(F) ELSE F, Up', prev, "default", "default", Honest)
    BY <1>4, <1>6, <2>11 DEF LeftBy, Fits
  <2>8. Left' = "default"
    BY <1>9, <2>1, <2>5, LeftIs
  <2>9. \A i \in 1..Len(F) : F[i] \in Runs \/ ~closed'[F[i]] => installed'[F[i]]
    BY <1>0, <1>1 DEF Kept
  <2>10. Kept'
    BY <1>4, <1>6, <2>1, <2>9 DEF Kept, At
  <2> QED
    BY <1>1, <1>7, <1>9, <2>1, <2>3, <2>7, <2>8, <2>10 DEF Chain, Own
<1> QED
  BY <1>8, <1>9 DEF Restore, M

LEMMA InterruptChain ==
  ASSUME Base, Discipline, Apart, Nested, Nested', Chain, Interrupt
  PROVE  Chain'
<1> DEFINE F == frames[M]
           g == doing[M].guard
<1>0. /\ doing \in [Threads -> Places] /\ M \in Threads /\ g \in Guards
      /\ F \in Seq(Guards) /\ \A n \in 1..Len(F) : F[n] \in Guards
      /\ Kept /\ LeftBy(F, Up, prev, Left, Own, Honest)
  BY Facts DEF Chain
<1>1. /\ handler = "default"
      /\ UNCHANGED <<handler, wanted, prev, installed, closed, reported>>
  BY DEF Interrupt
<1>2. CASE /\ InBody(M) /\ coroutine[M] # <<>> /\ Ends(M)
           /\ UNCHANGED <<frames, cut>>
  BY <1>1, <1>2, QuietChain
<1>3. CASE ~InBody(M) /\ Done(M) /\ cut' = (cut \/ doing[M].step \notin {"signal", "unset"})
  <2>1. /\ frames'[M] = (IF doing[M].pop THEN Front(F) ELSE F)
        /\ doing'[M].step = "body"
    BY <1>3, Facts, LeavesIs, BodyIs
  <2>2. Left' = handler
    BY <1>1, <2>1, LeftIs
  <2>3. CASE doing[M].step = "signal"
    <3>1. ~doing[M].pop
      BY <2>3, StepsApart DEF Nested, NestedBlocks
    <3>2. \A k \in Guards : k \in Up' <=> k \in Up
      BY <1>1, <2>1, <2>3, UpIs
    <3>3. Left = handler
      BY <2>3, LeftIs
    <3>4. frames'[M] = F
      BY <2>1, <3>1
    <3>5. Kept'
      BY <1>0, <1>1, <2>1, <3>4 DEF Kept, At
    <3>7. cut \in BOOLEAN
      BY DEF Base, RestOK
    <3>6. UNCHANGED <<wanted, cut, reported>> /\ Left' = Left
      BY <1>1, <1>3, <2>2, <2>3, <3>3, <3>7
    <3> QED
      BY <1>0, <1>1, <3>2, <3>4, <3>5, <3>6, ChainSame
  <2>4. CASE doing[M].step = "unset"
    <3>1. g \in Runners => closed[g]
      BY <1>0, <2>4, Facts DEF Apart
    <3>2. g \notin Up
      BY <1>0, <2>4, <3>1, UpIs DEF Guards
    <3>3. g \in Runs => doing[M].pop
      BY <2>4, StepsApart DEF Nested, NestedBlocks
    <3>4. doing[M].pop \/ g \notin Up'
      BY <1>0, <1>1, <2>1, <3>1, <3>3, UpIs DEF Guards
    <3>5. \A k \in Guards \ {g} : k \in Up' <=> k \in Up
      BY <1>1, <2>1, <2>4, UpIs
    <3>7. cut \in BOOLEAN
      BY DEF Base, RestOK
    <3>6. UNCHANGED <<wanted, cut, reported, handler>>
      BY <1>1, <1>3, <2>4, <3>7
    <3> QED
      BY <1>1, <1>3, <2>4, <3>1, <3>2, <3>4, <3>5, <3>6, ChainPop
  <2>5. CASE doing[M].step \notin {"signal", "unset"}
    <3>1. ~Honest'
      BY <1>3, <2>5 DEF Honest
    <3>2. doing[M].pop => F # <<>>
      <4>1. doing[M].step \in Entering \cup Leaving
        BY <1>0, <1>3, Facts DEF Base, Methods, At, Steps, Entering, Leaving
      <4> QED
        BY <4>1 DEF Nested, NestedBlocks
    <3>3. \A k \in Guards : k \in Up' => k \in Up
      BY <1>1, <2>1, <2>5, UpIs
    <3>8. Own' = Own
      BY <1>1 DEF Own
    <3>4. LeftBy(IF doing[M].pop THEN Front(F) ELSE F, Up', prev, "default", Own', Honest')
      BY <1>0, <3>1, <3>2, <3>3, <3>8, LeftDefault
    <3>5. \A i \in 1..Len(F) : F[i] \in Runs \/ ~closed'[F[i]] => installed'[F[i]]
      BY <1>0, <1>1 DEF Kept
    <3>6. \A i \in 1..Len(frames'[M]) : i \in 1..Len(F) /\ frames'[M][i] = F[i]
      <4>1. CASE ~doing[M].pop
        BY <2>1, <4>1
      <4>2. CASE doing[M].pop
        <5>1. /\ Len(F) \in Nat /\ Len(F) > 0 /\ Len(Front(F)) = Len(F) - 1
              /\ \A i \in 1..(Len(F) - 1) : Front(F)[i] = F[i]
          BY <1>0, <3>2, <4>2, FrontIs
        <5> QED
          BY <2>1, <4>2, <5>1
      <4> QED
        BY <4>1, <4>2
    <3>7. Kept'
      BY <2>1, <3>5, <3>6 DEF Kept, At
    <3> QED
      BY <1>1, <2>1, <2>2, <3>1, <3>4, <3>7 DEF Chain
  <2> QED
    BY <2>3, <2>4, <2>5
<1> QED
  BY <1>2, <1>3 DEF Interrupt, M

(* Another thread has its own Runners, and only the main thread installs.  *)
LEMMA OthersChain ==
  ASSUME Base, Apart, Chain, NEW t \in Threads \ {M},
         \/ CallRun(t) \/ Swap(t) \/ Record(t) \/ Mark(t) \/ CoroutineEnds(t)
         \/ Close(t) \/ NothingToRestore(t) \/ Restore(t) \/ Unset(t)
         \/ \E r \in Runners : RunnerEnter(t, r) \/ RunnerRun(t, r) \/ CallClose(t, r)
  PROVE  Chain'
<1> DEFINE F == frames[M]
           g == doing[M].guard
           h == doing[t].guard
<1>0. /\ M \in Threads /\ t \in Threads /\ t # M /\ g \in Guards
      /\ prev \in [Guards -> Found] /\ installed \in [Guards -> BOOLEAN]
      /\ closed \in [Runners -> BOOLEAN] /\ Kept
      /\ \A n \in 1..Len(F) : F[n] \in Guards /\ (F[n] \notin Runs => F[n] \in Runners)
  BY Facts DEF Chain
<1>1. frames'[M] = F /\ doing'[M] = doing[M]
  BY Others
<1>2. ~Swap(t) /\ ~Record(t)
  BY <1>0 DEF Swap, Record, Base, Methods, At
<1>3. Close(t) \/ NothingToRestore(t) \/ Restore(t) \/ Unset(t) => h \in Runners
  <2>1. Close(t) \/ NothingToRestore(t) \/ Restore(t) \/ Unset(t) => ~InBody(t)
    BY BodyIs DEF Close, NothingToRestore, Restore, Unset, At, InBody
  <2> QED
    BY <1>0, <2>1 DEF Base, Methods
<1>4. UNCHANGED <<handler, wanted, cut, reported>>
  BY <1>0, <1>2 DEF CallRun, Mark, CoroutineEnds, Close, NothingToRestore, Restore, Unset,
                    RunnerEnter, RunnerRun, CallClose, M
<1>5. \/ UNCHANGED <<prev, installed, closed>>
      \/ /\ h \in Runners
         /\ \A k \in Guards \ {h} : prev'[k] = prev[k] /\ installed'[k] = installed[k]
         /\ \A k \in Runners \ {h} : closed'[k] = closed[k]
  <2>1. CASE Close(t)
    BY <1>0, <1>3, <2>1 DEF Close
  <2>2. CASE NothingToRestore(t) \/ Unset(t)
    BY <1>0, <1>3, <2>2 DEF NothingToRestore, Unset, Down
  <2>3. CASE CallRun(t)
    BY <1>0, <2>3 DEF CallRun, M
  <2> QED
    BY <1>2, <2>1, <2>2, <2>3
       DEF Mark, CoroutineEnds, Restore, RunnerEnter, RunnerRun, CallClose
<1>6. h \in Runners => /\ \A n \in 1..Len(F) : F[n] # h
                       /\ g # h
  <2>1. h \in Runners => ~Holds(M, h)
    BY <1>0 DEF Apart, Holds
  <2> QED
    BY <2>1 DEF Holds, In
<1>7. \A k \in Guards : k = g \/ (\E n \in 1..Len(F) : F[n] = k) =>
        /\ prev'[k] = prev[k] /\ installed'[k] = installed[k]
        /\ k \in Runners => closed'[k] = closed[k]
  BY <1>5, <1>6
<1>8. \A n \in 1..Len(F) : /\ F[n] \in Up' <=> F[n] \in Up
                           /\ prev'[F[n]] = prev[F[n]]
  BY <1>0, <1>1, <1>7, UpIs
<1>9. Left' = Left
  BY <1>0, <1>1, <1>4, <1>7, LeftIs
<1>10. Kept'
  BY <1>0, <1>1, <1>4, <1>7 DEF Kept, At
<1> QED
  BY <1>1, <1>4, <1>8, <1>9, <1>10, ChainSame

LEMMA InitChain == Init => Chain
<1> SUFFICES ASSUME Init PROVE Chain
  OBVIOUS
<1>1. /\ frames[M] = <<>> /\ doing[M].step = "body" /\ wanted = handler /\ ~reported
  BY BodyIs, GuardAssumption DEF Init, M
<1>2. Len(<<>>) = 0 /\ Left = handler
  BY <1>1, EmptySeq, LeftIs
<1> QED
  BY <1>1, <1>2 DEF Chain, Kept, LeftBy, Fits, At, Own

(* The application installs handlers outside of all blocks.                *)
LEMMA SetChain ==
  ASSUME Base, Discipline, Chain, NEW h \in {"default", "custom"}, AppSets(h)
  PROVE  Chain'
<1>1. /\ frames'[M] = <<>> /\ doing'[M].step = "body" /\ handler' = h /\ wanted' = h
      /\ ~reported'
  BY BodyIs DEF AppSets, Discipline, InBody, M
<1>2. Len(<<>>) = 0 /\ Left' = h
  BY <1>1, EmptySeq, LeftIs
<1> QED
  BY <1>1, <1>2 DEF Chain, Kept, LeftBy, Fits, At, Own

LEMMA NextChain ==
  Base /\ Discipline /\ Apart /\ Nested /\ Nested' /\ Chain /\ [Next]_vars => Chain'
<1> SUFFICES ASSUME Base, Discipline, Apart, Nested, Nested', Chain, [Next]_vars
             PROVE  Chain'
  OBVIOUS
<1>1. CASE UNCHANGED vars
  <2>1. /\ UNCHANGED <<frames, doing, handler, wanted, prev, installed, closed, cut,
                     reported>>
        /\ Kept
    BY <1>1 DEF vars, Chain
  <2>2. \A n \in 1..Len(frames[M]) : frames[M][n] \in Up' <=> frames[M][n] \in Up
    BY <2>1, UpIs, Facts
  <2>3. Left' = Left /\ Kept'
    BY <2>1 DEF Left, Kept, At
  <2> QED
    BY <2>1, <2>2, <2>3, ChainSame
<1>2. CASE CallRun(M) \/ \E r \in Runners : RunnerEnter(M, r) \/ RunnerRun(M, r) \/ CallClose(M, r)
  BY <1>2, QuietChain
<1>3. CASE CoroutineEnds(M)
  BY <1>3, QuietChain DEF CoroutineEnds
<1>4. CASE \/ Swap(M) \/ Record(M) \/ Mark(M) \/ Close(M) \/ NothingToRestore(M)
           \/ Restore(M) \/ Unset(M)
  BY <1>4, SwapChain, EnterChain, CloseChain, DownChain, RestoreChain
<1>5. ASSUME NEW t \in Threads \ {M},
             \/ CallRun(t) \/ Swap(t) \/ Record(t) \/ Mark(t) \/ CoroutineEnds(t)
             \/ Close(t) \/ NothingToRestore(t) \/ Restore(t) \/ Unset(t)
             \/ \E r \in Runners : RunnerEnter(t, r) \/ RunnerRun(t, r) \/ CallClose(t, r)
      PROVE  Chain'
  BY <1>5, OthersChain
<1>6. CASE Interrupt
  BY <1>6, InterruptChain
<1>7. CASE \E h \in {"default", "custom"} : AppSets(h)
  BY <1>7, SetChain
<1> QED
  BY <1>1, <1>2, <1>3, <1>4, <1>5, <1>6, <1>7 DEF Next

-----------------------------------------------------------------------------
(* The invariant and what follows from it.                                 *)

LEMMA IInvIs == IInv <=> Base /\ (Discipline => Apart /\ Nested /\ Chain)
  BY TypeIs DEF IInv, Base

LEMMA InitIInv == Init => IInv
  BY IInvIs, InitBase, InitApart, InitNested, InitChain

LEMMA NextIInv == IInv /\ [Next]_vars => IInv'
<1> SUFFICES ASSUME IInv, [Next]_vars PROVE IInv'
  OBVIOUS
<1>1. Base'
  BY IInvIs, NextBase
<1>2. Discipline' => Discipline
  BY DEF Discipline, Next, vars, CallRun, Swap, Record, Mark, CoroutineEnds, Close,
         NothingToRestore, Restore, Unset, RunnerEnter, RunnerRun, CallClose, AppSets,
         Interrupt
<1>3. ASSUME Discipline PROVE Apart' /\ Nested' /\ Chain'
  <2>1. Apart' /\ Nested'
    BY <1>3, IInvIs, NextApart, NextNested
  <2> QED
    BY <1>3, <2>1, IInvIs, NextChain
<1>4. IInv' <=> Base' /\ (Discipline' => Apart' /\ Nested' /\ Chain')
  <2>1. TypeOK' <=> RestOK' /\ ThreadsOK'
    BY DEF TypeOK, RestOK, ThreadsOK, Places, Steps, Found
  <2> QED
    BY <2>1 DEF IInv, Base
<1> QED
  BY <1>1, <1>2, <1>3, <1>4

LEMMA AlwaysIInv == Spec => []IInv
  BY InitIInv, NextIInv, PTL DEF Spec

(* The state of the guards is well-formed, whatever a program does with its*)
(* Runners: an entry of a stack of blocks, or of nested calls of           *)
(* run_coroutine, is always a guard, and a guard's _prev is a handler that *)
(* signal() has reported.                                                  *)
THEOREM TypeCorrect == Spec => []TypeOK
<1>1. IInv => TypeOK
  BY DEF IInv
<1> QED
  BY <1>1, AlwaysIInv, PTL

LEMMA IInvReports == IInv => LossIsReported
<1>1. ASSUME IInv, loose = {}, ~cut, reported PROVE wanted = "foreign"
  BY <1>1, IInvIs DEF Discipline, Honest, Chain
<1>2. ASSUME IInv, loose = {}, frames[M] = <<>>, InBody(M), ~cut, ~reported
      PROVE  handler = wanted
  <2>1. Chain /\ Left = handler /\ Honest /\ handler \in Handlers /\ wanted \in Handlers
    BY <1>2, IInvIs, BodyIs, LeftIs DEF Discipline, InBody, Honest, Base, RestOK
  <2>2. Len(<<>>) = 0
    BY EmptySeq
  <2>3. Seen(handler) = Seen(wanted)
    BY <1>2, <2>1, <2>2 DEF Chain, LeftBy, Fits, Own
  <2> QED
    BY <2>1, <2>3 DEF Seen, Handlers
<1> QED
  BY <1>1, <1>2 DEF LossIsReported, Unguarded, M

LEMMA IInvRestores == IInv => RestoredAfterUse
  BY IInvReports DEF LossIsReported, RestoredAfterUse, Unguarded

(* A handler that is lost for good is reported: when a disciplined program *)
(* is out of all its blocks without its own handler, and no                *)
(* KeyboardInterrupt has struck inside of a guard, an exit has raised.     *)
THEOREM ReportsLoss == Spec => []LossIsReported
  BY AlwaysIInv, IInvReports, PTL

(* A disciplined program that is out of all its blocks, and in which no    *)
(* KeyboardInterrupt has struck inside of a guard, has its handler back.   *)
THEOREM RestoresWhatItFound == Spec => []RestoredAfterUse
  BY AlwaysIInv, IInvRestores, PTL

(* While the main thread of a disciplined program runs a coroutine under a *)
(* guard, SIGINT raises KeyboardInterrupt in it.                           *)
THEOREM Interruptible == Spec => []InterruptibleWhileRunning
<1>1. IInv => InterruptibleWhileRunning
  <2> DEFINE F == frames[M]
             g == Last(F)
  <2> SUFFICES ASSUME IInv, loose = {}, InBody(M), F # <<>>, g \in Runs \/ ~closed[g]
               PROVE  handler = "default"
    BY DEF InterruptibleWhileRunning, M
  <2>1. Base /\ Apart /\ Chain /\ Left = handler
    BY IInvIs, BodyIs, LeftIs DEF Discipline, InBody
  <2>2. F \in Seq(Guards)
    BY <2>1, Facts
  <2>3. Len(F) \in Nat /\ Len(F) > 0 /\ g = F[Len(F)] /\ g \in Guards
    BY <2>2, FrontIs
  <2>4. Len(F) \in 1..Len(F)
    BY <2>3
  <2>5. installed[g]
    BY <2>1, <2>3, <2>4 DEF Chain, Kept
  <2>6. g \in Up
    BY <2>3, <2>5, UpIs, BodyIs DEF InBody
  <2> QED
    BY <2>1, <2>3, <2>4, <2>6 DEF Chain, LeftBy, Fits
<1> QED
  BY <1>1, AlwaysIInv, PTL
=====
