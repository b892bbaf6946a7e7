--------------------------- MODULE StepWavesProofs ---------------------------
(***************************************************************************)
(* Invariants of StepWaves, for any finite set of steps, any plan on them  *)
(* and any number of burst steps at a time.                                *)
(***************************************************************************)
EXTENDS StepWaves, FiniteSetTheorems, WellFoundedInduction, TLAPS

-----------------------------------------------------------------------------
\* Numbers.  A set of them has a least one: that of its least initial segment.
LEMMA LeastNatural ==
  ASSUME NEW S \in SUBSET Nat, S # {}
  PROVE  \E n \in S : \A m \in S : n <= m
<1> DEFINE T == {0 .. n : n \in S}
           R == StrictSubsetOrdering(Nat)
<1>1. T \subseteq FiniteSubsetsOf(Nat)
  <2> SUFFICES ASSUME NEW n \in S PROVE 0 .. n \in FiniteSubsetsOf(Nat)
    OBVIOUS
  <2> QED
    BY FS_Interval DEF FiniteSubsetsOf
<1>2. PICK x \in T : \A y \in T : <<y, x>> \notin R
  <2>1. T # {}
    OBVIOUS
  <2> HIDE DEF T, R
  <2>2. IsWellFoundedOn(R, FiniteSubsetsOf(Nat))
    BY FS_StrictSubsetOrderingWellFounded DEF R
  <2> QED
    BY <1>1, <2>1, <2>2, WFMin
<1>3. PICK n \in S : x = 0 .. n
  BY <1>2
<1>4. ASSUME NEW m \in S, m < n PROVE FALSE
  <2>1. 0 .. m \in SUBSET Nat /\ 0 .. n \in SUBSET Nat /\ 0 .. m \subseteq 0 .. n
    BY <1>4
  <2>2. n \in 0 .. n /\ n \notin 0 .. m
    BY <1>4
  <2>3. <<0 .. m, 0 .. n>> \in R
    BY <2>1, <2>2 DEF StrictSubsetOrdering
  <2> QED
    BY <1>2, <1>3, <2>3
<1> QED
  BY <1>3, <1>4

LEMMA GreatestNatural ==
  ASSUME NEW S \in SUBSET Nat, S # {}, NEW b \in Nat, \A n \in S : n <= b
  PROVE  \E n \in S : \A m \in S : m <= n
<1> DEFINE T == {b - n : n \in S}
<1>1. PICK t \in T : \A u \in T : t <= u
  <2>1. T # {}
    OBVIOUS
  <2>2. \A n \in S : b - n \in Nat
    OBVIOUS
  <2>3. T \in SUBSET Nat
    BY <2>2
  <2> HIDE DEF T
  <2> QED
    BY <2>1, <2>3, LeastNatural
<1>2. PICK n \in S : t = b - n
  BY <1>1
<1>3. \A m \in S : b - n <= b - m
  BY <1>1, <1>2
<1> QED
  BY <1>3

-----------------------------------------------------------------------------
\* Types.  While it sorts, compute_waves has given no number beyond the wave it
\* is at; that is why the members of a group have a latest wave.

Numbered == phase = "sorting" => \A s \in Step : wave_index[s] <= wave

LEMMA MergedWaveIsOne ==
  ASSUME TypeOK, Numbered, phase = "sorting", NEW s \in Step
  PROVE  \E t \in Members(s) : /\ MergedWave(s) = wave_index[t] /\ wave_index[t] \in Nat
                                /\ \A u \in Members(s) : wave_index[u] <= wave_index[t]
<1> DEFINE W == {wave_index[t] : t \in Members(s)}
<1>1. s \in Members(s) /\ Members(s) \subseteq Step
  BY DEF Members, TypeOK
<1>2. W \in SUBSET Nat /\ W # {} /\ wave \in Nat /\ \A n \in W : n <= wave
  BY <1>1 DEF TypeOK, Numbered
<1>3. PICK w \in W : \A m \in W : m <= w
  <2> HIDE DEF W
  <2> QED
    BY <1>2, GreatestNatural
<1>4. \E v \in W : \A t \in Members(s) : wave_index[t] <= v
  BY <1>3
<1>5. MergedWave(s) \in W /\ \A t \in Members(s) : wave_index[t] <= MergedWave(s)
  BY <1>4 DEF MergedWave
<1> QED
  BY <1>2, <1>5

TInv == TypeOK /\ Numbered

LEMMA InitHasTypes == Init => TInv
<1> SUFFICES ASSUME Init PROVE TInv
  OBVIOUS
<1>1. wave_index \in [Step -> Nat] /\ result \in [Step -> Result] /\ prompt \in [Step -> SUBSET Step]
  BY DEF Init, Result
<1>2. Numbered
  BY DEF Init, Numbered
<1> QED
  BY <1>1, <1>2 DEF Init, TInv, TypeOK

LEMMA StepKeepsTypes == TInv /\ [Next]_vars => TInv'
<1> SUFFICES ASSUME TInv, [Next]_vars PROVE TInv'
  OBVIOUS
<1> USE DEF TInv, plan, sorter, runner
<1>1. CASE PlaceWave
  BY <1>1 DEF PlaceWave, TypeOK, Numbered, ReadySteps
<1>2. CASE RejectCycle
  BY <1>2 DEF RejectCycle, TypeOK, Numbered
<1>3. CASE MergeGroups
  <2>1. wave_index' \in [Step -> Nat]
    BY <1>3, MergedWaveIsOne DEF MergeGroups
  <2> QED
    BY <1>3, <2>1 DEF MergeGroups, TypeOK, Numbered
<1>4. CASE OpenWave
  BY <1>4 DEF OpenWave, TypeOK, Numbered, Result
<1>5. ASSUME NEW s \in Step, Begin(s) PROVE TInv'
  BY <1>5 DEF Begin, TypeOK, Numbered
<1>6. ASSUME NEW s \in Step, NEW r \in {"ok", "failed"}, Finish(s, r) PROVE TInv'
  BY <1>6 DEF Finish, TypeOK, Numbered, Result
<1>7. CASE CloseWave
  <2>1. Wave \subseteq Step
    BY DEF Wave
  <2>2. step_outputs' \subseteq Step /\ failed_steps' \subseteq Step
    BY <1>7, <2>1 DEF CloseWave, TypeOK
  <2>3. /\ wave' = wave + 1 /\ open' = FALSE
        /\ UNCHANGED <<depends_on, parallel_group, burst, phase, remaining, wave_index,
                       running, result, prompt>>
    BY <1>7 DEF CloseWave
  <2>4. TypeOK'
    <3>1. open' \in BOOLEAN
      BY <2>3
    <3>2. wave' \in Nat
      BY <2>3 DEF TypeOK
    <3> QED
      BY <2>2, <2>3, <3>1, <3>2 DEF TypeOK
  <2>5. Numbered'
    BY <2>3 DEF TypeOK, Numbered
  <2> QED
    BY <2>4, <2>5
<1>8. CASE PassWave
  BY <1>8 DEF PassWave, TypeOK, Numbered
<1>9. CASE EndPlan \/ Ended \/ UNCHANGED vars
  BY <1>9 DEF EndPlan, Ended, vars, TypeOK, Numbered
<1> QED
  BY <1>1, <1>2, <1>3, <1>4, <1>5, <1>6, <1>7, <1>8, <1>9
     DEF Next, BeginSequential, BeginBurst, StepSucceeds, StepFails

LEMMA TypesHold == Spec => []TInv
BY InitHasTypes, StepKeepsTypes, PTL DEF Spec

\* Every variable of the sorter and of the executor keeps its type; the wave a
\* group is merged into always exists.
THEOREM WavesTypeCorrect == Spec => []TypeOK
<1>1. TInv => TypeOK
  BY DEF TInv
<1> QED
  BY <1>1, TypesHold, PTL

-----------------------------------------------------------------------------
\* Paths of dependencies.

\* A step in front of a path makes a longer one.
LEMMA PathGrows ==
  ASSUME NEW deps, NEW s \in Step, NEW d \in Step, d \in deps[s], NEW n \in Nat, Path(deps, d, n) # {}
  PROVE  Path(deps, s, n + 1) # {}
<1>1. PICK p \in Path(deps, d, n) : TRUE
  OBVIOUS
<1>2. p \in [0 .. n -> Step] /\ p[0] = d /\ \A i \in 0 .. n - 1 : p[i + 1] \in deps[p[i]]
  BY <1>1 DEF Path
<1> DEFINE q == [i \in 0 .. n + 1 |-> IF i = 0 THEN s ELSE p[i - 1]]
<1>3. q \in [0 .. n + 1 -> Step] /\ q[0] = s
  BY <1>2
<1>4. ASSUME NEW i \in 0 .. (n + 1) - 1 PROVE q[i + 1] \in deps[q[i]]
  <2>1. q[i + 1] = p[i]
    BY <1>4
  <2>2. CASE i = 0
    BY <1>2, <1>3, <2>1, <2>2
  <2>3. CASE i # 0
    <3>1. i - 1 \in 0 .. n - 1 /\ (i - 1) + 1 = i /\ q[i] = p[i - 1]
      BY <1>4, <2>3
    <3> QED
      BY <1>2, <2>1, <3>1
  <2> QED
    BY <2>2, <2>3
<1>5. q \in Path(deps, s, n + 1)
  <2> HIDE DEF q
  <2> QED
    BY <1>3, <1>4 DEF Path
<1> QED
  BY <1>5

\* A path of at least one edge goes on from a dependency, for as long as one likes
\* within its length.
LEMMA PathGoesOn ==
  ASSUME NEW deps, NEW s \in Step, NEW n \in Nat, Path(deps, s, n + 1) # {}
  PROVE  \E d \in Step : d \in deps[s] /\ \A m \in 0 .. n : Path(deps, d, m) # {}
<1>1. PICK p \in Path(deps, s, n + 1) : TRUE
  OBVIOUS
<1>2. /\ p \in [0 .. n + 1 -> Step] /\ p[0] = s
      /\ \A i \in 0 .. (n + 1) - 1 : p[i + 1] \in deps[p[i]]
  BY <1>1 DEF Path
<1>3. ASSUME NEW m \in 0 .. n PROVE Path(deps, p[1], m) # {}
  <2> DEFINE q == [i \in 0 .. m |-> p[i + 1]]
  <2>1. q \in [0 .. m -> Step] /\ q[0] = p[1]
    BY <1>2
  <2>2. ASSUME NEW i \in 0 .. m - 1 PROVE q[i + 1] \in deps[q[i]]
    <3>1. i + 1 \in 0 .. (n + 1) - 1 /\ q[i] = p[i + 1] /\ q[i + 1] = p[(i + 1) + 1]
      OBVIOUS
    <3> QED
      BY <1>2, <3>1
  <2>3. q \in Path(deps, p[1], m)
    <3> HIDE DEF q
    <3> QED
      BY <2>1, <2>2 DEF Path
  <2> QED
    BY <2>3
<1>4. p[1] \in Step /\ p[1] \in deps[s]
  BY <1>2
<1> QED
  BY <1>3, <1>4

\* Any first part of a path is one.
LEMMA PathsBegin ==
  ASSUME NEW deps, NEW s \in Step, NEW n \in Nat, Path(deps, s, n) # {}, NEW m \in 0 .. n
  PROVE  Path(deps, s, m) # {}
<1>1. PICK p \in Path(deps, s, n) : TRUE
  OBVIOUS
<1>2. p \in [0 .. n -> Step] /\ p[0] = s /\ \A i \in 0 .. n - 1 : p[i + 1] \in deps[p[i]]
  BY <1>1 DEF Path
<1> DEFINE q == [i \in 0 .. m |-> p[i]]
<1>3. q \in [0 .. m -> Step] /\ q[0] = s /\ \A i \in 0 .. m - 1 : q[i + 1] \in deps[q[i]]
  BY <1>2
<1>4. q \in Path(deps, s, m)
  <2> HIDE DEF q
  <2> QED
    BY <1>3 DEF Path
<1> QED
  BY <1>4

LEMMA PathOfNone == ASSUME NEW deps, NEW s \in Step PROVE Path(deps, s, 0) # {}
<1> DEFINE p == [i \in 0 .. 0 |-> s]
<1>1. p \in [0 .. 0 -> Step] /\ p[0] = s
  OBVIOUS
<1>2. \A i \in 0 .. 0 - 1 : p[i + 1] \in deps[p[i]]
  OBVIOUS
<1>3. p \in Path(deps, s, 0)
  <2> HIDE DEF p
  <2> QED
    BY <1>1, <1>2 DEF Path
<1> QED
  BY <1>3

\* Among steps that all depend on one another there are paths of any length.
LEMMA EndlessPaths ==
  ASSUME NEW deps, NEW U \in SUBSET Step, \A s \in U : deps[s] \cap U # {},
         NEW n \in Nat, NEW s \in U
  PROVE  Path(deps, s, n) # {}
<1> DEFINE Bad == {k \in Nat : \E u \in U : Path(deps, u, k) = {}}
<1>1. CASE Bad = {}
  BY <1>1
<1>2. CASE Bad # {}
  <2>1. PICK k \in Bad : \A m \in Bad : k <= m
    <3>1. Bad \in SUBSET Nat
      OBVIOUS
    <3> HIDE DEF Bad
    <3> QED
      BY <1>2, <3>1, LeastNatural
  <2>2. PICK u \in U : Path(deps, u, k) = {}
    BY <2>1
  <2>3. k # 0
    BY <2>2, PathOfNone
  <2>4. k - 1 \in Nat /\ k - 1 \notin Bad /\ (k - 1) + 1 = k
    BY <2>1, <2>3
  <2>5. PICK d \in U : d \in deps[u]
    OBVIOUS
  <2>6. Path(deps, d, k - 1) # {}
    BY <2>4
  <2>7. Path(deps, u, (k - 1) + 1) # {}
    BY <2>4, <2>5, <2>6, PathGrows
  <2> QED
    BY <2>2, <2>4, <2>7
<1> QED
  BY <1>1, <1>2

-----------------------------------------------------------------------------
\* The waves are depths.

\* A placed step comes after what it depends on, and a longest path from it has
\* the length of its number; one that is left depends on another or on a step of
\* the last wave.
Placed ==
  phase = "sorting" =>
    /\ \A s \in Step \ remaining :
         /\ wave_index[s] < wave
         /\ \A d \in depends_on[s] : d \notin remaining /\ wave_index[d] < wave_index[s]
         /\ Path(depends_on, s, wave_index[s]) # {}
         /\ Path(depends_on, s, wave_index[s] + 1) = {}
    /\ wave = 0 => remaining = Step
    /\ wave > 0 => \A s \in remaining :
         \E d \in depends_on[s] : d \in remaining \/ wave_index[d] = wave - 1

\* A plan is refused with steps left that all depend on one another.
Refused ==
  phase = "cycle" => remaining # {} /\ \A s \in remaining : depends_on[s] \cap remaining # {}

\* A merged step is as deep as the deepest of its group.
Merged ==
  Sorted => \A s \in Step :
    /\ \E t \in Together(s) : Path(depends_on, t, wave_index[s]) # {}
    /\ \A t \in Together(s) : Path(depends_on, t, wave_index[s] + 1) = {}

SInv == TypeOK /\ Placed /\ Refused /\ Merged

LEMMA InitIsPlaced == Init => SInv
BY InitHasTypes DEF Init, TInv, SInv, Placed, Refused, Merged, Sorted

LEMMA PlaceWaveKeeps ==
  ASSUME SInv, TypeOK', PlaceWave
  PROVE  SInv'
<1> USE DEF SInv
<1>1. /\ phase = "sorting" /\ phase' = phase /\ depends_on' = depends_on
      /\ remaining' = remaining \ ReadySteps /\ wave' = wave + 1
      /\ wave_index' = [s \in Step |-> IF s \in ReadySteps THEN wave ELSE wave_index[s]]
  BY DEF PlaceWave, plan
<1>3. ReadySteps \subseteq remaining /\ remaining \subseteq Step /\ wave \in Nat
  BY DEF ReadySteps, TypeOK
<1>4. ASSUME NEW s \in Step \ remaining'
      PROVE  /\ wave_index'[s] < wave'
             /\ \A d \in depends_on'[s] : d \notin remaining' /\ wave_index'[d] < wave_index'[s]
             /\ Path(depends_on', s, wave_index'[s]) # {}
             /\ Path(depends_on', s, wave_index'[s] + 1) = {}
  <2>1. CASE s \notin remaining
    <3>1. wave_index'[s] = wave_index[s]
      BY <1>1, <1>3, <2>1
    <3>2. \A d \in depends_on[s] : d \in Step \ remaining /\ wave_index'[d] = wave_index[d]
      BY <1>1, <1>3, <2>1 DEF Placed, TypeOK
    <3>3. wave_index[s] \in Nat
      BY DEF TypeOK
    <3> QED
      BY <1>1, <1>3, <2>1, <3>1, <3>2, <3>3 DEF Placed
  <2>2. CASE s \in ReadySteps
    <3>1. wave_index'[s] = wave
      BY <1>1, <2>2
    <3>2. ASSUME NEW d \in depends_on[s]
          PROVE  d \in Step \ remaining /\ wave_index'[d] = wave_index[d] /\ wave_index[d] < wave
      <4>1. d \in Step \ remaining
        BY <2>2 DEF ReadySteps, TypeOK
      <4> QED
        BY <1>1, <1>3, <4>1 DEF Placed
    <3>3. Path(depends_on, s, wave) # {}
      <4>1. CASE wave = 0
        BY <4>1, PathOfNone
      <4>2. CASE wave # 0
        <5>1. PICK d \in depends_on[s] : wave_index[d] = wave - 1
          BY <1>1, <1>3, <2>2, <3>2, <4>2 DEF Placed
        <5>2. wave - 1 \in Nat /\ (wave - 1) + 1 = wave
          BY <1>3, <4>2
        <5>3. d \in Step \ remaining /\ Path(depends_on, d, wave - 1) # {}
          BY <1>1, <3>2, <5>1 DEF Placed
        <5>4. Path(depends_on, s, (wave - 1) + 1) # {}
          BY <5>1, <5>2, <5>3, PathGrows
        <5> QED
          BY <5>2, <5>4
      <4> QED
        BY <4>1, <4>2
    <3>4. Path(depends_on, s, wave + 1) = {}
      <4> SUFFICES ASSUME Path(depends_on, s, wave + 1) # {} PROVE FALSE
        OBVIOUS
      <4>1. PICK d \in Step : /\ d \in depends_on[s]
                             /\ \A m \in 0 .. wave : Path(depends_on, d, m) # {}
        BY <1>3, PathGoesOn
      <4>2. wave_index[d] + 1 \in 0 .. wave
        BY <1>3, <3>2, <4>1 DEF TypeOK
      <4> QED
        BY <1>1, <3>2, <4>1, <4>2 DEF Placed
    <3> QED
      BY <1>1, <1>3, <3>1, <3>2, <3>3, <3>4
  <2> QED
    BY <1>1, <2>1, <2>2
<1>5. ASSUME NEW s \in remaining'
      PROVE  \E d \in depends_on'[s] : d \in remaining' \/ wave_index'[d] = wave' - 1
  <2>1. PICK d \in depends_on[s] : d \in remaining
    BY <1>1, <1>5 DEF ReadySteps
  <2>2. CASE d \in ReadySteps
    BY <1>1, <1>3, <2>1, <2>2
  <2>3. CASE d \notin ReadySteps
    BY <1>1, <2>1, <2>3
  <2> QED
    BY <2>2, <2>3
<1> QED
  BY <1>1, <1>3, <1>4, <1>5 DEF Placed, Refused, Merged, Sorted

LEMMA MergeKeeps ==
  ASSUME SInv, TypeOK', MergeGroups
  PROVE  SInv'
<1> USE DEF SInv
<1>1. /\ phase = "sorting" /\ remaining = {} /\ phase' = "executing" /\ depends_on' = depends_on
      /\ parallel_group' = parallel_group /\ wave_index' = [s \in Step |-> MergedWave(s)]
  BY DEF MergeGroups, plan
<1>2. \A s \in Step : /\ wave_index[s] \in Nat /\ wave_index[s] < wave
                      /\ Path(depends_on, s, wave_index[s]) # {}
                      /\ Path(depends_on, s, wave_index[s] + 1) = {}
  BY <1>1 DEF Placed, TypeOK
<1>3. ASSUME NEW s \in Step
      PROVE  /\ \E t \in Together(s) : Path(depends_on, t, wave_index'[s]) # {}
             /\ \A t \in Together(s) : Path(depends_on, t, wave_index'[s] + 1) = {}
  <2>1. Together(s) = Members(s) /\ Members(s) \subseteq Step
    BY DEF Together, Members
  <2>2. PICK t \in Members(s) : /\ wave_index'[s] = wave_index[t]
                               /\ \A u \in Members(s) : wave_index[u] <= wave_index[t]
    <3>1. Numbered
      BY <1>2 DEF Numbered, TypeOK
    <3> QED
      BY <1>1, <3>1, MergedWaveIsOne
  <2>3. ASSUME NEW u \in Members(s), Path(depends_on, u, wave_index[t] + 1) # {} PROVE FALSE
    <3>1. u \in Step /\ wave_index[t] + 1 \in Nat /\ wave_index[u] + 1 \in 0 .. wave_index[t] + 1
      BY <1>2, <2>1, <2>2
    <3>2. Path(depends_on, u, wave_index[u] + 1) # {}
      BY <2>3, <3>1, PathsBegin
    <3> QED
      BY <1>2, <3>1, <3>2
  <2> QED
    BY <1>2, <2>1, <2>2, <2>3
<1> QED
  BY <1>1, <1>3 DEF Placed, Refused, Merged, Together

-----------------------------------------------------------------------------
\* The executor, whatever the order of the waves.

\* The steps of earlier waves are over and accounted for; those of later waves
\* have not been touched.
Progress ==
  /\ open \/ running # {} => phase = "executing"
  /\ open => Wave # {}
  /\ running # {} => open
  /\ phase = "sorting" => /\ \A s \in Step : result[s] = "none"
                          /\ failed_steps = {} /\ step_outputs = {}
  /\ Sorted =>
       \A s \in Step :
         /\ wave_index[s] < wave => result[s] # "none"
         /\ wave_index[s] > wave => result[s] = "none"
         /\ wave_index[s] = wave /\ ~open => result[s] = "none"
         /\ s \in running => wave_index[s] = wave /\ result[s] = "none"
         /\ s \in failed_steps <=> wave_index[s] < wave /\ result[s] \in {"failed", "skipped"}
         /\ wave_index[s] < wave /\ result[s] = "ok" => s \in step_outputs
  /\ phase = "done" => \A s \in Step : wave_index[s] < wave

XInv == TypeOK /\ Progress

LEMMA InitIsIdle == Init => XInv
BY InitHasTypes DEF Init, TInv, XInv, Progress, Sorted

LEMMA ExecutionKeeps == XInv /\ TypeOK' /\ [Next]_vars => XInv'
<1> SUFFICES ASSUME XInv, TypeOK', [Next]_vars PROVE Progress'
  BY DEF XInv
<1> USE DEF XInv, plan, sorter, runner, Sorted
<1>1. CASE PlaceWave \/ RejectCycle
  BY <1>1 DEF PlaceWave, RejectCycle, Progress
<1>2. CASE MergeGroups
  BY <1>2 DEF MergeGroups, Progress, TypeOK
<1>3. CASE OpenWave
  BY <1>3 DEF OpenWave, Progress, TypeOK, Wave
<1>4. ASSUME NEW s \in Step, Begin(s) PROVE Progress'
  BY <1>4 DEF Begin, Progress, TypeOK, Wave, Left
<1>5. ASSUME NEW s \in Step, NEW r \in {"ok", "failed"}, Finish(s, r) PROVE Progress'
  BY <1>5 DEF Finish, Progress, TypeOK, Wave
<1>6. CASE CloseWave
  BY <1>6 DEF CloseWave, Progress, TypeOK, Wave, Left, Result
<1>7. CASE PassWave
  BY <1>7 DEF PassWave, Progress, TypeOK, Wave
<1>8. CASE EndPlan
  BY <1>8 DEF EndPlan, Progress, TypeOK, Wave
<1>9. CASE Ended \/ UNCHANGED vars
  BY <1>9 DEF Ended, vars, Progress, Wave
<1> QED
  BY <1>1, <1>2, <1>3, <1>4, <1>5, <1>6, <1>7, <1>8, <1>9
     DEF Next, BeginSequential, BeginBurst, StepSucceeds, StepFails

-----------------------------------------------------------------------------
\* The executor on the dependencies that lie in earlier waves.

\* The executor has looked at step s.
Opened(s) == wave_index[s] < wave \/ (wave_index[s] = wave /\ open)

\* A step is skipped, as soon as its wave is opened, if and only if something it
\* depends on in an earlier wave has not succeeded.
SkipsFollow ==
  Sorted =>
    \A s \in Step : Opened(s) => (result[s] = "skipped" <=> \E d \in Earlier(s) : result[d] # "ok")

\* What prompts are made of: outputs of steps that have succeeded, burst steps only
\* once their wave is over.
Outputs ==
  Sorted => \A d \in step_outputs :
    result[d] = "ok" /\ wave_index[d] <= wave /\ (d \in burst => wave_index[d] < wave)

OInv == XInv /\ SkipsFollow /\ Outputs /\ DependenciesFirst

LEMMA InitIsOrdered == Init => OInv
BY InitIsIdle DEF Init, OInv, SkipsFollow, Outputs, DependenciesFirst, Sorted

\* What DependenciesFirst says of one step.
First(s) ==
  s \in running \/ result[s] \in {"ok", "failed"} =>
    /\ \A d \in Earlier(s) : result[d] = "ok" /\ d \in prompt[s]
    /\ \A d \in prompt[s] :
         /\ result[d] = "ok"
         /\ wave_index[d] <= wave_index[s]
         /\ d \in burst => wave_index[d] < wave_index[s]

LEMMA FirstForAll ==
  /\ DependenciesFirst <=> (Sorted => \A s \in Step : First(s))
  /\ DependenciesFirst' <=> (Sorted' => \A s \in Step : First(s)')
BY DEF DependenciesFirst, First

LEMMA EarlierAreSteps ==
  ASSUME TypeOK, NEW s \in Step, NEW d \in Earlier(s)
  PROVE  d \in Step /\ d \in depends_on[s] /\ wave_index[d] < wave_index[s]
BY DEF Earlier, TypeOK

LEMMA OpenWaveKeepsOrder ==
  ASSUME OInv, OpenWave
  PROVE  SkipsFollow' /\ Outputs' /\ DependenciesFirst'
<1> USE DEF OInv, XInv
<1>1. /\ wave' = wave /\ wave_index' = wave_index /\ depends_on' = depends_on /\ prompt' = prompt
      /\ burst' = burst /\ step_outputs' = step_outputs
      /\ running' = {} /\ running = {} /\ open' = TRUE /\ open = FALSE /\ Sorted /\ Sorted'
  BY DEF OpenWave, Progress, TypeOK, Sorted, plan, sorter
<1>2. \A s \in Step : Earlier(s)' = Earlier(s)
  BY <1>1 DEF Earlier
<1>3. \A s \in Step : wave_index[s] # wave => result'[s] = result[s]
  BY DEF OpenWave, Wave
<1>4. ASSUME NEW s \in Step, wave_index[s] = wave
      PROVE  /\ result[s] = "none" /\ result'[s] \in {"none", "skipped"}
             /\ result'[s] = "skipped" <=> depends_on[s] \cap failed_steps # {}
  BY <1>1, <1>4 DEF OpenWave, Progress, Wave
<1>5. ASSUME NEW s \in Step, wave_index[s] <= wave, NEW d \in Earlier(s)
      PROVE  result'[d] = result[d] /\ (d \in failed_steps <=> result[d] # "ok")
  <2>1. d \in Step /\ wave_index[d] < wave
    BY <1>5, EarlierAreSteps DEF TypeOK
  <2> QED
    BY <1>1, <1>3, <2>1 DEF Progress, TypeOK, Result
<1>6. SkipsFollow'
  <2> SUFFICES ASSUME NEW s \in Step, wave_index[s] <= wave
               PROVE  result'[s] = "skipped" <=> \E d \in Earlier(s) : result'[d] # "ok"
    BY <1>1, <1>2 DEF SkipsFollow, Opened, TypeOK
  <2>1. \A d \in Earlier(s) : result'[d] = result[d] /\ (d \in failed_steps <=> result[d] # "ok")
    BY <1>5
  <2>2. CASE wave_index[s] = wave
    <3>1. ASSUME NEW d \in depends_on[s] \cap failed_steps PROVE d \in Earlier(s)
      BY <1>1, <2>2 DEF Progress, Earlier, TypeOK
    <3>2. Earlier(s) \subseteq depends_on[s]
      BY DEF Earlier
    <3> QED
      BY <1>4, <2>1, <2>2, <3>1, <3>2
  <2>3. CASE wave_index[s] < wave
    <3>1. result[s] = "skipped" <=> \E d \in Earlier(s) : result[d] # "ok"
      BY <1>1, <2>3 DEF SkipsFollow, Opened
    <3>2. result'[s] = result[s]
      BY <1>3, <2>3 DEF TypeOK
    <3> QED
      BY <2>1, <3>1, <3>2
  <2> QED
    BY <2>2, <2>3 DEF TypeOK
<1>7. \A d \in Step : result[d] = "ok" => result'[d] = "ok"
  BY <1>3, <1>4
<1>8. Outputs'
  BY <1>1, <1>7 DEF Outputs, TypeOK
<1>9. DependenciesFirst'
  <2> SUFFICES ASSUME NEW s \in Step, result'[s] \in {"ok", "failed"}
               PROVE  First(s)'
    BY <1>1, FirstForAll DEF First
  <2>1. result'[s] = result[s]
    BY <1>3, <1>4
  <2>2. First(s)
    BY <1>1, FirstForAll
  <2>3. Earlier(s) \subseteq Step /\ prompt[s] \subseteq Step
    BY EarlierAreSteps DEF TypeOK
  <2> QED
    BY <1>1, <1>2, <1>7, <2>1, <2>2, <2>3 DEF First
<1> QED
  BY <1>6, <1>8, <1>9

LEMMA BeginKeepsOrder ==
  ASSUME OInv, NEW s \in Step, Begin(s)
  PROVE  SkipsFollow' /\ Outputs' /\ DependenciesFirst'
<1> USE DEF OInv, XInv
<1>1. /\ UNCHANGED <<wave, wave_index, depends_on, burst, step_outputs, open, result, phase>>
      /\ running' = running \cup {s} /\ prompt' = [prompt EXCEPT ![s] = step_outputs]
      /\ open /\ wave_index[s] = wave /\ result[s] = "none" /\ Sorted /\ Sorted'
  BY DEF Begin, Left, Wave, Progress, Sorted, plan, sorter
<1>2. \A t \in Step : Earlier(t)' = Earlier(t)
  BY <1>1 DEF Earlier
<1>3. SkipsFollow' /\ Outputs'
  BY <1>1, <1>2 DEF SkipsFollow, Opened, Outputs
<1>4. ASSUME NEW d \in Earlier(s) PROVE result[d] = "ok" /\ d \in step_outputs
  <2>1. result[d] = "ok"
    BY <1>1, <1>4 DEF SkipsFollow, Opened
  <2> QED
    BY <1>1, <1>4, <2>1, EarlierAreSteps DEF Progress
<1>5. ASSUME NEW t \in Step PROVE First(t)'
  <2>1. CASE t = s
    <3>1. prompt'[t] = step_outputs
      BY <1>1, <2>1 DEF TypeOK
    <3> QED
      BY <1>1, <1>2, <1>4, <2>1, <3>1 DEF First, Outputs
  <2>2. CASE t # s
    <3>1. prompt'[t] = prompt[t] /\ (t \in running' <=> t \in running)
      BY <1>1, <2>2 DEF TypeOK
    <3>2. First(t)
      BY <1>1, FirstForAll
    <3> QED
      BY <1>1, <1>2, <3>1, <3>2 DEF First
  <2> QED
    BY <2>1, <2>2
<1> QED
  BY <1>3, <1>5, FirstForAll

LEMMA FinishKeepsOrder ==
  ASSUME OInv, NEW s \in Step, NEW r \in {"ok", "failed"}, Finish(s, r)
  PROVE  SkipsFollow' /\ Outputs' /\ DependenciesFirst'
<1> USE DEF OInv, XInv
<1>1. /\ UNCHANGED <<wave, wave_index, depends_on, burst, open, phase, prompt>>
      /\ s \in running /\ running' = running \ {s} /\ result' = [result EXCEPT ![s] = r]
      /\ step_outputs' = IF r = "ok" /\ s \notin burst THEN step_outputs \cup {s} ELSE step_outputs
      /\ wave_index[s] = wave /\ result[s] = "none" /\ Sorted /\ Sorted'
  BY DEF Finish, Progress, Sorted, plan, sorter
<1>2. \A t \in Step : Earlier(t)' = Earlier(t)
  BY <1>1 DEF Earlier
<1>3. result'[s] = r /\ \A t \in Step \ {s} : result'[t] = result[t]
  BY <1>1 DEF TypeOK
<1>4. Outputs'
  BY <1>1, <1>3 DEF Outputs, TypeOK
<1>5. SkipsFollow'
  <2> SUFFICES ASSUME NEW t \in Step, Opened(t)
               PROVE  result'[t] = "skipped" <=> \E d \in Earlier(t) : result'[d] # "ok"
    BY <1>1, <1>2 DEF SkipsFollow, Opened
  <2>1. s \notin Earlier(t)
    BY <1>1, EarlierAreSteps DEF Opened, TypeOK
  <2>2. \A d \in Earlier(t) : result'[d] = result[d]
    BY <1>3, <2>1, EarlierAreSteps
  <2>3. result'[t] = "skipped" <=> result[t] = "skipped"
    BY <1>1, <1>3
  <2>4. result[t] = "skipped" <=> \E d \in Earlier(t) : result[d] # "ok"
    BY <1>1 DEF SkipsFollow
  <2> QED
    BY <2>2, <2>3, <2>4
<1>6. ASSUME NEW t \in Step PROVE First(t)'
  <2>1. First(t)
    BY <1>1, FirstForAll
  <2>2. t \in running' \/ result'[t] \in {"ok", "failed"} => t \in running \/ result[t] \in {"ok", "failed"}
    BY <1>1, <1>3
  <2>3. \A d \in Step : result[d] = "ok" => result'[d] = "ok"
    BY <1>1, <1>3
  <2>4. Earlier(t) \subseteq Step /\ prompt[t] \subseteq Step
    BY EarlierAreSteps DEF TypeOK
  <2> QED
    BY <1>1, <1>2, <2>1, <2>2, <2>3, <2>4 DEF First
<1> QED
  BY <1>4, <1>5, <1>6, FirstForAll

LEMMA CloseKeepsOrder ==
  ASSUME OInv, CloseWave \/ PassWave \/ EndPlan
  PROVE  SkipsFollow' /\ Outputs' /\ DependenciesFirst'
<1> USE DEF OInv, XInv
<1>1. /\ UNCHANGED <<wave_index, depends_on, burst, running, result, prompt>> /\ Sorted /\ Sorted'
      /\ wave' \in {wave, wave + 1} /\ open' = FALSE
      /\ step_outputs' \subseteq step_outputs \cup {s \in Wave : result[s] = "ok"}
      /\ wave' = wave => step_outputs' = step_outputs
  <2>1. CASE CloseWave
    BY <2>1 DEF CloseWave, Progress, Sorted, plan, sorter
  <2>2. CASE PassWave
    BY <2>2 DEF PassWave, Progress, Sorted, plan, sorter, runner, TypeOK
  <2>3. CASE EndPlan
    <3>1. Wave = {}
      BY <2>3 DEF EndPlan, Wave, TypeOK
    <3> QED
      BY <2>3, <3>1 DEF EndPlan, Progress, Sorted, plan, sorter, runner, TypeOK
  <2> QED
    BY <2>1, <2>2, <2>3
<1>2. \A t \in Step : Earlier(t)' = Earlier(t)
  BY <1>1 DEF Earlier
<1>3. ASSUME NEW t \in Step, Opened(t)' PROVE Opened(t)
  BY <1>1, <1>3 DEF Opened, CloseWave, PassWave, EndPlan, Wave, TypeOK
<1>4. SkipsFollow'
  BY <1>1, <1>2, <1>3 DEF SkipsFollow
<1>5. Outputs'
  BY <1>1 DEF Outputs, Wave, TypeOK
<1>6. DependenciesFirst'
  BY <1>1, <1>2, FirstForAll DEF First
<1> QED
  BY <1>4, <1>5, <1>6

LEMMA OrderKeeps == OInv /\ XInv' /\ [Next]_vars => OInv'
<1> SUFFICES ASSUME OInv, TypeOK', [Next]_vars
             PROVE  SkipsFollow' /\ Outputs' /\ DependenciesFirst'
  BY DEF OInv, XInv
<1>1. CASE PlaceWave \/ RejectCycle
  BY <1>1 DEF PlaceWave, RejectCycle, Sorted, SkipsFollow, Outputs, DependenciesFirst
<1>2. CASE MergeGroups
  <2>1. /\ open' = FALSE /\ running' = {} /\ step_outputs' = {} /\ wave' = 0
        /\ \A s \in Step : result'[s] = "none" /\ wave_index'[s] \in Nat
    BY <1>2 DEF MergeGroups, OInv, XInv, Progress, runner, TypeOK
  <2>2. \A s \in Step : ~Opened(s)'
    BY <2>1 DEF Opened
  <2> QED
    BY <2>1, <2>2, FirstForAll DEF SkipsFollow, Outputs, First
<1>3. CASE OpenWave
  BY <1>3, OpenWaveKeepsOrder
<1>4. ASSUME NEW s \in Step, Begin(s) PROVE SkipsFollow' /\ Outputs' /\ DependenciesFirst'
  BY <1>4, BeginKeepsOrder
<1>5. ASSUME NEW s \in Step, NEW r \in {"ok", "failed"}, Finish(s, r)
      PROVE  SkipsFollow' /\ Outputs' /\ DependenciesFirst'
  BY <1>5, FinishKeepsOrder
<1>6. CASE CloseWave \/ PassWave \/ EndPlan
  BY <1>6, CloseKeepsOrder
<1>7. CASE Ended \/ UNCHANGED vars
  BY <1>7 DEF Ended, vars, plan, sorter, runner, OInv, SkipsFollow, Outputs, DependenciesFirst,
              Opened, Earlier, Sorted
<1> QED
  BY <1>1, <1>2, <1>3, <1>4, <1>5, <1>6, <1>7
     DEF Next, BeginSequential, BeginBurst, StepSucceeds, StepFails

-----------------------------------------------------------------------------
\* The sorter: what it has placed stays so, and the executor leaves it alone.

LEMMA SortKeeps == SInv /\ Progress /\ TypeOK' /\ [Next]_vars => SInv'
<1> SUFFICES ASSUME SInv, Progress, TypeOK', [Next]_vars PROVE SInv'
  OBVIOUS
<1> USE DEF SInv
<1>1. CASE PlaceWave
  BY <1>1, PlaceWaveKeeps
<1>2. CASE RejectCycle
  BY <1>2 DEF RejectCycle, Placed, Refused, Merged, Sorted, ReadySteps, TypeOK, plan, sorter
<1>3. CASE MergeGroups
  BY <1>3, MergeKeeps
<1>4. ASSUME UNCHANGED <<plan, phase, sorter, wave>> PROVE SInv'
  <2>1. Placed' /\ Refused'
    BY <1>4 DEF plan, sorter, Placed, Refused
  <2>2. Merged'
    BY <1>4 DEF plan, sorter, Merged, Sorted, Together
  <2> QED
    BY <2>1, <2>2
<1>5. CASE OpenWave \/ CloseWave \/ PassWave \/ EndPlan
  <2>1. UNCHANGED <<plan, sorter>> /\ phase = "executing" /\ Sorted'
    BY <1>5 DEF OpenWave, CloseWave, PassWave, EndPlan, Progress, Sorted
  <2> QED
    BY <2>1 DEF plan, sorter, Placed, Refused, Merged, Sorted, Together
<1>6. CASE \E s \in Step : Begin(s) \/ Finish(s, "ok") \/ Finish(s, "failed")
  BY <1>4, <1>6 DEF Begin, Finish
<1>7. CASE Ended \/ UNCHANGED vars
  BY <1>4, <1>7 DEF Ended, vars
<1> QED
  BY <1>1, <1>2, <1>3, <1>5, <1>6, <1>7
     DEF Next, BeginSequential, BeginBurst, StepSucceeds, StepFails

-----------------------------------------------------------------------------
\* The theorems.

IInv == SInv /\ OInv

LEMMA InvariantHolds == Spec => []IInv
<1>1. Init => IInv
  BY InitIsPlaced, InitIsOrdered DEF IInv
<1>2. TInv /\ TInv' /\ IInv /\ [Next]_vars => IInv'
  BY ExecutionKeeps, OrderKeeps, SortKeeps DEF IInv, TInv, OInv, XInv
<1> QED
  BY <1>1, <1>2, TypesHold, PTL DEF Spec

\* A step that got to run began after all it depends on in earlier waves had
\* succeeded, with their outputs at hand and none of its own wave's burst steps or
\* of later waves (StepExecutor.execute_plan), whatever merging did to the waves.
THEOREM PlansKeepOrder == Spec => []DependenciesFirst
<1>1. IInv => DependenciesFirst
  BY DEF IInv, OInv
<1> QED
  BY <1>1, InvariantHolds, PTL

\* When the plan is over every step has a result, and exactly those below a
\* failure in an earlier wave were skipped (failed_steps in _execute_wave).
THEOREM FailuresSpread == Spec => []FailureSpreads
<1>1. IInv => FailureSpreads
  <2> SUFFICES ASSUME IInv, phase = "done", NEW s \in Step
               PROVE  /\ result[s] # "none"
                      /\ result[s] = "skipped" <=> \E d \in Earlier(s) : result[d] # "ok"
    BY DEF FailureSpreads
  <2>1. wave_index[s] < wave /\ Sorted
    BY DEF IInv, OInv, XInv, Progress, Sorted
  <2> QED
    BY <2>1 DEF IInv, OInv, XInv, Progress, SkipsFollow, Opened
<1> QED
  BY <1>1, InvariantHolds, PTL

\* compute_waves puts every step into the earliest wave its dependencies allow,
\* then each into the earliest wave that suits its whole group, and refuses only
\* plans in which one can follow dependencies for ever.
THEOREM WavesAreAlwaysDepths == Spec => []WavesAreDepths
<1>1. IInv => WavesAreDepths
  <2> SUFFICES ASSUME IInv PROVE WavesAreDepths
    OBVIOUS
  <2>1. ASSUME phase = "cycle"
        PROVE  \E s \in Step : Path(depends_on, s, Cardinality(Step)) # {}
    <3>1. PICK s \in remaining : TRUE
      BY <2>1 DEF IInv, SInv, Refused
    <3>2. Cardinality(Step) \in Nat
      BY StepAssumption, FS_CardinalityType
    <3>3. remaining \in SUBSET Step /\ \A u \in remaining : depends_on[u] \cap remaining # {}
      BY <2>1 DEF IInv, SInv, TypeOK, Refused
    <3>4. Path(depends_on, s, Cardinality(Step)) # {}
      BY <3>2, <3>3, EndlessPaths
    <3> QED
      BY <3>3, <3>4
  <2> QED
    BY <2>1 DEF WavesAreDepths, IInv, SInv, Placed, Merged
<1> QED
  BY <1>1, InvariantHolds, PTL

-----------------------------------------------------------------------------
\* What is refused is a cycle: a path as long as there are steps meets itself.

HasCycle(deps) == \E s \in Step, n \in Nat \ {0} : \E p \in Path(deps, s, n) : p[n] = s

LEMMA LongPathsReturn ==
  ASSUME NEW deps, NEW s \in Step, Path(deps, s, Cardinality(Step)) # {}
  PROVE  HasCycle(deps)
<1> DEFINE n == Cardinality(Step)
<1>1. IsFiniteSet(Step) /\ n \in Nat
  BY StepAssumption, FS_CardinalityType
<1>2. PICK p \in Path(deps, s, n) : TRUE
  OBVIOUS
<1>3. p \in [0 .. n -> Step] /\ \A i \in 0 .. n - 1 : p[i + 1] \in deps[p[i]]
  BY <1>2 DEF Path
<1> HIDE DEF n
<1>4. PICK i \in 0 .. n, k \in 0 .. n : i < k /\ p[i] = p[k]
  <2>1. IsFiniteSet(0 .. n) /\ Cardinality(0 .. n) = n + 1
    BY <1>1, FS_Interval
  <2>2. Cardinality(Step) < Cardinality(0 .. n)
    BY <1>1, <2>1 DEF n
  <2>3. PICK i \in 0 .. n, k \in 0 .. n : i # k /\ p[i] = p[k]
    BY <1>1, <1>3, <2>1, <2>2, FS_PigeonHole
  <2>4. i < k \/ k < i
    BY <2>3
  <2> QED
    BY <2>3, <2>4
<1> DEFINE q == [j \in 0 .. k - i |-> p[i + j]]
<1>5. k - i \in Nat \ {0}
  BY <1>4
<1>6. q \in [0 .. k - i -> Step] /\ q[0] = p[i] /\ q[k - i] = p[i]
  BY <1>1, <1>3, <1>4, <1>5
<1>7. ASSUME NEW j \in 0 .. (k - i) - 1 PROVE q[j + 1] \in deps[q[j]]
  <2>1. i + j \in 0 .. n - 1 /\ q[j] = p[i + j] /\ q[j + 1] = p[(i + j) + 1]
    BY <1>1, <1>4
  <2> QED
    BY <1>3, <2>1
<1> HIDE DEF q
<1>8. q \in Path(deps, p[i], k - i)
  BY <1>6, <1>7 DEF Path
<1>9. p[i] \in Step
  BY <1>3
<1> QED
  BY <1>5, <1>6, <1>8, <1>9 DEF HasCycle

\* compute_waves raises "Circular dependency detected" only on plans that have one.
THEOREM RefusedPlansHaveCycles == Spec => [](phase = "cycle" => HasCycle(depends_on))
<1>1. WavesAreDepths => (phase = "cycle" => HasCycle(depends_on))
  BY LongPathsReturn DEF WavesAreDepths
<1> QED
  BY <1>1, WavesAreAlwaysDepths, PTL

=============================================================================
