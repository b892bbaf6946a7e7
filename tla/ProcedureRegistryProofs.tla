----------------------- MODULE ProcedureRegistryProofs -----------------------
(***************************************************************************)
(* Invariants of ProcedureRegistry, for any number of executions of any    *)
(* procedures.                                                             *)
(***************************************************************************)
EXTENDS ProcedureRegistry, TLAPS

Result == [step : Nat, result : Success \cup {"failed", "raised", "skipped"}]

\* The steps that take an execution to its caller.
Leaves(e) ==
  Reject(e) \/ CheckpointRaises(e) \/ RestoreRaises(e) \/ RetriesRaise(e) \/ Return(e) \/ SaveRaises(e)

-----------------------------------------------------------------------------
\* Lists of results.

\* A result at the end of a list stops or does not; the others are as before.
LEMMA AppendStops ==
  ASSUME NEW e, NEW rs \in Seq(Result), NEW r \in Result
  PROVE  StopsOf(e, Append(rs, r)) =
           IF Stops(e, r) THEN StopsOf(e, rs) \cup {Len(rs) + 1} ELSE StopsOf(e, rs)
<1>1. DOMAIN Append(rs, r) = DOMAIN rs \cup {Len(rs) + 1} /\ Len(rs) + 1 \notin DOMAIN rs
  OBVIOUS
<1>2. \A i \in DOMAIN rs : Append(rs, r)[i] = rs[i]
  OBVIOUS
<1>3. Append(rs, r)[Len(rs) + 1] = r
  OBVIOUS
<1> HIDE DEF Result
<1> QED
  BY <1>1, <1>2, <1>3 DEF StopsOf

\* The steps that have a result.
StepsOf(rs) == {rs[i].step : i \in DOMAIN rs}

LEMMA AppendSteps ==
  ASSUME NEW rs \in Seq(Result), NEW r \in Result
  PROVE  StepsOf(Append(rs, r)) = StepsOf(rs) \cup {r.step}
<1>1. DOMAIN Append(rs, r) = DOMAIN rs \cup {Len(rs) + 1}
  OBVIOUS
<1>2. \A i \in DOMAIN rs : Append(rs, r)[i] = rs[i]
  OBVIOUS
<1>3. Append(rs, r)[Len(rs) + 1] = r
  OBVIOUS
<1> HIDE DEF Result
<1> QED
  BY <1>1, <1>2, <1>3 DEF StepsOf

\* What a list of results says of captured outputs grows with it.
LEMMA AppendCaptures ==
  ASSUME NEW e, NEW rs \in Seq(Result), NEW r \in Result
  PROVE  CapturedBy(e, Append(rs, r)) =
           IF r.result = "ok" /\ Steps[e][r.step].captures
           THEN CapturedBy(e, rs) \cup {<<e, r.step>>} ELSE CapturedBy(e, rs)
<1>1. DOMAIN Append(rs, r) = DOMAIN rs \cup {Len(rs) + 1} /\ Len(rs) + 1 \notin DOMAIN rs
  OBVIOUS
<1>2. \A i \in DOMAIN rs : Append(rs, r)[i] = rs[i]
  OBVIOUS
<1>3. Append(rs, r)[Len(rs) + 1] = r
  OBVIOUS
<1> HIDE DEF Result
<1> QED
  BY <1>1, <1>2, <1>3 DEF CapturedBy

\* Noting the dependencies that are not met stops nothing.
LEMMA NotedFits ==
  ASSUME TypeOK, NEW e \in Execution
  PROVE  /\ Noted(e) \in Seq(Result)
         /\ StopsOf(e, Noted(e)) = StopsOf(e, results[e])
         /\ StepsOf(results[e]) \subseteq StepsOf(Noted(e))
         /\ CapturedBy(e, Noted(e)) = CapturedBy(e, results[e])
<1>1. results[e] \in Seq(Result) /\ Outcome(step[e], "skipped") \in Result
  BY DEF TypeOK, Result, Outcome, Success
<1>2. ~Stops(e, Outcome(step[e], "skipped")) /\ Outcome(step[e], "skipped").result # "ok"
  BY DEF Stops, RollsBack, Outcome
<1>3. CASE Unmet(e) = {}
  BY <1>1, <1>3 DEF Noted
<1>4. CASE Unmet(e) # {}
  <2>1. Noted(e) = Append(results[e], Outcome(step[e], "skipped"))
    BY <1>4 DEF Noted
  <2>2. Noted(e) \in Seq(Result)
    BY <1>1, <2>1
  <2> QED
    BY <1>1, <1>2, <2>1, <2>2, AppendStops, AppendSteps, AppendCaptures
<1> QED
  BY <1>3, <1>4

-----------------------------------------------------------------------------
\* Types.

LEMMA InitHasTypes == Init => TypeOK
<1> SUFFICES ASSUME Init PROVE TypeOK
  OBVIOUS
<1>1. context \in Context /\ \A e \in Execution : checkpoint[e] \in Context /\ found[e] \in Context
  BY DEF Init, NoContext, Context
<1>2. pc \in [Execution -> PC]
  BY DEF Init, PC
<1> QED
  BY <1>1, <1>2 DEF Init, TypeOK

LEMMA ProceedKeepsTypes ==
  ASSUME TypeOK, NEW e \in Execution, NEW from, NEW rs \in Seq(Result), Proceed(e, from, rs)
  PROVE  /\ pc' \in [Execution -> PC] /\ step' \in [Execution -> Nat]
         /\ retries' \in [Execution -> Nat] /\ results' \in [Execution -> Seq(Result)]
         /\ verdict' \in [Execution -> {"none", "success", "failure", "exception"}]
<1>1. pc' \in [Execution -> PC]
  BY DEF TypeOK, Proceed, Goto, PC
<1>2. step' \in [Execution -> Nat] /\ retries' \in [Execution -> Nat]
  BY DEF TypeOK, Proceed
<1>3. results' \in [Execution -> Seq(Result)]
  BY DEF TypeOK, Proceed, Result
<1>4. verdict' \in [Execution -> {"none", "success", "failure", "exception"}]
  BY DEF TypeOK, Proceed, Goto
<1> QED
  BY <1>1, <1>2, <1>3, <1>4

LEMMA StopKeepsTypes ==
  ASSUME TypeOK, NEW e \in Execution, NEW from, NEW rs \in Seq(Result), Stop(e, from, rs)
  PROVE  /\ pc' \in [Execution -> PC] /\ step' \in [Execution -> Nat]
         /\ retries' \in [Execution -> Nat] /\ results' \in [Execution -> Seq(Result)]
         /\ verdict' \in [Execution -> {"none", "success", "failure", "exception"}]
BY DEF TypeOK, Stop, Goto, PC, Result

LEMMA StepKeepsTypes == TypeOK /\ [Next]_vars => TypeOK'
<1> SUFFICES ASSUME TypeOK, [Next]_vars PROVE TypeOK'
  OBVIOUS
<1>1. CASE UNCHANGED vars
  BY <1>1 DEF vars, own, TypeOK
<1> SUFFICES ASSUME NEW e \in Execution,
                    Reject(e) \/ Begin(e) \/ CheckpointRaises(e) \/ Advance(e)
             PROVE  TypeOK'
  BY <1>1 DEF Next
<1>2. CASE Leaves(e)
  BY <1>2
    DEF Leaves, Reject, CheckpointRaises, RestoreRaises, RetriesRaise, Return, SaveRaises, Goto,
        own, TypeOK, PC
<1>3. CASE Begin(e)
  BY <1>3 DEF Begin, Goto, Enter, TakeCheckpoint, TypeOK, PC
<1>4. CASE ResetContext(e)
  BY <1>4 DEF ResetContext, Goto, own, TypeOK, PC, Context
<1>5. CASE LoopEnds(e)
  BY <1>5 DEF LoopEnds, Goto, own, TypeOK, PC
<1>6. CASE TryAgain(e)
  <2>1. /\ retries' \in [Execution -> Nat]
        /\ verdict' \in [Execution -> {"none", "success", "failure", "exception"}]
    BY <1>6 DEF TryAgain, Goto, TypeOK
  <2>2. pc' \in [Execution -> PC]
    BY <1>6 DEF TryAgain, Goto, TypeOK, PC
  <2>3. UNCHANGED <<context, step, results, checkpoint, inputs_of, alone, found>>
    BY <1>6 DEF TryAgain
  <2> QED
    BY <2>1, <2>2, <2>3 DEF TypeOK
<1>7. CASE PassOver(e)
  <2>1. Append(Noted(e), Outcome(step[e], "passed")) \in Seq(Result)
    BY NotedFits DEF TypeOK, Outcome, Result, Success
  <2> QED
    BY <1>7, <2>1, ProceedKeepsTypes DEF PassOver, TypeOK, Result
<1>8. CASE ConditionRaises(e)
  <2>1. Append(Noted(e), Outcome(step[e], "raised")) \in Seq(Result)
    BY NotedFits DEF TypeOK, Outcome, Result, Success
  <2>2. UNCHANGED <<context, checkpoint, inputs_of, alone, found>>
    BY <1>8 DEF ConditionRaises
  <2> DEFINE rs == Append(Noted(e), Outcome(step[e], "raised"))
  <2>3. Stop(e, "stepping", rs) \/ Proceed(e, "stepping", rs)
    BY <1>8 DEF ConditionRaises
  <2> HIDE DEF rs
  <2>4. CASE Stop(e, "stepping", rs)
    BY <2>1, <2>2, <2>4, StopKeepsTypes DEF TypeOK, Result, rs
  <2>5. CASE Proceed(e, "stepping", rs)
    BY <2>1, <2>2, <2>5, ProceedKeepsTypes DEF TypeOK, Result, rs
  <2> QED
    BY <2>3, <2>4, <2>5
<1>9. CASE Interpolate(e)
  <2>1. results' \in [Execution -> Seq(Result)]
    BY <1>9, NotedFits DEF Interpolate, TypeOK, Result
  <2>2. /\ pc' \in [Execution -> PC]
        /\ verdict' \in [Execution -> {"none", "success", "failure", "exception"}]
    BY <1>9 DEF Interpolate, Goto, TypeOK, PC
  <2>3. inputs_of' \in [Execution -> Execution \cup {Nobody}]
    BY <1>9 DEF Interpolate, TypeOK, Context
  <2>4. UNCHANGED <<context, step, retries, checkpoint, alone, found>>
    BY <1>9 DEF Interpolate
  <2> QED
    BY <2>1, <2>2, <2>3, <2>4 DEF TypeOK, Result
<1>10. CASE StepSucceeds(e)
  <2>1. Append(results[e], Succeeded(e)) \in Seq(Result)
    BY DEF TypeOK, Outcome, Result, Success, Succeeded
  <2>2. context' \in Context
    <3>1. context \in Context /\ <<e, step[e]>> \in Execution \X Nat
      BY DEF TypeOK
    <3>2. context' \in {context, [context EXCEPT !.captured = @ \cup {<<e, step[e]>>}]}
      BY <1>10 DEF StepSucceeds
    <3> QED
      BY <3>1, <3>2 DEF Context
  <2>3. UNCHANGED <<checkpoint, inputs_of, alone, found>>
    BY <1>10 DEF StepSucceeds
  <2>4. Proceed(e, "acting", Append(results[e], Succeeded(e)))
    BY <1>10 DEF StepSucceeds
  <2> QED
    BY <2>1, <2>2, <2>3, <2>4, ProceedKeepsTypes DEF TypeOK, Result
<1>11. CASE StepFails(e)
  <2>1. Append(results[e], Outcome(step[e], "failed")) \in Seq(Result)
    BY DEF TypeOK, Outcome, Result, Success, Succeeded
  <2>2. context' \in Context
    BY <1>11 DEF StepFails, Restored, TypeOK
  <2>3. UNCHANGED <<checkpoint, inputs_of, alone, found>>
    BY <1>11 DEF StepFails
  <2> DEFINE rs == Append(results[e], Outcome(step[e], "failed"))
  <2>4. Stop(e, "acting", rs) \/ Proceed(e, "acting", rs)
    BY <1>11 DEF StepFails
  <2> HIDE DEF rs
  <2>5. CASE Stop(e, "acting", rs)
    BY <2>1, <2>2, <2>3, <2>5, StopKeepsTypes DEF TypeOK, Result, rs
  <2>6. CASE Proceed(e, "acting", rs)
    BY <2>1, <2>2, <2>3, <2>6, ProceedKeepsTypes DEF TypeOK, Result, rs
  <2> QED
    BY <2>4, <2>5, <2>6
<1> QED
  BY <1>2, <1>3, <1>4, <1>5, <1>6, <1>7, <1>8, <1>9, <1>10, <1>11 DEF Advance, Leaves

\* Contexts, checkpoint files and results keep their types, whatever executions
\* do to the context they share.
THEOREM RegistryTypeCorrect == Spec => []TypeOK
BY InitHasTypes, StepKeepsTypes, PTL DEF Spec

-----------------------------------------------------------------------------
\* What an execution has come to.

Does(e) == Reject(e) \/ Begin(e) \/ CheckpointRaises(e) \/ Advance(e)

\* While an execution goes on nothing has stopped it, and every step behind it
\* has a result; then its verdict is the one it has earned.
Earning(e) ==
  /\ pc[e] \in {"called", "resetting"} => results[e] = <<>> /\ step[e] = 1
  /\ pc[e] \in {"resetting", "stepping", "acting"} =>
       /\ verdict[e] = "success"
       /\ StopsOf(e, results[e]) = {}
       /\ step[e] # 0
       /\ \A s \in 1 .. step[e] - 1 : s \in StepsOf(results[e])
  /\ pc[e] = "acting" => step[e] <= Len(Steps[e])
  /\ pc[e] = "ending" =>
       IF verdict[e] = "success"
       THEN /\ StopsOf(e, results[e]) = {}
            /\ DOMAIN Steps[e] \subseteq StepsOf(results[e])
       ELSE StopsOf(e, results[e]) = {Len(results[e])}

EInv == \A e \in Execution : Earning(e)

\* An execution moves nothing of another's but the context.
LEMMA OthersStay ==
  ASSUME TypeOK, NEW e \in Execution, Does(e), NEW f \in Execution, f # e
  PROVE  /\ pc'[f] = pc[f] /\ verdict'[f] = verdict[f]
         /\ step'[f] = step[f] /\ results'[f] = results[f]
         /\ checkpoint'[f] = checkpoint[f] /\ inputs_of'[f] = inputs_of[f]
<1>1. CASE Leaves(e)
  BY <1>1
    DEF Leaves, Reject, CheckpointRaises, RestoreRaises, RetriesRaise, Return, SaveRaises, Goto,
        own, TypeOK
<1>2. CASE Begin(e) \/ ResetContext(e) \/ LoopEnds(e) \/ TryAgain(e)
  BY <1>2 DEF Begin, TakeCheckpoint, ResetContext, LoopEnds, TryAgain, Goto, own, TypeOK
<1>3. CASE PassOver(e) \/ ConditionRaises(e)
  BY <1>3 DEF PassOver, ConditionRaises, Proceed, Stop, Goto, TypeOK
<1>4. CASE Interpolate(e)
  BY <1>4 DEF Interpolate, Goto, TypeOK
<1>5. CASE StepSucceeds(e) \/ StepFails(e)
  BY <1>5 DEF StepSucceeds, StepFails, Proceed, Stop, Goto, TypeOK
<1> QED
  BY <1>1, <1>2, <1>3, <1>4, <1>5 DEF Does, Advance, Leaves

\* To go on to the next step, with a result for this one that stops nothing.
LEMMA ProceedEarns ==
  ASSUME TypeOK, NEW e \in Execution, Earning(e), NEW from \in {"stepping", "acting"},
         NEW rs \in Seq(Result), Proceed(e, from, rs),
         StopsOf(e, rs) = {}, StepsOf(results[e]) \cup {step[e]} \subseteq StepsOf(rs)
  PROVE  Earning(e)'
<1>1. /\ pc'[e] = "stepping" /\ verdict'[e] = verdict[e]
      /\ results'[e] = rs /\ step'[e] = step[e] + 1 /\ step[e] \in Nat
  BY DEF Proceed, Goto, TypeOK
<1>2. /\ verdict[e] = "success"
      /\ \A s \in 1 .. step[e] - 1 : s \in StepsOf(results[e])
  BY DEF Proceed, Goto, Earning
<1>3. \A s \in 1 .. step[e] : s \in StepsOf(rs)
  BY <1>1, <1>2
<1> QED
  BY <1>1, <1>2, <1>3 DEF Earning

LEMMA StopEarns ==
  ASSUME TypeOK, NEW e \in Execution, NEW from \in {"stepping", "acting"},
         NEW rs \in Seq(Result), Stop(e, from, rs), StopsOf(e, rs) = {Len(rs)}
  PROVE  Earning(e)'
<1>1. pc'[e] = "ending" /\ verdict'[e] = "failure" /\ results'[e] = rs
  BY DEF Stop, Goto, TypeOK
<1> QED
  BY <1>1 DEF Earning

\* The result of this step, after those noted for its dependencies.
LEMMA ThisStepsResult ==
  ASSUME TypeOK, NEW e \in Execution, Earning(e), pc[e] \in {"stepping", "acting"},
         NEW rs \in {results[e], Noted(e)}, NEW how \in Success \cup {"failed", "raised"}
  PROVE  LET r == Outcome(step[e], how)
         IN  /\ Append(rs, r) \in Seq(Result)
             /\ StepsOf(results[e]) \cup {step[e]} \subseteq StepsOf(Append(rs, r))
             /\ Stops(e, r) => StopsOf(e, Append(rs, r)) = {Len(Append(rs, r))}
             /\ ~Stops(e, r) => StopsOf(e, Append(rs, r)) = {}
             /\ Stops(e, r) <=>
                  \/ how = "failed" /\ Definition(e).on_failure \in {"abort", "rollback"}
                  \/ how = "raised" /\ Definition(e).on_failure = "abort"
<1> DEFINE r == Outcome(step[e], how)
<1>1. r \in Result /\ r.step = step[e] /\ r.result = how
  BY DEF TypeOK, Result, Outcome
<1>2. results[e] \in Seq(Result)
  BY DEF TypeOK, Result
<1>3. /\ rs \in Seq(Result) /\ StopsOf(e, rs) = {}
      /\ StepsOf(results[e]) \subseteq StepsOf(rs)
  BY <1>2, NotedFits DEF Earning
<1>4. Append(rs, r) \in Seq(Result) /\ Len(Append(rs, r)) = Len(rs) + 1
  BY <1>1, <1>3
<1>5. Stops(e, r) <=>
        \/ how = "failed" /\ Definition(e).on_failure \in {"abort", "rollback"}
        \/ how = "raised" /\ Definition(e).on_failure = "abort"
  BY <1>1 DEF Stops, RollsBack, Definition
<1> HIDE DEF r
<1>6. StepsOf(results[e]) \cup {step[e]} \subseteq StepsOf(Append(rs, r))
  BY <1>1, <1>3, AppendSteps
<1>7. StopsOf(e, Append(rs, r)) = IF Stops(e, r) THEN {Len(rs) + 1} ELSE {}
  BY <1>1, <1>3, AppendStops
<1> QED
  BY <1>4, <1>5, <1>6, <1>7 DEF r

\* Only the result of a first try that succeeds adds a captured output.
LEMMA ThisStepsCapture ==
  ASSUME TypeOK, NEW e \in Execution,
         NEW rs \in {results[e], Noted(e)}, NEW how \in Success \cup {"failed", "raised"}
  PROVE  CapturedBy(e, Append(rs, Outcome(step[e], how))) =
           IF how = "ok" /\ Definition(e).captures
           THEN CapturedBy(e, results[e]) \cup {<<e, step[e]>>} ELSE CapturedBy(e, results[e])
<1> DEFINE r == Outcome(step[e], how)
<1>1. r \in Result /\ r.step = step[e] /\ r.result = how
  BY DEF TypeOK, Result, Outcome
<1>2. rs \in Seq(Result) /\ CapturedBy(e, rs) = CapturedBy(e, results[e])
  BY NotedFits DEF TypeOK, Result
<1> HIDE DEF r
<1>3. CapturedBy(e, Append(rs, r)) =
        IF how = "ok" /\ Definition(e).captures
        THEN CapturedBy(e, results[e]) \cup {<<e, step[e]>>} ELSE CapturedBy(e, results[e])
  BY <1>1, <1>2, AppendCaptures DEF Definition
<1> QED
  BY <1>3 DEF r

LEMMA InitEarns == Init => EInv
BY DEF Init, EInv, Earning

LEMMA StepKeepsEarning == TypeOK /\ EInv /\ [Next]_vars => EInv'
<1> SUFFICES ASSUME TypeOK, EInv, [Next]_vars PROVE EInv'
  OBVIOUS
<1>1. CASE UNCHANGED vars
  BY <1>1 DEF vars, own, EInv, Earning
<1> SUFFICES ASSUME NEW e \in Execution, Does(e) PROVE EInv'
  BY <1>1 DEF Next, Does
<1>2. ASSUME NEW f \in Execution, f # e PROVE Earning(f)'
  <2>1. /\ pc'[f] = pc[f] /\ verdict'[f] = verdict[f]
        /\ step'[f] = step[f] /\ results'[f] = results[f]
    BY <1>2, OthersStay
  <2>2. Earning(f)
    BY DEF EInv
  <2> QED
    BY <2>1, <2>2 DEF Earning
<1>3. Earning(e)'
  <2> USE DEF EInv
  <2>1. CASE Leaves(e)
    <3>1. pc'[e] = "returned"
      BY <2>1
        DEF Leaves, Reject, CheckpointRaises, RestoreRaises, RetriesRaise, Return, SaveRaises,
            Goto, TypeOK
    <3> QED
      BY <3>1 DEF Earning
  <2>2. CASE Begin(e)
    <3>1. /\ pc'[e] = "resetting" /\ verdict'[e] = "success"
          /\ step'[e] = 1 /\ results'[e] = <<>>
      BY <2>2 DEF Begin, Goto, TypeOK, Earning
    <3>2. StopsOf(e, <<>>) = {}
      BY DEF StopsOf
    <3> QED
      BY <3>1, <3>2 DEF Earning
  <2>3. CASE ResetContext(e)
    BY <2>3 DEF ResetContext, Goto, own, TypeOK, Earning
  <2>4. CASE PassOver(e)
    <3> DEFINE rs == Append(Noted(e), Outcome(step[e], "passed"))
    <3>1. Proceed(e, "stepping", rs) /\ pc[e] = "stepping"
      BY <2>4 DEF PassOver, AtStep
    <3>2. /\ rs \in Seq(Result) /\ StopsOf(e, rs) = {}
          /\ StepsOf(results[e]) \cup {step[e]} \subseteq StepsOf(rs)
      <4>1. "passed" \in Success \cup {"failed", "raised"} /\ "passed" \notin {"failed", "raised"}
        BY DEF Success
      <4> QED
        BY <3>1, <4>1, ThisStepsResult
    <3> HIDE DEF rs
    <3> QED
      BY <3>1, <3>2, ProceedEarns
  <2>5. CASE ConditionRaises(e)
    <3> DEFINE rs == Append(Noted(e), Outcome(step[e], "raised"))
    <3>1. pc[e] = "stepping"
      BY <2>5 DEF ConditionRaises, AtStep
    <3>2. IF Definition(e).on_failure = "abort"
          THEN Stop(e, "stepping", rs) ELSE Proceed(e, "stepping", rs)
      BY <2>5 DEF ConditionRaises
    <3>3. /\ rs \in Seq(Result)
          /\ StepsOf(results[e]) \cup {step[e]} \subseteq StepsOf(rs)
          /\ StopsOf(e, rs) = IF Definition(e).on_failure = "abort" THEN {Len(rs)} ELSE {}
      BY <3>1, ThisStepsResult
    <3> HIDE DEF rs
    <3> QED
      BY <3>2, <3>3, ProceedEarns, StopEarns
  <2>6. CASE Interpolate(e)
    <3>1. /\ pc[e] = "stepping" /\ step[e] <= Len(Steps[e]) /\ pc'[e] = "acting"
          /\ verdict'[e] = verdict[e] /\ step'[e] = step[e] /\ results'[e] = Noted(e)
      BY <2>6 DEF Interpolate, AtStep, Goto, TypeOK
    <3> QED
      BY <3>1, NotedFits DEF Earning
  <2>7. CASE StepSucceeds(e)
    <3> DEFINE rs == Append(results[e], Succeeded(e))
    <3>1. Proceed(e, "acting", rs) /\ pc[e] = "acting"
      BY <2>7 DEF StepSucceeds, Proceed, Goto
    <3>2. /\ rs \in Seq(Result) /\ StopsOf(e, rs) = {}
          /\ StepsOf(results[e]) \cup {step[e]} \subseteq StepsOf(rs)
      <4>1. PICK how \in Success : rs = Append(results[e], Outcome(step[e], how))
        BY DEF Succeeded, Success
      <4>2. how \notin {"failed", "raised"}
        BY DEF Success
      <4> QED
        BY <3>1, <4>1, <4>2, ThisStepsResult
    <3> HIDE DEF rs
    <3> QED
      BY <3>1, <3>2, ProceedEarns
  <2>8. CASE TryAgain(e)
    BY <2>8 DEF TryAgain, Goto, TypeOK, Earning
  <2>9. CASE StepFails(e)
    <3> DEFINE rs == Append(results[e], Outcome(step[e], "failed"))
    <3>1. pc[e] = "acting"
      BY <2>9 DEF StepFails
    <3>2. IF Definition(e).on_failure \in {"abort", "rollback"}
          THEN Stop(e, "acting", rs) ELSE Proceed(e, "acting", rs)
      BY <2>9 DEF StepFails
    <3>3. /\ rs \in Seq(Result)
          /\ StepsOf(results[e]) \cup {step[e]} \subseteq StepsOf(rs)
          /\ StopsOf(e, rs) =
               IF Definition(e).on_failure \in {"abort", "rollback"} THEN {Len(rs)} ELSE {}
      BY <3>1, ThisStepsResult
    <3> HIDE DEF rs
    <3> QED
      BY <3>2, <3>3, ProceedEarns, StopEarns
  <2>10. CASE LoopEnds(e)
    <3>1. /\ pc[e] = "stepping" /\ pc'[e] = "ending" /\ verdict'[e] = verdict[e]
          /\ results'[e] = results[e] /\ step[e] > Len(Steps[e])
      BY <2>10 DEF LoopEnds, Goto, own, TypeOK
    <3>2. DOMAIN Steps[e] = 1 .. Len(Steps[e]) /\ Len(Steps[e]) \in Nat /\ step[e] \in Nat
      BY ProcedureAssumption DEF TypeOK
    <3>3. /\ verdict[e] = "success" /\ StopsOf(e, results[e]) = {}
          /\ \A s \in 1 .. step[e] - 1 : s \in StepsOf(results[e])
      BY <3>1 DEF Earning
    <3>4. DOMAIN Steps[e] \subseteq StepsOf(results[e])
      BY <3>1, <3>2, <3>3
    <3> QED
      BY <3>1, <3>3, <3>4 DEF Earning
  <2> QED
    BY <2>1, <2>2, <2>3, <2>4, <2>5, <2>6, <2>7, <2>8, <2>9, <2>10 DEF Does, Advance, Leaves
<1> QED
  BY <1>2, <1>3 DEF EInv

LEMMA EarnedVerdicts == TypeOK /\ EInv => VerdictIsEarned
BY DEF EInv, Earning, VerdictIsEarned, StepsOf

\* Whatever fails, is passed over, skipped or tried again: an execution that
\* comes to its end as a success has a result for each of its steps and none
\* that had to stop it, and one that ends as a failure has stopped at the
\* first result that had to.
THEOREM VerdictsAreEarned == Spec => []VerdictIsEarned
BY InitHasTypes, InitEarns, StepKeepsTypes, StepKeepsEarning, EarnedVerdicts, PTL DEF Spec

-----------------------------------------------------------------------------
\* The context.

\* Before an execution has set up the context, neither that nor any checkpoint
\* holds anything of the execution's; its own checkpoint, taken before that,
\* never does, and is what the execution found.
KInv ==
  \A e \in Execution :
    /\ Without(e, checkpoint[e])
    /\ e \in Rollback => checkpoint[e] = found[e]
    /\ pc[e] \in {"called", "resetting"} =>
         /\ Without(e, context)
         /\ \A f \in Execution : Without(e, checkpoint[f])

\* An execution that has met no other is the only one under way.
AInv ==
  \A e \in alone :
    /\ pc[e] # "called"
    /\ Under(e) => \A f \in Execution \ {e} : ~Under(f)

LEMMA InitKeepsContexts == Init => KInv /\ AInv /\ OwnContextWhenAlone /\ RollbackRestores
BY ProcedureAssumption
  DEF Init, KInv, AInv, OwnContextWhenAlone, RollbackRestores, NoContext, Without

\* Where an execution can have come from.
LEMMA Moves ==
  ASSUME TypeOK, NEW e \in Execution, Does(e)
  PROVE  /\ pc'[e] # "called" /\ pc[e] # "returned"
         /\ pc'[e] = "resetting" => pc[e] = "called"
         /\ pc[e] = "called" => pc'[e] \in {"resetting", "returned"}
<1>1. CASE Leaves(e)
  BY <1>1
    DEF Leaves, Reject, CheckpointRaises, RestoreRaises, RetriesRaise, Return, SaveRaises, Goto,
        TypeOK
<1>2. CASE Begin(e) \/ ResetContext(e) \/ LoopEnds(e) \/ TryAgain(e)
  BY <1>2 DEF Begin, ResetContext, LoopEnds, TryAgain, Goto, TypeOK
<1>3. CASE PassOver(e) \/ ConditionRaises(e)
  BY <1>3 DEF PassOver, ConditionRaises, AtStep, Proceed, Stop, Goto, TypeOK
<1>4. CASE Interpolate(e)
  BY <1>4 DEF Interpolate, Goto, TypeOK
<1>5. CASE StepSucceeds(e) \/ StepFails(e)
  BY <1>5 DEF StepSucceeds, StepFails, Proceed, Stop, Goto, TypeOK
<1> QED
  BY <1>1, <1>2, <1>3, <1>4, <1>5 DEF Does, Advance, Leaves

\* The context is set up, captured into or restored; otherwise it stays.
LEMMA ContextMoves ==
  ASSUME TypeOK, NEW e \in Execution, Does(e)
  PROVE  \/ UNCHANGED context
         \/ ResetContext(e)
         \/ /\ pc[e] = "acting" /\ context'.owner = context.owner
            /\ context'.captured = context.captured \cup {<<e, step[e]>>}
         \/ StepFails(e) /\ Definition(e).on_failure = "rollback" /\ context' = checkpoint[e]
<1>1. CASE Leaves(e)
  BY <1>1 DEF Leaves, Reject, CheckpointRaises, RestoreRaises, RetriesRaise, Return, SaveRaises
<1>2. CASE Begin(e) \/ LoopEnds(e) \/ TryAgain(e) \/ PassOver(e) \/ ConditionRaises(e) \/ Interpolate(e)
  BY <1>2 DEF Begin, LoopEnds, TryAgain, PassOver, ConditionRaises, Interpolate
<1>3. CASE StepSucceeds(e)
  <2>1. pc[e] = "acting"
    BY <1>3 DEF StepSucceeds, Proceed, Goto
  <2> QED
    BY <1>3, <2>1 DEF StepSucceeds, TypeOK, Context
<1>4. CASE StepFails(e)
  BY <1>4 DEF StepFails, Restored
<1> QED
  BY <1>1, <1>2, <1>3, <1>4 DEF Does, Advance, Leaves

LEMMA CheckpointMoves ==
  ASSUME TypeOK, NEW e \in Execution, Does(e)
  PROVE  \/ UNCHANGED <<checkpoint, alone, found>>
         \/ /\ Begin(e) /\ UNCHANGED context /\ found' = [found EXCEPT ![e] = context]
            /\ checkpoint'[e] = IF e \in Rollback THEN context ELSE checkpoint[e]
<1>1. CASE Leaves(e)
  BY <1>1 DEF Leaves, Reject, CheckpointRaises, RestoreRaises, RetriesRaise, Return, SaveRaises, own
<1>2. CASE LoopEnds(e) \/ TryAgain(e) \/ PassOver(e) \/ ConditionRaises(e) \/ Interpolate(e)
  BY <1>2 DEF LoopEnds, TryAgain, PassOver, ConditionRaises, Interpolate, own
<1>3. CASE ResetContext(e) \/ StepSucceeds(e) \/ StepFails(e)
  BY <1>3 DEF ResetContext, StepSucceeds, StepFails, own
<1>4. CASE Begin(e)
  BY <1>4 DEF Begin, Enter, TakeCheckpoint, TypeOK
<1> QED
  BY <1>1, <1>2, <1>3, <1>4 DEF Does, Advance, Leaves

LEMMA StepKeepsCheckpoints == TypeOK /\ KInv /\ [Next]_vars => KInv'
<1> SUFFICES ASSUME TypeOK, KInv, [Next]_vars PROVE KInv'
  OBVIOUS
<1>1. CASE UNCHANGED vars
  BY <1>1 DEF vars, own, KInv, Without
<1> SUFFICES ASSUME NEW e \in Execution, Does(e) PROVE KInv'
  BY <1>1 DEF Next, Does
<1>2. \A f \in Execution : f # e => pc'[f] = pc[f] /\ checkpoint'[f] = checkpoint[f]
  BY OthersStay
<1>3. \A f \in Execution : pc'[f] \in {"called", "resetting"} => pc[f] \in {"called", "resetting"}
  BY <1>2, Moves
<1>4. CASE /\ Begin(e) /\ UNCHANGED context /\ found' = [found EXCEPT ![e] = context]
           /\ checkpoint'[e] = IF e \in Rollback THEN context ELSE checkpoint[e]
  <2>1. pc[e] = "called"
    BY <1>4 DEF Begin, Goto
  <2>2. \A f \in Execution : found'[f] = IF f = e THEN context ELSE found[f]
    BY <1>4 DEF TypeOK
  <2>3. \A f \in Execution : pc'[f] \in {"called", "resetting"} =>
          Without(f, context) /\ \A g \in Execution : Without(f, checkpoint'[g])
    BY <1>2, <1>3, <1>4 DEF KInv
  <2>4. \A f \in Execution : Without(f, checkpoint'[f]) /\ (f \in Rollback => checkpoint'[f] = found'[f])
    BY <1>2, <1>4, <2>1, <2>2 DEF KInv
  <2> QED
    BY <1>4, <2>3, <2>4 DEF KInv, Without
<1>5. CASE UNCHANGED <<checkpoint, alone, found>>
  <2>1. SUFFICES ASSUME NEW f \in Execution, pc'[f] \in {"called", "resetting"}
                 PROVE  Without(f, context')
    BY <1>3, <1>5 DEF KInv, Without
  <2>2. /\ Without(f, context) /\ \A g \in Execution : Without(f, checkpoint[g])
        /\ pc[f] \in {"called", "resetting"}
    BY <1>3, <2>1 DEF KInv
  <2>3. CASE UNCHANGED context \/ context' = checkpoint[e]
    BY <2>2, <2>3
  <2>4. CASE ResetContext(e)
    <3>1. context'.owner = e /\ context'.captured = {} /\ pc'[e] = "stepping"
      BY <2>4 DEF ResetContext, Goto, TypeOK
    <3> QED
      BY <2>1, <3>1 DEF Without
  <2>5. CASE /\ pc[e] = "acting" /\ context'.owner = context.owner
             /\ context'.captured = context.captured \cup {<<e, step[e]>>}
    BY <2>2, <2>5 DEF Without
  <2> QED
    BY <2>3, <2>4, <2>5, ContextMoves
<1> QED
  BY <1>4, <1>5, CheckpointMoves

\* An execution that is alone after a step was before, or has begun with it.
LEMMA StepKeepsAlone == TypeOK /\ AInv /\ [Next]_vars => AInv'
<1> SUFFICES ASSUME TypeOK, AInv, [Next]_vars PROVE AInv'
  OBVIOUS
<1>1. CASE UNCHANGED vars
  BY <1>1 DEF vars, own, AInv, Under
<1> SUFFICES ASSUME NEW e \in Execution, Does(e) PROVE AInv'
  BY <1>1 DEF Next, Does
<1>2. \A f \in Execution : f # e => pc'[f] = pc[f]
  BY OthersStay
<1>3. CASE Begin(e)
  <2>1. alone' = IF \E f \in Execution : Under(f) THEN {} ELSE alone \cup {e}
    BY <1>3 DEF Begin, Enter
  <2> QED
    BY <1>2, <2>1, Moves DEF AInv, Under, TypeOK
<1>4. CASE UNCHANGED alone
  <2>1. ~Begin(e) => (Under(e)' => Under(e))
    <3>1. pc[e] = "called" /\ ~Begin(e) => pc'[e] = "returned"
      BY DEF Does, Advance, Reject, CheckpointRaises, ResetContext, PassOver, ConditionRaises,
             Interpolate, StepSucceeds, TryAgain, StepFails, RestoreRaises, RetriesRaise, LoopEnds, Return,
             SaveRaises, AtStep, Proceed, Stop, Goto, TypeOK
    <3> QED
      BY <3>1, Moves DEF Under
  <2> QED
    BY <1>2, <1>3, <1>4, <2>1, Moves DEF AInv, Under, TypeOK
<1> QED
  BY <1>3, <1>4, CheckpointMoves

LEMMA StepKeepsContext ==
  TypeOK /\ EInv /\ AInv /\ OwnContextWhenAlone /\ [Next]_vars => OwnContextWhenAlone'
<1> SUFFICES ASSUME TypeOK, EInv, AInv, OwnContextWhenAlone, [Next]_vars
             PROVE  OwnContextWhenAlone'
  OBVIOUS
<1>1. CASE UNCHANGED vars
  BY <1>1 DEF vars, own, OwnContextWhenAlone
<1> SUFFICES ASSUME NEW e \in Execution, Does(e) PROVE OwnContextWhenAlone'
  BY <1>1 DEF Next, Does
<1> SUFFICES ASSUME NEW f \in alone'
             PROVE  /\ pc'[f] = "acting" => inputs_of'[f] = f
                    /\ pc'[f] \in {"stepping", "acting"} =>
                         context' = [owner |-> f, captured |-> CapturedBy(f, results'[f])]
  BY DEF OwnContextWhenAlone
<1>2. f \in Execution /\ (f \in alone \/ (f = e /\ Begin(e)))
  <2>1. CASE UNCHANGED alone
    BY <2>1 DEF TypeOK
  <2>2. CASE Begin(e)
    <3>1. alone' \subseteq alone \cup {e}
      BY <2>2 DEF Begin, Enter
    <3> QED
      BY <2>2, <3>1 DEF TypeOK
  <2> QED
    BY <2>1, <2>2, CheckpointMoves
<1>3. CASE f # e
  <2>1. /\ f \in alone /\ pc'[f] = pc[f] /\ inputs_of'[f] = inputs_of[f]
        /\ results'[f] = results[f]
    BY <1>2, <1>3, OthersStay
  <2>2. CASE Under(f)
    <3>1. pc[e] = "called" /\ ~ResetContext(e)
      BY <1>2, <1>3, <2>1, <2>2, Moves DEF AInv, Under, ResetContext, Goto
    <3>2. UNCHANGED context
      BY <3>1, ContextMoves DEF StepFails
    <3> QED
      BY <2>1, <3>2 DEF OwnContextWhenAlone
  <2>3. CASE ~Under(f)
    BY <2>1, <2>3 DEF Under
  <2> QED
    BY <2>2, <2>3
<1>4. CASE f = e
  <2> DEFINE Own(rs) == [owner |-> e, captured |-> CapturedBy(e, rs)]
  <2>1. CASE Begin(e)
    BY <1>4, <2>1 DEF Begin, Goto, TypeOK
  <2>2. CASE ResetContext(e)
    <3>1. /\ pc[e] = "resetting" /\ pc'[e] = "stepping" /\ results'[e] = results[e]
          /\ context' = [owner |-> e, captured |-> {}]
      BY <2>2 DEF ResetContext, Goto, own, TypeOK
    <3>2. results[e] = <<>>
      BY <3>1 DEF EInv, Earning
    <3>3. CapturedBy(e, <<>>) = {}
      BY DEF CapturedBy
    <3> QED
      BY <1>4, <3>1, <3>2, <3>3
  <2>3. CASE Interpolate(e)
    <3>1. /\ pc[e] = "stepping" /\ inputs_of'[e] = context.owner
          /\ results'[e] = Noted(e) /\ UNCHANGED context
      BY <2>3 DEF Interpolate, AtStep, Goto, TypeOK
    <3>2. e \in alone
      BY <1>2, <1>4, <3>1 DEF Begin, Goto
    <3>3. context = Own(results[e])
      BY <3>1, <3>2 DEF OwnContextWhenAlone
    <3>4. CapturedBy(e, Noted(e)) = CapturedBy(e, results[e])
      BY NotedFits
    <3> QED
      BY <1>4, <3>1, <3>3, <3>4
  <2>4. CASE PassOver(e) \/ ConditionRaises(e)
    <3>1. /\ UNCHANGED context /\ pc[e] = "stepping" /\ pc'[e] # "acting"
          /\ \/ results'[e] = Append(Noted(e), Outcome(step[e], "passed"))
             \/ results'[e] = Append(Noted(e), Outcome(step[e], "raised"))
      BY <2>4 DEF PassOver, ConditionRaises, AtStep, Proceed, Stop, Goto, TypeOK
    <3>2. CapturedBy(e, results'[e]) = CapturedBy(e, results[e])
      <4>1. "passed" \in Success
        BY DEF Success
      <4>2. \A how \in {"passed", "raised"} :
              CapturedBy(e, Append(Noted(e), Outcome(step[e], how))) = CapturedBy(e, results[e])
        BY <4>1, ThisStepsCapture
      <4> QED
        <5>1. CASE results'[e] = Append(Noted(e), Outcome(step[e], "passed"))
          BY <4>2, <5>1
        <5>2. CASE results'[e] = Append(Noted(e), Outcome(step[e], "raised"))
          BY <4>2, <5>2
        <5> QED
          BY <3>1, <5>1, <5>2
    <3>3. e \in alone
      BY <1>2, <1>4, <3>1 DEF Begin, Goto
    <3>4. context = Own(results[e])
      BY <3>1, <3>3 DEF OwnContextWhenAlone
    <3> QED
      BY <1>4, <3>1, <3>2, <3>4
  <2>5. CASE StepSucceeds(e)
    <3>1. /\ pc[e] = "acting" /\ pc'[e] = "stepping"
          /\ results'[e] = Append(results[e], Succeeded(e))
          /\ context' = IF Captures(e)
                        THEN [context EXCEPT !.captured = @ \cup {<<e, step[e]>>}]
                        ELSE context
      BY <2>5 DEF StepSucceeds, Proceed, Goto, TypeOK
    <3>2. CapturedBy(e, results'[e]) =
            IF Captures(e) THEN CapturedBy(e, results[e]) \cup {<<e, step[e]>>}
            ELSE CapturedBy(e, results[e])
      <4>1. PICK how \in Success : /\ Succeeded(e) = Outcome(step[e], how)
                                   /\ how = "ok" <=> retries[e] = 0
        BY DEF Succeeded, Success
      <4>2. CapturedBy(e, Append(results[e], Outcome(step[e], how))) =
              IF how = "ok" /\ Definition(e).captures
              THEN CapturedBy(e, results[e]) \cup {<<e, step[e]>>} ELSE CapturedBy(e, results[e])
        BY ThisStepsCapture
      <4> QED
        BY <3>1, <4>1, <4>2 DEF Captures
    <3>3. e \in alone
      BY <1>2, <1>4, <3>1 DEF Begin, Goto
    <3>4. context = Own(results[e])
      BY <3>1, <3>3 DEF OwnContextWhenAlone
    <3> QED
      BY <1>4, <3>1, <3>2, <3>4
  <2>6. CASE StepFails(e)
    <3>1. /\ pc[e] = "acting" /\ results'[e] = Append(results[e], Outcome(step[e], "failed"))
          /\ IF Definition(e).on_failure \in {"abort", "rollback"}
             THEN pc'[e] = "ending" ELSE pc'[e] = "stepping"
      BY <2>6 DEF StepFails, Proceed, Stop, Goto, TypeOK
    <3>2. Definition(e).on_failure # "rollback" => UNCHANGED context
      BY <2>6 DEF StepFails, Restored
    <3>3. CapturedBy(e, results'[e]) = CapturedBy(e, results[e])
      <4>1. CapturedBy(e, Append(results[e], Outcome(step[e], "failed"))) = CapturedBy(e, results[e])
        BY ThisStepsCapture
      <4> QED
        BY <3>1, <4>1
    <3>4. e \in alone
      BY <1>2, <1>4, <3>1 DEF Begin, Goto
    <3>5. context = Own(results[e])
      BY <3>1, <3>4 DEF OwnContextWhenAlone
    <3> QED
      BY <1>4, <3>1, <3>2, <3>3, <3>5
  <2>7. CASE TryAgain(e)
    <3>1. /\ pc[e] = "acting" /\ UNCHANGED <<context, results, inputs_of>>
      BY <2>7 DEF TryAgain, Goto
    <3>2. e \in alone
      BY <1>2, <1>4, <3>1 DEF Begin, Goto
    <3> QED
      BY <1>4, <3>1, <3>2 DEF OwnContextWhenAlone
  <2>8. CASE LoopEnds(e)
    BY <1>4, <2>8 DEF LoopEnds, Goto, TypeOK
  <2>9. CASE Leaves(e)
    BY <1>4, <2>9
      DEF Leaves, Reject, CheckpointRaises, RestoreRaises, RetriesRaise, Return, SaveRaises, Goto,
          TypeOK
  <2> QED
    BY <2>1, <2>2, <2>3, <2>4, <2>5, <2>6, <2>7, <2>8, <2>9 DEF Does, Advance, Leaves
<1> QED
  BY <1>3, <1>4

\* An execution that nothing has stopped has not been rolled back.
LEMMA NotRolledBack ==
  ASSUME NEW e, NEW rs, StopsOf(e, rs) = {}
  PROVE  \A i \in DOMAIN rs : ~RollsBack(e, rs[i])
BY DEF StopsOf, Stops

LEMMA StepKeepsRollbacks ==
  TypeOK /\ KInv /\ AInv /\ EInv /\ RollbackRestores /\ [Next]_vars => RollbackRestores'
<1> SUFFICES ASSUME TypeOK, KInv, AInv, EInv, RollbackRestores, [Next]_vars
             PROVE  RollbackRestores'
  OBVIOUS
<1>1. CASE UNCHANGED vars
  BY <1>1 DEF vars, own, RollbackRestores
<1> SUFFICES ASSUME NEW e \in Execution, Does(e) PROVE RollbackRestores'
  BY <1>1 DEF Next, Does
<1> SUFFICES ASSUME NEW f \in alone' \cap Rollback, pc'[f] = "ending",
                    NEW i \in DOMAIN results'[f], RollsBack(f, results'[f][i])
             PROVE  context' = found'[f] /\ Without(f, context')
  BY DEF RollbackRestores, Without
<1>2. f \in Execution /\ f \in alone /\ found'[f] = found[f]
  <2>1. Begin(e) => pc'[e] = "resetting"
    BY DEF Begin, Goto, TypeOK
  <2>2. Begin(e) => alone' \subseteq alone \cup {e}
    BY DEF Begin, Enter
  <2>3. f = e => ~Begin(e)
    BY <2>1
  <2> QED
    BY <2>2, <2>3, CheckpointMoves DEF TypeOK
<1>3. CASE f # e
  <2>1. pc[f] = "ending" /\ results'[f] = results[f]
    BY <1>2, <1>3, OthersStay
  <2>2. pc[e] \in {"called", "returned"}
    BY <1>2, <1>3, <2>1 DEF AInv, Under
  <2>3. UNCHANGED context
    BY <2>2, Moves, ContextMoves DEF StepFails, ResetContext, Goto
  <2> QED
    BY <1>2, <2>1, <2>3 DEF RollbackRestores, Without
<1>4. CASE f = e
  <2>1. CASE StepFails(e)
    <3> DEFINE r == Outcome(step[e], "failed")
               rs == Append(results[e], r)
    <3>1. results'[e] = rs /\ pc[e] = "acting"
      BY <2>1 DEF StepFails, Proceed, Stop, Goto, TypeOK
    <3>2. results[e] \in Seq(Result) /\ r \in Result /\ StopsOf(e, results[e]) = {}
      BY <3>1 DEF EInv, Earning, TypeOK, Result, Outcome
    <3>3. StopsOf(e, rs) \subseteq {Len(rs)} /\ rs[Len(rs)] = r
      BY <3>2, AppendStops
    <3>4. i = Len(rs)
      BY <1>4, <3>1, <3>3 DEF StopsOf, Stops
    <3>5. Definition(e).on_failure = "rollback"
      BY <1>4, <3>1, <3>3, <3>4 DEF RollsBack, Outcome, Definition
    <3>6. context' = checkpoint[e]
      BY <1>4, <2>1, <3>5 DEF StepFails, Restored
    <3> QED
      BY <1>2, <1>4, <3>6 DEF KInv, Without
  <2>2. CASE ConditionRaises(e)
    <3> DEFINE r == Outcome(step[e], "raised")
               rs == Append(Noted(e), r)
    <3>1. results'[e] = rs /\ pc[e] = "stepping"
      BY <2>2 DEF ConditionRaises, AtStep, Proceed, Stop, Goto, TypeOK
    <3>2. Noted(e) \in Seq(Result) /\ r \in Result /\ StopsOf(e, Noted(e)) = {}
      BY <3>1, NotedFits DEF EInv, Earning, TypeOK, Result, Outcome
    <3>3. StopsOf(e, rs) \subseteq {Len(rs)} /\ rs[Len(rs)] = r
      BY <3>2, AppendStops
    <3>4. i = Len(rs)
      BY <1>4, <3>1, <3>3 DEF StopsOf, Stops
    <3> QED
      BY <1>4, <3>1, <3>3, <3>4 DEF RollsBack, Outcome
  <2>3. CASE LoopEnds(e)
    <3>1. results'[e] = results[e] /\ pc[e] = "stepping"
      BY <2>3 DEF LoopEnds, Goto, own, TypeOK
    <3> QED
      BY <1>4, <3>1, NotRolledBack DEF EInv, Earning
  <2>4. CASE Begin(e) \/ ResetContext(e) \/ TryAgain(e)
    BY <1>4, <2>4 DEF Begin, ResetContext, TryAgain, Goto, TypeOK
  <2>5. CASE PassOver(e) \/ Interpolate(e) \/ StepSucceeds(e)
    BY <1>4, <2>5 DEF PassOver, Interpolate, StepSucceeds, Proceed, Goto, TypeOK
  <2>6. CASE Leaves(e)
    BY <1>4, <2>6
      DEF Leaves, Reject, CheckpointRaises, RestoreRaises, RetriesRaise, Return, SaveRaises, Goto,
          TypeOK
  <2> QED
    BY <2>1, <2>2, <2>3, <2>4, <2>5, <2>6 DEF Does, Advance, Leaves
<1> QED
  BY <1>3, <1>4

\* Whatever procedures there are, an execution that has met no other gives each
\* step its own inputs, and has in the context just the outputs that its steps so
\* far had to leave there.
THEOREM AloneKeepsOwnContext == Spec => []OwnContextWhenAlone
BY InitHasTypes, StepKeepsTypes, InitKeepsContexts, StepKeepsAlone, InitEarns, StepKeepsEarning,
   StepKeepsContext, PTL DEF Spec

\* When a failing step has rolled such an execution back, the context is the one
\* that it found when it began, and holds neither its inputs nor an output of it:
\* its checkpoint is older than both.
THEOREM RollbacksRestore == Spec => []RollbackRestores
BY InitHasTypes, StepKeepsTypes, InitKeepsContexts, StepKeepsCheckpoints, StepKeepsAlone,
   InitEarns, StepKeepsEarning, StepKeepsRollbacks, PTL DEF Spec

=============================================================================
