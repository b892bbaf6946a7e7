-------------------------- MODULE StreamLoopProofs --------------------------
(***************************************************************************)
(* Invariants of StreamLoop, for any start roles and targets, any number   *)
(* of turns and any limits of the policy.                                  *)
(***************************************************************************)
EXTENDS StreamLoop, TLAPS

LEMMA Limits == MaxRetries \in Nat /\ MaxRetries >= 1 /\ MaxTurns \in Nat
BY PolicyAssumption, StreamAssumption

LEMMA EscalationsAreRoles ==
  ASSUME NEW r, EscalatesTo(r) # None
  PROVE  EscalatesTo(r) \in Role
BY DEF EscalatesTo, Role, ArchitectRole

\* Whatever a role is handed over to is a role.
LEMMA RequestsAreRoles ==
  ASSUME NEW t, Requested(t) # None
  PROVE  Requested(t) \in KnownRole
BY EscalationsAreRoles DEF Requested, KnownRole

\* What a decision says about the failures of the role it is made for.
LEMMA Decisions ==
  ASSUME NEW c \in TurnCategory, consecutive_failures \in Nat
  PROVE  /\ Decision(c) = "think_harder" => consecutive_failures + 1 < MaxRetries
         /\ Decision(c) = "retry" => consecutive_failures + 1 < MaxRetries
         /\ Decision(c) = "explore" => EscalatesTo(current_role) = None
         /\ Decision(c) = "escalate" => EscalatesTo(current_role) # None
<1> DEFINE f == Reported(c, consecutive_failures + 1)
<1>1. f.failures = consecutive_failures + 1 /\ f.role = current_role
  BY DEF Reported
<1>2. ThinksHarder(f) => f.failures < MaxRetries
  BY <1>1, Limits DEF ThinksHarder
<1>3. Retries(f) => f.failures < MaxRetries
  BY <1>1, Limits DEF Retries, Exhausted
<1>4. Explores(f) => EscalatesTo(f.role) = None
  BY DEF Explores
<1>5. Escalates(f) => EscalatesTo(f.role) # None
  BY DEF Escalates
<1>6. /\ Decide(f) = "think_harder" => ThinksHarder(f)
      /\ Decide(f) = "retry" => Retries(f)
      /\ Decide(f) = "explore" => Explores(f)
      /\ Decide(f) = "escalate" => Escalates(f)
  BY DEF Decide
<1> QED
  BY <1>1, <1>2, <1>3, <1>4, <1>5, <1>6 DEF Decision

-----------------------------------------------------------------------------
\* Types.

\* What SwitchTo leaves of the types.
LEMMA SwitchKeepsTypes ==
  ASSUME TypeOK, NEW r \in KnownRole, SwitchTo(r)
  PROVE  /\ current_role' \in StartRole \cup KnownRole
         /\ role_history' \in Seq(StartRole \cup KnownRole)
         /\ consecutive_failures' = 0
BY DEF SwitchTo, TypeOK

\* A role never has more failures in a row than the task has had turns.
FailuresWithinTurns == consecutive_failures <= turn

TInv == TypeOK /\ FailuresWithinTurns

LEMMA InitHasTypes == Init => TInv
BY Limits DEF Init, TInv, TypeOK, FailuresWithinTurns

LEMMA StepKeepsTypes == TInv /\ [Next]_vars => TInv'
<1> SUFFICES ASSUME TInv, [Next]_vars PROVE TInv'
  OBVIOUS
<1> USE Limits DEF TInv, TypeOK, FailuresWithinTurns
<1>1. CASE LLMRaises
  BY <1>1 DEF LLMRaises, Turn, roles
<1>2. ASSUME NEW t \in Target \cup {None}, NEW r \in {"final", "error", "quiet"}, HandOver(t, r)
      PROVE  TInv'
  <2>1. Requested(t) \in KnownRole /\ SwitchTo(Requested(t))
    BY <1>2, RequestsAreRoles DEF HandOver
  <2>2. /\ current_role' \in StartRole \cup KnownRole
        /\ role_history' \in Seq(StartRole \cup KnownRole)
        /\ consecutive_failures' = 0
    BY <2>1, SwitchKeepsTypes
  <2> QED
    BY <1>2, <2>2 DEF HandOver, Execute, Turn
<1>3. CASE Answer
  BY <1>3 DEF Answer, Execute, Turn, roles
<1>4. CASE Quiet
  BY <1>4 DEF Quiet, Execute, Turn, roles
<1>5. ASSUME NEW c \in TurnCategory, ThinkHarder(c) PROVE TInv'
  BY <1>5 DEF ThinkHarder, Execute, Turn, Stay, roles
<1>6. ASSUME NEW c \in TurnCategory, Escalate(c) PROVE TInv'
  <2>1. EscalatesTo(current_role) \in KnownRole
    BY <1>6, Decisions, EscalationsAreRoles DEF Escalate, KnownRole
  <2>2. /\ current_role' \in StartRole \cup KnownRole
        /\ role_history' \in Seq(StartRole \cup KnownRole)
        /\ consecutive_failures' = 0
    BY <1>6, <2>1, SwitchKeepsTypes DEF Escalate
  <2> QED
    BY <1>6, <2>2 DEF Escalate, Execute, Turn
<1>7. ASSUME NEW c \in TurnCategory, Fail(c) PROVE TInv'
  BY <1>7 DEF Fail, Execute, Turn, Stay, roles
<1>8. ASSUME NEW c \in TurnCategory, GoOn(c) PROVE TInv'
  BY <1>8 DEF GoOn, Execute, Turn, Stay, roles
<1>9. CASE OutOfTurns
  BY <1>9 DEF OutOfTurns, roles
<1>10. CASE Leave
  BY <1>10 DEF Leave, roles
<1>11. CASE Disconnect
  BY <1>11 DEF Disconnect, roles
<1>12. CASE UNCHANGED vars
  BY <1>12 DEF vars, roles
<1> QED
  BY <1>1, <1>2, <1>3, <1>4, <1>5, <1>6, <1>7, <1>8, <1>9, <1>10, <1>11, <1>12
     DEF Next, Go, Ended

LEMMA TypesHold == Spec => []TInv
BY InitHasTypes, StepKeepsTypes, PTL DEF Spec

\* Every variable of a streamed task keeps its type.
THEOREM StreamTypeCorrect == Spec => []TypeOK
BY TypesHold, PTL DEF TInv

-----------------------------------------------------------------------------
\* Retries.

LEMMA InitBoundsRetries == Init => RetriesAreBounded
BY Limits DEF Init, RetriesAreBounded

LEMMA StepBoundsRetries == TInv /\ RetriesAreBounded /\ [Next]_vars => RetriesAreBounded'
<1> SUFFICES ASSUME TInv, RetriesAreBounded, [Next]_vars PROVE RetriesAreBounded'
  OBVIOUS
<1> USE Limits DEF RetriesAreBounded
<1>0. consecutive_failures \in Nat
  BY DEF TInv, TypeOK
<1>1. CASE LLMRaises
  BY <1>1 DEF LLMRaises
<1>2. ASSUME NEW t \in Target \cup {None}, NEW r \in {"final", "error", "quiet"}, HandOver(t, r)
      PROVE  RetriesAreBounded'
  BY <1>2 DEF HandOver, SwitchTo
<1>3. CASE Answer
  BY <1>3 DEF Answer
<1>4. CASE Quiet
  BY <1>4 DEF Quiet
<1>5. ASSUME NEW c \in TurnCategory, ThinkHarder(c) PROVE RetriesAreBounded'
  BY <1>0, <1>5, Decisions DEF ThinkHarder, Stay
<1>6. ASSUME NEW c \in TurnCategory, Escalate(c) PROVE RetriesAreBounded'
  BY <1>6 DEF Escalate, SwitchTo
<1>7. ASSUME NEW c \in TurnCategory, Fail(c) PROVE RetriesAreBounded'
  BY <1>7 DEF Fail
<1>8. ASSUME NEW c \in TurnCategory, GoOn(c) PROVE RetriesAreBounded'
  <2>1. consecutive_failures' = consecutive_failures + 1 /\ current_role' = current_role
    BY <1>8 DEF GoOn, Stay, roles
  <2>2. CASE Decision(c) = "retry"
    BY <1>0, <2>1, <2>2, Decisions
  <2>3. CASE Decision(c) = "explore"
    BY <1>0, <2>1, <2>3, Decisions
  <2> QED
    BY <1>8, <2>2, <2>3 DEF GoOn
<1>9. CASE OutOfTurns
  BY <1>9 DEF OutOfTurns
<1>10. CASE Leave
  BY <1>10 DEF Leave
<1>11. CASE Disconnect
  BY <1>11 DEF Disconnect
<1>12. CASE UNCHANGED vars
  BY <1>12 DEF vars, roles
<1> QED
  BY <1>1, <1>2, <1>3, <1>4, <1>5, <1>6, <1>7, <1>8, <1>9, <1>10, <1>11, <1>12
     DEF Next, Go, Ended

\* Below the top of a chain a role never has a turn after its retries are used
\* up, whatever the limits.
THEOREM RetriesStayBounded == Spec => []RetriesAreBounded
BY InitBoundsRetries, StepBoundsRetries, TypesHold, PTL DEF Spec

-----------------------------------------------------------------------------
\* What is logged and what the client is told.

\* While turns are taken an answer has been executed only if a request of the
\* same turn came before it; when they are over, the last result is the answer
\* sent or, again, one that such a request has kept back.
AnswersAreTold ==
  /\ phase = "looping" =>
       /\ told = "nothing"
       /\ result = "final" => escalation_prompt = "handover"
  /\ phase = "leaving" =>
       /\ told = "final" => result = "final"
       /\ result = "final" => told = "final" \/ escalation_prompt = "handover"

SInv == AnswersAreTold /\ SuccessIsTold

LEMMA InitTells == Init => SInv
BY DEF Init, SInv, AnswersAreTold, SuccessIsTold

LEMMA StepTells == SInv /\ [Next]_vars => SInv'
<1> SUFFICES ASSUME SInv, [Next]_vars PROVE SInv'
  OBVIOUS
<1> USE DEF SInv, AnswersAreTold, SuccessIsTold
<1>1. CASE LLMRaises
  BY <1>1 DEF LLMRaises
<1>2. ASSUME NEW t \in Target \cup {None}, NEW r \in {"final", "error", "quiet"}, HandOver(t, r)
      PROVE  SInv'
  BY <1>2 DEF HandOver, Execute, Turn
<1>3. CASE Answer
  BY <1>3 DEF Answer, Execute, Turn
<1>4. CASE Quiet
  BY <1>4 DEF Quiet, Execute, Turn
<1>5. ASSUME NEW c \in TurnCategory, ThinkHarder(c) PROVE SInv'
  BY <1>5 DEF ThinkHarder, Execute, Turn
<1>6. ASSUME NEW c \in TurnCategory, Escalate(c) PROVE SInv'
  BY <1>6 DEF Escalate, Execute, Turn
<1>7. ASSUME NEW c \in TurnCategory, Fail(c) PROVE SInv'
  BY <1>7 DEF Fail, Execute, Turn
<1>8. ASSUME NEW c \in TurnCategory, GoOn(c) PROVE SInv'
  BY <1>8 DEF GoOn, Execute, Turn
<1>9. CASE OutOfTurns
  BY <1>9 DEF OutOfTurns
<1>10. CASE Leave
  BY <1>10 DEF Leave
<1>11. CASE Disconnect
  BY <1>11 DEF Disconnect
<1>12. CASE UNCHANGED vars
  BY <1>12 DEF vars
<1> QED
  BY <1>1, <1>2, <1>3, <1>4, <1>5, <1>6, <1>7, <1>8, <1>9, <1>10, <1>11, <1>12
     DEF Next, Go, Ended

\* The log and the client agree: a success is an answer sent, but for one that a
\* request in the last turn has kept back.
THEOREM SuccessIsAlwaysTold == Spec => []SuccessIsTold
<1>1. SInv => SuccessIsTold
  BY DEF SInv
<1> QED
  BY <1>1, InitTells, StepTells, PTL DEF Spec

=============================================================================
