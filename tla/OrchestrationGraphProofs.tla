---------------------- MODULE OrchestrationGraphProofs ----------------------
(***************************************************************************)
(* What holds of OrchestrationGraph for every choice of start roles and    *)
(* limits.                                                                 *)
(***************************************************************************)
EXTENDS OrchestrationGraph, TLAPS, SequenceTheorems

-----------------------------------------------------------------------------
\* The static maps.

\* How far up the chain a role stands.
Rank(r) == IF r \in ArchitectRole THEN 2 ELSE IF r = "coder_escalation" THEN 1 ELSE 0

\* Every node class hands over to a role or to nobody, and every role has a
\* node class.
LEMMA MapTypes ==
  /\ \A r \in Role : StartNode(r) \in NodeClass
  /\ \A r \in Role : EscalatesTo(r) \in Role \cup {None}
  /\ \A n \in NodeClass : NodeTarget(n) \in Role \cup {None}
  /\ \A n \in NodeClass : NextNode(n) \in NodeClass
  /\ None \notin Role
  /\ "End" \notin NodeClass
BY DEF Role, WorkerRole, ArchitectRole, StartNode, EscalatesTo, NodeTarget, NextNode,
       NodeClass, None

\* The literals in the run() methods are those of _ESCALATION_MAP: the node
\* serving a role hands over to the role's escalation target, and returns the
\* node class that serves it.
LEMMA NodesFollowMap ==
  ASSUME NEW r \in Role
  PROVE  /\ NodeTarget(StartNode(r)) = EscalatesTo(r)
         /\ EscalatesTo(r) # None => NextNode(StartNode(r)) = StartNode(EscalatesTo(r))
BY DEF Role, WorkerRole, ArchitectRole, StartNode, EscalatesTo, NodeTarget, NextNode, None

\* Escalating leads strictly upwards.
LEMMA EscalationClimbs ==
  ASSUME NEW r \in Role, EscalatesTo(r) # None
  PROVE  Rank(EscalatesTo(r)) > Rank(r)
BY DEF Role, WorkerRole, ArchitectRole, EscalatesTo, Rank, None

-----------------------------------------------------------------------------
\* Type correctness.

LEMMA TypeInit == Init => TypeOK
<1> SUFFICES ASSUME Init PROVE TypeOK
  OBVIOUS
<1>1. current_role \in Role /\ node \in NodeClass
  BY MapTypes, StartRolesAssumption DEF Init
<1>2. role_history \in Seq(Role)
  BY <1>1 DEF Init
<1>3. result = NoResult /\ NoResult \in Result
  BY DEF Init, NoResult, Result
<1>4. token \in Token
  BY <1>1, <1>2, LimitsAssumption DEF Init, Token, FromState
<1>5. last_attempt_turn \in [Role -> Nat \cup {Never}]
  BY DEF Init
<1>6. turns \in 0 .. MaxTurns /\ consecutive_nudges \in 0 .. MaxNudges - 1
      /\ resumes \in 0 .. MaxResumes /\ consecutive_failures \in Nat /\ escalation_count \in Nat
  BY LimitsAssumption DEF Init
<1> QED
  BY <1>1, <1>2, <1>3, <1>4, <1>5, <1>6, Zenon DEF Init, TypeOK, TaskTypeOK

\* What the parts of the node actions preserve.
LEMMA EscalateTaskType ==
  ASSUME TypeOK, node # "End", NodeTarget(node) # None, EscalateTask
  PROVE  /\ node' \in NodeClass
         /\ current_role' \in Role
         /\ role_history' \in Seq(Role)
         /\ escalation_count' \in Nat
         /\ consecutive_failures' \in Nat
         /\ result' = result
<1>1. node \in NodeClass
  BY DEF TypeOK, TaskTypeOK
<1>2. NodeTarget(node) \in Role /\ NextNode(node) \in NodeClass
  BY <1>1, MapTypes
<1> QED
  BY <1>2 DEF TypeOK, TaskTypeOK, EscalateTask

LEMMA MakeEndResultType ==
  ASSUME TypeOK, NEW success \in BOOLEAN, MakeEndResult(success)
  PROVE  /\ node' = "End"
         /\ result' \in Result
         /\ UNCHANGED <<current_role, role_history, escalation_count>>
BY DEF TypeOK, TaskTypeOK, MakeEndResult, Result, None

LEMMA ExecuteTurnType ==
  ASSUME TypeOK, NEW asks \in BOOLEAN, ExecuteTurn(asks)
  PROVE  /\ node # "End" /\ turns < MaxTurns
         /\ turns' = turns + 1 /\ turns' \in 0 .. MaxTurns
         /\ escalation_requested' \in BOOLEAN
<1>1. escalation_requested' \in BOOLEAN
  BY Zenon DEF TypeOK, TaskTypeOK, ExecuteTurn
<1>2. turns \in 0 .. MaxTurns /\ turns < MaxTurns /\ turns' = turns + 1 /\ node # "End"
  BY DEF TypeOK, TaskTypeOK, ExecuteTurn
<1> QED
  BY <1>1, <1>2, LimitsAssumption

LEMMA ErrorTurnType ==
  ASSUME TypeOK, ErrorTurn
  PROVE  /\ node # "End" /\ turns < MaxTurns
         /\ turns' = turns + 1 /\ turns' \in 0 .. MaxTurns
         /\ escalation_requested' \in BOOLEAN
         /\ rescuable' \in BOOLEAN
         /\ UNCHANGED <<consecutive_nudges, resumes>>
<1>1. PICK asks \in BOOLEAN, artifacts \in BOOLEAN :
        ExecuteTurn(asks) /\ rescuable' \in {FALSE, artifacts}
  BY Zenon DEF ErrorTurn
<1>2. rescuable' \in BOOLEAN
  BY <1>1, Zenon
<1>3. UNCHANGED <<consecutive_nudges, resumes>>
  BY Zenon DEF ErrorTurn
<1> QED
  BY <1>1, <1>2, <1>3, ExecuteTurnType, Zenon

LEMMA QuietTurnType ==
  ASSUME TypeOK, QuietTurn
  PROVE  /\ think_harder_config' = FALSE
         /\ think_harder_succeeded' \in {"unset", "yes", "no"}
         /\ UNCHANGED <<node, current_role, role_history, escalation_count, result,
                       think_harder_attempted, last_attempt_turn, resumes>>
<1>1. think_harder_succeeded' \in {"unset", "yes", "no"}
  BY Zenon DEF TypeOK, TaskTypeOK, QuietTurn
<1> QED
  BY <1>1, Zenon DEF QuietTurn, ClearBoost, RunAgain, control

\* Every node action keeps the types; the token is dealt with by Snapshot.
LEMMA NodeActionType ==
  ASSUME TypeOK,
         \/ MaxTurnsReached \/ ModelEscalation \/ FinalAnswer \/ Output \/ Nudge
         \/ \E c \in Category : Error(c)
  PROVE  TaskTypeOK'
<1>a. \A n \in 0 .. MaxTurns : n + 1 \in Nat
  BY LimitsAssumption
<1>b. Failures \in Nat
  BY DEF TypeOK, TaskTypeOK, Failures
<1>1. CASE MaxTurnsReached
  <2>1. MakeEndResult(rescuable)
    BY <1>1 DEF MaxTurnsReached
  <2>2. node' = "End" /\ result' \in Result /\ UNCHANGED <<current_role, role_history, escalation_count>>
    BY <2>1, MakeEndResultType DEF TypeOK, TaskTypeOK
  <2> QED
    BY <1>1, <2>2 DEF MaxTurnsReached, TypeOK, TaskTypeOK, counters, boost
<1>2. CASE ModelEscalation
  <2>1. PICK asks \in BOOLEAN : ExecuteTurn(asks) /\ node = "CoderNode"
    BY <1>2, Zenon DEF ModelEscalation, SeesRequest
  <2>2. NodeTarget(node) # None
    BY <2>1 DEF NodeTarget, None
  <2>3. EscalateTask /\ think_harder_config' = FALSE
    BY <1>2, Zenon DEF ModelEscalation, ClearBoost
  <2>4. UNCHANGED <<consecutive_nudges, think_harder_attempted, think_harder_succeeded,
                    last_attempt_turn, rescuable, resumes>>
    BY <1>2, Zenon DEF ModelEscalation
  <2>5. node # "End" /\ turns' \in 0 .. MaxTurns /\ escalation_requested' \in BOOLEAN
    BY <2>1, ExecuteTurnType, Zenon
  <2> QED
    BY <2>2, <2>3, <2>4, <2>5, EscalateTaskType DEF TypeOK, TaskTypeOK
<1>3. CASE FinalAnswer
  <2>1. PICK asks \in BOOLEAN : ExecuteTurn(asks)
    BY <1>3, Zenon DEF FinalAnswer
  <2>2. turns' \in 0 .. MaxTurns /\ escalation_requested' \in BOOLEAN
    BY <2>1, ExecuteTurnType, Zenon
  <2>3. node' = "End" /\ result' \in Result /\ UNCHANGED <<current_role, role_history, escalation_count>>
    BY <1>3, MakeEndResultType DEF FinalAnswer
  <2>4. UNCHANGED <<consecutive_failures, consecutive_nudges, think_harder_attempted,
                    think_harder_succeeded, last_attempt_turn, rescuable, resumes>>
        /\ think_harder_config' = FALSE
    BY <1>3, Zenon DEF FinalAnswer, ClearBoost
  <2> QED
    BY <2>2, <2>3, <2>4 DEF TypeOK, TaskTypeOK
<1>4. CASE Output
  <2>1. PICK asks \in BOOLEAN : ExecuteTurn(asks)
    BY <1>4, Zenon DEF Output
  <2>2. turns' \in 0 .. MaxTurns /\ escalation_requested' \in BOOLEAN
    BY <2>1, ExecuteTurnType, Zenon
  <2>3. rescuable' \in BOOLEAN /\ consecutive_failures' = 0 /\ consecutive_nudges' = 0 /\ QuietTurn
    BY <1>4, Zenon DEF Output
  <2>4. consecutive_failures' \in Nat /\ consecutive_nudges' \in 0 .. MaxNudges - 1
    BY <2>3, LimitsAssumption
  <2> QED
    BY <2>2, <2>3, <2>4, QuietTurnType, Zenon DEF TypeOK, TaskTypeOK
<1>5. CASE Nudge
  <2>1. PICK asks \in BOOLEAN : ExecuteTurn(asks)
    BY <1>5, Zenon DEF Nudge
  <2>2. turns' \in 0 .. MaxTurns /\ escalation_requested' \in BOOLEAN
    BY <2>1, ExecuteTurnType, Zenon
  <2>3. rescuable' \in BOOLEAN /\ QuietTurn
    BY <1>5, Zenon DEF Nudge
  <2>4. consecutive_failures' \in Nat /\ consecutive_nudges' \in 0 .. MaxNudges - 1
    BY <1>5, LimitsAssumption DEF Nudge, Promoted, TypeOK, TaskTypeOK
  <2> QED
    BY <2>2, <2>3, <2>4, QuietTurnType, Zenon DEF TypeOK, TaskTypeOK
<1>6. CASE \E c \in Category : Error(c)
  <2>1. PICK c \in Category : Error(c)
    BY <1>6
  <2>2. ErrorTurn
    BY <2>1, Zenon DEF Error, EarlyAbort, ThinkHarder, Escalate, Retry, Fail
  <2>3. /\ node # "End" /\ turns' \in 0 .. MaxTurns
        /\ escalation_requested' \in BOOLEAN /\ rescuable' \in BOOLEAN
        /\ UNCHANGED <<consecutive_nudges, resumes>>
    BY <2>2, ErrorTurnType, Zenon
  <2>4. CASE EarlyAbort(c)
    BY <2>3, <2>4, EscalateTaskType DEF EarlyAbort, AbortsEarly, ClearBoost, TypeOK, TaskTypeOK
  <2>5. CASE ThinkHarder(c)
    <3>1. last_attempt_turn' \in [Role -> Nat \cup {Never}]
      BY <1>a, <2>5 DEF ThinkHarder, TypeOK, TaskTypeOK
    <3> QED
      BY <1>b, <2>3, <2>5, <3>1 DEF ThinkHarder, RunAgain, control, TypeOK, TaskTypeOK
  <2>6. CASE Escalate(c)
    BY <2>3, <2>6, EscalateTaskType DEF Escalate, ShouldEscalate, ClearBoost, TypeOK, TaskTypeOK
  <2>7. CASE Retry(c)
    BY <1>b, <2>3, <2>7 DEF Retry, ClearBoost, RunAgain, control, TypeOK, TaskTypeOK
  <2>8. CASE Fail(c)
    BY <1>b, <2>3, <2>8, MakeEndResultType DEF Fail, ClearBoost, TypeOK, TaskTypeOK
  <2> QED
    BY <2>1, <2>4, <2>5, <2>6, <2>7, <2>8 DEF Error
<1> QED
  BY <1>1, <1>2, <1>3, <1>4, <1>5, <1>6

LEMMA TypeStep == TypeOK /\ [Next]_vars => TypeOK'
<1> SUFFICES ASSUME TypeOK, [Next]_vars PROVE TypeOK'
  OBVIOUS
<1>1. CASE RunNode
  <2>1. TaskTypeOK'
    BY <1>1, NodeActionType, Zenon DEF RunNode
  <2>2. FromState' \in Token
    BY <2>1 DEF FromState, Token, TaskTypeOK
  <2>3. token' \in Token
    BY <1>1, <2>2 DEF RunNode, Snapshot, TypeOK
  <2> QED
    BY <2>1, <2>3 DEF TypeOK
<1>2. CASE Resume
  <2>1. token \in Token /\ token' = token
    BY <1>2, Zenon DEF Resume, TypeOK
  <2>2. node' \in NodeClass /\ current_role' \in Role /\ role_history' \in Seq(Role)
    BY <1>2, <2>1, MapTypes DEF Resume, Token
  <2>3. /\ turns' \in 0 .. MaxTurns /\ consecutive_failures' \in Nat
        /\ escalation_count' \in Nat
    BY <1>2, <2>1 DEF Resume, Token
  <2>4. consecutive_nudges' \in 0 .. MaxNudges - 1 /\ resumes' \in 0 .. MaxResumes
    BY <1>2, LimitsAssumption DEF Resume, TypeOK, TaskTypeOK
  <2>5. last_attempt_turn' \in [Role -> Nat \cup {Never}]
    BY <1>2 DEF Resume
  <2>6. result' \in Result /\ result' = NoResult
    BY <1>2, Zenon DEF Resume, TypeOK, TaskTypeOK
  <2>7. /\ rescuable' \in BOOLEAN /\ think_harder_config' \in BOOLEAN
        /\ think_harder_attempted' \in BOOLEAN /\ escalation_requested' \in BOOLEAN
        /\ think_harder_succeeded' \in {"unset", "yes", "no"}
    BY <1>2, Zenon DEF Resume
  <2> QED
    BY <2>1, <2>2, <2>3, <2>4, <2>5, <2>6, <2>7, Zenon DEF TypeOK, TaskTypeOK
<1>3. CASE UNCHANGED vars
  BY <1>3, Zenon DEF TypeOK, TaskTypeOK, vars, control, counters, boost
<1> QED
  BY <1>1, <1>2, <1>3 DEF Next, Ended

\* Every variable keeps the type the code gives it.
THEOREM TypeCorrect == Spec => []TypeOK
BY TypeInit, TypeStep, PTL DEF Spec

-----------------------------------------------------------------------------
\* What a node action does to the path of roles and to think-harder.

\* The task stays with its role, or ends.
Stays ==
  /\ node' \in {node, "End"}
  /\ UNCHANGED <<current_role, role_history, escalation_count>>

\* The task is handed one role up.
Climbs == NodeTarget(node) # None /\ EscalateTask

\* No role starts to think harder, and none forgets that it did.
KeepsAttempt == UNCHANGED <<think_harder_attempted, last_attempt_turn>>

LEMMA NodeActionEffect ==
  ASSUME TypeOK, RunNode
  PROVE  /\ node # "End"
         /\ turns' >= turns
         /\ \/ Climbs /\ UNCHANGED last_attempt_turn
            \/ Stays /\ KeepsAttempt
            \/ Stays /\ \E c \in Category : ThinkHarder(c)
<1>0. turns \in Int
  BY DEF TypeOK, TaskTypeOK
<1>1. CASE MaxTurnsReached
  BY <1>0, <1>1 DEF MaxTurnsReached, MakeEndResult, Stays, KeepsAttempt, counters, boost
<1>2. CASE ModelEscalation
  <2>1. PICK asks \in BOOLEAN : ExecuteTurn(asks) /\ node = "CoderNode"
    BY <1>2, Zenon DEF ModelEscalation, SeesRequest
  <2>2. EscalateTask /\ UNCHANGED last_attempt_turn
    BY <1>2, Zenon DEF ModelEscalation
  <2> QED
    BY <1>0, <2>1, <2>2, ExecuteTurnType DEF Climbs, NodeTarget, None
<1>3. CASE FinalAnswer
  <2>1. PICK asks \in BOOLEAN : ExecuteTurn(asks)
    BY <1>3, Zenon DEF FinalAnswer
  <2>2. MakeEndResult(TRUE) /\ UNCHANGED <<think_harder_attempted, last_attempt_turn>>
    BY <1>3, Zenon DEF FinalAnswer
  <2> QED
    BY <1>0, <2>1, <2>2, ExecuteTurnType DEF Stays, KeepsAttempt, MakeEndResult
<1>4. CASE Output \/ Nudge
  <2>1. PICK asks \in BOOLEAN : ExecuteTurn(asks)
    BY <1>4, Zenon DEF Output, Nudge
  <2>2. QuietTurn
    BY <1>4, Zenon DEF Output, Nudge
  <2> QED
    BY <1>0, <2>1, <2>2, ExecuteTurnType, QuietTurnType DEF Stays, KeepsAttempt
<1>5. CASE \E c \in Category : Error(c)
  <2>1. PICK c \in Category : Error(c)
    BY <1>5
  <2>2. ErrorTurn
    BY <2>1, Zenon DEF Error, EarlyAbort, ThinkHarder, Escalate, Retry, Fail
  <2>3. node # "End" /\ turns' >= turns
    BY <1>0, <2>2, ErrorTurnType
  <2>4. CASE EarlyAbort(c)
    BY <2>3, <2>4 DEF EarlyAbort, AbortsEarly, Climbs
  <2>5. CASE ThinkHarder(c)
    BY <2>3, <2>5 DEF ThinkHarder, RunAgain, control, Stays
  <2>6. CASE Escalate(c)
    BY <2>3, <2>6 DEF Escalate, ShouldEscalate, Climbs
  <2>7. CASE Retry(c)
    BY <2>3, <2>7 DEF Retry, RunAgain, control, Stays, KeepsAttempt
  <2>8. CASE Fail(c)
    BY <2>3, <2>8 DEF Fail, MakeEndResult, Stays, KeepsAttempt
  <2> QED
    BY <2>1, <2>4, <2>5, <2>6, <2>7, <2>8 DEF Error
<1> QED
  BY <1>1, <1>2, <1>3, <1>4, <1>5 DEF RunNode

-----------------------------------------------------------------------------
\* The inductive invariant.  EscalationsAccounted needs HistoryClimbs only
\* through the token, and both need the token to be a prefix of the history;
\* a think-harder attempt is remembered, by the flag for the current role and
\* by the order of the roles for those below.

AttemptsBelow ==
  \A r \in Role : last_attempt_turn[r] # Never =>
    \/ Rank(r) < Rank(current_role)
    \/ r = current_role /\ think_harder_attempted

IInv == TypeOK /\ EscalationsAccounted /\ HistoryClimbs /\ TokenIsBehind /\ AttemptsBelow

LEMMA InvInit == Init => IInv
<1> SUFFICES ASSUME Init PROVE IInv
  OBVIOUS
<1>1. TypeOK
  BY TypeInit
<1>2. Len(role_history) = 1 /\ role_history[1] = current_role /\ role_history # <<>>
  BY DEF Init
<1>3. EscalationsAccounted /\ HistoryClimbs
  BY <1>2 DEF Init, EscalationsAccounted, HistoryClimbs
<1>4. TokenIsBehind
  BY <1>2 DEF Init, TokenIsBehind, FromState, IsPrefixOf
<1>5. AttemptsBelow
  BY DEF Init, AttemptsBelow
<1> QED
  BY <1>1, <1>3, <1>4, <1>5 DEF IInv

\* Climbing extends the path by the escalation target of its last role.
LEMMA ClimbExtendsPath ==
  ASSUME TypeOK, EscalationsAccounted, HistoryClimbs, node # "End", Climbs
  PROVE  /\ current_role' = EscalatesTo(current_role) /\ EscalatesTo(current_role) # None
         /\ role_history' = Append(role_history, EscalatesTo(current_role))
         /\ Len(role_history') = Len(role_history) + 1
         /\ IsPrefixOf(role_history, role_history')
         /\ EscalationsAccounted' /\ HistoryClimbs'
<1>1. current_role \in Role /\ role_history \in Seq(Role) /\ escalation_count \in Nat
  BY DEF TypeOK, TaskTypeOK
<1>2. node = StartNode(current_role)
  BY DEF EscalationsAccounted
<1>3. NodeTarget(node) = EscalatesTo(current_role) /\ EscalatesTo(current_role) # None
  BY <1>1, <1>2, NodesFollowMap DEF Climbs
<1>4. EscalatesTo(current_role) \in Role
  BY <1>1, <1>3, MapTypes
<1>5. NextNode(node) = StartNode(EscalatesTo(current_role))
  BY <1>1, <1>2, <1>3, NodesFollowMap
<1>6. /\ current_role' = EscalatesTo(current_role)
      /\ role_history' = Append(role_history, EscalatesTo(current_role))
      /\ node' = StartNode(current_role')
      /\ escalation_count' = escalation_count + 1
  BY <1>3, <1>5 DEF Climbs, EscalateTask
<1>7. /\ Len(role_history') = Len(role_history) + 1
      /\ \A i \in 1 .. Len(role_history) : role_history'[i] = role_history[i]
      /\ role_history'[Len(role_history) + 1] = EscalatesTo(current_role)
  BY <1>1, <1>4, <1>6
<1>8. Len(role_history) \in Nat
  BY <1>1
<1>9. IsPrefixOf(role_history, role_history')
  BY <1>7, <1>8 DEF IsPrefixOf
<1>10. EscalationsAccounted'
  BY <1>1, <1>6, <1>7, <1>8 DEF EscalationsAccounted
<1>11. HistoryClimbs'
  <2> SUFFICES ASSUME NEW i \in 1 .. Len(role_history') - 1
               PROVE  role_history'[i+1] = EscalatesTo(role_history'[i])
    BY DEF HistoryClimbs
  <2>1. CASE i \in 1 .. Len(role_history) - 1
    BY <1>7, <1>8, <2>1 DEF HistoryClimbs
  <2>2. CASE i = Len(role_history)
    BY <1>7, <1>8, <2>2 DEF EscalationsAccounted
  <2> QED
    BY <1>7, <1>8, <2>1, <2>2
<1> QED
  BY <1>3, <1>6, <1>7, <1>9, <1>10, <1>11

LEMMA PrefixOfPrefix ==
  ASSUME NEW h \in Seq(Role), NEW k \in Seq(Role), NEW l \in Seq(Role),
         IsPrefixOf(h, k), IsPrefixOf(k, l)
  PROVE  IsPrefixOf(h, l)
BY DEF IsPrefixOf

LEMMA InvStep == IInv /\ [Next]_vars => IInv'
<1> SUFFICES ASSUME IInv, [Next]_vars PROVE IInv'
  OBVIOUS
<1>a. TypeOK /\ EscalationsAccounted /\ HistoryClimbs /\ TokenIsBehind /\ AttemptsBelow
  BY DEF IInv
<1>b. TypeOK'
  BY <1>a, TypeStep
<1>c. current_role \in Role /\ role_history \in Seq(Role) /\ turns \in Int /\ token \in Token
  BY <1>a DEF TypeOK, TaskTypeOK
<1>1. CASE RunNode
  <2>1. EscalationsAccounted' /\ HistoryClimbs'
    BY <1>1, <1>a, NodeActionEffect, ClimbExtendsPath DEF Stays, EscalationsAccounted, HistoryClimbs
  <2>2. IsPrefixOf(role_history, role_history') /\ turns' >= turns
    BY <1>1, <1>a, NodeActionEffect, ClimbExtendsPath DEF Stays, IsPrefixOf
  <2>3. TokenIsBehind'
    <3>1. CASE token' = token
      <4>1. token.turns \in Int /\ token.role_history \in Seq(Role) /\ turns' \in Int
        BY <1>b, <1>c DEF Token, TypeOK, TaskTypeOK
      <4>2. role_history' \in Seq(Role)
        BY <1>b DEF TypeOK, TaskTypeOK
      <4>3. IsPrefixOf(token.role_history, role_history')
        BY <1>a, <1>c, <2>2, <4>1, <4>2, PrefixOfPrefix DEF TokenIsBehind
      <4>4. token.turns <= turns'
        BY <1>a, <1>c, <2>2, <4>1 DEF TokenIsBehind
      <4> QED
        BY <1>a, <3>1, <4>3, <4>4 DEF TokenIsBehind
    <3>2. CASE token' = FromState'
      BY <1>b, <2>1, <3>2 DEF TokenIsBehind, IsPrefixOf, FromState, EscalationsAccounted,
         TypeOK, TaskTypeOK
    <3> QED
      BY <1>1, <3>1, <3>2 DEF RunNode, Snapshot
  <2>4. AttemptsBelow'
    <3>1. CASE Climbs /\ UNCHANGED last_attempt_turn
      <4>1. current_role' = EscalatesTo(current_role) /\ EscalatesTo(current_role) # None
        BY <1>1, <1>a, <3>1, NodeActionEffect, ClimbExtendsPath
      <4>2. Rank(current_role') > Rank(current_role)
        BY <1>c, <4>1, EscalationClimbs
      <4>3. \A r \in Role : Rank(r) \in Int
        BY DEF Rank
      <4>4. current_role' \in Role
        BY <1>b DEF TypeOK, TaskTypeOK
      <4> QED
        BY <1>a, <1>c, <3>1, <4>2, <4>3, <4>4 DEF AttemptsBelow
    <3>2. CASE Stays /\ KeepsAttempt
      BY <1>a, <3>2 DEF AttemptsBelow, Stays, KeepsAttempt
    <3>3. CASE Stays /\ \E c \in Category : ThinkHarder(c)
      <4>1. /\ current_role' = current_role
            /\ think_harder_attempted'
            /\ last_attempt_turn' = [last_attempt_turn EXCEPT ![current_role] = turns + 1]
        BY <3>3 DEF Stays, ThinkHarder
      <4>2. \A r \in Role : r # current_role => last_attempt_turn'[r] = last_attempt_turn[r]
        BY <1>a, <4>1 DEF TypeOK, TaskTypeOK
      <4> QED
        BY <1>a, <4>1, <4>2 DEF AttemptsBelow
    <3> QED
      BY <1>1, <1>a, <3>1, <3>2, <3>3, NodeActionEffect
  <2> QED
    BY <1>b, <2>1, <2>3, <2>4 DEF IInv
<1>2. CASE Resume
  <2>1. EscalationsAccounted'
    BY <1>2, <1>a DEF Resume, EscalationsAccounted, TokenIsBehind
  <2>2. HistoryClimbs'
    <3>1. role_history' = token.role_history /\ token.role_history \in Seq(Role)
      BY <1>2, <1>c DEF Resume, Token
    <3>2. Len(token.role_history) \in Nat /\ Len(role_history) \in Nat
      BY <1>c, <3>1
    <3> QED
      BY <1>a, <3>1, <3>2 DEF HistoryClimbs, TokenIsBehind, IsPrefixOf
  <2>3. TokenIsBehind'
    BY <1>2, <1>a, <1>b, <1>c DEF Resume, TokenIsBehind, IsPrefixOf, Token
  <2>4. AttemptsBelow'
    BY <1>2 DEF Resume, AttemptsBelow
  <2> QED
    BY <1>b, <2>1, <2>2, <2>3, <2>4 DEF IInv
<1>3. CASE UNCHANGED vars
  BY <1>3, <1>a, <1>b DEF IInv, EscalationsAccounted, HistoryClimbs, TokenIsBehind, AttemptsBelow,
     vars, control, counters, boost
<1> QED
  BY <1>1, <1>2, <1>3 DEF Next, Ended

LEMMA InvHolds == Spec => []IInv
BY InvInit, InvStep, PTL DEF Spec

\* The bookkeeping of escalations agrees with itself at every node boundary,
\* crashes and old resume tokens included.
THEOREM EscalationsStayAccounted == Spec => []EscalationsAccounted
<1>1. IInv => EscalationsAccounted
  BY DEF IInv
<1> QED
  BY <1>1, InvHolds, PTL

\* A resume token never runs ahead of the task or leaves its path.
THEOREM TokenStaysBehind == Spec => []TokenIsBehind
<1>1. IInv => TokenIsBehind
  BY DEF IInv
<1> QED
  BY <1>1, InvHolds, PTL

\* No two or three escalations lead back to the role they left.
LEMMA NoShortCycle ==
  ASSUME NEW r \in Role, EscalatesTo(r) \in Role
  PROVE  /\ EscalatesTo(EscalatesTo(r)) # r
         /\ EscalatesTo(EscalatesTo(r)) \in Role => EscalatesTo(EscalatesTo(EscalatesTo(r))) # r
BY DEF EscalatesTo, Role, WorkerRole, ArchitectRole, None

LEMMA ClimbingHasNoCycle ==
  ASSUME TypeOK, HistoryClimbs
  PROVE  NoRoleCycle
<1> DEFINE n == Len(role_history)
<1>1. n \in Nat /\ \A i \in 1 .. n : role_history[i] \in Role
  BY DEF TypeOK, TaskTypeOK
<1>2. \A i \in 1 .. n - 1 : role_history[i+1] = EscalatesTo(role_history[i])
  BY DEF HistoryClimbs
<1>3. ASSUME n >= 4 PROVE role_history[n] # role_history[n-2]
  <2>1. n - 2 \in 1 .. n /\ n - 2 \in 1 .. n - 1 /\ n - 1 \in 1 .. n /\ n - 1 \in 1 .. n - 1
        /\ (n - 2) + 1 = n - 1 /\ (n - 1) + 1 = n
    BY <1>1, <1>3
  <2>2. role_history[n-1] = EscalatesTo(role_history[n-2])
        /\ role_history[n] = EscalatesTo(role_history[n-1])
    BY <1>2, <2>1
  <2> QED
    BY <1>1, <2>1, <2>2, NoShortCycle
<1>4. ASSUME n >= 6 PROVE role_history[n] # role_history[n-3]
  <2>1. n - 3 \in 1 .. n /\ n - 2 \in 1 .. n /\ n - 1 \in 1 .. n
        /\ n - 3 \in 1 .. n - 1 /\ n - 2 \in 1 .. n - 1 /\ n - 1 \in 1 .. n - 1
        /\ (n - 3) + 1 = n - 2 /\ (n - 2) + 1 = n - 1 /\ (n - 1) + 1 = n
    BY <1>1, <1>4
  <2>2. role_history[n-2] = EscalatesTo(role_history[n-3])
        /\ role_history[n-1] = EscalatesTo(role_history[n-2])
        /\ role_history[n] = EscalatesTo(role_history[n-1])
    BY <1>2, <2>1
  <2> QED
    BY <1>1, <2>1, <2>2, NoShortCycle
<1> QED
  BY <1>3, <1>4 DEF NoRoleCycle, DetectRoleCycle

\* The role-cycle guard never fires.
THEOREM RolesNeverCycle == Spec => []NoRoleCycle
<1>1. IInv => NoRoleCycle
  BY ClimbingHasNoCycle DEF IInv
<1> QED
  BY <1>1, InvHolds, PTL

-----------------------------------------------------------------------------
\* Failures and nudges.

\* What f failures in a row, t turns and g nudges may come to at a node of
\* class n: at FrontdoorNode MaxNudges turns make one failure more.
Fits(n, f, t, g) ==
  IF n = "FrontdoorNode"
  THEN f * MaxNudges + g <= (MaxRetries - 1) * MaxNudges + t
  ELSE f <= MaxRetries - 1 \/ f = 1

LEMMA FewFailuresFit ==
  ASSUME NEW n, NEW f \in Nat, NEW t \in Nat, NEW g \in Nat, f <= MaxRetries - 1, g <= t
  PROVE  Fits(n, f, t, g)
<1>1. MaxNudges \in Nat /\ MaxRetries - 1 \in Nat
  BY LimitsAssumption
<1>2. f * MaxNudges <= (MaxRetries - 1) * MaxNudges
  BY <1>1
<1>3. f * MaxNudges \in Nat /\ (MaxRetries - 1) * MaxNudges \in Nat
  BY <1>1
<1> QED
  BY <1>2, <1>3 DEF Fits

LEMMA NudgeFits ==
  ASSUME NEW f \in Nat, NEW t \in Nat, NEW g \in 0 .. MaxNudges - 1, Fits("FrontdoorNode", f, t, g)
  PROVE  IF g + 1 >= MaxNudges
         THEN Fits("FrontdoorNode", f + 1, t + 1, 0)
         ELSE Fits("FrontdoorNode", f, t + 1, g + 1)
<1>1. MaxNudges \in Nat /\ MaxRetries - 1 \in Nat
  BY LimitsAssumption
<1>2. (f + 1) * MaxNudges = f * MaxNudges + MaxNudges
  BY <1>1
<1>3. f * MaxNudges \in Nat /\ (MaxRetries - 1) * MaxNudges \in Nat
  BY <1>1
<1> QED
  BY <1>1, <1>2, <1>3 DEF Fits

LEMMA FitsWithoutNudges ==
  ASSUME NEW n, NEW f \in Nat, NEW t \in Nat, NEW g \in Nat, Fits(n, f, t, g)
  PROVE  Fits(n, f, t, 0)
<1>1. f * MaxNudges \in Nat /\ (MaxRetries - 1) * MaxNudges \in Nat
  BY LimitsAssumption
<1> QED
  BY <1>1 DEF Fits

\* A failure for every MaxNudges turns.
LEMMA FitsBudget ==
  ASSUME NEW f \in Nat, NEW t \in Nat, Fits("FrontdoorNode", f, t, 0)
  PROVE  f <= MaxRetries - 1 + t \div MaxNudges
<1> DEFINE q == t \div MaxNudges
           r == MaxRetries - 1
<1>1. MaxNudges \in Nat \ {0} /\ r \in Nat
  BY LimitsAssumption
<1>2. q \in Nat /\ t < (q + 1) * MaxNudges
  BY <1>1
<1>3. f * MaxNudges <= r * MaxNudges + t
  BY <1>1 DEF Fits
<1> HIDE DEF q, r
<1>4. f * MaxNudges < r * MaxNudges + (q + 1) * MaxNudges
  BY <1>1, <1>2, <1>3
<1>5. r * MaxNudges + (q + 1) * MaxNudges = (r + q + 1) * MaxNudges
  BY <1>1, <1>2
<1>6. f < r + q + 1
  <2>1. SUFFICES ASSUME f >= r + q + 1 PROVE FALSE
    BY <1>1, <1>2
  <2>2. f * MaxNudges >= (r + q + 1) * MaxNudges
    BY <1>1, <1>2, <2>1
  <2> QED
    BY <1>1, <1>2, <1>4, <1>5, <2>2
<1> QED
  BY <1>1, <1>2, <1>6 DEF q, r

\* The same of the task and of the token it may be resumed from.
BudgetInv ==
  /\ consecutive_nudges <= turns
  /\ node # "End" => Fits(node, consecutive_failures, turns, consecutive_nudges)
  /\ Fits(StartNode(token.current_role), token.consecutive_failures, token.turns, 0)

\* A turn that does not end the task is a nudge, or leaves few failures.
LEMMA FailureMoves ==
  ASSUME TypeOK, RunNode, node' # "End"
  PROVE  /\ turns' = turns + 1
         /\ \/ consecutive_failures' <= MaxRetries - 1
               /\ consecutive_nudges' \in {0, consecutive_nudges}
            \/ Nudge
<1>0. MaxRetries \in Nat \ {0}
  BY LimitsAssumption
<1>1. ~MaxTurnsReached /\ ~FinalAnswer
  BY DEF MaxTurnsReached, FinalAnswer, MakeEndResult
<1>2. CASE ModelEscalation
  <2>1. turns' = turns + 1
    BY <1>2, ExecuteTurnType, Zenon DEF ModelEscalation
  <2> QED
    BY <1>0, <1>2, <2>1 DEF ModelEscalation, EscalateTask
<1>3. CASE Output
  <2>1. turns' = turns + 1
    BY <1>3, ExecuteTurnType, Zenon DEF Output
  <2> QED
    BY <1>0, <1>3, <2>1 DEF Output
<1>4. CASE Nudge
  BY <1>4, ExecuteTurnType, Zenon DEF Nudge
<1>5. CASE \E c \in Category : Error(c)
  <2>1. PICK c \in Category : Error(c)
    BY <1>5
  <2>2. ErrorTurn
    BY <2>1, Zenon DEF Error, EarlyAbort, ThinkHarder, Escalate, Retry, Fail
  <2>3. turns' = turns + 1 /\ consecutive_nudges' = consecutive_nudges
    BY <2>2, ErrorTurnType
  <2>4. ~Fail(c)
    BY DEF Fail, MakeEndResult
  <2>5. CASE EarlyAbort(c) \/ Escalate(c)
    BY <1>0, <2>3, <2>5 DEF EarlyAbort, Escalate, EscalateTask
  <2>6. CASE ThinkHarder(c)
    BY <1>0, <2>3, <2>6 DEF ThinkHarder, ShouldThinkHarder, TypeOK, TaskTypeOK
  <2>7. CASE Retry(c)
    BY <1>0, <2>3, <2>7 DEF Retry, ShouldRetry, Failures, TypeOK, TaskTypeOK
  <2> QED
    BY <2>1, <2>4, <2>5, <2>6, <2>7 DEF Error
<1> QED
  BY <1>1, <1>2, <1>3, <1>4, <1>5 DEF RunNode

LEMMA BudgetInit == IInv /\ Init => BudgetInv
<1> SUFFICES ASSUME TypeOK, Init PROVE BudgetInv
  BY DEF IInv
<1>1. \A n : Fits(n, 0, 0, 0)
  BY FewFailuresFit, LimitsAssumption
<1> QED
  BY <1>1 DEF Init, BudgetInv, FromState

LEMMA BudgetStep == IInv /\ IInv' /\ BudgetInv /\ [Next]_vars => BudgetInv'
<1> SUFFICES ASSUME IInv, IInv', BudgetInv, [Next]_vars PROVE BudgetInv'
  OBVIOUS
<1>0. /\ TypeOK
      /\ turns \in Nat /\ consecutive_failures \in Nat /\ consecutive_nudges \in 0 .. MaxNudges - 1
      /\ turns' \in Nat /\ consecutive_failures' \in Nat /\ consecutive_nudges' \in Nat
      /\ token.turns \in Nat /\ token.consecutive_failures \in Nat
      /\ MaxNudges \in Nat \ {0} /\ MaxRetries \in Nat \ {0}
  BY LimitsAssumption DEF IInv, TypeOK, TaskTypeOK, Token
<1>1. CASE UNCHANGED vars
  BY <1>1 DEF vars, control, counters, BudgetInv
<1>2. CASE RunNode
  <2>1. CASE node' = "End"
    <3>1. token' = token
      BY <1>2, <2>1 DEF RunNode, Snapshot
    <3>2. consecutive_nudges' <= turns'
      <4>1. CASE MaxTurnsReached
        BY <4>1 DEF MaxTurnsReached, counters, BudgetInv
      <4>2. CASE FinalAnswer
        <5>1. turns' = turns + 1
          BY <1>0, <4>2, ExecuteTurnType, Zenon DEF FinalAnswer
        <5> QED
          BY <1>0, <4>2, <5>1 DEF FinalAnswer, BudgetInv
      <4>3. CASE \E c \in Category : Error(c)
        <5>1. ErrorTurn
          BY <4>3, Zenon DEF Error, EarlyAbort, ThinkHarder, Escalate, Retry, Fail
        <5>2. turns' = turns + 1 /\ consecutive_nudges' = consecutive_nudges
          BY <1>0, <5>1, ErrorTurnType
        <5> QED
          BY <1>0, <5>2 DEF BudgetInv
      <4>4. CASE ModelEscalation \/ Output \/ Nudge
        <5>1. turns' = turns + 1
          BY <1>0, <4>4, ExecuteTurnType, Zenon DEF ModelEscalation, Output, Nudge
        <5>2. \/ consecutive_nudges' \in {0, consecutive_nudges}
              \/ consecutive_nudges' = consecutive_nudges + 1
          <6>1. CASE ModelEscalation \/ Output
            BY <6>1 DEF ModelEscalation, Output
          <6>2. CASE Nudge
            BY <6>2 DEF Nudge
          <6> QED
            BY <4>4, <6>1, <6>2
        <5> QED
          BY <1>0, <5>1, <5>2 DEF BudgetInv
      <4> QED
        BY <1>2, <4>1, <4>2, <4>3, <4>4 DEF RunNode
    <3> QED
      BY <2>1, <3>1, <3>2 DEF BudgetInv
  <2>2. CASE node' # "End"
    <3>1. turns' = turns + 1 /\ node # "End"
      BY <1>0, <1>2, <2>2, FailureMoves, NodeActionEffect
    <3>2. /\ consecutive_nudges' <= turns'
          /\ Fits(node', consecutive_failures', turns', consecutive_nudges')
      <4>1. CASE /\ consecutive_failures' <= MaxRetries - 1
                 /\ consecutive_nudges' \in {0, consecutive_nudges}
        <5>1. consecutive_nudges' <= turns'
          BY <1>0, <3>1, <4>1 DEF BudgetInv
        <5> QED
          BY <1>0, <4>1, <5>1, FewFailuresFit
      <4>2. CASE Nudge
        <5>1. node' = node
          BY <1>0, <4>2, QuietTurnType DEF Nudge
        <5>2. /\ consecutive_failures' =
                   (IF node = "FrontdoorNode" THEN consecutive_failures ELSE 0)
                     + (IF consecutive_nudges + 1 >= MaxNudges THEN 1 ELSE 0)
              /\ consecutive_nudges' =
                   IF consecutive_nudges + 1 >= MaxNudges THEN 0 ELSE consecutive_nudges + 1
          BY <4>2 DEF Nudge, Promoted
        <5>3. consecutive_nudges' <= turns'
          BY <1>0, <3>1, <5>2 DEF BudgetInv
        <5>4. CASE node = "FrontdoorNode"
          <6>1. Fits("FrontdoorNode", consecutive_failures, turns, consecutive_nudges)
            BY <3>1, <5>4 DEF BudgetInv
          <6> QED
            BY <1>0, <3>1, <5>1, <5>2, <5>3, <5>4, <6>1, NudgeFits
        <5>5. CASE node # "FrontdoorNode"
          BY <1>0, <5>1, <5>2, <5>3, <5>5 DEF Fits
        <5> QED
          BY <5>4, <5>5
      <4> QED
        BY <1>0, <1>2, <2>2, <4>1, <4>2, FailureMoves
    <3>3. Fits(StartNode(token'.current_role), token'.consecutive_failures, token'.turns, 0)
      <4>1. CASE token' = token
        BY <4>1 DEF BudgetInv
      <4>2. CASE token' = FromState'
        <5>1. /\ token'.current_role = current_role' /\ token'.turns = turns'
              /\ token'.consecutive_failures = consecutive_failures'
          BY <4>2 DEF FromState
        <5>2. node' = StartNode(current_role')
          BY <2>2 DEF IInv, EscalationsAccounted
        <5> QED
          BY <1>0, <3>2, <5>1, <5>2, FitsWithoutNudges
      <4> QED
        BY <1>2, <4>1, <4>2 DEF RunNode, Snapshot
    <3> QED
      BY <3>2, <3>3 DEF BudgetInv
  <2> QED
    BY <2>1, <2>2
<1>3. CASE Resume
  BY <1>0, <1>3 DEF Resume, BudgetInv
<1> QED
  BY <1>1, <1>2, <1>3 DEF Next, Ended

\* However turns fail, idle and die, a role carries no more failures than its
\* retries and, at FrontdoorNode, one for each run of nudges the turns allow.
THEOREM FailuresStayInBudget == Spec => []FailureBudget
<1>1. IInv /\ BudgetInv => FailureBudget
  <2> SUFFICES ASSUME IInv, BudgetInv PROVE FailureBudget
    OBVIOUS
  <2>1. turns \in Nat /\ consecutive_failures \in Nat /\ consecutive_nudges \in Nat
    BY LimitsAssumption DEF IInv, TypeOK, TaskTypeOK
  <2>2. CASE node = "FrontdoorNode"
    <3>1. Fits("FrontdoorNode", consecutive_failures, turns, consecutive_nudges)
      BY <2>2 DEF BudgetInv
    <3>2. Fits("FrontdoorNode", consecutive_failures, turns, 0)
      BY <2>1, <3>1, FitsWithoutNudges
    <3> QED
      BY <2>1, <2>2, <3>2, FitsBudget DEF FailureBudget
  <2>3. CASE node # "FrontdoorNode"
    BY <2>3 DEF BudgetInv, FailureBudget, Fits
  <2> QED
    BY <2>2, <2>3
<1> QED
  BY <1>1, InvInit, InvStep, BudgetInit, BudgetStep, PTL DEF Spec

-----------------------------------------------------------------------------
\* Think-harder.

LEMMA BoostStep == TypeOK /\ BoostIsFresh /\ [Next]_vars => BoostIsFresh'
<1> SUFFICES ASSUME TypeOK, BoostIsFresh, [Next]_vars, think_harder_config'
             PROVE  BoostIsFresh'
  BY DEF BoostIsFresh
<1>1. ASSUME NEW c \in Category, ThinkHarder(c) PROVE BoostIsFresh'
  <2>1. turns' = turns + 1
    BY <1>1, ErrorTurnType DEF ThinkHarder
  <2>2. current_role' = current_role /\ current_role \in Role
    BY <1>1 DEF ThinkHarder, RunAgain, control, TypeOK, TaskTypeOK
  <2>3. /\ think_harder_attempted'
        /\ last_attempt_turn'[current_role] = turns + 1
        /\ consecutive_failures' = MaxRetries - 1
    BY <1>1, <2>2 DEF ThinkHarder, ShouldThinkHarder, TypeOK, TaskTypeOK
  <2> QED
    BY <2>1, <2>2, <2>3 DEF BoostIsFresh
<1>2. CASE MaxTurnsReached \/ UNCHANGED vars
  BY <1>2 DEF BoostIsFresh, MaxTurnsReached, MakeEndResult, vars, control, counters, boost
<1>3. ASSUME ClearBoost PROVE FALSE
  BY <1>3 DEF ClearBoost
<1>4. CASE RunNode
  BY <1>1, <1>2, <1>3, <1>4 DEF RunNode, ModelEscalation, FinalAnswer, Output, Nudge, QuietTurn,
     Error, EarlyAbort, Escalate, Retry, Fail
<1>5. CASE Resume
  BY <1>5 DEF Resume
<1> QED
  BY <1>2, <1>4, <1>5 DEF Next, Ended

\* A boosted configuration is used by the next turn of the role that earned it.
THEOREM BoostStaysFresh == Spec => []BoostIsFresh
<1>1. Init => BoostIsFresh
  BY DEF Init, BoostIsFresh
<1> QED
  BY <1>1, TypeCorrect, BoostStep, PTL DEF Spec

\* Between two crashes a role thinks harder at most once.
THEOREM EachRoleThinksHarderOnce == Spec => ThinksHarderOnce
<1>1. ASSUME IInv, [Next]_vars, NEW r \in Role,
             last_attempt_turn'[r] \notin {last_attempt_turn[r], Never}
      PROVE  last_attempt_turn[r] = Never
  <2>1. TypeOK /\ AttemptsBelow
    BY <1>1 DEF IInv
  <2>2. CASE RunNode
    <3>1. PICK c \in Category : ThinkHarder(c)
      BY <1>1, <2>1, <2>2, NodeActionEffect DEF KeepsAttempt
    <3>2. r = current_role
      BY <1>1, <2>1, <3>1 DEF ThinkHarder, TypeOK, TaskTypeOK
    <3>3. ~think_harder_attempted
      BY <3>1 DEF ThinkHarder, ShouldThinkHarder
    <3>4. ~(Rank(r) < Rank(r))
      BY DEF Rank
    <3> QED
      BY <2>1, <3>2, <3>3, <3>4 DEF AttemptsBelow
  <2>3. CASE Resume
    BY <1>1, <2>3 DEF Resume
  <2>4. CASE UNCHANGED vars
    BY <1>1, <2>4 DEF vars, boost
  <2> QED
    BY <1>1, <2>2, <2>3, <2>4 DEF Next, Ended
<1>2. IInv /\ [Next]_vars =>
        [\A r \in Role :
           last_attempt_turn'[r] \notin {last_attempt_turn[r], Never} => last_attempt_turn[r] = Never]_vars
  BY <1>1
<1> QED
  BY <1>2, InvHolds, PTL DEF Spec, ThinksHarderOnce

\* A standard error ends a task only at the top of its chain or with the
\* escalation budget spent.
THEOREM TasksGiveUpAtTheTop == Spec => GivesUpAtTheTop
<1>1. ASSUME IInv, [Next]_vars, Fail("standard"), EscalatesTo(current_role) # None
      PROVE  escalation_count >= MaxEscalations
  <2>1. TypeOK /\ EscalationsAccounted /\ NoRoleCycle
    BY <1>1, ClimbingHasNoCycle DEF IInv
  <2>2. node # "End" /\ current_role \in Role /\ escalation_count \in Int /\ Failures \in Int
    BY <1>1, <2>1, ErrorTurnType DEF Fail, TypeOK, TaskTypeOK, Failures
  <2>3. NodeTarget(node) # None
    BY <1>1, <2>1, <2>2, NodesFollowMap DEF EscalationsAccounted
  <2>4. Failures >= MaxRetries
    BY <1>1, <2>2, LimitsAssumption DEF Fail, ShouldRetry
  <2>5. ~(escalation_count < MaxEscalations)
    BY <1>1, <2>1, <2>3, <2>4 DEF Fail, ShouldEscalate, NoRoleCycle
  <2> QED
    BY <2>2, <2>5, LimitsAssumption
<1>2. IInv /\ [Next]_vars =>
        [Fail("standard") => EscalatesTo(current_role) = None \/ escalation_count >= MaxEscalations]_vars
  BY <1>1
<1> QED
  BY <1>2, InvHolds, PTL DEF Spec, GivesUpAtTheTop

-----------------------------------------------------------------------------
\* The graph implements the ladder.

LEMMA LadderInit == Init => Ladder!Init
<1> SUFFICES ASSUME Init PROVE Ladder!Init
  OBVIOUS
<1>1. current_role \in StartRoles /\ role_history = <<current_role>>
  BY DEF Init
<1>2. node # "End"
  BY <1>1, MapTypes, StartRolesAssumption DEF Init
<1> QED
  BY <1>1, <1>2 DEF Ladder!Init

LEMMA LadderStep == IInv /\ [Next]_vars => [Ladder!Next]_(Ladder!ladder)
<1> SUFFICES ASSUME IInv, [Next]_vars PROVE [Ladder!Next]_(Ladder!ladder)
  OBVIOUS
<1>1. TypeOK /\ EscalationsAccounted /\ HistoryClimbs /\ TokenIsBehind
  BY DEF IInv
<1>2. CASE RunNode
  <2>1. node # "End" /\ node \in NodeClass
    BY <1>1, <1>2, NodeActionEffect DEF TypeOK, TaskTypeOK
  <2>2. CASE Climbs
    <3>1. /\ EscalatesTo(current_role) # None
          /\ role_history' = Append(role_history, EscalatesTo(current_role))
      BY <1>1, <2>1, <2>2, ClimbExtendsPath
    <3>2. node' # "End"
      BY <2>1, <2>2, MapTypes DEF Climbs, EscalateTask
    <3>3. Ladder!Top = current_role
      BY <1>1 DEF Ladder!Top, EscalationsAccounted
    <3>4. Ladder!EscalatesTo(current_role) = EscalatesTo(current_role) /\ Ladder!None = None
      BY DEF EscalatesTo, Ladder!EscalatesTo, WorkerRole, Ladder!WorkerRole, None, Ladder!None
    <3> QED
      BY <2>1, <3>1, <3>2, <3>3, <3>4 DEF Ladder!Next, Ladder!Climb
  <2>3. CASE Stays
    <3>1. CASE node' = node
      <4>1. role_history' = role_history
        BY <2>3 DEF Stays
      <4> QED
        BY <2>1, <3>1, <4>1 DEF Ladder!ladder
    <3>2. CASE node' = "End"
      BY <2>1, <2>3, <3>2 DEF Stays, Ladder!Next, Ladder!Finish
    <3> QED
      BY <2>3, <3>1, <3>2 DEF Stays
  <2> QED
    BY <1>1, <1>2, <2>2, <2>3, NodeActionEffect
<1>3. CASE Resume
  <2>1. node # "End" /\ role_history' = token.role_history
    BY <1>3 DEF Resume
  <2>2. node' # "End"
    <3>1. token.current_role \in Role
      BY <1>1 DEF TypeOK, Token
    <3> QED
      BY <1>3, <3>1, MapTypes DEF Resume
  <2>3. token.role_history \in Seq(Role) /\ role_history \in Seq(Role)
    BY <1>1 DEF TypeOK, TaskTypeOK, Token
  <2> DEFINE m == Len(token.role_history)
  <2>4. m \in 1 .. Len(role_history)
    BY <1>1, <2>3 DEF TokenIsBehind, IsPrefixOf
  <2>5. token.role_history = SubSeq(role_history, 1, m)
    BY <1>1, <2>3, <2>4 DEF TokenIsBehind, IsPrefixOf
  <2> QED
    BY <2>1, <2>2, <2>4, <2>5 DEF Ladder!Next, Ladder!FallBack
<1>4. CASE UNCHANGED vars
  <2>1. UNCHANGED <<node, role_history, result>>
    BY <1>4 DEF vars, control
  <2> QED
    BY <2>1 DEF Ladder!ladder
<1> QED
  BY <1>2, <1>3, <1>4 DEF Next, Ended

\* A task climbs the escalation map one role at a time, falls back only to a
\* role it had reached before, and ends once.
THEOREM GraphImplementsLadder == Spec => ImplementsLadder
<1>1. Spec => Ladder!Spec
  BY LadderInit, LadderStep, InvHolds, PTL DEF Spec, Ladder!Spec
<1> QED
  BY <1>1 DEF ImplementsLadder

=============================================================================
