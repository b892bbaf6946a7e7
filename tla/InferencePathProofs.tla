------------------------ MODULE InferencePathProofs ------------------------
(***************************************************************************)
(* Invariants of InferencePath, for any finite set of calls, spread over   *)
(* workers and roles in any way.                                           *)
(*                                                                         *)
(* The invariant says of each shared object which calls have a part of it: *)
(* the holders of the lock are the calls under it, and each counter is its *)
(* limit less the calls inside.  A step moves one call, so of each set it  *)
(* adds one call, removes one, or leaves it alone.                         *)
(***************************************************************************)
EXTENDS InferencePath, FiniteSetTheorems, TLAPS

-----------------------------------------------------------------------------
\* Counting.

LEMMA AddOne ==
  ASSUME NEW S \in SUBSET Call, NEW c \in Call, c \notin S
  PROVE  Cardinality(S \cup {c}) = Cardinality(S) + 1
<1>1. IsFiniteSet(S)
  BY CallAssumption, FS_Subset
<1> QED
  BY <1>1, FS_AddElement

LEMMA DropOne ==
  ASSUME NEW S \in SUBSET Call, NEW c \in S
  PROVE  Cardinality(S \ {c}) = Cardinality(S) - 1
<1>1. IsFiniteSet(S)
  BY CallAssumption, FS_Subset
<1> QED
  BY <1>1, FS_RemoveElement

LEMMA CountIsNat == ASSUME NEW S \in SUBSET Call PROVE Cardinality(S) \in Nat
BY CallAssumption, FS_Subset, FS_CardinalityType

\* The calls each counter counts.
Inside(i, r)      == {c \in Call : PrimitivesOf[c] = i /\ RoleOf[c] = r /\ InRole(c)}
Slots(w, p)       == {c \in Call : WorkerOf[c] = w /\ PortOf(c) = p /\ Admitted(c)}
Waiters(w, p, x)  == {c \in Call : WorkerOf[c] = w /\ PortOf(c) = p /\ PriorityOf[c] = x /\ IsWaiter(c)}

RolesExact ==
  \A i \in Primitives, r \in FirstRole : role_gate[i][r] = RoleLimit(r) - Cardinality(Inside(i, r))
SlotsExact ==
  \A w \in Worker, p \in Port : available[w][p] = AdmissionLimit(p) - Cardinality(Slots(w, p))
WaitersExact ==
  \A w \in Worker, p \in Port, x \in Priority : waiting[w][p][x] = Cardinality(Waiters(w, p, x))

LEMMA ExactParts == CountersAreExact <=> RolesExact /\ SlotsExact /\ WaitersExact
BY DEF CountersAreExact, RolesExact, SlotsExact, WaitersExact, Inside, Slots, Waiters

-----------------------------------------------------------------------------
\* Types.

\* Everything but the counters, and the counters with their range left open:
\* that waiting is never negative follows from its being exact.
CallTypes ==
  /\ pc \in [Call -> PC] /\ outcome \in [Call -> Outcome]
  /\ role \in [Call -> UsedRole] /\ tried \in [Call -> Nat]
  /\ \A c \in Call : role[c] \in RolesOf(c) /\ tried[c] \in 0 .. Len(FallbackRoles(RoleOf[c]))
  /\ holders \subseteq Call
  /\ generating \subseteq Call \X UsedRole
CircuitTypes == circuit \in [Worker -> [Port -> CircuitValue]]
CounterTypes ==
  /\ role_gate \in [Primitives -> [FirstRole -> Nat]]
  /\ available \in [Worker -> [Port -> Nat]]
  /\ waiting \in [Worker -> [Port -> [Priority -> Int]]]

\* The holders of the lock are the calls under it, and a heavy one is alone.
Holding ==
  /\ holders = {c \in Call : HasLock(c)}
  /\ \A c, d \in holders : c # d => ~Heavy(role[c])

IInv == CallTypes /\ CircuitTypes /\ CounterTypes /\ RolesExact /\ SlotsExact /\ WaitersExact /\ Holding

LEMMA FallbackCount == ASSUME NEW r PROVE Len(FallbackRoles(r)) \in Nat
<1>1. FallbackRoles(r) \in {<<"architect_coding", "coder_escalation">>,
                           <<"architect_general", "coder_escalation">>,
                           <<"frontdoor">>, <<"worker_general">>, <<"architect_general">>, << >>}
  BY DEF FallbackRoles
<1>2. \A x, y : Len(<<x, y>>) = 2 /\ Len(<<x>>) = 1
  OBVIOUS
<1>3. Len(<< >>) = 0
  OBVIOUS
<1> QED
  BY <1>1, <1>2, <1>3

\* Where a call belongs.
LEMMA Places ==
  ASSUME CallTypes, NEW c \in Call
  PROVE  /\ WorkerOf[c] \in Worker /\ PrimitivesOf[c] \in Primitives
         /\ RoleOf[c] \in FirstRole /\ PriorityOf[c] \in Priority
         /\ PortOf(c) \in Port /\ role[c] \in UsedRole
         /\ RolesOf(c) \subseteq UsedRole
<1>1. role[c] \in UsedRole /\ RolesOf(c) \subseteq UsedRole
  BY DEF CallTypes, UsedRole
<1>2. PortOf(c) \in Port
  BY <1>1 DEF PortOf, Port
<1> QED
  BY <1>1, <1>2, CallAssumption DEF Worker, Primitives, FirstRole

-----------------------------------------------------------------------------
\* Moving a call.

\* Goto changes the place and the outcome of one call.
LEMMA GotoMoves ==
  ASSUME CallTypes, NEW c \in Call, NEW from, NEW to \in PC, NEW o \in Outcome,
         Goto(c, from, to, o),
         holders' \subseteq Call, generating' \subseteq Call \X UsedRole
  PROVE  /\ CallTypes'
         /\ pc[c] = from /\ pc'[c] = to /\ outcome'[c] = o
         /\ \A d \in Call \ {c} : pc'[d] = pc[d] /\ outcome'[d] = outcome[d]
         /\ role' = role
BY DEF CallTypes, Goto

Out       == {"idle", "done"}
WaitPlace == {"polling", "looked", "leaving"}
SlotPlace == {"checking", "locking", "inferring", "unlocking", "erasing", "recording", "releasing"}
LockPlace == {"inferring", "unlocking"}

\* A move that stays inside, or outside, what a counter counts, keeps it exact.
LEMMA RoleStays ==
  ASSUME CallTypes, RolesExact, NEW c \in Call, NEW from, NEW to \in PC, NEW o \in Outcome,
         Goto(c, from, to, o), role_gate' = role_gate, from \in Out <=> to \in Out
  PROVE  RolesExact'
<1>1. \A d \in Call : InRole(d)' <=> InRole(d)
  BY DEF CallTypes, Goto, InRole, Out
<1>2. \A i \in Primitives, r \in FirstRole : Inside(i, r)' = Inside(i, r)
  BY <1>1 DEF Inside
<1> QED
  BY <1>2 DEF RolesExact

LEMMA WaitersStay ==
  ASSUME CallTypes, WaitersExact, NEW c \in Call, NEW from, NEW to \in PC, NEW o \in Outcome,
         Goto(c, from, to, o), waiting' = waiting, from \in WaitPlace <=> to \in WaitPlace
  PROVE  WaitersExact'
<1>1. \A d \in Call : (IsWaiter(d)' <=> IsWaiter(d)) /\ PortOf(d)' = PortOf(d)
  BY DEF CallTypes, Goto, IsWaiter, WaitPlace, PortOf
<1>2. \A w \in Worker, p \in Port, x \in Priority : Waiters(w, p, x)' = Waiters(w, p, x)
  BY <1>1 DEF Waiters
<1> QED
  BY <1>2 DEF WaitersExact

HasSlot(place, o) == \/ place \in SlotPlace
                     \/ place = "leaving" /\ o = "admitted"

LEMMA SlotsStay ==
  ASSUME CallTypes, SlotsExact, NEW c \in Call, NEW from, NEW to \in PC, NEW o \in Outcome,
         Goto(c, from, to, o), available' = available,
         HasSlot(from, outcome[c]) <=> HasSlot(to, o)
  PROVE  SlotsExact'
<1>a. pc[c] = from /\ pc'[c] = to /\ outcome'[c] = o /\ role' = role
  BY DEF CallTypes, Goto
<1>b. Admitted(c)' <=> Admitted(c)
  BY <1>a DEF Admitted, HasSlot, SlotPlace
<1>c. \A d \in Call \ {c} : Admitted(d)' <=> Admitted(d)
  BY DEF CallTypes, Goto, Admitted
<1>1. \A d \in Call : (Admitted(d)' <=> Admitted(d)) /\ PortOf(d)' = PortOf(d)
  BY <1>a, <1>b, <1>c DEF PortOf
<1>2. \A w \in Worker, p \in Port : Slots(w, p)' = Slots(w, p)
  BY <1>1 DEF Slots
<1> QED
  BY <1>2 DEF SlotsExact

LEMMA LockStays ==
  ASSUME CallTypes, Holding, NEW c \in Call, NEW from, NEW to \in PC, NEW o \in Outcome,
         Goto(c, from, to, o), holders' = holders, from \in LockPlace <=> to \in LockPlace
  PROVE  Holding'
BY DEF CallTypes, Goto, Holding, HasLock, LockPlace

-----------------------------------------------------------------------------
\* Taking and giving back.

LEMMA Update2 ==
  ASSUME NEW A, NEW B, NEW V, NEW f \in [A -> [B -> V]], NEW a \in A, NEW b \in B, NEW v \in V,
         NEW g, g = [f EXCEPT ![a][b] = v]
  PROVE  /\ g \in [A -> [B -> V]] /\ g[a][b] = v
         /\ \A x \in A, y \in B : x # a \/ y # b => g[x][y] = f[x][y]
OBVIOUS

LEMMA Update3 ==
  ASSUME NEW A, NEW B, NEW C, NEW V, NEW f \in [A -> [B -> [C -> V]]],
         NEW a \in A, NEW b \in B, NEW c \in C, NEW v \in V,
         NEW g, g = [f EXCEPT ![a][b][c] = v]
  PROVE  /\ g \in [A -> [B -> [C -> V]]] /\ g[a][b][c] = v
         /\ \A x \in A, y \in B, z \in C : x # a \/ y # b \/ z # c => g[x][y][z] = f[x][y][z]
OBVIOUS

\* A call goes in and takes one place, or goes out and gives one back: the
\* counter stays exact.
LEMMA RoleMoves ==
  ASSUME CallTypes, CounterTypes, RolesExact, NEW c \in Call,
         NEW from, NEW to \in PC, NEW o \in Outcome, Goto(c, from, to, o), NEW n \in Nat,
         role_gate' = [role_gate EXCEPT ![PrimitivesOf[c]][RoleOf[c]] = n],
         \/ from \in Out /\ to \notin Out /\ n = role_gate[PrimitivesOf[c]][RoleOf[c]] - 1
         \/ from \notin Out /\ to \in Out /\ n = role_gate[PrimitivesOf[c]][RoleOf[c]] + 1
  PROVE  RolesExact' /\ role_gate' \in [Primitives -> [FirstRole -> Nat]]
<1> DEFINE i == PrimitivesOf[c]
           r == RoleOf[c]
           S == Inside(i, r)
<1>1. i \in Primitives /\ r \in FirstRole
  BY Places
<1>2. role_gate[i][r] \in Nat /\ role_gate[i][r] = RoleLimit(r) - Cardinality(S)
  BY <1>1 DEF CounterTypes, RolesExact
<1>3. /\ role_gate' \in [Primitives -> [FirstRole -> Nat]] /\ role_gate'[i][r] = n
      /\ \A j \in Primitives, q \in FirstRole : j # i \/ q # r => role_gate'[j][q] = role_gate[j][q]
  <2>1. role_gate \in [Primitives -> [FirstRole -> Nat]] /\ role_gate' = [role_gate EXCEPT ![i][r] = n]
    BY DEF CounterTypes
  <2> HIDE DEF i, r
  <2> QED
    BY ONLY <1>1, <2>1, n \in Nat, Update2
<1>4. /\ InRole(c) <=> from \notin Out
      /\ InRole(c)' <=> to \notin Out
      /\ \A d \in Call \ {c} : InRole(d)' <=> InRole(d)
  BY DEF Goto, InRole, CallTypes, Out
<1>5. \A j \in Primitives, q \in FirstRole : j # i \/ q # r => Inside(j, q)' = Inside(j, q)
  BY <1>4 DEF Inside
<1>6. S \in SUBSET Call /\ Cardinality(S) \in Nat
  BY CountIsNat DEF Inside
<1>7. role_gate'[i][r] = RoleLimit(r) - Cardinality(S')
  <2>1. CASE from \in Out /\ to \notin Out /\ n = role_gate[i][r] - 1
    <3>1. S' = S \cup {c} /\ c \notin S
      BY <1>4, <2>1 DEF Inside
    <3>2. Cardinality(S') = Cardinality(S) + 1
      BY <1>6, <3>1, AddOne
    <3> QED
      BY <1>2, <1>3, <1>6, <2>1, <3>2 DEF RoleLimit
  <2>2. CASE from \notin Out /\ to \in Out /\ n = role_gate[i][r] + 1
    <3>1. S' = S \ {c} /\ c \in S
      BY <1>4, <2>2 DEF Inside
    <3>2. Cardinality(S') = Cardinality(S) - 1
      BY <1>6, <3>1, DropOne
    <3> QED
      BY <1>2, <1>3, <1>6, <2>2, <3>2 DEF RoleLimit
  <2> QED
    BY <2>1, <2>2
<1>8. RolesExact'
  <2>1. SUFFICES ASSUME NEW j \in Primitives, NEW q \in FirstRole
                 PROVE  role_gate'[j][q] = RoleLimit(q) - Cardinality(Inside(j, q)')
    BY DEF RolesExact
  <2>2. CASE j = i /\ q = r
    BY <1>7, <2>2
  <2>3. CASE j # i \/ q # r
    BY <1>3, <1>5, <2>3 DEF RolesExact
  <2> QED
    BY <2>2, <2>3
<1> QED
  BY <1>3, <1>8

LEMMA SlotMoves ==
  ASSUME CallTypes, CounterTypes, SlotsExact, NEW c \in Call,
         NEW from, NEW to \in PC, NEW o \in Outcome, Goto(c, from, to, o), NEW n \in Nat,
         available' = [available EXCEPT ![WorkerOf[c]][PortOf(c)] = n],
         \/ /\ ~HasSlot(from, outcome[c]) /\ HasSlot(to, o)
            /\ n = available[WorkerOf[c]][PortOf(c)] - 1
         \/ /\ HasSlot(from, outcome[c]) /\ ~HasSlot(to, o)
            /\ n = available[WorkerOf[c]][PortOf(c)] + 1
  PROVE  SlotsExact' /\ available' \in [Worker -> [Port -> Nat]]
<1> DEFINE w == WorkerOf[c]
           p == PortOf(c)
           S == Slots(w, p)
<1>1. w \in Worker /\ p \in Port
  BY Places
<1>2. available[w][p] \in Nat /\ available[w][p] = AdmissionLimit(p) - Cardinality(S)
  BY <1>1 DEF CounterTypes, SlotsExact
<1>3. /\ available' \in [Worker -> [Port -> Nat]] /\ available'[w][p] = n
      /\ \A v \in Worker, q \in Port : v # w \/ q # p => available'[v][q] = available[v][q]
  <2>1. available \in [Worker -> [Port -> Nat]] /\ available' = [available EXCEPT ![w][p] = n]
    BY DEF CounterTypes
  <2> HIDE DEF w, p
  <2> QED
    BY ONLY <1>1, <2>1, n \in Nat, Update2
<1>4. /\ Admitted(c) <=> HasSlot(from, outcome[c])
      /\ Admitted(c)' <=> HasSlot(to, o)
      /\ \A d \in Call \ {c} : Admitted(d)' <=> Admitted(d)
      /\ \A d \in Call : PortOf(d)' = PortOf(d)
  <2>1. /\ pc[c] = from /\ pc'[c] = to /\ outcome'[c] = o /\ role' = role
        /\ \A d \in Call \ {c} : pc'[d] = pc[d] /\ outcome'[d] = outcome[d]
    BY DEF Goto, CallTypes
  <2>2. \A d \in Call : Admitted(d) <=> HasSlot(pc[d], outcome[d])
    BY DEF Admitted, HasSlot, SlotPlace
  <2>3. \A d \in Call : Admitted(d)' <=> HasSlot(pc'[d], outcome'[d])
    BY DEF Admitted, HasSlot, SlotPlace
  <2> QED
    BY <2>1, <2>2, <2>3 DEF PortOf
<1>5. \A v \in Worker, q \in Port : v # w \/ q # p => Slots(v, q)' = Slots(v, q)
  BY <1>4 DEF Slots
<1>6. S \in SUBSET Call /\ Cardinality(S) \in Nat
  BY CountIsNat DEF Slots
<1>7. p' = p /\ S' = Slots(w, p)'
  BY <1>4
<1>8. available'[w][p] = AdmissionLimit(p) - Cardinality(S')
  <2>1. CASE ~HasSlot(from, outcome[c]) /\ HasSlot(to, o) /\ n = available[w][p] - 1
    <3>1. S' = S \cup {c} /\ c \notin S
      BY <1>4, <2>1 DEF Slots
    <3>2. Cardinality(S') = Cardinality(S) + 1
      BY <1>6, <3>1, AddOne
    <3> QED
      BY <1>2, <1>3, <1>6, <2>1, <3>2 DEF AdmissionLimit
  <2>2. CASE HasSlot(from, outcome[c]) /\ ~HasSlot(to, o) /\ n = available[w][p] + 1
    <3>1. S' = S \ {c} /\ c \in S
      BY <1>4, <2>2 DEF Slots
    <3>2. Cardinality(S') = Cardinality(S) - 1
      BY <1>6, <3>1, DropOne
    <3> QED
      BY <1>2, <1>3, <1>6, <2>2, <3>2 DEF AdmissionLimit
  <2> QED
    BY <2>1, <2>2
<1>9. SlotsExact'
  <2>1. SUFFICES ASSUME NEW v \in Worker, NEW q \in Port
                 PROVE  available'[v][q] = AdmissionLimit(q) - Cardinality(Slots(v, q)')
    BY DEF SlotsExact
  <2>2. CASE v = w /\ q = p
    <3>1. Slots(v, q)' = S'
      BY <1>4, <2>2 DEF Slots
    <3> QED
      BY <1>8, <2>2, <3>1
  <2>3. CASE v # w \/ q # p
    BY <1>3, <1>5, <2>3 DEF SlotsExact
  <2> QED
    BY <2>2, <2>3
<1> QED
  BY <1>3, <1>9

LEMMA WaiterMoves ==
  ASSUME CallTypes, CounterTypes, WaitersExact, NEW c \in Call,
         NEW from, NEW to \in PC, NEW o \in Outcome, Goto(c, from, to, o), NEW n \in Int,
         waiting' = [waiting EXCEPT ![WorkerOf[c]][PortOf(c)][PriorityOf[c]] = n],
         \/ /\ from \notin WaitPlace /\ to \in WaitPlace
            /\ n = waiting[WorkerOf[c]][PortOf(c)][PriorityOf[c]] + 1
         \/ /\ from \in WaitPlace /\ to \notin WaitPlace
            /\ n = waiting[WorkerOf[c]][PortOf(c)][PriorityOf[c]] - 1
  PROVE  WaitersExact' /\ waiting' \in [Worker -> [Port -> [Priority -> Int]]]
<1> DEFINE w == WorkerOf[c]
           p == PortOf(c)
           x == PriorityOf[c]
           S == Waiters(w, p, x)
<1>1. w \in Worker /\ p \in Port /\ x \in Priority
  BY Places
<1>2. waiting[w][p][x] = Cardinality(S)
  BY <1>1 DEF WaitersExact
<1>3. /\ waiting' \in [Worker -> [Port -> [Priority -> Int]]] /\ waiting'[w][p][x] = n
      /\ \A v \in Worker, q \in Port, y \in Priority :
           v # w \/ q # p \/ y # x => waiting'[v][q][y] = waiting[v][q][y]
  <2>1. /\ waiting \in [Worker -> [Port -> [Priority -> Int]]]
        /\ waiting' = [waiting EXCEPT ![w][p][x] = n]
    BY DEF CounterTypes
  <2> HIDE DEF w, p, x
  <2> QED
    BY ONLY <1>1, <2>1, n \in Int, Update3
<1>4. /\ IsWaiter(c) <=> from \in WaitPlace
      /\ IsWaiter(c)' <=> to \in WaitPlace
      /\ \A d \in Call \ {c} : IsWaiter(d)' <=> IsWaiter(d)
      /\ \A d \in Call : PortOf(d)' = PortOf(d)
  BY DEF Goto, IsWaiter, CallTypes, WaitPlace, PortOf
<1>5. \A v \in Worker, q \in Port, y \in Priority :
        v # w \/ q # p \/ y # x => Waiters(v, q, y)' = Waiters(v, q, y)
  BY <1>4 DEF Waiters
<1>6. S \in SUBSET Call /\ Cardinality(S) \in Nat
  BY CountIsNat DEF Waiters
<1>7. waiting'[w][p][x] = Cardinality(S')
  <2>1. CASE from \notin WaitPlace /\ to \in WaitPlace /\ n = waiting[w][p][x] + 1
    <3>1. S' = S \cup {c} /\ c \notin S
      BY <1>4, <2>1 DEF Waiters
    <3>2. Cardinality(S') = Cardinality(S) + 1
      BY <1>6, <3>1, AddOne
    <3> QED
      BY <1>2, <1>3, <2>1, <3>2
  <2>2. CASE from \in WaitPlace /\ to \notin WaitPlace /\ n = waiting[w][p][x] - 1
    <3>1. S' = S \ {c} /\ c \in S
      BY <1>4, <2>2 DEF Waiters
    <3>2. Cardinality(S') = Cardinality(S) - 1
      BY <1>6, <3>1, DropOne
    <3> QED
      BY <1>2, <1>3, <2>2, <3>2
  <2> QED
    BY <2>1, <2>2
<1>8. WaitersExact'
  <2>1. SUFFICES ASSUME NEW v \in Worker, NEW q \in Port, NEW y \in Priority
                 PROVE  waiting'[v][q][y] = Cardinality(Waiters(v, q, y)')
    BY DEF WaitersExact
  <2>2. CASE v = w /\ q = p /\ y = x
    <3>1. Waiters(v, q, y)' = S'
      BY <1>4, <2>2 DEF Waiters
    <3> QED
      BY <1>7, <2>2, <3>1
  <2>3. CASE v # w \/ q # p \/ y # x
    BY <1>3, <1>5, <2>3 DEF WaitersExact
  <2> QED
    BY <2>2, <2>3
<1> QED
  BY <1>3, <1>8

-----------------------------------------------------------------------------
\* The actions.

\* A move that takes nothing and gives nothing back.
LEMMA PlainMove ==
  ASSUME IInv, NEW c \in Call, NEW from, NEW to \in PC, NEW o \in Outcome, Goto(c, from, to, o),
         UNCHANGED gates, holders' = holders, generating' \subseteq Call \X UsedRole, CircuitTypes',
         from \in Out <=> to \in Out, from \in WaitPlace <=> to \in WaitPlace,
         HasSlot(from, outcome[c]) <=> HasSlot(to, o), from \in LockPlace <=> to \in LockPlace
  PROVE  IInv'
<1> USE DEF IInv
<1>1. role_gate' = role_gate /\ available' = available /\ waiting' = waiting
  BY DEF gates
<1>2. CallTypes'
  <2>1. holders' \subseteq Call
    BY DEF CallTypes
  <2> QED
    BY <2>1, GotoMoves
<1>3. CounterTypes'
  BY <1>1 DEF CounterTypes
<1>4. RolesExact'
  BY <1>1, RoleStays
<1>5. SlotsExact'
  BY <1>1, SlotsStay
<1>6. WaitersExact'
  BY <1>1, WaitersStay
<1>7. Holding'
  BY LockStays
<1> QED
  BY <1>2, <1>3, <1>4, <1>5, <1>6, <1>7

\* The role semaphore.
LEMMA RoleSteps ==
  ASSUME IInv, NEW c \in Call, EnterRole(c) \/ LeaveRole(c)
  PROVE  IInv'
<1> DEFINE g == role_gate[PrimitivesOf[c]][RoleOf[c]]
<1> USE DEF IInv
<1>1. g \in Nat /\ outcome[c] \in Outcome
  BY Places DEF CounterTypes, CallTypes
<1>2. PICK from, to \in PC, o \in Outcome, n \in Nat :
        /\ Goto(c, from, to, o)
        /\ role_gate' = [role_gate EXCEPT ![PrimitivesOf[c]][RoleOf[c]] = n]
        /\ \/ from \in Out /\ to \notin Out /\ n = g - 1
           \/ from \notin Out /\ to \in Out /\ n = g + 1
        /\ from \notin WaitPlace \cup SlotPlace \cup LockPlace \cup {"leaving"}
        /\ to \notin WaitPlace \cup SlotPlace \cup LockPlace \cup {"leaving"}
  <2>1. CASE EnterRole(c)
    <3>1. g - 1 \in Nat
      BY <1>1, <2>1 DEF EnterRole
    <3>2. /\ Goto(c, "idle", "arriving", outcome[c])
          /\ role_gate' = [role_gate EXCEPT ![PrimitivesOf[c]][RoleOf[c]] = g - 1]
      BY <2>1 DEF EnterRole, Move
    <3>3. /\ "idle" \in PC /\ "arriving" \in PC
          /\ "idle" \in Out /\ "arriving" \notin Out
          /\ "idle" \notin WaitPlace \cup SlotPlace \cup LockPlace \cup {"leaving"}
          /\ "arriving" \notin WaitPlace \cup SlotPlace \cup LockPlace \cup {"leaving"}
      BY DEF PC, Out, WaitPlace, SlotPlace, LockPlace
    <3> HIDE DEF g
    <3> QED
      BY <1>1, <3>1, <3>2, <3>3
  <2>2. CASE LeaveRole(c)
    <3>1. g + 1 \in Nat
      BY <1>1
    <3>2. /\ Goto(c, "returning", "done", "none")
          /\ role_gate' = [role_gate EXCEPT ![PrimitivesOf[c]][RoleOf[c]] = g + 1]
      BY <2>2 DEF LeaveRole
    <3>3. /\ "returning" \in PC /\ "done" \in PC /\ "none" \in Outcome
          /\ "returning" \notin Out /\ "done" \in Out
          /\ "returning" \notin WaitPlace \cup SlotPlace \cup LockPlace \cup {"leaving"}
          /\ "done" \notin WaitPlace \cup SlotPlace \cup LockPlace \cup {"leaving"}
      BY DEF PC, Outcome, Out, WaitPlace, SlotPlace, LockPlace
    <3> HIDE DEF g
    <3> QED
      BY <3>1, <3>2, <3>3
  <2> QED
    BY <2>1, <2>2
<1>3. UNCHANGED <<available, waiting, circuit, holders, generating>>
  BY DEF EnterRole, LeaveRole
<1>4. RolesExact' /\ role_gate' \in [Primitives -> [FirstRole -> Nat]]
  BY <1>1, <1>2, RoleMoves
<1>5. SlotsExact'
  BY <1>1, <1>2, <1>3, SlotsStay DEF HasSlot
<1>6. WaitersExact'
  BY <1>1, <1>2, <1>3, WaitersStay
<1>7. Holding'
  BY <1>1, <1>2, <1>3, LockStays
<1>8. CallTypes'
  <2>1. holders' \subseteq Call /\ generating' \subseteq Call \X UsedRole
    BY <1>3 DEF CallTypes
  <2> QED
    BY <1>1, <1>2, <2>1, GotoMoves
<1> QED
  BY <1>3, <1>4, <1>5, <1>6, <1>7, <1>8 DEF CounterTypes, CircuitTypes

\* Registering and leaving as a waiter of the admission controller.
LEMMA WaiterSteps ==
  ASSUME IInv, NEW c \in Call, Arrive(c) \/ Leave(c)
  PROVE  IInv'
<1> DEFINE g == waiting[WorkerOf[c]][PortOf(c)][PriorityOf[c]]
<1> USE DEF IInv
<1>1. g \in Int /\ outcome[c] \in Outcome
  BY Places DEF CounterTypes, CallTypes
<1>2. PICK from, to \in PC, n \in Int :
        /\ Goto(c, from, to, outcome[c])
        /\ waiting' = [waiting EXCEPT ![WorkerOf[c]][PortOf(c)][PriorityOf[c]] = n]
        /\ \/ from \notin WaitPlace /\ to \in WaitPlace /\ n = g + 1
           \/ from \in WaitPlace /\ to \notin WaitPlace /\ n = g - 1
        /\ from \notin Out \cup LockPlace /\ to \notin Out \cup LockPlace
        /\ HasSlot(from, outcome[c]) <=> HasSlot(to, outcome[c])
  <2>1. CASE Arrive(c)
    <3>1. g + 1 \in Int
      BY <1>1
    <3>2. /\ Goto(c, "arriving", "polling", outcome[c])
          /\ waiting' = [waiting EXCEPT ![WorkerOf[c]][PortOf(c)][PriorityOf[c]] = g + 1]
      BY <2>1 DEF Arrive, Move
    <3>3. /\ "arriving" \in PC /\ "polling" \in PC
          /\ "arriving" \notin WaitPlace /\ "polling" \in WaitPlace
          /\ "arriving" \notin Out \cup LockPlace /\ "polling" \notin Out \cup LockPlace
          /\ HasSlot("arriving", outcome[c]) <=> HasSlot("polling", outcome[c])
      BY DEF PC, Out, WaitPlace, SlotPlace, LockPlace, HasSlot
    <3> HIDE DEF g
    <3> QED
      BY <3>1, <3>2, <3>3
  <2>2. CASE Leave(c)
    <3> DEFINE next == IF outcome[c] = "admitted" THEN "checking" ELSE "failed"
    <3>1. g - 1 \in Int
      BY <1>1
    <3>2. /\ Goto(c, "leaving", next, outcome[c])
          /\ waiting' = [waiting EXCEPT ![WorkerOf[c]][PortOf(c)][PriorityOf[c]] = g - 1]
      BY <2>2 DEF Leave, Move
    <3>3. /\ next \in PC /\ "leaving" \in PC
          /\ "leaving" \in WaitPlace /\ next \notin WaitPlace
          /\ "leaving" \notin Out \cup LockPlace /\ next \notin Out \cup LockPlace
          /\ HasSlot("leaving", outcome[c]) <=> HasSlot(next, outcome[c])
      BY DEF PC, Out, WaitPlace, SlotPlace, LockPlace, HasSlot
    <3> HIDE DEF next, g
    <3> QED
      BY <3>1, <3>2, <3>3
  <2> QED
    BY <2>1, <2>2
<1>3. UNCHANGED <<role_gate, available, circuit, holders, generating>>
  BY DEF Arrive, Leave
<1>4. WaitersExact' /\ waiting' \in [Worker -> [Port -> [Priority -> Int]]]
  BY <1>1, <1>2, WaiterMoves
<1>5. SlotsExact'
  BY <1>1, <1>2, <1>3, SlotsStay
<1>6. RolesExact'
  BY <1>1, <1>2, <1>3, RoleStays
<1>7. Holding'
  BY <1>1, <1>2, <1>3, LockStays
<1>8. CallTypes'
  <2>1. holders' \subseteq Call /\ generating' \subseteq Call \X UsedRole
    BY <1>3 DEF CallTypes
  <2> QED
    BY <1>1, <1>2, <2>1, GotoMoves
<1> QED
  BY <1>3, <1>4, <1>5, <1>6, <1>7, <1>8 DEF CounterTypes, CircuitTypes

\* Taking a slot of the admission controller and giving it back.
LEMMA SlotSteps ==
  ASSUME IInv, NEW c \in Call, Admit(c) \/ Release(c)
  PROVE  IInv'
<1> DEFINE g == available[WorkerOf[c]][PortOf(c)]
<1> USE DEF IInv
<1>1. g \in Nat /\ outcome[c] \in Outcome
  BY Places DEF CounterTypes, CallTypes
<1>2. PICK from, to \in PC, o \in Outcome, n \in Nat :
        /\ Goto(c, from, to, o)
        /\ available' = [available EXCEPT ![WorkerOf[c]][PortOf(c)] = n]
        /\ \/ ~HasSlot(from, outcome[c]) /\ HasSlot(to, o) /\ n = g - 1
           \/ HasSlot(from, outcome[c]) /\ ~HasSlot(to, o) /\ n = g + 1
        /\ from \notin Out \cup LockPlace /\ to \notin Out \cup LockPlace
        /\ from \in WaitPlace <=> to \in WaitPlace
  <2>1. CASE Admit(c)
    <3>1. g - 1 \in Nat
      BY <1>1, <2>1 DEF Admit
    <3> DEFINE here == ReadyToTry(c)
    <3>2. /\ Goto(c, here, "leaving", "admitted")
          /\ available' = [available EXCEPT ![WorkerOf[c]][PortOf(c)] = g - 1]
      BY <2>1 DEF Admit
    <3>3. /\ here \in PC /\ "leaving" \in PC /\ "admitted" \in Outcome
          /\ ~HasSlot(here, outcome[c]) /\ HasSlot("leaving", "admitted")
          /\ here \in WaitPlace /\ "leaving" \in WaitPlace
          /\ here \notin Out \cup LockPlace /\ "leaving" \notin Out \cup LockPlace
      BY DEF ReadyToTry, PC, Outcome, Out, WaitPlace, SlotPlace, LockPlace, HasSlot
    <3> HIDE DEF here, g
    <3> QED
      BY <3>1, <3>2, <3>3
  <2>2. CASE Release(c)
    <3> DEFINE next == IF outcome[c] = "error" THEN "failed" ELSE "returning"
    <3>1. g + 1 \in Nat
      BY <1>1
    <3>2. /\ Goto(c, "releasing", next, outcome[c])
          /\ available' = [available EXCEPT ![WorkerOf[c]][PortOf(c)] = g + 1]
      BY <2>2 DEF Release, Move
    <3>3. /\ next \in PC /\ "releasing" \in PC
          /\ HasSlot("releasing", outcome[c]) /\ ~HasSlot(next, outcome[c])
          /\ "releasing" \notin WaitPlace /\ next \notin WaitPlace
          /\ "releasing" \notin Out \cup LockPlace /\ next \notin Out \cup LockPlace
      BY DEF PC, Out, WaitPlace, SlotPlace, LockPlace, HasSlot
    <3> HIDE DEF next, g
    <3> QED
      BY <1>1, <3>1, <3>2, <3>3
  <2> QED
    BY <2>1, <2>2
<1>3. UNCHANGED <<role_gate, waiting, circuit, holders, generating>>
  BY DEF Admit, Release
<1>4. SlotsExact' /\ available' \in [Worker -> [Port -> Nat]]
  BY <1>1, <1>2, SlotMoves
<1>5. WaitersExact'
  BY <1>2, <1>3, WaitersStay
<1>6. RolesExact'
  BY <1>2, <1>3, RoleStays
<1>7. Holding'
  BY <1>2, <1>3, LockStays
<1>8. CallTypes'
  <2>1. holders' \subseteq Call /\ generating' \subseteq Call \X UsedRole
    BY <1>3 DEF CallTypes
  <2> QED
    BY <1>2, <2>1, GotoMoves
<1> QED
  BY <1>3, <1>4, <1>5, <1>6, <1>7, <1>8 DEF CounterTypes, CircuitTypes

\* Taking the lock: the guard makes the new holder fit the others.
LEMMA LockStep ==
  ASSUME IInv, NEW c \in Call, Lock(c)
  PROVE  IInv'
<1> USE DEF IInv
<1>1. /\ Goto(c, "locking", "inferring", "none")
      /\ "locking" \in PC /\ "inferring" \in PC /\ "none" \in Outcome
      /\ UNCHANGED <<role_gate, available, waiting, circuit>>
  BY DEF Lock, gates, PC, Outcome
<1>2. CallTypes'
  <2>1. holders' \subseteq Call /\ generating' \subseteq Call \X UsedRole
    BY Places DEF Lock, CallTypes
  <2> QED
    BY <1>1, <2>1, GotoMoves
<1>3. RolesExact'
  BY <1>1, RoleStays DEF Out
<1>4. WaitersExact'
  BY <1>1, WaitersStay DEF WaitPlace
<1>5. SlotsExact'
  BY <1>1, SlotsStay DEF HasSlot, SlotPlace
<1>6. Holding'
  <2>1. /\ pc[c] = "locking" /\ pc'[c] = "inferring" /\ role' = role
        /\ \A d \in Call \ {c} : pc'[d] = pc[d]
    BY <1>1 DEF Goto, CallTypes
  <2>2. holders' = {d \in Call : HasLock(d)'}
    BY <2>1 DEF Lock, Holding, HasLock
  <2>3. \A d, e \in holders' : d # e => ~Heavy(role[d])
    BY DEF Lock, CanLock, Holding
  <2> QED
    BY <2>1, <2>2, <2>3 DEF Holding
<1> QED
  BY <1>1, <1>2, <1>3, <1>4, <1>5, <1>6 DEF CounterTypes, CircuitTypes

LEMMA UnlockStep ==
  ASSUME IInv, NEW c \in Call, Unlock(c)
  PROVE  IInv'
<1> USE DEF IInv
<1> DEFINE next == IF outcome[c] = "exception" THEN "erasing" ELSE "recording"
<1>1. /\ Goto(c, "unlocking", next, outcome[c])
      /\ UNCHANGED <<role_gate, available, waiting, circuit>>
  BY DEF Unlock, Move, gates
<1>2. /\ next \in PC /\ outcome[c] \in Outcome
      /\ "unlocking" \notin Out \cup WaitPlace /\ next \notin Out \cup WaitPlace
      /\ HasSlot("unlocking", outcome[c]) /\ HasSlot(next, outcome[c])
      /\ next \notin LockPlace
  BY DEF CallTypes, PC, Out, WaitPlace, HasSlot, SlotPlace, LockPlace
<1> HIDE DEF next
<1>3. CallTypes'
  <2>1. holders' \subseteq Call /\ generating' \subseteq Call \X UsedRole
    BY DEF Unlock, CallTypes
  <2> QED
    BY <1>1, <1>2, <2>1, GotoMoves
<1>4. RolesExact'
  BY <1>1, <1>2, RoleStays
<1>5. WaitersExact'
  BY <1>1, <1>2, WaitersStay
<1>6. SlotsExact'
  BY <1>1, <1>2, SlotsStay
<1>7. Holding'
  <2>1. /\ pc[c] = "unlocking" /\ pc'[c] = next /\ role' = role
        /\ \A d \in Call \ {c} : pc'[d] = pc[d]
    BY <1>1 DEF Goto, CallTypes
  <2>2. holders' = {d \in Call : HasLock(d)'}
    BY <1>2, <2>1 DEF Unlock, Holding, HasLock, LockPlace
  <2>3. \A d, e \in holders' : d # e => ~Heavy(role[d])
    BY DEF Unlock, Holding
  <2> QED
    BY <2>1, <2>2, <2>3 DEF Holding
<1> QED
  BY <1>1, <1>3, <1>4, <1>5, <1>6, <1>7 DEF CounterTypes, CircuitTypes

\* Polling, and what happens under the lock and around it.
LEMMA PlainSteps ==
  ASSUME IInv, NEW c \in Call,
         \/ GiveUp(c) \/ Look(c) \/ PollAgain(c) \/ LockTimeout(c)
         \/ Answer(c) \/ InferTimeout(c) \/ HttpError(c) \/ Erase(c)
  PROVE  IInv'
<1> USE DEF IInv
<1>1. outcome[c] \in Outcome
  BY DEF CallTypes
<1>2. /\ UNCHANGED gates /\ holders' = holders /\ CircuitTypes'
      /\ generating' \subseteq Call \X UsedRole
  <2>1. UNCHANGED gates /\ holders' = holders /\ circuit' = circuit /\ generating' \subseteq generating
    BY DEF GiveUp, Look, PollAgain, LockTimeout, Answer, InferTimeout, HttpError, Erase
  <2> QED
    BY <2>1 DEF CallTypes, CircuitTypes
<1>3. PICK from, to \in PC, o \in Outcome :
        /\ Goto(c, from, to, o)
        /\ from \in Out <=> to \in Out
        /\ from \in WaitPlace <=> to \in WaitPlace
        /\ HasSlot(from, outcome[c]) <=> HasSlot(to, o)
        /\ from \in LockPlace <=> to \in LockPlace
  <2> USE <1>1 DEF PC, Outcome, Out, WaitPlace, SlotPlace, LockPlace, HasSlot
  <2>1. CASE GiveUp(c)
    BY <2>1 DEF GiveUp
  <2>2. CASE Look(c)
    BY <2>2 DEF Look, Move
  <2>3. CASE PollAgain(c)
    BY <2>3 DEF PollAgain, Move
  <2>4. CASE LockTimeout(c)
    BY <2>4 DEF LockTimeout
  <2>5. CASE Answer(c)
    BY <2>5 DEF Answer
  <2>6. CASE InferTimeout(c)
    BY <2>6 DEF InferTimeout
  <2>7. CASE HttpError(c)
    BY <2>7 DEF HttpError
  <2>8. CASE Erase(c)
    BY <2>8 DEF Erase, Move
  <2> QED
    BY <2>1, <2>2, <2>3, <2>4, <2>5, <2>6, <2>7, <2>8
<1> QED
  BY <1>2, <1>3, PlainMove

\* What the tracker's methods do to a circuit leaves it a circuit.
LEMMA CircuitsStayCircuits ==
  ASSUME NEW v \in CircuitValue, NEW e \in Int
  PROVE  /\ AfterCheck(v, e) \in CircuitValue
         /\ AfterSuccess(v) \in CircuitValue
         /\ AfterFailure(v) \in CircuitValue
<1>1. AfterCheck(v, e) = v \/ AfterCheck(v, e) = [v EXCEPT !.state = "half-open"]
  BY DEF AfterCheck
<1>2. AfterCheck(v, e) \in CircuitValue
  BY <1>1 DEF CircuitValue
<1>3. AfterSuccess(v) \in CircuitValue
  BY CooldownAssumption DEF AfterSuccess, Closed, CircuitValue
<1>4. AfterFailure(v) \in CircuitValue
  BY CooldownAssumption DEF AfterFailure, CircuitValue
<1> QED
  BY <1>2, <1>3, <1>4

\* Looking at the circuit breaker and reporting to it.
LEMMA CircuitSteps ==
  ASSUME IInv, NEW c \in Call, CheckCircuit(c) \/ Record(c)
  PROVE  IInv'
<1> USE DEF IInv
<1> DEFINE w == WorkerOf[c]
           p == PortOf(c)
<1>1. w \in Worker /\ p \in Port /\ circuit[w][p] \in CircuitValue
  BY Places DEF CircuitTypes
<1>2. UNCHANGED gates /\ holders' = holders /\ generating' \subseteq Call \X UsedRole
  <2>1. UNCHANGED gates /\ holders' = holders /\ generating' = generating
    BY DEF CheckCircuit, Record
  <2> QED
    BY <2>1 DEF CallTypes
<1>3. PICK v \in CircuitValue : circuit' = [circuit EXCEPT ![w][p] = v]
  <2>1. CASE CheckCircuit(c)
    <3>1. PICK e \in {0, MaxCooldown} : circuit' = [circuit EXCEPT ![w][p] = AfterCheck(circuit[w][p], e)]
      BY <2>1 DEF CheckCircuit
    <3>2. e \in Int
      BY CooldownAssumption
    <3>3. AfterCheck(circuit[w][p], e) \in CircuitValue
      BY <1>1, <3>2, CircuitsStayCircuits
    <3> QED
      BY <3>1, <3>3
  <2>2. CASE Record(c)
    <3>1. AfterSuccess(circuit[w][p]) \in CircuitValue /\ AfterFailure(circuit[w][p]) \in CircuitValue
      BY <1>1, CircuitsStayCircuits
    <3>2. \/ circuit' = [circuit EXCEPT ![w][p] = AfterSuccess(circuit[w][p])]
          \/ circuit' = [circuit EXCEPT ![w][p] = AfterFailure(circuit[w][p])]
      BY <2>2 DEF Record
    <3> QED
      BY <3>1, <3>2
  <2> QED
    BY <2>1, <2>2
<1>4. CircuitTypes'
  <2>1. circuit \in [Worker -> [Port -> CircuitValue]]
    BY DEF CircuitTypes
  <2>2. circuit' \in [Worker -> [Port -> CircuitValue]]
    <3> HIDE DEF w, p, CircuitValue
    <3> QED
      BY ONLY <1>1, <1>3, <2>1, Update2
  <2> QED
    BY <2>2 DEF CircuitTypes
<1>5. PICK from, to \in PC, o \in Outcome :
        /\ Goto(c, from, to, o)
        /\ from \in Out <=> to \in Out
        /\ from \in WaitPlace <=> to \in WaitPlace
        /\ HasSlot(from, outcome[c]) <=> HasSlot(to, o)
        /\ from \in LockPlace <=> to \in LockPlace
  <2> USE DEF PC, Outcome, Out, WaitPlace, SlotPlace, LockPlace, HasSlot
  <2>1. CASE Goto(c, "checking", "locking", "none")
    BY <2>1
  <2>2. CASE Goto(c, "checking", "releasing", "error")
    BY <2>2
  <2>3. CASE Goto(c, "recording", "releasing", "ok")
    BY <2>3
  <2>4. CASE Goto(c, "recording", "releasing", "error")
    BY <2>4
  <2> QED
    BY <2>1, <2>2, <2>3, <2>4 DEF CheckCircuit, Record
<1> QED
  BY <1>2, <1>4, <1>5, PlainMove

\* Taking up a fallback role, or returning without an answer.  The role
\* changes where the call has nothing of the backend.
LEMMA FallbackStep ==
  ASSUME IInv, NEW c \in Call, Fallback(c)
  PROVE  IInv'
<1> USE DEF IInv
<1> DEFINE others == FallbackRoles(RoleOf[c])
<1>1. UNCHANGED gates /\ UNCHANGED <<role_gate, available, waiting, circuit, holders, generating>>
  BY DEF Fallback, gates
<1>2. CASE tried[c] >= Len(others)
  <2>1. /\ Goto(c, "failed", "returning", outcome[c])
        /\ "failed" \in PC /\ "returning" \in PC /\ outcome[c] \in Outcome
    BY <1>2, FallbackCount DEF Fallback, Move, PC, CallTypes
  <2>2. /\ "failed" \notin Out \cup WaitPlace \cup LockPlace
        /\ "returning" \notin Out \cup WaitPlace \cup LockPlace
        /\ ~HasSlot("failed", outcome[c]) /\ ~HasSlot("returning", outcome[c])
    BY DEF Out, WaitPlace, LockPlace, SlotPlace, HasSlot
  <2>3. generating' \subseteq Call \X UsedRole /\ CircuitTypes'
    BY <1>1 DEF CallTypes, CircuitTypes
  <2> QED
    BY <1>1, <2>1, <2>2, <2>3, PlainMove
<1>3. CASE tried[c] < Len(others)
  <2>1. /\ pc[c] = "failed" /\ pc' = [pc EXCEPT ![c] = "arriving"]
        /\ tried' = [tried EXCEPT ![c] = tried[c] + 1]
        /\ role' = [role EXCEPT ![c] = others[tried[c] + 1]]
        /\ outcome' = [outcome EXCEPT ![c] = "none"]
    BY <1>3 DEF Fallback
  <2>2. tried[c] \in Nat /\ tried[c] + 1 \in 1 .. Len(others)
    BY <1>3, FallbackCount DEF CallTypes
  <2>3. others[tried[c] + 1] \in RolesOf(c) /\ RolesOf(c) \subseteq UsedRole
    BY <2>2, Places DEF RolesOf
  <2>4. CallTypes'
    <3>1. role' \in [Call -> UsedRole] /\ tried' \in [Call -> Nat]
      BY <2>1, <2>2, <2>3 DEF CallTypes
    <3>2. \A d \in Call : role'[d] \in RolesOf(d) /\ tried'[d] \in 0 .. Len(FallbackRoles(RoleOf[d]))
      <4>1. ASSUME NEW d \in Call \ {c}
            PROVE  role'[d] \in RolesOf(d) /\ tried'[d] \in 0 .. Len(FallbackRoles(RoleOf[d]))
        BY <2>1, <4>1 DEF CallTypes
      <4>2. role'[c] \in RolesOf(c) /\ tried'[c] \in 0 .. Len(others)
        BY <2>1, <2>2, <2>3 DEF CallTypes
      <4> QED
        BY <4>1, <4>2
    <3>3. pc' \in [Call -> PC] /\ outcome' \in [Call -> Outcome]
      BY <2>1 DEF CallTypes, PC, Outcome
    <3> QED
      BY <1>1, <3>1, <3>2, <3>3 DEF CallTypes
  <2>5. /\ \A d \in Call : InRole(d)' <=> InRole(d)
        /\ \A d \in Call : IsWaiter(d)' <=> IsWaiter(d)
        /\ \A d \in Call : HasLock(d)' <=> HasLock(d)
        /\ ~IsWaiter(c) /\ ~HasLock(c) /\ ~Admitted(c)
    BY <2>1 DEF CallTypes, InRole, IsWaiter, HasLock, Admitted
  <2>6. \A d \in Call : Admitted(d)' <=> Admitted(d)
    <3>1. ~Admitted(c)'
      BY <2>1 DEF CallTypes, Admitted
    <3>2. \A d \in Call \ {c} : Admitted(d)' <=> Admitted(d)
      BY <2>1 DEF CallTypes, Admitted
    <3> QED
      BY <2>5, <3>1, <3>2
  <2>7. \A d \in Call \ {c} : PortOf(d)' = PortOf(d) /\ role'[d] = role[d]
    BY <2>1 DEF CallTypes, PortOf
  <2>8. RolesExact'
    <3>1. \A i \in Primitives, r \in FirstRole : Inside(i, r)' = Inside(i, r)
      BY <2>5 DEF Inside
    <3> QED
      BY <1>1, <3>1 DEF RolesExact
  <2>9. SlotsExact'
    <3>1. \A w \in Worker, p \in Port : Slots(w, p)' = Slots(w, p)
      BY <2>5, <2>6, <2>7 DEF Slots
    <3> QED
      BY <1>1, <3>1 DEF SlotsExact
  <2>10. WaitersExact'
    <3>1. \A w \in Worker, p \in Port, x \in Priority : Waiters(w, p, x)' = Waiters(w, p, x)
      BY <2>5, <2>7 DEF Waiters
    <3> QED
      BY <1>1, <3>1 DEF WaitersExact
  <2>11. Holding'
    BY <1>1, <2>5, <2>7 DEF Holding
  <2> QED
    BY <1>1, <2>4, <2>8, <2>9, <2>10, <2>11 DEF CounterTypes, CircuitTypes
<1>4. tried[c] \in Nat /\ Len(others) \in Nat
  BY FallbackCount DEF CallTypes
<1> QED
  BY <1>2, <1>3, <1>4

-----------------------------------------------------------------------------
\* The invariant.

LEMMA InitEstablishes == Init => IInv
<1> SUFFICES ASSUME Init PROVE IInv
  OBVIOUS
<1>0. \A c \in Call : pc[c] \in {"idle", "done"}
  BY DEF Init
<1>1. CallTypes
  <2>1. role \in [Call -> UsedRole] /\ \A c \in Call : role[c] \in RolesOf(c)
    BY CallAssumption DEF Init, RolesOf, UsedRole
  <2>2. \A c \in Call : tried[c] \in 0 .. Len(FallbackRoles(RoleOf[c]))
    BY FallbackCount DEF Init
  <2>3. pc \in [Call -> PC]
    BY DEF Init, PC
  <2> QED
    BY <2>1, <2>2, <2>3 DEF Init, CallTypes, Outcome
<1>2. CircuitTypes
  BY CooldownAssumption DEF Init, CircuitTypes, Closed, CircuitValue
<1>3. CounterTypes
  <2>1. \A r \in FirstRole : RoleLimit(r) \in Nat
    BY DEF RoleLimit
  <2>2. \A p \in Port : AdmissionLimit(p) \in Nat
    BY DEF AdmissionLimit
  <2> QED
    BY <2>1, <2>2 DEF Init, CounterTypes
<1>4. Cardinality({}) = 0
  BY FS_EmptySet
<1>5. RolesExact
  <2>1. \A i \in Primitives, r \in FirstRole : Inside(i, r) = {}
    BY <1>0 DEF Inside, InRole
  <2>2. \A r \in FirstRole : RoleLimit(r) = RoleLimit(r) - 0
    BY DEF RoleLimit
  <2> QED
    BY <1>4, <2>1, <2>2 DEF Init, RolesExact
<1>6. SlotsExact
  <2>1. \A w \in Worker, p \in Port : Slots(w, p) = {}
    BY <1>0 DEF Slots, Admitted
  <2>2. \A p \in Port : AdmissionLimit(p) = AdmissionLimit(p) - 0
    BY DEF AdmissionLimit
  <2> QED
    BY <1>4, <2>1, <2>2 DEF Init, SlotsExact
<1>7. WaitersExact
  <2>1. \A w \in Worker, p \in Port, x \in Priority : Waiters(w, p, x) = {}
    BY <1>0 DEF Waiters, IsWaiter
  <2> QED
    BY <1>4, <2>1 DEF Init, WaitersExact
<1>8. Holding
  BY <1>0 DEF Init, Holding, HasLock
<1> QED
  BY <1>1, <1>2, <1>3, <1>5, <1>6, <1>7, <1>8 DEF IInv

\* Nothing the invariant speaks of has changed, but generations may have ended.
LEMMA Idle ==
  ASSUME IInv, UNCHANGED <<calls, gates, circuit, holders>>, generating' \subseteq generating
  PROVE  IInv'
<1>1. /\ pc' = pc /\ outcome' = outcome /\ role' = role /\ tried' = tried
      /\ role_gate' = role_gate /\ available' = available /\ waiting' = waiting
      /\ circuit' = circuit /\ holders' = holders
  BY DEF calls, gates
<1>2. CallTypes' /\ CircuitTypes' /\ CounterTypes'
  BY <1>1 DEF IInv, CallTypes, CircuitTypes, CounterTypes
<1>3. RolesExact' /\ SlotsExact' /\ WaitersExact' /\ Holding'
  BY <1>1 DEF IInv, RolesExact, SlotsExact, WaitersExact, Holding, Inside, Slots, Waiters,
              InRole, Admitted, IsWaiter, HasLock, PortOf
<1> QED
  BY <1>2, <1>3 DEF IInv

LEMMA StepPreserves == IInv /\ [Next]_vars => IInv'
<1> SUFFICES ASSUME IInv, [Next]_vars PROVE IInv'
  OBVIOUS
<1>1. ASSUME NEW c \in Call, Step(c) PROVE IInv'
  BY <1>1, RoleSteps, WaiterSteps, SlotSteps, CircuitSteps, LockStep, UnlockStep, PlainSteps,
     FallbackStep DEF Step
<1>2. ASSUME NEW g \in generating, RunOut(g) PROVE IInv'
  BY <1>2, Idle DEF RunOut
<1>3. CASE UNCHANGED vars
  BY <1>3, Idle DEF vars
<1> QED
  BY <1>1, <1>2, <1>3 DEF Next, Ended

LEMMA Invariance == Spec => []IInv
BY InitEstablishes, StepPreserves, PTL DEF Spec

\* Calls, gates, circuits, holders and generations keep their types; no counter
\* goes below zero.
THEOREM PathTypeCorrect == Spec => []TypeOK
<1>1. IInv => TypeOK
  <2> SUFFICES ASSUME IInv PROVE TypeOK
    OBVIOUS
  <2>1. \A w \in Worker, p \in Port, x \in Priority : waiting[w][p][x] \in Nat
    <3>1. \A w \in Worker, p \in Port, x \in Priority : Cardinality(Waiters(w, p, x)) \in Nat
      BY CountIsNat DEF Waiters
    <3> QED
      BY <3>1 DEF IInv, WaitersExact
  <2>2. waiting \in [Worker -> [Port -> [Priority -> Nat]]]
    BY <2>1 DEF IInv, CounterTypes
  <2> QED
    BY <2>2 DEF IInv, CallTypes, CircuitTypes, CounterTypes, TypeOK
<1> QED
  BY Invariance, <1>1, PTL

\* Role semaphores, admission slots and waiter counts are exact on every path
\* through _real_call: none leaks, none is given back twice.
THEOREM CountersStayExact == Spec => []CountersAreExact
<1>1. IInv => CountersAreExact
  BY ExactParts DEF IInv
<1> QED
  BY Invariance, <1>1, PTL

\* inference_lock: a heavy model generates for its caller only while no other
\* call is under the lock, whatever the calls, roles and processes.
THEOREM HeavyAlwaysRunsAlone == Spec => []HeavyRunsAlone
<1>1. IInv => HeavyRunsAlone
  BY DEF IInv, Holding, HasLock, HeavyRunsAlone
<1> QED
  BY Invariance, <1>1, PTL

\* AdmissionController.acquire: no background call gets past looking at a
\* queue in which an interactive call of its process polls.  The counter it
\* looks at is exact, so zero means that there is none.
THEOREM BackgroundAlwaysYields == Spec => BackgroundYields
<1>1. ASSUME IInv, [Next]_vars, NEW c \in Call, NEW d \in Call,
             pc[c] = "polling", pc'[c] = "looked",
             PriorityOf[d] = "interactive", WorkerOf[d] = WorkerOf[c], PortOf(d) = PortOf(c)
      PROVE  pc[d] # "polling"
  <2>1. Look(c)
    <3>1. CallTypes /\ pc \in [Call -> PC]
      BY <1>1 DEF IInv, CallTypes
    <3>2. pc' # pc
      BY <1>1
    <3>3. PICK e \in Call : Step(e)
      BY <1>1, <3>2 DEF Next, Ended, RunOut, vars, calls
    <3>4. e = c
      <4>1. ASSUME NEW x, NEW y, NEW z, Goto(e, x, y, z), e # c PROVE pc'[c] = pc[c]
        BY <3>1, <4>1 DEF Goto
      <4>2. Fallback(e) /\ e # c => pc'[c] = pc[c]
        BY <3>1 DEF Fallback, Move, Goto
      <4> QED
        BY <1>1, <3>3, <4>1, <4>2
           DEF Step, Move, EnterRole, Arrive, GiveUp, Look, Admit, PollAgain, Leave, CheckCircuit, Lock,
               LockTimeout, Answer, InferTimeout, HttpError, Unlock, Erase, Record, Release, LeaveRole
    <3>5. ASSUME NEW x, NEW y, NEW z, Goto(c, x, y, z) PROVE x = "polling" /\ y = "looked"
      BY <1>1, <3>1, <3>5 DEF Goto
    <3>6. ~Fallback(c)
      BY <1>1 DEF Fallback
    <3> QED
      BY <3>3, <3>4, <3>5, <3>6
         DEF Step, Move, EnterRole, Arrive, GiveUp, Admit, PollAgain, Leave, CheckCircuit, Lock,
             LockTimeout, Answer, InferTimeout, HttpError, Unlock, Erase, Record, Release, LeaveRole
  <2>2. waiting[WorkerOf[c]][PortOf(c)]["interactive"] = 0
    BY <2>1 DEF Look
  <2>3. SUFFICES ASSUME pc[d] = "polling" PROVE FALSE
    OBVIOUS
  <2> DEFINE S == Waiters(WorkerOf[c], PortOf(c), "interactive")
  <2>4. d \in S /\ S \in SUBSET Call
    BY <1>1, <2>3 DEF Waiters, IsWaiter
  <2>5. Cardinality(S) = 0
    <3>1. WorkerOf[c] \in Worker /\ PortOf(c) \in Port
      BY <1>1, Places DEF IInv
    <3> QED
      BY <1>1, <2>2, <3>1 DEF IInv, WaitersExact, Priority
  <2>6. IsFiniteSet(S)
    BY <2>4, CallAssumption, FS_Subset
  <2> QED
    BY <2>4, <2>5, <2>6, FS_EmptySet
<1>2. IInv /\ [Next]_vars =>
        [\A c, d \in Call :
           /\ pc[c] = "polling" /\ pc'[c] = "looked"
           /\ PriorityOf[d] = "interactive" /\ WorkerOf[d] = WorkerOf[c] /\ PortOf(d) = PortOf(c)
           => pc[d] # "polling"]_vars
  BY <1>1
<1> QED
  BY Invariance, <1>2, PTL DEF Spec, BackgroundYields

=============================================================================
