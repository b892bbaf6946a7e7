-------------------------- MODULE WorkerPoolProofs --------------------------
(***************************************************************************)
(* Invariants of WorkerPool, for any configuration of workers and any      *)
(* number of calls and batches.                                            *)
(***************************************************************************)
EXTENDS WorkerPool, FiniteSetTheorems, TLAPS

-----------------------------------------------------------------------------
\* Types.

\* The type invariant without the bound of the semaphore, which follows only
\* from the requests under way.
PoolTypes ==
  /\ process \in [Worker -> {"none", "starting", "alive", "dead"}]
  /\ healthy \in [Worker -> BOOLEAN]
  /\ age \in [Warm -> {Never} \cup 0 .. WarmTimeout]
  /\ timer \in [Warm -> {Never} \cup 0 .. WarmTimeout]

ClientTypes ==
  /\ lock \in Client \cup {Free}
  /\ tending \subseteq Warm
  /\ pc \in [Client -> PC]
  /\ workers \in [Client -> Seq(Worker)]

PromptTypes ==
  /\ DOMAIN prompts = Client
  /\ \A c \in Client : prompts[c] \in [Prompts(c) -> PromptState]
  /\ semaphore \in Nat

TInv == PoolTypes /\ ClientTypes /\ PromptTypes

\* The list of a set of workers is a list of workers, and empty only if the set is.
LEMMA ListsFit ==
  ASSUME NEW S \in SUBSET Worker, NEW l \in Lists(S)
  PROVE  /\ l \in Seq(Worker)
         /\ \A w \in S : \E i \in DOMAIN l : l[i] = w
         /\ S # {} => l # <<>>
<1>1. IsFiniteSet(S)
  BY FS_Subset, PoolAssumption
<1>2. Cardinality(S) \in Nat
  BY <1>1, FS_CardinalityType
<1>3. l \in [1 .. Cardinality(S) -> S] /\ \A w \in S : \E i \in DOMAIN l : l[i] = w
  BY DEF Lists
<1>4. l \in Seq(Worker)
  BY <1>2, <1>3
<1>5. ASSUME NEW w \in S PROVE l # <<>>
  <2>1. PICK i \in DOMAIN l : l[i] = w
    BY <1>3
  <2>2. DOMAIN <<>> = {}
    OBVIOUS
  <2> QED
    BY <2>1, <2>2
<1> QED
  BY <1>3, <1>4, <1>5

LEMMA CandidatesFit ==
  ASSUME NEW c \in Client
  PROVE  Candidates(c) \subseteq Worker
BY PoolAssumption DEF Candidates, Healthy, Worker

\* Only so many prompts can be under way.
LEMMA FlyingIsFinite ==
  ASSUME NEW c \in Client
  PROVE  IsFiniteSet(Flying(c))
<1>1. IsFiniteSet(1 .. Size[c])
  BY PoolAssumption, FS_Interval
<1> QED
  BY <1>1, FS_Subset DEF Flying, Prompts

LEMMA InitHasTypes == Init => TInv
BY PoolAssumption DEF Init, TInv, PoolTypes, ClientTypes, PromptTypes, PC, PromptState, Worker

LEMMA BecomesKeepsTypes ==
  ASSUME TInv, NEW c \in Client, NEW i \in Prompts(c), NEW from, NEW to \in PromptState,
         Becomes(c, i, from, to)
  PROVE  /\ DOMAIN prompts' = Client
         /\ \A d \in Client : prompts'[d] \in [Prompts(d) -> PromptState]
BY DEF TInv, PromptTypes, Becomes

LEMMA LoseKeepsTypes ==
  ASSUME TInv, NEW w \in Worker, Lose(w)
  PROVE  /\ DOMAIN prompts' = Client
         /\ \A d \in Client : prompts'[d] \in [Prompts(d) -> PromptState]
BY DEF TInv, PromptTypes, Lose, PromptState

LEMMA ScheduleKeepsTypes ==
  ASSUME TInv, NEW S, Schedule(S)
  PROVE  timer' \in [Warm -> {Never} \cup 0 .. WarmTimeout]
BY PoolAssumption DEF TInv, PoolTypes, Schedule

LEMMA StepKeepsTypes == TInv /\ [Next]_vars => TInv'
<1> SUFFICES ASSUME TInv, [Next]_vars PROVE TInv'
  OBVIOUS
<1> USE DEF TInv
<1>1. CASE UNCHANGED vars
  BY <1>1 DEF vars, pool, PoolTypes, ClientTypes, PromptTypes
<1>2. ASSUME NEW c \in Client, NoneAvailable(c) \/ Select(c) PROVE TInv'
  <2>1. UNCHANGED <<pool, lock, tending, prompts, semaphore>>
    BY <1>2 DEF NoneAvailable, Select
  <2>2. pc' \in [Client -> PC]
    BY <1>2 DEF NoneAvailable, Select, ClientTypes, PC
  <2>3. workers' \in [Client -> Seq(Worker)]
    BY <1>2, CandidatesFit, ListsFit DEF NoneAvailable, Select, ClientTypes
  <2> QED
    BY <2>1, <2>2, <2>3 DEF pool, PoolTypes, ClientTypes, PromptTypes
<1>3. ASSUME NEW c \in Client, Acquire(c) PROVE TInv'
  BY <1>3 DEF Acquire, pool, PoolTypes, ClientTypes, PromptTypes, PC
<1>4. ASSUME NEW c \in Client, NEW w \in Warm, Pass(c, w) PROVE TInv'
  <2>1. process' \in [Worker -> {"none", "starting", "alive", "dead"}]
    BY <1>4 DEF Pass, PoolTypes
  <2>2. timer' \in [Warm -> {Never} \cup 0 .. WarmTimeout] /\ tending' \subseteq Warm
    BY <1>4 DEF Pass, Tended, PoolTypes, ClientTypes
  <2> QED
    BY <1>4, <2>1, <2>2 DEF Pass, PoolTypes, ClientTypes, PromptTypes
<1>5. ASSUME NEW c \in Client, NEW w \in Warm, Launch(c, w) PROVE TInv'
  <2>1. process' \in [Worker -> {"none", "starting", "alive", "dead"}]
    BY <1>5 DEF Launch, PoolTypes
  <2> QED
    BY <1>5, <2>1 DEF Launch, PoolTypes, ClientTypes, PromptTypes
<1>6. ASSUME NEW c \in Client, NEW w \in Warm, NEW ok \in BOOLEAN, Started(c, w, ok) PROVE TInv'
  <2>1. /\ process' \in [Worker -> {"none", "starting", "alive", "dead"}]
        /\ healthy' \in [Worker -> BOOLEAN]
    BY <1>6 DEF Started, PoolTypes
  <2>2. timer' \in [Warm -> {Never} \cup 0 .. WarmTimeout] /\ tending' \subseteq Warm
    BY <1>6 DEF Started, Tended, PoolTypes, ClientTypes
  <2> QED
    BY <1>6, <2>1, <2>2 DEF Started, PoolTypes, ClientTypes, PromptTypes
<1>7. ASSUME NEW c \in Client, Rescan(c) PROVE TInv'
  <2>1. workers' \in [Client -> Seq(Worker)]
    <3>1. PICK l \in Lists(Healthy(Warm) \ Chosen(c)) : workers' = [workers EXCEPT ![c] = @ \o l]
      BY <1>7 DEF Rescan
    <3>2. l \in Seq(Worker)
      BY ListsFit DEF Healthy, Worker
    <3> QED
      BY <3>1, <3>2 DEF ClientTypes
  <2> QED
    BY <1>7, <2>1 DEF Rescan, pool, PoolTypes, ClientTypes, PromptTypes, PC
<1>8. ASSUME NEW c \in Client, NEW i \in Prompts(c), Send(c, i) PROVE TInv'
  <2>1. /\ DOMAIN prompts' = Client
        /\ \A d \in Client : prompts'[d] \in [Prompts(d) -> PromptState]
    BY <1>8, BecomesKeepsTypes DEF Send, PromptState
  <2>2. semaphore' \in Nat /\ UNCHANGED <<pool, lock, tending, pc, workers>>
    BY <1>8 DEF Send, PromptTypes
  <2> QED
    BY <2>1, <2>2 DEF pool, PoolTypes, ClientTypes, PromptTypes
<1>9. ASSUME NEW c \in Client, NEW i \in Prompts(c), Answer(c, i) PROVE TInv'
  <2>1. /\ DOMAIN prompts' = Client
        /\ \A d \in Client : prompts'[d] \in [Prompts(d) -> PromptState]
    BY <1>9, BecomesKeepsTypes DEF Answer, PromptState
  <2>2. /\ semaphore' \in Nat /\ UNCHANGED <<process, healthy, lock, tending, workers>>
    BY <1>9 DEF Answer, PromptTypes
  <2>3. pc' \in [Client -> PC]
    BY <1>9 DEF Answer, ClientTypes, PC
  <2>4. age' \in [Warm -> {Never} \cup 0 .. WarmTimeout]
    BY <1>9, PoolAssumption DEF Answer, PoolTypes
  <2>5. timer' \in [Warm -> {Never} \cup 0 .. WarmTimeout]
    BY <1>9, ScheduleKeepsTypes DEF Answer
  <2> QED
    BY <2>1, <2>2, <2>3, <2>4, <2>5 DEF PoolTypes, ClientTypes, PromptTypes
<1>10. ASSUME NEW c \in Client, NEW i \in Prompts(c), Fail(c, i) PROVE TInv'
  <2>1. /\ DOMAIN prompts' = Client
        /\ \A d \in Client : prompts'[d] \in [Prompts(d) -> PromptState]
    BY <1>10, BecomesKeepsTypes DEF Fail, PromptState
  <2>2. /\ semaphore' \in Nat /\ UNCHANGED <<pool, lock, tending, workers>>
    BY <1>10 DEF Fail, PromptTypes
  <2>3. pc' \in [Client -> PC]
    BY <1>10 DEF Fail, ClientTypes, PC
  <2> QED
    BY <2>1, <2>2, <2>3 DEF pool, PoolTypes, ClientTypes, PromptTypes
<1>11. ASSUME NEW b \in Batch, EndBatch(b) PROVE TInv'
  <2>1. timer' \in [Warm -> {Never} \cup 0 .. WarmTimeout]
    BY <1>11, ScheduleKeepsTypes DEF EndBatch
  <2>2. pc' \in [Client -> PC]
    BY <1>11 DEF EndBatch, ClientTypes, PC
  <2> QED
    BY <1>11, <2>1, <2>2 DEF EndBatch, PoolTypes, ClientTypes, PromptTypes
<1>12. ASSUME NEW b \in Batch, CancelBatch(b) PROVE TInv'
  <2>1. Client = Call \cup Batch
    BY DEF Client
  <2>2. process' \in [Worker -> {"none", "starting", "alive", "dead"}]
    BY <1>12 DEF CancelBatch, PoolTypes
  <2>3. /\ lock' \in Client \cup {Free} /\ tending' \subseteq Warm
        /\ pc' \in [Client -> PC]
    BY <1>12, <2>1 DEF CancelBatch, ClientTypes, PC
  <2>4. /\ DOMAIN prompts' = Client
        /\ \A d \in Client : prompts'[d] \in [Prompts(d) -> PromptState]
    BY <1>12, <2>1 DEF CancelBatch, PromptTypes, PromptState
  <2>5. semaphore' \in Nat
    <3>1. Cardinality(Flying(b)) \in Nat
      BY <2>1, FlyingIsFinite, FS_CardinalityType
    <3> QED
      BY <1>12, <3>1 DEF CancelBatch, PromptTypes
  <2> QED
    BY <1>12, <2>2, <2>3, <2>4, <2>5 DEF CancelBatch, PoolTypes, ClientTypes, PromptTypes
<1>13. ASSUME NEW w \in Warm, ShutDown(w) \/ LeaveUp(w) PROVE TInv'
  <2>1. /\ process' \in [Worker -> {"none", "starting", "alive", "dead"}]
        /\ healthy' \in [Worker -> BOOLEAN]
        /\ timer' \in [Warm -> {Never} \cup 0 .. WarmTimeout]
    BY <1>13 DEF ShutDown, LeaveUp, WakeUp, PoolTypes
  <2>2. /\ DOMAIN prompts' = Client
        /\ \A d \in Client : prompts'[d] \in [Prompts(d) -> PromptState]
    BY <1>13, LoseKeepsTypes DEF ShutDown, LeaveUp, PromptTypes, Worker
  <2>3. UNCHANGED <<age, lock, tending, pc, workers, semaphore>>
    BY <1>13 DEF ShutDown, LeaveUp
  <2> QED
    BY <2>1, <2>2, <2>3 DEF PoolTypes, ClientTypes, PromptTypes
<1>14. ASSUME NEW w \in Worker, Crash(w) PROVE TInv'
  <2>1. process' \in [Worker -> {"none", "starting", "alive", "dead"}]
    BY <1>14 DEF Crash, PoolTypes
  <2>2. /\ DOMAIN prompts' = Client
        /\ \A d \in Client : prompts'[d] \in [Prompts(d) -> PromptState]
    BY <1>14, LoseKeepsTypes DEF Crash
  <2> QED
    BY <1>14, <2>1, <2>2 DEF Crash, PoolTypes, ClientTypes, PromptTypes
<1>15. CASE Tick
  <2>1. /\ age' \in [Warm -> {Never} \cup 0 .. WarmTimeout]
        /\ timer' \in [Warm -> {Never} \cup 0 .. WarmTimeout]
    BY <1>15, PoolAssumption DEF Tick, PoolTypes, Never
  <2> QED
    BY <1>15, <2>1 DEF Tick, PoolTypes, ClientTypes, PromptTypes
<1> QED
  BY <1>1, <1>2, <1>3, <1>4, <1>5, <1>6, <1>7, <1>8, <1>9, <1>10, <1>11, <1>12, <1>13,
     <1>14, <1>15 DEF Next, Serve, Expand

-----------------------------------------------------------------------------
\* The semaphore.

Flights(F) == UNION {{<<c, i>> : i \in F[c]} : c \in Client}

Flown == [c \in Client |-> Flying(c)]

Requests == Flights(Flown)

\* The requests under way, one more or one less.
LEMMA OneFlightMore ==
  ASSUME NEW F, NEW G, NEW c \in Client, NEW i,
         i \notin F[c], G[c] = F[c] \cup {i}, \A d \in Client \ {c} : G[d] = F[d]
  PROVE  /\ Flights(G) = Flights(F) \cup {<<c, i>>} /\ <<c, i>> \notin Flights(F)
         /\ Flights(F) = Flights(G) \ {<<c, i>>} /\ <<c, i>> \in Flights(G)
<1>1. \A p : p \in Flights(F) <=> \E d \in Client : \E j \in F[d] : p = <<d, j>>
  BY DEF Flights
<1>2. \A p : p \in Flights(G) <=> \E d \in Client : \E j \in G[d] : p = <<d, j>>
  BY DEF Flights
<1>3. <<c, i>> \notin Flights(F)
  BY <1>1
<1>4. Flights(G) = Flights(F) \cup {<<c, i>>}
  <2>1. ASSUME NEW p \in Flights(G) PROVE p \in Flights(F) \cup {<<c, i>>}
    BY <1>1, <1>2, <2>1
  <2>2. ASSUME NEW p \in Flights(F) \cup {<<c, i>>} PROVE p \in Flights(G)
    BY <1>1, <1>2, <2>2
  <2> QED
    BY <2>1, <2>2
<1> QED
  BY <1>3, <1>4

\* None of one client's any more.
LEMMA NoFlightOf ==
  ASSUME NEW F, NEW G, NEW c \in Client, IsFiniteSet(Flights(F)), IsFiniteSet(F[c]),
         G[c] = {}, \A d \in Client \ {c} : G[d] = F[d]
  PROVE  /\ IsFiniteSet(Flights(G))
         /\ Cardinality(Flights(G)) + Cardinality(F[c]) = Cardinality(Flights(F))
<1> DEFINE P == {<<c, i>> : i \in F[c]}
<1>1. \A p : p \in Flights(F) <=> \E d \in Client : \E j \in F[d] : p = <<d, j>>
  BY DEF Flights
<1>2. \A p : p \in Flights(G) <=> \E d \in Client : \E j \in G[d] : p = <<d, j>>
  BY DEF Flights
<1>3. IsFiniteSet(P) /\ Cardinality(P) = Cardinality(F[c])
  <2> DEFINE f == [i \in F[c] |-> <<c, i>>]
  <2>1. f \in Bijection(F[c], P)
    BY DEF Bijection, Injection, Surjection, IsInjective
  <2>2. ExistsBijection(F[c], P)
    BY <2>1 DEF ExistsBijection
  <2> HIDE DEF P
  <2> QED
    BY <2>2, FS_Bijection
<1>4. P \subseteq Flights(F)
  BY <1>1
<1>5. Flights(G) = Flights(F) \ P
  <2>1. ASSUME NEW p \in Flights(G) PROVE p \in Flights(F) /\ p \notin P
    BY <1>1, <1>2, <2>1
  <2>2. ASSUME NEW p \in Flights(F), p \notin P PROVE p \in Flights(G)
    BY <1>1, <1>2, <2>2
  <2> QED
    BY <2>1, <2>2
<1> HIDE DEF P
<1>6. /\ IsFiniteSet(Flights(F) \ P)
      /\ Cardinality(Flights(F) \ P) = Cardinality(Flights(F)) - Cardinality(Flights(F) \cap P)
  BY FS_Difference
<1>7. Flights(F) \cap P = P
  BY <1>4
<1>8. Cardinality(Flights(F)) \in Nat /\ Cardinality(P) \in Nat
  BY <1>3, FS_CardinalityType
<1>9. IsFiniteSet(Flights(G)) /\ Cardinality(Flights(G)) = Cardinality(Flights(F)) - Cardinality(P)
  BY <1>5, <1>6, <1>7
<1> QED
  BY <1>3, <1>8, <1>9

SInv == IsFiniteSet(Requests) /\ semaphore + Cardinality(Requests) = Slots

LEMMA InitHasSlots == Init => SInv
<1> SUFFICES ASSUME Init PROVE SInv
  OBVIOUS
<1>1. \A c \in Client : Flying(c) = {}
  BY DEF Init, Flying
<1>2. Requests = {}
  BY <1>1 DEF Requests, Flights, Flown
<1> QED
  BY <1>2, FS_EmptySet, PoolAssumption DEF SInv, Init

LEMMA StepKeepsSlots == TInv /\ SInv /\ [Next]_vars => SInv'
<1> SUFFICES ASSUME TInv, SInv, [Next]_vars PROVE SInv'
  OBVIOUS
<1> USE DEF TInv
<1>1. semaphore \in Nat /\ Slots \in Nat /\ Cardinality(Requests) \in Nat
  BY FS_CardinalityType, PoolAssumption DEF SInv, PromptTypes
<1>2. ASSUME \A c \in Client : Flying(c)' = Flying(c), UNCHANGED semaphore PROVE SInv'
  <2>1. Flown' = Flown
    BY <1>2 DEF Flown
  <2>2. Requests' = Requests
    BY <2>1 DEF Requests, Flights
  <2> QED
    BY <1>2, <2>2 DEF SInv
<1>3. CASE UNCHANGED <<prompts, semaphore>>
  BY <1>2, <1>3 DEF Flying
<1>4. ASSUME NEW w, Lose(w), UNCHANGED semaphore PROVE SInv'
  <2>1. ASSUME NEW c \in Client PROVE Flying(c)' = Flying(c)
    <3>1. \A i \in Prompts(c) : prompts'[c][i] =
            IF prompts[c][i] = "sent" /\ Target(c, i) = w THEN "lost" ELSE prompts[c][i]
      BY <1>4 DEF Lose
    <3> QED
      BY <3>1 DEF Flying
  <2> QED
    BY <1>2, <1>4, <2>1
<1>5. ASSUME NEW c \in Client, NEW i \in Prompts(c), NEW from, NEW to, Becomes(c, i, from, to)
      PROVE  /\ \A d \in Client \ {c} : Flying(d)' = Flying(d)
             /\ Flying(c)' = IF to \in {"sent", "lost"} THEN Flying(c) \cup {i} ELSE Flying(c) \ {i}
             /\ i \in Flying(c) <=> prompts[c][i] \in {"sent", "lost"}
  <2>1. /\ \A d \in Client \ {c} : prompts'[d] = prompts[d]
        /\ \A j \in Prompts(c) : prompts'[c][j] = IF j = i THEN to ELSE prompts[c][j]
    BY <1>5 DEF Becomes, PromptTypes
  <2> QED
    BY <2>1 DEF Flying
<1>6. ASSUME NEW c \in Client, NEW i \in Prompts(c), Send(c, i) PROVE SInv'
  <2>1. i \notin Flown[c] /\ Flown'[c] = Flown[c] \cup {i} /\ \A d \in Client \ {c} : Flown'[d] = Flown[d]
    <3>1. PICK to \in {"sent", "lost"} : Becomes(c, i, {"queued"}, to)
      BY <1>6 DEF Send
    <3>2. prompts[c][i] = "queued"
      BY <3>1 DEF Becomes
    <3> QED
      BY <1>5, <3>1, <3>2 DEF Flown
  <2>2. Requests' = Requests \cup {<<c, i>>} /\ <<c, i>> \notin Requests
    BY <2>1, OneFlightMore DEF Requests
  <2>3. /\ IsFiniteSet(Requests \cup {<<c, i>>})
        /\ Cardinality(Requests \cup {<<c, i>>}) = Cardinality(Requests) + 1
    BY <2>2, FS_AddElement DEF SInv
  <2>4. semaphore' = semaphore - 1
    BY <1>6 DEF Send
  <2> QED
    BY <1>1, <2>2, <2>3, <2>4 DEF SInv
<1>7. ASSUME NEW c \in Client, NEW i \in Prompts(c), Answer(c, i) \/ Fail(c, i) PROVE SInv'
  <2>1. i \in Flown[c] /\ Flown'[c] = Flown[c] \ {i} /\ \A d \in Client \ {c} : Flown'[d] = Flown[d]
    <3>1. PICK to \in {"ok", "failed"} : Becomes(c, i, {"sent", "lost"}, to)
      BY <1>7 DEF Answer, Fail, Becomes
    <3>2. prompts[c][i] \in {"sent", "lost"}
      BY <3>1 DEF Becomes
    <3> QED
      BY <1>5, <3>1, <3>2 DEF Flown
  <2>2. /\ i \notin Flown'[c] /\ Flown[c] = Flown'[c] \cup {i}
        /\ \A d \in Client \ {c} : Flown[d] = Flown'[d]
    BY <2>1
  <2>3. Requests' = Requests \ {<<c, i>>} /\ <<c, i>> \in Requests
    BY <2>2, OneFlightMore DEF Requests
  <2>4. /\ IsFiniteSet(Requests \ {<<c, i>>})
        /\ Cardinality(Requests \ {<<c, i>>}) = Cardinality(Requests) - 1
    BY <2>3, FS_RemoveElement DEF SInv
  <2>5. semaphore' = semaphore + 1
    BY <1>7 DEF Answer, Fail
  <2> QED
    BY <1>1, <2>3, <2>4, <2>5 DEF SInv
<1>8. ASSUME NEW b \in Batch, CancelBatch(b) PROVE SInv'
  <2>1. b \in Client
    BY DEF Client
  <2>2. Flown'[b] = {} /\ \A d \in Client \ {b} : Flown'[d] = Flown[d]
    <3>1. /\ \A d \in Client \ {b} : prompts'[d] = prompts[d]
          /\ \A i \in Prompts(b) : prompts'[b][i] \in {"ok", "failed"}
      BY <1>8, <2>1 DEF CancelBatch, PromptTypes
    <3> QED
      BY <2>1, <3>1 DEF Flown, Flying
  <2>3. IsFiniteSet(Flown[b]) /\ Cardinality(Flown[b]) = Cardinality(Flying(b))
    BY <2>1, FlyingIsFinite DEF Flown
  <2>4. /\ IsFiniteSet(Requests')
        /\ Cardinality(Requests') + Cardinality(Flown[b]) = Cardinality(Requests)
    BY <2>1, <2>2, <2>3, NoFlightOf DEF Requests, SInv
  <2>5. Cardinality(Requests') \in Nat /\ Cardinality(Flown[b]) \in Nat
    BY <2>3, <2>4, FS_CardinalityType
  <2>6. semaphore' = semaphore + Cardinality(Flown[b])
    BY <1>8, <2>3 DEF CancelBatch
  <2> QED
    BY <1>1, <2>4, <2>5, <2>6 DEF SInv
<1>9. CASE UNCHANGED vars
  BY <1>3, <1>9 DEF vars
<1>10. ASSUME NEW c \in Client, NoneAvailable(c) \/ Select(c) \/ Expand(c) PROVE SInv'
  BY <1>3, <1>10 DEF NoneAvailable, Select, Expand, Acquire, Pass, Launch, Started, Rescan
<1>11. ASSUME NEW b \in Batch, EndBatch(b) PROVE SInv'
  BY <1>3, <1>11 DEF EndBatch
<1>12. ASSUME NEW w \in Warm, ShutDown(w) \/ LeaveUp(w) PROVE SInv'
  BY <1>3, <1>4, <1>12 DEF ShutDown, LeaveUp
<1>13. ASSUME NEW w \in Worker, Crash(w) PROVE SInv'
  BY <1>4, <1>13 DEF Crash
<1>14. CASE Tick
  BY <1>3, <1>14 DEF Tick
<1> QED
  BY <1>6, <1>7, <1>8, <1>9, <1>10, <1>11, <1>12, <1>13, <1>14 DEF Next, Serve

LEMMA SlotsFit == TInv /\ SInv => TypeOK /\ SlotsAreExact
<1> SUFFICES ASSUME TInv, SInv PROVE TypeOK /\ SlotsAreExact
  OBVIOUS
<1>1. Requests = UNION {{<<c, i>> : i \in Flying(c)} : c \in Client}
  BY DEF Requests, Flights, Flown
<1>2. SlotsAreExact
  BY <1>1 DEF SInv, SlotsAreExact
<1>3. semaphore \in 0 .. Slots
  BY FS_CardinalityType, PoolAssumption DEF SInv, TInv, PromptTypes
<1> QED
  BY <1>2, <1>3 DEF TInv, PoolTypes, ClientTypes, PromptTypes, TypeOK

\* Every variable keeps its type; that no more is given back to the semaphore
\* than was taken follows from the requests under way.
THEOREM PoolTypeCorrect == Spec => []TypeOK
BY InitHasTypes, StepKeepsTypes, InitHasSlots, StepKeepsSlots, SlotsFit, PTL DEF Spec

\* Answers, errors, workers that go down and batches that are cancelled give
\* back each place of the semaphore that was taken, once.
THEOREM SlotsStayExact == Spec => []SlotsAreExact
BY InitHasTypes, StepKeepsTypes, InitHasSlots, StepKeepsSlots, SlotsFit, PTL DEF Spec

-----------------------------------------------------------------------------
\* The idle timers.

Active(c) == pc[c] \in {"expanding", "starting", "calling"}

\* Only a batch that starts warm workers holds the lock, and who is at work
\* has workers.
LInv ==
  /\ lock # Free => lock \in Batch /\ pc[lock] = "starting"
  /\ \A c \in Client : pc[c] = "expanding" => c \in Batch
  /\ \A c \in Client : Active(c) => workers[c] # <<>>

LEMMA OnlyBatchesExpand ==
  ASSUME NEW c \in Client, Expands(c)
  PROVE  c \in Batch
BY PoolAssumption DEF Expands, Client

LEMMA StepKeepsLock == TInv /\ LInv /\ [Next]_vars => LInv'
<1> SUFFICES ASSUME TInv, LInv, [Next]_vars PROVE LInv'
  OBVIOUS
<1>0. /\ pc \in [Client -> PC] /\ workers \in [Client -> Seq(Worker)]
      /\ Batch \subseteq Client /\ Free \notin Client
  BY PoolAssumption DEF TInv, ClientTypes, Client
<1>1. CASE UNCHANGED <<lock, pc, workers>>
  BY <1>1 DEF LInv, Active
<1>2. ASSUME NEW c \in Client, NoneAvailable(c) PROVE LInv'
  BY <1>0, <1>2 DEF NoneAvailable, LInv, Active
<1>3. ASSUME NEW c \in Client, Select(c) PROVE LInv'
  <2>1. PICK l \in Lists(Candidates(c)) : workers' = [workers EXCEPT ![c] = l]
    BY <1>3 DEF Select
  <2>2. l # <<>>
    BY <1>3, <2>1, CandidatesFit, ListsFit DEF Select
  <2>3. /\ UNCHANGED lock /\ pc[c] = "idle"
        /\ pc' = [pc EXCEPT ![c] = IF Expands(c) THEN "expanding" ELSE "calling"]
    BY <1>3 DEF Select
  <2> QED
    BY <1>0, <2>1, <2>2, <2>3, OnlyBatchesExpand DEF LInv, Active
<1>4. ASSUME NEW c \in Client, Acquire(c) PROVE LInv'
  BY <1>0, <1>4 DEF Acquire, LInv, Active
<1>5. ASSUME NEW c \in Client, Rescan(c) PROVE LInv'
  <2>1. PICK l \in Lists(Healthy(Warm) \ Chosen(c)) : workers' = [workers EXCEPT ![c] = @ \o l]
    BY <1>5 DEF Rescan
  <2>2. l \in Seq(Worker)
    BY ListsFit DEF Healthy, Worker
  <2>3. workers[c] # <<>>
    BY <1>0, <1>5 DEF Rescan, LInv, Active
  <2>4. workers[c] \o l # <<>>
    BY <1>0, <2>2, <2>3
  <2>5. lock = c /\ lock' = Free /\ pc' = [pc EXCEPT ![c] = "calling"]
    BY <1>5 DEF Rescan
  <2> QED
    BY <1>0, <2>1, <2>4, <2>5 DEF LInv, Active
<1>6. ASSUME NEW c \in Client, NEW i \in Prompts(c), Answer(c, i) \/ Fail(c, i) PROVE LInv'
  <2>1. /\ UNCHANGED <<lock, workers>> /\ pc[c] = "calling"
        /\ pc' = pc \/ pc' = [pc EXCEPT ![c] = "done"] \/ pc' = [pc EXCEPT ![c] = "failed"]
    BY <1>0, <1>6 DEF Answer, Fail, Becomes
  <2> QED
    BY <1>0, <2>1 DEF LInv, Active
<1>7. ASSUME NEW b \in Batch, EndBatch(b) PROVE LInv'
  BY <1>0, <1>7 DEF EndBatch, LInv, Active
<1>8. ASSUME NEW b \in Batch, CancelBatch(b) PROVE LInv'
  BY <1>0, <1>8 DEF CancelBatch, LInv, Active
<1>9. CASE UNCHANGED vars \/ Tick
  BY <1>1, <1>9 DEF vars, Tick
<1>10. ASSUME NEW c \in Client, NEW w \in Warm,
              Pass(c, w) \/ Launch(c, w) \/ Started(c, w, TRUE) \/ Started(c, w, FALSE)
       PROVE  LInv'
  BY <1>1, <1>10 DEF Pass, Launch, Started
<1>11. ASSUME NEW c \in Client, NEW i \in Prompts(c), Send(c, i) PROVE LInv'
  BY <1>1, <1>11 DEF Send
<1>12. ASSUME NEW w \in Warm, ShutDown(w) \/ LeaveUp(w) PROVE LInv'
  BY <1>1, <1>12 DEF ShutDown, LeaveUp
<1>13. ASSUME NEW w \in Worker, Crash(w) PROVE LInv'
  BY <1>1, <1>13 DEF Crash
<1> QED
  BY <1>2, <1>3, <1>4, <1>5, <1>6, <1>7, <1>8, <1>9, <1>10, <1>11, <1>12, <1>13
     DEF Next, Serve, Expand

\* The timer of a worker cannot go off before the worker has been idle for the
\* whole timeout, unless a batch that has selected it will arm it anew.
Watched(w) ==
  \/ InUse(w)
  \/ timer[w] # Never /\ age[w] + timer[w] >= WarmTimeout

DueInv ==
  (\A b \in Batch : pc[b] # "cancelled") =>
    \A w \in Warm : healthy[w] /\ age[w] # Never => Watched(w)

LEMMA TargetIsChosen ==
  ASSUME TInv, NEW c \in Client, workers[c] # <<>>, NEW i \in Prompts(c)
  PROVE  Target(c, i) \in Chosen(c)
<1>1. workers[c] \in Seq(Worker) /\ Len(workers[c]) \in Nat /\ DOMAIN workers[c] = 1 .. Len(workers[c])
  BY DEF TInv, ClientTypes
<1>2. Len(workers[c]) # 0
  BY <1>1
<1>3. i - 1 \in Int
  BY PoolAssumption DEF Prompts
<1>4. ((i - 1) % Len(workers[c])) + 1 \in 1 .. Len(workers[c])
  BY <1>1, <1>2, <1>3
<1> QED
  BY <1>1, <1>4 DEF Target, Chosen

LEMMA StepKeepsWatch == TInv /\ LInv /\ DueInv /\ [Next]_vars => DueInv'
<1> SUFFICES ASSUME TInv, LInv, DueInv, [Next]_vars, \A b \in Batch : pc'[b] # "cancelled",
                    NEW w \in Warm, healthy'[w], age'[w] # Never
             PROVE  Watched(w)'
  BY DEF DueInv
<1>0. /\ pc \in [Client -> PC] /\ workers \in [Client -> Seq(Worker)]
      /\ Batch \subseteq Client /\ Free \notin Client /\ Batch \cap Call = {}
      /\ age[w] \in {Never} \cup 0 .. WarmTimeout /\ timer[w] \in {Never} \cup 0 .. WarmTimeout
      /\ WarmTimeout \in Nat \ {0}
  BY PoolAssumption DEF TInv, ClientTypes, PoolTypes, Client
\* Nothing but its own batches, its timer and its age matters to a worker.
<1>1. ASSUME \A b \in Batch : pc[b] # "cancelled", healthy[w], age[w] # Never PROVE Watched(w)
  BY <1>1 DEF DueInv
<1>2. ASSUME InUse(w), lock' = lock, \A b \in Batch : Active(b) => Active(b)' /\ workers'[b] = workers[b]
      PROVE  InUse(w)'
  BY <1>2 DEF InUse, Active, Chosen
<1>3. ASSUME UNCHANGED <<lock, pc, workers>>, healthy[w], age'[w] = age[w], timer'[w] = timer[w]
      PROVE  Watched(w)'
  BY <1>1, <1>2, <1>3 DEF Watched, Active
<1>4. CASE UNCHANGED vars
  BY <1>3, <1>4 DEF vars, pool
<1>5. ASSUME NEW c \in Client, NoneAvailable(c) \/ Select(c) PROVE Watched(w)'
  <2>1. /\ UNCHANGED <<healthy, age, timer, lock>> /\ pc[c] = "idle"
        /\ \A b \in Batch \ {c} : pc'[b] = pc[b] /\ workers'[b] = workers[b]
    BY <1>0, <1>5 DEF NoneAvailable, Select, pool
  <2>2. Watched(w)
    BY <1>1, <2>1
  <2>3. \A b \in Batch : Active(b) => Active(b)' /\ workers'[b] = workers[b]
    BY <2>1 DEF Active
  <2> QED
    BY <1>2, <2>1, <2>2, <2>3 DEF Watched
<1>6. ASSUME NEW c \in Client, Acquire(c) PROVE Watched(w)'
  <2>1. /\ UNCHANGED <<healthy, age, timer, workers>> /\ pc[c] = "expanding" /\ lock = Free
        /\ pc' = [pc EXCEPT ![c] = "starting"]
    BY <1>6 DEF Acquire, pool
  <2>2. Watched(w)
    BY <1>0, <1>1, <2>1
  <2>3. InUse(w) => InUse(w)'
    BY <1>0, <2>1 DEF InUse, Chosen
  <2> QED
    BY <2>1, <2>2, <2>3 DEF Watched
<1>7. ASSUME NEW c \in Client, NEW v \in Warm,
             Pass(c, v) \/ Launch(c, v) \/ Started(c, v, TRUE) \/ Started(c, v, FALSE)
      PROVE  Watched(w)'
  <2>1. lock = c /\ lock' = c /\ UNCHANGED pc
    BY <1>7 DEF Pass, Launch, Started
  <2>2. c \in Batch /\ pc'[c] = "starting"
    BY <1>0, <2>1 DEF LInv
  <2> QED
    BY <2>1, <2>2 DEF Watched, InUse
<1>8. ASSUME NEW c \in Client, Rescan(c) PROVE Watched(w)'
  <2>1. PICK l \in Lists(Healthy(Warm) \ Chosen(c)) : workers' = [workers EXCEPT ![c] = @ \o l]
    BY <1>8 DEF Rescan
  <2>2. l \in Seq(Worker) /\ \A v \in Healthy(Warm) \ Chosen(c) : \E i \in DOMAIN l : l[i] = v
    BY ListsFit DEF Healthy, Worker
  <2>3. /\ healthy[w] /\ lock = c /\ c \in Batch /\ pc'[c] = "calling"
        /\ workers[c] \in Seq(Worker) /\ workers'[c] = workers[c] \o l
    BY <1>0, <1>8, <2>1 DEF Rescan, pool, LInv
  <2>4. /\ \A i \in DOMAIN workers[c] : i \in DOMAIN workers'[c] /\ workers'[c][i] = workers[c][i]
        /\ \A i \in DOMAIN l : /\ i + Len(workers[c]) \in DOMAIN workers'[c]
                             /\ workers'[c][i + Len(workers[c])] = l[i]
    BY <2>2, <2>3
  <2>5. \E i \in DOMAIN workers'[c] : workers'[c][i] = w
    <3>1. CASE w \in Chosen(c)
      BY <2>4, <3>1 DEF Chosen
    <3>2. CASE w \notin Chosen(c)
      <4>1. w \in Healthy(Warm) \ Chosen(c)
        BY <2>3, <3>2 DEF Healthy
      <4>2. PICK i \in DOMAIN l : l[i] = w
        BY <2>2, <4>1
      <4> QED
        BY <2>4, <4>2
    <3> QED
      BY <3>1, <3>2
  <2> QED
    BY <2>3, <2>5 DEF Watched, InUse, Chosen
<1>9. ASSUME NEW c \in Client, NEW i \in Prompts(c), Send(c, i) PROVE Watched(w)'
  BY <1>3, <1>9 DEF Send, pool
<1>10. ASSUME NEW c \in Client, NEW i \in Prompts(c), Answer(c, i) PROVE Watched(w)'
  <2>1. /\ UNCHANGED <<healthy, lock, workers>> /\ pc[c] = "calling"
        /\ pc' = [pc EXCEPT ![c] = IF c \in Call THEN "done" ELSE @]
        /\ age'[w] = IF w = Target(c, i) THEN 0 ELSE age[w]
        /\ timer'[w] = IF c \in Call /\ w = Target(c, i) THEN WarmTimeout ELSE timer[w]
    BY <1>10 DEF Answer, Becomes, Schedule
  <2>2. \A b \in Batch : pc'[b] = pc[b]
    BY <1>0, <2>1
  <2>3. CASE w # Target(c, i)
    <3>1. Watched(w)
      BY <1>1, <2>1, <2>2, <2>3
    <3> QED
      BY <1>2, <2>1, <2>2, <2>3, <3>1 DEF Watched, Active
  <2>4. CASE w = Target(c, i) /\ c \in Call
    BY <1>0, <2>1, <2>4 DEF Watched, Never
  <2>5. CASE w = Target(c, i) /\ c \notin Call
    <3>1. c \in Batch /\ w \in Chosen(c)
      BY <2>1, <2>5, TargetIsChosen DEF LInv, Active, Client
    <3> QED
      BY <2>1, <2>2, <3>1 DEF Watched, InUse, Chosen
  <2> QED
    BY <2>3, <2>4, <2>5
<1>11. ASSUME NEW c \in Client, NEW i \in Prompts(c), Fail(c, i) PROVE Watched(w)'
  <2>1. /\ UNCHANGED <<healthy, age, timer, lock, workers>>
        /\ pc' = [pc EXCEPT ![c] = IF c \in Call THEN "failed" ELSE @]
    BY <1>11 DEF Fail, pool
  <2>2. \A b \in Batch : pc'[b] = pc[b]
    BY <1>0, <2>1
  <2>3. Watched(w)
    BY <1>1, <2>1, <2>2
  <2> QED
    BY <1>2, <2>1, <2>2, <2>3 DEF Watched, Active
<1>12. ASSUME NEW b \in Batch, EndBatch(b) PROVE Watched(w)'
  <2>1. /\ UNCHANGED <<healthy, age, lock, workers>> /\ pc[b] = "calling"
        /\ pc' = [pc EXCEPT ![b] = "done"]
        /\ timer'[w] = IF w \in Chosen(b) THEN WarmTimeout ELSE timer[w]
    BY <1>12 DEF EndBatch, Schedule
  <2>2. CASE w \in Chosen(b)
    BY <1>0, <2>1, <2>2 DEF Watched, Never
  <2>3. CASE w \notin Chosen(b)
    <3>1. Watched(w)
      BY <1>0, <1>1, <2>1
    <3>2. lock # b
      BY <1>0, <2>1 DEF LInv
    <3>3. InUse(w) => InUse(w)'
      BY <1>0, <2>1, <2>3, <3>2 DEF InUse, Chosen
    <3> QED
      BY <2>1, <2>3, <3>1, <3>3 DEF Watched
  <2> QED
    BY <2>2, <2>3
<1>13. ASSUME NEW b \in Batch, CancelBatch(b) PROVE FALSE
  BY <1>0, <1>13 DEF CancelBatch
<1>14. ASSUME NEW v \in Warm, ShutDown(v) PROVE Watched(w)'
  <2>1. w # v /\ healthy'[w] = healthy[w]
    BY <1>14 DEF ShutDown, TInv, PoolTypes, Worker
  <2> QED
    BY <1>3, <1>14, <2>1 DEF ShutDown, WakeUp, TInv, PoolTypes
<1>15. ASSUME NEW v \in Warm, LeaveUp(v) PROVE Watched(w)'
  <2>1. /\ UNCHANGED <<healthy, age, lock, pc, workers>>
        /\ timer[v] = 0 /\ timer'[w] = IF w = v THEN Never ELSE timer[w]
        /\ ~(age[v] # Never /\ age[v] >= WarmTimeout)
    BY <1>15 DEF LeaveUp, WakeUp, StillIdle, TInv, PoolTypes
  <2>2. CASE w # v
    BY <1>3, <2>1, <2>2
  <2>3. CASE w = v
    <3>1. Watched(w)
      BY <1>1, <2>1
    <3>2. InUse(w)
      BY <1>0, <2>1, <2>3, <3>1 DEF Watched, Never
    <3> QED
      BY <1>2, <2>1, <3>2 DEF Watched, Active
  <2> QED
    BY <2>2, <2>3
<1>16. ASSUME NEW v \in Worker, Crash(v) PROVE Watched(w)'
  BY <1>3, <1>16 DEF Crash
<1>17. CASE Tick
  <2>1. /\ UNCHANGED <<healthy, lock, pc, workers>>
        /\ age'[w] = IF age[w] \in 0 .. WarmTimeout - 1 THEN age[w] + 1 ELSE age[w]
        /\ timer'[w] = IF timer[w] > 0 THEN timer[w] - 1 ELSE timer[w]
    BY <1>17 DEF Tick
  <2>2. age[w] # Never
    BY <1>0, <2>1 DEF Never
  <2>3. Watched(w)
    BY <1>1, <2>1, <2>2
  <2>4. CASE InUse(w)
    BY <1>2, <2>1, <2>4 DEF Watched, Active
  <2>5. CASE timer[w] # Never /\ age[w] + timer[w] >= WarmTimeout
    <3>1. timer'[w] # Never /\ age'[w] + timer'[w] >= WarmTimeout
      BY <1>0, <2>1, <2>2, <2>5 DEF Never
    <3> QED
      BY <3>1 DEF Watched
  <2> QED
    BY <2>3, <2>4, <2>5 DEF Watched
<1> QED
  BY <1>4, <1>5, <1>6, <1>7, <1>8, <1>9, <1>10, <1>11, <1>12, <1>13, <1>14, <1>15,
     <1>16, <1>17 DEF Next, Serve, Expand

LEMMA InitIsWatched == Init => LInv /\ DueInv
BY DEF Init, LInv, DueInv, Active

LEMMA WatchFits == DueInv => WarmIsWatched
BY DEF DueInv, Watched, WarmIsWatched

\* Unless a batch is cancelled, no order of calls, batches, expansions and
\* timers leaves a warm worker that has served up for ever: a timer that finds
\* it busy may be spent only while a batch will arm another.
THEOREM WarmStaysWatched == Spec => []WarmIsWatched
BY InitHasTypes, StepKeepsTypes, InitIsWatched, StepKeepsLock, StepKeepsWatch, WatchFits, PTL
   DEF Spec

\* A timer that wakes up and leaves its worker up has been overtaken by a batch
\* that has the worker: no timer is armed too early to find its worker idle.
THEOREM TimersAreNotEarly ==
  Spec => [][\A w \in Warm :
               /\ LeaveUp(w) /\ healthy[w] /\ age[w] # Never
               /\ \A b \in Batch : pc[b] # "cancelled"
               => InUse(w)]_vars
<1>1. TInv /\ DueInv => [\A w \in Warm :
                            /\ LeaveUp(w) /\ healthy[w] /\ age[w] # Never
                            /\ \A b \in Batch : pc[b] # "cancelled"
                            => InUse(w)]_vars
  <2> SUFFICES ASSUME TInv, DueInv, NEW w \in Warm, LeaveUp(w), healthy[w], age[w] # Never,
                      \A b \in Batch : pc[b] # "cancelled"
               PROVE  InUse(w)
    OBVIOUS
  <2>1. timer[w] = 0 /\ age[w] \in 0 .. WarmTimeout /\ ~(age[w] >= WarmTimeout)
    BY DEF LeaveUp, WakeUp, StillIdle, TInv, PoolTypes
  <2>2. Watched(w)
    BY DEF DueInv
  <2> QED
    BY <2>1, <2>2, PoolAssumption DEF Watched
<1> QED
  BY <1>1, InitHasTypes, StepKeepsTypes, InitIsWatched, StepKeepsLock, StepKeepsWatch, PTL DEF Spec

=============================================================================
