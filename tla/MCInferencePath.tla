-------------------------- MODULE MCInferencePath --------------------------
(***************************************************************************)
(* InferencePath on small instances.                                       *)
(***************************************************************************)
EXTENDS InferencePath, TLC

CONSTANTS math, explore, front, general1, general2, coding

\* Two light calls that share a port in one worker process, one of them with a
\* heavy fallback on that port, and a heavy call in another process.
Workers == {math, explore, front}

\* Two calls for an architect of which there is one place, and one call for
\* each of the two architects, which stand in for each other.
SamePlace == {general1, general2}
EachOther == {general1, coding}

MCCall == Workers \cup SamePlace \cup EachOther
MCAsked == {Workers, SamePlace, EachOther}
MCRoleOf ==
  math :> "worker_math" @@ explore :> "worker_explore" @@ front :> "frontdoor" @@
  general1 :> "architect_general" @@ general2 :> "architect_general" @@ coding :> "architect_coding"
MCPriorityOf == [c \in MCCall |-> IF c = explore THEN "background" ELSE "interactive"]
MCWorkerOf == [c \in MCCall |-> IF c = front THEN 2 ELSE 1]

\* Two light calls on one port with slots for both.
MCLightCall == {math, explore}
MCLightRoleOf == [c \in MCLightCall |-> "worker_fast"]
MCLightPriorityOf == [c \in MCLightCall |-> "interactive"]
MCLightWorkerOf == [c \in MCLightCall |-> 1]
MCLightAsked == {MCLightCall}

=============================================================================
