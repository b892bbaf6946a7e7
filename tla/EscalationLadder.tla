-------------------------- MODULE EscalationLadder --------------------------
(***************************************************************************)
(* What running a task promises, whatever happens inside a turn: the task  *)
(* starts at one role, may only climb the escalation map one rung at a     *)
(* time, may fall back to a rung it has already stood on (recovery from an *)
(* earlier checkpoint), and ends once.  `climbed' is the path of rungs.    *)
(***************************************************************************)
EXTENDS Roles, Sequences, Naturals

CONSTANT StartRoles

VARIABLES climbed, status

ladder == <<climbed, status>>

Top == climbed[Len(climbed)]

Init ==
  /\ \E r \in StartRoles : climbed = <<r>>
  /\ status = "running"

Climb ==
  /\ status = "running"
  /\ EscalatesTo(Top) # None
  /\ climbed' = Append(climbed, EscalatesTo(Top))
  /\ UNCHANGED status

FallBack ==
  /\ status = "running"
  /\ \E n \in 1 .. Len(climbed) : climbed' = SubSeq(climbed, 1, n)
  /\ UNCHANGED status

Finish ==
  /\ status = "running"
  /\ status' \in {"answered", "failed"}
  /\ UNCHANGED climbed

Next == Climb \/ FallBack \/ Finish

Spec == Init /\ [][Next]_ladder

=============================================================================
