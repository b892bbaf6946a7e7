---------------------------- MODULE MCWorkerPool ----------------------------
(***************************************************************************)
(* WorkerPool with a hot and a warm worker, a call and two batches.        *)
(***************************************************************************)
EXTENDS WorkerPool, TLC
CONSTANTS explore, fast, ask, big, again
MCServes == [r \in {"explore", "fast"} |-> IF r = "explore" THEN {explore} ELSE {fast}]
MCRoleOf == ask :> "fast" @@ big :> "explore" @@ again :> "fast"
MCSize == ask :> 1 @@ big :> 2 @@ again :> 2
=============================================================================
