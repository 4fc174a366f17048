------------------------------ MODULE TaskLife ------------------------------
(***************************************************************************)
(* What the status column of a background task promises to whoever polls   *)
(* it: a row is created pending, runs at most once, is completed only from *)
(* running, and a failure is final.  A completed row may still become      *)
(* failed, because a cancel request looks at the status in one statement   *)
(* and writes in another; nothing leaves failed.                           *)
(***************************************************************************)
CONSTANT Tasks
VARIABLE status

States == {"none", "pending", "running", "completed", "failed"}

Init == status = [t \in Tasks |-> "none"]

Moves(t, from, to) ==
    /\ status[t] \in from
    /\ status' = [status EXCEPT ![t] = to]

Create(t)   == Moves(t, {"none"}, "pending")
Start(t)    == Moves(t, {"pending"}, "running")
Complete(t) == Moves(t, {"running"}, "completed")
Fail(t)     == Moves(t, {"pending", "running", "completed"}, "failed")

Next == \E t \in Tasks : Create(t) \/ Start(t) \/ Complete(t) \/ Fail(t)

Spec == Init /\ [][Next]_status
=============================================================================
