----------------------------- MODULE AtomicDisk -----------------------------
(***************************************************************************)
(* What the log promises the file system: operations read and write one    *)
(* current image; a crash takes the image back to the last one committed,  *)
(* and an image is committed only when no operation is in progress, so no  *)
(* operation is ever half done after a crash.                              *)
(***************************************************************************)
CONSTANTS Ops, Blocks, Val, Zero

VARIABLES durable, current, active
vars == <<durable, current, active>>

Init ==
  /\ durable = [b \in Blocks |-> Zero]
  /\ current = durable
  /\ active = {}

Begin(p) ==
  /\ p \notin active
  /\ active' = active \cup {p}
  /\ UNCHANGED <<durable, current>>

Write(p, b, v) ==
  /\ p \in active
  /\ current' = [current EXCEPT ![b] = v]
  /\ UNCHANGED <<durable, active>>

End(p) ==
  /\ p \in active
  /\ active' = active \ {p}
  /\ UNCHANGED <<durable, current>>

Commit ==
  /\ active = {}
  /\ durable' = current
  /\ UNCHANGED <<current, active>>

Crash ==
  /\ current' = durable
  /\ active' = {}
  /\ UNCHANGED durable

Next ==
  \/ \E p \in Ops : Begin(p) \/ End(p)
  \/ \E p \in Ops, b \in Blocks, v \in Val : Write(p, b, v)
  \/ Commit
  \/ Crash

Spec == Init /\ [][Next]_vars

=============================================================================
