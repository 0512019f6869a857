---------------------------- MODULE DurableWork ----------------------------
(***************************************************************************)
(* What the durable task queue promises, per task and without processes,   *)
(* database or retries: a task it has accepted is owed until an execution  *)
(* of it succeeds or it is recorded as failed.  A late success overrides a *)
(* recorded failure; only recorded failures are ever forgotten.            *)
(***************************************************************************)
CONSTANT Tasks
VARIABLE duty      \* "none", "owed", "done", "failed" or "forgotten"

Duties == {"none", "owed", "done", "failed", "forgotten"}

Init == duty = [t \in Tasks |-> "none"]

Accept(t) ==
    /\ duty[t] = "none"
    /\ duty' = [duty EXCEPT ![t] = "owed"]

Succeed(t) ==
    /\ duty[t] \in {"owed", "failed", "forgotten"}
    /\ duty' = [duty EXCEPT ![t] = "done"]

GiveUp(t) ==
    /\ duty[t] = "owed"
    /\ duty' = [duty EXCEPT ![t] = "failed"]

\* Old failures are dropped together.
Forget(S) ==
    /\ \A t \in S : duty[t] = "failed"
    /\ duty' = [t \in Tasks |-> IF t \in S THEN "forgotten" ELSE duty[t]]

Next ==
    \/ \E t \in Tasks : Accept(t) \/ Succeed(t) \/ GiveUp(t)
    \/ \E S \in SUBSET Tasks : Forget(S)

Spec == Init /\ [][Next]_duty
=============================================================================
