-------------------------- MODULE AttemptContract --------------------------
(***************************************************************************)
(* What the workflow engine promises about the attempts of a workflow run, *)
(* whatever its handlers and workers interleave: attempts are executed in  *)
(* order, each at most once, one at a time, and an attempt follows only a  *)
(* recorded failure of the attempt before it.                              *)
(***************************************************************************)
EXTENDS Naturals

CONSTANTS
    Runs,        \* workflow runs
    MaxAttempts  \* bound on the attempts of a run

VARIABLE ledger  \* ledger[r][a]: what became of executing attempt a of run r

Attempts == 1 .. MaxAttempts
Ends     == {"failed", "succeeded", "discarded"}
Outcomes == {"none", "executing"} \cup Ends

Init == ledger = [r \in Runs |-> [a \in Attempts |-> "none"]]

Begin(r, a) ==
    /\ ledger[r][a] = "none"
    /\ a = 1 \/ ledger[r][a - 1] = "failed"
    /\ ledger' = [ledger EXCEPT ![r][a] = "executing"]

Finish(r, a, end) ==
    /\ ledger[r][a] = "executing"
    /\ ledger' = [ledger EXCEPT ![r][a] = end]

Next == \E r \in Runs, a \in Attempts :
            Begin(r, a) \/ \E end \in Ends : Finish(r, a, end)

Spec == Init /\ [][Next]_ledger
=============================================================================
