-------------------------- MODULE SubagentLifecycle -------------------------
(***************************************************************************)
(* What subagents.Manager promises about a child run: it is started once,  *)
(* gets one terminal status, and is announced as over only after that.     *)
(* The one amendment is that a cancelled run whose setup then fails is     *)
(* recorded as an error.                                                   *)
(***************************************************************************)
CONSTANT Runs

VARIABLES
    status,  \* run -> "none", "running" or a terminal status
    over     \* the runs whose waiters are released

vars == <<status, over>>

Terminal == {"completed", "error", "timeout", "canceled"}

Init ==
    /\ status = [r \in Runs |-> "none"]
    /\ over = {}

Start(r) ==
    /\ status[r] = "none"
    /\ status' = [status EXCEPT ![r] = "running"]
    /\ UNCHANGED over

End(r, s) ==
    /\ status[r] = "running"
    /\ status' = [status EXCEPT ![r] = s]
    /\ UNCHANGED over

Amend(r) ==
    /\ status[r] = "canceled"
    /\ r \notin over
    /\ status' = [status EXCEPT ![r] = "error"]
    /\ UNCHANGED over

Announce(r) ==
    /\ status[r] \in Terminal
    /\ r \notin over
    /\ over' = over \cup {r}
    /\ UNCHANGED status

Next ==
    \E r \in Runs :
        \/ Start(r)
        \/ \E s \in Terminal : End(r, s)
        \/ Amend(r)
        \/ Announce(r)

Spec == Init /\ [][Next]_vars
=============================================================================
