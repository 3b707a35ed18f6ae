------------------------------ MODULE RunClaim ------------------------------
(***************************************************************************)
(* What the pipeline runs of a repository promise: a claim that one run    *)
(* holds at a time, that no run holds twice, and under which the worker    *)
(* works at most once, and only while the claim is held.                   *)
(***************************************************************************)
EXTENDS Naturals

CONSTANTS
    Runs,
    NoRun    \* not one of them

VARIABLES
    holder,   \* the run that holds the claim, or NoRun
    stage,    \* what became of the work under it
    spent     \* runs that hold or have held the claim

claimVars == <<holder, stage, spent>>

Stages == {"free", "held", "working", "stopped"}

Init ==
    /\ holder = NoRun
    /\ stage = "free"
    /\ spent = {}

\* The store admits a new non-terminal run.
Acquire(r) ==
    /\ stage = "free"
    /\ r \notin spent
    /\ holder' = r
    /\ stage' = "held"
    /\ spent' = spent \cup {r}

\* The worker starts the instance that carries the holder's id.
Start ==
    /\ stage = "held"
    /\ stage' = "working"
    /\ UNCHANGED <<holder, spent>>

\* The instance gives up, its run still non-terminal.
Stop ==
    /\ stage = "working"
    /\ stage' = "stopped"
    /\ UNCHANGED <<holder, spent>>

\* The run gets a terminal status.
Release ==
    /\ stage # "free"
    /\ holder' = NoRun
    /\ stage' = "free"
    /\ UNCHANGED spent

Next ==
    \/ \E r \in Runs : Acquire(r)
    \/ Start
    \/ Stop
    \/ Release

Spec == Init /\ [][Next]_claimVars
=============================================================================
