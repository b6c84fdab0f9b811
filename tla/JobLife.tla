------------------------------ MODULE JobLife ------------------------------
(***************************************************************************)
(* What rau/agent/orchestrator.py promises about a job, whatever threads   *)
(* carry it: a tree of goals, each absent, then active, then settled for   *)
(* good.  Being asked to stop takes in everything active beneath a job at  *)
(* once; nothing is added beneath a job that was asked to stop, only such  *)
(* a job is reported cancelled, and it does not stay active.               *)
(***************************************************************************)
CONSTANT Jobs

VARIABLES
    status,   \* each job's place in its life
    parent,   \* the job it was spawned by; 0 for a job the user asked for
    stopping  \* the jobs a cancel has reached

vars == <<status, parent, stopping>>

Init ==
    /\ status = [j \in Jobs |-> "absent"]
    /\ parent = [j \in Jobs |-> 0]
    /\ stopping = {}

Active(j) == status[j] = "active"

Start(j, p) ==
    /\ status[j] = "absent"
    /\ p \in Jobs => Active(p) /\ p \notin stopping
    /\ status' = [status EXCEPT ![j] = "active"]
    /\ parent' = [parent EXCEPT ![j] = p]
    /\ UNCHANGED stopping

Stop(j) ==
    /\ stopping' = stopping \cup {i \in Jobs : Active(i) /\ (i = j \/ parent[i] = j)}
    /\ UNCHANGED <<status, parent>>

Settle(j, ending) ==
    /\ Active(j)
    /\ ending = "cancelled" => j \in stopping
    /\ status' = [status EXCEPT ![j] = ending]
    /\ UNCHANGED <<parent, stopping>>

Endings == {"done", "failed", "cancelled"}

Next == \E j \in Jobs : \/ \E p \in Jobs \cup {0} : Start(j, p)
                        \/ Stop(j)
                        \/ \E ending \in Endings : Settle(j, ending)

Obeys(j) == j \in stopping /\ \E ending \in Endings : Settle(j, ending)

Safety == Init /\ [][Next]_vars

Spec == Safety /\ \A j \in Jobs : WF_vars(Obeys(j))

=============================================================================
