------------------------------ MODULE ApiUsers ------------------------------
(***************************************************************************)
(* What the storage of API users promises across start-ups, whichever     *)
(* store (config file or user db) holds them: the set of API users is     *)
(* kept, a start-up without errors serves all of them, one with errors    *)
(* serves some of them, and a stopped process is eventually started and   *)
(* serving again.  ApiUserMigration implements this specification.        *)
(***************************************************************************)
CONSTANTS Creds    \* the <<target, username>> pairs that may occur

VARIABLES
    users,   \* every API user the installation holds
    served,  \* the users the running process answers for
    status   \* "stopped", "serving" (start-up without errors), "degraded"

avars == <<users, served, status>>

Init ==
    /\ users \in SUBSET Creds
    /\ served = {}
    /\ status = "stopped"

\* The process starts and serves all users, or reports errors and serves
\* some of them.
Boot ==
    /\ status = "stopped"
    /\ \/ status' = "serving" /\ served' = users
       \/ status' = "degraded" /\ served' \in SUBSET users
    /\ UNCHANGED users

\* The process stops or dies.
Stop ==
    /\ status # "stopped"
    /\ status' = "stopped"
    /\ served' = {}
    /\ UNCHANGED users

Next == Boot \/ Stop

Spec == Init /\ [][Next]_avars /\ WF_avars(Boot)
=============================================================================
