--------------------------- MODULE DerivedColumn ---------------------------
(***************************************************************************)
(* What the board actions promise for one row: its derived column only     *)
(* ever takes a value computed from a single snapshot of the row, taken by *)
(* a job that has not ended.  A job takes one snapshot and may put its     *)
(* value several times (a retried mutation); nothing keeps a job from      *)
(* putting the value of a snapshot that is out of date.                    *)
(***************************************************************************)
CONSTANTS Jobs,     \* each takes at most one snapshot
          Sources,  \* the contents a row may have
          Derived,  \* the value that stands for each content
          NoValue   \* the column before the first put

VARIABLES src,      \* what the row holds
          col,      \* the derived column
          job       \* the snapshot each job holds

dcVars == <<src, col, job>>

DCInit == /\ src \in Sources
          /\ col = NoValue
          /\ job = [j \in Jobs |-> [st |-> "idle", snap |-> NoValue]]

SetJob(j, st, s) == job' = [job EXCEPT ![j] = [st |-> st, snap |-> s]]

Change == src' \in Sources /\ UNCHANGED <<col, job>>

Take(j) == /\ job[j].st = "idle"
           /\ SetJob(j, "holding", src)
           /\ UNCHANGED <<src, col>>

Put(j) == /\ job[j].st = "holding"
          /\ col' = Derived[job[j].snap]
          /\ UNCHANGED job \/ SetJob(j, "ended", NoValue)
          /\ UNCHANGED src

End(j) == /\ job[j].st # "ended"
          /\ SetJob(j, "ended", NoValue)
          /\ UNCHANGED <<src, col>>

DCNext == Change \/ \E j \in Jobs : Take(j) \/ Put(j) \/ End(j)

DCSpec == DCInit /\ [][DCNext]_dcVars
=============================================================================
