---------------------------- MODULE BoundedJobs ----------------------------
(***************************************************************************)
(* What the derivative jobs promise, with no leases, workers, objects or    *)
(* providers in sight: a job is tried a bounded number of times, one try    *)
(* after the other; its output is published by the step that ends the job   *)
(* well, and never otherwise; a job that has ended stays as it is.           *)
(***************************************************************************)
EXTENDS Naturals

CONSTANTS Jobs, MaxAttempts

VARIABLES
  job,        \* "none", "open", "running", "published" or "abandoned"
  tries       \* how often each job was tried

jobVars == <<job, tries>>

-----------------------------------------------------------------------------

Init ==
  /\ job = [j \in Jobs |-> "none"]
  /\ tries = [j \in Jobs |-> 0]

Open(opened) ==
  /\ opened # {} /\ \A j \in opened : job[j] = "none"
  /\ job' = [j \in Jobs |-> IF j \in opened THEN "open" ELSE job[j]]
  /\ UNCHANGED tries

(* A try ends without a result; the job may be tried again or is given up.   *)
Miss(j) ==
  /\ job[j] = "running"
  /\ \/ tries[j] < MaxAttempts /\ job' = [job EXCEPT ![j] = "open"]
     \/ job' = [job EXCEPT ![j] = "abandoned"]
  /\ UNCHANGED tries

Publish(j) ==
  /\ job[j] = "running"
  /\ job' = [job EXCEPT ![j] = "published"]
  /\ UNCHANGED tries

(* Whoever looks for work gives up the jobs whose last try was lost, and     *)
(* tries one job that is open or whose try was lost.                         *)
Look(lost, taken) ==
  /\ \A j \in lost : job[j] = "running" /\ tries[j] = MaxAttempts
  /\ \A j \in taken : job[j] \in {"open", "running"} /\ tries[j] < MaxAttempts
  /\ job' = [j \in Jobs |-> CASE j \in lost -> "abandoned"
                               [] j \in taken -> "running"
                               [] OTHER -> job[j]]
  /\ tries' = [j \in Jobs |-> IF j \in taken THEN tries[j] + 1 ELSE tries[j]]

Next ==
  \/ \E opened \in SUBSET Jobs : Open(opened)
  \/ \E j \in Jobs : Miss(j) \/ Publish(j)
  \/ \E lost \in SUBSET Jobs : \E taken \in {{}} \cup {{j} : j \in Jobs} : Look(lost, taken)

Spec == Init /\ [][Next]_jobVars

=============================================================================
