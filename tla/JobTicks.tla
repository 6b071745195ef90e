------------------------------ MODULE JobTicks ------------------------------
(***************************************************************************)
(* JobScheduler over the in-memory store: the background loop and the jobs *)
(* it runs, while the host saves and deletes jobs.                         *)
(*                                                                         *)
(* A tick works through the jobs that were stored when it began, one after *)
(* the other.  A job is [id, due, raises]: whether it is enabled and       *)
(* is_due accepts it, and whether running it raises.                       *)
(***************************************************************************)
EXTENDS Naturals, Sequences, SequencesExt

CONSTANTS
    JobIds,
    MaxLoops,   \* bound: calls of start_background
    MaxChanges  \* bound: saves and deletes

ASSUME JobAssumption == MaxLoops \in Nat /\ MaxChanges \in Nat

Loops == 1 .. MaxLoops

VARIABLES
    jStore,     \* the store: the jobs in the order their ids came
    jLoops,     \* Loops -> [state, todo]: none, asleep, firing (the first of todo), cancelled
    jTask,      \* _task: the loop started last, 0 before
    jChanges    \* saves and deletes so far

jobVars == <<jStore, jLoops, jTask, jChanges>>

JobInit ==
    /\ jStore = <<>> /\ jTask = 0 /\ jChanges = 0
    /\ jLoops = [l \in Loops |-> [state |-> "none", todo |-> <<>>]]

Change == jChanges < MaxChanges /\ jChanges' = jChanges + 1 /\ UNCHANGED <<jLoops, jTask>>

\* add_job, or save_job of a job that is there, which keeps its place.
SaveJob(id) ==
    /\ Change
    /\ \E due \in BOOLEAN, raises \in BOOLEAN :
          LET job == [id |-> id, due |-> due, raises |-> raises] IN
          jStore' = IF \E i \in DOMAIN jStore : jStore[i].id = id
                    THEN [i \in DOMAIN jStore |->
                             IF jStore[i].id = id THEN job ELSE jStore[i]]
                    ELSE Append(jStore, job)

DeleteJob(id) ==
    /\ Change
    /\ \E i \in DOMAIN jStore : jStore[i].id = id
    /\ jStore' = SelectSeq(jStore, LAMBDA job : job.id # id)

\* A second loop takes the place of the first in _task and leaves it running.
StartBackground ==
    /\ jTask < MaxLoops
    /\ jTask' = jTask + 1
    /\ jLoops' = [jLoops EXCEPT ![jTask'].state = "asleep"]
    /\ UNCHANGED <<jStore, jChanges>>

Stop ==
    /\ jTask # 0 /\ jLoops[jTask].state # "cancelled"
    /\ jLoops' = [jLoops EXCEPT ![jTask] = [state |-> "cancelled", todo |-> <<>>]]
    /\ UNCHANGED <<jStore, jTask, jChanges>>

\* The loop goes on with what is left of its list, or sleeps.
GoOn(l, todo) ==
    jLoops' = [jLoops EXCEPT ![l] =
                  [state |-> IF todo = <<>> THEN "asleep" ELSE "firing", todo |-> todo]]

Tick(l) ==
    /\ jLoops[l].state = "asleep"
    /\ GoOn(l, SelectSeq(jStore, LAMBDA job : job.due))
    /\ UNCHANGED <<jStore, jTask, jChanges>>

\* Mutant: an exception ends the loop.
JobOverFatal(l) ==
    /\ jLoops[l].state = "firing"
    /\ IF Head(jLoops[l].todo).raises
       THEN jLoops' = [jLoops EXCEPT ![l] = [state |-> "dead", todo |-> <<>>]]
       ELSE GoOn(l, Tail(jLoops[l].todo))
    /\ UNCHANGED <<jStore, jTask, jChanges>>

\* The job's run is over.  An exception ends the tick; the loop logs it and sleeps.
JobOver(l) ==
    /\ jLoops[l].state = "firing"
    /\ GoOn(l, IF Head(jLoops[l].todo).raises THEN <<>> ELSE Tail(jLoops[l].todo))
    /\ UNCHANGED <<jStore, jTask, jChanges>>

JobNext ==
    \/ \E id \in JobIds : SaveJob(id) \/ DeleteJob(id)
    \/ StartBackground \/ Stop
    \/ \E l \in Loops : Tick(l) \/ JobOver(l)

\* The interval passes, and a job's run comes to an end.
JobFairness == \A l \in Loops : WF_jobVars(Tick(l)) /\ WF_jobVars(JobOver(l))

-----------------------------------------------------------------------------
Firing(id) ==
    \E l \in Loops : jLoops[l].state = "firing" /\ Head(jLoops[l].todo).id = id

\* The job is due, the loop runs, and no job stored before it raises.
InTurn(id) ==
    /\ jTask # 0 /\ jLoops[jTask].state # "cancelled"
    /\ \E i \in DOMAIN jStore :
          /\ jStore[i].id = id /\ jStore[i].due
          /\ \A k \in 1 .. i - 1 : ~(jStore[k].due /\ jStore[k].raises)

(***************************************************************************)
(* A job that stays due is fired, again and again, as long as the loop is  *)
(* not stopped and no due job stored before it raises: neither jobs that   *)
(* come and go nor another job's failure stop the loop.  (One that raises  *)
(* at every tick does keep the later ones from running.)                   *)
(* (jobs/scheduler.py:93-114)                                              *)
(***************************************************************************)
DueJobsFire == \A id \in JobIds : InTurn(id) ~> (Firing(id) \/ ~InTurn(id))

JobSpec == JobInit /\ [][JobNext]_jobVars /\ JobFairness
=============================================================================
