--------------------------- MODULE ExecutorBefore ---------------------------
(* The executor of libavcodec before the commit: one list of tasks; the    *)
(* comparison of priorities is commented out, so a task goes to its end.   *)
(* What a task's callback does is as in Executor.                          *)
EXTENDS Integers, Sequences, FiniteSets, Lists

CONSTANT Task

List == "tasks"   \* the cell e->tasks; a task is the cell of its next

VARIABLES cell,          \* what e->tasks and each task's next point to
          thread_count,
          recursive,     \* somebody up the stack handles the tasks
          pc,            \* "new", "out", "loop" or "run"
          task           \* the task that runs

vars == <<cell, thread_count, recursive, pc, task>>

Init ==
    /\ cell = [c \in Task \cup {List} |-> NULL]
    /\ thread_count = 0
    /\ recursive = FALSE
    /\ pc = "new"
    /\ task = NULL

(* Allocated elsewhere, with or without threads.                           *)
Allocate(n) ==
    /\ pc = "new" /\ pc' = "out"
    /\ thread_count' = n
    /\ UNCHANGED <<cell, recursive, task>>

TaskList == Chain(cell, cell[List], Cardinality(Task) + 1)
Queued(t) == \E k \in DOMAIN TaskList : TaskList[k] = t

(* prev is the first cell from e->tasks on that holds NULL.                *)
LastCell == IF TaskList = <<>> THEN List ELSE TaskList[Len(TaskList)]

add_task(prev, t) == cell' = [cell EXCEPT ![t] = cell[prev], ![prev] = t]
remove_task(prev, t) == cell' = [cell EXCEPT ![prev] = cell[t], ![t] = NULL]

ff_executor_execute(t) ==
    /\ pc \in {"out", "run"}
    /\ ~Queued(t)
    /\ IF t = NULL THEN UNCHANGED cell ELSE add_task(LastCell, t)
    /\ IF thread_count > 0 \/ recursive THEN UNCHANGED <<recursive, pc>>
       ELSE recursive' = TRUE /\ pc' = "loop"
    /\ UNCHANGED <<thread_count, task>>

run_one_task ==
    /\ pc = "loop"
    /\ cell[List] # NULL
    /\ remove_task(List, cell[List])
    /\ task' = cell[List]
    /\ pc' = "run"
    /\ UNCHANGED <<thread_count, recursive>>

(* Mutant: the loop ends after a task.                                    *)
LoopEnds_Early ==
    /\ pc = "loop"
    /\ pc' = "out" /\ recursive' = FALSE
    /\ UNCHANGED <<cell, thread_count, task>>

(* No task is left: the caller of the loop is done.                        *)
LoopEnds ==
    /\ pc = "loop"
    /\ cell[List] = NULL
    /\ pc' = "out" /\ recursive' = FALSE
    /\ UNCHANGED <<cell, thread_count, task>>

(* The callback returns.                                                   *)
Return ==
    /\ pc = "run"
    /\ pc' = "loop" /\ task' = NULL
    /\ UNCHANGED <<cell, thread_count, recursive>>

Next ==
    \/ \E n \in {0, 1} : Allocate(n)
    \/ \E t \in Task \cup {NULL} : ff_executor_execute(t)
    \/ run_one_task \/ LoopEnds \/ Return

Spec == Init /\ [][Next]_vars

(* Callbacks return and the loop goes on.                                  *)
Fairness == WF_vars(run_one_task \/ LoopEnds) /\ WF_vars(Return)
FairSpec == Spec /\ Fairness

----------------------------------------------------------------------------
RankOf(t) == 0
Abstract == INSTANCE ExecutorSpec WITH
    Ranks <- {0}, waiting <- [i \in {0} |-> TaskList], running <- task, Nobody <- NULL

(* Tasks run one at a time in the order of submission, whatever the        *)
(* callbacks submit.                                                       *)
RunsInOrder == Abstract!Spec

(* "we must handle all tasks ourselves" (executor_before.c 100): a task    *)
(* handed to an executor without threads runs, even when every callback    *)
(* submits more, and is not left behind by a caller that returns.          *)
HandledAll ==
    /\ \A t \in Task : thread_count = 0 /\ Queued(t) ~> task = t
    /\ [](thread_count = 0 /\ pc = "out" => TaskList = <<>>)
=============================================================================
