------------------------------ MODULE Executor ------------------------------
(* The executor of libavcodec after the commit: an array of queues, one    *)
(* per priority.  Without threads the caller runs the tasks itself; the    *)
(* threads are commented out, with them the tasks only wait here.  So is   *)
(* the call of a task's callback, in whose place the model lets anything   *)
(* happen that `recursive' is there for: it may call ff_executor_execute.  *)
EXTENDS Integers, Sequences, FiniteSets, Lists

CONSTANTS Task, Priorities, Priority

VARIABLES head, tail,   \* of each queue in e->q
          next,         \* of each task
          thread_count, \* of the executor
          recursive,    \* somebody up the stack handles the tasks
          pc,           \* "new", "out", "loop", "run", "past": beyond the array
          task          \* the task that runs

vars == <<head, tail, next, thread_count, recursive, pc, task>>

Ranks == 0..(Priorities - 1)

Init ==
    /\ head = [i \in Ranks |-> NULL] /\ tail = [i \in Ranks |-> NULL]
    /\ next = [t \in Task |-> NULL]
    /\ thread_count = 0
    /\ recursive = FALSE
    /\ pc = "new"
    /\ task = NULL

(* Allocated elsewhere, with or without threads.                           *)
Allocate(n) ==
    /\ pc = "new" /\ pc' = "out"
    /\ thread_count' = n
    /\ UNCHANGED <<head, tail, next, recursive, task>>

TaskList(i) == Chain(next, head[i], Cardinality(Task) + 1)
Queued(t) == \E i \in Ranks : \E k \in DOMAIN TaskList(i) : TaskList(i)[k] = t

add_task(i, t) ==
    /\ next' = IF head[i] = NULL THEN [next EXCEPT ![t] = NULL]
               ELSE [next EXCEPT ![t] = NULL, ![tail[i]] = t]
    /\ head' = IF head[i] = NULL THEN [head EXCEPT ![i] = t] ELSE head
    /\ tail' = [tail EXCEPT ![i] = t]

remove_task(i) ==
    LET t == head[i] IN
    /\ head' = [head EXCEPT ![i] = next[t]]
    /\ next' = [next EXCEPT ![t] = NULL]
    /\ tail' = IF next[t] = NULL THEN [tail EXCEPT ![i] = NULL] ELSE tail

(* A task that is not queued is handed over, by the program or by the      *)
(* callback that runs; with threads, or while a caller up the stack is     *)
(* already at it, that is all.                                             *)
ff_executor_execute(t) ==
    /\ pc \in {"out", "run"}
    /\ ~Queued(t)
    /\ IF t = NULL THEN UNCHANGED <<head, tail, next>> ELSE add_task(Priority[t], t)
    /\ IF thread_count > 0 \/ recursive THEN UNCHANGED <<recursive, pc>>
       ELSE recursive' = TRUE /\ pc' = "loop"
    /\ UNCHANGED <<thread_count, task>>

(* The loop over the queues stops at the first task it finds, and at       *)
(* nothing else: with none left it reads what lies behind the array.       *)
run_one_task ==
    /\ pc = "loop"
    /\ \/ \E i \in Ranks :
            /\ head[i] # NULL
            /\ \A j \in Ranks : j < i => head[j] = NULL
            /\ remove_task(i)
            /\ task' = head[i]
            /\ pc' = "run"
       \/ /\ \A i \in Ranks : head[i] = NULL
          /\ pc' = "past"
          /\ UNCHANGED <<head, tail, next, task>>
    /\ UNCHANGED <<thread_count, recursive>>

(* The callback returns.                                                   *)
Return ==
    /\ pc = "run"
    /\ pc' = "loop" /\ task' = NULL
    /\ UNCHANGED <<head, tail, next, thread_count, recursive>>

Next == (\E n \in {0, 1} : Allocate(n)) \/ (\E t \in Task \cup {NULL} : ff_executor_execute(t)) \/ run_one_task \/ Return

Spec == Init /\ [][Next]_vars

----------------------------------------------------------------------------

RankOf(t) == Priority[t]
Abstract == INSTANCE ExecutorSpec WITH
    waiting <- [i \in Ranks |-> TaskList(i)], running <- task, Nobody <- NULL

(* Tasks run by priority, first come first served within one.              *)
RunsInOrder == Abstract!Spec

(* "we must handle all tasks ourselves" (executor_after.c 107): and then   *)
(* return to the caller.                                                   *)
Returns == pc # "past"
=============================================================================
