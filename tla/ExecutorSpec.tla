---------------------------- MODULE ExecutorSpec ----------------------------
(* What a slice-thread executor promises: tasks wait in queues, one per    *)
(* rank, and run one at a time, each rank in the order of submission and   *)
(* no rank before a higher one; a task that runs may submit others.        *)
EXTENDS Integers, Sequences

CONSTANTS Task, Ranks, RankOf(_), Nobody

VARIABLES waiting,   \* the tasks of each rank, in order
          running    \* the task whose callback runs, or Nobody

Init == waiting = [i \in Ranks |-> <<>>] /\ running = Nobody

Waits(t) == \E i \in Ranks : \E k \in DOMAIN waiting[i] : waiting[i][k] = t

Submit(t) ==
    /\ ~Waits(t)
    /\ waiting' = [waiting EXCEPT ![RankOf(t)] = Append(@, t)]
    /\ UNCHANGED running

Start(i) ==
    /\ running = Nobody
    /\ waiting[i] # <<>>
    /\ \A j \in Ranks : j < i => waiting[j] = <<>>
    /\ running' = waiting[i][1]
    /\ waiting' = [waiting EXCEPT ![i] = Tail(@)]

Finish == running # Nobody /\ running' = Nobody /\ UNCHANGED waiting

Next == (\E t \in Task : Submit(t)) \/ (\E i \in Ranks : Start(i)) \/ Finish

Spec == Init /\ [][Next]_<<waiting, running>>
=============================================================================
