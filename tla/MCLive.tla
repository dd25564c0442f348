------------------------------- MODULE MCLive -------------------------------
(* Parts of the archive that have nothing to do with each other, for TLC   *)
(* in one run with fairness: the first step of a behaviour picks a part,   *)
(* and only it takes steps from then on.                                   *)
EXTENDS Runway, CellQueue, PppoeTags

CONSTANTS s1, s2, s3, t1, t2, t3

VARIABLES
    active,                                              \* the part that runs
    pppoe_sid, mtx, bucket, Session_ID, pkt_sid,         \* sid
    sidState, pads, sidPc, sp, val,
    head, tail, exNext, threads, handling, exPc, task,     \* executor
    cell, oldThreads, oldHandling, oldPc, oldTask,       \* executor before
    home, stale, dead, swBlock, swI, swM, swRet,         \* swapoff
    oldHome, oldStale, oldDead, oldBlock, oldI, oldM, oldRet   \* swapoff before

sidVars == <<pppoe_sid, mtx, bucket, Session_ID, pkt_sid, sidState, pads, sidPc, sp, val>>
executorVars == <<head, tail, exNext, threads, handling, exPc, task>>
beforeVars == <<cell, oldThreads, oldHandling, oldPc, oldTask>>
swapoffVars == <<home, stale, dead, swBlock, swI, swM, swRet>>
oldswapVars == <<oldHome, oldStale, oldDead, oldBlock, oldI, oldM, oldRet>>

(* Two readers, three sessions, fewer than the ids, in colliding buckets.  *)
Ids == INSTANCE PppoeSid WITH
    Reader <- {"r1", "r2"}, Sess <- {s1, s2, s3}, Bucket <- {0, 1},
    SessHash <- [v \in 0..4 |-> v % 2], MaxSid <- 4, Overlap <- FALSE,
    state <- sidState, pc <- sidPc

(* Two tasks of the same priority and one of a lower one.                  *)
Executor == INSTANCE Executor WITH
    Task <- {t1, t2, t3}, Priorities <- 2,
    next <- exNext,
    Priority <- [t \in {t1, t2, t3} |-> IF t = t3 THEN 1 ELSE 0],
    thread_count <- threads, recursive <- handling, pc <- exPc

OldExecutor == INSTANCE ExecutorBefore WITH
    Task <- {t1, t2, t3}, thread_count <- oldThreads, recursive <- oldHandling,
    pc <- oldPc, task <- oldTask

(* Two pages, two places in this object and two in another                 *)
Swap == INSTANCE SwapOff WITH
    Page <- {"g", "h"}, Index <- {0, 1},
    p <- swBlock, i <- swI, m <- swM, ret <- swRet

OldSwap == INSTANCE SwapOff WITH
    Page <- {"g", "h"}, Index <- {0, 1},
    home <- oldHome, stale <- oldStale, dead <- oldDead, p <- oldBlock, i <- oldI, m <- oldM, ret <- oldRet

Parts == {"sid", "runway", "queue", "tags", "executor", "before", "swapoff", "oldswap"}

LiveInit ==
    /\ active = "none"
    /\ ClockInit /\ QueueInit /\ TagsInit
    /\ Ids!Init /\ Executor!Init /\ OldExecutor!Init /\ Swap!Init /\ OldSwap!Init

Still(p) ==
    CASE p = "sid" -> UNCHANGED sidVars
      [] p = "runway" -> UNCHANGED clockVars
      [] p = "queue" -> UNCHANGED queueVars
      [] p = "tags" -> UNCHANGED tagsVars
      [] p = "executor" -> UNCHANGED executorVars
      [] p = "before" -> UNCHANGED beforeVars
      [] p = "swapoff" -> UNCHANGED swapoffVars
      [] p = "oldswap" -> UNCHANGED oldswapVars

Pick ==
    /\ active = "none" /\ active' \in Parts
    /\ \A p \in Parts : Still(p)

Runs(p) == active = p /\ UNCHANGED active /\ \A q \in Parts \ {p} : Still(q)

LiveNext ==
    \/ Pick
    \/ Runs("sid") /\ Ids!Next
    \/ Runs("runway") /\ ClockNext
    \/ Runs("queue") /\ QueueNext
    \/ Runs("tags") /\ TagsNext
    \/ Runs("executor") /\ Executor!Next
    \/ Runs("before") /\ OldExecutor!Next
    \/ Runs("swapoff") /\ Swap!Next
    \/ Runs("oldswap") /\ OldSwap!NextBefore

liveVars == <<active, sidVars, clockVars, queueVars, tagsVars, executorVars, beforeVars,
              swapoffVars, oldswapVars>>

(* What the programs promise to go on with: see the modules.               *)
Fairness ==
    /\ \A r \in {"r1", "r2"} : WF_sidVars(active = "sid" /\ Ids!Answer(r))
    /\ WF_clockVars(active = "runway" /\ TimedTick)
    /\ WF_tagsVars(active = "tags" /\ TagsWork)
    /\ WF_beforeVars(active = "before" /\ (OldExecutor!run_one_task \/ OldExecutor!LoopEnds))
    /\ WF_beforeVars(active = "before" /\ OldExecutor!Return)
    /\ WF_swapoffVars(active = "swapoff" /\ Swap!Iteration)
    /\ WF_oldswapVars(active = "oldswap" /\ OldSwap!IterationBefore)

LiveSpec == LiveInit /\ [][LiveNext]_liveVars /\ Fairness

----------------------------------------------------------------------------
(* The properties of the parts, each stated and explained in its module.   *)
(* While another part runs, or none does, a part is as it began.           *)
In(p, invariant) == active = p => invariant

(* A PADR is answered, with ids from the shared counter (PppoeSid).        *)
PadrAnswered == Ids!PadrAnswered

(* Tasks run in order, before and after the commit, and before it all of   *)
(* them run (Executor, ExecutorBefore).                                    *)
ExecutorsRun ==
    /\ Executor!RunsInOrder
    /\ OldExecutor!RunsInOrder
    /\ OldExecutor!HandledAll

(* The caller of the executor after the commit comes back.                 *)
ExecutorReturns == Executor!Returns

(* The scan for a swap block's pages ends when the object dies, whichever  *)
(* pages it is led to (SwapOff).                                           *)
PagesScanned == Swap!StopsWhenDead /\ OldSwap!StopsWhenDead
=============================================================================
