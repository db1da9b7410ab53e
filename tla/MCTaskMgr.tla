----------------------------- MODULE MCTaskMgr -----------------------------
(***************************************************************************)
(* Programs for TLC to run TaskMgr on.                                     *)
(***************************************************************************)
EXTENDS TaskMgr, TLC

CONSTANTS w1, w2, t1, t2, t3, t4

With(level, priority, q, isNested) ==
  {[level |-> level, priority |-> priority, queue |-> q, nested |-> isNested]}

(***************************************************************************)
(* Two workers with a queue each.  The main program spawns t1 and t4, t1   *)
(* spawns t2 and t2 spawns t3, twice if it likes: the smallest program     *)
(* with two roots, a stack of three tasks and a handle used again.  Levels *)
(* and priorities are the depths.                                          *)
(***************************************************************************)
MCQueueOf == w1 :> 0 @@ w2 :> 1
MCParent == t1 :> Main @@ t2 :> t1 @@ t3 :> t2 @@ t4 :> Main
MCMaxSpawns == t1 :> 1 @@ t2 :> 1 @@ t3 :> 2 @@ t4 :> 1
MCAttrs == t1 :> With(0, 0, CurrentQueue, TRUE)
           @@ t2 :> With(1, 1, CurrentQueue, TRUE)
           @@ t3 :> (With(2, 2, CurrentQueue, TRUE) \cup With(2, 2, 0, FALSE))
           @@ t4 :> With(0, 0, 1, FALSE)
=============================================================================
