----------------------------- MODULE MCBlocking -----------------------------
(***************************************************************************)
(* The three places where a thread of the library blocks, each of them an  *)
(* algorithm on a futex of its own: the mutex, the completion event of a   *)
(* task that is not nested, and the start-up barrier.                      *)
(*                                                                         *)
(* Four threads are the smallest number with a holder of the mutex, two    *)
(* sleepers and a thread that overtakes the one woken.                     *)
(***************************************************************************)
EXTENDS FutexMutex, WaitableEvent, StartUp

VARIABLE component

\* One shared queue, a queue each, a mixture, and a queue without threads.
MCShapes == {<<4>>, <<1, 1, 1>>, <<2, 1>>, <<0, 2>>}

-----------------------------------------------------------------------------
\* The components that are not used stay in one of their initial states.
BlockingInit ==
  /\ MutexInit /\ Init /\ StartUpInit
  /\ component \in {"mutex", "event", "startup"}
  /\ component # "event" => impl = CHOOSE i \in Builds : TRUE
  /\ component # "startup" => /\ barrierImpl = CHOOSE i \in Barriers : TRUE
                              /\ thds = CHOOSE shape \in Shapes : TRUE

BlockingNext ==
  \/ component = "mutex" /\ MutexNext /\ UNCHANGED <<component, vars, startUpVars>>
  \/ component = "event" /\ Next /\ UNCHANGED <<component, mutexVars, startUpVars>>
  \/ component = "startup" /\ StartUpNext /\ UNCHANGED <<component, mutexVars, vars>>

BlockingSpec ==
  /\ BlockingInit /\ [][BlockingNext]_<<component, mutexVars, vars, startUpVars>>
  /\ MutexFairness /\ Fairness
  /\ component = "startup" => StartUpFairness
=============================================================================
