------------------------------ MODULE MCGroup ------------------------------
(***************************************************************************)
(* Programs for TLC to run Group on.                                       *)
(***************************************************************************)
EXTENDS Group, TLC

CONSTANTS m1, m2, m3, h1, h2, x1, G, H, default

\* A group of three and a task outside it, which stealing barriers run.
MCGroupOf == m1 :> G @@ m2 :> G @@ m3 :> G @@ x1 :> default
MCSize == G :> 3 @@ default :> 0
MCMaxRounds == m1 :> 2 @@ m2 :> 2 @@ m3 :> 2 @@ x1 :> 1
MCLevel == m1 :> 0 @@ m2 :> 0 @@ m3 :> 0 @@ x1 :> 1

\* With these levels the predicates of fifoS and lifoS accept what that of
\* cilkS accepts.
MCKinds == {<<"fifoS", "spin">>, <<"cilkS", "steal">>, <<"prioS", "steal">>}

\* Two groups of two on two workers.
TwoGroupOf == m1 :> G @@ m2 :> G @@ h1 :> H @@ h2 :> H
TwoSize == G :> 2 @@ H :> 2
TwoMaxRounds == m1 :> 1 @@ m2 :> 1 @@ h1 :> 1 @@ h2 :> 1
TwoKinds == {<<"cilkS", "steal">>}
TwoLevel == m1 :> 0 @@ m2 :> 0 @@ h1 :> 0 @@ h2 :> 0
=============================================================================
