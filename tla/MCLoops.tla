------------------------------ MODULE MCLoops ------------------------------
EXTENDS Loops

\* An empty space, one that is not split, and one of three and one of four
\* indices that end where size_t does.
MCSpaces ==
  {[begin |-> 2, end |-> 2], [begin |-> 0, end |-> 1],
   [begin |-> 4, end |-> 7], [begin |-> 3, end |-> 7]}

\* Nothing is thrown; the last or the first piece of a space throws.
MCThrowers == {{}, {6}, {3}}

\* A loop of one piece, which throws.
ThrowSpaces == {[begin |-> 3, end |-> 4]}
ThrowThrowers == {{3}}
=============================================================================
