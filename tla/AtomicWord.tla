----------------------------- MODULE AtomicWord -----------------------------
(***************************************************************************)
(* What src/pfunc/pfunc_atomics.h promises of the operations on one word:  *)
(* each takes effect in one step between its call and its return, and its  *)
(* result is what the code in the header's comments returns at that step.  *)
(* Words are signed and wrap around.                                       *)
(***************************************************************************)
EXTENDS Integers

CONSTANTS
  Threads,
  Bits         \* the width of the word

VARIABLES
  word,
  call         \* the operation each thread executes, or its result

vars == <<word, call>>

Half == 2 ^ (Bits - 1)

Values == -Half .. Half - 1

Wrap(n) == ((n + Half) % (2 * Half)) - Half

Operations ==
  [name : {"cas"}, comprnd : Values, exchg : Values] \cup [name : {"fas"}, new_val : Values] \cup
  [name : {"faa"}, addend : Values] \cup [name : {"read"}]

\* The word after an operation that finds it at w.
After(op, w) ==
  CASE op.name = "cas" -> IF w = op.comprnd THEN op.exchg ELSE w
    [] op.name = "fas" -> op.new_val
    [] op.name = "faa" -> Wrap(w + op.addend)
    [] op.name = "read" -> w

\* A compare-and-swap returns exchg or, if it fails, the word; the others
\* return what they found.
Result(op, w) == IF op.name = "cas" THEN After(op, w) ELSE w

Out == [at |-> "out"]
Pending(op) == [at |-> "pending", op |-> op]
Done(result) == [at |-> "done", result |-> result]

Init ==
  /\ word = 0
  /\ call = [t \in Threads |-> Out]

Call(t, op) ==
  /\ call[t] = Out
  /\ call' = [call EXCEPT ![t] = Pending(op)]
  /\ UNCHANGED word

Perform(t, op) ==
  /\ call[t] = Pending(op)
  /\ word' = After(op, word)
  /\ call' = [call EXCEPT ![t] = Done(Result(op, word))]

Return(t, result) ==
  /\ call[t] = Done(result)
  /\ call' = [call EXCEPT ![t] = Out]
  /\ UNCHANGED word

Next ==
  \E t \in Threads :
    \/ \E op \in Operations : Call(t, op) \/ Perform(t, op)
    \/ \E result \in Values : Return(t, result)

Spec == Init /\ [][Next]_vars
=============================================================================
