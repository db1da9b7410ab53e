----------------------------- MODULE MCPlatform -----------------------------
(***************************************************************************)
(* The two components under the others that are algorithms of their own:   *)
(* the condition variable of Windows and the atomic operations.            *)
(***************************************************************************)
EXTENDS WinCond, Atomics

CONSTANTS t1, t2, t3   \* the threads of Atomics

VARIABLE component

MCArguments ==
  [name : {"cas"}, comprnd : {0}, exchg : {1}] \cup [name : {"cas"}, comprnd : {1}, exchg : {0}] \cup
  [name : {"fas"}, new_val : {-2}] \cup [name : {"faa"}, addend : {1}] \cup [name : {"read"}]

\* The calls a discipline names are open to the threads it names, the others
\* to nobody.
Discipline(platform, may) ==
  [platform |-> platform,
   may |-> [c \in Calls |-> IF c \in DOMAIN may THEN may[c] ELSE {}]]

MCDisciplines == {
  Discipline("x86", [cas |-> Callers, fas |-> Callers, faa |-> Callers, read |-> Callers]),
  Discipline("win", [cas |-> Callers, fas |-> Callers, read |-> Callers]),
  Discipline("win", [cas |-> {t1}, fas |-> {t1}, faa |-> {t1}, read |-> Callers]),
  Discipline("generic", [cas |-> Callers, read |-> Callers]),
  Discipline("generic", [fas |-> Callers, read |-> Callers]),
  Discipline("generic", [faa |-> Callers, read |-> Callers]),
  Discipline("generic", [cas |-> {t1}, fas |-> {t1}, faa |-> {t1}, read |-> Callers]),
  Discipline("generic", [publish |-> {t1}, collect |-> {t2}])}

\* Uses of the library that are not sound: counters that several threads add
\* to (taskmgr.hpp:644, event.hpp:67 and 98, group.hpp:80-89), and the word of a
\* futex mutex, which is swapped and compared and swapped (mutex.hpp:40-76).
MCLibrary == {
  Discipline("win", [faa |-> Callers]),
  Discipline("generic", [cas |-> Callers, fas |-> Callers])}

-----------------------------------------------------------------------------
\* The component that is not used stays in one of its initial states.
PlatformInit ==
  /\ Init /\ AtomicsInit
  /\ \/ component = "cond" /\ discipline = CHOOSE d \in Disciplines : TRUE
     \/ component = "atomics" /\ signals = FALSE

PlatformNext ==
  \/ component = "cond" /\ Next /\ UNCHANGED <<component, atomicsVars>>
  \/ component = "atomics" /\ AtomicsNext /\ UNCHANGED <<component, vars>>

PlatformSpec ==
  /\ PlatformInit /\ [][PlatformNext]_<<component, vars, atomicsVars>>
  /\ Fairness
=============================================================================
