---------------------------- MODULE MCInterfaces ----------------------------
(***************************************************************************)
(* A program uses one of the two interfaces.                               *)
(***************************************************************************)
EXTENDS CInterface, MatMult

VARIABLE language

\* The interface that is not used stays in one of its initial states.
InterfacesInit ==
  /\ Init /\ MatMultInit
  /\ \/ language = "C" /\ size = CHOOSE s \in Sizes : TRUE
     \/ /\ language = "C++"
        /\ method = "wait_all"
        /\ abi = CHOOSE a \in ABIs : TRUE
        /\ format = CHOOSE f \in Formats : TRUE

InterfacesNext ==
  \/ language = "C" /\ Next /\ UNCHANGED <<language, matmultVars>>
  \/ language = "C++" /\ MatMultNext /\ UNCHANGED <<language, vars>>

InterfacesSpec == InterfacesInit /\ [][InterfacesNext]_<<language, vars, matmultVars>>

Type(base, stars) == [base |-> base, stars |-> stars]
With(types) == <<Type("int", 0), Type("int", 1)>> \o types

MCNumbers == <<2, 3>>
MCFormats == {
  With(<<>>),
  With(<<Type("char", 1), Type("double", 0), Type("unsigned char", 2)>>),
  With(<<Type("long int", 0), Type("unsigned int", 0), Type("void", 1)>>),
  With(<<Type("float", 0)>>)}

MCSizes == {[dim |-> 2, base |-> 2], [dim |-> 2, base |-> 1], [dim |-> 4, base |-> 2]}

MCABIs == {
  [int |-> 4, long |-> 8, pointer |-> 8, double |-> 8],
  [int |-> 4, long |-> 4, pointer |-> 4, double |-> 8]}
=============================================================================
