-------------------------------- MODULE Pack --------------------------------
(***************************************************************************)
(* pfunc_pack() and pfunc_unpack() of src/lib/pfunc_pack.cpp: the          *)
(* arguments of a C function, copied one after the other, unaligned, into  *)
(* a buffer whose size is computed from the format.                        *)
(*                                                                         *)
(* A type of a format is its first word or words and its stars, an ABI the *)
(* number of bytes of each kind of value, and a byte of an argument the    *)
(* argument and the byte's place in it.                                    *)
(***************************************************************************)
EXTENDS Naturals, Sequences, SequencesExt

Bases == {"int", "unsigned int", "long int", "char", "unsigned char", "float", "double", "void"}

\* The numbers of stars a base may have.  char and float would be promoted
\* by the ellipsis and are passed by pointer only.
Stars(base) ==
  CASE base \in {"int", "unsigned int", "long int", "double"} -> 0 .. 2
    [] base \in {"char", "unsigned char", "float"}            -> 1 .. 2
    [] base = "void"                                          -> {1}

Valid(format) == \A i \in DOMAIN format : format[i].stars \in Stars(format[i].base)

\* The bytes that extract_tokens() counts for a type, and that pfunc_pack() and
\* pfunc_unpack() copy: the three switches agree for every token.
Width(abi, type) ==
  CASE type.stars > 0                                         -> abi.pointer
    [] type.stars = 0 /\ type.base \in {"int", "unsigned int"} -> abi.int
    [] type.stars = 0 /\ type.base = "long int"                -> abi.long
    [] type.stars = 0 /\ type.base = "double"                  -> abi.double

\* Where the i-th argument begins, counted from 0.
Offset(abi, format, i) ==
  LET sum[k \in 0 .. Len(format)] == IF k = 0 THEN 0 ELSE sum[k - 1] + Width(abi, format[k])
  IN  sum[i - 1]

BufferSize(abi, format) == Offset(abi, format, Len(format) + 1)

Bytes(argument, width) == [j \in 1 .. width |-> <<argument, j>>]

\* One argument after the other is copied to the buffer.
Packed(abi, format, arguments) ==
  LET packed[k \in 0 .. Len(format)] ==
        IF k = 0 THEN <<>> ELSE packed[k - 1] \o Bytes(arguments[k], Width(abi, format[k]))
  IN  packed[Len(format)]

\* Fault: a long int is read as an int.
UnpackedLongAsInt(abi, format, buffer) ==
  LET narrow == [abi EXCEPT !.long = abi.int]
  IN  [i \in DOMAIN format |->
         LET begin == Offset(narrow, format, i)
         IN  SubSeq(buffer, begin + 1, begin + Width(narrow, format[i]))]

\* The bytes that are copied into each variable.
Unpacked(abi, format, buffer) ==
  [i \in DOMAIN format |->
     LET begin == Offset(abi, format, i)
     IN  SubSeq(buffer, begin + 1, begin + Width(abi, format[i]))]
=============================================================================
