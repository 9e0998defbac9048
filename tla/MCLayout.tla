------------------------------- MODULE MCLayout -------------------------------
(***************************************************************************)
(* A struct with a field of a struct that is declared before it and        *)
(* defined after it.                                                       *)
(***************************************************************************)
EXTENDS FrontEnd

DefinedLater ==
  <<"struct", "B", ";", "struct", "A", "{", "b", ":", "B", ",", "c", ":", "u8", "}",
    "struct", "B", "{", "x", ":", "i64", ",", "y", ":", "i64", "}">>

MCInputs == {tokenize(DefinedLater, 0)}
===============================================================================
