------------------------------- MODULE MCDriver -------------------------------
(***************************************************************************)
(* A command line of up to two options, or a REPL of up to three lines.    *)
(***************************************************************************)
EXTENDS Driver
===============================================================================
