----------------------------- MODULE MCFrontEnd -------------------------------
(***************************************************************************)
(* Programs that use the statements and expressions of the language, and   *)
(* what becomes of each when any one of its tokens is lost or written      *)
(* twice.                                                                  *)
(***************************************************************************)
EXTENDS FrontEnd

\* A function that is declared, called and defined, and calls itself.
Recursion ==
  <<"func", "f", "(", "x", ":", "i64", ")", "returns", "(", "r", ":", "i64", ")", ";",
    "func", "f", "(", "x", ":", "i64", ")", "returns", "(", "r", ":", "i64", ")", "{", "if",
    "(", "x", "<", "1", ")", "{", "return", "0", ";", "}", "r", "=", "x", "+", "f", "(",
    "x", "-", "1", ")", ";", "}", "print", "f", "(", "2", ")", ";">>

\* Structs: layout, literals, copies, immutable and mutable ones.
Records ==
  <<"struct", "S", "{", "a", ":", "u8", ",", "b", ":", "i64", ",", "c", ":", "u16", "}",
    "mut", "s", ":", "S", "=", "S", "{", "b", "=", "3", ",", "a", "=", "300", "}", ";", "t",
    ":=", "s", ";", "s", ".", "c", "=", "5", ";", "print", "t", ".", "a", ",", "s", ".",
    "c", ",", "sizeof", "<", "S", ">", ";">>

\* An enum with payloads, given to a function and matched.
Variants ==
  <<"enum", "E", "{", "A", "=", "2", ",", "B", "{", "v", ":", "i32", ",", "w", ":", "u8",
    "}", "}", "func", "g", "(", "e", ":", "E", ")", "returns", "(", "r", ":", "i64", ")",
    "{", "switch", "(", "e", ")", "{", "case", "E", "::", "A", ":", "{", "r", "=", "1", ";",
    "}", "case", "E", "::", "B", "(", "q", ")", ":", "{", "r", "=", "q", ".", "v", "+", "q",
    ".", "w", ";", "}", "}", "}", "print", "g", "(", "E", "::", "B", "{", "w", "=", "1",
    ",", "v", "=", "3", "}", ")", ";">>

\* Loops in each other with break and continue, and the value of main.
Loops ==
  <<"func", "main", "(", ")", "returns", "(", "r", ":", "i64", ")", "{", "mut", "i", ":=",
    "0", ";", "while", "(", "true", ")", "{", "for", "(", "mut", "j", ":=", "0", ";", "j",
    "<", "3", ";", "j", "=", "j", "+", "1", ")", "{", "if", "(", "j", "==", "1", ")", "{",
    "continue", ";", "}", "print", "j", ";", "}", "i", "=", "i", "+", "1", ";", "if", "(",
    "i", ">", "1", ")", "{", "break", ";", "}", "}", "return", "5", ";", "}">>

\* An array and an object on the heap, through pointers.
Heap ==
  <<"mut", "a", ":=", "new", "<", "mut", "u16", ">", "[", "3", "]", ";", "a", "[", "1", "]",
    "=", "300", ";", "p", ":=", "&", "mut", "a", "[", "1", "]", ";", "*", "p", "=", "*",
    "p", "+", "2", ";", "print", "a", "[", "1", "]", "-", "1", "-", "1", ";", "free", "a",
    ";">>

\* A struct that is used before it is defined, and pointers to pointers.
Links ==
  <<"struct", "N", ";", "struct", "N", "{", "v", ":", "i64", ",", "n", ":", "ptr", "<",
    "mut", "N", ">", "}", "mut", "n", ":=", "N", "{", "v", "=", "2", "}", ";", "m", ":",
    "ptr", "<", "ptr", "<", "mut", "N", ">>", "=", "&", "n", ".", "n", ";", "n", ".", "n",
    "=", "&", "mut", "n", ";", "print", "n", ".", "n", ".", "n", ".", "v", ",", "*", "m",
    "==", "null", ";">>

\* Operators that skip their right operand, and function pointers.
Logic ==
  <<"func", "t", "(", "x", ":", "bool", ")", "returns", "(", "r", ":", "bool", ")", "{",
    "print", "1", ";", "return", "x", ";", "}", "func", "u", "(", "f", ":", "func", "(",
    "bool", ")", "->", "bool", ",", "mut", "y", ":", "u8", ")", "{", "if", "(", "f", "(",
    "false", ")", "or", "!", "t", "(", "true", ")", "and", "t", "(", "true", ")", ")", "{",
    "exit", "y", ";", "}", "else", "if", "(", "y", "==", "0", ")", "{", "exit", ";", "}",
    "else", "{", "error", "'hi'", ",", "4", ";", "}", "}", "u", "(", "t", ",", "'c'", ")",
    ";">>

\* A switch over values, conversions and blocks.
Choice ==
  <<"mut", "x", ":", "u8", ";", "read", "x", ";", "x", "=", "x", "+", "300", ";", "{",
    "mut", "x", ":=", "1", ";", "x", "=", "2", "*", "(", "x", "+", "3", ")", ";", "print",
    "x", ";", "}", "switch", "(", "x", ")", "{", "case", "4", ":", "{", "}", "case", "2",
    ":", "{", "print", "2", ";", "}", "default", ":", "{", "print", "cast", "<", "u8", ">",
    "(", "x", "<<", "3", ")", ";", "}", "}", "asm", "{", "mov", "x", "}", ";">>

Programs == {Recursion, Records, Variants, Loops, Heap, Links, Logic, Choice}

\* Names declared twice, types and variables with one name, uses that are not legal or
\* not supported.
Clashes ==
  {<<"struct", "S", "{", "a", ":", "u8", "}", "struct", "S", "{", "b", ":", "u8", "}",
     "enum", "S", "{", "A", "}", "enum", "E", "{", "A", ",", "A", "}", "E", "::", "A", ";">>,
   <<"enum", "E", "{", "A", "}", "struct", "E", "{", "a", ":", "u8", "}">>,
   <<"x", ":=", "1", ";", "struct", "x", "{", "a", ":", "u8", "}">>,
   <<"x", ":=", "1", ";", "func", "x", "(", ")", "{", "}">>,
   <<"func", "f", "(", ")", ";", "func", "f", "(", "a", ":", "u8", ")", ";", "print", "1",
     ";", "x", ":", "i64", "=", "1", ";", "x", ":", "u8", "=", "2", ";">>,
   <<"x", ":=", "1", ";", "struct", "x", ";">>,
   <<"x", ":", "u8", "=", "1", ";", "print", "x", ".", "a", ";">>,
   <<"enum", "E", "{", "A", "{", "v", ":", "u8", "}", ",", "B", "{", "v", ":", "u8", "}",
     "}", "e", ":=", "E", "::", "A", ";", "switch", "(", "e", ")", "{", "case", "E", "::",
     "A", "(", "q", ")", ":", "{", "}", "case", "E", "::", "B", "(", "q", ")", ":", "{",
     "}", "}">>,
   <<"print", "1.5", ";">>,
   <<"mut", "x", ":", "u8", ";", "(", "x", ")", "=", "1", ";", "print", "&", "(", "x", ")",
     "==", "null", ";">>,
   <<"struct", "T", "{", "a", ":", "T", ";", "b", ":", "u8", "}", "f", ":", "func", "(",
     "u8", ")", "->", "u8", ";", "asm", "{", "{", ";", "@", "print", "1", "@", ";">>,
   <<"break", ";", "return", ";", "print", "y", ";", "y", ":=", "1", ";", "x", ":", "i64",
     "=", "true", ";", "5", "=", "6", ";">>}

Without(p, i) == SubSeq(p, 1, i - 1) \o SubSeq(p, i + 1, Len(p))
Twice(p, i) == SubSeq(p, 1, i) \o SubSeq(p, i, Len(p))
Sources ==
  Programs \cup Clashes
  \cup UNION {{Without(p, i) : i \in 1 .. Len(p)} : p \in Programs}
  \cup UNION {{Twice(p, i) : i \in 1 .. Len(p)} : p \in Programs}
MCInputs == {tokenize(source, 0) : source \in Sources}
===============================================================================
