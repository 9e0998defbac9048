-------------------------------- MODULE Lexer ---------------------------------
(***************************************************************************)
(* The token stream the parser gets (lexer/lexer.cpp, lexer/token.cpp,     *)
(* lexer/span.h).  A source is a sequence of lexemes; characters,          *)
(* whitespace and comments are left out.  The type of a keyword or of      *)
(* punctuation is written as its lexeme.                                   *)
(***************************************************************************)
EXTENDS Integers, Sequences, TLC

BasicTypes ==
  {"u0", "u8", "u16", "u32", "u64", "i8", "i16", "i32", "i64", "f64", "bool", "string"}

\* s_keyword_map.
Keywords == BasicTypes \cup
  {"func", "extern", "if", "else", "for", "cast", "while", "read", "sizeof", "return",
   "print", "struct", "enum", "returns", "case", "switch", "break", "default", "mut",
   "continue", "imm", "ptr", "new", "free", "asm", "error", "exit", "true", "false",
   "null", "and", "or"}

\* The single- and two-character tokens of scan_token.
Punctuation ==
  {"(", ")", "{", "}", "[", "]", ",", ".", "#", ";", "+", "*", "/", "%", "&", "|", "^",
   ":", "::", ":=", "=", "==", "!", "!=", "<", "<=", "<<", ">", ">=", ">>", "-", "->"}

\* enum class TokenType.
TokenTypes == Keywords \cup Punctuation \cup
  {"IDENTIFIER", "INT_LITERAL", "FLOAT_LITERAL", "STRING_LITERAL", "CHAR_LITERAL", "UNKNOWN",
   "EOF"}

\* The literals of the sources, with the values of the integers.
IntLiteral ==
  ("0" :> 0) @@ ("1" :> 1) @@ ("2" :> 2) @@ ("3" :> 3) @@ ("4" :> 4) @@ ("5" :> 5)
  @@ ("300" :> 300)
StringLiterals == {"'hi'"}
CharLiterals == {"'c'"}
FloatLiterals == {"1.5"}
Unexpected == {"@"}             \* a character that starts no token

scan_token(x) ==
  CASE x \in Keywords \cup Punctuation -> x
    [] x \in DOMAIN IntLiteral -> "INT_LITERAL"
    [] x \in StringLiterals -> "STRING_LITERAL"
    [] x \in CharLiterals -> "CHAR_LITERAL"
    [] x \in FloatLiterals -> "FLOAT_LITERAL"
    [] x \in Unexpected -> "UNKNOWN"
    [] OTHER -> "IDENTIFIER"

\* A token: type, lexeme, and its span: the id of the file and the place in it.
Token(t, x, file, place) == [t |-> t, x |-> x, s |-> [file |-> file, place |-> place]]

\* What a token is written with.
Text == STRING
Tokens == [t : TokenTypes, x : Text, s : [file : Nat, place : Nat]]

tokenize(lexemes, file) ==
  [i \in 1 .. Len(lexemes) + 1 |->
     IF i <= Len(lexemes) THEN Token(scan_token(lexemes[i]), lexemes[i], file, i)
     ELSE Token("EOF", "", file, i)]

is_basic_type(t) == t \in BasicTypes

\* Span::operator>.
After(a, b) == IF a.file # b.file THEN a.file > b.file ELSE a.place > b.place
===============================================================================
