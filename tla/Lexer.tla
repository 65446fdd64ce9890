-------------------------------- MODULE Lexer -------------------------------
(***************************************************************************)
(* The lexer (lexer.c) and the batch splitter (isolateQuery() in main.c),  *)
(* which scan the same text and must agree where strings, comments and     *)
(* statements end.                                                         *)
(*                                                                         *)
(* A text is a sequence of symbols: a word or a number is one symbol,      *)
(* anything else one symbol per character.  Keywords are written in upper  *)
(* case (the code matches them in any case), other words in lower case;    *)
(* inside a string every symbol stands for one character.                  *)
(***************************************************************************)
EXTENDS Integers, Sequences, TLC

Keywords ==
  {"ADD", "ALL", "ALTER", "AND", "ANY", "ASC", "AS", "BACKUP", "BEGIN",
   "BETWEEN", "BY", "CASE", "CHECK", "COLLECT", "COLUMN", "COMMIT",
   "CONSTRAINT", "CREATE", "DATABASE", "DEFAULT", "DELETE", "DESC",
   "DISCARD", "DISTINCT", "DROP", "EXEC", "EXISTS", "FOREIGN", "FROM",
   "FULL", "GROUP", "HAVING", "INDEX", "INNER", "INSERT", "INTO", "IN",
   "IS", "JOIN", "KEY", "LEFT", "LIKE", "LIMIT", "NOT", "NULL", "ON",
   "ORDER", "OR", "OUTER", "PRIMARY", "PROCEDURE", "REPLACE", "RIGHT",
   "ROWNUM", "SELECT", "SET", "TABLE", "TOP", "TRANSACTION", "TRUNCATE",
   "UNION", "UNIQUE", "UPDATE", "VALUES", "VIEW", "WHERE"}

Digits == {"0", "1", "2", "3", "4", "5", "6", "7", "8", "9"}
Blank == {" ", "\t", "\r", "\n"}
Punctuation == {"(", ")", "{", "}", ";", ",", ".", "-", "+", "/", "*"}
\* The symbols a following "=" extends, and the token they make with it.
WithEqual == ("!" :> "!=") @@ ("=" :> "==") @@ ("<" :> "<=") @@ (">" :> ">=")
\* Symbols no token starts with.
Unexpected == {"%", "_", "\\"}

End == "end of text"
At(text, i) == IF i <= Len(text) THEN text[i] ELSE End

\* The first position from i on with a symbol of S, or the end of the text.
Find(text, i, S) ==
  CHOOSE j \in i .. Len(text) + 1 :
    /\ j = Len(text) + 1 \/ text[j] \in S
    /\ \A k \in i .. j - 1 : text[k] \notin S

\* The position after a block comment whose contents start at i.
AfterComment(text, i) ==
  LET closes == {j \in i .. Len(text) : text[j] = "*" /\ At(text, j + 1) = "/"}
  IN  IF closes = {} THEN Len(text) + 1
      ELSE (CHOOSE j \in closes : \A k \in closes : j <= k) + 2

RECURSIVE skipWhitespace(_, _)
skipWhitespace(text, i) ==
  CASE At(text, i) \in Blank -> skipWhitespace(text, i + 1)
    [] At(text, i) = "-" /\ At(text, i + 1) = "-" ->
         skipWhitespace(text, Find(text, i, {"\n"}))
    [] At(text, i) = "/" /\ At(text, i + 1) = "*" ->
         skipWhitespace(text, AfterComment(text, i + 2))
    [] OTHER -> i

identifierType(word) == IF word \in Keywords THEN word ELSE "IDENTIFIER"

\* A token, made of the symbols from i to j - 1, and where the next starts.
Token(type, text, i, j) ==
  [token |-> [type |-> type, lexeme |-> SubSeq(text, i, j - 1)], next |-> j]

number(text, i) ==
  IF At(text, i + 1) = "." /\ At(text, i + 2) \in Digits
  THEN Token("NUMBER", text, i, i + 3)
  ELSE Token("NUMBER", text, i, i + 1)

\* A string ends at the next quote; one that never ends is an error.
string(text, i) ==
  LET close == Find(text, i + 1, {"'"})
  IN  IF close > Len(text) THEN Token("ERROR", text, i, close)
      ELSE Token("STRING", text, i, close + 1)

scanToken(text, from) ==
  LET i == skipWhitespace(text, from)
      c == At(text, i)
  IN  CASE c = End -> Token("EOF", text, i, i)
        [] c \in Digits -> number(text, i)
        [] c = "'" -> string(text, i)
        [] c \in Punctuation -> Token(c, text, i, i + 1)
        [] c \in DOMAIN WithEqual ->
             IF At(text, i + 1) = "=" THEN Token(WithEqual[c], text, i, i + 2)
             ELSE Token(c, text, i, i + 1)
        [] c \in Unexpected -> Token("ERROR", text, i, i + 1)
        [] OTHER -> Token(identifierType(c), text, i, i + 1)

\* The tokens from position i on; an error token is reported and left out.
RECURSIVE tokensFrom(_, _)
tokensFrom(text, i) ==
  LET t == scanToken(text, i)
  IN  CASE t.token.type = "EOF" -> <<t.token>>
        [] t.token.type = "ERROR" -> tokensFrom(text, t.next)
        [] OTHER -> <<t.token>> \o tokensFrom(text, t.next)

lexQuery(text) == tokensFrom(text, 1)

-----------------------------------------------------------------------------
(* The splitter: where the statement starting at i ends.                   *)

\* The position of the semicolon that ends the statement, or the end of the
\* text; inString tells whether position i is inside a string.
RECURSIVE statementEnd(_, _, _)
statementEnd(text, i, inString) ==
  LET c == At(text, i)
      d == At(text, i + 1)
  IN  CASE c = End -> i
        [] c = "'" -> statementEnd(text, i + 1, ~inString)
        [] c = "\\" -> statementEnd(text, IF d = "'" THEN i + 2 ELSE i + 1,
                                    inString)
        [] c = "-" /\ d = "-" /\ ~inString ->
             statementEnd(text, Find(text, i + 2, {"\n"}), inString)
        [] c = "/" /\ d = "*" /\ ~inString ->
             statementEnd(text, AfterComment(text, i + 2), inString)
        [] c = ";" /\ ~inString -> i
        [] OTHER -> statementEnd(text, i + 1, inString)

\* The statement at the start of the text, and what follows it.
isolateQuery(text) ==
  LET e == statementEnd(text, 1, FALSE)
      solid == {j \in e + 1 .. Len(text) : text[j] \notin Blank}
  IN  [query |-> IF e > Len(text) THEN text ELSE SubSeq(text, 1, e),
       rest  |-> IF solid = {} THEN <<>>
                 ELSE SubSeq(text, CHOOSE j \in solid :
                                     \A k \in solid : j <= k, Len(text))]
=============================================================================
