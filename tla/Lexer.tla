------------------------------- MODULE Lexer -------------------------------
(***************************************************************************)
(* src/src/sql/lexer.cpp: text to tokens.  A text is a sequence of         *)
(* characters; a word or a number that is only met as a whole is one       *)
(* character of its class here.  Upper and lower case are the same.        *)
(***************************************************************************)
EXTENDS Integers, Sequences, SequencesExt, FiniteSetsExt

CONSTANTS Letters,  \* characters an identifier may start with
          Digits,
          Spaces    \* blanks and the end of a line

Keywords == {"CREATE", "INDEX", "ON", "DATABASE", "USE", "TABLE", "INT", "DOUBLE", "VARCHAR",
             "PRIMARY", "KEY", "UNIQUE", "IS", "NOT", "NULL", "INSERT", "INTO", "VALUES",
             "SELECT", "EXPLAIN", "DELETE", "UPDATE", "SET", "FROM", "WHERE", "AND", "OR"}

Symbols == {"(", ")", ",", ";", ".", "=", "<", ">", "+", "-", "*", "/"}

ASSUME CharacterAssumption == Keywords \subseteq Letters

\* Operators of two characters and their types.
Pairs == {<<"!", "=">>, <<"<", "=">>, <<"<", ">">>, <<">", "=">>}
PairType(pair) == CASE pair = <<"<", "=">> -> "<="
                    [] pair = <<">", "=">> -> ">="
                    [] OTHER               -> "!="

\* peek: the character at position i, or the null character behind the text.
Peek(text, i) == IF i <= Len(text) THEN text[i] ELSE "nul"

\* The first position from i on whose character is not in S.
RunEnd(text, i, S) ==
    LET end[j \in i .. Len(text) + 1] == IF Peek(text, j) \in S THEN end[j + 1] ELSE j
    IN  end[i]

\* Fault: a doubled quote ends the string.
StringEndAtQuote(text, i) ==
    LET end == RunEnd(text, i, ToSet(text) \ {"'"})
    IN  IF end > Len(text) THEN [at |-> end, closed |-> FALSE]
        ELSE [at |-> end + 1, closed |-> TRUE]

\* scan_string: where the string ends whose characters start at i, and whether
\* its closing quote is there.
StringEnd(text, i) ==
    LET end[j \in i .. Len(text) + 1] ==
          IF j > Len(text) THEN [at |-> j, closed |-> FALSE]
          ELSE IF text[j] # "'" THEN end[j + 1]
          ELSE IF Peek(text, j + 1) = "'" THEN end[j + 2]
          ELSE [at |-> j + 1, closed |-> TRUE]
    IN  end[i]

\* scan_number: a point belongs to a number only between digits.
NumberToken(text, i) ==
    LET whole == RunEnd(text, i, Digits)
    IN  IF Peek(text, whole) = "." /\ Peek(text, whole + 1) \in Digits
        THEN [type |-> "float", end |-> RunEnd(text, whole + 1, Digits)]
        ELSE [type |-> "integer", end |-> whole]

WordToken(text, i) ==
    LET end == RunEnd(text, i, Letters \cup Digits)
    IN  [type |-> IF end = i + 1 /\ text[i] \in Keywords THEN text[i] ELSE "identifier",
         end  |-> end]

\* scan_token at position i: the type of the token and the position behind it.
TokenAt(text, i) ==
    LET char   == text[i]
        pair   == <<char, Peek(text, i + 1)>>
        string == StringEnd(text, i + 1)
    IN  CASE char \in Letters -> WordToken(text, i)
          [] char \in Digits  -> NumberToken(text, i)
          [] char = "'"       -> [type |-> IF string.closed THEN "string" ELSE "invalid",
                                  end  |-> string.at]
          [] pair \in Pairs   -> [type |-> PairType(pair), end |-> i + 2]
          [] OTHER            -> [type |-> IF char \in Symbols /\ pair \notin Pairs
                                           THEN char ELSE "invalid",
                                  end  |-> i + 1]

\* tokenize: the tokens of a text, and the end of input as the last of them.
Tokenize(text) ==
    LET from[i \in 1 .. Len(text) + 1] ==
          IF i > Len(text) THEN <<[type |-> "end", at |-> i, lexeme |-> <<>>]>>
          ELSE IF text[i] \in Spaces THEN from[i + 1]
          ELSE LET token == TokenAt(text, i)
               IN  <<[type |-> token.type, at |-> i, lexeme |-> SubSeq(text, i, token.end - 1)]>>
                     \o from[token.end]
    IN  from[1]
----------------------------------------------------------------------------
\* The words of the language, told without a scanner.
Quotes(s) == Cardinality({j \in DOMAIN s : s[j] = "'"})

IsString(s) ==
    /\ Len(s) > 1 /\ s[1] = "'" /\ Last(s) = "'"
    /\ Quotes(s) % 2 = 0
    /\ \A j \in 2 .. Len(s) : s[j] # "'" => Quotes(SubSeq(s, 1, j)) % 2 = 1

IsWord(s) ==
    \/ s[1] \in Letters /\ ToSet(s) \subseteq Letters \cup Digits
    \/ ToSet(s) \subseteq Digits
    \/ \E j \in 2 .. Len(s) - 1 : s[j] = "." /\ ToSet(RemoveAt(s, j)) \subseteq Digits
    \/ IsString(s)
    \/ Len(s) = 1 /\ s[1] \in Symbols
    \/ s \in Pairs

\* The text is its tokens and spaces between them, in order; each token is the
\* longest word that stands there, or a character that starts none, or an open
\* string, which reaches to the end.
LongestWords(text) ==
    \E tokens \in {Tokenize(text)} :
       /\ \A i \in DOMAIN tokens \ {1} :
             ToSet(SubSeq(text, tokens[i-1].at + Len(tokens[i-1].lexeme), tokens[i].at - 1))
                \subseteq Spaces
       /\ \A t \in ToSet(Front(tokens)) :
             \E rest \in {SubSeq(text, t.at, Len(text))} :
                LET longer == {n \in Len(t.lexeme) + 1 .. Len(rest) : IsWord(SubSeq(rest, 1, n))}
                IN  IF t.type # "invalid" THEN IsWord(t.lexeme) /\ longer = {}
                    ELSE IF t.lexeme[1] = "'" THEN t.lexeme = rest /\ Quotes(rest) % 2 = 1
                    ELSE Len(t.lexeme) = 1 /\ ~IsWord(t.lexeme) /\ longer = {}
=============================================================================
