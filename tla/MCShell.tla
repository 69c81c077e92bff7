------------------------------ MODULE MCShell ------------------------------
(* Words are typed with a blank before them, all else without.  What leaves *)
(* no choice is typed at once.                                              *)
EXTENDS Shell

MCLetters == Keywords \cup {"a", "b", "quit", "help"}
MCDigits == {"0", "1", "huge"}
MCSpaces == {" ", "newline"}
MCWeight(c) ==
    CASE c \in {"'", ";"} -> 1
      [] c \in {"*", "DELETE", "UPDATE", "newline", ",", "-", "b", "0", "NOT", "AND", "OR", "(",
                "PRIMARY", "UNIQUE"} -> 2
      [] c \in {".", "IS", "DOUBLE", "<", ">", "!", "EXPLAIN", "huge"} -> 6
      [] OTHER -> 0
Words(ws) == FlattenSeq([i \in DOMAIN ws |-> <<" ", ws[i]>>])
MCPieces ==
    {Words(ws) : ws \in {<<"CREATE", "DATABASE", "a">>, <<"CREATE", "TABLE", "a">>, <<"USE", "a">>,
                         <<"CREATE", "INDEX", "a", "ON", "a">>, <<"a">>, <<"INT">>, <<"DOUBLE">>,
                         <<"VARCHAR">>, <<"PRIMARY", "KEY">>, <<"UNIQUE">>, <<"NOT">>, <<"NULL">>,
                         <<"INSERT", "INTO", "a", "VALUES">>, <<"EXPLAIN">>, <<"SELECT">>,
                         <<"FROM", "a">>, <<"DELETE">>, <<"UPDATE", "a", "SET", "a">>,
                         <<"WHERE">>, <<"IS">>, <<"AND">>, <<"OR">>}}
    \cup {<<c>> : c \in {"(", ")", ",", ";", ".", "=", "<", ">", "!", "-", "*", "'", "b", "0", "1",
                         "huge"}}
    \cup {Quit, <<".", "help">>}
DoubledQuote == <<"'", "'", "'">>   \* and with it the end of the string
MCSlips == {<<";">>, DoubledQuote, Quit}
MCQuoted == {<<";">>, <<"b">>, <<"'">>, DoubledQuote}
=============================================================================
