------------------------------- MODULE Shell -------------------------------
(***************************************************************************)
(* src/src/cli/shell.cpp: run() reads lines and hands the text of a        *)
(* statement to lexer, parser and executor when it is complete.  What a    *)
(* client types comes in pieces, a word or a character each; the bounds    *)
(* keep to beginnings of statements, with a slip at the end.               *)
(***************************************************************************)
EXTENDS Parser

CONSTANTS NewLine,
          Pieces,    \* what is typed at a time: sequences of characters
          Slips,     \* bound: pieces that are also typed where they cannot stand
          Quoted,    \* bound: pieces that are typed inside a string
          Weight(_), \* bound: what a character weighs,
          MaxWeight  \* and the characters of a statement at most

VARIABLES line,     \* the line that is being typed
          pending,  \* Shell::run's pending_sql
          answer,   \* what the line before was taken for, with its statement
          running   \* the loop over the lines goes on

vars == <<line, pending, answer, running>>

ASSUME ShellAssumption == NewLine \in Spaces /\ MaxWeight \in Nat

Quit == <<".", "quit">>
Nothing == [kind |-> "nothing", text |-> <<>>]

\* Fault: a semicolon at the end is taken for the end, inside a string, too.
CompleteAtSemicolon(text) == text # <<>> /\ Last(text) = ";"

\* statement_complete
StatementComplete(text) ==
    \E tokens \in {Tokenize(text)} :
       Len(tokens) > 1 /\ tokens[Len(tokens) - 1].type = ";"

Bounded(text) ==
    LET sum[n \in 0 .. Len(text)] == IF n = 0 THEN 0 ELSE sum[n - 1] + Weight(text[n])
    IN  sum[Len(text)] <= MaxWeight

\* Bound: a text that some statement begins with, when its last token is closed.
Closing(text) == CASE Quotes(text) % 2 = 1 -> <<"'">>
                   [] Quotes(text) % 2 = 0 /\ Last(text) = "!" -> <<"=">>
                   [] Quotes(text) % 2 = 0 /\ Last(text) = "." -> <<"1">>
                   [] OTHER -> <<>>
Sensible(text) ==
    text = <<>> \/ \E tokens \in {Tokenize(text \o Closing(text))} :
                      Parsed(tokens).error \in {0, Len(tokens)}

\* Bound: the pieces that are typed behind a text.
Continuations(text) ==
    IF ~Sensible(text) THEN {}
    ELSE {piece \in IF Quotes(text) % 2 = 1 THEN Quoted ELSE Pieces :
            /\ Bounded(text \o piece)
            /\ text # <<>> /\ Last(text) \in Letters \cup Digits => piece[1] \notin Digits
            /\ piece \in Slips \/ Sensible(text \o piece)}

\* pending_sql with another line.
WithLine(text, l) == IF text = <<>> THEN l ELSE text \o <<NewLine>> \o l
----------------------------------------------------------------------------
Init == line = <<>> /\ pending = <<>> /\ answer = Nothing /\ running = TRUE

Type(piece) ==
    /\ running
    /\ line' = line \o piece
    /\ answer' = Nothing
    /\ UNCHANGED <<pending, running>>

\* .quit, .exit or another command, which only the first line of a statement
\* can be.
Command ==
    /\ running
    /\ pending = <<>>
    /\ line # <<>> /\ line[1] = "."
    /\ running' = (line # Quit)
    /\ answer' = [kind |-> "command", text |-> line]
    /\ line' = <<>>
    /\ UNCHANGED pending

\* An empty line before a statement changes nothing; every other line belongs
\* to the statement, which is executed when it is complete.
EndLine ==
    /\ running
    /\ line # <<>> \/ pending # <<>>
    /\ pending = <<>> => line[1] # "."
    /\ Bounded(WithLine(pending, line))
    /\ LET text == WithLine(pending, line)
       IN  IF StatementComplete(text)
           THEN pending' = <<>> /\ answer' = [kind |-> "statement", text |-> text]
           ELSE pending' = text /\ answer' = Nothing
    /\ line' = <<>>
    /\ UNCHANGED running

\* The input ends behind a line; what is there of a statement is executed.
EndInput ==
    /\ running
    /\ line = <<>>
    /\ running' = FALSE
    /\ answer' = IF pending = <<>> THEN Nothing ELSE [kind |-> "statement", text |-> pending]
    /\ pending' = <<>>
    /\ UNCHANGED line

Next == \/ \E piece \in Continuations(WithLine(pending, line)) : Type(piece)
        \/ Command
        \/ EndLine
        \/ EndInput

Spec == Init /\ [][Next]_vars
----------------------------------------------------------------------------
\* A client's text ends a statement when its last character is a semicolon and
\* no string is open: the quotes pair up.
Ended(text) ==
    /\ Quotes(text) % 2 = 0
    /\ \E i \in DOMAIN text : /\ text[i] = ";"
                              /\ ToSet(SubSeq(text, i + 1, Len(text))) \subseteq Spaces

\* A statement is executed with the line that ends it, not before and not
\* later, however its lines and strings are cut.
StatementsWhole == /\ ~Ended(pending)
                   /\ answer.kind = "statement" /\ running => Ended(answer.text)

\* The lexer cuts what has been typed into the longest words, whatever follows.
WordsLongest == LongestWords(WithLine(pending, line))

\* What the parser made of the executed statement, if it accepted it.
Statements == IF answer.kind # "statement" THEN {}
              ELSE {p \in {Parsed(Tokenize(answer.text))} : p.error = 0}

Types(p, from, to) == {p.tokens[k].type : k \in from .. to}
Positions(p, type, from, to) == {k \in from .. to : p.tokens[k].type = type}

\* Whether the condition from .. to is true when the comparisons at the
\* positions in T are: OR splits it first, then AND, outside of parentheses.
RECURSIVE Means(_, _, _, _)
Means(p, from, to, T) ==
    LET Outer(type) == {k \in Positions(p, type, from, to) :
                           Cardinality(Positions(p, "(", from, k))
                             = Cardinality(Positions(p, ")", from, k))}
    IN  CASE Outer("OR") # {} ->
               \E k \in Outer("OR") : Means(p, from, k - 1, T) \/ Means(p, k + 1, to, T)
          [] Outer("OR") = {} /\ Outer("AND") # {} ->
               \A k \in Outer("AND") : Means(p, from, k - 1, T) /\ Means(p, k + 1, to, T)
          [] OTHER -> IF p.tokens[from].type = "(" THEN Means(p, from + 1, to - 1, T)
                      ELSE from \in T

\* Whether the parser's condition is true.
RECURSIVE Holds(_, _)
Holds(expr, T) == CASE expr[1] = "comparison" -> expr[2] \in T
                    [] expr[1] = "AND"        -> Holds(expr[2], T) /\ Holds(expr[3], T)
                    [] expr[1] = "OR"         -> Holds(expr[2], T) \/ Holds(expr[3], T)

\* README.md: "`AND` has higher precedence than `OR`", and parentheses before
\* both.  The condition that is executed is the one that was typed.
ConditionsAsTyped ==
    \A p \in Statements : \A w \in Positions(p, "WHERE", 1, Len(p.tokens)) :
       LET end == Len(p.tokens) - 2
       IN  \A T \in SUBSET Positions(p, "identifier", w + 1, end) :
              Holds(p.expr, T) <=> Means(p, w + 1, end, T)

\* README.md: "`PRIMARY KEY` implies both uniqueness and non-nullability".  Every
\* column has what its constraints say and no other column's, in any order of
\* constraints that is accepted; every value of an INSERT is the one typed at
\* its place, with its sign.
ListsAsTyped ==
    \A p \in {q \in Statements : q.items # <<>> /\ q.tokens[1].type # "UPDATE" /\ q.expr = <<>>} :
       LET commas == Positions(p, ",", 1, Len(p.tokens))
           Part(n) == {k \in DOMAIN p.tokens : Cardinality({c \in commas : c < k}) = n - 1} \ commas
           Words(n) == {p.tokens[k].type : k \in Part(n)}
       IN  /\ Len(p.items) = Cardinality(commas) + 1
           /\ \A n \in DOMAIN p.items :
                 IF p.tokens[1].type = "INSERT"
                 THEN /\ p.items[n].negative <=> "-" \in Words(n)
                      /\ \E k \in Part(n) : /\ k > 5
                                            /\ p.tokens[k].type = p.items[n].type
                                            /\ p.tokens[k].lexeme = p.items[n].lexeme
                 ELSE LET flags == p.items[n].flags
                      IN  /\ "primary" \in flags <=> "PRIMARY" \in Words(n)
                          /\ "unique" \in flags <=> {"PRIMARY", "UNIQUE"} \cap Words(n) # {}
                          /\ "not null" \in flags <=> {"PRIMARY", "NOT"} \cap Words(n) # {}
=============================================================================
