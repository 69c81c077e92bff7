------------------------------- MODULE Parser -------------------------------
(***************************************************************************)
(* src/src/sql/parser.cpp: tokens to a statement, or the token that cannot *)
(* stand where it does.  A parser is the record of Parser's members and of *)
(* the parts of the statement it has read; it stops at its first error.    *)
(***************************************************************************)
EXTENDS Lexer

CONSTANTS Zeros,  \* digits that make a length of zero
          Huge    \* digits that make an integer out of range

ASSUME NumberAssumption == Zeros \subseteq Digits /\ Huge \subseteq Digits

\* names: identifiers in the order they came; items: columns of a table or
\* values; expr: the condition read last.
Parser(tokens) == [tokens |-> tokens, at |-> 1, error |-> 0,
                   names |-> <<>>, items |-> <<>>, expr |-> <<>>]

Failed(p, at) == [p EXCEPT !.error = at]
Current(p) == p.tokens[p.at]

\* check, advance and consume, for a parser without an error.
Sees(p, type) == p.error = 0 /\ Current(p).type = type
SeesOne(p, types) == p.error = 0 /\ Current(p).type \in types
Advance(p) == IF Current(p).type = "end" THEN p ELSE [p EXCEPT !.at = @ + 1]

Consume(p, type) ==
    IF p.error # 0 THEN p
    ELSE IF Current(p).type # type THEN Failed(p, p.at)
    ELSE IF type = "identifier"
         THEN [Advance(p) EXCEPT !.names = Append(@, Current(p).lexeme)]
    ELSE Advance(p)

\* Tokens of these types, one after the other.
Phrase(p, types) ==
    LET read[n \in 0 .. Len(types)] == IF n = 0 THEN p ELSE Consume(read[n - 1], types[n])
    IN  read[Len(types)]

\* A loop: Part as long as Goes holds.
Loop(p, Goes(_), Part(_)) ==
    LET RECURSIVE From(_)
        From(q) == IF Goes(q) THEN From(Part(q)) ELSE q
    IN  From(p)

\* Part, and once more after every comma.
List(p, Part(_)) == Loop(Part(p), LAMBDA q : Sees(q, ","), LAMBDA q : Part(Advance(q)))
----------------------------------------------------------------------------
\* parse_literal: a sign goes with a number only.
Literal(p) ==
    IF p.error # 0 THEN p
    ELSE LET negative == Sees(p, "-")
             q        == IF negative THEN Advance(p) ELSE p
             token    == Current(q)
         IN  IF \/ token.type = "integer" /\ ToSet(token.lexeme) \cap Huge # {}
                \/ token.type \notin {"integer", "float"} /\ negative
                \/ token.type \notin {"integer", "float", "string", "NULL"}
             THEN Failed(q, q.at)
             ELSE [Advance(q) EXCEPT !.items = Append(@, [type     |-> token.type,
                                                           lexeme   |-> token.lexeme,
                                                           negative |-> negative])]

\* parse_comparison: the position of the comparison stands for what it says.
Comparisons == {"=", "!=", "<", "<=", ">", ">="}

Comparison(p) ==
    LET q == Consume(p, "identifier")
        r == IF Sees(q, "IS")
             THEN LET is == Advance(q)
                  IN  Consume(IF Sees(is, "NOT") THEN Advance(is) ELSE is, "NULL")
             ELSE IF SeesOne(q, Comparisons) THEN Literal(Advance(q))
             ELSE IF q.error # 0 THEN q
             ELSE Failed(q, q.at)
    IN  [r EXCEPT !.expr = <<"comparison", p.at>>]

RECURSIVE OrExpression(_)

Primary(p) == IF Sees(p, "(") THEN Consume(OrExpression(Advance(p)), ")")
              ELSE Comparison(p)

\* The operands that Part reads, joined from the left by the tokens of a type.
Joined(p, type, Part(_)) ==
    Loop(Part(p), LAMBDA q : Sees(q, type),
                  LAMBDA q : LET r == Part(Advance(q))
                             IN  [r EXCEPT !.expr = <<type, q.expr, r.expr>>])

AndExpression(p) == Joined(p, "AND", Primary)

\* Fault: both operators are joined in one loop, as they come.
OrExpressionFlat(p) ==
    Loop(Primary(p), LAMBDA q : SeesOne(q, {"AND", "OR"}),
                     LAMBDA q : LET r == Primary(Advance(q))
                                IN  [r EXCEPT !.expr = <<Current(q).type, q.expr, r.expr>>])

OrExpression(p) == Joined(p, "OR", AndExpression)

Where(p) == IF Sees(p, "WHERE") THEN OrExpression(Advance(p)) ELSE p

\* parse_data_type
Length(p) ==
    LET q      == Consume(p, "integer")
        digits == ToSet(Current(p).lexeme)
    IN  IF q.error = 0 /\ (digits \subseteq Zeros \/ digits \cap Huge # {}) THEN Failed(p, p.at)
        ELSE q

DataType(p) ==
    IF p.error # 0 THEN p
    ELSE IF SeesOne(p, {"INT", "DOUBLE"}) THEN Advance(p)
    ELSE Consume(Length(Phrase(p, <<"VARCHAR", "(">>)), ")")

\* Fault: PRIMARY KEY does not make the column NOT NULL.
GivenNullable == [PRIMARY |-> {"primary", "unique"}, UNIQUE |-> {"unique"}, NOT |-> {"not null"}]

\* What a constraint gives.
Given == [PRIMARY |-> {"primary", "unique", "not null"},
          UNIQUE  |-> {"unique"},
          NOT     |-> {"not null"}]

\* What of it must not be there yet.
Repeated == [PRIMARY |-> "primary", UNIQUE |-> "unique", NOT |-> "not null"]

\* One turn of the loop over the constraints of the last column.
Constraint(p) ==
    LET word == Current(p).type
        q    == Advance(p)
        last == Len(p.items)
        r    == CASE word = "PRIMARY" -> Consume(q, "KEY")
                  [] word = "NOT"     -> Consume(q, "NULL")
                  [] word = "UNIQUE"  -> q
    IN  IF Repeated[word] \in p.items[last].flags THEN Failed(q, q.at)
        ELSE [r EXCEPT !.items[last].flags = @ \cup Given[word]]

\* parse_column
Column(p) ==
    LET q == DataType(Consume(p, "identifier"))
    IN  Loop([q EXCEPT !.items = Append(@, [flags |-> {}])],
             LAMBDA r : SeesOne(r, DOMAIN Given), Constraint)
----------------------------------------------------------------------------
\* The statements, behind the keyword that tells them apart.
Create(p) ==
    CASE Sees(p, "DATABASE") -> Phrase(p, <<"DATABASE", "identifier">>)
      [] Sees(p, "TABLE")    -> Consume(List(Phrase(p, <<"TABLE", "identifier", "(">>), Column), ")")
      [] Sees(p, "INDEX")    -> Phrase(p, <<"INDEX", "identifier", "ON", "identifier",
                                            "(", "identifier", ")">>)
      [] OTHER               -> Failed(p, p.at)

Insert(p) ==
    Consume(List(Phrase(p, <<"INTO", "identifier", "VALUES", "(">>), Literal), ")")

Select(p) ==
    LET columns == IF Sees(p, "*") THEN Advance(p)
                   ELSE List(p, LAMBDA q : Consume(q, "identifier"))
    IN  Where(Phrase(columns, <<"FROM", "identifier">>))

Delete(p) == Where(Phrase(p, <<"FROM", "identifier">>))

Update(p) ==
    Where(Literal(Phrase(p, <<"identifier", "SET", "identifier", "=">>)))

Explain(p) == IF Sees(p, "SELECT") THEN Select(Advance(p)) ELSE Failed(p, p.at)

\* parse_statement: the parser at its end.
Parsed(tokens) ==
    LET p    == Parser(tokens)
        kind == Current(p).type
        rest == Advance(p)
        read == CASE kind = "CREATE"  -> Create(rest)
                  [] kind = "USE"     -> Consume(rest, "identifier")
                  [] kind = "INSERT"  -> Insert(rest)
                  [] kind = "SELECT"  -> Select(rest)
                  [] kind = "DELETE"  -> Delete(rest)
                  [] kind = "UPDATE"  -> Update(rest)
                  [] kind = "EXPLAIN" -> Explain(rest)
                  [] OTHER            -> Failed(p, 1)
    IN  Phrase(read, <<";", "end">>)
=============================================================================
