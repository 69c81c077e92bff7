--------------------------- MODULE MCSlottedPage ---------------------------
(* Rows from two bytes to five, of every type: the null, the smallest       *)
(* integer and -1, an empty string and one whose byte looks like a tag.     *)
EXTENDS SlottedPage

MCRows == {<<NullValue>>,
           <<IntValue(-8)>>,
           <<IntValue(-1), NullValue>>,
           <<DoubleValue(6)>>,
           <<TextValue(<<>>)>>,
           <<TextValue(<<1>>), NullValue>>}
=============================================================================
