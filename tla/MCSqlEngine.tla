---------------------------- MODULE MCSqlEngine ----------------------------
(* SqlEngine on small instances.                                           *)
EXTENDS SqlEngine

MCIntMin == -8
Ints == MCIntMin..7
Line1(key, value) == [key |-> key, value |-> value]

\* The first file splits a leaf, and leaves no key between the leaf's last entry and
\* the separator 4; the second repeats a key of the first and has one below 0; the
\* third has a line that begins with no number, then one without a comma.
MCLoadFiles ==
  { <<Line1(4, 1), Line1(1, 2), Line1(5, 2), Line1(2, 1), Line1(6, 1)>>,
    <<Line1(6, 2), Line1(3, 1), Line1(-2, 1)>>,
    <<Line1(NoNumber, 2), Line1(7, NoComma)>> }

C(attr, comp, value) == [attr |-> attr, comp |-> comp, value |-> value]
Q(attr, conds) == [attr |-> attr, conds |-> conds]
MCQueries ==
  { Q("count", <<>>),
    Q("star", <<C("key", "NE", 4)>>),
    Q("value", <<C("key", "GE", -2), C("value", "GT", 1)>>),
    Q("key", <<C("key", "GT", 2), C("key", "NE", 4)>>),
    Q("star", <<C("key", "EQ", 5)>>),
    Q("count", <<C("key", "LT", 5), C("key", "GE", 2)>>),
    Q("value", <<C("key", "LE", 6), C("value", "LT", 2)>>),
    Q("key", <<C("value", "EQ", 2), C("key", "GT", 0)>>),
    Q("count", <<C("key", "EQ", 3), C("key", "EQ", 4)>>),
    Q("key", <<C("key", "GT", 7)>>),
    Q("star", <<C("key", "LT", 0)>>) }
=============================================================================
