------------------------------- MODULE MCConfigFile -------------------------------
EXTENDS ConfigFile

Blank == [key |-> "#", short |-> FALSE, text |-> <<>>, junk |-> FALSE, number |-> 0]

Text(key, text) == [Blank EXCEPT !.key = key, !.text = text]
Number(key, n) == [Blank EXCEPT !.key = key, !.number = n]
Junk(key) == [Blank EXCEPT !.key = key, !.junk = TRUE]
Short(key) == [Blank EXCEPT !.key = key, !.short = TRUE]

\* Names with and without a carriage return, numbers that fit and that do not,
\* lines that cannot be read, and a login of every length modulo three.
SomeLines ==
    {Blank, Text("N", <<78>>), Short("N"),
     Number("B", 3), Number("B", 65537), Number("F", -1), Junk("B"),
     Number("C", 1), Number("C", 2), Number("C", -1), Number("L", 1),
     Text("VU", <<117, CR>>), Text("VP", <<255>>), Text("VP", <<129, 62, 191, 7>>)}
==============================================================================
