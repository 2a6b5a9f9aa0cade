----------------------------- MODULE MCZiplist -----------------------------
EXTENDS Ziplist
Text(letter, n) == <<"str", [i \in 1..n |-> letter]>>
SmallElems == {<<"int", 1>>, <<"int", -300>>, Text(97, 3), Text(98, 8)}
=============================================================================
