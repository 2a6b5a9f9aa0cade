------------------------------ MODULE MCRequests ------------------------------
(***************************************************************************)
(* Two clients and what they send: multi bulk and inline requests, an      *)
(* argument that holds the bytes of the protocol, a large one, an empty    *)
(* request, requests that block, pause and quit, and one that is broken.   *)
(***************************************************************************)
EXTENDS Requests

CONSTANTS p1, p2

Digit(n) == <<"0", "1", "2", "3", "4", "5", "6", "7", "8", "9">>[n + 1]

\* A request as the clients of Redis write it.
Encode(argv) ==
    FoldLeft(LAMBDA acc, a : acc \o <<"$", Digit(Len(a)), CR, LF>> \o a \o <<CR, LF>>,
             <<"*", Digit(Len(argv)), CR, LF>>, argv)

Multibulk(commands) == [bytes |-> FoldLeft(LAMBDA acc, argv : acc \o Encode(argv), <<>>, commands), commands |-> commands]
Then(s, t) == [bytes |-> s.bytes \o t.bytes, commands |-> s.commands \o t.commands]

Blank == [bytes |-> <<>>, commands |-> <<>>]
Plain == Multibulk(<< <<<<"a">>>> >>)
Tricky == Multibulk(<< <<<<"a">>, <<CR, LF, "$">>>> >>)
Line == [bytes |-> <<"a", " ", "c", CR, LF>>, commands |-> << <<<<"a">>, <<"c">>>> >>]
None == [bytes |-> <<"*", "0", CR, LF>>, commands |-> <<>>]
Broken == [bytes |-> <<"*", "1", CR, LF, "a", CR, LF>>, commands |-> <<>>]
Pops == Multibulk(<< <<<<"b">>>>, <<<<"a">>>> >>)
Pauses == Multibulk(<< <<<<"p">>>>, <<<<"a">>>> >>)
PausesNot == Multibulk(<< <<<<"z">>>> >>)
Quits == Multibulk(<< <<<<"q">>>> >>)

Pair(s, t) == [p \in Peers |-> IF p = p1 THEN s ELSE t]

MCSendings ==
    {Pair(Then(Tricky, Then(Line, Then(None, Plain))), Blank), Pair(Pops, Then(PausesNot, Line)),
     Pair(Pops, Pauses), Pair(Tricky, Pauses), Pair(Then(Line, Broken), Quits)}
=============================================================================
