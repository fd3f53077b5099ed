---------------------------- MODULE MCWireFormat ----------------------------
EXTENDS WireFormat

\* The empty string, "A", "AB", "ABC", a letter of two bytes, and eleven of them,
\* which are longer than their room by more than the shortest property.
MCStrings ==
    {<<>>, <<65>>, <<65, 66>>, <<65, 66, 67>>, <<233>>, [i \in 1 .. 11 |-> 233]}
=============================================================================
