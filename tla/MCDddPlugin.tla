---------------------------- MODULE MCDddPlugin ----------------------------
(* The instance of DddPlugin for TLC: every shape of two tables with up to    *)
(* two properties each, and every order of some of two commands and a         *)
(* variable. No two ways to a property add up to the same offset.             *)
EXTENDS DddPlugin

Sizes == <<4, 2, 2>>
WatchedNames == <<"a", "b">>

Table(first, nested) ==
    {[n \in 1 .. Len(shape) |-> [name |-> shape[n][1], table |-> shape[n][2],
                                 offset |-> n * first]]
     : shape \in BoundedSeq({"a", "b"} \X nested, 2)}

AllSchemas ==
    {<<>>} \cup {<<outer>> : outer \in Table(1, {0})}
           \cup {<<outer, inner>> : outer \in Table(1, {0, 2}) \ Table(1, {0}),
                                    inner \in Table(3, {0})}

Known ==
    {[name |-> "say", command |-> TRUE], [name |-> "say_team", command |-> TRUE],
     [name |-> "variable", command |-> FALSE, value |-> 0]}

AllRegistries == UNION {SetToSeqs(known) : known \in SUBSET Known}
=============================================================================
