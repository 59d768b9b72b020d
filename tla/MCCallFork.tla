----------------------------- MODULE MCCallFork -----------------------------
(* Three targets in their order, each pair in one group or apart with any   *)
(* modifier, and with or without a modifier at the end.                     *)
EXTENDS CallFork

CONSTANTS s1, s2, s3

Between == {<<>>} \cup {<<m>> : m \in Modifiers}

MCPlans ==
    {<<s1>> \o a \o <<s2>> \o b \o <<s3>> \o c : a, b \in Between, c \in {<<>>, <<"|drop">>}}
=============================================================================
