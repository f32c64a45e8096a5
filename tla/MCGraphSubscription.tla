------------------------ MODULE MCGraphSubscription ------------------------
(* A client of GraphQL and another subscriber that does not want every event; *)
(* of the first event the client gets two items, of the second one.            *)
EXTENDS GraphSubscription

CONSTANTS s1, s2

MCWants == [s \in {s1, s2} |-> IF s = s1 THEN Event ELSE Event \ {2}]
MCItems == [s \in {s1} |-> <<<<"1a", "1b">>, <<"2a">>>>]

=============================================================================
