------------------------ MODULE MCConnectorRegistry ------------------------
(* Instances of ConnectorRegistry for TLC.                                 *)
EXTENDS ConnectorRegistry, TLC

CONSTANTS c1, c2, r1, r2, t1, t2, n1

MCConnectors == {c1, c2}
MCOneConnector == {c1}
MCTenants == {t1, t2}
MCOwnerOf == [c \in Connectors |-> t1]
MCNameOf  == [c \in Connectors |-> n1]
MCTwoRequests == {r1, r2}

\* Handlers are interchangeable, and so are ids of one owner and name.
MCSymmetry == Permutations(Requests) \cup Permutations(Connectors)
=============================================================================
