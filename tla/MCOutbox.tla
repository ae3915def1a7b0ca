------------------------------- MODULE MCOutbox -------------------------------
(* Instances of Outbox for TLC. *)
EXTENDS Outbox

CONSTANTS m1, m2, p1, p2

TwoRows == {m1, m2}
TwoPublishers == {p1, p2}
OnePublisher == {p1}
=============================================================================
