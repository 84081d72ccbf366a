------------------------------ MODULE MCBroker ------------------------------
(* Instances of Broker for TLC.                                            *)
EXTENDS Broker

CONSTANTS l1, l2, l3, d1, d2

\* l1 and l2 are one phone on USB and Wi-Fi, l3 is another phone on Wi-Fi; an
\* instance has some of them.
TwoPhones == [l \in Links |-> IF l = l3 THEN d2 ELSE d1]
Transport == [l \in Links |-> IF l = l1 THEN 0 ELSE 1]
=============================================================================
