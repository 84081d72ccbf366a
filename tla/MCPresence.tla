----------------------------- MODULE MCPresence -----------------------------
(* Instances of Presence for TLC.                                          *)
EXTENDS Presence

CONSTANTS l1, l2, d1, d2

\* One phone on Wi-Fi, another on Bluetooth.
TwoPhones == [l \in {l1, l2} |-> IF l = l1 THEN d1 ELSE d2]
TwoNames  == [l \in {l1, l2} |-> IF l = l1 THEN "wifi" ELSE "bt"]
=============================================================================
