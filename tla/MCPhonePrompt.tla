---------------------------- MODULE MCPhonePrompt ----------------------------
(* Instances of PhonePrompt for TLC.                                       *)
EXTENDS PhonePrompt, TLC

CONSTANTS c1, c2

\* Two requests of one computer, or one of each.
TwoRequests == {(c1 :> 2) @@ (c2 :> 0), (c1 :> 1) @@ (c2 :> 1)}
=============================================================================
