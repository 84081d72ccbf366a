--------------------------- MODULE MCCredentials ---------------------------
(* Instances of Credentials for TLC.                                       *)
EXTENDS Credentials, TLC

CONSTANTS c1, c2, u1, u2

\* Two computers are alike, and so are two users.
Alike == Permutations({c1, c2}) \cup Permutations({u1, u2})
=============================================================================
