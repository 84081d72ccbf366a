----------------------------- MODULE MCRegistry -----------------------------
(* Instances of Registry for TLC.                                          *)
EXTENDS Registry, TLC

CONSTANTS p1, p2, p3, u1, u2, phone

\* Two names, of which one reads like the number of a key.
PhoneOrTwo == {phone, Numeral(2)}

\* Commands are alike, and so are users.
Alike == Permutations({p1, p2, p3}) \cup Permutations({u1, u2})
=============================================================================
