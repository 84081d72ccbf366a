----------------------------- MODULE MCPamStack -----------------------------
(* Instances of PamStack for TLC.                                          *)
EXTENDS PamStack, TLC

CONSTANTS p1, p2, p3

Commands == Permutations({p1, p2, p3})

Stack(e, v) == [etc |-> e, vendor |-> v]

\* A vendor's file only, the administrator's own file, one with nothing to do,
\* and what older installs left: an old line in its place, a stray mark, and an old
\* line that an auth line was put in front of later.
Several == {
    Stack(None, <<"guard", "auth">>),
    Stack(<<"guard", "auth", "guard">>, None),
    Stack(<<"other">>, None),
    Stack(<<"guard", "mark", "old", "auth">>, None),
    Stack(<<"mark", "auth">>, <<"auth">>),
    Stack(<<"auth", "mark", "old", "old">>, None) }
=============================================================================
