---------------------------- MODULE PromptLedger ----------------------------
(***************************************************************************)
(* What the phone promises the computers: the requests it was sent, of     *)
(* which at most one is put to the user at a time; each is settled once    *)
(* and for all, by the user, by its own computer or by time, and reported.  *)
(* KeyService and Authenticator keep this book in the fields of a slot, a  *)
(* number per connection and the threads' locals; module PhonePrompt shows *)
(* that they do.                                                           *)
(***************************************************************************)
CONSTANTS
    Requests,   \* <<computer, number>>
    Computers,
    None        \* no request

VARIABLES
    asked,      \* requests that were sent
    recalled,   \* those the computer wants no more
    lost,       \* computers whose connection is gone
    offer,      \* the request the user is asked about, or None
    approved,   \* requests the user has approved, in time or not
    verdict,    \* how each request ended, "none" before
    reported    \* requests whose verdict was sent

vars == <<asked, recalled, lost, offer, approved, verdict, reported>>

Verdicts == {"none", "quiet", "ok", "denied", "cancel", "timeout"}

Init ==
    /\ asked = {} /\ recalled = {} /\ lost = {} /\ approved = {} /\ reported = {}
    /\ offer = None
    /\ verdict = [r \in Requests |-> "none"]

Undecided(r) == verdict[r] = "none"

\* The computers.
Ask(r) ==
    /\ r \notin asked /\ r[1] \notin lost
    /\ asked' = asked \cup {r}
    /\ UNCHANGED <<recalled, lost, offer, approved, verdict, reported>>

Recall(r) ==
    /\ r \in asked /\ r[1] \notin lost
    /\ recalled' = recalled \cup {r}
    /\ UNCHANGED <<asked, lost, offer, approved, verdict, reported>>

Lose(c) ==
    /\ lost' = lost \cup {c}
    /\ UNCHANGED <<asked, recalled, offer, approved, verdict, reported>>

\* The phone.
Offer(r) ==
    /\ offer = None /\ r \in asked /\ Undecided(r)
    /\ offer' = r
    /\ UNCHANGED <<asked, recalled, lost, approved, verdict, reported>>

Settle(r, v) ==
    /\ Undecided(r)
    /\ verdict' = [verdict EXCEPT ![r] = v]
    /\ UNCHANGED <<asked, recalled, lost, reported>>

\* A request that needs no user.
Quiet(r) == r \in asked /\ offer # r /\ Settle(r, "quiet") /\ UNCHANGED <<offer, approved>>

\* The user approves; for a request that is on offer no more it comes too late.
Approve(r) ==
    /\ approved' = approved \cup {r}
    /\ IF offer = r
         THEN Settle(r, "ok") /\ offer' = None
         ELSE r \in asked /\ UNCHANGED <<asked, recalled, lost, offer, verdict, reported>>

\* The user refuses what is on offer, or does nothing for too long.
Decline(v) ==
    /\ offer # None
    /\ Settle(offer, v)
    /\ offer' = None
    /\ UNCHANGED approved

\* Only its own computer withdraws a request, on offer or not.
Withdraw(r) ==
    /\ r \in recalled \/ (r \in asked /\ r[1] \in lost)
    /\ Settle(r, "cancel")
    /\ offer' = IF offer = r THEN None ELSE offer
    /\ UNCHANGED approved

Report(r) ==
    /\ ~Undecided(r) /\ r[1] \notin lost
    /\ reported' = reported \cup {r}
    /\ UNCHANGED <<asked, recalled, lost, offer, approved, verdict>>

Next ==
    \/ \E r \in Requests : Ask(r) \/ Recall(r) \/ Offer(r) \/ Quiet(r) \/ Approve(r)
                           \/ Withdraw(r) \/ Report(r)
    \/ \E c \in Computers : Lose(c)
    \/ \E v \in {"denied", "timeout"} : Decline(v)

\* Every request is reported unless its computer is gone.
Answers ==
    \A r \in Requests : r \in asked ~> r \in reported \/ r[1] \in lost

Safety == Init /\ [][Next]_vars

Spec == Safety /\ Answers
=============================================================================
