------------------------------ MODULE Exchange ------------------------------
(***************************************************************************)
(* What the daemon promises its clients: one request is current at a time  *)
(* and keeps the others out until it is settled; it is answered at most    *)
(* once, and only a client that gave it up is left without an answer; a    *)
(* client that waits gets the answer to its own request, or that of one    *)
(* which an INIT has given up and which was about to be answered.  How it  *)
(* does so with workers, locks and phones is module Broker, which shows    *)
(* that it keeps this.                                                     *)
(***************************************************************************)
CONSTANTS Channels, Requests

VARIABLES
    current,   \* the request that keeps the others out, 0 for none
    phase,     \* "new", "working", "settled", "done"
    channel,   \* where each request came from
    waits,     \* the request the client of a channel waits for, 0 for none
    got        \* the request whose answer the client of a request took, 0 for none

vars == <<current, phase, channel, waits, got>>

Init ==
    /\ current = 0
    /\ phase = [n \in Requests |-> "new"]
    /\ channel \in [Requests -> Channels]
    /\ waits = [c \in Channels |-> 0]
    /\ got = [n \in Requests |-> 0]

Accept(n, c) ==
    /\ current = 0 /\ waits[c] = 0 /\ phase[n] = "new"
    /\ current' = n
    /\ phase' = [phase EXCEPT ![n] = "working"]
    /\ channel' = [channel EXCEPT ![n] = c]
    /\ waits' = [waits EXCEPT ![c] = n]
    /\ UNCHANGED got

\* INIT: the request of this channel, and of no other, is current no more.
GiveUp(c) ==
    /\ waits' = [waits EXCEPT ![c] = 0]
    /\ current' = IF current # 0 /\ channel[current] = c THEN 0 ELSE current
    /\ UNCHANGED <<phase, channel, got>>

\* The last client is gone.
Leave ==
    /\ waits' = [c \in Channels |-> 0]
    /\ UNCHANGED <<current, phase, channel, got>>

\* The answer to n.  A client that waits for another request on this channel can
\* only be there after an INIT.
Answer(n) ==
    LET c == channel[n] IN
    /\ phase[n] = "working"
    /\ phase' = [phase EXCEPT ![n] = "settled"]
    /\ current = n => waits[c] \in {0, n}
    /\ IF waits[c] = 0
         THEN UNCHANGED <<waits, got>>
         ELSE /\ waits' = [waits EXCEPT ![c] = 0]
              /\ got' = [got EXCEPT ![waits[c]] = n]
    /\ UNCHANGED <<current, channel>>

\* No answer for a request that was given up.
Drop(n) ==
    /\ phase[n] = "working" /\ current # n
    /\ phase' = [phase EXCEPT ![n] = "settled"]
    /\ UNCHANGED <<current, channel, waits, got>>

End(n) ==
    /\ phase[n] = "settled"
    /\ phase' = [phase EXCEPT ![n] = "done"]
    /\ current' = IF current = n THEN 0 ELSE current
    /\ UNCHANGED <<channel, waits, got>>

\* The daemon restarts after an update.
Exit ==
    /\ current' = 0
    /\ phase' = [n \in Requests |-> IF phase[n] = "new" THEN "new" ELSE "done"]
    /\ waits' = [c \in Channels |-> 0]
    /\ UNCHANGED <<channel, got>>

Next ==
    \/ \E n \in Requests :
         (\E c \in Channels : Accept(n, c)) \/ Answer(n) \/ Drop(n) \/ End(n)
    \/ (\E c \in Channels : GiveUp(c)) \/ Leave \/ Exit

\* No request is worked on for ever, and no client waits for ever.
Progress ==
    /\ \A n \in Requests : phase[n] = "working" ~> phase[n] = "done"
    /\ \A c \in Channels, n \in Requests : waits[c] = n ~> waits[c] # n

Safety == Init /\ [][Next]_vars

Spec == Safety /\ Progress
=============================================================================
