-------------------------------- MODULE Wifi --------------------------------
(***************************************************************************)
(* The Wi-Fi transport from end to end: the phone's listener and the       *)
(* threads of its connections (WifiTransport), the pairing commands and    *)
(* profiles of the computers (src/src/cli.rs, src/src/wifi.rs), and the    *)
(* daemon's wifi_loop and keepalive_loop (src/src/daemon.rs).  One phone at *)
(* one address.                                                            *)
(*                                                                         *)
(* Abstracted: TLS and the certificate pin, which every computer has right;  *)
(* the secret is the number of resets before it was made; the name of the  *)
(* phone; what is sent over a served connection (Broker and PhonePrompt).  *)
(* A process on a computer that ends closes its sockets, and the phone     *)
(* reads the end of the stream; a computer that loses its network or its   *)
(* power says nothing any more (Vanish).                                   *)
(***************************************************************************)
EXTENDS Naturals, FiniteSets

CONSTANTS
    Computers,
    Conns,       \* connections; one that both ends have closed is used again
    Slots,       \* connections the phone serves at once; 4 in the code
    MaxPairings, \* bound: commands `wifi add` and `wifi remove`
    MaxUses,     \* bound: changes on the phone: on, off, reset, restart
    MaxVanished, \* bound: connections that end without a word
    None

ASSUME WifiAssumption ==
    /\ IsFiniteSet(Conns) /\ Slots \in Nat \ {0}
    /\ MaxPairings \in Nat /\ MaxUses \in Nat /\ MaxVanished \in Nat
    /\ None \notin Computers \cup Conns \cup Nat

Secrets == 0 .. MaxUses

VARIABLES
    enabled,   \* preference: the switch in the app
    listening, \* WifiTransport.server is open
    secret,    \* WifiTransport.secret, and the preference it is kept in
    free,      \* permits of WifiTransport.slots
    sockets,   \* WifiTransport.sockets
    phone,     \* where the phone's end of each connection stands
    shut,      \* connections whose socket the phone has closed
    far,       \* the computer's end: "none", "connect", "open"
    shown,     \* the secret it presents, or None
    dead,      \* connections that carry nothing any more
    profile,   \* the computer's file in /etc/passkey/wifi: its secret, or None
    trial,     \* the connection of its `wifi add`, or None
    wanted,    \* wifi_loop: the secret it loaded and has not used yet, or None
    dial,      \* the connection it waits for, or None
    link,      \* the link in the daemon's list, or None
    pairings, uses, vanished,
    late       \* history: connections accepted before a disable, listed after it

phoneVars    == <<enabled, listening, secret, free, sockets, phone, shut>>
connVars     == <<far, shown, dead>>
computerVars == <<profile, trial, wanted, dial, link>>
bounds       == <<pairings, uses, vanished>>
vars == <<phoneVars, connVars, computerVars, bounds, late>>

Init ==
    /\ enabled \in BOOLEAN /\ listening = enabled
    /\ secret = 0 /\ free = Slots /\ sockets = {}
    /\ phone = [c \in Conns |-> "none"] /\ shut = Conns
    /\ far = [c \in Conns |-> "none"]
    /\ shown = [c \in Conns |-> None]
    /\ dead = {}
    /\ profile \in [Computers -> {None, 0}]
    /\ trial = [m \in Computers |-> None]
    /\ wanted = [m \in Computers |-> None] /\ dial = [m \in Computers |-> None]
    /\ link = [m \in Computers |-> None]
    /\ pairings = 0 /\ uses = 0 /\ vanished = 0
    /\ late = {}

\* Both ends are closed: nothing is kept of the connection.
Tidy ==
    LET over == {c \in Conns : phone'[c] = "none" /\ far'[c] = "none"} IN
    /\ shown' = [c \in Conns |-> IF c \in over THEN None ELSE shown[c]]
    /\ dead' = dead \ over

-----------------------------------------------------------------------------
(* The phone: one listener thread, one thread per connection.              *)

\* A full phone closes the connection at once.
Accept(c) ==
    /\ phone[c] = "backlog" /\ listening
    /\ IF free > 0
         THEN /\ free' = free - 1
              /\ phone' = [phone EXCEPT ![c] = "accepted"]
              /\ UNCHANGED shut
         ELSE /\ phone' = [phone EXCEPT ![c] = "none"]
              /\ shut' = shut \cup {c}
              /\ UNCHANGED free
    /\ UNCHANGED <<enabled, listening, secret, sockets, far, computerVars, bounds, late>>
    /\ Tidy

List(c) ==
    /\ phone[c] = "accepted"
    /\ sockets' = sockets \cup {c}
    /\ phone' = [phone EXCEPT ![c] = "reading"]
    /\ UNCHANGED <<enabled, listening, secret, free, shut, connVars, computerVars, bounds, late>>

\* What the phone compares with what it has read: the secret of now.
Proves(s) == s = secret

\* The secret is compared under the monitor that disable and reset hold.
Check(c) ==
    /\ phone[c] = "reading" /\ c \notin shut \cup dead /\ far[c] = "connect"
    /\ phone' = [phone EXCEPT ![c] = IF Proves(shown[c]) THEN "serving" ELSE "closing"]
    /\ UNCHANGED <<enabled, listening, secret, free, sockets, shut, connVars, computerVars,
                   bounds, late>>

\* A read fails: the socket was closed, the computer closed its end, or (only
\* before the secret was read: setSoTimeout) nothing came for 5 s.
ReadFails(c) ==
    /\ \/ phone[c] \in {"reading", "serving"} /\ (c \in shut \/ (far[c] = "none" /\ c \notin dead))
       \/ phone[c] = "reading" /\ c \in dead
    /\ phone' = [phone EXCEPT ![c] = "closing"]
    /\ UNCHANGED <<enabled, listening, secret, free, sockets, shut, connVars, computerVars,
                   bounds, late>>

\* A plausible bug: the permit is given back only after a served connection.
KeptPermit(c) == IF Proves(shown[c]) THEN free + 1 ELSE free

Released(c) == free + 1

\* The `finally` of a connection's thread.
End(c) ==
    /\ phone[c] = "closing"
    /\ phone' = [phone EXCEPT ![c] = "none"]
    /\ shut' = shut \cup {c}
    /\ sockets' = sockets \ {c}
    /\ free' = Released(c)
    /\ late' = late \ {c}
    /\ UNCHANGED <<enabled, listening, secret, far, computerVars, bounds>>
    /\ Tidy

\* A plausible bug: the connections go on.
ListenerOnly == {}

\* The sockets that disable closes.
Listed == sockets

\* disable: the listener is closed, with what waits in its backlog, and the
\* connections that are in `sockets` at this moment.
Disable ==
    /\ shut' = shut \cup Listed \cup {c \in Conns : phone[c] = "backlog"}
    /\ phone' = [c \in Conns |-> IF phone[c] = "backlog" THEN "none" ELSE phone[c]]
    /\ late' = late \cup {c \in Conns : phone[c] = "accepted"}
    /\ UNCHANGED <<free, sockets, far, computerVars, pairings, vanished>>
    /\ Tidy

Used == uses < MaxUses /\ uses' = uses + 1

SwitchOff ==
    /\ enabled /\ Used
    /\ enabled' = FALSE /\ listening' = FALSE
    /\ Disable
    /\ UNCHANGED secret

\* start fails when the port is taken or the key cannot be read: it disables.
SwitchOn ==
    /\ ~enabled /\ Used
    /\ enabled' = TRUE
    /\ \/ /\ listening' = TRUE
          /\ UNCHANGED <<free, sockets, phone, shut, connVars, computerVars, pairings,
                         vanished, late>>
       \/ listening' = FALSE /\ Disable
    /\ UNCHANGED secret

\* reset: "Forget all Wi-Fi computers".  When the new secret cannot be stored or
\* start fails, the listener stays off although Wi-Fi is enabled.
Reset ==
    /\ enabled /\ Used
    /\ \/ secret' = secret + 1 /\ listening' \in BOOLEAN
       \/ secret' = secret /\ listening' = FALSE
    /\ Disable
    /\ UNCHANGED enabled

\* The app is killed; the system closes its sockets and starts the service again.
Restart ==
    /\ Used
    /\ listening' \in {enabled, FALSE}
    /\ free' = Slots /\ sockets' = {}
    /\ shut' = shut \cup {c \in Conns : phone[c] # "none"}
    /\ phone' = [c \in Conns |-> "none"]
    /\ late' = {}
    /\ UNCHANGED <<enabled, secret, far, computerVars, pairings, vanished>>
    /\ Tidy

-----------------------------------------------------------------------------
(* The computers.                                                          *)

Unused == {c \in Conns : phone[c] = "none" /\ far[c] = "none"}

\* Which of the unused connections it is does not matter.
New == CHOOSE c \in Unused : TRUE

\* TcpStream::connect_timeout, then the secret; without a listener it fails.
Connect(s) ==
    /\ Unused # {} /\ listening
    /\ phone' = [phone EXCEPT ![New] = "backlog"]
    /\ shut' = shut \ {New}
    /\ far' = [far EXCEPT ![New] = "connect"]
    /\ shown' = [shown EXCEPT ![New] = s]
    /\ UNCHANGED <<enabled, listening, secret, free, sockets, dead>>

\* The computer closes its end.
Closed(c) ==
    /\ far' = [far EXCEPT ![c] = "none"]
    /\ UNCHANGED phoneVars
    /\ Tidy

\* It has read the phone's name, or it cannot: refused, closed, timed out.
Welcome(c) == phone[c] = "serving" /\ c \notin shut \cup dead
Failed(c)  == c \in shut \cup dead

\* `passkey wifi add`: with a code that the phone showed at some time.
PairConnect(m, s) ==
    /\ trial[m] = None /\ pairings < MaxPairings
    /\ pairings' = pairings + 1
    /\ Connect(s)
    /\ trial' = [trial EXCEPT ![m] = New]
    /\ UNCHANGED <<profile, wanted, dial, link, uses, vanished, late>>

\* root-wifi-add saves the profile once the phone took the secret.
PairEnd(m) ==
    LET c == trial[m] IN
    /\ c # None /\ (Welcome(c) \/ Failed(c))
    /\ profile' = [profile EXCEPT ![m] = IF Welcome(c) THEN shown[c] ELSE @]
    /\ trial' = [trial EXCEPT ![m] = None]
    /\ Closed(c)
    /\ UNCHANGED <<wanted, dial, link, bounds, late>>

Remove(m) ==
    /\ profile[m] # None /\ pairings < MaxPairings
    /\ pairings' = pairings + 1
    /\ profile' = [profile EXCEPT ![m] = None]
    /\ UNCHANGED <<phoneVars, connVars, trial, wanted, dial, link, uses, vanished, late>>

\* A plausible bug: wifi_loop closes no link.
NeverUnwanted(m) == FALSE

\* A link whose profile is gone.
Unwanted(m) == link[m] # None /\ profile[m] = None

\* wifi_loop, every 5 s: a link without a profile is closed, the profile is kept
\* for the rest of the round.
Load(m) ==
    /\ wanted[m] = None /\ dial[m] = None
    /\ wanted' = [wanted EXCEPT ![m] = profile[m]]
    /\ IF Unwanted(m)
         THEN Closed(link[m]) /\ link' = [link EXCEPT ![m] = None]
         ELSE UNCHANGED <<phoneVars, connVars, link>>
    /\ UNCHANGED <<profile, trial, dial, bounds, late>>

\* Nothing to connect: a link of this name is alive, or nobody listens.
RoundEnds(m) ==
    /\ wanted[m] # None
    /\ link[m] # None \/ ~listening
    /\ wanted' = [wanted EXCEPT ![m] = None]
    /\ UNCHANGED <<phoneVars, connVars, profile, trial, dial, link, bounds, late>>

Dial(m) ==
    /\ wanted[m] # None /\ link[m] = None
    /\ wanted' = [wanted EXCEPT ![m] = None]
    /\ Connect(wanted[m])
    /\ dial' = [dial EXCEPT ![m] = New]
    /\ UNCHANGED <<profile, trial, link, bounds, late>>

\* peer.connect returns: a link, or another attempt in the next round.
DialEnd(m) ==
    LET c == dial[m] IN
    /\ c # None
    /\ dial' = [dial EXCEPT ![m] = None]
    /\ \/ /\ Welcome(c)
          /\ link' = [link EXCEPT ![m] = c]
          /\ far' = [far EXCEPT ![c] = "open"]
          /\ UNCHANGED <<phoneVars, shown, dead>>
       \/ Failed(c) /\ Closed(c) /\ UNCHANGED link
    /\ UNCHANGED <<profile, trial, wanted, bounds, late>>

\* The reader of a link ends, or keepalive_loop gets no answer to its PING.
LinkEnds(m) ==
    /\ link[m] # None /\ Failed(link[m])
    /\ Closed(link[m])
    /\ link' = [link EXCEPT ![m] = None]
    /\ UNCHANGED <<profile, trial, wanted, dial, bounds, late>>

\* Out of range, asleep or without power: nothing tells the phone.
Vanish(c) ==
    /\ far[c] # "none" /\ c \notin dead /\ vanished < MaxVanished
    /\ vanished' = vanished + 1
    /\ dead' = dead \cup {c}
    /\ UNCHANGED <<phoneVars, far, shown, computerVars, pairings, uses, late>>

-----------------------------------------------------------------------------

PhoneThread(c) == Accept(c) \/ List(c) \/ Check(c) \/ ReadFails(c) \/ End(c)
Loop(m) == Load(m) \/ RoundEnds(m) \/ Dial(m) \/ DialEnd(m)

Next ==
    \/ \E c \in Conns : PhoneThread(c) \/ Vanish(c)
    \/ SwitchOff \/ SwitchOn \/ Reset \/ Restart
    \/ \E m \in Computers :
         \/ Loop(m) \/ LinkEnds(m) \/ PairEnd(m) \/ Remove(m)
         \/ \E s \in 0 .. secret : PairConnect(m, s)

Spec == Init /\ [][Next]_vars

\* The phone's threads and the daemon's run on; a command that waits has timeouts.
Fairness ==
    /\ \A c \in Conns : WF_vars(PhoneThread(c))
    /\ \A m \in Computers : WF_vars(Loop(m)) /\ WF_vars(LinkEnds(m)) /\ WF_vars(PairEnd(m))

FairSpec == Spec /\ Fairness

-----------------------------------------------------------------------------
(* Properties.                                                             *)

Holding == {c \in Conns : phone[c] \in {"accepted", "reading", "serving", "closing"}}

TypeOK ==
    /\ enabled \in BOOLEAN /\ listening \in BOOLEAN /\ secret \in Secrets
    /\ free + Cardinality(Holding) = Slots
    /\ sockets \subseteq Holding /\ shut \subseteq Conns /\ dead \subseteq Conns
    /\ phone \in [Conns -> {"none", "backlog", "accepted", "reading", "serving", "closing"}]
    /\ far \in [Conns -> {"none", "connect", "open"}]
    /\ shown \in [Conns -> Secrets \cup {None}]
    /\ profile \in [Computers -> Secrets \cup {None}]
    /\ wanted \in [Computers -> Secrets \cup {None}]
    /\ trial \in [Computers -> Conns \cup {None}]
    /\ dial \in [Computers -> Conns \cup {None}]
    /\ link \in [Computers -> Conns \cup {None}]
    /\ late \subseteq Conns

\* The phone serves only who has the secret of now: after "Forget all Wi-Fi
\* computers" nobody who paired before, whatever connection was being accepted,
\* checked or served (reset, listen).  And it serves nobody while Wi-Fi is off,
\* but for one case: a connection that the listener thread had accepted and not
\* yet put into `sockets` when disable closed the rest.
OnlyPairedServed ==
    \A c \in Conns : phone[c] = "serving" /\ c \notin shut =>
        /\ shown[c] = secret
        /\ listening \/ c \in late

\* A link whose profile is removed goes, although wifi_loop may be about to add it
\* and may stand still in another connection (wifi_loop).
UnpairedLeaves ==
    \A m \in Computers :
        (profile[m] = None /\ link[m] # None) ~> (profile[m] # None \/ link[m] = None)

Reachable(m) == listening /\ profile[m] = secret

\* "It reconnects while the phone's Wi-Fi listener is enabled" (README.md:49): a
\* computer that has the secret of now is connected again and again.
Reconnects ==
    \A m \in Computers : []<>(Reachable(m) => link[m] # None)
=============================================================================
