----------------------------- MODULE WifiProofs -----------------------------
(***************************************************************************)
(* The phone serves only paired computers, for any number of computers,    *)
(* connections and slots.                                                  *)
(***************************************************************************)
EXTENDS Wifi, FiniteSetTheorems, TLAPS

Phases == {"none", "backlog", "accepted", "reading", "serving", "closing"}

\* What EXCEPT needs to know of the variables.
Shapes ==
    /\ phone \in [Conns -> Phases]
    /\ shown = [c \in Conns |-> shown[c]]

\* A thread past List is in `sockets`, where disable and reset find it.
ThreadsListed ==
    \A c \in Conns : phone[c] \in {"reading", "serving", "closing"} => c \in sockets

\* A connection whose socket is open was accepted by a listener that is open, or
\* was between accept and `sockets` when the listener was closed.
OpenOrLate ==
    \A c \in Conns : phone[c] \in {"accepted", "reading", "serving"} /\ c \notin shut =>
        listening \/ c \in late

\* Whoever is served has shown what is the secret now.
ServedProved ==
    \A c \in Conns : phone[c] = "serving" /\ c \notin shut => shown[c] = secret

IndInv == Shapes /\ ThreadsListed /\ OpenOrLate /\ ServedProved

\* The parts of the invariant speak of these only, of the computers not at all.
seenVars == <<listening, secret, sockets, phone, shut, shown, late>>

-----------------------------------------------------------------------------
(* The pieces the actions are made of.                                     *)

\* A new connection is one that nobody has, and it waits in the backlog.
LEMMA ConnectKeeps ==
    ASSUME IndInv, NEW s, Connect(s), UNCHANGED late
    PROVE  IndInv'
<1>1. New \in Unused
  BY DEF Connect, New
<1>2. New \in Conns /\ phone[New] = "none"
  BY <1>1 DEF Unused
<1>3. Shapes'
  BY <1>2 DEF Connect, IndInv, Shapes, Phases
<1>4. \A c \in Conns : phone'[c] \notin {"none", "backlog"} =>
         /\ phone'[c] = phone[c] /\ shown'[c] = shown[c]
         /\ c \in shut' <=> c \in shut
  BY <1>2 DEF Connect, IndInv, Shapes, Phases
<1>5. UNCHANGED <<listening, secret, sockets>>
  BY DEF Connect
<1>. QED
  BY <1>3, <1>4, <1>5 DEF IndInv, ThreadsListed, OpenOrLate, ServedProved

\* A computer that closes its end leaves the phone's state alone.
LEMMA ClosedKeeps ==
    ASSUME IndInv, NEW c, Closed(c), UNCHANGED late
    PROVE  IndInv'
<1>1. UNCHANGED <<listening, secret, sockets, phone, shut>>
  BY DEF Closed, phoneVars
<1>2. /\ shown' = [d \in Conns |-> shown'[d]]
      /\ \A d \in Conns : phone[d] # "none" => shown'[d] = shown[d]
  BY <1>1 DEF Closed, Tidy
<1>. QED
  BY <1>1, <1>2 DEF IndInv, Shapes, ThreadsListed, OpenOrLate, ServedProved

\* disable closes whoever is past List, and history marks who is before it:
\* what listener and secret are afterwards does not matter.
LEMMA DisableKeeps ==
    ASSUME IndInv, Disable
    PROVE  IndInv'
<1>1. Shapes'
  BY DEF Disable, Tidy, IndInv, Shapes, Phases
<1>2. \A c \in Conns : phone'[c] \in {"accepted", "reading", "serving", "closing"} =>
         phone'[c] = phone[c]
  BY DEF Disable, IndInv, Shapes, Phases
<1>3. \A c \in Conns : phone'[c] \in {"reading", "serving", "closing"} =>
         c \in sockets' /\ c \in shut'
  BY <1>2 DEF Disable, Listed, IndInv, ThreadsListed
<1>4. \A c \in Conns : phone'[c] = "accepted" => c \in late'
  BY <1>2 DEF Disable
<1>. QED
  BY <1>1, <1>3, <1>4 DEF IndInv, ThreadsListed, OpenOrLate, ServedProved

-----------------------------------------------------------------------------
(* The steps.                                                              *)

\* The listener and the threads of the connections.
LEMMA PhoneThreadKeeps ==
    ASSUME IndInv, NEW c \in Conns, PhoneThread(c)
    PROVE  IndInv'
<1>. USE DEF IndInv, Shapes, Phases, ThreadsListed, OpenOrLate, ServedProved
<1>1. CASE Accept(c)
  <2>1. UNCHANGED <<listening, secret, sockets, late>> /\ listening
    BY <1>1 DEF Accept
  <2>2. phone' \in [Conns -> Phases]
    BY <1>1 DEF Accept
  <2>3. \A d \in Conns : phone'[d] # "none" => shown'[d] = shown[d]
    BY <1>1 DEF Accept, Tidy
  <2>4. shown' = [d \in Conns |-> shown'[d]]
    BY <1>1 DEF Accept, Tidy
  <2>5. \A d \in Conns : phone'[d] \in {"reading", "serving", "closing"} =>
           phone'[d] = phone[d] /\ (d \notin shut' => d \notin shut)
    BY <1>1 DEF Accept
  <2>. QED
    BY <2>1, <2>2, <2>3, <2>4, <2>5
<1>2. CASE List(c)
  BY <1>2 DEF List, connVars
<1>3. CASE Check(c)
  BY <1>3 DEF Check, Proves, connVars
<1>4. CASE ReadFails(c)
  BY <1>4 DEF ReadFails, connVars
<1>5. CASE End(c)
  <2>1. UNCHANGED <<listening, secret>> /\ late' = late \ {c} /\ sockets' = sockets \ {c}
    BY <1>5 DEF End
  <2>2. phone' = [phone EXCEPT ![c] = "none"] /\ shut' = shut \cup {c}
    BY <1>5 DEF End
  <2>3. \A d \in Conns : phone'[d] # "none" => shown'[d] = shown[d]
    BY <1>5 DEF End, Tidy
  <2>4. shown' = [d \in Conns |-> shown'[d]]
    BY <1>5 DEF End, Tidy
  <2>. QED
    BY <2>1, <2>2, <2>3, <2>4
<1>. QED
  BY <1>1, <1>2, <1>3, <1>4, <1>5 DEF PhoneThread

\* A step that touches nothing the invariant speaks of.
LEMMA Elsewhere ==
    ASSUME IndInv, UNCHANGED seenVars
    PROVE  IndInv'
  BY DEF seenVars, IndInv, Shapes, ThreadsListed, OpenOrLate, ServedProved

\* The user and the system.
LEMMA UseKeeps ==
    ASSUME IndInv, SwitchOff \/ SwitchOn \/ Reset \/ Restart
    PROVE  IndInv'
<1>1. CASE Disable
  BY <1>1, DisableKeeps
<1>2. ASSUME SwitchOn, ~Disable
      PROVE  IndInv'
  <2>1. listening' /\ UNCHANGED <<secret, sockets, phone, shut, shown, late>>
    BY <1>2 DEF SwitchOn, connVars
  <2>. QED
    BY <2>1 DEF IndInv, Shapes, ThreadsListed, OpenOrLate, ServedProved
<1>3. CASE Restart
  BY <1>3 DEF Restart, Tidy, IndInv, Shapes, Phases, ThreadsListed, OpenOrLate,
              ServedProved
<1>. QED
  BY <1>1, <1>2, <1>3 DEF SwitchOff, Reset

\* The commands and loops of a computer.
LEMMA ComputerKeeps ==
    ASSUME IndInv, NEW m \in Computers,
           \/ Loop(m) \/ LinkEnds(m) \/ PairEnd(m) \/ Remove(m)
           \/ \E s \in 0 .. secret : PairConnect(m, s)
    PROVE  IndInv'
<1>1. ASSUME NEW s, PairConnect(m, s)
      PROVE  IndInv'
  BY <1>1, ConnectKeeps DEF PairConnect
<1>2. CASE PairEnd(m)
  BY <1>2, ClosedKeeps DEF PairEnd
<1>3. CASE Remove(m)
  BY <1>3, Elsewhere DEF Remove, seenVars, phoneVars, connVars
<1>4. CASE LinkEnds(m)
  BY <1>4, ClosedKeeps DEF LinkEnds
<1>5. CASE Load(m)
  <2>1. CASE Unwanted(m)
    BY <1>5, <2>1, ClosedKeeps DEF Load
  <2>2. CASE ~Unwanted(m)
    BY <1>5, <2>2, Elsewhere DEF Load, seenVars, phoneVars, connVars
  <2>. QED
    BY <2>1, <2>2
<1>6. CASE RoundEnds(m)
  BY <1>6, Elsewhere DEF RoundEnds, seenVars, phoneVars, connVars
<1>7. CASE Dial(m)
  BY <1>7, ConnectKeeps DEF Dial
<1>8. CASE DialEnd(m)
  <2>1. UNCHANGED late
    BY <1>8 DEF DialEnd
  <2>2. \/ UNCHANGED <<phoneVars, shown>>
        \/ Closed(dial[m])
    BY <1>8 DEF DialEnd
  <2>. QED
    BY <2>1, <2>2, ClosedKeeps, Elsewhere DEF seenVars, phoneVars
<1>. QED
  BY <1>1, <1>2, <1>3, <1>4, <1>5, <1>6, <1>7, <1>8 DEF Loop

-----------------------------------------------------------------------------

\* The invariant holds throughout.
LEMMA Inductive == Spec => []IndInv
<1>1. Init => IndInv
  BY DEF Init, IndInv, Shapes, Phases, ThreadsListed, OpenOrLate, ServedProved
<1>2. IndInv /\ [Next]_vars => IndInv'
  <2>. SUFFICES ASSUME IndInv, [Next]_vars
                PROVE  IndInv'
    OBVIOUS
  <2>1. ASSUME NEW c \in Conns, PhoneThread(c)
        PROVE  IndInv'
    BY <2>1, PhoneThreadKeeps
  <2>2. ASSUME NEW c \in Conns, Vanish(c)
        PROVE  IndInv'
    BY <2>2, Elsewhere DEF Vanish, seenVars, phoneVars
  <2>3. CASE SwitchOff \/ SwitchOn \/ Reset \/ Restart
    BY <2>3, UseKeeps
  <2>4. ASSUME NEW m \in Computers,
               \/ Loop(m) \/ LinkEnds(m) \/ PairEnd(m) \/ Remove(m)
               \/ \E s \in 0 .. secret : PairConnect(m, s)
        PROVE  IndInv'
    BY <2>4, ComputerKeeps
  <2>5. CASE UNCHANGED vars
    BY <2>5, Elsewhere DEF vars, seenVars, phoneVars, connVars
  <2>. QED
    BY <2>1, <2>2, <2>3, <2>4, <2>5 DEF Next
<1>. QED
  BY <1>1, <1>2, PTL DEF Spec

\* Whatever computers pair, connect, vanish or are removed, and whenever the user
\* switches Wi-Fi off or forgets all computers: who is served has the secret of
\* now, and is served by an open listener but for the one that was being accepted
\* (WifiTransport.listen, disable, reset).
THEOREM NobodyElseServed == Spec => []OnlyPairedServed
<1>1. IndInv => OnlyPairedServed
  BY DEF IndInv, OpenOrLate, ServedProved, OnlyPairedServed
<1>. QED
  BY <1>1, Inductive, PTL

-----------------------------------------------------------------------------
(* The types, and the permits.                                             *)

\* What each variable holds; the secret moves only with a change on the phone, so
\* the bound of those bounds it too.
Typed ==
    /\ enabled \in BOOLEAN /\ listening \in BOOLEAN
    /\ uses \in 0 .. MaxUses /\ secret \in 0 .. uses
    /\ phone \in [Conns -> Phases]
    /\ far \in [Conns -> {"none", "connect", "open"}]
    /\ shown \in [Conns -> Secrets \cup {None}]
    /\ shut \subseteq Conns /\ dead \subseteq Conns /\ late \subseteq Conns
    /\ profile \in [Computers -> Secrets \cup {None}]
    /\ wanted \in [Computers -> Secrets \cup {None}]
    /\ trial \in [Computers -> Conns \cup {None}]
    /\ dial \in [Computers -> Conns \cup {None}]
    /\ link \in [Computers -> Conns \cup {None}]

HoldingPhases == {"accepted", "reading", "serving", "closing"}

\* Every permit is free or held by the thread of one connection.
Permits == free \in Nat /\ free + Cardinality(Holding) = Slots

TypeInv == Typed /\ sockets \subseteq Holding /\ Permits

\* The computers' variables, whose types the pieces of a step say nothing of.
ComputersTyped ==
    /\ profile \in [Computers -> Secrets \cup {None}]
    /\ wanted \in [Computers -> Secrets \cup {None}]
    /\ trial \in [Computers -> Conns \cup {None}]
    /\ dial \in [Computers -> Conns \cup {None}]
    /\ link \in [Computers -> Conns \cup {None}]

LEMMA HoldingFinite == IsFiniteSet(Holding) /\ Cardinality(Holding) \in Nat
<1>1. Holding \subseteq Conns /\ IsFiniteSet(Conns)
  BY WifiAssumption DEF Holding
<1>. QED
  BY <1>1, FS_Subset, FS_CardinalityType

\* What Holding is after a step, connection by connection.
LEMMA HoldingIs ==
    ASSUME NEW S, S \subseteq Conns,
           \A d \in Conns : d \in S <=> phone'[d] \in HoldingPhases
    PROVE  Holding' = S
  BY DEF Holding, HoldingPhases

\* A step that moves no connection into or out of the threads' hands.
LEMMA HoldingSame ==
    ASSUME \A d \in Conns : phone'[d] \in HoldingPhases <=> phone[d] \in HoldingPhases
    PROVE  Holding' = Holding
  BY DEF Holding, HoldingPhases

\* A connection takes a permit, and gives it back.
LEMMA PermitTaken ==
    ASSUME Permits, NEW c \in Conns, c \notin Holding, Holding' = Holding \cup {c},
           free > 0, free' = free - 1
    PROVE  Permits'
<1>1. Cardinality(Holding \cup {c}) = Cardinality(Holding) + 1
  BY HoldingFinite, FS_AddElement
<1>. QED
  BY <1>1, HoldingFinite DEF Permits

LEMMA PermitReleased ==
    ASSUME Permits, NEW c \in Holding, Holding' = Holding \ {c}, free' = free + 1
    PROVE  Permits'
<1>1. Cardinality(Holding \ {c}) = Cardinality(Holding) - 1
  BY HoldingFinite, FS_RemoveElement
<1>. QED
  BY <1>1, HoldingFinite DEF Permits

\* The secrets a computer can know are those the phone has had.
LEMMA KnownSecrets ==
    ASSUME Typed
    PROVE  secret \in Secrets /\ 0 .. secret \subseteq Secrets
  BY WifiAssumption DEF Typed, Secrets

\* Tidy forgets the secrets of the connections that both ends have closed.
LEMMA TidyTyped ==
    ASSUME Typed, Tidy
    PROVE  shown' \in [Conns -> Secrets \cup {None}] /\ dead' \subseteq Conns
  BY DEF Tidy, Typed

LEMMA ConnectTyped ==
    ASSUME TypeInv, NEW s \in Secrets, Connect(s), UNCHANGED <<late, uses>>,
           New \in Conns => ComputersTyped'
    PROVE  TypeInv'
<1>1. New \in Unused
  BY DEF Connect, New
<1>2. New \in Conns /\ phone[New] = "none"
  BY <1>1 DEF Unused
<1>3. Typed'
  BY <1>2 DEF Connect, TypeInv, Typed, Phases, ComputersTyped
<1>4. \A d \in Conns : phone'[d] \in HoldingPhases <=> phone[d] \in HoldingPhases
  BY <1>2 DEF Connect, TypeInv, Typed, HoldingPhases
<1>5. Holding' = Holding
  BY <1>4, HoldingSame
<1>6. UNCHANGED <<free, sockets>>
  BY DEF Connect
<1>. QED
  BY <1>3, <1>5, <1>6 DEF TypeInv, Permits

\* The phone's part of a step that leaves the phone alone.
LEMMA PhoneSame ==
    ASSUME TypeInv, UNCHANGED phoneVars
    PROVE  (sockets \subseteq Holding /\ Permits)'
  BY DEF TypeInv, phoneVars, Permits, Holding

LEMMA ClosedTyped ==
    ASSUME TypeInv, NEW c, Closed(c), UNCHANGED <<late, uses>>, ComputersTyped'
    PROVE  TypeInv'
<1>1. UNCHANGED phoneVars
  BY DEF Closed
<1>2. far' \in [Conns -> {"none", "connect", "open"}]
  BY DEF Closed, TypeInv, Typed
<1>3. shown' \in [Conns -> Secrets \cup {None}] /\ dead' \subseteq Conns
  BY TidyTyped DEF Closed, TypeInv
<1>4. Typed'
  BY <1>1, <1>2, <1>3 DEF TypeInv, Typed, ComputersTyped, phoneVars
<1>. QED
  BY <1>1, <1>4, PhoneSame DEF TypeInv

\* disable: whatever becomes of the switch, the listener and the secret.
LEMMA DisableTyped ==
    ASSUME TypeInv, Disable, enabled' \in BOOLEAN, listening' \in BOOLEAN,
           uses' \in 0 .. MaxUses, secret' \in 0 .. uses'
    PROVE  TypeInv'
<1>1. UNCHANGED <<free, sockets, far, profile, wanted, trial, dial, link>>
  BY DEF Disable, computerVars
<1>2. phone' \in [Conns -> Phases]
  BY DEF Disable, TypeInv, Typed, Phases
<1>3. shown' \in [Conns -> Secrets \cup {None}] /\ dead' \subseteq Conns
  BY TidyTyped DEF Disable, TypeInv
<1>4. shut' \subseteq Conns /\ late' \subseteq Conns
  BY DEF Disable, Listed, Holding, TypeInv, Typed
<1>5. Typed'
  BY <1>1, <1>2, <1>3, <1>4 DEF TypeInv, Typed
<1>6. \A d \in Conns : phone'[d] \in HoldingPhases <=> phone[d] \in HoldingPhases
  BY DEF Disable, HoldingPhases
<1>7. Holding' = Holding
  BY <1>6, HoldingSame
<1>. QED
  BY <1>1, <1>5, <1>7 DEF TypeInv, Permits

LEMMA PhoneThreadTyped ==
    ASSUME TypeInv, NEW c \in Conns, PhoneThread(c)
    PROVE  TypeInv'
<1>. USE DEF TypeInv
<1>1. CASE Accept(c)
  <2>1. UNCHANGED <<enabled, listening, secret, uses, sockets, far, late,
                    profile, wanted, trial, dial, link>>
    BY <1>1 DEF Accept, computerVars, bounds
  <2>2. phone' \in [Conns -> Phases] /\ shut' \subseteq Conns
    BY <1>1 DEF Accept, Typed, Phases
  <2>3. shown' \in [Conns -> Secrets \cup {None}] /\ dead' \subseteq Conns
    BY <1>1, TidyTyped DEF Accept
  <2>4. Typed'
    BY <2>1, <2>2, <2>3 DEF Typed
  <2>5. CASE free > 0
    <3>1. /\ free' = free - 1 /\ c \notin Holding
          /\ phone' = [phone EXCEPT ![c] = "accepted"]
      BY <1>1, <2>5 DEF Accept, Holding
    <3>2. \A d \in Conns : d \in Holding \cup {c} <=> phone'[d] \in HoldingPhases
      BY <3>1 DEF Typed, Holding, HoldingPhases
    <3>3. Holding' = Holding \cup {c}
      BY <3>2, HoldingIs DEF Holding
    <3>. QED
      BY <2>1, <2>4, <2>5, <3>1, <3>3, PermitTaken
  <2>6. CASE ~(free > 0)
    <3>1. \A d \in Conns : phone'[d] \in HoldingPhases <=> phone[d] \in HoldingPhases
      BY <1>1, <2>6 DEF Accept, Typed, HoldingPhases
    <3>2. Holding' = Holding /\ free' = free
      BY <1>1, <2>6, <3>1, HoldingSame DEF Accept
    <3>. QED
      BY <2>1, <2>4, <3>2 DEF Permits
  <2>. QED
    BY <2>5, <2>6
<1>2. CASE List(c)
  <2>1. Typed'
    BY <1>2 DEF List, Typed, Phases, connVars, computerVars, bounds
  <2>2. \A d \in Conns : phone'[d] \in HoldingPhases <=> phone[d] \in HoldingPhases
    BY <1>2 DEF List, Typed, HoldingPhases
  <2>3. Holding' = Holding /\ c \in Holding
    BY <1>2, <2>2, HoldingSame DEF List, Holding
  <2>. QED
    BY <1>2, <2>1, <2>3 DEF List, Permits
<1>3. CASE Check(c) \/ ReadFails(c)
  <2>1. UNCHANGED <<enabled, listening, secret, free, sockets, shut, connVars,
                    computerVars, bounds, late>>
    BY <1>3 DEF Check, ReadFails
  <2>2. /\ phone[c] \in HoldingPhases
        /\ phone' = [phone EXCEPT ![c] = "serving"] \/ phone' = [phone EXCEPT ![c] = "closing"]
    BY <1>3 DEF Check, ReadFails, HoldingPhases
  <2>3. Typed'
    BY <2>1, <2>2 DEF Typed, Phases, connVars, computerVars, bounds
  <2>4. Holding' = Holding
    BY <2>2, HoldingSame DEF Typed, HoldingPhases
  <2>. QED
    BY <2>1, <2>3, <2>4 DEF Permits
<1>4. CASE End(c)
  <2>1. UNCHANGED <<enabled, listening, secret, uses, far,
                    profile, wanted, trial, dial, link>>
    BY <1>4 DEF End, computerVars, bounds
  <2>2. /\ phone' = [phone EXCEPT ![c] = "none"] /\ phone[c] = "closing"
        /\ shut' = shut \cup {c} /\ late' = late \ {c}
        /\ sockets' = sockets \ {c} /\ free' = free + 1
    BY <1>4 DEF End, Released
  <2>3. shown' \in [Conns -> Secrets \cup {None}] /\ dead' \subseteq Conns
    BY <1>4, TidyTyped DEF End
  <2>4. Typed'
    BY <2>1, <2>2, <2>3 DEF Typed, Phases
  <2>5. c \in Holding
    BY <2>2 DEF Holding
  <2>6. \A d \in Conns : d \in Holding \ {c} <=> phone'[d] \in HoldingPhases
    BY <2>2 DEF Typed, Holding, HoldingPhases
  <2>7. Holding' = Holding \ {c}
    BY <2>6, HoldingIs DEF Holding
  <2>. QED
    BY <2>2, <2>4, <2>5, <2>7, PermitReleased
<1>. QED
  BY <1>1, <1>2, <1>3, <1>4 DEF PhoneThread

LEMMA UseTyped ==
    ASSUME TypeInv, SwitchOff \/ SwitchOn \/ Reset \/ Restart
    PROVE  TypeInv'
<1>1. uses' \in 0 .. MaxUses /\ uses' = uses + 1 /\ uses \in Nat /\ secret \in 0 .. uses
  <2>1. uses \in 0 .. MaxUses /\ secret \in 0 .. uses
    BY DEF TypeInv, Typed
  <2>2. uses < MaxUses /\ uses' = uses + 1
    BY DEF SwitchOff, SwitchOn, Reset, Restart, Used
  <2>. QED
    BY <2>1, <2>2, WifiAssumption
<1>2. enabled' \in BOOLEAN /\ listening' \in BOOLEAN /\ secret' \in 0 .. uses'
  <2>1. enabled' \in BOOLEAN /\ listening' \in BOOLEAN
    BY DEF SwitchOff, SwitchOn, Reset, Restart, TypeInv, Typed
  <2>2. secret' = secret \/ secret' = secret + 1
    BY DEF SwitchOff, SwitchOn, Reset, Restart
  <2>. QED
    BY <1>1, <2>1, <2>2
<1>3. CASE Disable
  BY <1>1, <1>2, <1>3, DisableTyped
<1>4. ASSUME SwitchOn, ~Disable
      PROVE  TypeInv'
  <2>1. UNCHANGED <<free, sockets, phone, shut, connVars, computerVars, late>>
    BY <1>4 DEF SwitchOn
  <2>2. Typed'
    BY <1>1, <1>2, <2>1 DEF TypeInv, Typed, connVars, computerVars
  <2>. QED
    BY <2>1, <2>2 DEF TypeInv, Permits, Holding
<1>5. CASE Restart
  <2>1. /\ free' = Slots /\ sockets' = {} /\ late' = {}
        /\ shut' = shut \cup {c \in Conns : phone[c] # "none"}
        /\ phone' = [c \in Conns |-> "none"]
        /\ UNCHANGED <<far, profile, wanted, trial, dial, link>>
    BY <1>5 DEF Restart, computerVars
  <2>2. shown' \in [Conns -> Secrets \cup {None}] /\ dead' \subseteq Conns
    BY <1>5, TidyTyped DEF Restart, TypeInv
  <2>3. Typed'
    BY <1>1, <1>2, <2>1, <2>2 DEF TypeInv, Typed, Phases
  <2>4. Holding' = {}
    BY <2>1 DEF Holding
  <2>. QED
    BY <2>1, <2>3, <2>4, FS_EmptySet, WifiAssumption DEF TypeInv, Permits
<1>. QED
  BY <1>3, <1>4, <1>5 DEF SwitchOff, Reset

LEMMA ComputerTyped ==
    ASSUME TypeInv, NEW m \in Computers,
           \/ Loop(m) \/ LinkEnds(m) \/ PairEnd(m) \/ Remove(m)
           \/ \E s \in 0 .. secret : PairConnect(m, s)
    PROVE  TypeInv'
<1>. USE DEF TypeInv
<1>1. ComputersTyped /\ None \notin Conns \cup Secrets
  BY WifiAssumption DEF Typed, ComputersTyped, Secrets
<1>2. ASSUME NEW s \in 0 .. secret, PairConnect(m, s)
      PROVE  TypeInv'
  <2>1. New \in Conns => ComputersTyped'
    BY <1>1, <1>2 DEF PairConnect, ComputersTyped
  <2>2. s \in Secrets
    BY KnownSecrets
  <2>3. Connect(s) /\ UNCHANGED <<late, uses>>
    BY <1>2 DEF PairConnect
  <2>. QED
    BY <2>1, <2>2, <2>3, ConnectTyped
<1>3. CASE PairEnd(m)
  <2>1. trial[m] \in Conns /\ shown[trial[m]] \in Secrets \cup {None}
    BY <1>3 DEF PairEnd, Typed
  <2>2. ComputersTyped'
    BY <1>1, <1>3, <2>1 DEF PairEnd, ComputersTyped
  <2>. QED
    BY <1>3, <2>2, ClosedTyped DEF PairEnd, bounds
<1>4. CASE Remove(m)
  <2>1. UNCHANGED <<phoneVars, connVars, late, uses>> /\ ComputersTyped'
    BY <1>1, <1>4 DEF Remove, ComputersTyped
  <2>. QED
    BY <2>1, PhoneSame DEF Typed, ComputersTyped, phoneVars, connVars
<1>5. CASE LinkEnds(m)
  <2>1. ComputersTyped'
    BY <1>1, <1>5 DEF LinkEnds, ComputersTyped
  <2>. QED
    BY <1>5, <2>1, ClosedTyped DEF LinkEnds, bounds
<1>6. CASE Load(m)
  <2>1. ComputersTyped' /\ UNCHANGED <<late, uses>>
    BY <1>1, <1>6 DEF Load, ComputersTyped, bounds
  <2>2. CASE Unwanted(m)
    BY <1>6, <2>1, <2>2, ClosedTyped DEF Load
  <2>3. CASE ~Unwanted(m)
    <3>1. UNCHANGED <<phoneVars, connVars>>
      BY <1>6, <2>3 DEF Load
    <3>. QED
      BY <2>1, <3>1, PhoneSame DEF Typed, ComputersTyped, phoneVars, connVars
  <2>. QED
    BY <2>2, <2>3
<1>7. CASE RoundEnds(m)
  <2>1. UNCHANGED <<phoneVars, connVars, late, uses>> /\ ComputersTyped'
    BY <1>1, <1>7 DEF RoundEnds, ComputersTyped, bounds
  <2>. QED
    BY <2>1, PhoneSame DEF Typed, ComputersTyped, phoneVars, connVars
<1>8. CASE Dial(m)
  <2>1. New \in Conns => ComputersTyped'
    BY <1>1, <1>8 DEF Dial, ComputersTyped
  <2>2. wanted[m] \in Secrets
    BY <1>1, <1>8 DEF Dial, ComputersTyped
  <2>3. Connect(wanted[m]) /\ UNCHANGED <<late, uses>>
    BY <1>8 DEF Dial, bounds
  <2>. QED
    BY <2>1, <2>2, <2>3, ConnectTyped
<1>9. CASE DialEnd(m)
  <2>1. dial[m] \in Conns /\ UNCHANGED <<late, uses>>
    BY <1>1, <1>9 DEF DialEnd, ComputersTyped, bounds
  <2>2. ComputersTyped'
    BY <1>1, <1>9, <2>1 DEF DialEnd, ComputersTyped
  <2>3. CASE Closed(dial[m])
    BY <2>1, <2>2, <2>3, ClosedTyped
  <2>4. CASE ~Closed(dial[m])
    <3>1. /\ UNCHANGED <<phoneVars, shown, dead>>
          /\ far' = [far EXCEPT ![dial[m]] = "open"]
      BY <1>9, <2>4 DEF DialEnd
    <3>. QED
      BY <2>1, <2>2, <3>1, PhoneSame DEF Typed, ComputersTyped, phoneVars
  <2>. QED
    BY <2>3, <2>4
<1>. QED
  BY <1>2, <1>3, <1>4, <1>5, <1>6, <1>7, <1>8, <1>9 DEF Loop

\* Every variable keeps its type, and the permits add up: no connection's thread
\* ends without giving its slot back and none gives it back twice, however disable,
\* reset and a restart of the app meet it (WifiTransport.listen).
THEOREM TypeCorrect == Spec => []TypeOK
<1>1. Init => TypeInv
  <2>. SUFFICES ASSUME Init
                PROVE  TypeInv
    OBVIOUS
  <2>1. Typed
    BY WifiAssumption DEF Init, Typed, Phases, Secrets
  <2>2. Holding = {}
    BY DEF Init, Holding
  <2>. QED
    BY <2>1, <2>2, FS_EmptySet, WifiAssumption DEF Init, TypeInv, Permits
<1>2. TypeInv /\ [Next]_vars => TypeInv'
  <2>. SUFFICES ASSUME TypeInv, [Next]_vars
                PROVE  TypeInv'
    OBVIOUS
  <2>1. ASSUME NEW c \in Conns, PhoneThread(c)
        PROVE  TypeInv'
    BY <2>1, PhoneThreadTyped
  <2>2. ASSUME NEW c \in Conns, Vanish(c)
        PROVE  TypeInv'
    <3>1. UNCHANGED <<phoneVars, far, shown, computerVars, uses, late>>
          /\ dead' = dead \cup {c}
      BY <2>2 DEF Vanish
    <3>. QED
      BY <3>1, PhoneSame DEF TypeInv, Typed, phoneVars, computerVars
  <2>3. CASE SwitchOff \/ SwitchOn \/ Reset \/ Restart
    BY <2>3, UseTyped
  <2>4. ASSUME NEW m \in Computers,
               \/ Loop(m) \/ LinkEnds(m) \/ PairEnd(m) \/ Remove(m)
               \/ \E s \in 0 .. secret : PairConnect(m, s)
        PROVE  TypeInv'
    BY <2>4, ComputerTyped
  <2>5. CASE UNCHANGED vars
    <3>1. UNCHANGED <<phoneVars, connVars, computerVars, bounds, late>>
      BY <2>5 DEF vars
    <3>. QED
      BY <3>1, PhoneSame DEF TypeInv, Typed, phoneVars, connVars, computerVars, bounds
  <2>. QED
    BY <2>1, <2>2, <2>3, <2>4, <2>5 DEF Next
<1>3. TypeInv => TypeOK
  BY KnownSecrets DEF TypeInv, Typed, Permits, TypeOK, Phases
<1>. QED
  BY <1>1, <1>2, <1>3, PTL DEF Spec
=============================================================================
