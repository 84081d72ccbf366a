------------------------------ MODULE Presence ------------------------------
(***************************************************************************)
(* Which phones the daemon says are connected, and whether the virtual     *)
(* FIDO device exists (src/src/daemon.rs): Daemon.links, the file          *)
(* /run/passkey/devices, and the UHID device with its reader threads.      *)
(*                                                                         *)
(* Threads: one per link (the discovery loop inside add, then the link's   *)
(* reader, then remove) and one per UHID device (read_uhid).  Both kinds   *)
(* run publish and sync_uhid, which look at the links first and act on     *)
(* what they saw later.                                                    *)
(*                                                                         *)
(* Abstracted: labels and the order of the lines in the file, the bytes of *)
(* UHID events, and what packet and cancel do (module Broker).             *)
(***************************************************************************)
EXTENDS Naturals, FiniteSets

CONSTANTS
    Links,        \* Link objects the discovery loops may create
    DeviceOf,     \* their phones
    NameOf,       \* their names: a loop does not add a name that is live
    LoopOf,       \* the loop that discovers the link
    Handed,       \* links BlueZ hands over instead, each on a thread of its own
    MaxDevices,   \* bound: UHID devices created
    MaxErrors,    \* bound: failures to open or to read /dev/uhid
    None          \* no file

Generations == 1 .. MaxDevices
Threads     == Links \cup Generations
Phones      == {DeviceOf[l] : l \in Links}

ASSUME PresenceAssumption ==
    /\ DOMAIN DeviceOf = Links /\ DOMAIN NameOf = Links /\ DOMAIN LoopOf = Links
    /\ IsFiniteSet(Links) /\ Handed \subseteq Links
    /\ MaxDevices \in Nat /\ MaxErrors \in Nat
    /\ Links \cap Generations = {}
    /\ \A S \in SUBSET Phones : S # None

VARIABLES
    list,        \* Daemon.links
    alive,       \* Link.alive
    up,          \* links whose stream still delivers
    pc,          \* where each thread stands
    leaving,     \* links whose thread is in remove, no longer in add
    before,      \* remove's local: links.len() before retain
    text,        \* publish's local: the phones it is about to write
    temp,        \* /run/passkey/devices.new, or None
    devices,     \* /run/passkey/devices
    device,      \* TRUE: UhidState.file is some
    generation,  \* UhidState.generation
    next,        \* Daemon.next_generation
    errors,      \* UHID failures so far
    unlucky,     \* history: the last attempt to create the device failed
    raced,       \* history: the last create or destroy acted on links that had changed
    stale,       \* history: so did the last write of the devices file
    failed       \* history: devices whose event stream failed

linkVars == <<list, alive, up>>
threadVars == <<pc, leaving, before, text>>
fileVars == <<temp, devices>>
uhidVars == <<device, generation, next, errors>>
history  == <<unlucky, raced, stale, failed>>
vars == <<linkVars, threadVars, fileVars, uhidVars, history>>

Live      == {l \in list : alive[l]}

\* A plausible bug: links are listed where their phones are meant.
LiveNames == Live
Connected == {DeviceOf[l] : l \in Live}

Init ==
    /\ list = {} /\ alive = [l \in Links |-> TRUE] /\ up = [l \in Links |-> TRUE]
    /\ pc = [t \in Threads |-> "none"]
    /\ leaving = {}
    /\ before = [l \in Links |-> 0]
    /\ text = [l \in Links |-> {}]
    /\ temp = None /\ devices = {}
    /\ device = FALSE /\ generation = 0 /\ next = 1 /\ errors = 0
    /\ unlucky = FALSE /\ raced = FALSE /\ stale = FALSE /\ failed = {}

Goto(t, s) == pc' = [pc EXCEPT ![t] = s]

-----------------------------------------------------------------------------
(* The links.                                                              *)

Adding(l) == l \notin leaving /\ pc[l] \notin {"none", "read"}

NameFree(l) == \A m \in Live : NameOf[m] # NameOf[l]

\* add: links.push.
Join(l) ==
    /\ pc[l] = "none"
    /\ list' = list \cup {l}
    /\ Goto(l, "publish")
    /\ UNCHANGED <<alive, up, leaving, before, text, fileVars, uhidVars, history>>

\* wifi_loop and adb_loop: one link after the other, none whose name is live.
Discover(l) ==
    /\ l \notin Handed /\ NameFree(l)
    /\ \A m \in Links \ Handed : LoopOf[m] = LoopOf[l] => ~Adding(m)
    /\ Join(l)

\* BlueZ's new_connection: a thread per link, and no look at the names.
NewConnection(l) == l \in Handed /\ Join(l)

\* The phone goes away.
Break(l) ==
    /\ l \in list /\ up[l]
    /\ up' = [up EXCEPT ![l] = FALSE]
    /\ UNCHANGED <<list, alive, threadVars, fileVars, uhidVars, history>>

\* A plausible bug: the stream is left open and its reader keeps reading.
LeftOpen(l) == up
Shut(l) == [up EXCEPT ![l] = FALSE]

\* Link.close by keepalive_loop (no PONG), wifi_loop (profile removed) or
\* BlueZ's request_disconnection.
Kill(l) ==
    /\ l \in Live
    /\ alive' = [alive EXCEPT ![l] = FALSE]
    /\ up' = Shut(l)
    /\ UNCHANGED <<list, threadVars, fileVars, uhidVars, history>>

\* read_link ends with its stream; the reader closes the link itself.
EndRead(l) ==
    /\ pc[l] = "read" /\ ~up[l]
    /\ alive' = [alive EXCEPT ![l] = FALSE]
    /\ leaving' = leaving \cup {l}
    /\ Goto(l, "retain")
    /\ UNCHANGED <<list, up, before, text, fileVars, uhidVars, history>>

\* remove: the length, then retain, under one lock.
Retain(l) ==
    /\ pc[l] = "retain"
    /\ before' = [before EXCEPT ![l] = Cardinality(list)]
    /\ list' = list \ {l}
    /\ Goto(l, "count")
    /\ UNCHANGED <<alive, up, leaving, text, fileVars, uhidVars, history>>

\* A plausible bug: the length is taken after retain.
GrewSince(l) == before[l] - 1 # Cardinality(list)

\* remove's test, under the lock again: another thread may have added a link.
Changed(l) == before[l] # Cardinality(list)

Count(l) ==
    /\ pc[l] = "count"
    /\ Goto(l, IF Changed(l) THEN "publish" ELSE "gone")
    /\ UNCHANGED <<linkVars, leaving, before, text, fileVars, uhidVars, history>>

-----------------------------------------------------------------------------
(* publish: look, write the temporary file, rename it.                     *)

Look(l) ==
    /\ pc[l] = "publish"
    /\ text' = [text EXCEPT ![l] = Connected]
    /\ Goto(l, "write")
    /\ UNCHANGED <<linkVars, leaving, before, fileVars, uhidVars, history>>

Write(l) ==
    /\ pc[l] = "write"
    /\ temp' = text[l]
    /\ Goto(l, "rename")
    /\ UNCHANGED <<linkVars, leaving, before, text, devices, uhidVars, history>>

Replaced(old, new) == new

\* The temporary file has one name: another thread may have renamed it away.
Rename(l) ==
    /\ pc[l] = "rename"
    /\ IF temp = None
         THEN UNCHANGED <<fileVars, stale>>
         ELSE /\ devices' = Replaced(devices, temp)
              /\ temp' = None
              /\ stale' = (temp # Connected)
    /\ Goto(l, "sync")
    /\ UNCHANGED <<linkVars, leaving, before, text, uhidVars, unlucky, raced, failed>>

-----------------------------------------------------------------------------
(* sync_uhid: look, then create_uhid or destroy_uhid.                      *)

Rest(t) == IF t \in Generations THEN "done"
           ELSE IF t \in leaving THEN "gone" ELSE "read"

Sync(t) ==
    /\ pc[t] = "sync"
    /\ Goto(t, IF Live = {} THEN "destroy" ELSE "create")
    /\ UNCHANGED <<linkVars, leaving, before, text, fileVars, uhidVars, history>>

NewGeneration == next

\* create_uhid: nothing to do, or the device and its reader thread.
Create(t) ==
    /\ pc[t] = "create"
    /\ IF device
         THEN /\ Goto(t, Rest(t))
              /\ UNCHANGED <<device, generation, next, unlucky>>
         ELSE /\ next \in Generations
              /\ device' = TRUE /\ generation' = NewGeneration /\ next' = next + 1
              /\ pc' = [pc EXCEPT ![t] = Rest(t), ![next] = "poll"]
              /\ unlucky' = FALSE
    /\ raced' = (Live = {})
    /\ UNCHANGED <<linkVars, leaving, before, text, fileVars, errors, stale, failed>>

\* /dev/uhid cannot be opened or written: logged, and not tried again.
CreateFails(t) ==
    /\ pc[t] = "create" /\ ~device /\ errors < MaxErrors
    /\ errors' = errors + 1
    /\ unlucky' = TRUE
    /\ Goto(t, Rest(t))
    /\ UNCHANGED <<linkVars, leaving, before, text, fileVars, device, generation, next,
                   raced, stale, failed>>

Destroy(t) ==
    /\ pc[t] = "destroy"
    /\ device' = FALSE
    /\ generation' = IF device THEN 0 ELSE generation
    /\ unlucky' = FALSE
    /\ raced' = (Live # {})
    /\ Goto(t, Rest(t))
    /\ UNCHANGED <<linkVars, leaving, before, text, fileVars, next, errors, stale, failed>>

-----------------------------------------------------------------------------
(* The reader of UHID device g.                                            *)

\* The top of the loop: another device is current.
Outdated(g) ==
    /\ pc[g] = "poll" /\ generation # g
    /\ Goto(g, "ended")
    /\ UNCHANGED <<linkVars, leaving, before, text, fileVars, uhidVars, history>>

\* read fails or returns nothing.
ReadFails(g) ==
    /\ pc[g] = "poll" /\ errors < MaxErrors
    /\ errors' = errors + 1
    /\ failed' = failed \cup {g}
    /\ Goto(g, "ended")
    /\ UNCHANGED <<linkVars, leaving, before, text, fileVars, device, generation, next,
                   unlucky, raced, stale>>

\* A plausible bug: whoever ends takes the device along.
AnyDevice(g) == TRUE
OwnDevice(g) == generation = g

\* read_uhid: only the current device's reader drops it, and syncs.
EndUhid(g) ==
    /\ pc[g] = "ended"
    /\ IF OwnDevice(g)
         THEN device' = FALSE /\ generation' = 0 /\ Goto(g, "sync")
         ELSE Goto(g, "done") /\ UNCHANGED <<device, generation>>
    /\ UNCHANGED <<linkVars, leaving, before, text, fileVars, next, errors, history>>

LinkThread(l) ==
    \/ EndRead(l) \/ Retain(l) \/ Count(l) \/ Look(l) \/ Write(l) \/ Rename(l)

UhidThread(g) == Outdated(g) \/ EndUhid(g)

SyncStep(t) == Sync(t) \/ Create(t) \/ CreateFails(t) \/ Destroy(t)

Next ==
    \/ \E l \in Links : Discover(l) \/ NewConnection(l) \/ Break(l) \/ Kill(l) \/ LinkThread(l)
    \/ \E g \in Generations : UhidThread(g) \/ ReadFails(g)
    \/ \E t \in Threads : SyncStep(t)

Spec == Init /\ [][Next]_vars

\* Every started thread runs on; phones come and go as they like.
Fairness ==
    /\ \A l \in Links : WF_vars(LinkThread(l) \/ SyncStep(l))
    /\ \A g \in Generations : WF_vars(UhidThread(g) \/ SyncStep(g))

FairSpec == Spec /\ Fairness

-----------------------------------------------------------------------------
(* Properties.                                                             *)

PcStates == {"none", "publish", "write", "rename", "sync", "create", "destroy",
             "read", "retain", "count", "gone", "poll", "ended", "done"}

TypeOK ==
    /\ list \subseteq Links
    /\ alive \in [Links -> BOOLEAN] /\ up \in [Links -> BOOLEAN]
    /\ pc \in [Threads -> PcStates]
    /\ leaving \subseteq Links
    /\ before \in [Links -> 0 .. Cardinality(Links)]
    /\ text \in [Links -> SUBSET Phones]
    /\ temp = None \/ temp \subseteq Phones
    /\ devices \subseteq Phones
    /\ device \in BOOLEAN
    /\ generation \in Generations \cup {0}
    /\ next \in Nat \ {0} /\ errors \in 0 .. MaxErrors
    /\ unlucky \in BOOLEAN /\ raced \in BOOLEAN /\ stale \in BOOLEAN
    /\ failed \subseteq Generations

\* Every thread is at rest: each link is read or gone, each UHID reader polls
\* the current device or has ended.
Settled ==
    /\ \A l \in Links : \/ pc[l] \in {"none", "gone"}
                        \/ pc[l] = "read" /\ up[l] /\ alive[l]
    /\ \A g \in Generations : \/ pc[g] \in {"none", "done"}
                              \/ pc[g] = "poll" /\ generation = g

\* The FIDO device that is there is read: its own reader polls it, or has ended
\* and is about to drop it (create_uhid, read_uhid).
DeviceHasReader ==
    device => generation \in Generations /\ pc[generation] \in {"poll", "ended"}

\* The FIDO device goes away only when a thread saw no link, or when its own
\* event stream failed: the reader of an earlier device never takes it down.
DeviceStays ==
    [][device /\ ~device' =>
          (\E t \in Threads : pc[t] = "destroy") \/ generation \in failed]_vars

\* At rest the FIDO device exists exactly while a phone is connected, unless the
\* last sync acted on links that had changed since it looked, or /dev/uhid failed.
DeviceMatchesOrRaced ==
    Settled => (device <=> Live # {}) \/ raced \/ unlucky

\* At rest the devices file names the connected phones, unless the last write
\* was of a list that had changed since it was made.
FileMatchesOrStale == Settled => devices = Connected \/ stale

\* What applications and `passkey status` see of the links (sync_uhid, publish): a
\* FIDO device somebody reads and, once the threads have come to rest, that there is
\* one exactly while a phone is connected, and the right names in the file.  The
\* exceptions are the two looks that are acted on without a lock, and a /dev/uhid
\* that failed.
SeenRightly == DeviceHasReader /\ DeviceMatchesOrRaced /\ FileMatchesOrStale

\* A link that is closed leaves Daemon.links.
ClosedLinksLeave == \A l \in Links : l \in list /\ ~alive[l] ~> l \notin list
=============================================================================
