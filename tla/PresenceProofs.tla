--------------------------- MODULE PresenceProofs ---------------------------
(***************************************************************************)
(* What is seen of the links, for any number of phones, links, loops and   *)
(* UHID devices: why the looks without a lock do no harm that lasts, but   *)
(* for the races the properties name.                                      *)
(***************************************************************************)
EXTENDS Presence, TLAPS, FiniteSetTheorems

\* Where a link's thread may stand in add, and where in remove only.
InAdd    == {"publish", "write", "rename", "sync", "create", "destroy", "read"}
InRemove == {"retain", "count", "gone"}

\* A link is in the list from its first step to retain, and closed from there on.
Places ==
    \A l \in Links :
        /\ pc[l] = "none" => l \notin list
        /\ l \notin leaving => pc[l] \in InAdd \cup {"none"} /\ (pc[l] # "none" => l \in list)
        /\ l \in leaving => ~alive[l] /\ pc[l] \notin {"none", "read"}
        /\ pc[l] = "retain" => l \in list

\* A device has a reader of its own, which ends before another starts.
Readers ==
    /\ generation = 0 <=> ~device
    /\ generation < next
    /\ \A g \in Generations : g >= next => pc[g] = "none"
    /\ device => pc[generation] \in {"poll", "ended"}
    /\ \A g \in Generations : pc[g] = "ended" => generation # g \/ g \in failed

\* The thread of l has still to come to publish: it is there, it is in remove and
\* will find the list changed, or it will be in remove because its link is closed.
Bound(l) ==
    \/ pc[l] \in {"publish", "write", "retain"}
    \/ pc[l] = "count" /\ Changed(l)
    \/ l \notin leaving /\ pc[l] # "none" /\ ~(alive[l] /\ up[l])

\* The file is right, or a thread is on its way to write it again.
FileComing ==
    \/ devices = Connected \/ stale
    \/ \E l \in Links : Bound(l) \/ (pc[l] = "rename" /\ temp # None)

\* So is the device, or a thread is on its way to sync.
SyncComing ==
    \/ device <=> Live # {}
    \/ raced \/ unlucky
    \/ \E l \in Links : Bound(l)
    \/ \E t \in Threads : pc[t] \in {"rename", "sync", "create", "destroy"}

IndInv == TypeOK /\ Places /\ Readers /\ FileComing /\ SyncComing

-----------------------------------------------------------------------------

\* Nobody is connected at first, and nothing is seen of anybody.
LEMMA InitHolds == Init => IndInv
<1>. SUFFICES ASSUME Init
              PROVE  IndInv
  OBVIOUS
<1>. USE PresenceAssumption DEF Init
<1>1. Live = {} /\ Connected = {}
  BY DEF Live, Connected
<1>2. TypeOK
  <2>1. before \in [Links -> 0 .. Cardinality(Links)]
    BY FS_CardinalityType
  <2>2. pc \in [Threads -> PcStates]
    BY DEF PcStates
  <2>4. alive \in [Links -> BOOLEAN] /\ up \in [Links -> BOOLEAN]
    OBVIOUS
  <2>5. /\ device \in BOOLEAN /\ unlucky \in BOOLEAN
        /\ raced \in BOOLEAN /\ stale \in BOOLEAN
    OBVIOUS
  <2>3. temp = None /\ devices = {} /\ errors \in 0 .. MaxErrors /\ text \in [Links -> SUBSET Phones]
    OBVIOUS
  <2>. QED
    BY <2>1, <2>2, <2>3, <2>4, <2>5 DEF TypeOK
<1>3. Places
  BY DEF Places, Threads
<1>4. Readers
  BY DEF Readers, Threads, Generations
<1>5. FileComing /\ SyncComing
  BY <1>1 DEF FileComing, SyncComing
<1>. QED
  BY <1>2, <1>3, <1>4, <1>5 DEF IndInv

\* Links and devices are different threads, and there are finitely many links.
LEMMA ThreadFacts ==
    ASSUME TypeOK
    PROVE  /\ Links \subseteq Threads /\ Generations \subseteq Threads
           /\ \A l \in Links : l \notin Generations
           /\ IsFiniteSet(list) /\ Cardinality(list) \in 0 .. Cardinality(Links)
           /\ Cardinality(Links) \in Nat
<1>1. IsFiniteSet(list) /\ Cardinality(list) <= Cardinality(Links)
  BY PresenceAssumption, FS_Subset DEF TypeOK
<1>2. Cardinality(list) \in Nat /\ Cardinality(Links) \in Nat
  BY <1>1, PresenceAssumption, FS_CardinalityType
<1>. QED
  BY <1>1, <1>2, PresenceAssumption DEF Threads

\* Every variable keeps its type.
LEMMA TypeStep == TypeOK /\ [Next]_vars => TypeOK'
<1>. SUFFICES ASSUME TypeOK, [Next]_vars
              PROVE  TypeOK'
  OBVIOUS
<1>. USE ThreadFacts DEF TypeOK, PcStates
<1>1. ASSUME NEW l \in Links, Discover(l) \/ NewConnection(l)
      PROVE  TypeOK'
  BY <1>1 DEF Discover, NewConnection, Join, Goto, fileVars, uhidVars, history
<1>2. ASSUME NEW l \in Links, Break(l) \/ Kill(l)
      PROVE  TypeOK'
  BY <1>2 DEF Break, Kill, Shut, threadVars, fileVars, uhidVars, history
<1>3. ASSUME NEW l \in Links, EndRead(l) \/ Count(l)
      PROVE  TypeOK'
  BY <1>3 DEF EndRead, Count, Goto, linkVars, fileVars, uhidVars, history
<1>4. ASSUME NEW l \in Links, Retain(l)
      PROVE  TypeOK'
  BY <1>4 DEF Retain, Goto, fileVars, uhidVars, history
<1>5. ASSUME NEW l \in Links, Look(l)
      PROVE  TypeOK'
  <2>1. Connected \subseteq Phones
    BY DEF Connected, Live, Phones
  <2>. QED
    BY <1>5, <2>1 DEF Look, Goto, linkVars, fileVars, uhidVars, history
<1>6. ASSUME NEW l \in Links, Write(l) \/ Rename(l)
      PROVE  TypeOK'
  BY <1>6 DEF Write, Rename, Replaced, Goto, linkVars, fileVars, uhidVars, history
<1>7. ASSUME NEW t \in Threads, SyncStep(t)
      PROVE  TypeOK'
  <2>1. Rest(t) \in PcStates
    BY DEF Rest
  <2>2. CASE Sync(t)
    BY <2>2 DEF Sync, Goto, linkVars, fileVars, uhidVars, history
  <2>3. CASE Create(t)
    <3>1. next' \in Nat \ {0} /\ generation' \in Generations \cup {0}
      BY <2>3 DEF Create, NewGeneration
    <3>2. pc' \in [Threads -> PcStates]
      BY <2>1, <2>3 DEF Create, Goto
    <3>3. device' \in BOOLEAN /\ unlucky' \in BOOLEAN /\ raced' \in BOOLEAN
      BY <2>3 DEF Create
    <3>. QED
      BY <2>3, <3>1, <3>2, <3>3 DEF Create, linkVars, fileVars
  <2>4. CASE CreateFails(t)
    <3>1. errors' \in 0 .. MaxErrors
      BY <2>4, PresenceAssumption DEF CreateFails
    <3>. QED
      BY <2>1, <2>4, <3>1 DEF CreateFails, Goto, linkVars, fileVars
  <2>5. CASE Destroy(t)
    <3>1. generation' \in Generations \cup {0} /\ raced' \in BOOLEAN
      BY <2>5 DEF Destroy
    <3>. QED
      BY <2>1, <2>5, <3>1 DEF Destroy, Goto, linkVars, fileVars
  <2>. QED
    BY <1>7, <2>2, <2>3, <2>4, <2>5 DEF SyncStep
<1>8. ASSUME NEW g \in Generations, UhidThread(g)
      PROVE  TypeOK'
  BY <1>8 DEF UhidThread, Outdated, EndUhid, Goto, linkVars, fileVars, uhidVars, history
<1>9. ASSUME NEW g \in Generations, ReadFails(g)
      PROVE  TypeOK'
  <2>1. errors' \in 0 .. MaxErrors
    BY <1>9, PresenceAssumption DEF ReadFails
  <2>. QED
    BY <1>9, <2>1 DEF ReadFails, Goto, linkVars, fileVars
<1>10. CASE UNCHANGED vars
  BY <1>10 DEF vars, linkVars, threadVars, fileVars, uhidVars, history
<1>. QED
  BY <1>1, <1>2, <1>3, <1>4, <1>5, <1>6, <1>7, <1>8, <1>9, <1>10 DEF Next, LinkThread

\* A thread stands in add or in remove, and its link in the list or out of it.
LEMMA PlacesStep == TypeOK /\ Places /\ [Next]_vars => Places'
<1>. SUFFICES ASSUME TypeOK, Places, [Next]_vars
              PROVE  Places'
  OBVIOUS
<1>. USE ThreadFacts DEF TypeOK, Places, InAdd
<1>1. ASSUME NEW l \in Links, Discover(l) \/ NewConnection(l)
      PROVE  Places'
  BY <1>1 DEF Discover, NewConnection, Join, Goto
<1>2. ASSUME NEW l \in Links, Break(l) \/ Kill(l)
      PROVE  Places'
  BY <1>2 DEF Break, Kill, Shut, threadVars
<1>3. ASSUME NEW l \in Links, EndRead(l) \/ Retain(l)
      PROVE  Places'
  BY <1>3 DEF EndRead, Retain, Goto
<1>4. ASSUME NEW l \in Links, Count(l) \/ Look(l) \/ Write(l) \/ Rename(l)
      PROVE  Places'
  BY <1>4 DEF Count, Look, Write, Rename, Goto, linkVars
<1>5. ASSUME NEW t \in Threads, Sync(t) \/ CreateFails(t) \/ Destroy(t)
      PROVE  Places'
  BY <1>5 DEF Sync, CreateFails, Destroy, Rest, Goto, linkVars
<1>6. ASSUME NEW t \in Threads, Create(t)
      PROVE  Places'
  BY <1>6 DEF Create, NewGeneration, Rest, Goto, linkVars
<1>7. ASSUME NEW g \in Generations, UhidThread(g) \/ ReadFails(g)
      PROVE  Places'
  BY <1>7 DEF UhidThread, Outdated, EndUhid, ReadFails, Goto, linkVars
<1>8. CASE UNCHANGED vars
  BY <1>8 DEF vars, linkVars, threadVars
<1>. QED
  BY <1>1, <1>2, <1>3, <1>4, <1>5, <1>6, <1>7, <1>8 DEF Next, LinkThread, SyncStep

\* A device comes with its reader, and goes with it or before it.
LEMMA ReadersStep == TypeOK /\ Readers /\ [Next]_vars => Readers'
<1>. SUFFICES ASSUME TypeOK, Readers, [Next]_vars
              PROVE  Readers'
  OBVIOUS
<1>. USE ThreadFacts DEF TypeOK, Readers, Generations
<1>1. ASSUME NEW l \in Links, Discover(l) \/ NewConnection(l) \/ LinkThread(l)
      PROVE  Readers'
  BY <1>1 DEF Discover, NewConnection, Join, LinkThread, EndRead, Retain, Count, Look, Write,
              Rename, Goto, uhidVars, history
<1>2. ASSUME NEW l \in Links, Break(l) \/ Kill(l)
      PROVE  Readers'
  BY <1>2 DEF Break, Kill, threadVars, uhidVars, history
<1>3. ASSUME NEW t \in Threads, Sync(t) \/ CreateFails(t) \/ Destroy(t)
      PROVE  Readers'
  BY <1>3 DEF Sync, CreateFails, Destroy, Rest, Goto, uhidVars, history
<1>4. ASSUME NEW t \in Threads, Create(t)
      PROVE  Readers'
  BY <1>4 DEF Create, NewGeneration, Rest, Goto
<1>5. ASSUME NEW g \in Generations, UhidThread(g) \/ ReadFails(g)
      PROVE  Readers'
  BY <1>5 DEF UhidThread, Outdated, EndUhid, OwnDevice, ReadFails, Goto, uhidVars, history
<1>6. CASE UNCHANGED vars
  BY <1>6 DEF vars, threadVars, uhidVars, history
<1>. QED
  BY <1>1, <1>2, <1>3, <1>4, <1>5, <1>6 DEF Next, SyncStep

\* A thread that still has to come to publish is not let off by a step that leaves
\* the links as they are.
LEMMA StillBound ==
    ASSUME TypeOK, Places, NEW m \in Links, Bound(m),
           list' = list, alive' = alive, leaving' = leaving, before' = before,
           \A l \in Links : ~up[l] => ~up'[l],
           \/ pc'[m] = pc[m]
           \/ pc[m] \in {"rename", "sync", "create", "destroy"} /\ pc'[m] # "none"
    PROVE  Bound(m)'
  BY DEF TypeOK, Places, Bound, Changed, InAdd

\* Whatever a step spoils, a thread is on its way to put it right.
LEMMA ComingStep ==
    ASSUME IndInv, [Next]_vars
    PROVE  FileComing' /\ SyncComing'
<1>. USE DEF IndInv
<1>0. /\ Links \subseteq Threads /\ Generations \subseteq Threads
      /\ \A l \in Links : l \notin Generations
      /\ pc \in [Threads -> PcStates] /\ alive \in [Links -> BOOLEAN] /\ list \subseteq Links
      /\ before \in [Links -> 0 .. Cardinality(Links)] /\ device \in BOOLEAN
      /\ temp = None \/ temp \subseteq Phones
      /\ text \in [Links -> SUBSET Phones]
      /\ Cardinality(list) \in Nat /\ IsFiniteSet(list)
  BY ThreadFacts DEF TypeOK
<1>. USE <1>0
<1>1. ASSUME NEW l \in Links, Bound(l)'
      PROVE  FileComing' /\ SyncComing'
  BY <1>1 DEF FileComing, SyncComing
<1>2. ASSUME NEW l \in Links, Discover(l) \/ NewConnection(l) \/ Look(l) \/ EndRead(l)
      PROVE  FileComing' /\ SyncComing'
  <2>1. pc'[l] \in {"publish", "write", "retain"}
    BY <1>2 DEF Discover, NewConnection, Join, Look, EndRead, Goto
  <2>. QED
    BY <1>1, <2>1 DEF Bound
<1>3. ASSUME NEW l \in Links, Kill(l)
      PROVE  FileComing' /\ SyncComing'
  <2>1. l \notin leaving' /\ pc'[l] # "none" /\ alive'[l] = FALSE
    BY <1>3 DEF Kill, Live, Places, threadVars
  <2>. QED
    BY <1>1, <2>1 DEF Bound
<1>4. ASSUME NEW l \in Links, Retain(l)
      PROVE  FileComing' /\ SyncComing'
  <2>1. l \in list
    BY <1>4 DEF Retain, Places
  <2>2. Cardinality(list \ {l}) = Cardinality(list) - 1
    BY <2>1, FS_RemoveElement
  <2>3. pc'[l] = "count" /\ before'[l] # Cardinality(list')
    BY <1>4, <2>2 DEF Retain, Goto
  <2>. QED
    BY <1>1, <2>3 DEF Bound, Changed
<1>5. ASSUME NEW l \in Links, Count(l)
      PROVE  FileComing' /\ SyncComing'
  <2>1. CASE Changed(l)
    <3>1. pc'[l] = "publish"
      BY <1>5, <2>1 DEF Count, Goto
    <3>. QED
      BY <1>1, <3>1 DEF Bound
  <2>2. CASE ~Changed(l)
    <3>1. ~Bound(l)
      BY <1>5, <2>2 DEF Count, Bound, Places, InAdd
    <3>2. ASSUME NEW m \in Links, Bound(m)
          PROVE  Bound(m)'
      BY <1>5, <3>1, <3>2, StillBound DEF Count, Goto, linkVars
    <3>3. \A t \in Threads : t # l => pc'[t] = pc[t]
      BY <1>5 DEF Count, Goto
    <3>4. pc[l] = "count"
      BY <1>5 DEF Count
    <3>5. UNCHANGED <<Live, Connected, temp, devices, device, stale, raced, unlucky>>
      BY <1>5 DEF Count, linkVars, fileVars, uhidVars, history, Live, Connected
    <3>6. FileComing'
      BY <3>2, <3>3, <3>4, <3>5 DEF FileComing
    <3>7. SyncComing'
      BY <3>2, <3>3, <3>4, <3>5 DEF SyncComing
    <3>. QED
      BY <3>6, <3>7
  <2>. QED
    BY <2>1, <2>2
<1>6. ASSUME NEW l \in Links, Write(l)
      PROVE  FileComing' /\ SyncComing'
  <2>1. pc'[l] = "rename" /\ temp' # None
    BY <1>6, PresenceAssumption DEF Write, Goto
  <2>. QED
    BY <2>1 DEF FileComing, SyncComing
<1>7. ASSUME NEW l \in Links, Rename(l)
      PROVE  FileComing' /\ SyncComing'
  <2>1. pc'[l] = "sync"
    BY <1>7 DEF Rename, Goto
  <2>2. SyncComing'
    BY <2>1 DEF SyncComing
  <2>3. ASSUME NEW m \in Links, Bound(m)
        PROVE  Bound(m)'
    BY <1>7, <2>3, StillBound DEF Rename, Goto, linkVars
  <2>4. Connected' = Connected
    BY <1>7 DEF Rename, linkVars, Live, Connected
  <2>5. CASE temp = None
    <3>1. devices' = devices /\ stale' = stale
      BY <1>7, <2>5 DEF Rename, fileVars
    <3>2. FileComing'
      BY <2>3, <2>4, <2>5, <3>1 DEF FileComing
    <3>. QED
      BY <2>2, <3>2
  <2>6. CASE temp # None
    <3>1. devices' = temp /\ (stale' <=> temp # Connected)
      BY <1>7, <2>6 DEF Rename, Replaced
    <3>2. FileComing'
      BY <2>4, <3>1 DEF FileComing
    <3>. QED
      BY <2>2, <3>2
  <2>. QED
    BY <2>5, <2>6
<1>8. ASSUME NEW t \in Threads, SyncStep(t)
      PROVE  FileComing' /\ SyncComing'
  <2>1. /\ pc[t] \in {"sync", "create", "destroy"}
        /\ \A l \in Links : pc'[l] = pc[l] \/ (l = t /\ pc'[l] # "none")
    <3>1. Rest(t) \in {"done", "gone", "read"}
      BY DEF Rest
    <3>2. CASE Sync(t)
      BY <3>2 DEF Sync, Goto
    <3>3. CASE Create(t)
      <4>1. CASE device = TRUE
        BY <3>1, <3>3, <4>1 DEF Create, Goto
      <4>2. CASE device = FALSE
        BY <3>1, <3>3, <4>2 DEF Create
      <4>. QED
        BY <4>1, <4>2
    <3>4. CASE CreateFails(t) \/ Destroy(t)
      BY <3>1, <3>4 DEF CreateFails, Destroy, Goto
    <3>. QED
      BY <1>8, <3>2, <3>3, <3>4 DEF SyncStep
  <2>2. UNCHANGED <<list, alive, up, leaving, before, temp, devices, stale, Live, Connected>>
    BY <1>8 DEF SyncStep, Sync, Create, CreateFails, Destroy, linkVars, fileVars, history,
                Live, Connected
  <2>3. ASSUME NEW m \in Links, Bound(m)
        PROVE  Bound(m)'
    BY <2>1, <2>2, <2>3, StillBound
  <2>4. FileComing'
    BY <2>1, <2>2, <2>3 DEF FileComing
  <2>5. CASE Sync(t)
    <3>1. pc'[t] \in {"create", "destroy"}
      BY <2>5 DEF Sync, Goto
    <3>. QED
      BY <2>4, <3>1 DEF SyncComing
  <2>6. CASE Create(t)
    <3>1. device' = TRUE /\ (raced' <=> Live = {})
      BY <2>6 DEF Create
    <3>. QED
      BY <2>2, <2>4, <3>1 DEF SyncComing
  <2>7. CASE CreateFails(t)
    BY <2>4, <2>7 DEF CreateFails, SyncComing
  <2>8. CASE Destroy(t)
    BY <2>2, <2>4, <2>8 DEF Destroy, SyncComing
  <2>. QED
    BY <1>8, <2>5, <2>6, <2>7, <2>8 DEF SyncStep
<1>9. ASSUME list' = list, alive' = alive, leaving' = leaving, before' = before,
             temp' = temp, devices' = devices,
             stale' = stale, raced' = raced, unlucky' = unlucky,
             \A l \in Links : ~up[l] => ~up'[l],
             \A t \in Threads : pc'[t] = pc[t] \/ (t \in Generations /\ pc[t] \in {"poll", "ended"}),
             device' = device \/ \E t \in Threads : pc'[t] = "sync"
      PROVE  FileComing' /\ SyncComing'
  <2>1. \A l \in Links : pc'[l] = pc[l]
    BY <1>9
  <2>2. ASSUME NEW m \in Links, Bound(m)
        PROVE  Bound(m)'
    BY <1>9, <2>1, <2>2, StillBound
  <2>3. UNCHANGED <<Live, Connected>>
    BY <1>9 DEF Live, Connected
  <2>4. FileComing'
    BY <1>9, <2>1, <2>2, <2>3 DEF FileComing
  <2>5. \A t \in Threads : pc[t] \in {"rename", "sync", "create", "destroy"} => pc'[t] = pc[t]
    BY <1>9
  <2>6. SyncComing'
    BY <1>9, <2>2, <2>3, <2>5 DEF SyncComing
  <2>. QED
    BY <2>4, <2>6
<1>10. ASSUME NEW l \in Links, Break(l)
       PROVE  FileComing' /\ SyncComing'
  <2>1. \A m \in Links : ~up[m] => ~up'[m]
    BY <1>10 DEF Break
  <2>2. UNCHANGED <<list, alive, pc, leaving, before, temp, devices, stale, raced, unlucky, device>>
    BY <1>10 DEF Break, threadVars, fileVars, uhidVars, history
  <2>. QED
    BY <1>9, <2>1, <2>2
<1>11. ASSUME NEW g \in Generations, UhidThread(g) \/ ReadFails(g)
       PROVE  FileComing' /\ SyncComing'
  <2>1. /\ pc[g] \in {"poll", "ended"}
        /\ \A t \in Threads : t # g => pc'[t] = pc[t]
    BY <1>11 DEF UhidThread, Outdated, EndUhid, ReadFails, Goto
  <2>2. device' = device \/ pc'[g] = "sync"
    <3>1. CASE EndUhid(g) /\ OwnDevice(g)
      BY <3>1 DEF EndUhid, Goto
    <3>2. CASE EndUhid(g) /\ ~OwnDevice(g)
      BY <3>2 DEF EndUhid
    <3>3. CASE Outdated(g) \/ ReadFails(g)
      BY <3>3 DEF Outdated, ReadFails, uhidVars
    <3>. QED
      BY <1>11, <3>1, <3>2, <3>3 DEF UhidThread
  <2>3. UNCHANGED <<list, alive, up, leaving, before, temp, devices, stale, raced, unlucky>>
    BY <1>11 DEF UhidThread, Outdated, EndUhid, ReadFails, linkVars, fileVars, history
  <2>4. \A m \in Links : ~up[m] => ~up'[m]
    BY <2>3
  <2>5. \A t \in Threads : pc'[t] = pc[t] \/ (t \in Generations /\ pc[t] \in {"poll", "ended"})
    BY <2>1
  <2>6. device' = device \/ \E t \in Threads : pc'[t] = "sync"
    BY <2>2
  <2>. QED
    BY <1>9, <2>3, <2>4, <2>5, <2>6
<1>12. CASE UNCHANGED vars
  <2>1. UNCHANGED <<list, alive, up, pc, leaving, before>>
    BY <1>12 DEF vars, linkVars, threadVars
  <2>2. UNCHANGED <<temp, devices, stale, raced, unlucky, device>>
    BY <1>12 DEF vars, fileVars, uhidVars, history
  <2>. QED
    BY <1>9, <2>1, <2>2
<1>. QED
  BY <1>2, <1>3, <1>4, <1>5, <1>6, <1>7, <1>8, <1>10, <1>11, <1>12 DEF Next, LinkThread

LEMMA Invariance == Spec => []IndInv
<1>1. IndInv /\ [Next]_vars => IndInv'
  BY TypeStep, PlacesStep, ReadersStep, ComingStep DEF IndInv
<1>. QED
  BY InitHolds, <1>1, PTL DEF Spec

-----------------------------------------------------------------------------

\* Whatever threads meet in add, remove, publish and sync_uhid, every variable keeps
\* its type.
THEOREM TypeCorrect == Spec => []TypeOK
<1>1. IndInv => TypeOK
  BY DEF IndInv
<1>. QED
  BY Invariance, <1>1, PTL

\* However phones come and go: the FIDO device has a reader, and once the threads rest
\* there is a device exactly while a phone is connected, and the file names the
\* connected phones, but for a look that was acted on too late and a /dev/uhid that
\* failed (publish, sync_uhid).
THEOREM SeenRight == Spec => []SeenRightly
<1>1. IndInv => SeenRightly
  <2>. SUFFICES ASSUME IndInv
                PROVE  SeenRightly
    OBVIOUS
  <2>. USE ThreadFacts DEF IndInv
  <2>1. DeviceHasReader
    BY DEF DeviceHasReader, Readers, TypeOK
  <2>2. ASSUME Settled
        PROVE  /\ \A l \in Links : ~Bound(l)
               /\ \A t \in Threads : pc[t] \notin {"rename", "sync", "create", "destroy"}
    BY <2>2 DEF Settled, Bound, Places, InAdd, Threads
  <2>3. DeviceMatchesOrRaced
    BY <2>2 DEF DeviceMatchesOrRaced, SyncComing
  <2>4. FileMatchesOrStale
    BY <2>2 DEF FileMatchesOrStale, FileComing
  <2>. QED
    BY <2>1, <2>3, <2>4 DEF SeenRightly
<1>. QED
  BY Invariance, <1>1, PTL

\* Whichever reader ends, the FIDO device goes away only because a thread saw no link
\* or because its own event stream failed (read_uhid, destroy_uhid).
THEOREM OnlyOwnReader == Spec => DeviceStays
<1>1. IndInv /\ [Next]_vars =>
        [device /\ ~device' =>
            (\E t \in Threads : pc[t] = "destroy") \/ generation \in failed]_vars
  <2>. SUFFICES ASSUME IndInv, Next, device, ~device'
                PROVE  (\E t \in Threads : pc[t] = "destroy") \/ generation \in failed
    OBVIOUS
  <2>. USE DEF IndInv, Readers
  <2>1. ASSUME NEW l \in Links, LinkThread(l) \/ Discover(l) \/ NewConnection(l)
        PROVE  FALSE
    BY <2>1 DEF LinkThread, EndRead, Retain, Count, Look, Write, Rename, Discover,
                NewConnection, Join, uhidVars
  <2>2. ASSUME NEW l \in Links, Break(l) \/ Kill(l)
        PROVE  FALSE
    BY <2>2 DEF Break, Kill, uhidVars
  <2>3. ASSUME NEW t \in Threads, Sync(t) \/ Create(t) \/ CreateFails(t)
        PROVE  FALSE
    BY <2>3 DEF Sync, Create, CreateFails, uhidVars
  <2>4. ASSUME NEW t \in Threads, Destroy(t)
        PROVE  pc[t] = "destroy"
    BY <2>4 DEF Destroy
  <2>5. ASSUME NEW g \in Generations, UhidThread(g) \/ ReadFails(g)
        PROVE  generation \in failed
    BY <2>5 DEF UhidThread, Outdated, EndUhid, OwnDevice, ReadFails, uhidVars
  <2>. QED
    BY <2>1, <2>2, <2>3, <2>4, <2>5 DEF Next, SyncStep
<1>. QED
  BY Invariance, <1>1, PTL DEF Spec, DeviceStays
=============================================================================
