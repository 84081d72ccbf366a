--------------------------- MODULE RegistryProofs ---------------------------
(***************************************************************************)
(* The pin follows the `add` that wrote it, and what the commands said of  *)
(* the keys stays true, for any number of commands at once, failed and     *)
(* killed ones included.                                                   *)
(***************************************************************************)
EXTENDS Registry, SequenceTheorems, WellFoundedInduction, TLAPS

\* Where an `add` may stand once it has pinned a phone.
Pinning == Rewriting \cup {"names", "make", "unpin"}

Shapes ==
    /\ pc \in [Procs -> PcStates]
    /\ pinned \in [Procs -> BOOLEAN]
    /\ rivals = [p \in Procs |-> rivals[p]]
    /\ faults \in Nat

\* Only an `add` comes to the places where a pin is written and cleared.
AddsOnly == \A p \in Procs : pc[p] \in {"pin", "names", "make", "unpin"} => op[p] = "add"

\* A command with a pin to clear is an `add` on its way to clearing it; only one that
\* was killed ends without.
PinnedClears ==
    \A p \in Procs : pinned[p] =>
        /\ op[p] = "add"
        /\ pc[p] \in Pinning \/ (pc[p] = "done" /\ faults > 0)

\* Who wrote the pin has it to clear.
UseIsPinned == use # None => use \in Procs /\ pinned[use]

\* And it is still his unless another command came in between.
StillMine == \A p \in Procs : pinned[p] /\ rivals[p] = {} => use = p

IndInv == Shapes /\ AddsOnly /\ PinnedClears /\ UseIsPinned /\ StillMine

\* All parts but the places of the commands.
stillVars == <<use, pinned, rivals, op>>

\* A step of p that leaves the pin alone: it needs no look at what the files hold.
\* It takes p where p may go: an `add` towards the end, where it arrives with its pin
\* cleared or because it was killed.
LEMMA Moves ==
    ASSUME IndInv, NEW p \in Procs, NEW s \in PcStates,
           Goto(p, s), UNCHANGED stillVars,
           faults' \in Nat, faults' >= faults,
           s \in {"pin", "names", "make", "unpin"} => op[p] = "add",
           pinned[p] => s \in Pinning \/ (s = "done" /\ faults' > 0)
    PROVE  IndInv'
<1>1. Shapes' /\ AddsOnly'
  BY DEF IndInv, Shapes, AddsOnly, Goto, stillVars
<1>2. PinnedClears'
  BY DEF IndInv, Shapes, PinnedClears, Goto, stillVars
<1>3. UseIsPinned' /\ StillMine'
  BY DEF IndInv, Shapes, UseIsPinned, StillMine, stillVars
<1>. QED
  BY <1>1, <1>2, <1>3 DEF IndInv

-----------------------------------------------------------------------------

\* root-use: the new pin replaces another command's, which counts as a rival's.
LEMMA PinKeeps ==
    ASSUME IndInv, NEW p \in Procs, Pin(p)
    PROVE  IndInv'
<1>. USE DEF IndInv, Shapes, Pin, Goto
<1>1. op[p] = "add" /\ ~pinned[p]
  BY DEF AddsOnly, PinnedClears, Pinning, Rewriting
<1>2. Shapes'
  BY DEF PcStates, Rewriting
<1>3. AddsOnly' /\ PinnedClears'
  BY <1>1 DEF AddsOnly, PinnedClears, Pinning
<1>4. UseIsPinned'
  BY DEF UseIsPinned
<1>5. StillMine'
  BY DEF StillMine
<1>. QED
  BY <1>2, <1>3, <1>4, <1>5

\* ClearUse removes whatever pin there is.
LEMMA UnpinKeeps ==
    ASSUME IndInv, NEW p \in Procs, Unpin(p)
    PROVE  IndInv'
<1>. USE DEF IndInv, Shapes, Unpin, Goto
<1>1. Shapes'
  BY DEF PcStates
<1>2. AddsOnly' /\ PinnedClears'
  BY DEF AddsOnly, PinnedClears
<1>3. UseIsPinned'
  BY DEF UseIsPinned
<1>4. StillMine'
  BY DEF StillMine
<1>. QED
  BY <1>1, <1>2, <1>3, <1>4

\* Every other step moves its command on.
LEMMA CommandKeeps ==
    ASSUME IndInv, NEW p \in Procs, Command(p)
    PROVE  IndInv'
<1>. USE DEF stillVars, pinVars, Pinning, Rewriting, PcStates
<1>0. /\ faults \in Nat /\ Over(p) \in {"unpin", "done"}
      /\ Over(p) = "unpin" => pinned[p]
      /\ pinned[p] => Over(p) = "unpin"
      /\ pinned[p] => op[p] = "add" /\ (pc[p] \in Pinning \/ pc[p] = "done")
      /\ pc[p] \in {"pin", "names", "make", "unpin"} => op[p] = "add"
  BY DEF IndInv, Shapes, Over, PinnedClears, AddsOnly
<1>1. CASE Pin(p)
  BY <1>1, PinKeeps
<1>2. CASE Unpin(p)
  BY <1>2, UnpinKeeps
<1>3. CASE Start(p)
  BY <1>0, <1>3, Moves DEF Start
<1>4. CASE NoPin(p)
  BY <1>0, <1>4, Moves DEF NoPin
<1>5. ASSUME NEW n, Name(p, n)
      PROVE  IndInv'
  BY <1>0, <1>5, Moves DEF Name
<1>6. CASE Make(p) \/ Refused(p)
  BY <1>0, <1>6, Moves DEF Make, Refused
<1>7. CASE ReadHandles(p)
  BY <1>0, <1>7, Moves DEF ReadHandles
<1>8. ASSUME NEW w, Find(p, w)
      PROVE  IndInv'
  BY <1>0, <1>8, Moves DEF Find
<1>9. CASE ReadKeys(p) \/ ReadNames(p)
  BY <1>0, <1>9, Moves DEF ReadKeys, ReadNames
<1>10. CASE WriteKeys(p) \/ WriteNames(p)
  BY <1>0, <1>10, Moves DEF WriteKeys, WriteNames
<1>11. CASE WipeKeys(p) \/ WipeNames(p)
  BY <1>0, <1>11, Moves DEF WipeKeys, WipeNames
<1>12. CASE Fail(p) \/ Kill(p)
  BY <1>0, <1>12, Moves DEF Fail, Kill
<1>. QED
  BY <1>1, <1>2, <1>3, <1>4, <1>5, <1>6, <1>7, <1>8, <1>9, <1>10, <1>11, <1>12 DEF Command

-----------------------------------------------------------------------------

\* The invariant holds throughout.
LEMMA Inductive == Spec => []IndInv
<1>1. Init => IndInv
  BY DEF Init, IndInv, Shapes, PcStates, AddsOnly, PinnedClears, UseIsPinned, StillMine
<1>2. IndInv /\ [Next]_vars => IndInv'
  <2>1. ASSUME IndInv, UNCHANGED vars
        PROVE  IndInv'
    BY <2>1 DEF vars, pinVars, IndInv, Shapes, AddsOnly, PinnedClears, UseIsPinned, StillMine
  <2>. QED
    BY <2>1, CommandKeeps DEF Next
<1>. QED
  BY <1>1, <1>2, PTL DEF Spec

\* However many commands overlap, fail and are killed: the daemon asks the chosen
\* phone only while the `add` that chose it runs, all the time its key is made
\* unless another `add` came in between, and no pin is left behind without a kill or
\* a failure (ClearUse, root_use, chosen_device).
THEOREM PinFollows == Spec => []PinFollowsAdd
<1>1. ASSUME IndInv
      PROVE  PinFollowsAdd
  <2>1. Chosen # None => use = Chosen /\ pc[use] # "done"
    BY DEF Chosen
  <2>2. \A p \in Procs : pc[p] = "make" /\ pinned[p] /\ rivals[p] = {} => Chosen = p
    BY <1>1, RegistryAssumption DEF IndInv, StillMine, Chosen
  <2>3. use # None => /\ op[use] = "add"
                      /\ pc[use] \in Pinning \/ (pc[use] = "done" /\ faults > 0)
    BY <1>1 DEF IndInv, UseIsPinned, PinnedClears
  <2>4. Chosen # None =>
          op[Chosen] = "add" /\ pc[Chosen] \in Rewriting \cup {"names", "make", "unpin"}
    <3>1. Chosen # None => use # None
      BY DEF Chosen
    <3>. QED
      BY <2>1, <2>3, <3>1 DEF Pinning
  <2>5. use # None /\ faults = 0 => pc[use] # "done"
    BY <2>3 DEF Pinning, Rewriting
  <2>. QED
    BY <2>2, <2>4, <2>5 DEF PinFollowsAdd
<1>. QED
  BY <1>1, Inductive, PTL
-----------------------------------------------------------------------------
(* Lines of keys.                                                          *)

\* Any set of numbers that is not empty has a least one.
LEMMA LeastNumber ==
    ASSUME NEW T, T \subseteq Nat, T # {}
    PROVE  \E x \in T : \A y \in T : x <= y
<1>1. PICK x \in T : \A y \in T : ~ (<<y, x>> \in OpToRel(<, Nat))
  BY NatLessThanWellFounded, WFMin
<1>2. ASSUME NEW y \in T
      PROVE  x <= y
  <2>1. <<y, x>> \in Nat \X Nat
    OBVIOUS
  <2>2. y < x => <<y, x>> \in OpToRel(<, Nat)
    BY <2>1 DEF OpToRel
  <2>3. ~ (<<y, x>> \in OpToRel(<, Nat))
    BY <1>1
  <2>4. ~ (y < x)
    BY <2>2, <2>3
  <2>. QED
    BY <2>1, <2>4
<1>. QED
  BY <1>2

\* Induction up to n, about the members of a set.
LEMMA UpTo ==
    ASSUME NEW T, NEW n \in Nat, 0 \in T, \A i \in 0 .. n - 1 : i \in T => i + 1 \in T
    PROVE  n \in T
<1>. SUFFICES ASSUME n \notin T
              PROVE  FALSE
  OBVIOUS
<1>. DEFINE M == {i \in 0 .. n : i \notin T}
<1>1. PICK m \in M : \A y \in M : m <= y
  <2>1. M \subseteq Nat /\ n \in M
    OBVIOUS
  <2>. QED
    BY <2>1, LeastNumber
<1>2. m \in 1 .. n
  OBVIOUS
<1>3. m - 1 \in T
  BY <1>1, <1>2
<1>. QED
  BY <1>2, <1>3

On(line, g) == \E i \in 1 .. Len(line) : line[i] = g

\* What Dropped's function gives at i, from what it gives before.
Shorter(line, h, f, i) ==
    IF i = 0 THEN <<>> ELSE IF line[i] = h THEN f[i - 1] ELSE Append(f[i - 1], line[i])

Drops(line, h, n, f) == f = [i \in 0 .. n |-> Shorter(line, h, f, i)]

LEMMA DropsAt ==
    ASSUME NEW line, NEW h, NEW n, NEW f, Drops(line, h, n, f), NEW i \in 0 .. n
    PROVE  f[i] = Shorter(line, h, f, i)
<1>. DEFINE e == [j \in 0 .. n |-> Shorter(line, h, f, j)]
<1>1. f = e
  BY DEF Drops
<1>2. e[i] = Shorter(line, h, f, i)
  OBVIOUS
<1>. HIDE DEF e
<1>. QED
  BY <1>1, <1>2

\* The recursion has a solution as far as one goes.
LEMMA DropsExists ==
    ASSUME NEW line, NEW h, NEW n \in Nat
    PROVE  \E f : Drops(line, h, n, f)
<1>. DEFINE T == {k \in Nat : \E f : Drops(line, h, k, f)}
<1>1. 0 \in T
  <2>. DEFINE f0 == [i \in 0 .. 0 |-> <<>>]
  <2>1. Drops(line, h, 0, f0)
    BY DEF Drops, Shorter
  <2>. QED
    BY <2>1
<1>2. ASSUME NEW k \in 0 .. n - 1, k \in T
      PROVE  k + 1 \in T
  <2>1. PICK f : Drops(line, h, k, f)
    BY <1>2
  <2>. DEFINE g == [i \in 0 .. k + 1 |-> IF i = k + 1 THEN Shorter(line, h, f, i) ELSE f[i]]
  <2>2. \A i \in 0 .. k : g[i] = f[i]
    OBVIOUS
  <2>3. \A i \in 1 .. k + 1 : g[i - 1] = f[i - 1]
    BY <2>2
  <2>4. ASSUME NEW i \in 0 .. k + 1
        PROVE  g[i] = Shorter(line, h, g, i)
    <3>1. Shorter(line, h, g, i) = Shorter(line, h, f, i)
      BY <2>3 DEF Shorter
    <3>2. CASE i = k + 1
      BY <3>1, <3>2
    <3>3. CASE i \in 0 .. k
      <4>1. f[i] = Shorter(line, h, f, i)
        BY <2>1, <3>3, DropsAt
      <4>. QED
        BY <2>2, <3>1, <3>3, <4>1
    <3>. QED
      BY <3>2, <3>3
  <2>5. g = [i \in 0 .. k + 1 |-> g[i]]
    OBVIOUS
  <2>6. Drops(line, h, k + 1, g)
    <3>. HIDE DEF g
    <3>. QED
      BY <2>4, <2>5 DEF Drops
  <2>. QED
    BY <2>6
<1>3. n \in T
  <2>. HIDE DEF T
  <2>. QED
    BY <1>1, <1>2, UpTo
<1>. QED
  BY <1>3

LEMMA AppendOn ==
    ASSUME NEW S, NEW line \in Seq(S), NEW h \in S
    PROVE  /\ Append(line, h) \in Seq(S)
           /\ Len(Append(line, h)) = Len(line) + 1
           /\ \A i \in 1 .. Len(line) : Append(line, h)[i] = line[i]
           /\ \A g : On(Append(line, h), g) <=> On(line, g) \/ g = h
<1>1. /\ Append(line, h) \in Seq(S) /\ Len(Append(line, h)) = Len(line) + 1
      /\ \A i \in 1 .. Len(line) : Append(line, h)[i] = line[i]
      /\ Append(line, h)[Len(line) + 1] = h /\ Len(line) \in Nat
  BY AppendProperties
<1>. DEFINE more == Append(line, h)
<1>2. \A g : On(more, g) <=> On(line, g) \/ g = h
  <2>. HIDE DEF more
  <2>1. \A i : i \in 1 .. Len(line) + 1 <=> i \in 1 .. Len(line) \/ i = Len(line) + 1
    BY <1>1
  <2>2. /\ Len(more) = Len(line) + 1 /\ more[Len(line) + 1] = h
        /\ \A i \in 1 .. Len(line) : more[i] = line[i]
    BY <1>1 DEF more
  <2>. QED
    BY <2>1, <2>2 DEF On
<1>. QED
  BY <1>1, <1>2

\* Dropped takes one key from a line and leaves every other.
LEMMA DroppedOn ==
    ASSUME NEW S, NEW line \in Seq(S), NEW h
    PROVE  /\ Dropped(line, h) \in Seq(S)
           /\ \A g : On(Dropped(line, h), g) <=> On(line, g) /\ g # h
<1>. DEFINE F == CHOOSE f : Drops(line, h, Len(line), f)
<1>0. Len(line) \in Nat
  BY LenProperties
<1>1. Drops(line, h, Len(line), F)
  BY <1>0, DropsExists
<1>2. Dropped(line, h) = F[Len(line)]
  BY Zenon DEF Dropped, Drops, Shorter
<1>. HIDE DEF F
<1>. DEFINE Good(i) == /\ F[i] \in Seq(S)
                       /\ \A g : On(F[i], g) <=> g # h /\ \E j \in 1 .. i : line[j] = g
            T == {i \in 0 .. Len(line) : Good(i)}
<1>3. 0 \in T
  <2>1. F[0] = <<>>
    BY <1>0, <1>1, DropsAt DEF Shorter
  <2>2. <<>> \in Seq(S) /\ Len(<<>>) = 0
    OBVIOUS
  <2>3. \A i : i \notin 1 .. 0
    OBVIOUS
  <2>4. Good(0)
    BY <2>1, <2>2, <2>3 DEF On
  <2>. QED
    BY <1>0, <2>4
<1>4. ASSUME NEW k \in 0 .. Len(line) - 1, k \in T
      PROVE  k + 1 \in T
  <2>1. F[k + 1] = IF line[k + 1] = h THEN F[k] ELSE Append(F[k], line[k + 1])
    <3>1. F[k + 1] = Shorter(line, h, F, k + 1)
      BY <1>0, <1>1, DropsAt
    <3>. QED
      BY <3>1 DEF Shorter
  <2>2. Good(k) /\ line[k + 1] \in S
    BY <1>4, ElementOfSeq
  <2>3. \A g : (\E j \in 1 .. k + 1 : line[j] = g) <=> (\E j \in 1 .. k : line[j] = g) \/ g = line[k + 1]
    OBVIOUS
  <2>4. CASE line[k + 1] = h
    BY <1>0, <2>1, <2>2, <2>3, <2>4
  <2>5. CASE line[k + 1] # h
    <3>1. /\ F[k + 1] \in Seq(S)
          /\ \A g : On(F[k + 1], g) <=> On(F[k], g) \/ g = line[k + 1]
      BY <2>1, <2>2, <2>5, AppendOn
    <3>. QED
      BY <1>0, <2>2, <2>3, <2>5, <3>1
  <2>. QED
    BY <2>4, <2>5
<1>5. Len(line) \in T
  <2>. HIDE DEF T
  <2>. QED
    BY <1>0, <1>3, <1>4, UpTo
<1>. QED
  BY <1>2, <1>5 DEF On

-----------------------------------------------------------------------------
(* Types.                                                                  *)

Sets == Users \X Handles \X Names

Registrations == [Users -> Seq(Handles)]

FilesTyped ==
    /\ keys \in Registrations \cup {None} /\ names \subseteq Sets
    /\ oldKeys \in [Procs -> Registrations \cup {None}]
    /\ oldNames \in [Procs -> SUBSET Sets]

PinTyped == use \in Procs \cup {None} /\ pinned \in [Procs -> BOOLEAN] /\ rivals \in [Procs -> SUBSET Procs]

CommandsTyped ==
    /\ op \in [Procs -> {"add", "remove", "uninstall"}] /\ user \in [Procs -> Users]
    /\ pc \in [Procs -> PcStates] /\ faults \in 0 .. MaxFaults
    /\ name \in [Procs -> Names \cup {None}]
    /\ seen \in [Procs -> Seq(Handles)]
    /\ handle \in [Procs -> Handles \cup {None}]

HistoryTyped ==
    /\ reported \subseteq Sets /\ removed \subseteq Users \X Handles
    /\ meant \in [Procs -> Handles \cup {None}]
    /\ shifted \in [Procs -> BOOLEAN] /\ raced \in BOOLEAN /\ nameless \subseteq Handles

\* What a command knows where it stands: a key to store or remove once it rewrites
\* the files, and a name for the key it makes.
Knows ==
    \A p \in Procs :
        /\ pc[p] \in Rewriting =>
             /\ op[p] \in {"add", "remove"} /\ handle[p] \in Handles
             /\ op[p] = "add" => handle[p] = p /\ name[p] \in Labels
        /\ pc[p] = "make" => name[p] \in Labels
        /\ pc[p] \in {"seen", "find"} => op[p] = "remove"

TypeInv == FilesTyped /\ PinTyped /\ CommandsTyped /\ HistoryTyped /\ Knows

LEMMA LinesTyped ==
    ASSUME NEW k \in Registrations \cup {None}
    PROVE  Lines(k) \in Registrations
  BY DEF Lines, NoKeys, Registrations

\* The file after a rewrite is one, whatever was read before.
LEMMA RewrittenTyped ==
    ASSUME NEW k \in Registrations, NEW u \in Users, NEW h \in Handles
    PROVE  Stored(k, u, h) \in Registrations /\ Without(k, u, h) \in Registrations
<1>1. k[u] \in Seq(Handles)
  BY DEF Registrations
<1>2. Append(k[u], h) \in Seq(Handles) /\ Dropped(k[u], h) \in Seq(Handles)
  BY <1>1, AppendOn, DroppedOn
<1>. QED
  BY <1>2 DEF Stored, Without, Registrations

\* A position in a list is one of its positions.
LEMMA PositionInList ==
    ASSUME NEW which, NEW list, Len(list) \in Nat, NEW i \in Nat \ {0}, i = Position(which, list)
    PROVE  i \in 1 .. Len(list)
<1>. DEFINE hits == {j \in 1 .. Len(list) : which \in {Numeral(j), list[j]}}
<1>1. hits # {} /\ i = CHOOSE j \in hits : \A k \in hits : j <= k
  BY DEF Position
<1>2. \E j \in hits : \A k \in hits : j <= k
  <2>1. hits \subseteq Nat
    OBVIOUS
  <2>. HIDE DEF hits
  <2>. QED
    BY <1>1, <2>1, LeastNumber
<1>. HIDE DEF hits
<1>3. i \in hits
  BY <1>1, <1>2
<1>. QED
  BY <1>3 DEF hits

LEMMA FoundInLine ==
    ASSUME TypeInv, NEW p \in Procs, NEW which,
           Position(which, NamesFor(user[p])) \in 1 .. Len(seen[p])
    PROVE  LET i == Position(which, NamesFor(user[p])) IN
             i \in 1 .. Len(Lines(keys)[user[p]]) /\ Lines(keys)[user[p]][i] \in Handles
<1>. DEFINE line == Lines(keys)[user[p]]
            i == Position(which, NamesFor(user[p]))
<1>1. line \in Seq(Handles)
  BY LinesTyped DEF TypeInv, FilesTyped, CommandsTyped, Registrations
<1>2. Len(line) \in Nat /\ \A j \in 1 .. Len(line) : line[j] \in Handles
  BY <1>1, ElementOfSeq, LenProperties
<1>3. Len(NamesFor(user[p])) = Len(line)
  BY <1>2 DEF NamesFor
<1>4. i \in 1 .. Len(line)
  <2>1. seen[p] \in Seq(Handles)
    BY DEF TypeInv, CommandsTyped
  <2>2. Len(seen[p]) \in Nat
    BY <2>1, LenProperties
  <2>3. i \in Nat \ {0}
    BY <2>2
  <2>. QED
    BY <1>2, <1>3, <2>3, PositionInList
<1>. QED
  BY <1>2, <1>4

\* A command that goes on, without a look at anything but where it stands.
LEMMA GoesOnTyped ==
    ASSUME TypeInv, NEW p \in Procs, NEW s \in PcStates, Goto(p, s),
           UNCHANGED <<op, user, name, handle>>, FilesTyped', PinTyped', HistoryTyped',
           seen' \in [Procs -> Seq(Handles)], faults' \in 0 .. MaxFaults,
           s \in Rewriting => pc[p] \in Rewriting,
           s # "make",
           s \in {"seen", "find"} => op[p] = "remove"
    PROVE  TypeInv'
<1>1. CommandsTyped'
  BY DEF TypeInv, CommandsTyped, Goto
<1>2. Knows'
  BY DEF TypeInv, Knows, CommandsTyped, Goto
<1>. QED
  BY <1>1, <1>2 DEF TypeInv

LEMMA CommandTyped ==
    ASSUME IndInv, TypeInv, NEW p \in Procs, Command(p)
    PROVE  TypeInv'
<1>. USE DEF TypeInv
<1>0. /\ Over(p) \in {"unpin", "done"} /\ faults \in 0 .. MaxFaults
      /\ pc[p] \in {"names", "make"} => op[p] = "add"
      /\ pc[p] \in {"seen", "find"} => op[p] = "remove"
      /\ \A s \in Rewriting \cup {"new", "pin", "names", "make", "seen", "find", "unpin",
                             "wipe", "wipekeys", "wipenames", "done"} : s \in PcStates
  BY DEF Over, CommandsTyped, Knows, PcStates, IndInv, AddsOnly
<1>. USE DEF pinVars, localVars, fileVars, history, Rewriting
<1>1. CASE Start(p)
  <2>1. UNCHANGED <<fileVars, localVars, pinVars, history, op, user, faults>>
    BY <1>1 DEF Start
  <2>2. FilesTyped' /\ PinTyped' /\ HistoryTyped'
    BY <2>1 DEF FilesTyped, PinTyped, HistoryTyped
  <2>3. PICK s \in {"pin", "seen", "wipe"} : Goto(p, s) /\ (s = "seen" => op[p] = "remove")
    BY <1>1 DEF Start
  <2>. QED
    BY <1>0, <2>1, <2>2, <2>3, GoesOnTyped DEF CommandsTyped
<1>2. CASE Pin(p)
  <2>1. PinTyped'
    BY <1>2 DEF Pin, PinTyped
  <2>2. FilesTyped' /\ HistoryTyped'
    BY <1>2 DEF Pin, FilesTyped, HistoryTyped
  <2>. QED
    BY <1>0, <1>2, <2>1, <2>2, GoesOnTyped DEF Pin, CommandsTyped
<1>3. CASE Unpin(p)
  <2>1. PinTyped'
    BY <1>3 DEF Unpin, PinTyped
  <2>2. FilesTyped' /\ HistoryTyped'
    BY <1>3 DEF Unpin, FilesTyped, HistoryTyped
  <2>. QED
    BY <1>0, <1>3, <2>1, <2>2, GoesOnTyped DEF Unpin, CommandsTyped
<1>4. CASE NoPin(p) \/ Refused(p)
  <2>1. UNCHANGED <<fileVars, localVars, pinVars, history, op, user, faults>>
    BY <1>4 DEF NoPin, Refused
  <2>2. FilesTyped' /\ PinTyped' /\ HistoryTyped'
    BY <2>1 DEF FilesTyped, PinTyped, HistoryTyped
  <2>3. PICK s \in {"names", "unpin", "done"} : Goto(p, s)
    BY <1>0, <1>4 DEF NoPin, Refused
  <2>. QED
    BY <1>0, <2>1, <2>2, <2>3, GoesOnTyped DEF CommandsTyped
<1>5. ASSUME NEW n \in Labels, Name(p, n)
      PROVE  TypeInv'
  <2>1. UNCHANGED <<fileVars, seen, handle, oldKeys, oldNames, pinVars, history, op, user, faults>>
        /\ op[p] = "add"
    BY <1>0, <1>5 DEF Name
  <2>2. FilesTyped' /\ PinTyped' /\ HistoryTyped'
    BY <2>1 DEF FilesTyped, PinTyped, HistoryTyped
  <2>3. CASE UNCHANGED name /\ Goto(p, Over(p))
    BY <1>0, <2>1, <2>2, <2>3, GoesOnTyped DEF CommandsTyped
  <2>4. CASE Goto(p, "make") /\ name' = [name EXCEPT ![p] = n]
    <3>1. CommandsTyped'
      BY <1>0, <2>1, <2>4 DEF CommandsTyped, Goto, Names
    <3>2. Knows'
      BY <2>1, <2>4 DEF CommandsTyped, Knows, Goto
    <3>. QED
      BY <2>2, <3>1, <3>2
  <2>. QED
    BY <1>5, <2>3, <2>4 DEF Name
<1>6. CASE Make(p)
  <2>1. /\ UNCHANGED <<fileVars, name, seen, oldKeys, oldNames, pinVars, history, op, user, faults>>
        /\ op[p] = "add" /\ Goto(p, "readkeys") /\ pc[p] = "make"
        /\ handle' = [handle EXCEPT ![p] = p] /\ p \in Handles
    BY <1>0, <1>6 DEF Make, Handles
  <2>2. FilesTyped' /\ PinTyped' /\ HistoryTyped'
    BY <2>1 DEF FilesTyped, PinTyped, HistoryTyped
  <2>3. CommandsTyped'
    BY <1>0, <2>1 DEF CommandsTyped, Goto
  <2>4. name[p] \in Labels
    BY <2>1 DEF Knows
  <2>5. Knows'
    BY <2>1, <2>4 DEF CommandsTyped, Knows, Goto
  <2>. QED
    BY <2>2, <2>3, <2>5
<1>7. CASE ReadHandles(p)
  <2>1. /\ UNCHANGED <<fileVars, name, handle, oldKeys, oldNames, pinVars, history, op, user, faults>>
        /\ op[p] = "remove" /\ Goto(p, "find")
        /\ seen' = [seen EXCEPT ![p] = Lines(keys)[user[p]]]
    BY <1>0, <1>7 DEF ReadHandles
  <2>2. FilesTyped' /\ PinTyped' /\ HistoryTyped'
    BY <2>1 DEF FilesTyped, PinTyped, HistoryTyped
  <2>3. Lines(keys)[user[p]] \in Seq(Handles)
    BY LinesTyped DEF FilesTyped, CommandsTyped, Registrations
  <2>4. seen' \in [Procs -> Seq(Handles)]
    BY <2>1, <2>3 DEF CommandsTyped
  <2>. QED
    BY <1>0, <2>1, <2>2, <2>4, GoesOnTyped DEF CommandsTyped
<1>8. ASSUME NEW w, Find(p, w)
      PROVE  TypeInv'
  <2>1. /\ UNCHANGED <<fileVars, name, seen, oldKeys, oldNames, pinVars, reported, removed,
                       shifted, raced, nameless, op, user, faults>>
        /\ op[p] = "remove"
    BY <1>0, <1>8 DEF Find
  <2>2. FilesTyped' /\ PinTyped'
    BY <2>1 DEF FilesTyped, PinTyped
  <2>3. CASE Goto(p, "done") /\ UNCHANGED <<handle, meant>>
    <3>1. HistoryTyped'
      BY <2>1, <2>3 DEF HistoryTyped
    <3>. QED
      BY <1>0, <2>1, <2>2, <2>3, <3>1, GoesOnTyped DEF CommandsTyped
  <2>4. CASE ~(Goto(p, "done") /\ UNCHANGED <<handle, meant>>)
    <3>. DEFINE i == Position(w, NamesFor(user[p]))
    <3>1. /\ i \in 1 .. Len(seen[p]) /\ Goto(p, "readkeys")
          /\ handle' = [handle EXCEPT ![p] = seen[p][i]]
          /\ meant' = [meant EXCEPT ![p] = Lines(keys)[user[p]][i]]
      BY <1>8, <2>4 DEF Find
    <3>2. Lines(keys)[user[p]][i] \in Handles
      BY <3>1, FoundInLine
    <3>3. seen[p] \in Seq(Handles)
      BY DEF CommandsTyped
    <3>4. seen[p][i] \in Handles
      BY <3>1, <3>3, ElementOfSeq
    <3>. HIDE DEF i
    <3>5. HistoryTyped'
      BY <2>1, <3>1, <3>2 DEF HistoryTyped
    <3>6. CommandsTyped'
      BY <1>0, <2>1, <3>1, <3>4 DEF CommandsTyped, Goto
    <3>7. Knows'
      BY <2>1, <3>1, <3>4 DEF CommandsTyped, Knows, Goto
    <3>. QED
      BY <2>2, <3>5, <3>6, <3>7
  <2>. QED
    BY <2>3, <2>4
<1>9. CASE ReadKeys(p) \/ ReadNames(p)
  <2>1. /\ UNCHANGED <<fileVars, name, seen, handle, pinVars, reported, removed, meant, shifted,
                       nameless, op, user, faults>>
        /\ oldKeys' = oldKeys \/ oldKeys' = [oldKeys EXCEPT ![p] = keys]
        /\ oldNames' = oldNames \/ oldNames' = [oldNames EXCEPT ![p] = names]
        /\ raced' \in BOOLEAN /\ pc[p] \in Rewriting
    BY <1>9 DEF ReadKeys, ReadNames, HistoryTyped
  <2>2. FilesTyped'
    BY <2>1 DEF FilesTyped
  <2>3. PinTyped' /\ HistoryTyped'
    BY <2>1 DEF PinTyped, HistoryTyped
  <2>4. PICK s \in {"readnames", "writekeys", "done"} : Goto(p, s)
    BY <1>9 DEF ReadKeys, ReadNames
  <2>. QED
    BY <1>0, <2>1, <2>2, <2>3, <2>4, GoesOnTyped DEF CommandsTyped
<1>10. CASE WriteKeys(p)
  <2>1. /\ UNCHANGED <<names, name, seen, handle, oldNames, pinVars, removed, meant, raced,
                       nameless, op, user, faults>>
        /\ pc[p] \in Rewriting /\ Goto(p, "writenames") /\ oldKeys' = [oldKeys EXCEPT ![p] = None]
    BY <1>10 DEF WriteKeys
  <2>2. keys' \in Registrations
    <3>1. /\ Stored(Lines(oldKeys[p]), user[p], handle[p]) \in Registrations
          /\ Without(Lines(oldKeys[p]), user[p], handle[p]) \in Registrations
      BY <2>1, LinesTyped, RewrittenTyped DEF FilesTyped, CommandsTyped, Knows
    <3>. QED
      BY <1>10, <3>1 DEF WriteKeys
  <2>3. reported' \subseteq reported /\ shifted' \in [Procs -> BOOLEAN]
    BY <1>10 DEF WriteKeys, Shift, HistoryTyped
  <2>4. FilesTyped'
    BY <2>1, <2>2 DEF FilesTyped
  <2>5. PinTyped' /\ HistoryTyped'
    BY <2>1, <2>3 DEF PinTyped, HistoryTyped
  <2>. QED
    BY <1>0, <2>1, <2>4, <2>5, GoesOnTyped DEF CommandsTyped
<1>11. CASE WriteNames(p)
  <2>1. /\ UNCHANGED <<keys, name, seen, handle, oldKeys, pinVars, meant, shifted, raced,
                       nameless, op, user, faults>>
        /\ pc[p] \in Rewriting /\ Goto(p, Over(p)) /\ oldNames' = [oldNames EXCEPT ![p] = {}]
    BY <1>11 DEF WriteNames
  <2>. DEFINE entry == <<user[p], handle[p], name[p]>>
  <2>2. user[p] \in Users /\ handle[p] \in Handles /\ (op[p] = "add" => name[p] \in Names)
    BY <2>1 DEF CommandsTyped, Knows, Names
  <2>3. op[p] = "add" => entry \in Sets
    BY <2>2 DEF Sets
  <2>4. oldNames[p] \subseteq Sets
    BY DEF FilesTyped
  <2>5. names' \subseteq Sets /\ reported' \subseteq Sets /\ removed' \subseteq Users \X Handles
    BY <1>11, <2>2, <2>3, <2>4 DEF WriteNames, Unnamed, HistoryTyped
  <2>6. FilesTyped'
    BY <2>1, <2>5 DEF FilesTyped
  <2>7. PinTyped' /\ HistoryTyped'
    BY <2>1, <2>5 DEF PinTyped, HistoryTyped
  <2>. QED
    BY <1>0, <2>1, <2>6, <2>7, GoesOnTyped DEF CommandsTyped
<1>12. CASE WipeKeys(p) \/ WipeNames(p)
  <2>1. /\ UNCHANGED <<localVars, pinVars, removed, meant, nameless, op, user, faults>>
        /\ keys' \in {keys, None} /\ names' \subseteq names /\ reported' = {}
        /\ raced' \in BOOLEAN /\ shifted' \in [Procs -> BOOLEAN]
    BY <1>12 DEF WipeKeys, WipeNames, Shift, HistoryTyped
  <2>2. FilesTyped' /\ PinTyped' /\ HistoryTyped'
    BY <2>1 DEF FilesTyped, PinTyped, HistoryTyped
  <2>3. PICK s \in {"wipekeys", "wipenames", "done"} : Goto(p, s)
    BY <1>12 DEF WipeKeys, WipeNames
  <2>. QED
    BY <1>0, <2>1, <2>2, <2>3, GoesOnTyped DEF CommandsTyped
<1>13. CASE Fail(p) \/ Kill(p)
  <2>1. /\ UNCHANGED <<fileVars, localVars, pinVars, reported, removed, meant, shifted, raced,
                       op, user>>
        /\ faults < MaxFaults /\ faults' = faults + 1
        /\ nameless' = nameless \cup LeftNameless(p)
    BY <1>13 DEF Fail, Kill
  <2>2. LeftNameless(p) \subseteq Handles
    BY DEF LeftNameless, Knows
  <2>3. FilesTyped' /\ PinTyped' /\ HistoryTyped'
    BY <2>1, <2>2 DEF FilesTyped, PinTyped, HistoryTyped
  <2>4. faults' \in 0 .. MaxFaults
    BY <1>0, <2>1, RegistryAssumption
  <2>5. PICK s \in {"unpin", "done"} : Goto(p, s)
    BY <1>0, <1>13 DEF Fail, Kill
  <2>. QED
    BY <1>0, <2>1, <2>3, <2>4, <2>5, GoesOnTyped DEF CommandsTyped
<1>. QED
  BY <1>1, <1>2, <1>3, <1>4, <1>5, <1>6, <1>7, <1>8, <1>9, <1>10, <1>11, <1>12, <1>13 DEF Command
-----------------------------------------------------------------------------
(* One command at a time.                                                  *)

\* Where a command stands between its first access to the two files and its last.
Busy == {"readnames", "writekeys", "writenames", "wipekeys", "wipenames"}

OneAtATime == \A p, q \in Procs : pc[p] \in Busy /\ pc[q] \in Busy => p = q

\* What a command has read and not yet used is what the files hold.
ReadIsNow ==
    \A p \in Procs :
        /\ pc[p] \in {"readnames", "writekeys"} => oldKeys[p] = keys
        /\ pc[p] \in {"writekeys", "writenames"} => oldNames[p] = names
        /\ pc[p] = "wipenames" => keys = None

\* A key stays with the user it was made for.
OwnKeys ==
    /\ \A u \in Users, h \in Handles : On(Lines(keys)[u], h) => user[h] = u
    /\ \A p \in Procs, h \in Handles : On(seen[p], h) => user[h] = user[p]
    /\ \A p \in Procs : pc[p] \in Rewriting => user[handle[p]] = user[p]

\* An `add` that has not written the key file yet.
Early == {"new", "pin", "names", "make", "readkeys", "readnames", "writekeys"}
Unwritten == {h \in Procs : op[h] = "add" /\ pc[h] \in Early}

\* No file and no command has heard of its key.
NotYetAnywhere ==
    \A h \in Unwritten :
        /\ \A u \in Users : ~On(Lines(keys)[u], h)
        /\ \A q \in Procs : ~On(seen[q], h) /\ (pc[q] \in Rewriting => q = h \/ handle[q] # h)
        /\ \A r \in removed : r[2] # h

\* Between the two files the key is in the first one, or out of it.
Halfway ==
    \A p \in Procs : pc[p] = "writenames" =>
        (op[p] = "add" <=> On(Lines(keys)[user[p]], handle[p]))

\* The handles that a `remove` has read are still at the same places.
SeenStillThere ==
    \A p \in Procs : pc[p] = "find" /\ ~shifted[p] =>
        \A i \in 1 .. Len(seen[p]) :
            i \in 1 .. Len(Lines(keys)[user[p]]) /\ Lines(keys)[user[p]][i] = seen[p][i]

Meant ==
    \A p \in Procs : op[p] = "remove" /\ pc[p] \in Rewriting => handle[p] = meant[p] \/ shifted[p]

\* The three parts of ReportsHold.
Registered == \A t \in reported : On(Lines(keys)[t[1]], t[2]) /\ t \in names
Removed    == \A r \in removed : ~On(Lines(keys)[r[1]], r[2])
Named ==
    \A u \in Users, h \in Handles : On(Lines(keys)[u], h) =>
        \/ \E t \in names : t[1] = u /\ t[2] = h
        \/ h \in nameless
        \/ \E p \in Procs : pc[p] = "wipekeys" \/ (pc[p] = "writenames" /\ handle[p] = h)

Alone ==
    /\ OneAtATime /\ ReadIsNow /\ OwnKeys /\ NotYetAnywhere /\ Halfway
    /\ SeenStillThere /\ Meant /\ Registered /\ Removed /\ Named

\* The order of the commands is kept until two of them rewrite the files at once.
OrderInv == raced \/ Alone

LEMMA StoredOn ==
    ASSUME NEW k \in Registrations, NEW u \in Users, NEW h \in Handles, NEW v \in Users
    PROVE  /\ \A g : On(Stored(k, u, h)[v], g) <=> On(k[v], g) \/ (v = u /\ g = h)
           /\ \A i \in 1 .. Len(k[v]) : i \in 1 .. Len(Stored(k, u, h)[v])
                                        /\ Stored(k, u, h)[v][i] = k[v][i]
<1>1. k[v] \in Seq(Handles) /\ Len(k[v]) \in Nat
  BY LenProperties DEF Registrations
<1>2. Stored(k, u, h)[v] = IF v = u THEN Append(k[v], h) ELSE k[v]
  BY DEF Stored, Registrations
<1>3. /\ Len(Append(k[v], h)) = Len(k[v]) + 1
      /\ \A i \in 1 .. Len(k[v]) : Append(k[v], h)[i] = k[v][i]
      /\ \A g : On(Append(k[v], h), g) <=> On(k[v], g) \/ g = h
  BY <1>1, AppendOn
<1>. QED
  BY <1>1, <1>2, <1>3

LEMMA WithoutOn ==
    ASSUME NEW k \in Registrations, NEW u \in Users, NEW h \in Handles, NEW v \in Users
    PROVE  /\ \A g : On(Without(k, u, h)[v], g) <=> On(k[v], g) /\ ~(v = u /\ g = h)
           /\ v # u => Without(k, u, h)[v] = k[v]
<1>1. k[v] \in Seq(Handles)
  BY DEF Registrations
<1>2. Without(k, u, h)[v] = IF v = u THEN Dropped(k[v], h) ELSE k[v]
  BY DEF Without, Registrations
<1>. QED
  BY <1>1, <1>2, DroppedOn

\* Without a file nobody has a key.
LEMMA NothingOn ==
    ASSUME NEW u \in Users
    PROVE  \A g : ~On(Lines(None)[u], g)
  BY DEF Lines, NoKeys, On

\* A file that was written is there.
LEMMA WrittenLines ==
    ASSUME NEW k \in Registrations
    PROVE  Lines(k) = k
  BY RegistryAssumption DEF Lines, Registrations, Handles

\* Variables the parts speak of, but for the places of the commands.
keptVars == <<keys, names, handle, seen, oldKeys, oldNames, meant, shifted, reported, removed, op, user>>

Elsewhere == PcStates \ (Busy \cup Rewriting \cup {"find"})

\* A step that leads away from the files and touches none.
LEMMA QuietKeeps ==
    ASSUME TypeInv, Alone, NEW p \in Procs, NEW s \in Elsewhere, Goto(p, s), UNCHANGED keptVars,
           op[p] = "add" /\ s \in Early => pc[p] \in Early, Named'
    PROVE  Alone'
<1>. USE DEF keptVars, Goto, TypeInv, CommandsTyped
<1>1. \A q \in Procs : pc'[q] \in Busy \cup Rewriting \cup {"find"} => pc'[q] = pc[q]
  BY DEF Elsewhere
<1>2. OneAtATime' /\ ReadIsNow'
  BY <1>1 DEF Alone, OneAtATime, ReadIsNow, Busy
<1>3. OwnKeys' /\ Halfway' /\ SeenStillThere' /\ Meant'
  BY <1>1 DEF Alone, OwnKeys, Halfway, SeenStillThere, Meant, Busy
<1>4. NotYetAnywhere'
  <2>1. Unwritten' \subseteq Unwritten
    BY DEF Unwritten
  <2>. QED
    BY <1>1, <2>1 DEF Alone, NotYetAnywhere
<1>5. Registered' /\ Removed'
  BY DEF Alone, Registered, Removed
<1>. QED
  BY <1>2, <1>3, <1>4, <1>5 DEF Alone

\* It leaves no key without a name unless it was one that had reached the files.
LEMMA NamedKept ==
    ASSUME TypeInv, Named, NEW p \in Procs, NEW s \in PcStates, Goto(p, s),
           UNCHANGED <<keys, names, nameless>>,
           \A q \in Procs : pc[q] = "writenames" => handle'[q] = handle[q],
           pc[p] \notin {"writenames", "wipekeys"}
    PROVE  Named'
<1>1. \A q \in Procs : pc[q] \in {"writenames", "wipekeys"} => pc'[q] = pc[q]
  BY DEF Goto, TypeInv, CommandsTyped
<1>2. ASSUME NEW u \in Users, NEW h \in Handles, On(Lines(keys)[u], h)
      PROVE  \/ \E t \in names : t[1] = u /\ t[2] = h
             \/ h \in nameless
             \/ \E q \in Procs : pc'[q] = "wipekeys" \/ (pc'[q] = "writenames" /\ handle'[q] = h)
  <2>1. ASSUME NEW q \in Procs, pc[q] = "wipekeys" \/ (pc[q] = "writenames" /\ handle[q] = h)
        PROVE  pc'[q] = "wipekeys" \/ (pc'[q] = "writenames" /\ handle'[q] = h)
    BY <1>1, <2>1
  <2>. QED
    BY <1>2, <2>1 DEF Named
<1>. QED
  BY <1>2 DEF Named

\* The steps before a command touches the files, and the ends of others.
LEMMA AwayKeeps ==
    ASSUME TypeInv, Alone, NEW p \in Procs,
           \/ Start(p) \/ Pin(p) \/ NoPin(p) \/ (\E n \in Labels : Name(p, n))
           \/ Refused(p) \/ Unpin(p)
    PROVE  Alone'
<1>1. UNCHANGED keptVars /\ UNCHANGED nameless
  BY DEF Start, Pin, NoPin, Name, Refused, Unpin, keptVars, fileVars, localVars, history
<1>2. pc[p] \in {"new", "pin", "names", "make", "unpin"}
  BY DEF Start, Pin, NoPin, Name, Refused, Unpin
<1>3. PICK s \in {"pin", "seen", "wipe", "names", "make", "unpin", "done"} :
         Goto(p, s) /\ (s \in Early => pc[p] \in Early)
  BY DEF Start, Pin, NoPin, Name, Refused, Unpin, Over, Early, TypeInv, CommandsTyped
<1>4. s \in Elsewhere
  BY DEF Elsewhere, PcStates, Busy, Rewriting
<1>5. Named'
  <2>1. s \in PcStates
    BY <1>4 DEF Elsewhere
  <2>. QED
    BY <1>1, <1>2, <1>3, <2>1, NamedKept DEF keptVars, Alone
<1>. QED
  BY <1>1, <1>3, <1>4, <1>5, QuietKeeps

\* A command that ends between the two files leaves its key to `nameless`.
LEMMA FailKeeps ==
    ASSUME TypeInv, Alone, NEW p \in Procs, Fail(p) \/ Kill(p)
    PROVE  Alone'
<1>1. UNCHANGED keptVars /\ nameless' = nameless \cup LeftNameless(p)
  BY DEF Fail, Kill, keptVars, fileVars, localVars
<1>2. PICK s \in {"unpin", "done"} : Goto(p, s)
  BY DEF Fail, Kill, Over
<1>3. s \in Elsewhere /\ s \notin Early
  BY DEF Elsewhere, PcStates, Busy, Rewriting, Early
<1>4. \A q \in Procs : q # p => pc'[q] = pc[q]
  BY <1>2 DEF Goto, TypeInv, CommandsTyped
<1>5. ASSUME NEW u \in Users, NEW h \in Handles, On(Lines(keys)[u], h)
      PROVE  \/ \E t \in names : t[1] = u /\ t[2] = h
             \/ h \in nameless'
             \/ \E q \in Procs : pc'[q] = "wipekeys" \/ (pc'[q] = "writenames" /\ handle[q] = h)
  <2>1. CASE pc[p] = "wipekeys"
    BY <1>1, <2>1 DEF LeftNameless
  <2>2. CASE pc[p] = "writenames" /\ handle[p] = h
    <3>1. user[h] = u /\ user[h] = user[p]
      BY <1>5, <2>2 DEF Alone, OwnKeys, Rewriting
    <3>2. op[p] = "add"
      BY <1>5, <2>2, <3>1 DEF Alone, Halfway
    <3>. QED
      BY <1>1, <2>2, <3>2 DEF LeftNameless
  <2>3. CASE pc[p] # "wipekeys" /\ ~(pc[p] = "writenames" /\ handle[p] = h)
    BY <1>1, <1>4, <1>5, <2>3 DEF Alone, Named
  <2>. QED
    BY <2>1, <2>2, <2>3
<1>6. Named'
  BY <1>1, <1>5 DEF Named, keptVars
<1>. QED
  BY <1>1, <1>2, <1>3, <1>6, QuietKeeps

LEMMA MakeKeeps ==
    ASSUME IndInv, TypeInv, Alone, NEW p \in Procs, Make(p)
    PROVE  Alone'
<1>. USE DEF TypeInv, CommandsTyped
<1>1. /\ UNCHANGED <<keys, names, seen, oldKeys, oldNames, meant, shifted, reported, removed,
                     nameless, op, user>>
      /\ pc[p] = "make" /\ Goto(p, "readkeys") /\ handle' = [handle EXCEPT ![p] = p]
  BY DEF Make, fileVars, history
<1>2. op[p] = "add"
  BY <1>1 DEF IndInv, AddsOnly
<1>3. \A q \in Procs : q # p => pc'[q] = pc[q] /\ handle'[q] = handle[q]
  BY <1>1 DEF Goto
<1>4. pc'[p] = "readkeys" /\ handle'[p] = p
  BY <1>1 DEF Goto
<1>5. OneAtATime' /\ ReadIsNow'
  BY <1>1, <1>3, <1>4 DEF Alone, OneAtATime, ReadIsNow, Busy
<1>6. OwnKeys'
  BY <1>1, <1>3, <1>4 DEF Alone, OwnKeys
<1>7. NotYetAnywhere'
  <2>1. Unwritten' \subseteq Unwritten
    BY <1>1, <1>3 DEF Unwritten, Early
  <2>. QED
    BY <1>1, <1>3, <1>4, <2>1 DEF Alone, NotYetAnywhere
<1>8. Halfway' /\ SeenStillThere' /\ Meant'
  BY <1>1, <1>2, <1>3, <1>4 DEF Alone, Halfway, SeenStillThere, Meant
<1>9. Registered' /\ Removed'
  BY <1>1 DEF Alone, Registered, Removed
<1>10. Named'
  BY <1>1, <1>3, NamedKept DEF Alone, PcStates, Rewriting
<1>. QED
  BY <1>5, <1>6, <1>7, <1>8, <1>9, <1>10 DEF Alone

LEMMA ReadHandlesKeeps ==
    ASSUME TypeInv, Alone, NEW p \in Procs, ReadHandles(p)
    PROVE  Alone'
<1>. USE DEF TypeInv, CommandsTyped
<1>1. /\ UNCHANGED <<keys, names, handle, oldKeys, oldNames, meant, shifted, reported, removed,
                     nameless, op, user>>
      /\ pc[p] = "seen" /\ Goto(p, "find")
      /\ seen' = [seen EXCEPT ![p] = Lines(keys)[user[p]]]
  BY DEF ReadHandles, fileVars, history
<1>2. op[p] = "remove"
  BY <1>1 DEF Knows
<1>3. \A q \in Procs : q # p => pc'[q] = pc[q] /\ seen'[q] = seen[q]
  BY <1>1 DEF Goto
<1>4. pc'[p] = "find" /\ seen'[p] = Lines(keys)[user[p]]
  BY <1>1 DEF Goto
<1>5. OneAtATime' /\ ReadIsNow'
  BY <1>1, <1>3, <1>4 DEF Alone, OneAtATime, ReadIsNow, Busy
<1>6. OwnKeys'
  BY <1>1, <1>3, <1>4 DEF Alone, OwnKeys, Rewriting
<1>7. NotYetAnywhere'
  <2>1. Unwritten' \subseteq Unwritten
    BY <1>1, <1>2, <1>3 DEF Unwritten
  <2>. QED
    BY <1>1, <1>3, <1>4, <2>1 DEF Alone, NotYetAnywhere, Rewriting
<1>8. Halfway' /\ SeenStillThere' /\ Meant'
  <2>1. Halfway'
    BY <1>1, <1>3, <1>4 DEF Alone, Halfway
  <2>2. SeenStillThere'
    BY <1>1, <1>3, <1>4 DEF Alone, SeenStillThere
  <2>3. Meant'
    BY <1>1, <1>3, <1>4 DEF Alone, Meant, Rewriting
  <2>. QED
    BY <2>1, <2>2, <2>3
<1>9. Registered' /\ Removed'
  BY <1>1 DEF Alone, Registered, Removed
<1>10. Named'
  BY <1>1, <1>3, NamedKept DEF Alone, PcStates
<1>. QED
  BY <1>5, <1>6, <1>7, <1>8, <1>9, <1>10 DEF Alone

\* The position comes from the file of now, the handle from the one read before.
LEMMA FindKeeps ==
    ASSUME TypeInv, Alone, NEW p \in Procs, NEW w, Find(p, w)
    PROVE  Alone'
<1>. USE DEF TypeInv, CommandsTyped
<1>. DEFINE i == Position(w, NamesFor(user[p]))
<1>1. /\ UNCHANGED <<keys, names, seen, oldKeys, oldNames, shifted, reported, removed,
                     nameless, op, user>>
      /\ pc[p] = "find" /\ op[p] = "remove"
  BY DEF Find, fileVars, Knows
<1>2. CASE Goto(p, "done") /\ UNCHANGED <<handle, meant>>
  <2>1. "done" \in Elsewhere /\ "done" \notin Early
    BY DEF Elsewhere, PcStates, Busy, Rewriting, Early
  <2>2. Named'
    BY <1>1, <1>2, NamedKept DEF Alone, PcStates
  <2>. QED
    BY <1>1, <1>2, <2>1, <2>2, QuietKeeps DEF keptVars
<1>3. CASE ~(Goto(p, "done") /\ UNCHANGED <<handle, meant>>)
  <2>1. /\ i \in 1 .. Len(seen[p]) /\ Goto(p, "readkeys")
        /\ handle' = [handle EXCEPT ![p] = seen[p][i]]
        /\ meant' = [meant EXCEPT ![p] = Lines(keys)[user[p]][i]]
    BY <1>3 DEF Find
  <2>. HIDE DEF i
  <2>2. \A q \in Procs : q # p => /\ pc'[q] = pc[q] /\ handle'[q] = handle[q]
                                  /\ meant'[q] = meant[q]
    BY <2>1 DEF Goto, HistoryTyped
  <2>3. pc'[p] = "readkeys" /\ handle'[p] = seen[p][i] /\ meant'[p] = Lines(keys)[user[p]][i]
    BY <2>1 DEF Goto, HistoryTyped
  <2>4. On(seen[p], handle'[p]) /\ handle'[p] \in Handles
    <3>1. seen[p] \in Seq(Handles)
      OBVIOUS
    <3>2. seen[p][i] \in Handles
      BY <2>1, <3>1, ElementOfSeq
    <3>. QED
      BY <2>1, <2>3, <3>2 DEF On
  <2>5. OneAtATime' /\ ReadIsNow'
    BY <1>1, <2>2, <2>3 DEF Alone, OneAtATime, ReadIsNow, Busy
  <2>6. OwnKeys'
    <3>1. user[handle'[p]] = user[p]
      BY <2>4 DEF Alone, OwnKeys
    <3>2. \A q \in Procs : pc'[q] \in Rewriting => user[handle'[q]] = user[q]
      BY <2>2, <3>1 DEF Alone, OwnKeys
    <3>. QED
      BY <1>1, <3>2 DEF Alone, OwnKeys
  <2>7. NotYetAnywhere'
    <3>1. Unwritten' \subseteq Unwritten
      BY <1>1, <2>2 DEF Unwritten
    <3>. QED
      BY <1>1, <2>2, <2>3, <2>4, <3>1 DEF Alone, NotYetAnywhere
  <2>8. Meant'
    <3>1. handle'[p] = meant'[p] \/ shifted[p]
      BY <1>1, <2>1, <2>3 DEF Alone, SeenStillThere
    <3>. QED
      BY <1>1, <2>2, <3>1 DEF Alone, Meant
  <2>9. Halfway' /\ SeenStillThere'
    BY <1>1, <2>2, <2>3 DEF Alone, Halfway, SeenStillThere
  <2>10. Registered' /\ Removed'
    BY <1>1 DEF Alone, Registered, Removed
  <2>11. Named'
    BY <1>1, <2>1, <2>2, NamedKept DEF Alone, PcStates, Rewriting
  <2>. QED
    BY <2>5, <2>6, <2>7, <2>8, <2>9, <2>10, <2>11 DEF Alone
<1>. QED
  BY <1>2, <1>3

\* Reading the key file begins a rewrite: nobody else is at one, or they race.
LEMMA ReadKeysKeeps ==
    ASSUME TypeInv, Alone, NEW p \in Procs, ReadKeys(p), ~Overlap(p)
    PROVE  Alone'
<1>. USE DEF TypeInv, CommandsTyped, FilesTyped
<1>1. /\ UNCHANGED <<keys, names, handle, seen, oldNames, meant, shifted, reported, removed,
                     nameless, op, user>>
      /\ pc[p] = "readkeys" /\ oldKeys' = [oldKeys EXCEPT ![p] = keys]
  BY DEF ReadKeys, fileVars
<1>2. PICK s \in {"readnames", "done"} : Goto(p, s)
  BY DEF ReadKeys
<1>3. \A q \in Procs : q # p => /\ pc'[q] = pc[q] /\ oldKeys'[q] = oldKeys[q]
                                /\ pc[q] \notin Busy
  BY <1>1, <1>2 DEF Goto, Overlap, Busy
<1>4. pc'[p] = s /\ oldKeys'[p] = keys
  BY <1>1, <1>2 DEF Goto
<1>5. OneAtATime' /\ ReadIsNow'
  BY <1>1, <1>3, <1>4 DEF Alone, OneAtATime, ReadIsNow, Busy
<1>6. OwnKeys' /\ Halfway' /\ SeenStillThere' /\ Meant'
  <2>1. \A q \in Procs : pc'[q] \in Rewriting => pc[q] \in Rewriting
    BY <1>1, <1>3, <1>4 DEF Rewriting
  <2>2. OwnKeys'
    BY <1>1, <2>1 DEF Alone, OwnKeys
  <2>3. Halfway'
    BY <1>1, <1>3, <1>4 DEF Alone, Halfway
  <2>4. SeenStillThere'
    <3>1. \A q \in Procs : pc'[q] = "find" => pc[q] = "find"
      BY <1>1, <1>3, <1>4
    <3>. QED
      BY <1>1, <3>1, Zenon DEF Alone, SeenStillThere
  <2>5. Meant'
    BY <1>1, <2>1 DEF Alone, Meant
  <2>. QED
    BY <2>2, <2>3, <2>4, <2>5
<1>7. NotYetAnywhere'
  <2>1. Unwritten' \subseteq Unwritten
    BY <1>1, <1>3 DEF Unwritten, Early
  <2>2. pc'[p] \in Rewriting => pc[p] \in Rewriting
    BY <1>1 DEF Rewriting
  <2>. QED
    BY <1>1, <1>3, <2>1, <2>2 DEF Alone, NotYetAnywhere
<1>8. Registered' /\ Removed'
  BY <1>1 DEF Alone, Registered, Removed
<1>9. Named'
  BY <1>1, <1>2, NamedKept DEF Alone, PcStates, Rewriting
<1>. QED
  BY <1>5, <1>6, <1>7, <1>8, <1>9 DEF Alone

LEMMA ReadNamesKeeps ==
    ASSUME TypeInv, Alone, NEW p \in Procs, ReadNames(p)
    PROVE  Alone'
<1>. USE DEF TypeInv, CommandsTyped, FilesTyped
<1>1. /\ UNCHANGED <<keys, names, handle, seen, oldKeys, meant, shifted, reported, removed,
                     nameless, op, user>>
      /\ pc[p] = "readnames" /\ Goto(p, "writekeys") /\ oldNames' = [oldNames EXCEPT ![p] = names]
  BY DEF ReadNames, fileVars, history
<1>2. \A q \in Procs : q # p => pc'[q] = pc[q] /\ oldNames'[q] = oldNames[q]
  BY <1>1 DEF Goto
<1>3. pc'[p] = "writekeys" /\ oldNames'[p] = names
  BY <1>1 DEF Goto
<1>4. OneAtATime' /\ ReadIsNow'
  BY <1>1, <1>2, <1>3 DEF Alone, OneAtATime, ReadIsNow, Busy
<1>5. OwnKeys' /\ Halfway' /\ SeenStillThere' /\ Meant'
  <2>1. \A q \in Procs : pc'[q] \in Rewriting => pc[q] \in Rewriting
    BY <1>1, <1>2, <1>3 DEF Rewriting
  <2>2. OwnKeys'
    BY <1>1, <2>1 DEF Alone, OwnKeys
  <2>3. Halfway'
    BY <1>1, <1>2, <1>3 DEF Alone, Halfway
  <2>4. SeenStillThere'
    <3>1. \A q \in Procs : pc'[q] = "find" => pc[q] = "find"
      BY <1>1, <1>2, <1>3
    <3>. QED
      BY <1>1, <3>1, Zenon DEF Alone, SeenStillThere
  <2>5. Meant'
    BY <1>1, <2>1 DEF Alone, Meant
  <2>. QED
    BY <2>2, <2>3, <2>4, <2>5
<1>6. NotYetAnywhere'
  <2>1. Unwritten' \subseteq Unwritten
    BY <1>1, <1>2 DEF Unwritten, Early
  <2>2. pc[p] \in Rewriting
    BY <1>1 DEF Rewriting
  <2>. QED
    BY <1>1, <1>2, <2>1, <2>2 DEF Alone, NotYetAnywhere
<1>7. Registered' /\ Removed'
  BY <1>1 DEF Alone, Registered, Removed
<1>8. Named'
  BY <1>1, NamedKept DEF Alone, PcStates, Rewriting
<1>. QED
  BY <1>4, <1>5, <1>6, <1>7, <1>8 DEF Alone

\* Rewriting the key file, but for what hangs on which key comes or goes.
LEMMA WriteKeysKeeps ==
    ASSUME TypeInv, Alone, NEW p \in Procs, WriteKeys(p)
    PROVE  Alone'
<1>. USE DEF TypeInv, CommandsTyped
<1>. DEFINE old == Lines(keys)
            h0 == handle[p]
            u0 == user[p]
<1>1. /\ UNCHANGED <<names, seen, handle, oldNames, removed, meant, nameless, op, user>>
      /\ pc[p] = "writekeys" /\ Goto(p, "writenames") /\ oldKeys' = [oldKeys EXCEPT ![p] = None]
  BY DEF WriteKeys
<1>2. \A q \in Procs : q # p => pc'[q] = pc[q] /\ pc[q] \notin Busy
  BY <1>1 DEF Goto, Alone, OneAtATime, Busy
<1>3. pc'[p] = "writenames"
  BY <1>1 DEF Goto
<1>4. oldKeys[p] = keys /\ oldNames[p] = names
  BY <1>1 DEF Alone, ReadIsNow
<1>5. old \in Registrations
  BY LinesTyped DEF FilesTyped
<1>6. h0 \in Handles /\ u0 \in Users /\ (op[p] = "add" => h0 = p) /\ op[p] \in {"add", "remove"}
  BY <1>1 DEF Knows, Rewriting
<1>7. user[h0] = u0
  BY <1>1 DEF Alone, OwnKeys, Rewriting
<1>8. \A q \in Procs : pc'[q] \in Rewriting => pc[q] \in Rewriting
  BY <1>1, <1>2, <1>3 DEF Rewriting
<1>9. \A q \in Procs : pc'[q] = "find" => pc[q] = "find" /\ q # p
  BY <1>1, <1>2, <1>3
<1>10. OneAtATime' /\ ReadIsNow'
  BY <1>1, <1>2, <1>3, <1>4 DEF OneAtATime, ReadIsNow, Busy
<1>11. Unwritten' \subseteq Unwritten /\ p \notin Unwritten'
  BY <1>1, <1>2, <1>3 DEF Unwritten, Early
<1>. HIDE DEF old, h0, u0
<1>12. CASE op[p] = "add"
  <2>1. /\ keys' = Stored(old, u0, h0) /\ UNCHANGED <<reported, shifted>>
        /\ h0 = p /\ p \in Unwritten
    BY <1>1, <1>4, <1>6, <1>12 DEF WriteKeys, old, h0, u0, Unwritten, Early
  <2>. HIDE DEF TypeInv, CommandsTyped
  <2>2. keys' \in Registrations /\ Lines(keys') = keys'
    BY <1>5, <1>6, <2>1, RewrittenTyped, WrittenLines
  <2>3. \A v \in Users : \A g : On(Lines(keys')[v], g) <=> On(old[v], g) \/ (v = u0 /\ g = h0)
    <3>1. Lines(keys') = Stored(old, u0, h0)
      BY <2>1, <2>2
    <3>2. ASSUME NEW v \in Users
          PROVE  \A g : On(Stored(old, u0, h0)[v], g) <=> On(old[v], g) \/ (v = u0 /\ g = h0)
      BY <1>5, <1>6, StoredOn
    <3>. QED
      BY <3>1, <3>2
  <2>4. \A v \in Users : \A i \in 1 .. Len(old[v]) :
           i \in 1 .. Len(Lines(keys')[v]) /\ Lines(keys')[v][i] = old[v][i]
    BY <1>5, <1>6, <2>1, <2>2, StoredOn
  <2>5. OwnKeys'
    <3>1. \A v \in Users, g \in Handles : On(Lines(keys')[v], g) => user[g] = v
      BY <1>7, <2>3 DEF Alone, OwnKeys, old
    <3>2. \A q \in Procs : pc'[q] \in Rewriting => user[handle[q]] = user[q]
      BY <1>8 DEF Alone, OwnKeys
    <3>. QED
      BY <1>1, <3>1, <3>2 DEF Alone, OwnKeys
  <2>6. NotYetAnywhere'
    <3>1. ASSUME NEW h \in Unwritten', NEW v \in Users
          PROVE  ~On(Lines(keys')[v], h)
      BY <1>11, <2>1, <2>3 DEF Alone, NotYetAnywhere, old
    <3>. QED
      BY <1>1, <1>8, <1>11, <3>1 DEF Alone, NotYetAnywhere
  <2>7. Halfway'
    <3>1. On(Lines(keys')[user[p]], handle[p])
      BY <1>6, <2>3 DEF u0, h0
    <3>2. \A q \in Procs : pc'[q] = "writenames" => q = p
      BY <1>2 DEF Busy
    <3>. QED
      BY <1>1, <1>12, <3>1, <3>2 DEF Halfway
  <2>8. SeenStillThere'
    <3>1. ASSUME NEW q \in Procs, pc'[q] = "find", ~shifted[q], NEW i \in 1 .. Len(seen[q])
          PROVE  i \in 1 .. Len(Lines(keys')[user[q]]) /\ Lines(keys')[user[q]][i] = seen[q][i]
      <4>1. i \in 1 .. Len(old[user[q]]) /\ old[user[q]][i] = seen[q][i]
        BY <1>9, <3>1 DEF Alone, SeenStillThere, old
      <4>2. user[q] \in Users
        BY DEF TypeInv, CommandsTyped
      <4>. QED
        BY <2>4, <4>1, <4>2
    <3>. QED
      BY <1>1, <2>1, <3>1 DEF SeenStillThere
  <2>9. Meant'
    BY <1>1, <1>8, <2>1 DEF Alone, Meant
  <2>10. Registered'
    <3>1. \A t \in reported : t[1] \in Users
      BY DEF TypeInv, HistoryTyped, Sets
    <3>. QED
      BY <1>1, <2>1, <2>3, <3>1 DEF Alone, Registered, old
  <2>11. Removed'
    <3>1. \A r \in removed : r[1] \in Users /\ r[2] # p
      BY <2>1 DEF TypeInv, HistoryTyped, Alone, NotYetAnywhere
    <3>. QED
      BY <1>1, <2>1, <2>3, <3>1 DEF Alone, Removed, old
  <2>12. Named'
    <3>1. ASSUME NEW v \in Users, NEW g \in Handles, On(Lines(keys')[v], g)
          PROVE  \/ \E t \in names : t[1] = v /\ t[2] = g
                 \/ g \in nameless
                 \/ \E q \in Procs : pc'[q] = "wipekeys" \/ (pc'[q] = "writenames" /\ handle[q] = g)
      <4>1. CASE g = h0
        BY <1>3, <4>1 DEF h0
      <4>2. CASE g # h0
        <5>1. On(Lines(keys)[v], g)
          BY <2>3, <3>1, <4>2 DEF old
        <5>2. \A q \in Procs : pc[q] \notin {"wipekeys", "writenames"}
          BY <1>1, <1>2 DEF Busy
        <5>. QED
          BY <5>1, <5>2 DEF Alone, Named
      <4>. QED
        BY <4>1, <4>2
    <3>. QED
      BY <1>1, <3>1 DEF Named
  <2>. QED
    BY <1>10, <2>5, <2>6, <2>7, <2>8, <2>9, <2>10, <2>11, <2>12 DEF Alone
<1>13. CASE op[p] # "add"
  <2>1. /\ keys' = Without(old, u0, h0) /\ reported' = {t \in reported : t[2] # h0}
        /\ Shift(p, {u0})
    BY <1>4, <1>13 DEF WriteKeys, old, h0, u0
  <2>. HIDE DEF TypeInv, CommandsTyped
  <2>2. keys' \in Registrations /\ Lines(keys') = keys'
    BY <1>5, <1>6, <2>1, RewrittenTyped, WrittenLines
  <2>3. \A v \in Users : \A g : On(Lines(keys')[v], g) <=> On(old[v], g) /\ ~(v = u0 /\ g = h0)
    <3>1. Lines(keys') = Without(old, u0, h0)
      BY <2>1, <2>2
    <3>2. ASSUME NEW v \in Users
          PROVE  \A g : On(Without(old, u0, h0)[v], g) <=> On(old[v], g) /\ ~(v = u0 /\ g = h0)
      BY <1>5, <1>6, WithoutOn
    <3>. QED
      BY <3>1, <3>2
  <2>4. \A v \in Users : v # u0 => Lines(keys')[v] = old[v]
    <3>1. ASSUME NEW v \in Users, v # u0
          PROVE  Without(old, u0, h0)[v] = old[v]
      BY <1>5, <1>6, <3>1, WithoutOn
    <3>. QED
      BY <2>1, <2>2, <3>1
  <2>5. OwnKeys'
    <3>1. \A v \in Users, g \in Handles : On(Lines(keys')[v], g) => user[g] = v
      BY <2>3 DEF Alone, OwnKeys, old
    <3>2. \A q \in Procs : pc'[q] \in Rewriting => user[handle[q]] = user[q]
      BY <1>8 DEF Alone, OwnKeys
    <3>. QED
      BY <1>1, <3>1, <3>2 DEF Alone, OwnKeys
  <2>6. NotYetAnywhere'
    <3>1. ASSUME NEW h \in Unwritten', NEW v \in Users
          PROVE  ~On(Lines(keys')[v], h)
      BY <1>11, <2>3 DEF Alone, NotYetAnywhere, old
    <3>. QED
      BY <1>1, <1>8, <1>11, <3>1 DEF Alone, NotYetAnywhere
  <2>7. Halfway'
    <3>1. ~On(Lines(keys')[user[p]], handle[p])
      BY <1>6, <2>3 DEF u0, h0
    <3>2. \A q \in Procs : pc'[q] = "writenames" => q = p
      BY <1>2 DEF Busy
    <3>. QED
      BY <1>1, <1>13, <3>1, <3>2 DEF Halfway
  <2>8. SeenStillThere'
    <3>1. ASSUME NEW q \in Procs, pc'[q] = "find", ~shifted'[q], NEW i \in 1 .. Len(seen[q])
          PROVE  i \in 1 .. Len(Lines(keys')[user[q]]) /\ Lines(keys')[user[q]][i] = seen[q][i]
      <4>1. ~shifted[q] /\ user[q] # u0 /\ user[q] \in Users
        BY <1>9, <2>1, <3>1 DEF Shift, TypeInv, CommandsTyped
      <4>2. i \in 1 .. Len(old[user[q]]) /\ old[user[q]][i] = seen[q][i]
        BY <1>9, <3>1, <4>1 DEF Alone, SeenStillThere, old
      <4>. QED
        BY <2>4, <4>1, <4>2
    <3>. QED
      BY <1>1, <3>1 DEF SeenStillThere
  <2>9. Meant'
    <3>1. \A q \in Procs : shifted[q] => shifted'[q]
      BY <2>1 DEF Shift
    <3>. QED
      BY <1>1, <1>8, <3>1 DEF Alone, Meant
  <2>10. Registered'
    <3>1. \A t \in reported : t[1] \in Users
      BY DEF TypeInv, HistoryTyped, Sets
    <3>. QED
      BY <1>1, <2>1, <2>3, <3>1 DEF Alone, Registered, old
  <2>11. Removed'
    <3>1. \A r \in removed : r[1] \in Users
      BY DEF TypeInv, HistoryTyped
    <3>. QED
      BY <1>1, <2>3, <3>1 DEF Alone, Removed, old
  <2>12. Named'
    <3>1. ASSUME NEW v \in Users, NEW g \in Handles, On(Lines(keys')[v], g)
          PROVE  (\E t \in names : t[1] = v /\ t[2] = g) \/ g \in nameless
      <4>1. On(Lines(keys)[v], g)
        BY <2>3, <3>1 DEF old
      <4>2. \A q \in Procs : pc[q] \notin {"wipekeys", "writenames"}
        BY <1>1, <1>2 DEF Busy
      <4>. QED
        BY <4>1, <4>2 DEF Alone, Named
    <3>. QED
      BY <1>1, <3>1 DEF Named
  <2>. QED
    BY <1>10, <2>5, <2>6, <2>7, <2>8, <2>9, <2>10, <2>11, <2>12 DEF Alone
<1>. QED
  BY <1>12, <1>13

\* The second file: what the command says of its key is what the files hold.
LEMMA WriteNamesKeeps ==
    ASSUME TypeInv, Alone, NEW p \in Procs, WriteNames(p)
    PROVE  Alone'
<1>. USE DEF TypeInv, CommandsTyped
<1>. DEFINE entry == <<user[p], handle[p], name[p]>>
<1>1. /\ UNCHANGED <<keys, seen, handle, oldKeys, meant, shifted, nameless, op, user>>
      /\ pc[p] = "writenames" /\ oldNames' = [oldNames EXCEPT ![p] = {}]
  BY DEF WriteNames
<1>2. PICK s \in {"unpin", "done"} : Goto(p, s)
  BY DEF WriteNames, Over
<1>3. \A q \in Procs : q # p => pc'[q] = pc[q] /\ pc[q] \notin Busy
  BY <1>1, <1>2 DEF Goto, Alone, OneAtATime, Busy
<1>4. pc'[p] = s
  BY <1>2 DEF Goto
<1>5. oldNames[p] = names
  BY <1>1 DEF Alone, ReadIsNow
<1>6. handle[p] \in Handles /\ user[p] \in Users /\ op[p] \in {"add", "remove"}
  BY <1>1 DEF Knows, Rewriting
<1>7. user[handle[p]] = user[p]
  BY <1>1 DEF Alone, OwnKeys, Rewriting
<1>8. \A q \in Procs : pc'[q] \in Rewriting => pc[q] \in Rewriting
  BY <1>3, <1>4 DEF Rewriting
<1>9. \A q \in Procs : pc'[q] = "find" => pc[q] = "find"
  BY <1>3, <1>4
<1>10. OneAtATime' /\ ReadIsNow'
  BY <1>1, <1>3, <1>4 DEF OneAtATime, ReadIsNow, Busy
<1>11. Unwritten' \subseteq Unwritten
  BY <1>1, <1>3, <1>4 DEF Unwritten, Early
<1>12. op[p] = "add" <=> On(Lines(keys)[user[p]], handle[p])
  BY <1>1 DEF Alone, Halfway
<1>13. \A q \in Procs : pc'[q] # "writenames"
  BY <1>3, <1>4 DEF Busy
<1>14. \A q \in Procs : pc[q] # "wipekeys" /\ (pc[q] = "writenames" => q = p)
  BY <1>1, <1>3 DEF Busy
<1>. HIDE DEF TypeInv, CommandsTyped
<1>15. OwnKeys' /\ Halfway' /\ SeenStillThere' /\ Meant'
  <2>1. OwnKeys'
    BY <1>1, <1>8 DEF Alone, OwnKeys
  <2>2. Halfway'
    BY <1>13 DEF Halfway
  <2>3. SeenStillThere'
    BY <1>1, <1>9, Zenon DEF Alone, SeenStillThere
  <2>4. Meant'
    BY <1>1, <1>8 DEF Alone, Meant
  <2>. QED
    BY <2>1, <2>2, <2>3, <2>4
<1>16. CASE op[p] = "add"
  <2>1. names' = names \cup {entry} /\ reported' = reported \cup {entry} /\ removed' = removed
    BY <1>5, <1>16 DEF WriteNames
  <2>2. NotYetAnywhere'
    BY <1>1, <1>8, <1>11, <2>1 DEF Alone, NotYetAnywhere
  <2>3. Registered'
    <3>1. On(Lines(keys)[entry[1]], entry[2])
      BY <1>12, <1>16
    <3>. HIDE DEF entry
    <3>. QED
      BY <1>1, <2>1, <3>1 DEF Alone, Registered
  <2>4. Removed'
    BY <1>1, <2>1 DEF Alone, Removed
  <2>5. Named'
    <3>1. ASSUME NEW v \in Users, NEW g \in Handles, On(Lines(keys)[v], g)
          PROVE  (\E t \in names' : t[1] = v /\ t[2] = g) \/ g \in nameless
      <4>1. CASE g = handle[p]
        <5>1. v = user[p]
          BY <1>7, <3>1, <4>1 DEF Alone, OwnKeys
        <5>2. entry \in names' /\ entry[1] = v /\ entry[2] = g
          BY <2>1, <4>1, <5>1
        <5>. HIDE DEF entry
        <5>. QED
          BY <5>2
      <4>2. CASE g # handle[p]
        BY <1>14, <2>1, <3>1, <4>2 DEF Alone, Named
      <4>. QED
        BY <4>1, <4>2
    <3>. QED
      BY <1>1, <3>1 DEF Named
  <2>. QED
    BY <1>10, <1>15, <2>2, <2>3, <2>4, <2>5 DEF Alone
<1>17. CASE op[p] # "add"
  <2>1. /\ names' = {t \in names : t[1] # user[p] \/ t[2] # handle[p]}
        /\ removed' = removed \cup {<<user[p], handle[p]>>} /\ reported' = reported
    BY <1>5, <1>17 DEF WriteNames, Unnamed
  <2>2. ~On(Lines(keys)[user[p]], handle[p])
    BY <1>12, <1>17
  <2>3. NotYetAnywhere'
    <3>1. \A h \in Unwritten' : h # handle[p]
      <4>1. p \notin Unwritten
        BY <1>17 DEF Unwritten
      <4>. QED
        BY <1>1, <1>11, <4>1 DEF Alone, NotYetAnywhere, Rewriting
    <3>2. \A h \in Unwritten' : \A r \in removed' : r[2] # h
      BY <1>11, <2>1, <3>1 DEF Alone, NotYetAnywhere
    <3>. QED
      BY <1>1, <1>8, <1>11, <3>2 DEF Alone, NotYetAnywhere
  <2>4. Registered'
    <3>1. \A t \in reported : t \in names'
      BY <2>1, <2>2 DEF Alone, Registered
    <3>. QED
      BY <1>1, <2>1, <3>1 DEF Alone, Registered
  <2>5. Removed'
    <3>1. \A r \in removed' : ~On(Lines(keys)[r[1]], r[2])
      BY <2>1, <2>2 DEF Alone, Removed
    <3>. QED
      BY <1>1, <3>1 DEF Removed
  <2>6. Named'
    <3>1. ASSUME NEW v \in Users, NEW g \in Handles, On(Lines(keys)[v], g)
          PROVE  (\E t \in names' : t[1] = v /\ t[2] = g) \/ g \in nameless
      <4>1. g # handle[p]
        <5>. SUFFICES ASSUME g = handle[p]
                      PROVE  FALSE
          OBVIOUS
        <5>1. v = user[p]
          BY <1>7, <3>1 DEF Alone, OwnKeys
        <5>. QED
          BY <2>2, <3>1, <5>1
      <4>2. (\E t \in names : t[1] = v /\ t[2] = g) \/ g \in nameless
        BY <1>14, <3>1, <4>1 DEF Alone, Named
      <4>. QED
        BY <2>1, <4>1, <4>2
    <3>. QED
      BY <1>1, <3>1 DEF Named
  <2>. QED
    BY <1>10, <1>15, <2>3, <2>4, <2>5, <2>6 DEF Alone
<1>. QED
  BY <1>16, <1>17

\* An uninstall that races nobody.
LEMMA WipeKeeps ==
    ASSUME TypeInv, Alone, NEW p \in Procs, WipeKeys(p) \/ WipeNames(p), ~Overlap(p)
    PROVE  Alone'
<1>. USE DEF TypeInv, CommandsTyped
<1>1. /\ UNCHANGED <<handle, seen, oldKeys, oldNames, meant, removed, nameless, op, user>>
      /\ reported' = {}
  BY DEF WipeKeys, WipeNames, localVars
<1>2. PICK s \in {"wipekeys", "wipenames", "done"} : Goto(p, s)
  BY DEF WipeKeys, WipeNames
<1>3. \A q \in Procs : q # p => pc'[q] = pc[q] /\ pc[q] \notin Busy
  BY <1>2 DEF Goto, Overlap, Busy
<1>4. pc'[p] = s
  BY <1>2 DEF Goto
<1>5. \A q \in Procs : pc'[q] \in Rewriting => pc[q] \in Rewriting
  BY <1>3, <1>4 DEF Rewriting
<1>6. \A q \in Procs : pc'[q] = "find" => pc[q] = "find" /\ q # p
  BY <1>3, <1>4
<1>7. OneAtATime'
  BY <1>3 DEF OneAtATime
<1>8. Unwritten' \subseteq Unwritten
  BY <1>1, <1>3, <1>4 DEF Unwritten, Early
<1>9. \A q \in Procs : pc'[q] # "writenames"
  BY <1>3, <1>4 DEF Busy
<1>10. Halfway'
  BY <1>9 DEF Halfway
<1>11. Registered'
  BY <1>1 DEF Registered
<1>12. CASE WipeKeys(p)
  <2>1. /\ keys' = None /\ UNCHANGED names /\ Shift(p, Users) /\ pc'[p] \in {"wipenames", "done"}
    BY <1>2, <1>4, <1>12 DEF WipeKeys, Goto
  <2>2. \A v \in Users : \A g : ~On(Lines(keys')[v], g)
    BY <2>1, NothingOn
  <2>3. ReadIsNow'
    BY <1>3, <2>1 DEF ReadIsNow, Busy
  <2>4. SeenStillThere'
    <3>1. \A q \in Procs : pc'[q] = "find" => shifted'[q]
      BY <1>6, <2>1 DEF Shift
    <3>. QED
      BY <3>1 DEF SeenStillThere
  <2>5. \A q \in Procs : shifted[q] => shifted'[q]
    BY <2>1 DEF Shift
  <2>6. \A r \in removed : r[1] \in Users
    BY DEF HistoryTyped
  <2>. HIDE DEF TypeInv, CommandsTyped
  <2>7. OwnKeys'
    BY <1>1, <1>5, <2>2 DEF Alone, OwnKeys
  <2>8. NotYetAnywhere'
    BY <1>1, <1>5, <1>8, <2>2 DEF Alone, NotYetAnywhere
  <2>9. Meant'
    BY <1>1, <1>5, <2>5 DEF Alone, Meant
  <2>10. Removed' /\ Named'
    BY <1>1, <2>2, <2>6 DEF Removed, Named
  <2>. QED
    BY <1>7, <1>10, <1>11, <2>3, <2>4, <2>7, <2>8, <2>9, <2>10 DEF Alone
<1>13. CASE WipeNames(p)
  <2>1. /\ UNCHANGED <<keys, shifted>> /\ names' = {}
        /\ \/ pc[p] = "wipenames" /\ pc'[p] = "done"
           \/ pc'[p] = "wipekeys"
    BY <1>4, <1>13 DEF WipeNames, Goto
  <2>2. ReadIsNow'
    BY <1>3, <2>1 DEF ReadIsNow, Busy
  <2>. HIDE DEF TypeInv, CommandsTyped
  <2>3. OwnKeys'
    BY <1>1, <1>5, <2>1 DEF Alone, OwnKeys
  <2>4. NotYetAnywhere'
    BY <1>1, <1>5, <1>8, <2>1 DEF Alone, NotYetAnywhere
  <2>5. SeenStillThere'
    BY <1>1, <1>6, <2>1, Zenon DEF Alone, SeenStillThere
  <2>6. Meant' /\ Removed'
    BY <1>1, <1>5, <2>1 DEF Alone, Meant, Removed
  <2>7. Named'
    <3>1. CASE pc'[p] = "wipekeys"
      BY <3>1 DEF Named
    <3>2. CASE pc[p] = "wipenames"
      <4>1. keys = None
        BY <3>2 DEF Alone, ReadIsNow
      <4>. QED
        BY <2>1, <4>1, NothingOn DEF Named
    <3>. QED
      BY <2>1, <3>1, <3>2
  <2>. QED
    BY <1>7, <1>10, <1>11, <2>2, <2>3, <2>4, <2>5, <2>6, <2>7 DEF Alone
<1>. QED
  BY <1>12, <1>13

\* However many commands there are: as long as no two rewrite the files at once,
\* each finds what it read.
LEMMA OrderKept ==
    ASSUME IndInv, TypeInv, OrderInv, NEW p \in Procs, Command(p)
    PROVE  OrderInv'
<1>1. CASE raced
  <2>1. raced'
    BY <1>1 DEF Command, Start, Pin, NoPin, Name, Make, Refused, Unpin, ReadHandles, Find,
                ReadKeys, ReadNames, WriteKeys, WriteNames, WipeKeys, WipeNames, Fail, Kill, history
  <2>. QED
    BY <2>1 DEF OrderInv
<1>2. CASE ~raced
  <2>1. Alone
    BY <1>2 DEF OrderInv
  <2>2. CASE \/ Start(p) \/ Pin(p) \/ NoPin(p) \/ (\E n \in Labels : Name(p, n))
             \/ Refused(p) \/ Unpin(p)
    BY <2>1, <2>2, AwayKeeps DEF OrderInv
  <2>3. CASE Fail(p) \/ Kill(p)
    BY <2>1, <2>3, FailKeeps DEF OrderInv
  <2>4. CASE Make(p)
    BY <2>1, <2>4, MakeKeeps DEF OrderInv
  <2>5. CASE ReadHandles(p)
    BY <2>1, <2>5, ReadHandlesKeeps DEF OrderInv
  <2>6. ASSUME NEW w, Find(p, w)
        PROVE  OrderInv'
    BY <2>1, <2>6, FindKeeps DEF OrderInv
  <2>7. CASE ReadKeys(p)
    <3>1. CASE Overlap(p)
      BY <2>7, <3>1 DEF OrderInv, ReadKeys
    <3>. QED
      BY <2>1, <2>7, <3>1, ReadKeysKeeps DEF OrderInv
  <2>8. CASE ReadNames(p)
    BY <2>1, <2>8, ReadNamesKeeps DEF OrderInv
  <2>9. CASE WriteKeys(p)
    BY <2>1, <2>9, WriteKeysKeeps DEF OrderInv
  <2>10. CASE WriteNames(p)
    BY <2>1, <2>10, WriteNamesKeeps DEF OrderInv
  <2>11. CASE WipeKeys(p) \/ WipeNames(p)
    <3>1. CASE Overlap(p)
      BY <2>11, <3>1 DEF OrderInv, WipeKeys, WipeNames
    <3>. QED
      BY <2>1, <2>11, <3>1, WipeKeeps DEF OrderInv
  <2>. QED
    BY <2>2, <2>3, <2>4, <2>5, <2>6, <2>7, <2>8, <2>9, <2>10, <2>11 DEF Command
<1>. QED
  BY <1>1, <1>2

-----------------------------------------------------------------------------

LEMMA AllInductive == Spec => [](TypeInv /\ OrderInv)
<1>1. Init => TypeInv
  <2>. SUFFICES ASSUME Init
                PROVE  TypeInv
    OBVIOUS
  <2>1. FilesTyped /\ PinTyped
    BY DEF Init, FilesTyped, PinTyped
  <2>2. CommandsTyped
    <3>1. <<>> \in Seq(Handles)
      OBVIOUS
    <3>. QED
      BY <3>1, RegistryAssumption DEF Init, CommandsTyped, PcStates
  <2>3. HistoryTyped /\ Knows
    BY DEF Init, HistoryTyped, Knows, Rewriting
  <2>. QED
    BY <2>1, <2>2, <2>3 DEF TypeInv
<1>2. Init => OrderInv
  <2>. SUFFICES ASSUME Init
                PROVE  Alone
    BY DEF OrderInv
  <2>1. \A u \in Users : \A g : ~On(Lines(keys)[u], g)
    BY NothingOn DEF Init
  <2>2. \A p \in Procs : \A g : ~On(seen[p], g)
    BY DEF Init, On
  <2>3. \A p \in Procs : pc[p] = "new"
    BY DEF Init
  <2>4. OneAtATime /\ ReadIsNow /\ Halfway /\ SeenStillThere /\ Meant
    BY <2>3 DEF OneAtATime, ReadIsNow, Halfway, SeenStillThere, Meant, Busy, Rewriting
  <2>5. OwnKeys
    BY <2>1, <2>2, <2>3 DEF OwnKeys, Rewriting
  <2>6. NotYetAnywhere
    <3>1. removed = {} /\ Unwritten \subseteq Procs
      BY DEF Init, Unwritten
    <3>. QED
      BY <2>1, <2>2, <2>3, <3>1 DEF NotYetAnywhere, Rewriting
  <2>7. Registered /\ Removed /\ Named
    BY <2>1 DEF Init, Registered, Removed, Named
  <2>. QED
    BY <2>4, <2>5, <2>6, <2>7 DEF Alone
<1>3. IndInv /\ TypeInv /\ OrderInv /\ [Next]_vars => TypeInv' /\ OrderInv'
  <2>1. ASSUME IndInv, TypeInv, OrderInv, NEW p \in Procs, Command(p)
        PROVE  TypeInv' /\ OrderInv'
    BY <2>1, CommandTyped, OrderKept
  <2>2. ASSUME TypeInv, OrderInv, UNCHANGED vars
        PROVE  TypeInv' /\ OrderInv'
    <3>1. UNCHANGED <<keys, names, oldKeys, oldNames, use, pinned, rivals, op, user, pc, faults,
                      name, seen, handle, reported, removed, meant, shifted, raced, nameless>>
      BY <2>2 DEF vars, fileVars, localVars, pinVars, history
    <3>2. TypeInv'
      BY <2>2, <3>1 DEF TypeInv, FilesTyped, PinTyped, CommandsTyped, HistoryTyped, Knows
    <3>3. Alone => Alone'
      <4>1. Alone => OneAtATime' /\ ReadIsNow' /\ OwnKeys' /\ Halfway' /\ SeenStillThere' /\ Meant'
        BY <3>1 DEF Alone, OneAtATime, ReadIsNow, OwnKeys, Halfway, SeenStillThere, Meant
      <4>2. Alone => NotYetAnywhere' /\ Registered' /\ Removed' /\ Named'
        BY <3>1 DEF Alone, NotYetAnywhere, Unwritten, Registered, Removed, Named
      <4>. QED
        BY <4>1, <4>2 DEF Alone
    <3>. QED
      BY <2>2, <3>1, <3>2, <3>3 DEF OrderInv
  <2>. QED
    BY <2>1, <2>2 DEF Next
<1>. QED
  BY <1>1, <1>2, <1>3, Inductive, PTL DEF Spec

\* Every variable of the commands and both files keep their types: whatever a command
\* read before, what it writes is a key file again, with lines of keys for each user
\* (root_store, root_remove).
THEOREM TypeCorrect == Spec => []TypeOK
<1>1. TypeInv => TypeOK
  BY DEF TypeInv, FilesTyped, PinTyped, CommandsTyped, HistoryTyped, Registrations, Sets, TypeOK
<1>. QED
  BY <1>1, AllInductive, PTL

\* However many commands register and remove keys, fail between two files or are
\* killed: what they said stays true and every key has its name, unless two of them
\* rewrote the files at once (root_store, root_remove).
THEOREM ReportsKept == Spec => []ReportsHold
<1>1. TypeInv /\ OrderInv => ReportsHold
  <2>. SUFFICES ASSUME TypeInv, Alone
                PROVE  ReportsHold
    BY DEF OrderInv, ReportsHold
  <2>1. \A u, h : InLine(u, h) <=> On(Lines(keys)[u], h)
    BY DEF InLine, On
  <2>2. KeysHaveNames
    BY <2>1 DEF Alone, Named, KeysHaveNames
  <2>. QED
    BY <2>1, <2>2 DEF Alone, Registered, Removed, ReportsHold
<1>. QED
  BY <1>1, AllInductive, PTL

\* The key that `remove` removes is the one listed under the name or number, although
\* the file is read twice, unless a removal in between has shifted the positions or
\* two commands rewrote the files at once (handles_for, names_for).
THEOREM RemovesTheMeant == Spec => []RemovedIsMeant
<1>1. OrderInv => RemovedIsMeant
  BY DEF OrderInv, Alone, Meant, RemovedIsMeant
<1>. QED
  BY <1>1, AllInductive, PTL
=============================================================================
