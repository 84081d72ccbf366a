------------------------------ MODULE Registry ------------------------------
(***************************************************************************)
(* What `passkey add`, `passkey remove` and `passkey uninstall`            *)
(* (src/src/cli.rs) do to the registrations: the key file, the name file,  *)
(* and the pin /run/passkey/use that makes the daemon ask one phone only   *)
(* while a key is made.  Every command is a process of its own; a step is  *)
(* one access to a file.  No lock protects the files: commands overlap,    *)
(* fail and are killed between any two accesses.                           *)
(*                                                                         *)
(* Abstracted: argument parsing, the checks of the environment and of      *)
(* pamu2fcfg's output, the PAM files (module PamStack), the temporary name  *)
(* of a file (write_file renames it: a file changes in one step).  The two  *)
(* reads of names_for are one step.  A privileged child dies with the      *)
(* command that waits for it.                                              *)
(***************************************************************************)
EXTENDS Naturals, Sequences, FiniteSets

CONSTANTS
    Procs,      \* the commands: process ids, each used once
    Users,
    Labels,     \* names that users give their devices; a name may be a numeral
    MaxFaults,  \* bound: failed file operations, killed commands
    None        \* no file, no process, no name

\* A number as the user types it.
Numeral(i) == <<i>>

\* A command makes at most one key; its handle goes by the command's name.
Handles == Procs

\* What names_for calls the i-th key of a user when it has no name.
Placeholder(i) == <<"Android device", i>>

Numerals == {Numeral(i) : i \in 1 .. Cardinality(Procs)}
Names == Labels \cup {Placeholder(i) : i \in 1 .. Cardinality(Procs)}

ASSUME RegistryAssumption ==
    /\ IsFiniteSet(Procs) /\ MaxFaults \in Nat
    /\ None \notin Procs \cup Names \cup [Users -> Seq(Handles)]

VARIABLES
    keys,      \* /etc/passkey/u2f_keys: the handles of each user, in order; or None
    names,     \* /etc/passkey/names: set of <<user, handle, name>>
    use,       \* /run/passkey/use: the process that pinned a phone, or None
    op,        \* "add", "remove", "uninstall"
    user,      \* for whom
    pc,        \* where the command stands
    pinned,    \* ClearUse: the command has a pin to clear when it ends
    name,      \* the name it gives, or the one it found
    seen,      \* remove: the handles it read first
    handle,    \* the key it stores or removes
    oldKeys,   \* what root_store or root_remove read
    oldNames,
    faults,
    reported,  \* history: <<u, h, n>>, `add` said that n is registered
    removed,   \* history: <<u, h>>, `remove` said that it removed h
    meant,     \* history: the key that had the name when remove found it
    shifted,   \* history: a key of the user went since remove read `seen`
    raced,     \* history: two commands rewrote the files at once
    nameless,  \* history: keys of commands that ended between the two files
    rivals     \* history: commands that wrote or cleared the pin since p pinned

fileVars   == <<keys, names>>
localVars  == <<name, seen, handle, oldKeys, oldNames>>
pinVars    == <<use, pinned, rivals>>
history    == <<reported, removed, meant, shifted, raced, nameless>>
vars == <<fileVars, localVars, pinVars, history, op, user, pc, faults>>

Rewriting == {"readkeys", "readnames", "writekeys", "writenames"}
PcStates  == Rewriting \cup {"new", "pin", "names", "make", "seen", "find", "unpin",
                             "wipe", "wipekeys", "wipenames", "done"}

NoKeys == [u \in Users |-> <<>>]
Lines(k) == IF k = None THEN NoKeys ELSE k         \* read_optional

Init ==
    /\ keys = None /\ names = {} /\ use = None
    /\ op \in [Procs -> {"add", "remove", "uninstall"}]
    /\ user \in [Procs -> Users]
    /\ pc = [p \in Procs |-> "new"]
    /\ pinned = [p \in Procs |-> FALSE]
    /\ name = [p \in Procs |-> None]
    /\ seen = [p \in Procs |-> <<>>]
    /\ handle = [p \in Procs |-> None]
    /\ oldKeys = [p \in Procs |-> None] /\ oldNames = [p \in Procs |-> {}]
    /\ faults = 0
    /\ reported = {} /\ removed = {}
    /\ meant = [p \in Procs |-> None] /\ shifted = [p \in Procs |-> FALSE]
    /\ raced = FALSE /\ nameless = {}
    /\ rivals = [p \in Procs |-> {}]

Goto(p, s) == pc' = [pc EXCEPT ![p] = s]

\* Where a command ends up: ClearUse runs when add returns, whatever the result.
Over(p) == IF pinned[p] THEN "unpin" ELSE "done"

-----------------------------------------------------------------------------
(* The contents of the files.                                              *)

\* A plausible bug: the two arguments are confused.
StoredUser(k, u, h) == [k EXCEPT ![u] = Append(@, u)]

\* A plausible bug: the new key goes to the front of its user's line.
Prepended(k, u, h) == [k EXCEPT ![u] = <<h>> \o @]

\* root_store appends to the user's line.
Stored(k, u, h) == [k EXCEPT ![u] = Append(@, h)]

\* A line without the key: what SelectSeq gives, as a function that goes through
\* the line.
Dropped(line, h) ==
    LET upto[i \in 0 .. Len(line)] ==
            IF i = 0 THEN <<>>
            ELSE IF line[i] = h THEN upto[i - 1] ELSE Append(upto[i - 1], line[i])
    IN  upto[Len(line)]

\* A plausible bug: the lines of other users are not copied.
OwnLineOnly(k, u, h) == [v \in Users |-> IF v = u THEN Dropped(k[v], h) ELSE <<>>]

\* root_remove drops the key from its user's line and copies the other lines.
Without(k, u, h) == [k EXCEPT ![u] = Dropped(@, h)]

\* And its name.
Unnamed(n, u, h) == {t \in n : t[1] # u \/ t[2] # h}

\* names_for: what the name file says of each key of the user.
NamesFor(u) ==
    LET line == Lines(keys)[u]
        Given(i) == {t \in names : t[1] = u /\ t[2] = line[i]}
    IN  [i \in 1 .. Len(line) |->
           IF Given(i) = {} THEN Placeholder(i) ELSE (CHOOSE t \in Given(i) : TRUE)[3]]

\* `passkey remove`: the first key with this number or this name, 0 for none.
Position(which, list) ==
    LET hits == {i \in 1 .. Len(list) : which \in {Numeral(i), list[i]}}
    IN  IF hits = {} THEN 0 ELSE CHOOSE i \in hits : \A j \in hits : i <= j

-----------------------------------------------------------------------------
(* passkey add.                                                            *)

Start(p) ==
    /\ pc[p] = "new"
    /\ Goto(p, CASE op[p] = "add" -> "pin" [] op[p] = "remove" -> "seen" [] OTHER -> "wipe")
    /\ UNCHANGED <<fileVars, localVars, pinVars, history, op, user, faults>>

\* root-use, when a phone is connected that can be chosen.
Pin(p) ==
    /\ pc[p] = "pin"
    /\ use' = p
    /\ pinned' = [pinned EXCEPT ![p] = TRUE]
    /\ rivals' = [q \in Procs |-> IF pinned[q] THEN rivals[q] \cup {p} ELSE rivals[q]]
    /\ Goto(p, "names")
    /\ UNCHANGED <<fileVars, localVars, history, op, user, faults>>

\* The devices file names no phone; or no FIDO device appeared, or none was chosen.
NoPin(p) ==
    /\ pc[p] = "pin"
    /\ Goto(p, "names") \/ Goto(p, "done")
    /\ UNCHANGED <<fileVars, localVars, pinVars, history, op, user, faults>>

\* The user names the device; a name already in use is an error.
Name(p, n) ==
    /\ pc[p] = "names"
    /\ IF \E i \in 1 .. Len(NamesFor(user[p])) : NamesFor(user[p])[i] = n
         THEN Goto(p, Over(p)) /\ UNCHANGED name
         ELSE Goto(p, "make") /\ name' = [name EXCEPT ![p] = n]
    /\ UNCHANGED <<fileVars, seen, handle, oldKeys, oldNames, pinVars, history, op, user,
                   faults>>

\* pamu2fcfg returns the handle of a new key, or the phone's user refuses.
Make(p) ==
    /\ pc[p] = "make"
    /\ handle' = [handle EXCEPT ![p] = p]
    /\ Goto(p, "readkeys")
    /\ UNCHANGED <<fileVars, name, seen, oldKeys, oldNames, pinVars, history, op, user,
                   faults>>

Refused(p) ==
    /\ pc[p] = "make"
    /\ Goto(p, Over(p))
    /\ UNCHANGED <<fileVars, localVars, pinVars, history, op, user, faults>>

\* ClearUse: root-use without a phone removes the file, whoever wrote it.
Unpin(p) ==
    /\ pc[p] = "unpin"
    /\ use' = None
    /\ pinned' = [pinned EXCEPT ![p] = FALSE]
    /\ rivals' = [q \in Procs |-> IF pinned[q] /\ q # p THEN rivals[q] \cup {p}
                                                       ELSE rivals[q]]
    /\ Goto(p, "done")
    /\ UNCHANGED <<fileVars, localVars, history, op, user, faults>>

-----------------------------------------------------------------------------
(* passkey remove.                                                         *)

\* handles_for
ReadHandles(p) ==
    /\ pc[p] = "seen"
    /\ seen' = [seen EXCEPT ![p] = Lines(keys)[user[p]]]
    /\ Goto(p, "find")
    /\ UNCHANGED <<fileVars, name, handle, oldKeys, oldNames, pinVars, history, op, user,
                   faults>>

\* names_for reads the key file again; the position in its list is used in the
\* handles read before, where it may be out of bounds: then the command panics.
Find(p, which) ==
    LET i == Position(which, NamesFor(user[p])) IN
    /\ pc[p] = "find"
    /\ IF i \in 1 .. Len(seen[p])
         THEN /\ handle' = [handle EXCEPT ![p] = seen[p][i]]
              /\ meant' = [meant EXCEPT ![p] = Lines(keys)[user[p]][i]]
              /\ Goto(p, "readkeys")
         ELSE Goto(p, "done") /\ UNCHANGED <<handle, meant>>
    /\ UNCHANGED <<fileVars, name, seen, oldKeys, oldNames, pinVars, reported, removed,
                   shifted, raced, nameless, op, user, faults>>

-----------------------------------------------------------------------------
(* root_store and root_remove: both files are read, then both are written. *)

\* Another command is between its first access to the two files and its last.
Overlap(p) == \E q \in Procs \ {p} :
                 pc[q] \in {"readnames", "writekeys", "writenames", "wipekeys", "wipenames"}

\* root_remove wants a key file, root_store does not.
ReadKeys(p) ==
    /\ pc[p] = "readkeys"
    /\ oldKeys' = [oldKeys EXCEPT ![p] = keys]
    /\ raced' = (raced \/ Overlap(p))
    /\ Goto(p, IF op[p] = "remove" /\ keys = None THEN "done" ELSE "readnames")
    /\ UNCHANGED <<fileVars, name, seen, handle, oldNames, pinVars, reported, removed, meant,
                   shifted, nameless, op, user, faults>>

ReadNames(p) ==
    /\ pc[p] = "readnames"
    /\ oldNames' = [oldNames EXCEPT ![p] = names]
    /\ Goto(p, "writekeys")
    /\ UNCHANGED <<fileVars, name, seen, handle, oldKeys, pinVars, history, op, user, faults>>

\* Who has read the handles of user u and not the names.
Shift(p, U) ==
    shifted' = [q \in Procs |-> shifted[q] \/ (q # p /\ pc[q] = "find" /\ user[q] \in U)]

WriteKeys(p) ==
    /\ pc[p] = "writekeys"
    /\ IF op[p] = "add"
         THEN /\ keys' = Stored(Lines(oldKeys[p]), user[p], handle[p])
              /\ UNCHANGED <<reported, shifted>>
         ELSE /\ keys' = Without(Lines(oldKeys[p]), user[p], handle[p])
              /\ reported' = {t \in reported : t[2] # handle[p]}
              /\ Shift(p, {user[p]})
    /\ Goto(p, "writenames")
    /\ oldKeys' = [oldKeys EXCEPT ![p] = None]
    /\ UNCHANGED <<names, name, seen, handle, oldNames, pinVars, removed, meant, raced,
                   nameless, op, user, faults>>

\* "Done: ... is registered", "Removed ..."
WriteNames(p) ==
    LET entry == <<user[p], handle[p], name[p]>> IN
    /\ pc[p] = "writenames"
    /\ IF op[p] = "add"
         THEN /\ names' = oldNames[p] \cup {entry}
              /\ reported' = reported \cup {entry}
              /\ UNCHANGED removed
         ELSE /\ names' = Unnamed(oldNames[p], user[p], handle[p])
              /\ removed' = removed \cup {<<user[p], handle[p]>>}
              /\ UNCHANGED reported
    /\ Goto(p, Over(p))
    /\ oldNames' = [oldNames EXCEPT ![p] = {}]
    /\ UNCHANGED <<keys, name, seen, handle, oldKeys, pinVars, meant, shifted, raced,
                   nameless, op, user, faults>>

-----------------------------------------------------------------------------
(* passkey uninstall: remove_dir_all("/etc/passkey"), in directory order.  *)

WipeKeys(p) ==
    /\ pc[p] \in {"wipe", "wipekeys"}
    /\ keys' = None
    /\ reported' = {}
    /\ raced' = (raced \/ Overlap(p))
    /\ Shift(p, Users)
    /\ Goto(p, IF pc[p] = "wipe" THEN "wipenames" ELSE "done")
    /\ UNCHANGED <<names, localVars, pinVars, removed, meant, nameless, op, user, faults>>

WipeNames(p) ==
    /\ pc[p] \in {"wipe", "wipenames"}
    /\ names' = {}
    /\ reported' = {}
    /\ raced' = (raced \/ Overlap(p))
    /\ Goto(p, IF pc[p] = "wipe" THEN "wipekeys" ELSE "done")
    /\ UNCHANGED <<keys, localVars, pinVars, removed, meant, shifted, nameless, op, user,
                   faults>>

-----------------------------------------------------------------------------
(* Failures.                                                               *)

\* Keys that have no name because their command ended here.
LeftNameless(p) ==
    CASE pc[p] = "writenames" /\ op[p] = "add" -> {handle[p]}
      [] pc[p] = "wipekeys" -> Handles
      [] OTHER -> {}

\* A file operation fails; ClearUse still runs.
Fail(p) ==
    /\ pc[p] \notin {"new", "unpin", "done"} /\ faults < MaxFaults
    /\ faults' = faults + 1
    /\ nameless' = nameless \cup LeftNameless(p)
    /\ Goto(p, Over(p))
    /\ UNCHANGED <<fileVars, localVars, pinVars, reported, removed, meant, shifted, raced,
                   op, user>>

\* The command is killed: nothing else runs.
Kill(p) ==
    /\ pc[p] \notin {"new", "done"} /\ faults < MaxFaults
    /\ faults' = faults + 1
    /\ nameless' = nameless \cup LeftNameless(p)
    /\ Goto(p, "done")
    /\ UNCHANGED <<fileVars, localVars, pinVars, reported, removed, meant, shifted, raced,
                   op, user>>

Command(p) ==
    \/ Start(p) \/ Pin(p) \/ NoPin(p) \/ (\E n \in Labels : Name(p, n))
    \/ Make(p) \/ Refused(p) \/ Unpin(p)
    \/ ReadHandles(p) \/ (\E w \in Labels \cup Numerals : Find(p, w))
    \/ ReadKeys(p) \/ ReadNames(p) \/ WriteKeys(p) \/ WriteNames(p)
    \/ WipeKeys(p) \/ WipeNames(p) \/ Fail(p) \/ Kill(p)

Next == \E p \in Procs : Command(p)

Spec == Init /\ [][Next]_vars

\* A plausible bug: the daemon does not ask whether the command still runs.
Written == use

\* chosen_device (daemon.rs): the pin counts while /proc has the process.
Chosen == IF use # None /\ pc[use] # "done" THEN use ELSE None

-----------------------------------------------------------------------------
(* Properties.                                                             *)

TypeOK ==
    /\ keys \in [Users -> Seq(Handles)] \cup {None}
    /\ names \subseteq Users \X Handles \X Names
    /\ use \in Procs \cup {None}
    /\ op \in [Procs -> {"add", "remove", "uninstall"}]
    /\ user \in [Procs -> Users]
    /\ pc \in [Procs -> PcStates]
    /\ pinned \in [Procs -> BOOLEAN]
    /\ name \in [Procs -> Names \cup {None}]
    /\ seen \in [Procs -> Seq(Handles)]
    /\ handle \in [Procs -> Handles \cup {None}]
    /\ oldKeys \in [Procs -> [Users -> Seq(Handles)] \cup {None}]
    /\ \A p \in Procs : oldNames[p] \subseteq Users \X Handles \X Names
    /\ faults \in 0 .. MaxFaults
    /\ reported \subseteq Users \X Handles \X Names /\ removed \subseteq Users \X Handles
    /\ meant \in [Procs -> Handles \cup {None}]
    /\ shifted \in [Procs -> BOOLEAN]
    /\ raced \in BOOLEAN /\ nameless \subseteq Handles
    /\ rivals \in [Procs -> SUBSET Procs]

InLine(u, h) == \E i \in 1 .. Len(Lines(keys)[u]) : Lines(keys)[u][i] = h

\* A key has a name once its command is through (the order of the two writes),
\* unless the command ended between them.
KeysHaveNames ==
    \A u \in Users, h \in Handles : InLine(u, h) =>
        \/ \E t \in names : t[1] = u /\ t[2] = h
        \/ h \in nameless
        \/ \E p \in Procs : pc[p] = "wipekeys" \/ (pc[p] = "writenames" /\ handle[p] = h)

\* What the commands said stays true: a key that is "registered" is in the key file
\* and has its name until somebody removes it, and a key that was "removed" is not
\* (root_store, root_remove), whoever else is registered in between; and no key
\* loses its name.  Only two commands at once can break it: each writes what it read
\* before the other wrote.
ReportsHold ==
    \/ raced
    \/ /\ \A t \in reported : InLine(t[1], t[2]) /\ t \in names
       /\ \A r \in removed : ~InLine(r[1], r[2])
       /\ KeysHaveNames

\* The key that `passkey remove` removes is the one that was listed under the name
\* or number, although it reads the key file twice (handles_for, names_for): a
\* registration in between does no harm, only a removal shifts the positions (or a
\* key that two commands at once have lost).
RemovedIsMeant ==
    \A p \in Procs : op[p] = "remove" /\ pc[p] \in Rewriting =>
        handle[p] = meant[p] \/ shifted[p] \/ raced

\* The daemon asks one phone only for as long as the `add` runs that chose it,
\* even if that was killed (ClearUse, chosen_device); and it does so all the time
\* the key is made, unless another `add` wrote or cleared the one pin there is.
PinFollowsAdd ==
    /\ Chosen # None =>
         op[Chosen] = "add" /\ pc[Chosen] \in Rewriting \cup {"names", "make", "unpin"}
    /\ \A p \in Procs : pc[p] = "make" /\ pinned[p] /\ rivals[p] = {} => Chosen = p
    /\ use # None /\ faults = 0 => pc[use] # "done"
=============================================================================
