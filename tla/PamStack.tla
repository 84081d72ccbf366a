------------------------------ MODULE PamStack ------------------------------
(***************************************************************************)
(* How passkey gets into the PAM service files and out again               *)
(* (src/src/cli.rs): configure (`passkey add`) inserts its line in every   *)
(* service, after copying the vendor's file to /etc where the              *)
(* administrator has none, and uninstall takes it out and deletes the      *)
(* copies.  Commands may overlap, fail and be killed; a package may replace *)
(* the vendor's file, the administrator may edit his own.                  *)
(*                                                                         *)
(* The state, the edits and the properties are in PamFiles.  Abstracted:   *)
(* systemd, symbolic links in /etc/pam.d (canonicalize), and the temporary *)
(* name of a file: write_file renames it, so a file changes in one step.   *)
(***************************************************************************)
EXTENDS PamFiles

fileVars == <<etc, vendor, copied>>
procVars == <<op, place, at, text, copying>>
history  == <<own, replaced, raced, cut>>
vars == <<fileVars, procVars, faults, edits, history>>

Init ==
    /\ \E s \in [Numbers -> Stacks] :
         /\ etc = [i \in Numbers |-> s[i].etc]
         /\ vendor = [i \in Numbers |-> s[i].vendor]
         /\ own = [i \in Numbers |->
                     IF s[i].etc = None THEN None ELSE Restored(s[i].etc)]
    /\ copied = {}
    /\ op \in [Procs -> {"add", "uninstall"}]
    /\ place = [p \in Procs |-> "new"]
    /\ at = [p \in Procs |-> 1]
    /\ text = [p \in Procs |-> None]
    /\ copying = [p \in Procs |-> FALSE]
    /\ faults = 0 /\ edits = 0
    /\ replaced = {} /\ raced = {} /\ cut = {}

Running(p) == place[p] \notin {"new", "done"}

\* A plausible bug: one service too many.
MoreAndOne(p) == at[p] <= Services

More(p) == at[p] < Services

\* Where a command goes when it is through with a service: to the next one, and
\* uninstall from the last one on to /etc/passkey.
AfterService(p) ==
    IF More(p)
      THEN /\ place' = [place EXCEPT ![p] = "look"]
           /\ at' = [at EXCEPT ![p] = @ + 1]
      ELSE /\ place' = [place EXCEPT ![p] = IF op[p] = "add" THEN "done" ELSE "wipe"]
           /\ UNCHANGED at

\* Two commands between their look at a service and the last write to it.
Overlap(p) ==
    raced' = raced \cup {at[p] : q \in {q \in Procs \ {p} :
                                    place[q] \in {"write", "mark", "unmark"} /\ at[q] = at[p]}}

Start(p) ==
    /\ place[p] = "new"
    /\ place' = [place EXCEPT ![p] = "look"]
    /\ UNCHANGED <<fileVars, op, at, text, copying, faults, edits, history>>

\* pam_add: nothing to do without a file, with the wanted line in it, or
\* without an auth line; else the text to write.
Wanted(t) == t # None /\ ~Has(t, {"ours"}) /\ Has(t, Anchors)

AddLook(p) ==
    LET source == IF etc[at[p]] # None THEN etc[at[p]] ELSE vendor[at[p]] IN
    /\ op[p] = "add" /\ place[p] = "look"
    /\ IF Wanted(source)
         THEN /\ text' = [text EXCEPT ![p] = Inserted(source)]
              /\ copying' = [copying EXCEPT ![p] = etc[at[p]] = None]
              /\ place' = [place EXCEPT ![p] = "write"]
              /\ Overlap(p)
              /\ UNCHANGED at
         ELSE AfterService(p) /\ UNCHANGED <<text, copying, raced>>
    /\ UNCHANGED <<fileVars, op, faults, edits, own, replaced, cut>>

\* write_file; a file that is no copy must still be there (canonicalize).
AddWrite(p) ==
    /\ op[p] = "add" /\ place[p] = "write"
    /\ IF copying[p] \/ etc[at[p]] # None
         THEN /\ etc' = [etc EXCEPT ![at[p]] = text[p]]
              /\ IF copying[p] THEN place' = [place EXCEPT ![p] = "mark"] /\ UNCHANGED at
                               ELSE AfterService(p)
         ELSE place' = [place EXCEPT ![p] = "done"] /\ UNCHANGED <<etc, at>>
    /\ UNCHANGED <<vendor, copied, op, text, copying, faults, edits, history>>

\* /etc/passkey/copied/<service>
AddMark(p) ==
    /\ place[p] = "mark"
    /\ copied' = copied \cup {at[p]}
    /\ AfterService(p)
    /\ UNCHANGED <<etc, vendor, op, text, copying, faults, edits, history>>

\* A plausible bug: an unchanged copy is written back instead of deleted.
WriteBack(i, restored) == restored

\* What pam_remove leaves of the file: nothing of a copy that nobody changed.
Leftover(i, restored) ==
    IF i \in copied /\ vendor[i] = restored THEN None ELSE restored

\* pam_remove reads the file, and the marker and the vendor's file with it.
UninstallLook(p) ==
    /\ op[p] = "uninstall" /\ place[p] = "look"
    /\ IF etc[at[p]] # None /\ HasOurs(etc[at[p]])
         THEN /\ text' = [text EXCEPT ![p] = Leftover(at[p], Restored(etc[at[p]]))]
              /\ place' = [place EXCEPT ![p] = "write"]
              /\ Overlap(p)
              /\ UNCHANGED at
         ELSE AfterService(p) /\ UNCHANGED <<text, raced>>
    /\ UNCHANGED <<fileVars, op, copying, faults, edits, own, replaced, cut>>

\* remove_file or write_file: both fail when the file is gone.
UninstallWrite(p) ==
    /\ op[p] = "uninstall" /\ place[p] = "write"
    /\ IF etc[at[p]] # None
         THEN /\ etc' = [etc EXCEPT ![at[p]] = text[p]]
              /\ place' = [place EXCEPT ![p] = "unmark"]
         ELSE place' = [place EXCEPT ![p] = "done"] /\ UNCHANGED etc
    /\ UNCHANGED <<vendor, copied, op, at, text, copying, faults, edits, history>>

\* The marker goes; an error is ignored.
Unmark(p) ==
    /\ place[p] = "unmark"
    /\ copied' = copied \ {at[p]}
    /\ AfterService(p)
    /\ UNCHANGED <<etc, vendor, op, text, copying, faults, edits, history>>

\* uninstall: remove_dir_all("/etc/passkey"), with the markers that an add has
\* made since this command passed their services.
Wipe(p) ==
    /\ place[p] = "wipe"
    /\ copied' = {}
    /\ raced' = raced \cup copied \cup {at[q] : q \in {q \in Procs \ {p} :
                                        op[q] = "add" /\ place[q] \in {"write", "mark"}}}
    /\ place' = [place EXCEPT ![p] = "done"]
    /\ UNCHANGED <<etc, vendor, op, at, text, copying, faults, edits, own, replaced, cut>>

\* A file operation fails, which ends the command, or the command is killed.
Fail(p) ==
    /\ Running(p) /\ faults < MaxFaults
    /\ faults' = faults + 1
    /\ cut' = IF place[p] = "mark" THEN cut \cup {at[p]} ELSE cut
    /\ place' = [place EXCEPT ![p] = "done"]
    /\ UNCHANGED <<fileVars, op, at, text, copying, edits, own, replaced, raced>>

-----------------------------------------------------------------------------
(* The rest of the system.                                                 *)

\* The administrator adds a line to a file in /etc.
Edit(i) ==
    /\ edits < MaxEdits /\ etc[i] # None
    /\ edits' = edits + 1
    /\ etc' = [etc EXCEPT ![i] = Append(@, "other")]
    /\ own' = [own EXCEPT ![i] = Restored(Append(etc[i], "other"))]
    /\ raced' = raced \cup {i : p \in {p \in Procs : at[p] = i /\ place[p] = "write"}}
    /\ UNCHANGED <<vendor, copied, procVars, faults, replaced, cut>>

\* A package brings another vendor file.
Upgrade(i) ==
    /\ edits < MaxEdits /\ vendor[i] # None
    /\ edits' = edits + 1
    /\ vendor' = [vendor EXCEPT ![i] = Append(@, "other")]
    /\ replaced' = replaced \cup {i : f \in {etc[i]} \ {None}}
    /\ raced' = raced \cup {i : p \in {p \in Procs : at[p] = i /\ place[p] = "write"}}
    /\ UNCHANGED <<etc, copied, procVars, faults, own, cut>>

Command(p) ==
    \/ Start(p) \/ AddLook(p) \/ AddWrite(p) \/ AddMark(p)
    \/ UninstallLook(p) \/ UninstallWrite(p) \/ Unmark(p) \/ Wipe(p) \/ Fail(p)

Next == (\E p \in Procs : Command(p)) \/ (\E i \in Numbers : Edit(i) \/ Upgrade(i))

Spec == Init /\ [][Next]_vars
=============================================================================
