------------------------------ MODULE PamFiles ------------------------------
(***************************************************************************)
(* The text of a PAM service file and what passkey's edits make of it      *)
(* (src/src/cli.rs: pam_add, pam_remove, is_auth, is_guard, is_ours), the  *)
(* files a computer has at first, and the state of the commands that edit  *)
(* them, with what must hold of it.                                        *)
(*                                                                         *)
(* A file is the sequence of its lines, a line is what pam_add and         *)
(* pam_remove tell apart.  Abstracted: which module the line names.        *)
(***************************************************************************)
EXTENDS Naturals, Sequences

CONSTANTS
    Services,   \* number of services; they are edited in the order 1, 2, ...
    Stacks,     \* what a service looks like at first: [etc, vendor] or None
    MaxFaults,  \* bound: failed file operations, killed commands
    MaxEdits,   \* bound: lines the administrator and the vendor's packages add
    Procs,      \* commands, each run once
    None        \* no file

\* "auth": a line is_auth accepts and is_guard does not; "guard"; "other":
\* account, session, comments.  is_ours accepts three: the mark, the line that
\* pam_line returns today, and one that another version or host name gave.
LineKinds == {"auth", "guard", "other", "mark", "ours", "old"}
Ours      == {"mark", "ours", "old"}
Files     == Seq(LineKinds) \cup {None}

Has(text, S) == \E i \in 1 .. Len(text) : text[i] \in S
HasOurs(text) == Has(text, Ours)

\* The lines of these kinds, in their order: what a filter keeps, as a function that
\* goes through the file.
Among(text, S) ==
    LET upto[i \in 0 .. Len(text)] ==
            IF i = 0 THEN <<>>
            ELSE IF text[i] \in S THEN Append(upto[i - 1], text[i]) ELSE upto[i - 1]
    IN  upto[Len(text)]

\* A plausible bug: a guard is an auth line like any other.
AnyAuth == {"auth", "guard", "old"}

\* The lines pam_add puts its own line at: the first of these in the file.
Anchors == {"auth", "old"}

\* A mark right before the place (an older install) is kept once.
WithoutLastMark(text) ==
    IF text # <<>> /\ text[Len(text)] = "mark" THEN SubSeq(text, 1, Len(text) - 1) ELSE text

DropOld(text) == Among(text, LineKinds \ {"old"})

Place(text) ==
    CHOOSE i \in 1 .. Len(text) :
        text[i] \in Anchors /\ \A j \in 1 .. i - 1 : text[j] \notin Anchors

\* pam_add's loop: an old line of ours is replaced where it is, or ours goes with
\* its mark before the first auth line that is no guard.
Inserted(text) ==
    LET i == Place(text)
        head == SubSeq(text, 1, i - 1)
        tail == DropOld(SubSeq(text, i + 1, Len(text)))
    IN  IF ~Has(text, Anchors) THEN text
        ELSE IF text[i] = "old" THEN head \o <<"ours">> \o tail
        ELSE WithoutLastMark(head) \o <<"mark", "ours", text[i]>> \o tail

\* pam_remove's `restored`.
Restored(text) == Among(text, LineKinds \ Ours)

-----------------------------------------------------------------------------
(* Where the line belongs.                                                 *)

\* Line k has no auth line before it, and no guard behind it but after one.
InFront(text, k) ==
    /\ \A j \in 1 .. k - 1 : text[j] # "auth"
    /\ \A j \in k + 1 .. Len(text) : text[j] = "guard" =>
         \E m \in k + 1 .. j - 1 : text[m] = "auth"

\* The line is there once, and in front.
OnceInFront(text) ==
    \E k \in 1 .. Len(text) :
        /\ \A j \in 1 .. Len(text) : text[j] \in {"ours", "old"} <=> j = k
        /\ InFront(text, k)

\* Today's line is where pam_add puts it.  So is an old line, unless an auth line was
\* put in front of it or it follows another.
Placed(text) ==
    /\ Has(text, {"ours"}) => OnceInFront(text)
    /\ \A k \in 1 .. Len(text) :
         text[k] = "old" /\ (\A j \in 1 .. k - 1 : text[j] \notin {"auth", "old"}) =>
            InFront(text, k)

\* Packages bring no line of passkey, and what is in /etc at first an older passkey or
\* the administrator left.
ASSUME PamFilesAssumption ==
    /\ Services \in Nat \ {0} /\ MaxFaults \in Nat /\ MaxEdits \in Nat
    /\ \A s \in Stacks :
         /\ s.etc \in Files /\ s.vendor \in Files
         /\ s.etc # None => Placed(s.etc)
         /\ s.vendor # None => ~HasOurs(s.vendor)
    /\ None \notin Seq(LineKinds)

-----------------------------------------------------------------------------
(* The files and the commands (see PamStack).                              *)

VARIABLES
    etc,      \* /etc/pam.d/<service>
    vendor,   \* /usr/lib/pam.d/<service>
    copied,   \* services with a marker in /etc/passkey/copied
    op,       \* "add", "uninstall"
    place,    \* where the command stands
    at,       \* the service it works on
    text,     \* the lines it is about to write; None: it deletes the file
    copying,  \* they are the vendor's, with ours
    faults, edits,
    own,      \* history: the file as it would be without passkey
    replaced, \* history: services whose vendor file changed
    raced,    \* history: services two commands worked on at the same time
    cut       \* history: services a command left between two of its writes

Numbers == 1 .. Services
Places  == {"new", "look", "write", "mark", "unmark", "wipe", "done"}

-----------------------------------------------------------------------------
(* Properties.                                                             *)

\* Files are texts of known lines or not there, and every command is at one of the
\* services: none goes past the last (configure, uninstall).
StackTypeOK ==
    /\ etc \in [Numbers -> Files] /\ vendor \in [Numbers -> Files]
    /\ copied \subseteq Numbers
    /\ op \in [Procs -> {"add", "uninstall"}]
    /\ place \in [Procs -> Places]
    /\ at \in [Procs -> Numbers]
    /\ text \in [Procs -> Files]
    /\ copying \in [Procs -> BOOLEAN]
    /\ faults \in 0 .. MaxFaults /\ edits \in 0 .. MaxEdits
    /\ own \in [Numbers -> Files]
    /\ replaced \subseteq Numbers /\ raced \subseteq Numbers /\ cut \subseteq Numbers

\* A service file without a line of passkey is the administrator's, to the letter,
\* and is not there if passkey made it (pam_remove, "undo with: passkey
\* uninstall" in the mark): whatever ran before, in any order and however often,
\* failures and kills included.  Exceptions: a copy outlives its uninstall when the
\* vendor's file changed under it or its marker was never written, and two
\* commands or an editor at once overwrite each other.
StackRestored ==
    \A i \in Numbers :
        \/ etc[i] # None /\ HasOurs(etc[i])
        \/ etc[i] = own[i]
        \/ i \in replaced \cup raced \cup cut

\* The line is there once, behind the guards it must not overtake and before
\* every other auth line, whatever versions of it the file held before (pam_add).
PasskeyFirst ==
    \A i \in Numbers : etc[i] # None /\ Has(etc[i], {"ours"}) => OnceInFront(etc[i])
=============================================================================
