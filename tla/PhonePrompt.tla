----------------------------- MODULE PhonePrompt -----------------------------
(***************************************************************************)
(* The phone: KeyService runs every computer's connection with a reader    *)
(* and one worker thread, Authenticator.handle is a monitor all workers    *)
(* share, and the one prompt lives in static fields of KeyService: raised  *)
(* by confirm, ended by answer (the user), cancel (the computer) or time.  *)
(* PromptActivity shows it on the UI thread.                               *)
(*                                                                         *)
(* Abstracted: what a request says (it asks the user or it does not), the  *)
(* wording, PING, and PromptActivity's retries of the fingerprint sensor,  *)
(* which end in one of its reports or leave it open.                       *)
(***************************************************************************)
EXTENDS Naturals, Sequences, FiniteSets

CONSTANTS
    Conns,        \* connections: Conn objects, one computer each
    MaxRequests,  \* bound: requests a computer sends on one connection
    Loads,        \* bound: how many requests each connection sends, [Conns -> Nat]
    MayLose,      \* connections that may be lost
    MayReject,    \* TRUE: the user may refuse from the notification
    Overlay,      \* TRUE: the app may "display over other apps"
    None          \* no connection, no activity

ASSUME PhonePromptAssumption ==
    /\ IsFiniteSet(Conns)
    /\ MaxRequests \in Nat /\ Loads \subseteq [Conns -> 0 .. MaxRequests]
    /\ MayLose \subseteq Conns
    /\ MayReject \in BOOLEAN /\ Overlay \in BOOLEAN
    /\ None \notin Conns
    /\ None \notin Conns \X (1 .. MaxRequests)
    /\ None \notin [id : Nat, state : {"starting", "open"}, abort : BOOLEAN]

Numbers == 1 .. MaxRequests
Ids     == 1 .. MaxRequests * Cardinality(Conns)    \* each request prompts once

Outcomes == {"none", "quiet", "ok", "denied", "cancel", "timeout"}
PcStates == {"idle", "enter", "confirm", "show", "wait", "respond"}

VARIABLES
    load,       \* which of Loads it is; never changes
    stream,     \* "open", "lost", "ending" (cancel ran), "ended" (shutdownNow ran)
    sent,       \* requests the computer has sent on c
    recalled,   \* numbers the computer has sent CANCEL for
    wire,       \* frames on their way to the phone
    backlog,    \* queue of the connection's executor
    pc,         \* where the connection's worker stands
    job,        \* callerSeq: the request it works on, 0 when none
    mine,       \* its local `id` in confirm
    monitor,    \* connection whose worker is inside Authenticator.handle
    cancelled,  \* Conn.cancelled: the last number withdrawn, 0 when none
    closed,     \* Conn.closed
    seq,        \* prompt ids given out
    current,    \* prompt on offer, 0 for none
    owner,
    ownerSeq,
    result,
    shown,      \* TRUE: `shown` is the activity on the screen
    posted,     \* prompt of the notification, 0 for none
    view,       \* the one PromptActivity, or None
    outcome,    \* what handle returned for each request
    answered,   \* requests answered with RESP
    raised,     \* history: <<id, c, n>>, prompt id was raised for n of c
    rejected,   \* history: prompts refused from the notification
    approved    \* history: prompts the user approved

connVars   == <<load, stream, sent, recalled, wire>>
workerVars == <<backlog, pc, job, mine, monitor>>
flagVars   == <<cancelled, closed>>
slotVars   == <<current, owner, ownerSeq, result, shown>>
uiVars     == <<posted, view>>
resultVars == <<outcome, answered>>
history    == <<raised, rejected, approved>>
vars == <<connVars, workerVars, flagVars, slotVars, seq, uiVars, resultVars, history>>

Frames == [type : {"REQ", "CANCEL"}, number : Numbers]
Views  == [id : Ids, state : {"starting", "open"}, abort : BOOLEAN]

Init ==
    /\ load \in Loads
    /\ stream = [c \in Conns |-> "open"]
    /\ sent = [c \in Conns |-> 0]
    /\ recalled = [c \in Conns |-> {}]
    /\ wire = [c \in Conns |-> <<>>]
    /\ backlog = [c \in Conns |-> <<>>]
    /\ pc = [c \in Conns |-> "idle"]
    /\ job = [c \in Conns |-> 0]
    /\ mine = [c \in Conns |-> 0]
    /\ monitor = None
    /\ cancelled = [c \in Conns |-> 0]
    /\ closed = [c \in Conns |-> FALSE]
    /\ seq = 0 /\ current = 0 /\ owner = None /\ ownerSeq = 0
    /\ result = "none" /\ shown = FALSE
    /\ posted = 0 /\ view = None
    /\ outcome = [c \in Conns |-> [n \in Numbers |-> "none"]]
    /\ answered = [c \in Conns |-> {}]
    /\ raised = {} /\ rejected = {} /\ approved = {}

-----------------------------------------------------------------------------
(* The computer at the other end.                                          *)

SendReq(c) ==
    /\ stream[c] = "open" /\ sent[c] < load[c]
    /\ sent' = [sent EXCEPT ![c] = @ + 1]
    /\ wire' = [wire EXCEPT ![c] = Append(@, [type |-> "REQ", number |-> sent[c] + 1])]
    /\ UNCHANGED <<load, stream, recalled, workerVars, flagVars, slotVars, seq, uiVars,
                   resultVars, history>>

\* The daemon's withdraw: for a request it sent, answered or not.
SendCancel(c, n) ==
    /\ stream[c] = "open" /\ n \in 1 .. sent[c] \ recalled[c]
    /\ recalled' = [recalled EXCEPT ![c] = @ \cup {n}]
    /\ wire' = [wire EXCEPT ![c] = Append(@, [type |-> "CANCEL", number |-> n])]
    /\ UNCHANGED <<load, stream, sent, workerVars, flagVars, slotVars, seq, uiVars,
                   resultVars, history>>

Lose(c) ==
    /\ c \in MayLose /\ stream[c] = "open"
    /\ stream' = [stream EXCEPT ![c] = "lost"]
    /\ UNCHANGED <<load, sent, recalled, wire, workerVars, flagVars, slotVars, seq, uiVars,
                   resultVars, history>>

-----------------------------------------------------------------------------
(* The reader of a connection: serve and cancel.                           *)

\* Whether cancel ends the prompt on offer.
OwnPrompt(c, n, closing) == current # 0 /\ owner = c /\ (closing \/ ownerSeq = n)

\* A plausible bug: the prompt ends and its activity is not told.
Unseen(v) == v

\* a.runOnUiThread(a::abort), when an activity is shown.
Aborted(v) == IF shown THEN [v EXCEPT !.abort = TRUE] ELSE v

\* cancel(c, n, closing), one block synchronized on `lock`.
Cancel(c, n, closing) ==
    /\ cancelled' = [cancelled EXCEPT ![c] = n]
    /\ closed' = [closed EXCEPT ![c] = @ \/ closing]
    /\ IF OwnPrompt(c, n, closing)
         THEN /\ result' = "cancel"
              /\ current' = 0
              /\ view' = Aborted(view)
         ELSE UNCHANGED <<result, current, view>>
    /\ UNCHANGED <<owner, ownerSeq, shown>>

\* A plausible bug: callerSeq is not set.
AcceptedUnnumbered(q, n) == Append(q, 0)

\* worker.execute: an unbounded FIFO queue.
Accepted(q, n) == Append(q, n)

ReadReq(c) ==
    /\ stream[c] = "open" /\ wire[c] # <<>> /\ Head(wire[c]).type = "REQ"
    /\ wire' = [wire EXCEPT ![c] = Tail(@)]
    /\ backlog' = [backlog EXCEPT ![c] = Accepted(@, Head(wire[c]).number)]
    /\ UNCHANGED <<load, stream, sent, recalled, pc, job, mine, monitor, flagVars, slotVars,
                   seq, uiVars, resultVars, history>>

ReadCancel(c) ==
    /\ stream[c] = "open" /\ wire[c] # <<>> /\ Head(wire[c]).type = "CANCEL"
    /\ wire' = [wire EXCEPT ![c] = Tail(@)]
    /\ Cancel(c, Head(wire[c]).number, FALSE)
    /\ UNCHANGED <<load, stream, sent, recalled, workerVars, seq, posted, resultVars, history>>

\* serve's finally: cancel(conn, 0, true), then worker.shutdownNow().
EndStream(c) ==
    /\ stream[c] = "lost"
    /\ stream' = [stream EXCEPT ![c] = "ending"]
    /\ Cancel(c, 0, TRUE)
    /\ UNCHANGED <<load, sent, recalled, wire, workerVars, seq, posted, resultVars, history>>

Shutdown(c) ==
    /\ stream[c] = "ending"
    /\ stream' = [stream EXCEPT ![c] = "ended"]
    /\ backlog' = [backlog EXCEPT ![c] = <<>>]
    /\ UNCHANGED <<load, sent, recalled, wire, pc, job, mine, monitor, flagVars, slotVars, seq,
                   uiVars, resultVars, history>>

-----------------------------------------------------------------------------
(* The worker of a connection: handle, confirm, the answer.                *)

Start(c) ==
    /\ pc[c] = "idle" /\ backlog[c] # <<>>
    /\ job' = [job EXCEPT ![c] = Head(backlog[c])]
    /\ backlog' = [backlog EXCEPT ![c] = Tail(@)]
    /\ pc' = [pc EXCEPT ![c] = "enter"]
    /\ UNCHANGED <<connVars, mine, monitor, flagVars, slotVars, seq, uiVars, resultVars,
                   history>>

Return(c, s) ==
    /\ outcome' = [outcome EXCEPT ![c][job[c]] = s]
    /\ monitor' = None
    /\ pc' = [pc EXCEPT ![c] = "respond"]

\* The synchronized handle; a request that asks nothing returns from it.
EnterQuiet(c) ==
    /\ pc[c] = "enter" /\ monitor = None
    /\ Return(c, "quiet")
    /\ UNCHANGED <<connVars, backlog, job, mine, flagVars, slotVars, seq, uiVars, answered,
                   history>>

EnterAsk(c) ==
    /\ pc[c] = "enter" /\ monitor = None
    /\ monitor' = c
    /\ pc' = [pc EXCEPT ![c] = "confirm"]
    /\ UNCHANGED <<connVars, backlog, job, mine, flagVars, slotVars, seq, uiVars,
                   resultVars, history>>

\* A plausible bug: a cancel only ends a prompt that is there.
NeverTooLate(c) == FALSE

\* A cancel that arrived before the prompt existed still counts.
TooLate(c) == closed[c] \/ cancelled[c] = job[c]

Raise(c) ==
    /\ pc[c] = "confirm" /\ ~TooLate(c)
    /\ seq' = seq + 1
    /\ mine' = [mine EXCEPT ![c] = seq + 1]
    /\ current' = seq + 1
    /\ owner' = c /\ ownerSeq' = job[c] /\ shown' = FALSE /\ result' = "timeout"
    /\ raised' = raised \cup {<<seq + 1, c, job[c]>>}
    /\ pc' = [pc EXCEPT ![c] = "show"]
    /\ UNCHANGED <<connVars, backlog, job, monitor, flagVars, uiVars, resultVars, rejected,
                   approved>>

Withdrawn(c) ==
    /\ pc[c] = "confirm" /\ TooLate(c)
    /\ Return(c, "cancel")
    /\ UNCHANGED <<connVars, backlog, job, mine, flagVars, slotVars, seq, uiVars, answered,
                   history>>

\* startActivity for prompt i.  PromptActivity is singleInstance and takes no
\* new intent: while one is alive, it stays the activity of its own prompt.
Started(i) == IF view = None THEN [id |-> i, state |-> "starting", abort |-> FALSE]
                             ELSE view

\* The notification, then the activity if the system lets the app open it.
Show(c) ==
    /\ pc[c] = "show"
    /\ posted' = mine[c]
    /\ view' = IF Overlay THEN Started(mine[c]) ELSE view
    /\ pc' = [pc EXCEPT ![c] = "wait"]
    /\ UNCHANGED <<connVars, backlog, job, mine, monitor, flagVars, slotVars, seq,
                   resultVars, history>>

\* The end of confirm, of handle, and nm.cancel(2).
Leave(c) ==
    /\ shown' = FALSE /\ owner' = None
    /\ posted' = 0
    /\ mine' = [mine EXCEPT ![c] = 0]
    /\ Return(c, result)

Wake(c) ==
    /\ pc[c] = "wait" /\ current # mine[c]
    /\ Leave(c)
    /\ UNCHANGED <<connVars, backlog, job, flagVars, current, ownerSeq, result, seq, view,
                   answered, history>>

\* The slot after a prompt timed out.
Offered(i) == 0

\* PROMPT_TIMEOUT_MS went by and the prompt is still on offer.
Timeout(c) ==
    /\ pc[c] = "wait" /\ current = mine[c]
    /\ current' = Offered(current)
    /\ view' = Aborted(view)
    /\ Leave(c)
    /\ UNCHANGED <<connVars, backlog, job, flagVars, ownerSeq, result, seq, answered,
                   history>>

\* send(out, RESP); on a lost connection it fails and is ignored.
Respond(c) ==
    /\ pc[c] = "respond"
    /\ answered' = [answered EXCEPT ![c] = IF stream[c] = "open" THEN @ \cup {job[c]} ELSE @]
    /\ job' = [job EXCEPT ![c] = 0]
    /\ pc' = [pc EXCEPT ![c] = "idle"]
    /\ UNCHANGED <<connVars, backlog, mine, monitor, flagVars, slotVars, seq, uiVars, outcome,
                   history>>

-----------------------------------------------------------------------------
(* The user and the UI thread: PromptActivity, the notification.           *)

\* A plausible bug: whoever answers, answers the prompt on offer.
AnyAnswer(i) == current # 0
Counts(i) == current = i

\* answer(i, s), synchronized on `lock`.
Answer(i, s) ==
    /\ IF Counts(i) THEN current' = 0 /\ result' = s ELSE UNCHANGED <<current, result>>
    /\ UNCHANGED <<owner, ownerSeq, shown>>

\* onCreate: attach, or finish when the prompt is over.
Create ==
    /\ view # None /\ view.state = "starting"
    /\ IF view.id = current
         THEN /\ view' = [view EXCEPT !.state = "open"]
              /\ shown' = TRUE
         ELSE view' = None /\ UNCHANGED shown
    /\ UNCHANGED <<connVars, workerVars, flagVars, current, owner, ownerSeq, result, seq,
                   posted, resultVars, history>>

\* abort on the UI thread.
Abort ==
    /\ view # None /\ view.state = "open" /\ view.abort
    /\ view' = None
    /\ UNCHANGED <<connVars, workerVars, flagVars, slotVars, seq, posted, resultVars,
                   history>>

Open == view # None /\ view.state = "open"

\* onAuthenticationSucceeded, or an error that is a refusal: report and finish.
Approve ==
    /\ Open
    /\ Answer(view.id, "ok")
    /\ approved' = approved \cup {view.id}
    /\ view' = None
    /\ UNCHANGED <<connVars, workerVars, flagVars, seq, posted, resultVars, raised,
                   rejected>>

Refuse ==
    /\ Open
    /\ Answer(view.id, "denied")
    /\ view' = None
    /\ UNCHANGED <<connVars, workerVars, flagVars, seq, posted, resultVars, history>>

\* Back: finish without a report, and detach.
Dismiss ==
    /\ Open
    /\ shown' = IF view.id = current THEN FALSE ELSE shown
    /\ view' = None
    /\ UNCHANGED <<connVars, workerVars, flagVars, current, owner, ownerSeq, result, seq,
                   posted, resultVars, history>>

\* The user taps the notification.
Tap ==
    /\ posted # 0
    /\ view' = Started(posted)
    /\ UNCHANGED <<connVars, workerVars, flagVars, slotVars, seq, posted, resultVars,
                   history>>

\* Its "Reject" button: onStartCommand, answer.
Reject ==
    /\ MayReject /\ posted # 0
    /\ Answer(posted, "denied")
    /\ rejected' = rejected \cup {posted}
    /\ UNCHANGED <<connVars, workerVars, flagVars, seq, uiVars, resultVars, raised, approved>>

Computer(c) == SendReq(c) \/ (\E n \in Numbers : SendCancel(c, n)) \/ Lose(c)
Reader(c)   == ReadReq(c) \/ ReadCancel(c) \/ EndStream(c) \/ Shutdown(c)
Worker(c)   == \/ Start(c) \/ EnterQuiet(c) \/ EnterAsk(c) \/ Raise(c) \/ Withdrawn(c)
               \/ Show(c) \/ Wake(c) \/ Timeout(c) \/ Respond(c)
Ui          == Create \/ Abort
User        == Approve \/ Refuse \/ Dismiss \/ Tap \/ Reject

Next ==
    \/ \E c \in Conns : Computer(c) \/ Reader(c) \/ Worker(c)
    \/ Ui \/ User

Spec == Init /\ [][Next]_vars

\* Threads run and a prompt's ten minutes pass; the user and the computers are
\* free to do nothing.
Fairness ==
    /\ \A c \in Conns : WF_vars(Reader(c)) /\ WF_vars(Worker(c))
    /\ WF_vars(Ui)

FairSpec == Spec /\ Fairness

-----------------------------------------------------------------------------
(* Properties.                                                             *)

TypeOK ==
    /\ load \in Loads
    /\ stream \in [Conns -> {"open", "lost", "ending", "ended"}]
    /\ sent \in [Conns -> 0 .. MaxRequests]
    /\ recalled \in [Conns -> SUBSET Numbers]
    /\ wire \in [Conns -> Seq(Frames)]
    /\ backlog \in [Conns -> Seq(Numbers)]
    /\ pc \in [Conns -> PcStates]
    /\ job \in [Conns -> Numbers \cup {0}]
    /\ mine \in [Conns -> Ids \cup {0}]
    /\ monitor \in Conns \cup {None}
    /\ cancelled \in [Conns -> Numbers \cup {0}]
    /\ closed \in [Conns -> BOOLEAN]
    /\ seq \in Ids \cup {0} /\ current \in 0 .. seq
    /\ owner \in Conns \cup {None} /\ ownerSeq \in Numbers \cup {0}
    /\ result \in Outcomes \ {"quiet"} /\ shown \in BOOLEAN
    /\ posted \in 0 .. seq
    /\ view \in Views \cup {None}
    /\ outcome \in [Conns -> [Numbers -> Outcomes]]
    /\ answered \in [Conns -> SUBSET Numbers]
    /\ raised \subseteq Ids \X Conns \X Numbers
    /\ rejected \subseteq Ids /\ approved \subseteq Ids

\* The prompt on offer is never one whose connection has ended, nor the one the
\* latest CANCEL on it withdrew, whichever of cancel and confirm came first.
LatestCancelCounts ==
    \A c \in Conns, n \in Numbers : <<current, c, n>> \in raised =>
        ~closed[c] /\ cancelled[c] # n

\* A prompt on offer has a worker that waits for it inside handle, so its answer
\* reaches the request and the slot is free again afterwards.
SlotHasWaiter ==
    current # 0 =>
        /\ monitor \in Conns
        /\ pc[monitor] \in {"show", "wait"} /\ mine[monitor] = current
        /\ owner = monitor /\ ownerSeq = job[monitor]

\* An activity whose prompt is over has been told to close (abort), except when
\* the prompt was refused from the notification: nobody tells it then, and it
\* stays, in the way of the next prompt (onStartCommand, singleInstance).
LeftoverLeaves == Open /\ view.id # current => view.abort \/ view.id \in rejected

\* The static fields and the screen belong to one worker: the prompt on offer has
\* its worker, and no activity but its own is left to be answered.
PromptHasOwner == SlotHasWaiter /\ LeftoverLeaves

-----------------------------------------------------------------------------
(* What all this is for: the book of module PromptLedger.                  *)

Requests == Conns \X Numbers

OnOffer == {<<t[2], t[3]>> : t \in {t \in raised : t[1] = current}}

\* A request is settled when its prompt left the slot, even before its worker
\* takes the result, or when handle returns without a prompt.
Verdict(r) ==
    IF outcome[r[1]][r[2]] # "none" THEN outcome[r[1]][r[2]]
    ELSE IF \E t \in raised : t[2] = r[1] /\ t[3] = r[2] /\ t[1] # current THEN result
    ELSE "none"

Asked    == {r \in Requests : r[2] <= sent[r[1]]}
Recalled == {r \in Requests : r[2] \in recalled[r[1]]}
Lost     == {c \in Conns : stream[c] # "open"}
Offer    == IF OnOffer = {} THEN None ELSE CHOOSE r \in OnOffer : TRUE
Blessed  == {<<t[2], t[3]>> : t \in {t \in raised : t[1] \in approved}}
Verdicts == [r \in Requests |-> Verdict(r)]
Reported == {r \in Requests : r[2] \in answered[r[1]]}

Book == INSTANCE PromptLedger WITH
    Computers <- Conns, asked <- Asked, recalled <- Recalled, lost <- Lost,
    offer <- Offer, approved <- Blessed, verdict <- Verdicts, reported <- Reported

\* The prompt slot, the monitor, the executors and the flags implement the book
\* (KeyService.confirm, answer, cancel, serve): a request is offered one at a time
\* and at most once, its verdict is given once and never changes, a success is the
\* user's word on this very request and not on a leftover activity's, only its own
\* computer withdraws it, and while the connection lasts it is answered, queued or
\* withdrawn or left alone as it may be.
KeepsBook == Book!Spec
=============================================================================
