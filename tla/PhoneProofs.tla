---------------------------- MODULE PhoneProofs ----------------------------
(***************************************************************************)
(* The phone's one prompt, for any number of computers, requests and       *)
(* prompts, and cancels, answers and activities in any order: it is wanted *)
(* and has its worker; and its slot, queues and flags keep the book of     *)
(* PromptLedger: each request is offered at most once, settled once and by *)
(* who may settle it.                                                      *)
(***************************************************************************)
EXTENDS PhonePrompt, SequenceTheorems, FiniteSetTheorems, TLAPS

Cards == [id : Nat, state : {"starting", "open"}, abort : BOOLEAN]

\* What the argument needs of the types.
Fields ==
    /\ pc \in [Conns -> PcStates] /\ mine \in [Conns -> Nat]
    /\ DOMAIN job = Conns /\ DOMAIN cancelled = Conns /\ DOMAIN closed = Conns
    /\ monitor \in Conns \cup {None}
    /\ seq \in Nat /\ current \in 0 .. seq /\ posted \in 0 .. seq
    /\ shown \in BOOLEAN
    /\ view = None \/ (view \in Cards /\ view.id \in 1 .. seq)

\* One worker is inside handle, and its prompt has a number.
Inside ==
    \A c \in Conns :
        /\ monitor = c <=> pc[c] \in {"confirm", "show", "wait"}
        /\ pc[c] \in {"show", "wait"} => mine[c] \in 1 .. seq

\* Prompts are numbered as they are raised, and the slot names the request of its own.
Raised ==
    \A t \in raised :
        /\ t[1] \in 1 .. seq
        /\ t[1] = current => t[2] = owner /\ t[3] = ownerSeq

\* What is on offer is wanted.
Wanted == current # 0 => ~closed[owner] /\ cancelled[owner] # ownerSeq

\* While a prompt is on offer, `shown` is set just when the activity on the screen
\* is its own, and that one has not been told to close.
ViewFits ==
    /\ Open /\ view.id = current => shown
    /\ current # 0 /\ shown => Open /\ view.id = current
    /\ view # None /\ view.abort => view.id # current

IndInv == Fields /\ Inside /\ SlotHasWaiter /\ Raised /\ Wanted /\ ViewFits /\ LeftoverLeaves
-----------------------------------------------------------------------------

\* Nobody is asked at first.
LEMMA InitHolds == Init => IndInv
<1>. SUFFICES ASSUME Init
              PROVE  IndInv
  OBVIOUS
<1>. USE PhonePromptAssumption DEF Init
<1>1. Fields
  <2>1. pc \in [Conns -> PcStates] /\ mine \in [Conns -> Nat]
    BY DEF PcStates
  <2>2. shown \in BOOLEAN
    OBVIOUS
  <2>3. seq = 0 /\ current = 0 /\ posted = 0
    OBVIOUS
  <2>4. seq \in Nat /\ current \in 0 .. seq /\ posted \in 0 .. seq
    BY <2>3
  <2>. QED
    BY <2>1, <2>2, <2>4 DEF Fields
<1>2. Inside /\ SlotHasWaiter /\ Raised /\ Wanted
  BY DEF Inside, SlotHasWaiter, Raised, Wanted
<1>3. ViewFits /\ LeftoverLeaves
  BY DEF ViewFits, LeftoverLeaves, Open
<1>. QED
  BY <1>1, <1>2, <1>3 DEF IndInv

\* The steps that leave the prompt, the workers and the screen alone.
Aside == <<pc, mine, monitor, job, cancelled, closed, slotVars, seq, uiVars, history>>

LEMMA AsideSteps ==
    /\ \A c \in Conns : Computer(c) \/ ReadReq(c) \/ Shutdown(c) => UNCHANGED Aside
    /\ UNCHANGED vars => UNCHANGED Aside
<1>1. ASSUME NEW c \in Conns, Computer(c) \/ ReadReq(c) \/ Shutdown(c)
      PROVE  UNCHANGED Aside
  BY <1>1 DEF Aside, Computer, SendReq, SendCancel, Lose, ReadReq, Shutdown, workerVars,
              flagVars, slotVars, uiVars, history
<1>2. UNCHANGED vars => UNCHANGED Aside
  BY DEF Aside, vars, workerVars, flagVars, slotVars, uiVars, history
<1>. QED
  BY <1>1, <1>2

LEMMA AsideKeeps == IndInv /\ UNCHANGED Aside => IndInv'
  BY DEF Aside, slotVars, uiVars, history, IndInv, Fields, Inside, SlotHasWaiter, Raised,
         Wanted, ViewFits, LeftoverLeaves, Open

\* An activity stays what it is, told to close or not.
LEMMA ViewForms ==
    ASSUME Fields
    PROVE  /\ ~shown => Aborted(view) = view
           /\ view # None =>
                /\ Aborted(view) \in Cards /\ Aborted(view) # None
                /\ Aborted(view).id = view.id /\ Aborted(view).state = view.state
                /\ Aborted(view).abort = (view.abort \/ shown)
           /\ \A i \in 1 .. seq :
                /\ Started(i) \in Cards /\ Started(i) # None /\ Started(i).id \in 1 .. seq
                /\ view # None => Started(i) = view
                /\ view = None => /\ Started(i).id = i /\ Started(i).state = "starting"
                                  /\ Started(i).abort = FALSE
<1>1. None \notin Cards
  BY PhonePromptAssumption DEF Cards
<1>2. CASE view = None
  <2>1. ~shown => Aborted(view) = view
    BY DEF Aborted
  <2>2. ASSUME NEW i \in 1 .. seq
        PROVE  Started(i) = [id |-> i, state |-> "starting", abort |-> FALSE]
    BY <1>2 DEF Started
  <2>3. ASSUME NEW i \in 1 .. seq
        PROVE  [id |-> i, state |-> "starting", abort |-> FALSE] \in Cards
    BY DEF Cards, Fields
  <2>. QED
    BY <1>1, <1>2, <2>1, <2>2, <2>3
<1>3. CASE view # None
  BY <1>1, <1>3 DEF Fields, Aborted, Started, Cards
<1>. QED
  BY <1>2, <1>3

\* Where a worker stands and what it works on, while the slot is empty or another's.
LEMMA WorkerSteps ==
    ASSUME IndInv, NEW c \in Conns,
           Start(c) \/ EnterQuiet(c) \/ EnterAsk(c) \/ Withdrawn(c) \/ Respond(c)
    PROVE  IndInv'
<1>. USE PhonePromptAssumption DEF IndInv
<1>1. UNCHANGED <<cancelled, closed, slotVars, seq, uiVars, history, mine>>
  BY DEF Start, EnterQuiet, EnterAsk, Withdrawn, Respond, flagVars, resultVars, history
<1>2. Fields'
  BY <1>1 DEF Fields, PcStates, Start, EnterQuiet, EnterAsk, Withdrawn, Respond, Return,
              slotVars, uiVars
<1>3. Inside'
  BY <1>1 DEF Fields, PcStates, Inside, Start, EnterQuiet, EnterAsk, Withdrawn, Respond, Return
<1>4. SlotHasWaiter'
  BY <1>1 DEF Fields, PcStates, Inside, SlotHasWaiter, slotVars,
              Start, EnterQuiet, EnterAsk, Withdrawn, Respond, Return
<1>5. Raised' /\ Wanted' /\ ViewFits' /\ LeftoverLeaves'
  BY <1>1 DEF Raised, Wanted, ViewFits, LeftoverLeaves, Open, slotVars, uiVars, history
<1>. QED
  BY <1>2, <1>3, <1>4, <1>5

\* A prompt is raised with the next number, when there is none.
LEMMA RaiseStep ==
    ASSUME IndInv, NEW c \in Conns, Raise(c)
    PROVE  IndInv'
<1>. USE PhonePromptAssumption DEF IndInv, Raise
<1>1. current = 0 /\ monitor = c /\ seq \in Nat
  BY DEF Fields, Inside, SlotHasWaiter
<1>2. Fields'
  <2>1. seq' \in Nat /\ current' \in 0 .. seq' /\ posted' \in 0 .. seq'
    BY <1>1 DEF Fields, uiVars
  <2>4. shown' \in BOOLEAN
    OBVIOUS
  <2>2. pc' \in [Conns -> PcStates] /\ mine' \in [Conns -> Nat]
    BY <1>1 DEF Fields, PcStates
  <2>3. view' = None \/ (view' \in Cards /\ view'.id \in 1 .. seq')
    BY <1>1 DEF Fields, uiVars, Cards
  <2>. QED
    BY <1>1, <2>1, <2>2, <2>3, <2>4 DEF Fields, flagVars
<1>3. Inside' /\ SlotHasWaiter'
  BY <1>1 DEF Fields, Inside, SlotHasWaiter
<1>4. Raised'
  BY <1>1 DEF Raised
<1>5. Wanted'
  BY <1>1 DEF Wanted, TooLate, flagVars
<1>6. ViewFits' /\ LeftoverLeaves'
  BY <1>1 DEF Fields, ViewFits, LeftoverLeaves, Open, uiVars
<1>. QED
  BY <1>2, <1>3, <1>4, <1>5, <1>6

\* The prompt goes on the screen unless an earlier activity is there.
LEMMA ShowStep ==
    ASSUME IndInv, NEW i \in 1 .. seq, view' = Started(i) \/ view' = view,
           UNCHANGED <<current, owner, ownerSeq, shown, seq, rejected>>
    PROVE  ViewFits' /\ LeftoverLeaves' /\ (view' = None \/ (view' \in Cards /\ view'.id \in 1 .. seq))
<1>. USE DEF IndInv
<1>1. CASE view' = view
  BY <1>1 DEF Fields, ViewFits, LeftoverLeaves, Open
<1>2. CASE view = None /\ view' = Started(i)
  <2>1. /\ view' \in Cards /\ view'.id \in 1 .. seq
        /\ view'.state = "starting" /\ view'.abort = FALSE
    BY <1>2, ViewForms
  <2>2. ~Open' /\ ~Open
    BY <1>2, <2>1 DEF Open
  <2>. QED
    BY <2>1, <2>2 DEF ViewFits, LeftoverLeaves
<1>. QED
  BY <1>1, <1>2, ViewForms

LEMMA PostSteps ==
    ASSUME IndInv, Tap \/ \E c \in Conns : Show(c)
    PROVE  IndInv'
<1>. USE DEF IndInv
<1>1. UNCHANGED <<cancelled, closed, slotVars, seq, history, mine, job, monitor>>
  BY DEF Tap, Show, workerVars, flagVars, history
<1>2. UNCHANGED <<current, owner, ownerSeq, shown, raised, rejected>>
  BY <1>1 DEF slotVars, history
<1>3. CASE Tap
  <2>1. posted \in 1 .. seq /\ view' = Started(posted) /\ pc' = pc /\ posted' = posted
    BY <1>3 DEF Tap, Fields, workerVars
  <2>2. ViewFits' /\ LeftoverLeaves' /\ (view' = None \/ (view' \in Cards /\ view'.id \in 1 .. seq))
    BY <1>1, <1>2, <2>1, ShowStep
  <2>3. Fields'
    BY <1>1, <1>2, <2>1, <2>2 DEF Fields
  <2>4. Inside' /\ SlotHasWaiter' /\ Raised' /\ Wanted'
    BY <1>1, <1>2, <2>1 DEF Inside, SlotHasWaiter, Raised, Wanted
  <2>. QED
    BY <2>2, <2>3, <2>4
<1>4. ASSUME NEW c \in Conns, Show(c)
      PROVE  IndInv'
  <2>1. /\ mine[c] \in 1 .. seq /\ (view' = Started(mine[c]) \/ view' = view)
        /\ pc[c] = "show" /\ pc' = [pc EXCEPT ![c] = "wait"] /\ posted' = mine[c]
    BY <1>4 DEF Show, Fields, Inside
  <2>2. ViewFits' /\ LeftoverLeaves' /\ (view' = None \/ (view' \in Cards /\ view'.id \in 1 .. seq))
    BY <1>1, <1>2, <2>1, ShowStep
  <2>3. Fields'
    BY <1>1, <1>2, <2>1, <2>2 DEF Fields, PcStates
  <2>4. Inside' /\ SlotHasWaiter' /\ Raised' /\ Wanted'
    BY <1>1, <1>2, <2>1 DEF Fields, Inside, SlotHasWaiter, Raised, Wanted
  <2>. QED
    BY <2>2, <2>3, <2>4
<1>. QED
  BY <1>3, <1>4

\* A prompt leaves the slot; an activity that shows it is told, or gone.
LEMMA Emptied ==
    ASSUME IndInv, current' = 0, shown' \in BOOLEAN,
           seq' = seq, view' = Aborted(view), rejected' = rejected, current # 0
    PROVE  /\ ViewFits' /\ LeftoverLeaves'
           /\ view' = None \/ (view' \in Cards /\ view'.id \in 1 .. seq)
<1>. USE DEF IndInv
<1>1. CASE view = None
  <2>1. ~shown
    BY <1>1 DEF ViewFits, Open
  <2>2. view' = None
    BY <1>1, <2>1, ViewForms
  <2>. QED
    BY <2>2 DEF ViewFits, LeftoverLeaves, Open
<1>2. CASE view # None
  <2>1. /\ view' \in Cards /\ view' # None /\ view'.id \in 1 .. seq
        /\ view'.id = view.id /\ view'.state = view.state
        /\ shown => view'.abort
        /\ view.abort => view'.abort
    BY <1>2, ViewForms DEF Fields
  <2>2. ViewFits'
    BY <2>1 DEF ViewFits, Open, Fields
  <2>3. LeftoverLeaves'
    BY <1>2, <2>1 DEF ViewFits, LeftoverLeaves, Open
  <2>. QED
    BY <2>1, <2>2, <2>3
<1>. QED
  BY <1>1, <1>2

\* cancel: whatever it withdraws, what stays on offer is wanted.
LEMMA CancelSteps ==
    ASSUME IndInv, NEW c \in Conns, ReadCancel(c) \/ EndStream(c)
    PROVE  IndInv'
<1>. USE DEF IndInv
<1>1. PICK n, closing : closing \in BOOLEAN /\ Cancel(c, n, closing)
  <2>1. CASE ReadCancel(c)
    <3>1. FALSE \in BOOLEAN /\ Cancel(c, Head(wire[c]).number, FALSE)
      BY <2>1 DEF ReadCancel
    <3>. QED
      BY <3>1
  <2>2. CASE EndStream(c)
    <3>1. TRUE \in BOOLEAN /\ Cancel(c, 0, TRUE)
      BY <2>2 DEF EndStream
    <3>. QED
      BY <3>1
  <2>. QED
    BY <2>1, <2>2
<1>2. UNCHANGED <<pc, job, mine, monitor, seq, posted, raised, rejected, owner, ownerSeq, shown>>
  BY <1>1 DEF ReadCancel, EndStream, Cancel, workerVars, history
<1>3. /\ cancelled' = [cancelled EXCEPT ![c] = n]
      /\ closed' = [closed EXCEPT ![c] = @ \/ closing]
  BY <1>1 DEF Cancel
<1>4. /\ current' \in {0, current}
      /\ ViewFits' /\ LeftoverLeaves'
      /\ view' = None \/ (view' \in Cards /\ view'.id \in 1 .. seq)
  <2>1. CASE OwnPrompt(c, n, closing)
    BY <1>1, <1>2, <2>1, Emptied DEF Cancel, OwnPrompt, Fields
  <2>2. CASE ~OwnPrompt(c, n, closing)
    BY <1>1, <1>2, <2>2 DEF Cancel, Fields, ViewFits, LeftoverLeaves, Open
  <2>. QED
    BY <2>1, <2>2
<1>5. Fields'
  BY <1>2, <1>3, <1>4 DEF Fields
<1>6. Inside' /\ SlotHasWaiter' /\ Raised'
  BY <1>2, <1>4 DEF Fields, Inside, SlotHasWaiter, Raised
<1>7. Wanted'
  <2>1. CASE OwnPrompt(c, n, closing)
    BY <1>1, <2>1 DEF Cancel, Wanted
  <2>2. CASE ~OwnPrompt(c, n, closing)
    <3>1. current' = current
      BY <1>1, <2>2 DEF Cancel
    <3>2. CASE current # 0 /\ owner = c
      <4>1. ~closing /\ ownerSeq # n
        BY <2>2, <3>2 DEF OwnPrompt
      <4>. QED
        BY <1>2, <1>3, <3>1, <3>2, <4>1 DEF Wanted, Fields
    <3>3. CASE current # 0 /\ owner # c
      BY <1>2, <1>3, <3>1, <3>3 DEF Wanted, Fields
    <3>. QED
      BY <3>1, <3>2, <3>3 DEF Wanted
  <2>. QED
    BY <2>1, <2>2
<1>. QED
  BY <1>4, <1>5, <1>6, <1>7

\* The worker takes the result along and leaves the slot empty.
LEMMA LeaveSteps ==
    ASSUME IndInv, NEW c \in Conns, Wake(c) \/ Timeout(c)
    PROVE  IndInv'
<1>. USE DEF IndInv
<1>1. /\ pc[c] = "wait" /\ Leave(c) /\ current' = 0
      /\ UNCHANGED <<job, cancelled, closed, seq, raised, rejected>>
  BY DEF Wake, Timeout, Offered, SlotHasWaiter, Inside, flagVars, history
<1>2. monitor = c
  BY <1>1 DEF Inside
<1>3. /\ ViewFits' /\ LeftoverLeaves'
      /\ view' = None \/ (view' \in Cards /\ view'.id \in 1 .. seq)
  <2>1. shown' \in BOOLEAN
    BY <1>1 DEF Leave
  <2>2. CASE current # 0
    BY <1>1, <2>1, <2>2, Emptied DEF Wake, Timeout, SlotHasWaiter, Inside
  <2>3. CASE current = 0
    <3>1. view' = view
      BY <1>1, <2>3 DEF Wake, Timeout, Fields, Inside
    <3>. QED
      BY <1>1, <2>3, <3>1 DEF Fields, ViewFits, LeftoverLeaves, Open
  <2>. QED
    BY <2>2, <2>3
<1>4. /\ shown' = FALSE /\ posted' = 0 /\ mine' = [mine EXCEPT ![c] = 0]
      /\ monitor' = None /\ pc' = [pc EXCEPT ![c] = "respond"]
  BY <1>1 DEF Leave, Return
<1>5. Fields'
  <2>1. pc' \in [Conns -> PcStates] /\ mine' \in [Conns -> Nat]
    BY <1>4 DEF Fields, PcStates
  <2>2. shown' \in BOOLEAN
    BY <1>4
  <2>3. current' \in 0 .. seq' /\ posted' \in 0 .. seq' /\ seq' \in Nat
    BY <1>1, <1>4 DEF Fields
  <2>. QED
    BY <1>1, <1>3, <1>4, <2>1, <2>2, <2>3 DEF Fields
<1>6. Inside' /\ SlotHasWaiter'
  BY <1>1, <1>2, <1>4, PhonePromptAssumption DEF Fields, Inside, SlotHasWaiter
<1>7. Raised' /\ Wanted'
  BY <1>1 DEF Raised, Wanted
<1>. QED
  BY <1>3, <1>5, <1>6, <1>7

\* The user's answers and the activity's comings and goings.
LEMMA UiSteps ==
    ASSUME IndInv, Create \/ Abort \/ Approve \/ Refuse \/ Dismiss \/ Reject
    PROVE  IndInv'
<1>. USE DEF IndInv
<1>1. /\ UNCHANGED <<pc, job, mine, monitor, cancelled, closed, seq, posted, raised, owner, ownerSeq>>
      /\ current' \in {0, current}
  BY DEF Create, Abort, Approve, Refuse, Dismiss, Reject, Answer, workerVars, flagVars,
         slotVars, uiVars, history
<1>2. Inside' /\ SlotHasWaiter' /\ Raised' /\ Wanted'
  BY <1>1 DEF Fields, Inside, SlotHasWaiter, Raised, Wanted
<1>3. /\ ViewFits' /\ LeftoverLeaves' /\ shown' \in BOOLEAN
      /\ view' = None \/ (view' \in Cards /\ view'.id \in 1 .. seq)
  <2>1. CASE Create
    <3>1. view # None /\ view.state = "starting" /\ UNCHANGED <<current, rejected>>
      BY <2>1 DEF Create, history
    <3>2. CASE view.id = current
      <4>1. view' = [view EXCEPT !.state = "open"] /\ shown' = TRUE
        BY <2>1, <3>2 DEF Create
      <4>2. /\ view' \in Cards /\ view'.state = "open" /\ view'.id = view.id
            /\ view'.abort = view.abort
        BY <3>1, <4>1 DEF Fields, Cards
      <4>3. view' # None
        BY <4>2, PhonePromptAssumption DEF Cards
      <4>. QED
        BY <3>1, <3>2, <4>1, <4>2, <4>3 DEF ViewFits, LeftoverLeaves, Open, Fields
    <3>3. CASE view.id # current
      <4>1. view' = None /\ shown' = shown
        BY <2>1, <3>3 DEF Create
      <4>. QED
        BY <3>1, <4>1 DEF ViewFits, LeftoverLeaves, Open, Fields
    <3>. QED
      BY <3>2, <3>3
  <2>2. CASE Abort
    BY <2>2 DEF Abort, slotVars, ViewFits, LeftoverLeaves, Open, Fields
  <2>3. CASE Approve \/ Refuse
    BY <2>3 DEF Approve, Refuse, Answer, Counts, ViewFits, LeftoverLeaves, Open, Fields
  <2>4. CASE Dismiss
    <3>1. view' = None /\ UNCHANGED current
      BY <2>4 DEF Dismiss
    <3>2. CASE view.id = current
      BY <2>4, <3>1, <3>2 DEF Dismiss, ViewFits, LeftoverLeaves, Open
    <3>3. CASE view.id # current
      BY <2>4, <3>1, <3>3 DEF Dismiss, ViewFits, LeftoverLeaves, Open, Fields
    <3>. QED
      BY <3>2, <3>3
  <2>5. CASE Reject
    BY <2>5 DEF Reject, Answer, Counts, uiVars, ViewFits, LeftoverLeaves, Open, Fields
  <2>. QED
    BY <2>1, <2>2, <2>3, <2>4, <2>5
<1>4. Fields'
  BY <1>1, <1>3 DEF Fields
<1>. QED
  BY <1>2, <1>3, <1>4

LEMMA StepKeeps == IndInv /\ [Next]_vars => IndInv'
  BY AsideSteps, AsideKeeps, WorkerSteps, RaiseStep, PostSteps, CancelSteps, LeaveSteps, UiSteps
     DEF Next, Reader, Worker, Ui, User

LEMMA Invariance == Spec => []IndInv
  BY InitHolds, StepKeeps, PTL DEF Spec

-----------------------------------------------------------------------------

\* However cancel, confirm and the end of a connection meet: the prompt on offer is
\* not one its computer's latest CANCEL withdrew, nor one of a connection that has
\* ended (cancel, confirm).
THEOREM WantedOnly == Spec => []LatestCancelCounts
<1>1. IndInv => LatestCancelCounts
  <2>. SUFFICES ASSUME IndInv, NEW c \in Conns, NEW n \in Numbers, <<current, c, n>> \in raised
                PROVE  ~closed[c] /\ cancelled[c] # n
    BY DEF LatestCancelCounts
  <2>1. current # 0 /\ c = owner /\ n = ownerSeq
    BY DEF IndInv, Fields, Raised
  <2>. QED
    BY <2>1 DEF IndInv, Wanted
<1>. QED
  BY Invariance, <1>1, PTL

\* Whatever workers, readers, the user and the screen do: the prompt on offer has the
\* worker that waits for it, and an open activity that is not its own has been told to
\* close, unless it was refused from the notification (confirm, answer, PromptActivity).
THEOREM OwnedPrompt == Spec => []PromptHasOwner
<1>1. IndInv => PromptHasOwner
  BY DEF IndInv, PromptHasOwner
<1>. QED
  BY Invariance, <1>1, PTL

-----------------------------------------------------------------------------
(* The book: what each request met, and in which order.                    *)

\* The rest of the types.
Records ==
    /\ load \in [Conns -> 0 .. MaxRequests] /\ sent \in [Conns -> 0 .. MaxRequests]
    /\ stream \in [Conns -> {"open", "lost", "ending", "ended"}]
    /\ recalled \in [Conns -> SUBSET Numbers] /\ answered \in [Conns -> SUBSET Numbers]
    /\ wire \in [Conns -> Seq(Frames)] /\ backlog \in [Conns -> Seq(Numbers)]
    /\ job \in [Conns -> Numbers \cup {0}] /\ cancelled \in [Conns -> Numbers \cup {0}]
    /\ outcome \in [Conns -> [Numbers -> Outcomes]]
    /\ result \in Outcomes
    /\ \A t \in raised : t \in Nat \X Conns \X Numbers

\* Request n of c came to its prompt or to its end.
Met(c, n) == outcome[c][n] # "none" \/ \E t \in raised : t[2] = c /\ t[3] = n

\* Requests come to the worker in the order they were sent, each once.
Ordered(c) ==
    /\ \A i \in 1 .. Len(wire[c]) : wire[c][i].type = "REQ" =>
         /\ wire[c][i].number <= sent[c]
         /\ \A j \in 1 .. i - 1 : wire[c][j].type = "REQ" => wire[c][j].number < wire[c][i].number
         /\ \A j \in 1 .. Len(backlog[c]) : backlog[c][j] < wire[c][i].number
         /\ job[c] < wire[c][i].number
         /\ \A n \in Numbers : Met(c, n) => n < wire[c][i].number
    /\ \A i \in 1 .. Len(backlog[c]) :
         /\ backlog[c][i] <= sent[c]
         /\ \A j \in 1 .. i - 1 : backlog[c][j] < backlog[c][i]
         /\ job[c] < backlog[c][i]
         /\ \A n \in Numbers : Met(c, n) => n < backlog[c][i]
    /\ job[c] <= sent[c]
    /\ \A n \in Numbers : Met(c, n) => n <= sent[c]

InLine == \A c \in Conns : Ordered(c)

\* What a worker has in hand has met nothing yet, is at its prompt, or is over.
InHand ==
    \A c \in Conns :
        /\ pc[c] # "idle" => job[c] # 0
        /\ pc[c] \in {"enter", "confirm"} => ~Met(c, job[c])
        /\ pc[c] \in {"show", "wait"} => /\ outcome[c][job[c]] = "none" /\ result # "none"
                                         /\ <<mine[c], c, job[c]>> \in raised
        /\ pc[c] = "respond" => outcome[c][job[c]] # "none"

\* Withdrawn is what its own computer withdrew, or left behind.
OwnWish ==
    \A c \in Conns :
        /\ recalled[c] \subseteq 1 .. sent[c]
        /\ \A i \in 1 .. Len(wire[c]) : wire[c][i].type = "CANCEL" => wire[c][i].number \in recalled[c]
        /\ cancelled[c] # 0 => cancelled[c] \in recalled[c]
        /\ closed[c] => stream[c] # "open"

\* One prompt per number, one per request, and only the worker at a prompt has one
\* whose request is not over.
Prompts ==
    /\ \A i \in 1 .. seq : \E t \in raised : t[1] = i
    /\ \A t, u \in raised : t[1] = u[1] \/ (t[2] = u[2] /\ t[3] = u[3]) => t = u
    /\ \A t \in raised : outcome[t[2]][t[3]] = "none" =>
         pc[t[2]] \in {"show", "wait"} /\ t[1] = mine[t[2]]
    /\ current # 0 => result = "timeout"
    /\ approved \subseteq 1 .. seq

BookInv == IndInv /\ Records /\ InLine /\ InHand /\ OwnWish /\ Prompts
-----------------------------------------------------------------------------

LEMMA BookInit == Init => BookInv
<1>. SUFFICES ASSUME Init
              PROVE  BookInv
  OBVIOUS
<1>. USE PhonePromptAssumption DEF Init
<1>1. IndInv
  BY InitHolds
<1>2. Records
  <2>1. load \in [Conns -> 0 .. MaxRequests] /\ sent \in [Conns -> 0 .. MaxRequests]
    OBVIOUS
  <2>2. wire \in [Conns -> Seq(Frames)] /\ backlog \in [Conns -> Seq(Numbers)]
    OBVIOUS
  <2>3. outcome \in [Conns -> [Numbers -> Outcomes]] /\ result \in Outcomes
    BY DEF Outcomes
  <2>. QED
    BY <2>1, <2>2, <2>3 DEF Records
<1>3. InLine
  BY DEF InLine, Ordered, Met
<1>4. InHand /\ OwnWish
  BY DEF InHand, OwnWish
<1>5. Prompts
  BY DEF Prompts
<1>. QED
  BY <1>1, <1>2, <1>3, <1>4, <1>5 DEF BookInv

LEMMA AppendFacts ==
    ASSUME NEW S, NEW s \in Seq(S), NEW e \in S
    PROVE  /\ Append(s, e) \in Seq(S) /\ Len(Append(s, e)) = Len(s) + 1
           /\ Len(s) \in Nat
           /\ \A i \in 1 .. Len(s) : Append(s, e)[i] = s[i]
           /\ Append(s, e)[Len(s) + 1] = e
  OBVIOUS

LEMMA TailFacts ==
    ASSUME NEW S, NEW s \in Seq(S), s # <<>>
    PROVE  /\ Len(s) \in Nat \ {0} /\ Head(s) = s[1] /\ Head(s) \in S
           /\ Tail(s) \in Seq(S) /\ Len(Tail(s)) = Len(s) - 1
           /\ \A i \in 1 .. Len(s) - 1 : Tail(s)[i] = s[i + 1]
  OBVIOUS

LEMMA RecordsStep ==
    ASSUME BookInv, [Next]_vars
    PROVE  Records'
<1>. USE DEF Records
<1>0. Records /\ Fields
  BY DEF BookInv, IndInv
<1>. USE <1>0
<1>1. ASSUME NEW c \in Conns, Computer(c)
      PROVE  Records'
  <2>1. CASE SendReq(c)
    <3>1. sent[c] + 1 \in Numbers /\ sent' \in [Conns -> 0 .. MaxRequests]
      BY <2>1, PhonePromptAssumption DEF SendReq, Numbers
    <3>2. [type |-> "REQ", number |-> sent[c] + 1] \in Frames
      BY <3>1 DEF Frames
    <3>3. wire' \in [Conns -> Seq(Frames)]
      BY <2>1, <3>2, AppendFacts DEF SendReq
    <3>. QED
      BY <2>1, <3>1, <3>3 DEF SendReq, workerVars, flagVars, slotVars, resultVars, history
  <2>2. ASSUME NEW n \in Numbers, SendCancel(c, n)
        PROVE  Records'
    <3>1. [type |-> "CANCEL", number |-> n] \in Frames
      BY DEF Frames
    <3>2. wire' \in [Conns -> Seq(Frames)] /\ recalled' \in [Conns -> SUBSET Numbers]
      BY <2>2, <3>1, AppendFacts DEF SendCancel
    <3>. QED
      BY <2>2, <3>2 DEF SendCancel, workerVars, flagVars, slotVars, resultVars, history
  <2>3. CASE Lose(c)
    BY <2>3 DEF Lose, workerVars, flagVars, slotVars, resultVars, history
  <2>. QED
    BY <1>1, <2>1, <2>2, <2>3 DEF Computer
<1>2. ASSUME NEW c \in Conns, Reader(c)
      PROVE  Records'
  <2>1. CASE ReadReq(c)
    <3>1. Head(wire[c]).number \in Numbers /\ Tail(wire[c]) \in Seq(Frames)
      <4>1. wire[c] \in Seq(Frames) /\ wire[c] # <<>>
        BY <2>1 DEF ReadReq
      <4>2. Head(wire[c]) \in Frames /\ Tail(wire[c]) \in Seq(Frames)
        BY <4>1, TailFacts
      <4>. QED
        BY <4>2 DEF Frames
    <3>2. backlog' \in [Conns -> Seq(Numbers)] /\ wire' \in [Conns -> Seq(Frames)]
      BY <2>1, <3>1, AppendFacts DEF ReadReq, Accepted
    <3>. QED
      BY <2>1, <3>2 DEF ReadReq, flagVars, slotVars, resultVars, history
  <2>2. CASE ReadCancel(c)
    <3>1. Head(wire[c]).number \in Numbers /\ Tail(wire[c]) \in Seq(Frames)
      <4>1. wire[c] \in Seq(Frames) /\ wire[c] # <<>>
        BY <2>2 DEF ReadCancel
      <4>2. Head(wire[c]) \in Frames /\ Tail(wire[c]) \in Seq(Frames)
        BY <4>1, TailFacts
      <4>. QED
        BY <4>2 DEF Frames
    <3>2. wire' \in [Conns -> Seq(Frames)] /\ cancelled' \in [Conns -> Numbers \cup {0}]
      BY <2>2, <3>1 DEF ReadCancel, Cancel
    <3>3. result' \in Outcomes
      BY <2>2 DEF ReadCancel, Cancel, Outcomes
    <3>. QED
      BY <2>2, <3>2, <3>3 DEF ReadCancel, workerVars, resultVars, history
  <2>3. CASE EndStream(c)
    <3>1. cancelled' \in [Conns -> Numbers \cup {0}] /\ result' \in Outcomes
      BY <2>3 DEF EndStream, Cancel, Outcomes
    <3>2. stream' \in [Conns -> {"open", "lost", "ending", "ended"}]
      BY <2>3 DEF EndStream
    <3>. QED
      BY <2>3, <3>1, <3>2 DEF EndStream, workerVars, resultVars, history
  <2>4. CASE Shutdown(c)
    BY <2>4 DEF Shutdown, flagVars, slotVars, resultVars, history
  <2>. QED
    BY <1>2, <2>1, <2>2, <2>3, <2>4 DEF Reader
<1>3. ASSUME NEW c \in Conns, Worker(c)
      PROVE  Records'
  <2>1. CASE Start(c)
    <3>1. Head(backlog[c]) \in Numbers /\ Tail(backlog[c]) \in Seq(Numbers)
      BY <2>1, TailFacts DEF Start
    <3>. QED
      BY <2>1, <3>1 DEF Start, connVars, flagVars, slotVars, resultVars, history
  <2>2. CASE EnterAsk(c) \/ Show(c)
    BY <2>2 DEF EnterAsk, Show, connVars, flagVars, slotVars, resultVars, history
  <2>3. CASE Raise(c)
    <3>1. job[c] \in Numbers
      BY <2>3 DEF Raise, BookInv, InHand
    <3>2. <<seq + 1, c, job[c]>> \in Nat \X Conns \X Numbers
      <4>1. seq + 1 \in Nat
        BY DEF Fields
      <4>. QED
        BY <3>1, <4>1
    <3>3. result' \in Outcomes
      BY <2>3 DEF Raise, Outcomes
    <3>. QED
      BY <2>3, <3>2, <3>3 DEF Raise, connVars, flagVars, resultVars
  <2>4. CASE Respond(c)
    <3>1. job[c] \in Numbers
      BY <2>4 DEF Respond, BookInv, InHand
    <3>. QED
      BY <2>4, <3>1 DEF Respond, connVars, flagVars, slotVars, history
  <2>5. ASSUME NEW s \in Outcomes, outcome' = [outcome EXCEPT ![c][job[c]] = s]
        PROVE  outcome' \in [Conns -> [Numbers -> Outcomes]]
    BY <2>5
  <2>6. "quiet" \in Outcomes /\ "cancel" \in Outcomes
    BY DEF Outcomes
  <2>7. CASE EnterQuiet(c) \/ Withdrawn(c)
    <3>1. outcome' \in [Conns -> [Numbers -> Outcomes]]
      BY <2>5, <2>6, <2>7 DEF EnterQuiet, Withdrawn, Return
    <3>. QED
      BY <2>7, <3>1 DEF EnterQuiet, Withdrawn, connVars, flagVars, slotVars, history
  <2>8. CASE Wake(c) \/ Timeout(c)
    <3>1. outcome' \in [Conns -> [Numbers -> Outcomes]]
      BY <2>5, <2>8 DEF Wake, Timeout, Leave, Return
    <3>. QED
      BY <2>8, <3>1 DEF Wake, Timeout, connVars, flagVars, history
  <2>. QED
    BY <1>3, <2>1, <2>2, <2>3, <2>4, <2>7, <2>8 DEF Worker
<1>4. CASE Ui \/ User
  <2>1. result' \in Outcomes
    BY <1>4 DEF Ui, User, Create, Abort, Approve, Refuse, Dismiss, Tap, Reject, Answer, slotVars,
                Outcomes
  <2>2. UNCHANGED <<connVars, workerVars, flagVars, resultVars, raised>>
    BY <1>4 DEF Ui, User, Create, Abort, Approve, Refuse, Dismiss, Tap, Reject, history
  <2>. QED
    BY <2>1, <2>2 DEF connVars, workerVars, flagVars, resultVars
<1>5. CASE UNCHANGED vars
  BY <1>5 DEF vars, connVars, workerVars, flagVars, slotVars, resultVars, history
<1>. QED
  BY <1>1, <1>2, <1>3, <1>4, <1>5 DEF Next

LEMMA LineTypes ==
    ASSUME Records, NEW c \in Conns
    PROVE  /\ Len(wire[c]) \in Nat /\ Len(backlog[c]) \in Nat
           /\ \A i \in 1 .. Len(wire[c]) : wire[c][i].number \in Nat \ {0}
           /\ \A i \in 1 .. Len(backlog[c]) : backlog[c][i] \in Nat \ {0}
           /\ job[c] \in Nat /\ sent[c] \in Nat
<1>1. ASSUME NEW i \in 1 .. Len(wire[c])
      PROVE  wire[c][i].number \in Nat \ {0}
  <2>1. wire[c][i] \in Frames
    BY DEF Records
  <2>. QED
    BY <2>1 DEF Frames, Numbers
<1>2. ASSUME NEW i \in 1 .. Len(backlog[c])
      PROVE  backlog[c][i] \in Nat \ {0}
  <2>1. backlog[c][i] \in Numbers
    BY DEF Records
  <2>. QED
    BY <2>1 DEF Numbers
<1>3. job[c] \in Nat /\ sent[c] \in Nat /\ Len(wire[c]) \in Nat /\ Len(backlog[c]) \in Nat
  BY PhonePromptAssumption DEF Records, Numbers
<1>. QED
  BY <1>1, <1>2, <1>3

\* The step changes the line of c alone, and meets no request.
LEMMA OneLine ==
    ASSUME BookInv, NEW c \in Conns, Ordered(c)',
           \A d \in Conns : d # c => /\ wire'[d] = wire[d] /\ backlog'[d] = backlog[d]
                                     /\ job'[d] = job[d] /\ sent'[d] = sent[d],
           UNCHANGED <<outcome, raised>>
    PROVE  InLine'
<1>. SUFFICES ASSUME NEW d \in Conns, d # c
              PROVE  Ordered(d)'
  BY DEF InLine
<1>1. Ordered(d)
  BY DEF BookInv, InLine
<1>2. \A n \in Numbers : Met(d, n)' <=> Met(d, n)
  BY DEF Met
<1>. QED
  BY <1>1, <1>2 DEF Ordered

\* The lines stay, and a worker meets the request in its hand.
LEMMA SameLines ==
    ASSUME BookInv, UNCHANGED <<wire, backlog, job, sent>>,
           \A d \in Conns, n \in Numbers : Met(d, n)' => Met(d, n) \/ n = job[d]
    PROVE  InLine'
<1>. SUFFICES ASSUME NEW d \in Conns
              PROVE  Ordered(d)'
  BY DEF InLine
<1>1. Ordered(d)
  BY DEF BookInv, InLine
<1>. QED
  BY <1>1 DEF Ordered

LEMMA ComputerLines ==
    ASSUME BookInv, NEW c \in Conns, Computer(c)
    PROVE  InLine'
<1>. USE DEF Records
<1>0. Records /\ Ordered(c) /\ UNCHANGED <<outcome, raised, job, backlog>>
  BY DEF BookInv, InLine, Computer, SendReq, SendCancel, Lose, workerVars, resultVars, history
<1>. USE <1>0
<1>1. \A n \in Numbers : Met(c, n)' <=> Met(c, n)
  BY DEF Met
<1>2. CASE SendReq(c)
  <2>. DEFINE f == [type |-> "REQ", number |-> sent[c] + 1]
  <2>1. f \in Frames /\ sent[c] \in Nat /\ sent'[c] = sent[c] + 1 /\ wire'[c] = Append(wire[c], f)
    BY <1>2, PhonePromptAssumption DEF SendReq, Numbers, Frames
  <2>2. /\ Len(wire[c]) \in Nat /\ Len(wire'[c]) = Len(wire[c]) + 1
        /\ \A i \in 1 .. Len(wire[c]) : wire'[c][i] = wire[c][i]
        /\ wire'[c][Len(wire[c]) + 1] = f
    BY <2>1, AppendFacts
  <2>3. f.number = sent[c] + 1
    OBVIOUS
  <2>4. /\ \A j \in 1 .. Len(backlog[c]) : backlog[c][j] \in Nat
        /\ \A i \in 1 .. Len(wire[c]) : wire[c][i].number \in Nat
        /\ job[c] \in Nat
    BY LineTypes
  <2>. HIDE DEF f
  <2>5. Ordered(c)'
    BY <1>1, <2>1, <2>2, <2>3, <2>4 DEF Ordered, Numbers
  <2>. QED
    BY <1>2, <2>5, OneLine DEF SendReq
<1>3. ASSUME NEW m \in Numbers, SendCancel(c, m)
      PROVE  InLine'
  <2>. DEFINE f == [type |-> "CANCEL", number |-> m]
  <2>1. f \in Frames /\ sent'[c] = sent[c] /\ wire'[c] = Append(wire[c], f) /\ f.type # "REQ"
    BY <1>3 DEF SendCancel, Frames
  <2>2. /\ Len(wire[c]) \in Nat /\ Len(wire'[c]) = Len(wire[c]) + 1
        /\ \A i \in 1 .. Len(wire[c]) : wire'[c][i] = wire[c][i]
        /\ wire'[c][Len(wire[c]) + 1] = f
    BY <2>1, AppendFacts
  <2>. HIDE DEF f
  <2>3. Ordered(c)'
    <3>1. backlog'[c] = backlog[c] /\ sent'[c] = sent[c] /\ job'[c] = job[c]
      BY <2>1
    <3>2. wire'[c][Len(wire[c]) + 1].type # "REQ"
      BY <2>1, <2>2
    <3>. HIDE <1>0
    <3>3. Ordered(c)
      BY <1>0
    <3>. HIDE DEF Records
    <3>4. ASSUME NEW i \in 1 .. Len(wire'[c]), wire'[c][i].type = "REQ"
          PROVE  /\ i \in 1 .. Len(wire[c]) /\ wire'[c][i] = wire[c][i]
                 /\ \A j \in 1 .. i - 1 : wire'[c][j] = wire[c][j]
      <4>1. i # Len(wire[c]) + 1
        BY <3>2, <3>4
      <4>2. i \in Nat /\ 1 <= i /\ i <= Len(wire[c]) + 1
        BY <2>2
      <4>3. i \in 1 .. Len(wire[c])
        BY <2>2, <4>1, <4>2
      <4>. QED
        BY <2>2, <4>3
    <3>. QED
      BY <1>1, <2>1, <3>1, <3>3, <3>4 DEF Ordered
  <2>. QED
    BY <1>3, <2>3, OneLine DEF SendCancel
<1>4. CASE Lose(c)
  BY <1>4, SameLines DEF Lose, Met
<1>. QED
  BY <1>2, <1>3, <1>4 DEF Computer

LEMMA ReaderLines ==
    ASSUME BookInv, NEW c \in Conns, Reader(c)
    PROVE  InLine'
<1>. USE DEF Records
<1>0. Records /\ Ordered(c) /\ UNCHANGED <<outcome, raised, job, sent>>
  BY DEF BookInv, InLine, Reader, ReadReq, ReadCancel, EndStream, Shutdown, workerVars, resultVars,
         history
<1>. USE <1>0
<1>1. \A n \in Numbers : Met(c, n)' <=> Met(c, n)
  BY DEF Met
<1>2. wire[c] # <<>> =>
        /\ Len(wire[c]) \in Nat \ {0} /\ Head(wire[c]) = wire[c][1] /\ Head(wire[c]) \in Frames
        /\ Len(Tail(wire[c])) = Len(wire[c]) - 1
        /\ \A i \in 1 .. Len(wire[c]) - 1 : Tail(wire[c])[i] = wire[c][i + 1]
  BY TailFacts
<1>3. CASE ReadReq(c)
  <2>. DEFINE n == Head(wire[c]).number
  <2>1. n \in Numbers /\ wire[c] # <<>> /\ wire'[c] = Tail(wire[c]) /\ wire[c][1].type = "REQ"
        /\ backlog'[c] = Append(backlog[c], n) /\ n = wire[c][1].number
    BY <1>2, <1>3 DEF ReadReq, Accepted, Frames
  <2>2. /\ Len(backlog[c]) \in Nat /\ Len(backlog'[c]) = Len(backlog[c]) + 1
        /\ \A i \in 1 .. Len(backlog[c]) : backlog'[c][i] = backlog[c][i]
        /\ backlog'[c][Len(backlog[c]) + 1] = n
    BY <2>1, AppendFacts
  <2>. HIDE DEF n
  <2>3. Ordered(c)'
    BY <1>1, <1>2, <2>1, <2>2 DEF Ordered
  <2>. QED
    BY <1>3, <2>3, OneLine DEF ReadReq
<1>4. CASE ReadCancel(c)
  <2>1. wire[c] # <<>> /\ wire'[c] = Tail(wire[c]) /\ backlog' = backlog
    BY <1>4 DEF ReadCancel, workerVars
  <2>2. Ordered(c)'
    <3>1. backlog'[c] = backlog[c] /\ sent'[c] = sent[c] /\ job'[c] = job[c]
      BY <2>1
    <3>. HIDE <1>0
    <3>2. Ordered(c)
      BY <1>0
    <3>. HIDE DEF Records
    <3>3. ASSUME NEW i \in 1 .. Len(wire'[c])
          PROVE  /\ i + 1 \in 1 .. Len(wire[c]) /\ wire'[c][i] = wire[c][i + 1]
                 /\ \A j \in 1 .. i - 1 : j + 1 \in 1 .. (i + 1) - 1 /\ wire'[c][j] = wire[c][j + 1]
      BY <1>2, <2>1
    <3>4. ASSUME NEW i \in 1 .. Len(wire'[c]), wire'[c][i].type = "REQ"
          PROVE  /\ wire'[c][i].number <= sent[c]
                 /\ \A j \in 1 .. i - 1 : wire'[c][j].type = "REQ" => wire'[c][j].number < wire'[c][i].number
                 /\ \A j \in 1 .. Len(backlog[c]) : backlog[c][j] < wire'[c][i].number
                 /\ job[c] < wire'[c][i].number
                 /\ \A n \in Numbers : Met(c, n) => n < wire'[c][i].number
      BY <3>2, <3>3, <3>4 DEF Ordered
    <3>. QED
      BY <1>1, <3>1, <3>2, <3>4 DEF Ordered
  <2>. QED
    BY <1>4, <2>1, <2>2, OneLine DEF ReadCancel
<1>5. CASE EndStream(c)
  BY <1>5, SameLines DEF EndStream, workerVars, Met
<1>6. CASE Shutdown(c)
  <2>1. wire' = wire /\ backlog'[c] = <<>>
    BY <1>6 DEF Shutdown
  <2>2. Ordered(c)'
    <3>1. wire'[c] = wire[c] /\ Len(backlog'[c]) = 0 /\ sent'[c] = sent[c] /\ job'[c] = job[c]
      BY <2>1
    <3>. HIDE <1>0
    <3>2. Ordered(c)
      BY <1>0
    <3>. HIDE DEF Records
    <3>. QED
      BY <1>1, <3>1, <3>2 DEF Ordered
  <2>. QED
    BY <1>6, <2>2, OneLine DEF Shutdown
<1>. QED
  BY <1>3, <1>4, <1>5, <1>6 DEF Reader

LEMMA WorkerLines ==
    ASSUME BookInv, NEW c \in Conns, Worker(c)
    PROVE  InLine'
<1>. USE DEF Records
<1>0. Records /\ Ordered(c) /\ UNCHANGED <<wire, sent>>
  BY DEF BookInv, InLine, Worker, Start, EnterQuiet, EnterAsk, Raise, Withdrawn, Show, Wake, Timeout,
         Respond, connVars
<1>. USE <1>0
<1>1. CASE Start(c)
  <2>1. \A n \in Numbers : Met(c, n)' <=> Met(c, n)
    BY <1>1 DEF Start, resultVars, history, Met
  <2>2. /\ Len(backlog[c]) \in Nat \ {0} /\ Head(backlog[c]) = backlog[c][1]
        /\ Len(Tail(backlog[c])) = Len(backlog[c]) - 1
        /\ \A i \in 1 .. Len(backlog[c]) - 1 : Tail(backlog[c])[i] = backlog[c][i + 1]
    BY <1>1, TailFacts DEF Start
  <2>3. backlog'[c] = Tail(backlog[c]) /\ job'[c] = backlog[c][1]
    BY <1>1, <2>2 DEF Start
  <2>4. Ordered(c)'
    BY <2>1, <2>2, <2>3 DEF Ordered
  <2>. QED
    BY <1>1, <2>4, OneLine DEF Start, resultVars, history
<1>2. CASE Respond(c)
  <2>1. \A n \in Numbers : Met(c, n)' <=> Met(c, n)
    BY <1>2 DEF Respond, history, Met
  <2>2. backlog' = backlog /\ job'[c] = 0
    BY <1>2 DEF Respond
  <2>3. /\ \A i \in 1 .. Len(backlog[c]) : 0 < backlog[c][i]
        /\ \A i \in 1 .. Len(wire[c]) : 0 < wire[c][i].number
    BY LineTypes
  <2>4. Ordered(c)'
    <3>1. wire'[c] = wire[c] /\ backlog'[c] = backlog[c] /\ sent'[c] = sent[c]
      BY <2>2
    <3>2. 0 <= sent[c]
      BY LineTypes
    <3>. HIDE <1>0
    <3>3. Ordered(c)
      BY <1>0
    <3>. HIDE DEF Records
    <3>. QED
      BY <2>1, <2>2, <2>3, <3>1, <3>2, <3>3 DEF Ordered
  <2>. QED
    BY <1>2, <2>4, OneLine DEF Respond, history
<1>3. CASE EnterAsk(c) \/ Show(c)
  BY <1>3, SameLines DEF EnterAsk, Show, resultVars, history, Met
<1>4. CASE EnterQuiet(c) \/ Withdrawn(c) \/ Wake(c) \/ Timeout(c)
  <2>1. UNCHANGED <<backlog, job, raised>>
    BY <1>4 DEF EnterQuiet, Withdrawn, Wake, Timeout, history
  <2>2. PICK s : outcome' = [outcome EXCEPT ![c][job[c]] = s]
    BY <1>4 DEF EnterQuiet, Withdrawn, Wake, Timeout, Leave, Return
  <2>3. \A d \in Conns, n \in Numbers : outcome'[d][n] = outcome[d][n] \/ n = job[d]
    BY <2>2
  <2>. QED
    BY <2>1, <2>3, SameLines DEF Met
<1>5. CASE Raise(c)
  BY <1>5, SameLines DEF Raise, resultVars, Met
<1>. QED
  BY <1>1, <1>2, <1>3, <1>4, <1>5 DEF Worker

LEMMA LineStep ==
    ASSUME BookInv, [Next]_vars
    PROVE  InLine'
<1>1. CASE Ui \/ User \/ UNCHANGED vars
  BY <1>1, SameLines DEF Ui, User, Create, Abort, Approve, Refuse, Dismiss, Tap, Reject, Met,
     vars, connVars, workerVars, resultVars, history
<1>. QED
  BY <1>1, ComputerLines, ReaderLines, WorkerLines DEF Next

\* A step of no worker, which may leave a result for the one that waits.
LEMMA NoWorker ==
    ASSUME BookInv, [Next]_vars, \A c \in Conns : ~Worker(c)
    PROVE  /\ UNCHANGED <<pc, job, mine, outcome, raised, seq>>
           /\ \/ UNCHANGED <<current, result>>
              \/ current' = 0 /\ result' \in {"cancel", "ok", "denied"}
<1>1. CASE Ui \/ User
  BY <1>1 DEF Ui, User, Create, Abort, Approve, Refuse, Dismiss, Tap, Reject, Answer, slotVars,
              workerVars, resultVars, history
<1>2. ASSUME NEW c \in Conns, Computer(c) \/ ReadReq(c) \/ Shutdown(c)
      PROVE  UNCHANGED <<pc, job, mine, outcome, raised, seq, current, result>>
  BY <1>2 DEF Computer, SendReq, SendCancel, Lose, ReadReq, Shutdown, slotVars, workerVars,
              resultVars, history
<1>3. ASSUME NEW c \in Conns, ReadCancel(c) \/ EndStream(c)
      PROVE  /\ UNCHANGED <<pc, job, mine, outcome, raised, seq>>
             /\ \/ UNCHANGED <<current, result>>
                \/ current' = 0 /\ result' = "cancel"
  BY <1>3 DEF ReadCancel, EndStream, Cancel, workerVars, resultVars, history
<1>4. CASE UNCHANGED vars
  BY <1>4 DEF vars, slotVars, workerVars, resultVars, history
<1>. QED
  BY <1>1, <1>2, <1>3, <1>4 DEF Next, Reader

\* What a worker's step does to requests and prompts, c's and the others'.
LEMMA HandStep ==
    ASSUME BookInv, [Next]_vars
    PROVE  InHand'
<1>0. InHand /\ Records /\ Fields /\ Inside
  BY DEF BookInv, IndInv
<1>. USE <1>0
<1>1. CASE \A c \in Conns : ~Worker(c)
  <2>1. UNCHANGED <<pc, job, mine, outcome, raised>> /\ (result # "none" => result' # "none")
    BY <1>1, NoWorker
  <2>2. \A c \in Conns, n \in Numbers \cup {0} : Met(c, n)' <=> Met(c, n)
    BY <2>1 DEF Met
  <2>. QED
    BY <2>1, <2>2 DEF InHand, Records
<1>2. ASSUME NEW c \in Conns, Worker(c)
      PROVE  InHand'
  <2>1. CASE Start(c)
    <3>1. /\ pc' = [pc EXCEPT ![c] = "enter"] /\ job' = [job EXCEPT ![c] = Head(backlog[c])]
          /\ UNCHANGED <<outcome, raised, mine, result>>
      BY <2>1 DEF Start, resultVars, history, slotVars
    <3>2. backlog[c] \in Seq(Numbers) /\ backlog[c] # <<>>
      BY <2>1 DEF Start, Records
    <3>3. Head(backlog[c]) = backlog[c][1] /\ Head(backlog[c]) \in Numbers /\ Len(backlog[c]) \in Nat \ {0}
      BY <3>2, TailFacts
    <3>4. \A n \in Numbers : Met(c, n) => n < backlog[c][1]
      BY <3>3 DEF BookInv, InLine, Ordered
    <3>5. ~Met(c, backlog[c][1])
      BY <3>3, <3>4 DEF Numbers
    <3>6. \A d \in Conns : \A n : Met(d, n)' <=> Met(d, n)
      BY <3>1 DEF Met
    <3>7. backlog[c][1] # 0
      BY <3>3 DEF Numbers
    <3>8. job'[c] = backlog[c][1] /\ \A d \in Conns \ {c} : job'[d] = job[d] /\ pc'[d] = pc[d]
      BY <3>1, <3>3 DEF Records, Fields
    <3>9. pc'[c] = "enter"
      BY <3>1 DEF Fields
    <3>. QED
      BY <3>1, <3>5, <3>6, <3>7, <3>8, <3>9 DEF InHand
  <2>2. CASE EnterAsk(c) \/ Show(c)
    <3>1. UNCHANGED <<job, outcome, raised, mine, result>>
      BY <2>2 DEF EnterAsk, Show, resultVars, history, slotVars
    <3>2. \A d \in Conns : \A n : Met(d, n)' <=> Met(d, n)
      BY <3>1 DEF Met
    <3>. QED
      BY <2>2, <3>1, <3>2 DEF InHand, EnterAsk, Show, Fields
  <2>3. CASE Raise(c)
    <3>1. \A d \in Conns : d # c => pc[d] \notin {"show", "wait"}
      BY <2>3 DEF Raise, Inside
    <3>2. outcome[c][job[c]] = "none" /\ outcome' = outcome /\ job' = job /\ job[c] # 0
      BY <2>3 DEF Raise, InHand, Met, resultVars
    <3>3. \A d \in Conns : d # c => \A n : Met(d, n)' <=> Met(d, n)
      BY <2>3 DEF Raise, Met, resultVars
    <3>4. <<mine'[c], c, job[c]>> \in raised' /\ result' = "timeout" /\ pc'[c] = "show"
      BY <2>3 DEF Raise, Fields
    <3>5. \A d \in Conns : d # c => pc'[d] = pc[d]
      BY <2>3 DEF Raise, Fields
    <3>. QED
      BY <3>1, <3>2, <3>3, <3>4, <3>5 DEF InHand
  <2>4. CASE EnterQuiet(c) \/ Withdrawn(c) \/ Wake(c) \/ Timeout(c)
    <3>1. job[c] \in Numbers /\ UNCHANGED <<job, raised, result>>
      BY <2>4 DEF EnterQuiet, Withdrawn, Wake, Timeout, InHand, Records, slotVars, history
    <3>2. PICK s : s # "none" /\ outcome' = [outcome EXCEPT ![c][job[c]] = s]
      BY <2>4 DEF EnterQuiet, Withdrawn, Wake, Timeout, Leave, Return, InHand
    <3>3. pc' = [pc EXCEPT ![c] = "respond"] /\ \A d \in Conns : d # c => mine'[d] = mine[d]
      BY <2>4 DEF EnterQuiet, Withdrawn, Wake, Timeout, Leave, Return, Fields
    <3>4. outcome'[c][job[c]] # "none" /\ \A d \in Conns : d # c => outcome'[d] = outcome[d]
      BY <3>1, <3>2 DEF Records
    <3>5. \A d \in Conns : d # c => \A n : Met(d, n)' <=> Met(d, n)
      BY <3>1, <3>4 DEF Met
    <3>6. pc'[c] = "respond" /\ \A d \in Conns : d # c => pc'[d] = pc[d]
      BY <3>3 DEF Fields
    <3>7. job[c] # 0
      BY <3>1 DEF Numbers
    <3>. QED
      BY <3>1, <3>3, <3>4, <3>5, <3>6, <3>7 DEF InHand
  <2>5. CASE Respond(c)
    <3>1. UNCHANGED <<outcome, raised, mine, result>>
      BY <2>5 DEF Respond, history, slotVars
    <3>2. \A d \in Conns : \A n : Met(d, n)' <=> Met(d, n)
      BY <3>1 DEF Met
    <3>3. pc'[c] = "idle" /\ \A d \in Conns : d # c => pc'[d] = pc[d] /\ job'[d] = job[d]
      BY <2>5 DEF Respond, Fields, Records
    <3>. QED
      BY <3>1, <3>2, <3>3 DEF InHand
  <2>. QED
    BY <1>2, <2>1, <2>2, <2>3, <2>4, <2>5 DEF Worker
<1>. QED
  BY <1>1, <1>2

LEMMA PromptStep ==
    ASSUME BookInv, [Next]_vars
    PROVE  Prompts'
<1>0. Prompts /\ InHand /\ Records /\ Fields /\ Inside /\ Raised /\ SlotHasWaiter
  BY DEF BookInv, IndInv
<1>. USE <1>0
<1>1. CASE \A c \in Conns : ~Worker(c)
  <2>1. approved' \subseteq 1 .. seq'
    <3>1. approved' = approved \/ (view # None /\ approved' = approved \cup {view.id})
      BY <1>1 DEF Next, Computer, SendReq, SendCancel, Lose, Reader, ReadReq, ReadCancel, EndStream,
         Shutdown, Ui, User, Create, Abort, Approve, Open, Refuse, Dismiss, Tap, Reject, history, vars
    <3>2. view # None => view.id \in 1 .. seq
      BY DEF Fields
    <3>3. approved \subseteq 1 .. seq /\ seq' = seq
      BY <1>1, NoWorker DEF Prompts
    <3>. QED
      BY <3>1, <3>2, <3>3
  <2>. QED
    BY <1>1, <2>1, NoWorker DEF Prompts
<1>2. ASSUME NEW c \in Conns, Worker(c)
      PROVE  Prompts'
  <2>1. CASE Start(c) \/ EnterAsk(c) \/ Show(c) \/ Respond(c)
    <3>1. UNCHANGED <<outcome, raised, mine, seq, current, result, approved>>
      BY <2>1 DEF Start, EnterAsk, Show, Respond, resultVars, history, slotVars
    <3>2. /\ \A d \in Conns : d # c => pc'[d] = pc[d]
          /\ pc[c] \in {"show", "wait"} => pc'[c] \in {"show", "wait"}
      BY <2>1 DEF Start, EnterAsk, Show, Respond, Fields
    <3>3. \A t \in raised : t[2] \in Conns
      BY DEF Records
    <3>. QED
      BY <3>1, <3>2, <3>3 DEF Prompts
  <2>2. CASE Raise(c)
    <3>. DEFINE p == <<seq + 1, c, job[c]>>
    <3>1. raised' = raised \cup {p} /\ seq' = seq + 1 /\ seq \in Nat /\ outcome' = outcome
      BY <2>2 DEF Raise, Fields, resultVars
    <3>2. p[1] = seq + 1 /\ p[2] = c /\ p[3] = job[c]
      OBVIOUS
    <3>3. /\ \A t \in raised : t[1] \in 1 .. seq /\ t[2] \in Conns
          /\ \A t \in raised : ~(t[2] = c /\ t[3] = job[c])
      BY <2>2 DEF Raise, Raised, InHand, Met, Records
    <3>4. pc'[c] = "show" /\ mine'[c] = seq + 1 /\ result' = "timeout"
      BY <2>2 DEF Raise, Fields
    <3>5. /\ pc[c] = "confirm"
          /\ \A d \in Conns : d # c => pc'[d] = pc[d] /\ mine'[d] = mine[d]
      BY <2>2 DEF Raise, Fields
    <3>. HIDE DEF p
    <3>6. \A i \in 1 .. seq' : \E t \in raised' : t[1] = i
      BY <3>1, <3>2 DEF Prompts
    <3>7. \A t, u \in raised' : t[1] = u[1] \/ (t[2] = u[2] /\ t[3] = u[3]) => t = u
      <4>1. \A t \in raised : t[1] # p[1] /\ ~(t[2] = p[2] /\ t[3] = p[3])
        BY <3>1, <3>2, <3>3
      <4>. QED
        BY <3>1, <4>1 DEF Prompts
    <3>8. \A t \in raised' : outcome'[t[2]][t[3]] = "none" =>
            pc'[t[2]] \in {"show", "wait"} /\ t[1] = mine'[t[2]]
      BY <3>1, <3>2, <3>3, <3>4, <3>5 DEF Prompts
    <3>9. approved' \subseteq 1 .. seq'
      BY <2>2, <3>1 DEF Raise, Prompts
    <3>. QED
      BY <3>4, <3>6, <3>7, <3>8, <3>9 DEF Prompts
  <2>3. CASE EnterQuiet(c) \/ Withdrawn(c) \/ Wake(c) \/ Timeout(c)
    <3>1. job[c] \in Numbers /\ UNCHANGED <<raised, seq, approved>>
      BY <2>3 DEF EnterQuiet, Withdrawn, Wake, Timeout, InHand, Records, history
    <3>2. PICK s : s # "none" /\ outcome' = [outcome EXCEPT ![c][job[c]] = s]
      BY <2>3 DEF EnterQuiet, Withdrawn, Wake, Timeout, Leave, Return, InHand
    <3>3. \A d \in Conns : d # c => mine'[d] = mine[d] /\ pc'[d] = pc[d]
      BY <2>3 DEF EnterQuiet, Withdrawn, Wake, Timeout, Leave, Return, Fields
    <3>4. /\ outcome'[c][job[c]] # "none"
          /\ \A d \in Conns, n \in Numbers : d # c \/ n # job[c] => outcome'[d][n] = outcome[d][n]
      BY <3>1, <3>2 DEF Records
    <3>5. \A t \in raised : t[2] = c /\ outcome[c][t[3]] = "none" => t[3] = job[c]
      <4>1. SUFFICES ASSUME NEW t \in raised, t[2] = c, outcome[c][t[3]] = "none"
                     PROVE  t[3] = job[c]
        OBVIOUS
      <4>2. pc[c] \in {"show", "wait"} /\ t[1] = mine[c]
        BY <4>1 DEF Prompts
      <4>3. <<mine[c], c, job[c]>> \in raised
        BY <4>2 DEF InHand
      <4>4. t = <<mine[c], c, job[c]>>
        BY <4>2, <4>3 DEF Prompts
      <4>. QED
        BY <4>4
    <3>6. \A t \in raised : t[2] \in Conns /\ t[3] \in Numbers
      BY DEF Records
    <3>7. \A t \in raised' : outcome'[t[2]][t[3]] = "none" =>
            pc'[t[2]] \in {"show", "wait"} /\ t[1] = mine'[t[2]]
      BY <3>1, <3>3, <3>4, <3>5, <3>6 DEF Prompts
    <3>8. current' # 0 => result' = "timeout"
      BY <2>3 DEF EnterQuiet, Withdrawn, Wake, Timeout, Leave, Offered, slotVars, Prompts
    <3>. QED
      BY <3>1, <3>7, <3>8 DEF Prompts
  <2>. QED
    BY <1>2, <2>1, <2>2, <2>3 DEF Worker
<1>. QED
  BY <1>1, <1>2

\* Withdrawals keep to their own computer on their way.
LEMMA WishStep ==
    ASSUME BookInv, [Next]_vars
    PROVE  OwnWish'
<1>0. OwnWish /\ Records /\ Fields
  BY DEF BookInv, IndInv
<1>. USE <1>0
<1>1. ASSUME NEW c \in Conns, SendReq(c)
      PROVE  OwnWish'
  <2>. DEFINE f == [type |-> "REQ", number |-> sent[c] + 1]
  <2>1. f \in Frames /\ f.type # "CANCEL" /\ wire'[c] = Append(wire[c], f) /\ wire[c] \in Seq(Frames)
    <3>1. sent[c] + 1 \in Numbers
      BY <1>1, PhonePromptAssumption DEF SendReq, Numbers, Records
    <3>. QED
      BY <1>1, <3>1 DEF SendReq, Records, Frames
  <2>2. /\ Len(wire[c]) \in Nat /\ Len(wire'[c]) = Len(wire[c]) + 1
        /\ \A i \in 1 .. Len(wire[c]) : wire'[c][i] = wire[c][i]
        /\ wire'[c][Len(wire[c]) + 1] = f
    BY <2>1, AppendFacts
  <2>3. sent'[c] = sent[c] + 1 /\ sent[c] \in Nat /\ \A d \in Conns \ {c} : sent'[d] = sent[d] /\ wire'[d] = wire[d]
    BY <1>1, PhonePromptAssumption DEF SendReq, Records
  <2>4. UNCHANGED <<recalled, cancelled, closed, stream>>
    BY <1>1 DEF SendReq, flagVars
  <2>. HIDE DEF f
  <2>5. \A i \in 1 .. Len(wire'[c]) : wire'[c][i].type = "CANCEL" => wire'[c][i].number \in recalled[c]
    BY <2>1, <2>2 DEF OwnWish
  <2>6. recalled[c] \subseteq 1 .. sent'[c]
    BY <2>3 DEF OwnWish
  <2>. QED
    BY <2>3, <2>4, <2>5, <2>6 DEF OwnWish
<1>2. ASSUME NEW c \in Conns, NEW n \in Numbers, SendCancel(c, n)
      PROVE  OwnWish'
  <2>. DEFINE f == [type |-> "CANCEL", number |-> n]
  <2>1. f \in Frames /\ f.number = n /\ wire'[c] = Append(wire[c], f) /\ wire[c] \in Seq(Frames)
    BY <1>2 DEF SendCancel, Records, Frames
  <2>2. /\ Len(wire[c]) \in Nat /\ Len(wire'[c]) = Len(wire[c]) + 1
        /\ \A i \in 1 .. Len(wire[c]) : wire'[c][i] = wire[c][i]
        /\ wire'[c][Len(wire[c]) + 1] = f
    BY <2>1, AppendFacts
  <2>3. /\ recalled'[c] = recalled[c] \cup {n} /\ n \in 1 .. sent[c]
        /\ \A d \in Conns \ {c} : recalled'[d] = recalled[d] /\ wire'[d] = wire[d]
    BY <1>2 DEF SendCancel, Records
  <2>4. UNCHANGED <<sent, cancelled, closed, stream>>
    BY <1>2 DEF SendCancel, flagVars
  <2>. HIDE DEF f
  <2>5. \A i \in 1 .. Len(wire'[c]) : wire'[c][i].type = "CANCEL" => wire'[c][i].number \in recalled'[c]
    BY <2>1, <2>2, <2>3 DEF OwnWish
  <2>. QED
    BY <2>3, <2>4, <2>5 DEF OwnWish
<1>3. ASSUME NEW c \in Conns, Lose(c) \/ Shutdown(c)
      PROVE  OwnWish'
  BY <1>3 DEF Lose, Shutdown, flagVars, OwnWish, Records
<1>4. ASSUME NEW c \in Conns, ReadReq(c) \/ ReadCancel(c)
      PROVE  OwnWish'
  <2>1. /\ wire[c] \in Seq(Frames) /\ wire[c] # <<>> /\ wire'[c] = Tail(wire[c])
        /\ \A d \in Conns \ {c} : wire'[d] = wire[d]
        /\ UNCHANGED <<recalled, sent, stream>>
    BY <1>4 DEF ReadReq, ReadCancel, Records
  <2>2. /\ Len(wire[c]) \in Nat \ {0} /\ Head(wire[c]) = wire[c][1]
        /\ Len(Tail(wire[c])) = Len(wire[c]) - 1
        /\ \A i \in 1 .. Len(wire[c]) - 1 : Tail(wire[c])[i] = wire[c][i + 1]
    BY <2>1, TailFacts
  <2>3. \A i \in 1 .. Len(wire'[c]) : wire'[c][i].type = "CANCEL" => wire'[c][i].number \in recalled[c]
    <3>. SUFFICES ASSUME NEW i \in 1 .. Len(wire[c]) - 1, wire[c][i + 1].type = "CANCEL"
                  PROVE  wire[c][i + 1].number \in recalled[c]
      BY <2>1, <2>2
    <3>1. i + 1 \in 1 .. Len(wire[c])
      BY <2>2
    <3>. QED
      BY <3>1 DEF OwnWish
  <2>4. \A d \in Conns : closed'[d] => closed[d]
    BY <1>4 DEF ReadReq, ReadCancel, Cancel, flagVars, Fields
  <2>5. cancelled' = cancelled \/ (cancelled' = [cancelled EXCEPT ![c] = wire[c][1].number] /\ wire[c][1].type = "CANCEL")
    BY <1>4, <2>2 DEF ReadReq, ReadCancel, Cancel, flagVars
  <2>6. wire[c][1].type = "CANCEL" => wire[c][1].number \in recalled[c]
    BY <2>2 DEF OwnWish
  <2>7. \A d \in Conns : cancelled'[d] # 0 => cancelled'[d] \in recalled[d]
    BY <2>5, <2>6 DEF OwnWish, Records
  <2>. QED
    BY <2>1, <2>3, <2>4, <2>7 DEF OwnWish
<1>5. ASSUME NEW c \in Conns, EndStream(c)
      PROVE  OwnWish'
  <2>1. stream'[c] = "ending" /\ cancelled'[c] = 0
    BY <1>5 DEF EndStream, Cancel, Records
  <2>2. \A d \in Conns \ {c} : stream'[d] = stream[d] /\ cancelled'[d] = cancelled[d] /\ closed'[d] = closed[d]
    BY <1>5 DEF EndStream, Cancel, Records, Fields
  <2>3. UNCHANGED <<recalled, sent, wire>>
    BY <1>5 DEF EndStream
  <2>. QED
    BY <2>1, <2>2, <2>3 DEF OwnWish
<1>6. ASSUME UNCHANGED <<recalled, sent, wire, cancelled, closed, stream>>
      PROVE  OwnWish'
  BY <1>6 DEF OwnWish
<1>7. ASSUME NEW c \in Conns, Worker(c)
      PROVE  OwnWish'
  BY <1>6, <1>7 DEF Worker, Start, EnterQuiet, EnterAsk, Raise, Withdrawn, Show, Wake, Timeout,
     Respond, connVars, flagVars
<1>8. CASE Ui \/ User \/ UNCHANGED vars
  BY <1>6, <1>8 DEF Ui, User, Create, Abort, Approve, Refuse, Dismiss, Tap, Reject, connVars,
     flagVars, vars
<1>. QED
  BY <1>1, <1>2, <1>3, <1>4, <1>5, <1>7, <1>8 DEF Next, Computer, Reader

LEMMA BookStep == BookInv /\ [Next]_vars => BookInv'
<1>1. IndInv /\ [Next]_vars => IndInv'
  BY StepKeeps
<1>. QED
  BY <1>1, RecordsStep, LineStep, HandStep, WishStep, PromptStep DEF BookInv

LEMMA BookInvariance == Spec => []BookInv
  BY BookInit, BookStep, PTL DEF Spec

-----------------------------------------------------------------------------
(* The book in plain terms: what is on offer, and how each request stands. *)

\* The worker of c has n in hand, whose prompt has left the slot.
Decided(c, n) == n = job[c] /\ pc[c] \in {"show", "wait"} /\ current = 0

Standing(c, n) ==
    IF outcome[c][n] # "none" THEN outcome[c][n]
    ELSE IF Decided(c, n) THEN result ELSE "none"

InPlainTerms ==
    /\ current = 0 => Offer = None
    /\ current # 0 => /\ Offer = <<owner, ownerSeq>> /\ owner \in Conns /\ ownerSeq \in Numbers
                      /\ pc[owner] \in {"show", "wait"} /\ ownerSeq = job[owner]
                      /\ outcome[owner][ownerSeq] = "none"
                      /\ <<current, owner, ownerSeq>> \in raised
    /\ \A c \in Conns, n \in Numbers : Verdicts[<<c, n>>] = Standing(c, n)

LEMMA PlainTerms == BookInv => InPlainTerms
<1>. SUFFICES ASSUME BookInv
              PROVE  InPlainTerms
  OBVIOUS
<1>0. /\ Records /\ InHand /\ Prompts /\ Fields /\ Inside /\ SlotHasWaiter /\ Raised
  BY DEF BookInv, IndInv
<1>. USE <1>0
<1>1. current = 0 => Offer = None
  <2>1. \A t \in raised : t[1] # 0
    BY DEF Raised, Fields
  <2>2. current = 0 => OnOffer = {}
    BY <2>1 DEF OnOffer
  <2>. QED
    BY <2>2 DEF Offer
<1>2. ASSUME current # 0
      PROVE  /\ Offer = <<owner, ownerSeq>> /\ owner \in Conns /\ ownerSeq \in Numbers
             /\ pc[owner] \in {"show", "wait"} /\ ownerSeq = job[owner]
             /\ outcome[owner][ownerSeq] = "none"
             /\ <<current, owner, ownerSeq>> \in raised
  <2>1. /\ owner = monitor /\ owner \in Conns /\ pc[owner] \in {"show", "wait"}
        /\ mine[owner] = current /\ ownerSeq = job[owner]
    BY <1>2 DEF SlotHasWaiter
  <2>2. <<current, owner, ownerSeq>> \in raised /\ outcome[owner][ownerSeq] = "none"
    BY <2>1 DEF InHand
  <2>3. ownerSeq \in Numbers
    BY <2>1 DEF InHand, Records
  <2>4. \A t \in raised : t[1] = current => t[2] = owner /\ t[3] = ownerSeq
    BY DEF Raised
  <2>5. OnOffer = {<<owner, ownerSeq>>}
    BY <2>2, <2>4 DEF OnOffer
  <2>6. Offer = <<owner, ownerSeq>>
    BY <2>5 DEF Offer
  <2>. QED
    BY <2>1, <2>2, <2>3, <2>6
<1>3. ASSUME NEW c \in Conns, NEW n \in Numbers
      PROVE  Verdicts[<<c, n>>] = Standing(c, n)
  <2>1. <<c, n>> \in Requests /\ Verdicts[<<c, n>>] = Verdict(<<c, n>>)
    BY DEF Requests, Verdicts
  <2>2. CASE outcome[c][n] # "none"
    BY <2>1, <2>2 DEF Verdict, Standing
  <2>3. CASE outcome[c][n] = "none"
    <3>1. ASSUME NEW t \in raised, t[2] = c, t[3] = n, t[1] # current
          PROVE  Decided(c, n)
      <4>1. pc[c] \in {"show", "wait"} /\ t[1] = mine[c]
        BY <2>3, <3>1 DEF Prompts
      <4>2. <<mine[c], c, job[c]>> \in raised
        BY <4>1 DEF InHand
      <4>3. t = <<mine[c], c, job[c]>>
        BY <4>1, <4>2 DEF Prompts
      <4>4. n = job[c]
        BY <3>1, <4>3
      <4>5. monitor = c
        BY <4>1 DEF Inside
      <4>6. current = 0
        BY <3>1, <4>1, <4>5 DEF SlotHasWaiter
      <4>. QED
        BY <4>1, <4>4, <4>6 DEF Decided
    <3>2. ASSUME Decided(c, n)
          PROVE  \E t \in raised : t[2] = c /\ t[3] = n /\ t[1] # current
      <4>1. <<mine[c], c, job[c]>> \in raised /\ mine[c] # 0
        BY <3>2 DEF Decided, InHand, Inside, Fields
      <4>. QED
        BY <3>2, <4>1 DEF Decided
    <3>3. Verdict(<<c, n>>) = IF \E t \in raised : t[2] = c /\ t[3] = n /\ t[1] # current
                                THEN result ELSE "none"
      BY <2>3 DEF Verdict
    <3>. QED
      BY <2>1, <2>3, <3>1, <3>2, <3>3 DEF Standing
  <2>. QED
    BY <2>2, <2>3
<1>. QED
  BY <1>1, <1>2, <1>3 DEF InPlainTerms

LEMMA PlainTermsNext == BookInv' => InPlainTerms'
  BY PlainTerms, PTL

\* What leaves each column of the book as it is.
LEMMA Columns ==
    /\ sent' = sent => Asked' = Asked
    /\ recalled' = recalled => Recalled' = Recalled
    /\ stream' = stream => Lost' = Lost
    /\ answered' = answered => Reported' = Reported
    /\ UNCHANGED <<raised, approved>> => Blessed' = Blessed
    /\ UNCHANGED <<raised, current>> => Offer' = Offer
  BY DEF Asked, Recalled, Lost, Reported, Blessed, Offer, OnOffer

\* The verdicts of two states are compared request by request.
LEMMA SameVerdicts ==
    ASSUME InPlainTerms, InPlainTerms',
           \A c \in Conns, n \in Numbers : Standing(c, n)' = Standing(c, n)
    PROVE  Verdicts' = Verdicts
<1>1. \A r \in Requests : Verdicts'[r] = Verdicts[r]
  BY DEF InPlainTerms, Requests
<1>. QED
  BY <1>1 DEF Verdicts

LEMMA OneVerdict ==
    ASSUME InPlainTerms, InPlainTerms', NEW c \in Conns, NEW m \in Numbers, NEW v,
           Standing(c, m)' = v,
           \A d \in Conns, n \in Numbers : d # c \/ n # m => Standing(d, n)' = Standing(d, n)
    PROVE  Verdicts' = [Verdicts EXCEPT ![<<c, m>>] = v]
<1>1. \A r \in Requests : Verdicts'[r] = IF r = <<c, m>> THEN v ELSE Verdicts[r]
  BY DEF InPlainTerms, Requests
<1>. QED
  BY <1>1 DEF Verdicts

-----------------------------------------------------------------------------
(* Every step of the phone is a step of the book, or none.                 *)

Both == BookInv /\ BookInv' /\ InPlainTerms /\ InPlainTerms'

Maps == Book!Next \/ UNCHANGED Book!vars

\* What only moves a request along is not in the book.
LEMMA UnseenSteps ==
    ASSUME Both,
           UNCHANGED <<sent, recalled, answered, raised, approved, current, outcome, Lost>>,
           \A c \in Conns, n \in Numbers : Standing(c, n)' = Standing(c, n)
    PROVE  Maps
<1>1. Verdicts' = Verdicts
  BY SameVerdicts DEF Both
<1>. QED
  BY <1>1, Columns DEF Maps, Book!vars

LEMMA ComputerMaps ==
    ASSUME Both, NEW c \in Conns, Computer(c)
    PROVE  Maps
<1>. USE DEF Both
<1>0. Records /\ OwnWish
  BY DEF BookInv
<1>. USE <1>0
<1>1. Verdicts' = Verdicts /\ UNCHANGED <<Offer, Blessed, Reported>>
  <2>1. UNCHANGED <<answered, raised, approved, current, outcome, pc, job, result>>
    BY DEF Computer, SendReq, SendCancel, Lose, resultVars, history, slotVars, workerVars
  <2>2. Verdicts' = Verdicts
    BY <2>1, SameVerdicts DEF Standing, Decided
  <2>. QED
    BY <2>1, <2>2, Columns
<1>2. CASE SendReq(c)
  <2>. DEFINE r == <<c, sent[c] + 1>>
  <2>1. sent[c] \in Nat /\ sent[c] + 1 \in Numbers /\ r \in Requests
    BY <1>2, PhonePromptAssumption DEF SendReq, Records, Numbers, Requests
  <2>2. r[1] = c /\ r[2] = sent[c] + 1
    OBVIOUS
  <2>3. r \notin Asked /\ c \notin Lost
    BY <1>2, <2>1, <2>2 DEF SendReq, Asked, Lost
  <2>4. sent' = [sent EXCEPT ![c] = sent[c] + 1] /\ UNCHANGED <<recalled, stream>>
    BY <1>2 DEF SendReq
  <2>5. Asked' = Asked \cup {r}
    <3>1. \A q \in Requests : q[2] <= sent'[q[1]] <=> q[2] <= sent[q[1]] \/ q = r
      <4>. SUFFICES ASSUME NEW d \in Conns, NEW n \in Numbers
                    PROVE  n <= sent'[d] <=> n <= sent[d] \/ <<d, n>> = r
        BY DEF Requests
      <4>1. CASE d = c
        BY <2>1, <2>4, <4>1 DEF Records, Numbers
      <4>2. CASE d # c
        BY <2>2, <2>4, <4>2 DEF Records
      <4>. QED
        BY <4>1, <4>2
    <3>. QED
      BY <2>1, <3>1 DEF Asked
  <2>6. Book!Ask(r)
    BY <1>1, <2>2, <2>3, <2>4, <2>5, Columns DEF Book!Ask
  <2>. QED
    BY <2>1, <2>6 DEF Maps, Book!Next
<1>3. ASSUME NEW n \in Numbers, SendCancel(c, n)
      PROVE  Maps
  <2>. DEFINE r == <<c, n>>
  <2>1. r \in Requests /\ r[1] = c /\ r[2] = n
    BY DEF Requests
  <2>2. r \in Asked /\ c \notin Lost
    BY <1>3, <2>1, PhonePromptAssumption DEF SendCancel, Asked, Lost, Records
  <2>3. recalled' = [recalled EXCEPT ![c] = recalled[c] \cup {n}] /\ UNCHANGED <<sent, stream>>
    BY <1>3 DEF SendCancel
  <2>4. Recalled' = Recalled \cup {r}
    <3>1. \A d \in Conns, m \in Numbers : m \in recalled'[d] <=> m \in recalled[d] \/ <<d, m>> = r
      BY <2>3 DEF Records
    <3>. QED
      BY <2>1, <3>1 DEF Recalled, Requests
  <2>5. Book!Recall(r)
    BY <1>1, <2>1, <2>2, <2>3, <2>4, Columns DEF Book!Recall
  <2>. QED
    BY <2>1, <2>5 DEF Maps, Book!Next
<1>4. CASE Lose(c)
  <2>1. stream' = [stream EXCEPT ![c] = "lost"] /\ UNCHANGED <<sent, recalled>>
    BY <1>4 DEF Lose
  <2>2. Lost' = Lost \cup {c}
    BY <2>1 DEF Lost, Records
  <2>3. Book!Lose(c)
    BY <1>1, <2>1, <2>2, Columns DEF Book!Lose
  <2>. QED
    BY <2>3 DEF Maps, Book!Next
<1>. QED
  BY <1>2, <1>3, <1>4 DEF Computer

\* The prompt on offer is settled by v, and the slot is empty.
LEMMA SettledOffer ==
    ASSUME Both, NEW v, v # "none", current # 0, current' = 0, UNCHANGED raised,
           NEW c \in Conns, NEW m \in Numbers, owner = c, ownerSeq = m,
           \/ result' = v /\ UNCHANGED <<outcome, pc, job>>
           \/ /\ outcome' = [outcome EXCEPT ![c][m] = v]
              /\ pc' = [pc EXCEPT ![c] = "respond"] /\ job' = job
    PROVE  /\ Offer = <<c, m>> /\ Offer' = None /\ <<c, m>> \in Requests /\ <<c, m>> \in Asked
           /\ Verdicts[<<c, m>>] = "none" /\ Verdicts' = [Verdicts EXCEPT ![<<c, m>>] = v]
<1>. USE DEF Both
<1>0. Records /\ Fields /\ Inside /\ SlotHasWaiter
  BY DEF BookInv, IndInv
<1>. USE <1>0
<1>1. /\ Offer = <<c, m>> /\ Offer' = None
      /\ pc[c] \in {"show", "wait"} /\ m = job[c]
      /\ outcome[c][m] = "none"
      /\ \A d \in Conns, n \in Numbers : Verdicts[<<d, n>>] = Standing(d, n)
  BY DEF InPlainTerms
<1>2. <<c, m>> \in Requests
  BY DEF Requests
<1>3. m <= sent[c]
  BY <1>1 DEF BookInv, InLine, Ordered
<1>4. Verdicts[<<c, m>>] = "none"
  BY <1>1 DEF Standing, Decided
<1>5. Standing(c, m)' = v
  <2>1. CASE result' = v /\ UNCHANGED <<outcome, pc, job>>
    BY <1>1, <2>1 DEF Standing, Decided
  <2>2. CASE outcome' = [outcome EXCEPT ![c][m] = v]
    <3>1. outcome'[c][m] = v
      BY <2>2 DEF Records
    <3>. QED
      BY <3>1 DEF Standing
  <2>. QED
    BY <2>1, <2>2
<1>6. \A d \in Conns : d # c => pc[d] \notin {"show", "wait"} /\ pc'[d] = pc[d]
  BY <1>1 DEF SlotHasWaiter, Inside, Fields
<1>7. \A d \in Conns, n \in Numbers : d # c \/ n # m => Standing(d, n)' = Standing(d, n)
  <2>. SUFFICES ASSUME NEW d \in Conns, NEW n \in Numbers, d # c \/ n # m
                PROVE  Standing(d, n)' = Standing(d, n)
    OBVIOUS
  <2>1. outcome'[d][n] = outcome[d][n] /\ job'[d] = job[d]
    BY DEF Records
  <2>2. ~Decided(d, n)
    BY DEF Decided
  <2>3. ~Decided(d, n)'
    BY <1>1, <1>6, <2>1 DEF Decided
  <2>. QED
    BY <2>1, <2>2, <2>3 DEF Standing
<1>8. Verdicts' = [Verdicts EXCEPT ![<<c, m>>] = v]
  BY <1>5, <1>7, OneVerdict
<1>9. <<c, m>> \in Asked
  BY <1>2, <1>3 DEF Asked
<1>. QED
  BY <1>1, <1>2, <1>4, <1>8, <1>9

\* The same for a request without a prompt, settled where handle returns.
LEMMA SettledUnasked ==
    ASSUME Both, NEW v \in {"quiet", "cancel"}, UNCHANGED <<raised, current>>,
           NEW c \in Conns, NEW m \in Numbers, job[c] = m, pc[c] \in {"enter", "confirm"},
           monitor \in {None, c}, job' = job,
           outcome' = [outcome EXCEPT ![c][m] = v], pc' = [pc EXCEPT ![c] = "respond"]
    PROVE  /\ Offer = None /\ Offer' = None /\ <<c, m>> \in Requests /\ <<c, m>> \in Asked
           /\ Verdicts[<<c, m>>] = "none" /\ Verdicts' = [Verdicts EXCEPT ![<<c, m>>] = v]
<1>. USE DEF Both
<1>0. Records /\ Fields /\ Inside /\ SlotHasWaiter /\ InHand
  BY DEF BookInv, IndInv
<1>. USE <1>0, PhonePromptAssumption
<1>1. current = 0 /\ \A d \in Conns : pc[d] \notin {"show", "wait"}
  BY DEF SlotHasWaiter, Inside
<1>2. /\ Offer = None /\ Offer' = None
      /\ \A d \in Conns, n \in Numbers : Verdicts[<<d, n>>] = Standing(d, n)
  BY <1>1 DEF InPlainTerms
<1>3. <<c, m>> \in Requests /\ m <= sent[c]
  BY DEF Requests, BookInv, InLine, Ordered
<1>4. outcome[c][m] = "none"
  BY DEF InHand, Met
<1>5. Verdicts[<<c, m>>] = "none"
  BY <1>1, <1>2, <1>4 DEF Standing, Decided
<1>6. outcome'[c][m] = v /\ \A d \in Conns, n \in Numbers : d # c \/ n # m => outcome'[d][n] = outcome[d][n]
  BY DEF Records
<1>7. \A d \in Conns : pc'[d] \notin {"show", "wait"}
  BY <1>1 DEF Fields
<1>8. Standing(c, m)' = v
  BY <1>6 DEF Standing
<1>9. \A d \in Conns, n \in Numbers : d # c \/ n # m => Standing(d, n)' = Standing(d, n)
  BY <1>1, <1>6, <1>7 DEF Standing, Decided
<1>10. Verdicts' = [Verdicts EXCEPT ![<<c, m>>] = v]
  BY <1>8, <1>9, OneVerdict
<1>11. <<c, m>> \in Asked
  BY <1>3 DEF Asked
<1>. QED
  BY <1>2, <1>3, <1>5, <1>10, <1>11

LEMMA ReaderMaps ==
    ASSUME Both, NEW c \in Conns, Reader(c)
    PROVE  Maps
<1>. USE DEF Both
<1>0. Records /\ OwnWish /\ SlotHasWaiter
  BY DEF BookInv, IndInv
<1>. USE <1>0
<1>1. /\ UNCHANGED <<sent, recalled, answered, raised, approved, outcome, pc, job>>
      /\ Lost' = Lost
  <2>1. UNCHANGED <<sent, recalled, answered, raised, approved, outcome, pc, job>>
    BY DEF Reader, ReadReq, ReadCancel, EndStream, Shutdown, workerVars, resultVars, history
  <2>2. \A d \in Conns : stream'[d] = "open" <=> stream[d] = "open"
    BY DEF Reader, ReadReq, ReadCancel, EndStream, Shutdown, Records
  <2>. QED
    BY <2>1, <2>2 DEF Lost
<1>2. UNCHANGED <<Asked, Recalled, Lost, Blessed, Reported>>
  BY <1>1, Columns
<1>3. ASSUME UNCHANGED <<current, result>>
      PROVE  Maps
  BY <1>1, <1>3, UnseenSteps DEF Standing, Decided
<1>4. ASSUME NEW n, NEW closing \in BOOLEAN, Cancel(c, n, closing),
             \/ closing = FALSE /\ n \in recalled[c]
             \/ closing = TRUE /\ c \in Lost
      PROVE  Maps
  <2>1. CASE ~OwnPrompt(c, n, closing)
    BY <1>3, <1>4, <2>1 DEF Cancel
  <2>2. CASE OwnPrompt(c, n, closing)
    <3>1. /\ current # 0 /\ owner = c /\ current' = 0 /\ result' = "cancel"
          /\ closing = FALSE => ownerSeq = n
      BY <1>4, <2>2 DEF Cancel, OwnPrompt
    <3>2. PICK m \in Numbers : m = ownerSeq
      BY <3>1 DEF InPlainTerms
    <3>. DEFINE r == <<c, m>>
    <3>3. /\ Offer = r /\ Offer' = None /\ r \in Requests /\ r \in Asked
          /\ Verdicts[r] = "none" /\ Verdicts' = [Verdicts EXCEPT ![r] = "cancel"]
      BY <1>1, <3>1, <3>2, SettledOffer
    <3>4. r \in Recalled \/ (r \in Asked /\ r[1] \in Lost)
      BY <1>4, <3>1, <3>2, <3>3 DEF Recalled
    <3>5. Book!Withdraw(r)
      BY <1>2, <3>3, <3>4 DEF Book!Withdraw, Book!Settle, Book!Undecided
    <3>. QED
      BY <3>3, <3>5 DEF Maps, Book!Next
  <2>. QED
    BY <2>1, <2>2
<1>5. CASE ReadReq(c) \/ Shutdown(c)
  BY <1>3, <1>5 DEF ReadReq, Shutdown, slotVars
<1>6. CASE ReadCancel(c)
  <2>1. PICK n : n = Head(wire[c]).number
    OBVIOUS
  <2>2. n \in recalled[c]
    <3>1. wire[c] \in Seq(Frames) /\ wire[c] # <<>> /\ Head(wire[c]).type = "CANCEL"
      BY <1>6 DEF ReadCancel, Records
    <3>2. Len(wire[c]) \in Nat \ {0} /\ Head(wire[c]) = wire[c][1]
      BY <3>1, TailFacts
    <3>. QED
      BY <2>1, <3>1, <3>2 DEF OwnWish
  <2>3. Cancel(c, n, FALSE) /\ FALSE \in BOOLEAN
    BY <1>6, <2>1 DEF ReadCancel
  <2>. QED
    BY <1>4, <2>2, <2>3
<1>7. CASE EndStream(c)
  <2>1. c \in Lost /\ Cancel(c, 0, TRUE) /\ TRUE \in BOOLEAN
    BY <1>7 DEF EndStream, Lost
  <2>. QED
    BY <1>4, <2>1
<1>. QED
  BY <1>5, <1>6, <1>7 DEF Reader

LEMMA WorkerMaps ==
    ASSUME Both, NEW c \in Conns, Worker(c)
    PROVE  Maps
<1>. USE DEF Both
<1>0. Records /\ OwnWish /\ InHand /\ Prompts /\ Fields /\ Inside /\ SlotHasWaiter
  BY DEF BookInv, IndInv
<1>. USE <1>0, PhonePromptAssumption
<1>1. UNCHANGED <<Asked, Recalled, Lost>>
  <2>1. UNCHANGED connVars
    BY DEF Worker, Start, EnterQuiet, EnterAsk, Raise, Withdrawn, Show, Wake, Timeout, Respond
  <2>. QED
    BY <2>1, Columns DEF connVars
<1>2. UNCHANGED <<sent, recalled>>
  BY DEF Worker, Start, EnterQuiet, EnterAsk, Raise, Withdrawn, Show, Wake, Timeout, Respond, connVars
<1>3. CASE Start(c) \/ EnterAsk(c) \/ Show(c)
  <2>1. UNCHANGED <<answered, raised, approved, current, outcome, result>>
    BY <1>3 DEF Start, EnterAsk, Show, resultVars, history, slotVars
  <2>2. /\ \A d \in Conns : d # c => pc'[d] = pc[d] /\ job'[d] = job[d]
        /\ \/ job' = job /\ (pc[c] \in {"show", "wait"} <=> pc'[c] \in {"show", "wait"})
           \/ pc[c] = "idle" /\ pc'[c] = "enter"
    BY <1>3 DEF Start, EnterAsk, Show, Records, Fields
  <2>3. \A d \in Conns, n \in Numbers : Standing(d, n)' = Standing(d, n)
    BY <2>1, <2>2 DEF Standing, Decided
  <2>. QED
    BY <1>1, <1>2, <2>1, <2>3, UnseenSteps
<1>4. CASE EnterQuiet(c) \/ Withdrawn(c)
  <2>1. PICK m \in Numbers : m = job[c]
    BY <1>4 DEF EnterQuiet, Withdrawn, InHand, Records
  <2>. DEFINE r == <<c, m>>
  <2>2. PICK v \in {"quiet", "cancel"} :
          /\ outcome' = [outcome EXCEPT ![c][m] = v] /\ pc' = [pc EXCEPT ![c] = "respond"]
          /\ v = "quiet" <=> EnterQuiet(c)
    BY <1>4, <2>1 DEF EnterQuiet, Withdrawn, Return
  <2>3. /\ UNCHANGED <<raised, approved, answered, current, job>> /\ monitor \in {None, c}
        /\ pc[c] \in {"enter", "confirm"}
    BY <1>4 DEF EnterQuiet, Withdrawn, Inside, slotVars, history
  <2>4. /\ Offer = None /\ Offer' = None /\ r \in Requests /\ r \in Asked
        /\ Verdicts[r] = "none" /\ Verdicts' = [Verdicts EXCEPT ![r] = v]
    <3>. HIDE <1>0, PhonePromptAssumption
    <3>1. job[c] = m /\ job' = job /\ UNCHANGED <<raised, current>>
      BY <2>1, <2>2, <2>3
    <3>2. outcome' = [outcome EXCEPT ![c][m] = v] /\ pc' = [pc EXCEPT ![c] = "respond"]
      BY <2>2
    <3>3. monitor \in {None, c} /\ pc[c] \in {"enter", "confirm"}
      BY <2>3
    <3>4. CASE v = "quiet"
      <4>1. outcome' = [outcome EXCEPT ![c][m] = "quiet"]
        BY <3>2, <3>4
      <4>. QED
        BY <3>1, <3>2, <3>3, <3>4, <4>1, SettledUnasked
    <3>5. CASE v = "cancel"
      <4>1. outcome' = [outcome EXCEPT ![c][m] = "cancel"]
        BY <3>2, <3>5
      <4>. QED
        BY <3>1, <3>2, <3>3, <3>5, <4>1, SettledUnasked
    <3>. QED
      BY <3>4, <3>5
  <2>5. UNCHANGED <<Blessed, Reported>>
    BY <2>3, Columns
  <2>6. None \notin Requests
    BY DEF Requests, Numbers
  <2>7. CASE v = "quiet"
    <3>1. Book!Quiet(r)
      BY <1>1, <2>4, <2>5, <2>6, <2>7 DEF Book!Quiet, Book!Settle, Book!Undecided
    <3>. QED
      BY <2>4, <3>1 DEF Maps, Book!Next
  <2>8. CASE v = "cancel"
    <3>1. TooLate(c)
      BY <1>4, <2>2, <2>8 DEF Withdrawn
    <3>2. closed[c] => c \in Lost
      BY DEF OwnWish, Lost
    <3>3. cancelled[c] = m => m \in recalled[c]
      BY DEF OwnWish, Numbers
    <3>4. r \in Recalled \/ (r \in Asked /\ r[1] \in Lost)
      BY <2>1, <2>4, <3>1, <3>2, <3>3 DEF TooLate, Recalled
    <3>5. Book!Withdraw(r)
      BY <1>1, <2>4, <2>5, <2>8, <3>4 DEF Book!Withdraw, Book!Settle, Book!Undecided
    <3>. QED
      BY <2>4, <3>5 DEF Maps, Book!Next
  <2>. QED
    BY <2>2, <2>7, <2>8
<1>5. CASE Raise(c)
  <2>1. PICK m \in Numbers : m = job[c]
    BY <1>5 DEF Raise, InHand, Records
  <2>. DEFINE r == <<c, m>>
  <2>2. current = 0 /\ current' # 0 /\ owner' = c /\ ownerSeq' = m
    BY <1>5, <2>1 DEF Raise, Fields, Inside, SlotHasWaiter
  <2>3. Offer = None /\ Offer' = r
    BY <2>2 DEF InPlainTerms
  <2>4. ~Met(c, m) /\ outcome' = outcome /\ job' = job /\ UNCHANGED <<approved, answered>>
    BY <1>5, <2>1 DEF Raise, InHand, resultVars
  <2>5. \A d \in Conns : pc[d] \notin {"show", "wait"}
    BY <1>5 DEF Raise, Inside
  <2>6. Verdicts' = Verdicts
    BY <2>2, <2>4, <2>5, SameVerdicts DEF Standing, Decided
  <2>7. r \in Requests /\ r \in Asked /\ Verdicts[r] = "none"
    <3>1. r \in Requests /\ m <= sent[c]
      BY <2>1 DEF Requests, BookInv, InLine, Ordered
    <3>2. Verdicts[r] = Standing(c, m)
      BY DEF InPlainTerms
    <3>. QED
      BY <2>4, <2>5, <3>1, <3>2 DEF Standing, Decided, Met, Asked
  <2>8. Blessed' = Blessed
    <3>1. raised' = raised \cup {<<seq + 1, c, m>>} /\ seq + 1 \notin approved
      BY <1>5, <2>1 DEF Raise, Prompts, Fields
    <3>. QED
      BY <2>4, <3>1 DEF Blessed
  <2>9. Book!Offer(r)
    BY <1>1, <2>3, <2>4, <2>6, <2>7, <2>8, Columns DEF Book!Offer, Book!Undecided
  <2>. QED
    BY <2>7, <2>9 DEF Maps, Book!Next
<1>6. CASE Wake(c) \/ Timeout(c)
  <2>1. PICK m \in Numbers : m = job[c]
    BY <1>6 DEF Wake, Timeout, InHand, Records
  <2>2. /\ outcome' = [outcome EXCEPT ![c][m] = result] /\ pc' = [pc EXCEPT ![c] = "respond"]
        /\ UNCHANGED <<job, raised, approved, answered, result>> /\ current' = 0 /\ pc[c] = "wait"
    BY <1>6, <2>1 DEF Wake, Timeout, Leave, Return, Offered, history, SlotHasWaiter, Inside
  <2>3. outcome[c][m] = "none" /\ result # "none"
    BY <2>1, <2>2 DEF InHand
  <2>4. CASE current = 0
    <3>1. outcome'[c][m] = result /\ \A d \in Conns, n \in Numbers : d # c \/ n # m => outcome'[d][n] = outcome[d][n]
      BY <2>2 DEF Records
    <3>2. \A d \in Conns : d # c => pc[d] \notin {"show", "wait"} /\ pc'[d] = pc[d]
      BY <2>2 DEF Inside, Fields
    <3>3. \A d \in Conns, n \in Numbers : Standing(d, n)' = Standing(d, n)
      <4>. SUFFICES ASSUME NEW d \in Conns, NEW n \in Numbers
                    PROVE  Standing(d, n)' = Standing(d, n)
        OBVIOUS
      <4>1. CASE d = c /\ n = m
        BY <2>1, <2>2, <2>3, <2>4, <3>1, <4>1 DEF Standing, Decided
      <4>2. CASE d # c \/ n # m
        <5>1. ~Decided(d, n)
          BY <2>1, <3>2, <4>2 DEF Decided
        <5>2. ~Decided(d, n)'
          BY <2>1, <2>2, <3>2, <4>2 DEF Decided
        <5>. QED
          BY <3>1, <4>2, <5>1, <5>2 DEF Standing
      <4>. QED
        BY <4>1, <4>2
    <3>4. Verdicts' = Verdicts
      BY <3>3, SameVerdicts
    <3>5. UNCHANGED <<Offer, Blessed, Reported>>
      BY <2>2, <2>4, Columns
    <3>. QED
      BY <1>1, <3>4, <3>5 DEF Maps, Book!vars
  <2>5. CASE current # 0
    <3>1. owner = c /\ ownerSeq = m /\ result = "timeout"
      BY <2>1, <2>2, <2>5 DEF SlotHasWaiter, Inside, Prompts
    <3>2. outcome' = [outcome EXCEPT ![c][m] = "timeout"]
      BY <2>2, <3>1
    <3>3. /\ Offer = <<c, m>> /\ Offer' = None /\ <<c, m>> \in Requests
          /\ Verdicts[<<c, m>>] = "none" /\ Verdicts' = [Verdicts EXCEPT ![<<c, m>>] = "timeout"]
      BY <2>2, <2>5, <3>1, <3>2, SettledOffer
    <3>4. UNCHANGED <<Blessed, Reported>>
      BY <2>2, Columns
    <3>5. None \notin Requests
      BY DEF Requests, Numbers
    <3>6. Book!Decline("timeout")
      BY <1>1, <3>3, <3>4, <3>5 DEF Book!Decline, Book!Settle, Book!Undecided
    <3>. QED
      BY <3>6 DEF Maps, Book!Next
  <2>. QED
    BY <2>4, <2>5
<1>7. CASE Respond(c)
  <2>1. PICK m \in Numbers : m = job[c]
    BY <1>7 DEF Respond, InHand, Records
  <2>. DEFINE r == <<c, m>>
  <2>2. /\ UNCHANGED <<raised, approved, outcome, current, result>>
        /\ pc[c] = "respond" /\ pc' = [pc EXCEPT ![c] = "idle"] /\ job' = [job EXCEPT ![c] = 0]
        /\ answered' = [answered EXCEPT ![c] = IF stream[c] = "open" THEN answered[c] \cup {m} ELSE answered[c]]
    BY <1>7, <2>1 DEF Respond, slotVars, history
  <2>3. \A d \in Conns, n \in Numbers : Standing(d, n)' = Standing(d, n)
    BY <2>2 DEF Standing, Decided, Fields, Records
  <2>4. Verdicts' = Verdicts /\ UNCHANGED <<Offer, Blessed>>
    BY <2>2, <2>3, SameVerdicts, Columns
  <2>5. CASE stream[c] # "open"
    <3>1. answered' = answered
      BY <2>2, <2>5 DEF Records
    <3>. QED
      BY <1>1, <2>4, <3>1, Columns DEF Maps, Book!vars
  <2>6. CASE stream[c] = "open"
    <3>1. r \in Requests /\ r[1] \notin Lost
      BY <2>6 DEF Requests, Lost
    <3>2. Verdicts[r] # "none"
      <4>1. Verdicts[r] = Standing(c, m)
        BY DEF InPlainTerms
      <4>. QED
        BY <2>1, <2>2, <4>1 DEF Standing, InHand
    <3>3. Reported' = Reported \cup {r}
      <4>1. \A d \in Conns, n \in Numbers : n \in answered'[d] <=> n \in answered[d] \/ <<d, n>> = r
        BY <2>2, <2>6 DEF Records
      <4>. QED
        BY <3>1, <4>1 DEF Reported, Requests
    <3>4. Book!Report(r)
      BY <1>1, <2>4, <3>1, <3>2, <3>3 DEF Book!Report, Book!Undecided
    <3>. QED
      BY <3>1, <3>4 DEF Maps, Book!Next
  <2>. QED
    BY <2>5, <2>6
<1>. QED
  BY <1>3, <1>4, <1>5, <1>6, <1>7 DEF Worker

\* An answer to prompt i settles what is on offer, if that is i's.
LEMMA AnswerMaps ==
    ASSUME Both, NEW i, NEW v \in {"ok", "denied"}, Answer(i, v), i # 0,
           UNCHANGED <<connVars, pc, job, outcome, answered, raised>>
    PROVE  /\ UNCHANGED <<Asked, Recalled, Lost, Reported>>
           /\ \/ /\ current # i /\ UNCHANGED <<Offer, Verdicts>> /\ current' = current
              \/ \E c \in Conns, m \in Numbers :
                   /\ current = i /\ <<i, c, m>> \in raised
                   /\ Offer = <<c, m>> /\ Offer' = None /\ <<c, m>> \in Requests
                   /\ Verdicts[<<c, m>>] = "none" /\ Verdicts' = [Verdicts EXCEPT ![<<c, m>>] = v]
<1>. USE DEF Both
<1>1. UNCHANGED <<Asked, Recalled, Lost, Reported>>
  BY Columns DEF connVars
<1>2. CASE current # i
  <2>1. UNCHANGED <<current, result>>
    BY <1>2 DEF Answer, Counts
  <2>2. Verdicts' = Verdicts
    BY <2>1, SameVerdicts DEF Standing, Decided
  <2>. QED
    BY <1>1, <1>2, <2>1, <2>2, Columns
<1>3. CASE current = i
  <2>1. current # 0 /\ current' = 0 /\ result' = v /\ v # "none"
    BY <1>3 DEF Answer, Counts
  <2>2. PICK c \in Conns, m \in Numbers : owner = c /\ ownerSeq = m /\ <<i, c, m>> \in raised
    BY <1>3, <2>1 DEF InPlainTerms
  <2>3. /\ Offer = <<c, m>> /\ Offer' = None /\ <<c, m>> \in Requests
        /\ Verdicts[<<c, m>>] = "none" /\ Verdicts' = [Verdicts EXCEPT ![<<c, m>>] = v]
    BY <2>1, <2>2, SettledOffer
  <2>. QED
    BY <1>1, <1>3, <2>2, <2>3
<1>. QED
  BY <1>2, <1>3

LEMMA UserMaps ==
    ASSUME Both, Ui \/ User
    PROVE  Maps
<1>. USE DEF Both
<1>0. Records /\ Prompts /\ Fields /\ None \notin Requests
  BY PhonePromptAssumption DEF BookInv, IndInv, Requests, Numbers
<1>. USE <1>0
<1>1. CASE Create \/ Abort \/ Dismiss \/ Tap
  <2>1. UNCHANGED <<connVars, pc, job, outcome, answered, raised, approved, current, result>>
    BY <1>1 DEF Create, Abort, Dismiss, Tap, workerVars, slotVars, resultVars, history
  <2>2. UNCHANGED <<sent, recalled, Lost>>
    BY <2>1, Columns DEF connVars
  <2>. QED
    BY <2>1, <2>2, UnseenSteps DEF Standing, Decided
<1>2. CASE Approve
  <2>1. PICK i \in 1 .. seq : i = view.id
    BY <1>2 DEF Approve, Open, Fields
  <2>2. /\ i # 0 /\ Answer(i, "ok") /\ approved' = approved \cup {i}
        /\ UNCHANGED <<connVars, pc, job, outcome, answered, raised>>
    BY <1>2, <2>1 DEF Approve, workerVars, resultVars, Fields
  <2>3. PICK t \in raised : t[1] = i
    BY DEF Prompts
  <2>4. PICK c \in Conns, m \in Numbers : t = <<i, c, m>>
    BY <2>3 DEF Records
  <2>. DEFINE r == <<c, m>>
  <2>5. Blessed' = Blessed \cup {r}
    <3>1. \A u \in raised : u[1] = i => u = t
      BY <2>3 DEF Prompts
    <3>2. t[2] = c /\ t[3] = m
      BY <2>4
    <3>. QED
      BY <2>2, <2>3, <3>1, <3>2 DEF Blessed
  <2>6. r \in Requests /\ r \in Asked
    <3>1. Met(c, m)
      BY <2>3, <2>4 DEF Met
    <3>2. m <= sent[c]
      BY <3>1 DEF BookInv, InLine, Ordered
    <3>. QED
      BY <3>2 DEF Requests, Asked
  <2>7. /\ UNCHANGED <<Asked, Recalled, Lost, Reported>>
        /\ \/ /\ current # i /\ UNCHANGED <<Offer, Verdicts>>
           \/ \E d \in Conns, n \in Numbers :
                /\ current = i /\ <<i, d, n>> \in raised
                /\ Offer = <<d, n>> /\ Offer' = None
                /\ Verdicts[<<d, n>>] = "none" /\ Verdicts' = [Verdicts EXCEPT ![<<d, n>>] = "ok"]
    <3>1. /\ UNCHANGED <<Asked, Recalled, Lost, Reported>>
          /\ \/ /\ current # i /\ UNCHANGED <<Offer, Verdicts>> /\ current' = current
             \/ \E d \in Conns, n \in Numbers :
                  /\ current = i /\ <<i, d, n>> \in raised
                  /\ Offer = <<d, n>> /\ Offer' = None /\ <<d, n>> \in Requests
                  /\ Verdicts[<<d, n>>] = "none" /\ Verdicts' = [Verdicts EXCEPT ![<<d, n>>] = "ok"]
      BY <2>2, AnswerMaps, Zenon
    <3>. QED
      BY <3>1
  <2>8. CASE current # i
    <3>1. Offer # r
      <4>1. SUFFICES ASSUME current # 0
                     PROVE  <<owner, ownerSeq>> # r
        BY <2>6 DEF InPlainTerms
      <4>2. <<current, owner, ownerSeq>> \in raised
        BY <4>1 DEF InPlainTerms
      <4>3. \A u \in raised : u[2] = c /\ u[3] = m => u[1] = i
        BY <2>3, <2>4 DEF Prompts
      <4>. QED
        BY <2>8, <4>2, <4>3
    <3>2. Book!Approve(r)
      BY <2>5, <2>6, <2>7, <2>8, <3>1 DEF Book!Approve
    <3>. QED
      BY <2>6, <3>2 DEF Maps, Book!Next
  <2>9. CASE current = i
    <3>1. PICK d \in Conns, n \in Numbers :
                /\ <<i, d, n>> \in raised
                /\ Offer = <<d, n>> /\ Offer' = None
                /\ Verdicts[<<d, n>>] = "none" /\ Verdicts' = [Verdicts EXCEPT ![<<d, n>>] = "ok"]
      BY <2>7, <2>9
    <3>2. <<i, d, n>> = t
      BY <2>3, <3>1 DEF Prompts
    <3>3. d = c /\ n = m
      BY <2>4, <3>2
    <3>4. Book!Approve(r)
      BY <2>5, <2>6, <2>7, <3>1, <3>3 DEF Book!Approve, Book!Settle, Book!Undecided
    <3>. QED
      BY <2>6, <3>4 DEF Maps, Book!Next
  <2>. QED
    BY <2>8, <2>9
<1>3. CASE Refuse \/ Reject
  <2>1. PICK i : /\ i # 0 /\ Answer(i, "denied")
                 /\ i = IF Refuse THEN view.id ELSE posted
    BY <1>3 DEF Refuse, Reject, Open, Fields
  <2>2. UNCHANGED <<connVars, pc, job, outcome, answered, raised, approved>>
    BY <1>3 DEF Refuse, Reject, workerVars, resultVars, history
  <2>3. /\ UNCHANGED <<Asked, Recalled, Lost, Reported>>
        /\ \/ UNCHANGED <<Offer, Verdicts>>
           \/ \E c \in Conns, m \in Numbers :
                /\ Offer = <<c, m>> /\ Offer' = None /\ <<c, m>> \in Requests
                /\ Verdicts[<<c, m>>] = "none" /\ Verdicts' = [Verdicts EXCEPT ![<<c, m>>] = "denied"]
    BY <2>1, <2>2, AnswerMaps
  <2>4. Blessed' = Blessed
    BY <2>2, Columns
  <2>5. CASE UNCHANGED <<Offer, Verdicts>>
    BY <2>3, <2>4, <2>5 DEF Maps, Book!vars
  <2>6. ASSUME NEW c \in Conns, NEW m \in Numbers,
               Offer = <<c, m>>, Offer' = None, <<c, m>> \in Requests,
               Verdicts[<<c, m>>] = "none", Verdicts' = [Verdicts EXCEPT ![<<c, m>>] = "denied"]
        PROVE  Maps
    <3>1. Book!Decline("denied")
      BY <2>3, <2>4, <2>6 DEF Book!Decline, Book!Settle, Book!Undecided
    <3>. QED
      BY <3>1 DEF Maps, Book!Next
  <2>. QED
    BY <2>3, <2>5, <2>6
<1>. QED
  BY <1>1, <1>2, <1>3 DEF Ui, User

LEMMA InitMaps == Init => Book!Init
<1>. SUFFICES ASSUME Init
              PROVE  Book!Init
  OBVIOUS
<1>1. InPlainTerms
  BY BookInit, PlainTerms
<1>2. Offer = None
  BY <1>1 DEF Init, InPlainTerms
<1>3. Asked = {} /\ Recalled = {} /\ Lost = {} /\ Blessed = {} /\ Reported = {}
  BY DEF Init, Asked, Recalled, Lost, Blessed, Reported, Requests, Numbers
<1>4. Verdicts = [r \in Requests |-> "none"]
  BY DEF Init, Verdicts, Verdict, Requests
<1>. QED
  BY <1>2, <1>3, <1>4 DEF Book!Init

\* Whatever computers, readers, workers, the user and the screen do in whatever order, a
\* step of the phone (KeyService.serve, cancel, confirm, answer) is a step of the book or
\* none: each request is offered at most once and one at a time, settled once by the user,
\* its own computer or time, and what is reported is what was settled.
THEOREM KeepsTheBook == Spec => Book!Safety
<1>1. BookInv /\ BookInv' /\ [Next]_vars => [Book!Next]_(Book!vars)
  <2>. SUFFICES ASSUME BookInv, BookInv', [Next]_vars
                PROVE  Maps
    BY DEF Maps
  <2>1. Both
    BY PlainTerms, PlainTermsNext DEF Both
  <2>2. CASE UNCHANGED vars
    <3>1. UNCHANGED <<connVars, pc, job, outcome, answered, raised, approved, current, result>>
      BY <2>2 DEF vars, workerVars, slotVars, resultVars, history
    <3>2. UNCHANGED <<sent, recalled, Lost>>
      BY <3>1, Columns DEF connVars
    <3>. QED
      BY <2>1, <3>1, <3>2, UnseenSteps DEF Standing, Decided
  <2>. QED
    BY <2>1, <2>2, ComputerMaps, ReaderMaps, WorkerMaps, UserMaps DEF Next
<1>. QED
  BY InitMaps, BookInvariance, <1>1, PTL DEF Spec, Book!Safety

-----------------------------------------------------------------------------
(* The types, and how many prompts there can be.                           *)

\* What the book leaves out of TypeOK.
Rest ==
    /\ load \in Loads
    /\ \A c \in Conns : mine[c] <= seq
    /\ closed \in [Conns -> BOOLEAN]
    /\ owner \in Conns \cup {None} /\ ownerSeq \in Numbers \cup {0}
    /\ result # "quiet"
    /\ rejected \subseteq 1 .. seq

LEMMA RestStep ==
    ASSUME BookInv, Rest, [Next]_vars
    PROVE  Rest'
<1>0. Fields /\ Records /\ Inside
  BY DEF BookInv, IndInv
<1>. USE <1>0 DEF Rest
<1>1. ASSUME NEW c \in Conns, Computer(c)
      PROVE  Rest'
  BY <1>1 DEF Computer, SendReq, SendCancel, Lose, workerVars, flagVars, slotVars, history
<1>2. ASSUME NEW c \in Conns, Reader(c)
      PROVE  Rest'
  <2>1. CASE ReadReq(c) \/ Shutdown(c)
    BY <2>1 DEF ReadReq, Shutdown, flagVars, slotVars, history
  <2>2. CASE ReadCancel(c) \/ EndStream(c)
    <3>1. closed' \in [Conns -> BOOLEAN] /\ result' # "quiet" /\ UNCHANGED <<owner, ownerSeq>>
      BY <2>2 DEF ReadCancel, EndStream, Cancel
    <3>2. UNCHANGED <<load, mine, seq, rejected>>
      BY <2>2 DEF ReadCancel, EndStream, workerVars, history
    <3>. QED
      BY <3>1, <3>2
  <2>. QED
    BY <1>2, <2>1, <2>2 DEF Reader
<1>3. ASSUME NEW c \in Conns, Worker(c)
      PROVE  Rest'
  <2>1. CASE Start(c) \/ EnterQuiet(c) \/ EnterAsk(c) \/ Withdrawn(c) \/ Show(c) \/ Respond(c)
    BY <2>1 DEF Start, EnterQuiet, EnterAsk, Withdrawn, Show, Respond, connVars, flagVars, slotVars,
       history
  <2>2. CASE Raise(c)
    <3>1. seq \in Nat /\ seq' = seq + 1 /\ UNCHANGED <<load, closed, rejected>>
      BY <2>2 DEF Raise, Fields, connVars, flagVars
    <3>2. owner' = c /\ ownerSeq' \in Numbers \cup {0} /\ result' # "quiet"
      BY <2>2 DEF Raise, Records
    <3>3. \A d \in Conns : mine'[d] <= seq'
      BY <2>2, <3>1 DEF Raise, Fields
    <3>4. rejected' \subseteq 1 .. seq'
      BY <3>1
    <3>. QED
      BY <3>1, <3>2, <3>3, <3>4
  <2>3. CASE Wake(c) \/ Timeout(c)
    <3>1. UNCHANGED <<load, closed, seq, ownerSeq, result, rejected>> /\ owner' = None
      BY <2>3 DEF Wake, Timeout, Leave, connVars, flagVars, history
    <3>2. \A d \in Conns : mine'[d] <= seq'
      BY <2>3, <3>1 DEF Wake, Timeout, Leave, Fields
    <3>. QED
      BY <3>1, <3>2
  <2>. QED
    BY <1>3, <2>1, <2>2, <2>3 DEF Worker
<1>4. CASE Ui \/ User \/ UNCHANGED vars
  <2>1. UNCHANGED <<load, mine, closed, owner, ownerSeq, seq>>
    BY <1>4 DEF Ui, User, Create, Abort, Approve, Refuse, Dismiss, Tap, Reject, Answer, connVars,
       workerVars, flagVars, slotVars, vars
  <2>2. result' # "quiet"
    BY <1>4 DEF Ui, User, Create, Abort, Approve, Refuse, Dismiss, Tap, Reject, Answer, slotVars, vars
  <2>3. rejected' \subseteq 1 .. seq
    <3>1. rejected' = rejected \/ (posted # 0 /\ rejected' = rejected \cup {posted})
      BY <1>4 DEF Ui, User, Create, Abort, Approve, Refuse, Dismiss, Tap, Reject, history, vars
    <3>2. posted # 0 => posted \in 1 .. seq
      BY DEF Fields
    <3>3. rejected \subseteq 1 .. seq
      OBVIOUS
    <3>4. CASE rejected' = rejected
      BY <3>3, <3>4
    <3>5. CASE posted # 0 /\ rejected' = rejected \cup {posted}
      BY <3>2, <3>3, <3>5
    <3>. QED
      BY <3>1, <3>4, <3>5
  <2>. QED
    BY <2>1, <2>2, <2>3
<1>. QED
  BY <1>1, <1>2, <1>3, <1>4 DEF Next

\* Each request is raised at most once, so the prompts have no more numbers than
\* there are requests.
LEMMA FewPrompts ==
    ASSUME BookInv
    PROVE  seq \in Ids \cup {0}
<1>0. Prompts /\ Records /\ seq \in Nat
  BY DEF BookInv, IndInv, Fields
<1>. DEFINE Of(i) == CHOOSE t \in raised : t[1] = i
            f == [i \in 1 .. seq |-> <<Of(i)[2], Of(i)[3]>>]
<1>1. \A i \in 1 .. seq : Of(i) \in raised /\ Of(i)[1] = i
  BY <1>0 DEF Prompts
<1>2. \A t \in raised : t[2] \in Conns /\ t[3] \in Numbers
  BY <1>0 DEF Records
<1>3. \A i \in 1 .. seq : f[i] \in Conns \X Numbers
  BY <1>1, <1>2
<1>4. \A i, j \in 1 .. seq : f[i] = f[j] => i = j
  <2>. SUFFICES ASSUME NEW i \in 1 .. seq, NEW j \in 1 .. seq, f[i] = f[j]
                PROVE  i = j
    OBVIOUS
  <2>1. Of(i)[2] = Of(j)[2] /\ Of(i)[3] = Of(j)[3]
    OBVIOUS
  <2>. HIDE DEF Of
  <2>2. Of(i) = Of(j)
    BY <1>0, <1>1, <2>1 DEF Prompts
  <2>. QED
    BY <1>1, <2>2
<1>5. f \in Injection(1 .. seq, Conns \X Numbers)
  <2>. HIDE DEF Of
  <2>. QED
    BY <1>3, <1>4 DEF Injection, IsInjective
<1>. HIDE DEF f
<1>6. IsFiniteSet(Conns) /\ Cardinality(Conns) \in Nat /\ MaxRequests \in Nat
  BY PhonePromptAssumption, FS_CardinalityType
<1>7. IsFiniteSet(Numbers) /\ Cardinality(Numbers) = MaxRequests
  <2>1. 0 \in Int /\ 1 \in Int /\ MaxRequests \in Int /\ (1 > MaxRequests => MaxRequests = 0)
    BY <1>6
  <2>2. IsFiniteSet(1 .. MaxRequests)
    BY <2>1, FS_Interval
  <2>3. Cardinality(1 .. MaxRequests) = IF 1 > MaxRequests THEN 0 ELSE MaxRequests - 1 + 1
    BY <2>1, FS_Interval
  <2>. QED
    BY <2>1, <2>2, <2>3 DEF Numbers
<1>8. /\ IsFiniteSet(Conns \X Numbers)
      /\ Cardinality(Conns \X Numbers) = Cardinality(Conns) * MaxRequests
  BY <1>6, <1>7, FS_Product
<1>9. Cardinality(1 .. seq) <= Cardinality(Conns) * MaxRequests
  BY <1>5, <1>8, FS_Injection
<1>10. Cardinality(1 .. seq) = seq
  BY <1>0, FS_Interval
<1>. DEFINE k == Cardinality(Conns)
<1>11. seq <= MaxRequests * k
  <2>1. k * MaxRequests = MaxRequests * k
    BY <1>6
  <2>. QED
    BY <1>9, <1>10, <2>1
<1>. QED
  BY <1>0, <1>6, <1>11 DEF Ids

\* Every variable of the phone keeps its type: no prompt is numbered beyond the
\* requests there are, and no worker, notification or activity names another
\* (confirm, cancel, answer, serve, PromptActivity).
THEOREM TypeCorrect == Spec => []TypeOK
<1>1. Init => Rest
  BY PhonePromptAssumption DEF Init, Rest, Numbers
<1>2. Rest /\ BookInv /\ [Next]_vars => Rest'
  BY RestStep
<1>3. BookInv /\ Rest => TypeOK
  <2>. SUFFICES ASSUME BookInv, Rest
                PROVE  TypeOK
    OBVIOUS
  <2>0. Fields /\ Records /\ Raised /\ Prompts /\ seq \in Nat
    BY DEF BookInv, IndInv, Fields
  <2>1. seq \in Ids \cup {0} /\ 1 .. seq \subseteq Ids
    <3>1. MaxRequests * Cardinality(Conns) \in Nat
      BY PhonePromptAssumption, FS_CardinalityType
    <3>. QED
      BY <2>0, <3>1, FewPrompts DEF Ids
  <2>2. mine \in [Conns -> Ids \cup {0}]
    BY <2>0, <2>1 DEF Rest, Fields
  <2>3. view \in Views \cup {None}
    BY <2>0, <2>1 DEF Fields, Views, Cards
  <2>4. raised \subseteq Ids \X Conns \X Numbers
    BY <2>0, <2>1 DEF Raised, Records
  <2>5. rejected \subseteq Ids /\ approved \subseteq Ids
    BY <2>0, <2>1 DEF Rest, Prompts
  <2>6. result \in Outcomes \ {"quiet"}
    BY <2>0 DEF Rest, Records
  <2>. QED
    BY <2>0, <2>1, <2>2, <2>3, <2>4, <2>5, <2>6 DEF TypeOK, Fields, Records, Rest
<1>. QED
  BY BookInvariance, <1>1, <1>2, <1>3, PTL DEF Spec
=============================================================================
