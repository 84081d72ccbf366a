---------------------------- MODULE BrokerProofs ----------------------------
(* Theorems about Broker, for every value of its constants.                *)
EXTENDS Broker, TLAPS

\* A response appended to a queue: the old entries keep their places.
LEMMA AppendEntries ==
    ASSUME NEW S, NEW s \in Seq(S), NEW e \in S
    PROVE  /\ Append(s, e) \in Seq(S)
           /\ Len(Append(s, e)) = Len(s) + 1
           /\ \A i \in 1 .. Len(s) : Append(s, e)[i] = s[i]
           /\ Append(s, e)[Len(s) + 1] = e
  OBVIOUS

\* A queue without its head: every entry moves one place forward.
LEMMA TailEntries ==
    ASSUME NEW S, NEW s \in Seq(S), s # <<>>
    PROVE  /\ Tail(s) \in Seq(S)
           /\ Len(s) > 0 /\ Len(Tail(s)) = Len(s) - 1
           /\ \A i \in 1 .. Len(s) - 1 : Tail(s)[i] = s[i + 1]
           /\ Head(s) = s[1] /\ Head(s) \in S
  OBVIOUS

-----------------------------------------------------------------------------
(* Type correctness.                                                       *)

\* The starting state is well typed.
LEMMA InitTypeOK == Init => TypeOK
<1> SUFFICES ASSUME Init PROVE TypeOK
  OBVIOUS
<1>1. (CHOOSE c \in Channels : TRUE) \in Channels
  BY BrokerAssumption
<1>2. \A S : <<>> \in Seq(S)
  OBVIOUS
<1>3. 1 \in 1 .. MaxRequests + 1
  BY BrokerAssumption
<1> QED
  BY <1>1, <1>2, <1>3 DEF Init, TypeOK, LinkStates, PcStates, AllKinds

\* The steps of the connections keep the types.
LEMMA LinkTypeOK ==
    ASSUME TypeOK, NEW l \in Links, LinkStep(l)
    PROVE  TypeOK'
<1> USE DEF vars, linkVars, wireVars, hidVars, requestVars, workerVars, callVars,
            clientVars, history, TypeOK, LinkStates
<1>1. CASE Connect(l)  BY <1>1 DEF Connect
<1>2. CASE Break(l)    BY <1>2 DEF Break
<1>3. CASE Close(l)
  <2>1. Sentinel \in Responses  BY DEF Sentinel, Responses, Statuses
  <2>2. Append(queue[l], Sentinel) \in Seq(Responses)  BY <2>1, AppendEntries
  <2>3. queue' \in [Links -> Seq(Responses)]  BY <1>3, <2>2 DEF Close, Ended
  <2>4. link' \in [Links -> LinkStates]  BY <1>3 DEF Close, Ended
  <2> QED  BY <1>3, <2>3, <2>4 DEF Close, Ended
<1>4. CASE Remove(l)   BY <1>4 DEF Remove
<1>5. CASE SyncUhid(l) BY <1>5 DEF SyncUhid
<1>6. CASE SweepCancel(l)  BY <1>6 DEF SweepCancel
<1>7. CASE SweepWithdraw(l)
  <2>1. withdrawn' \in [Links -> SUBSET Numbers]  BY <1>7 DEF SweepWithdraw, SendCancel
  <2> QED  BY <1>7, <2>1 DEF SweepWithdraw
<1>8. CASE PhoneAnswer(l)
  <2>1. inbox[l] \in Seq(Numbers) /\ inbox[l] # <<>>  BY <1>8 DEF PhoneAnswer
  <2>2. Tail(inbox[l]) \in Seq(Numbers) /\ Head(inbox[l]) \in Numbers
    BY <2>1, TailEntries
  <2>3. inbox' \in [Links -> Seq(Numbers)]  BY <1>8, <2>2 DEF PhoneAnswer
  <2>4. queue' \in [Links -> Seq(Responses)] /\ approved' \subseteq Links \X Numbers
    <3>1. CASE UNCHANGED <<queue, approved>>  BY <3>1
    <3>2. ASSUME NEW s \in Replies,
                 queue' = [queue EXCEPT ![l] =
                             Append(@, [number |-> Head(inbox[l]), status |-> s])],
                 approved' = IF s = "ok" THEN approved \cup {<<l, Head(inbox[l])>>}
                                         ELSE approved
          PROVE queue' \in [Links -> Seq(Responses)] /\ approved' \subseteq Links \X Numbers
      <4>1. [number |-> Head(inbox[l]), status |-> s] \in Responses
        BY <2>2, BrokerAssumption DEF Responses
      <4>2. Append(queue[l], [number |-> Head(inbox[l]),
           status |-> s]) \in Seq(Responses)
        BY <4>1, AppendEntries
      <4> QED  BY <3>2, <4>2, <2>2
    <3> QED  BY <1>8, <3>1, <3>2 DEF PhoneAnswer
  <2> QED  BY <1>8, <2>3, <2>4 DEF PhoneAnswer
<1> QED
  BY <1>1, <1>2, <1>3, <1>4, <1>5, <1>6, <1>7, <1>8 DEF LinkStep

\* The steps of the HID thread keep the types.
LEMMA HidTypeOK ==
    ASSUME TypeOK, HidStep
    PROVE  TypeOK'
<1> USE DEF vars, linkVars, wireVars, hidVars, requestVars, workerVars, callVars,
            clientVars, history, TypeOK
<1>1. ASSUME NEW c \in Channels, NEW k \in Kinds, Dispatch(c, k) PROVE TypeOK'
  <2>1. nextRequest + 1 \in 1 .. MaxRequests + 1
    BY <1>1, BrokerAssumption DEF Dispatch, Numbers
  <2>2. k \in AllKinds  BY BrokerAssumption
  <2> QED  BY <1>1, <2>1, <2>2 DEF Dispatch, PcStates
<1>2. ASSUME NEW c \in Channels, Refuse(c) PROVE TypeOK'
  <2>1. nextRequest + 1 \in 1 .. MaxRequests + 1
    BY <1>2, BrokerAssumption DEF Refuse, Numbers
  <2> QED  BY <1>2, <2>1 DEF Refuse
<1>3. ASSUME NEW c \in Channels, HidCancel(c) PROVE TypeOK'
  BY <1>3 DEF HidCancel, Freed
<1>4. ASSUME NEW c \in Channels, HidInit(c) PROVE TypeOK'
  BY <1>4 DEF HidInit, Freed
<1>5. CASE HidClose  BY <1>5 DEF HidClose
<1>6. CASE HidWithdraw
  <2>1. withdrawn' \in [Links -> SUBSET Numbers]  BY <1>6 DEF HidWithdraw, SendCancel
  <2> QED  BY <1>6, <2>1 DEF HidWithdraw
<1> QED
  BY <1>1, <1>2, <1>3, <1>4, <1>5, <1>6 DEF HidStep

\* A worker that records a winner has one.
RecordHasWinner ==
    \A n \in Numbers : pc[n] = "record" => winner[n] # None

\* The steps of a worker keep the types.
LEMMA WorkerTypeOK ==
    ASSUME TypeOK, RecordHasWinner, NEW n \in Numbers, Worker(n) \/ Expire(n)
    PROVE  TypeOK'
<1> USE DEF vars, linkVars, wireVars, hidVars, requestVars, workerVars, callVars,
            clientVars, history, TypeOK, PcStates
<1>1. CASE Snapshot(n)
  <2>1. ByDevice \in SUBSET Links /\ \A d : Find(ByDevice, d) \in SUBSET Links
    BY DEF ByDevice, Find, Live
  <2>2. PICK S \in SUBSET Links, p \in PcStates :
            /\ targets' = [targets EXCEPT ![n] = S]
            /\ pc' = [pc EXCEPT ![n] = p]
    BY <1>1, <2>1 DEF Snapshot
  <2>3. targets' \in [Numbers -> SUBSET Links] /\ pc' \in [Numbers -> PcStates]
    BY <2>2
  <2> QED  BY <1>1, <2>3 DEF Snapshot
<1>2. CASE Plan(n)
  <2>1. \A T \in SUBSET Links : \A d : /\ First(T) \in SUBSET Links
                                     /\ Find(T, d) \in SUBSET Links
    BY DEF First, Find
  <2>2. PICK S \in SUBSET Links, T \in SUBSET Links :
            /\ targets' = [targets EXCEPT ![n] = S]
            /\ rest' = [rest EXCEPT ![n] = T]
            /\ pc' = [pc EXCEPT ![n] = "ask"]
    <3> DEFINE all  == targets[n]
               held == {l \in all : DeviceOf[l] \in holders}
    <3>1. /\ all \in SUBSET Links /\ held \in SUBSET Links /\ all \ held \in SUBSET Links
          /\ First(all) \in SUBSET Links /\ Find(all, last) \in SUBSET Links
          /\ rest = [rest EXCEPT ![n] = rest[n]] /\ rest[n] \in SUBSET Links
      BY <2>1
    <3> HIDE DEF TypeOK
    <3>2. pc' = [pc EXCEPT ![n] = "ask"]  BY <1>2 DEF Plan
    <3>3. CASE kind[n] = "assert" /\ held # {}
      <4>1. /\ targets' = [targets EXCEPT ![n] = held]
            /\ rest' = [rest EXCEPT ![n] = all \ held]
        BY <1>2, <3>3 DEF Plan
      <4> QED  BY <4>1, <3>1, <3>2
    <3>4. CASE ~(kind[n] = "assert" /\ held # {})
      <4>1. /\ targets' = [targets EXCEPT ![n] =
                              CASE kind[n] = "info" -> First(all)
                                [] kind[n] = "next" -> Find(all, last)
                                [] OTHER -> all]
            /\ rest' = rest
        BY <1>2, <3>4 DEF Plan
      <4>2. PICK S \in SUBSET Links :
              S = CASE kind[n] = "info" -> First(all)
                    [] kind[n] = "next" -> Find(all, last)
                    [] OTHER -> all
        BY <3>1
      <4> QED  BY <4>1, <4>2, <3>1, <3>2
    <3> QED  BY <3>3, <3>4
  <2>3. /\ targets' \in [Numbers -> SUBSET Links] /\ rest' \in [Numbers -> SUBSET Links]
        /\ pc' \in [Numbers -> PcStates]
    BY <2>2
  <2> QED  BY <1>2, <2>3 DEF Plan
<1>3. CASE SkipRound(n)  BY <1>3 DEF SkipRound
<1>4. CASE Ask(n)
  <2>1. \A l \in Links : Append(inbox[l], n) \in Seq(Numbers)
    BY AppendEntries
  <2>2. inbox' \in [Links -> Seq(Numbers)]  BY <1>4, <2>1 DEF Ask
  <2>3. waiting' \in [Numbers -> SUBSET Links]  BY <1>4 DEF Ask, Up
  <2> QED  BY <1>4, <2>2, <2>3 DEF Ask
<1>5. CASE Publish(n)   BY <1>5 DEF Publish
<1>6. CASE LoopHead(n)
  <2>1. todo' \in [Numbers -> SUBSET Links] /\ pc' \in [Numbers -> PcStates]
    <3>1. CASE waiting[n] # {} /\ ~Decided(n) /\ ~expired[n] /\ Current(n)
      <4>1. todo' = [todo EXCEPT ![n] = waiting[n]] /\ pc' = [pc EXCEPT ![n] = "poll"]
        <5> HIDE DEF TypeOK
        <5> QED  BY <1>6, <3>1 DEF LoopHead
      <4> QED  BY <4>1
    <3>2. CASE ~(waiting[n] # {} /\ ~Decided(n) /\ ~expired[n] /\ Current(n))
      <4>1. todo' = todo /\ pc' = [pc EXCEPT ![n] = "clear"]
        <5> HIDE DEF TypeOK
        <5> QED  BY <1>6, <3>2 DEF LoopHead
      <4> QED  BY <4>1
    <3> QED  BY <3>1, <3>2
  <2> QED  BY <1>6, <2>1 DEF LoopHead
<1>7. CASE EndPass(n)   BY <1>7 DEF EndPass
<1>8. ASSUME NEW l \in Links, PollNothing(n, l) PROVE TypeOK'
  BY <1>8 DEF PollNothing
<1>9. ASSUME NEW l \in Links, PollOne(n, l) PROVE TypeOK'
  <2>1. queue[l] \in Seq(Responses) /\ queue[l] # <<>>  BY <1>9 DEF PollOne
  <2>2. Tail(queue[l]) \in Seq(Responses) /\ Head(queue[l]) \in Responses
    BY <2>1, TailEntries
  <2>3. queue' \in [Links -> Seq(Responses)]  BY <1>9, <2>2 DEF PollOne
  <2>4. swallowed' \subseteq Links \X (Numbers \cup {0})
    BY <1>9, <2>2 DEF PollOne, Responses
  <2>5. /\ waiting' \in [Numbers -> SUBSET Links]
        /\ wins' \in [Numbers -> SUBSET Links]
        /\ winner' \in [Numbers -> Links \cup {None}]
        /\ errors' \in [Numbers -> SUBSET Statuses]
    <3>1. "other" \in Statuses /\ Head(queue[l]).status \in Statuses
      BY <2>2 DEF Responses, Statuses
    <3>2. Take(n, l, Head(queue[l]))  BY <1>9 DEF PollOne
    <3> DEFINE r == Head(queue[l])
    <3>3. /\ waiting \in [Numbers -> SUBSET Links] /\ wins \in [Numbers -> SUBSET Links]
          /\ winner \in [Numbers -> Links \cup {None}]
          /\ errors \in [Numbers -> SUBSET Statuses]
      OBVIOUS
    <3> HIDE DEF r, TypeOK
    <3>4. CASE r = Sentinel
      BY <3>1, <3>2, <3>3, <3>4 DEF Take, r
    <3>5. CASE r # Sentinel /\ ~Matches(n, r)
      BY <3>1, <3>2, <3>3, <3>5 DEF Take, r
    <3>6. CASE r # Sentinel /\ Matches(n, r) /\ r.status = "ok"
      BY <3>1, <3>2, <3>3, <3>6 DEF Take, r
    <3>7. CASE r # Sentinel /\ Matches(n, r) /\ r.status # "ok"
      BY <3>1, <3>2, <3>3, <3>7 DEF Take, r
    <3> QED  BY <3>4, <3>5, <3>6, <3>7
  <2> QED  BY <1>9, <2>3, <2>4, <2>5 DEF PollOne
<1>10. CASE EndRound(n)
  <2>1. withdrawn' \in [Links -> SUBSET Numbers]  BY <1>10 DEF EndRound, SendCancel,
       Unanswered
  <2>2. /\ targets' \in [Numbers -> SUBSET Links] /\ rest' \in [Numbers -> SUBSET Links]
        /\ pc' \in [Numbers -> PcStates]
    <3>1. CASE winner[n] = None /\ ~Stops(n) /\ rest[n] # {}
      <4>1. /\ targets' = [targets EXCEPT ![n] = rest[n]]
            /\ rest' = [rest EXCEPT ![n] = {}]
            /\ pc' = [pc EXCEPT ![n] = "ask"]
        <5> HIDE DEF TypeOK
        <5> QED  BY <1>10, <3>1 DEF EndRound, Unanswered
      <4> QED  BY <4>1
    <3>2. CASE ~(winner[n] = None /\ ~Stops(n) /\ rest[n] # {})
      <4>1. /\ targets' = targets /\ rest' = rest
            /\ pc' = [pc EXCEPT ![n] = IF winner[n] = None THEN "check" ELSE "record"]
        <5> HIDE DEF TypeOK
        <5> QED  BY <1>10, <3>2 DEF EndRound, Unanswered
      <4> QED  BY <4>1
    <3> QED  BY <3>1, <3>2
  <2>3. /\ pending' \in [Numbers -> SUBSET Links] /\ waiting' \in [Numbers -> SUBSET Links]
    BY <1>10 DEF EndRound, Unanswered
  <2> QED  BY <1>10, <2>1, <2>2, <2>3 DEF EndRound, Unanswered
<1>11. CASE Record(n)
  <2>1. winner[n] \in Links  BY <1>11 DEF Record, RecordHasWinner, WinnerDevice
  <2>2. \A l \in Links : DeviceOf[l] \in Devices  BY BrokerAssumption
  <2>3. last' \in Devices \cup {None}  BY <1>11, <2>1, <2>2 DEF Record, WinnerDevice
  <2>4. holders' \subseteq Devices
    <3>1. {DeviceOf[l] : l \in wins[n]} \subseteq Devices  BY <2>2
    <3>2. holders' = {DeviceOf[l] : l \in wins[n]} \/ holders' = holders
      <4> HIDE DEF TypeOK
      <4> QED  BY <1>11 DEF Record, WinnerDevice
    <3> QED  BY <3>1, <3>2
  <2>5. pc' \in [Numbers -> PcStates]  BY <1>11 DEF Record, WinnerDevice
  <2> QED  BY <1>11, <2>3, <2>4, <2>5 DEF Record, WinnerDevice
<1>12. CASE Check(n)   BY <1>12 DEF Check
<1>13. CASE Reply(n)   BY <1>13 DEF Reply
<1>14. CASE Finish(n)  BY <1>14 DEF Finish, Released
<1>15. CASE Expire(n)  BY <1>15 DEF Expire
<1> QED
  BY <1>1, <1>2, <1>3, <1>4, <1>5, <1>6, <1>7, <1>8, <1>9, <1>10, <1>11,
     <1>12, <1>13, <1>14, <1>15 DEF Worker

-----------------------------------------------------------------------------
(* The current request has a worker.                                       *)

\* Numbers not handed out yet belong to no worker.
Fresh == \A n \in Numbers : n >= nextRequest => pc[n] = "none"

\* Every step of a worker but the last moves it between places where it runs.
LEMMA WorkerMoves ==
    ASSUME TypeOK, NEW n \in Numbers, Worker(n), ~Finish(n)
    PROVE  /\ pc[n] \in Active
           /\ \E p \in Active : pc' = [pc EXCEPT ![n] = p]
           /\ UNCHANGED <<busy, nextRequest>>
<1> USE DEF vars, hidVars, workerVars, Active, PcStates
<1>0. pc \in [Numbers -> PcStates]  BY DEF TypeOK
<1>1. CASE Snapshot(n)   BY <1>1 DEF Snapshot
<1>2. CASE Plan(n)       BY <1>2 DEF Plan
<1>3. CASE SkipRound(n)  BY <1>3 DEF SkipRound
<1>4. CASE Ask(n)        BY <1>4 DEF Ask
<1>5. CASE Publish(n)    BY <1>5 DEF Publish
<1>6. CASE LoopHead(n)   BY <1>6 DEF LoopHead
<1>7. CASE EndPass(n)    BY <1>7 DEF EndPass
<1>8. CASE \E l \in Links : PollNothing(n, l)
  BY <1>8, <1>0 DEF PollNothing
<1>9. CASE \E l \in Links : PollOne(n, l)
  BY <1>9, <1>0 DEF PollOne
<1>10. CASE EndRound(n)  BY <1>10 DEF EndRound, Unanswered
<1>11. CASE Record(n)    BY <1>11 DEF Record, WinnerDevice
<1>12. CASE Check(n)     BY <1>12 DEF Check
<1>13. CASE Reply(n)     BY <1>13 DEF Reply
<1> QED
  BY <1>1, <1>2, <1>3, <1>4, <1>5, <1>6, <1>7, <1>8, <1>9, <1>10, <1>11,
     <1>12, <1>13 DEF Worker

\* The steps that are not a worker's and leave the daemon's bookkeeping alone.
LEMMA LinkFrame ==
    ASSUME NEW l \in Links, LinkStep(l)
    PROVE  UNCHANGED <<hidVars, requestVars, workerVars, clientVars, swallowed>>
  BY DEF LinkStep, Connect, Break, Close, Remove, SyncUhid, SweepCancel,
         SweepWithdraw, PhoneAnswer, hidVars, requestVars, workerVars, clientVars,
         history, Ended

\* A step of Run leaves the request bookkeeping alone, or is one of six kinds.
LEMMA BusyStep ==
    ASSUME TypeOK, Fresh, BusyHasWorker, [Run]_vars
    PROVE  Fresh' /\ BusyHasWorker'
<1> USE DEF Fresh, BusyHasWorker
<1>0. /\ pc \in [Numbers -> PcStates] /\ busy \in Numbers \cup {0}
      /\ nextRequest \in 1 .. MaxRequests + 1 /\ MaxRequests \in Nat
  BY BrokerAssumption DEF TypeOK
<1>1. CASE UNCHANGED <<pc, busy, nextRequest>>
  BY <1>1
<1>2. ASSUME NEW l \in Links, LinkStep(l) PROVE UNCHANGED <<pc, busy, nextRequest>>
  BY <1>2, LinkFrame DEF hidVars, workerVars
<1>3. ASSUME NEW c \in Channels, NEW k \in Kinds, Dispatch(c, k)
      PROVE  Fresh' /\ BusyHasWorker'
  BY <1>0, <1>3 DEF Dispatch, Numbers, Active, PcStates
<1>4. ASSUME NEW c \in Channels, Refuse(c) PROVE Fresh' /\ BusyHasWorker'
  BY <1>0, <1>4 DEF Refuse, workerVars, Numbers
<1>5. ASSUME NEW c \in Channels, HidInit(c) PROVE Fresh' /\ BusyHasWorker'
  BY <1>0, <1>5 DEF HidInit, workerVars, Freed
<1>6. ASSUME NEW c \in Channels, HidCancel(c) PROVE UNCHANGED <<pc, busy, nextRequest>>
  BY <1>6 DEF HidCancel, workerVars, hidVars, Freed
<1>7. CASE HidClose \/ HidWithdraw \/ UpdateCheck
  BY <1>1, <1>7 DEF HidClose, HidWithdraw, UpdateCheck, workerVars, hidVars
<1>8. ASSUME NEW n \in Numbers, Worker(n), ~Finish(n) PROVE Fresh' /\ BusyHasWorker'
  <2>1. pc[n] \in Active /\ UNCHANGED <<busy, nextRequest>>  BY <1>8, WorkerMoves
  <2>2. PICK p \in Active : pc' = [pc EXCEPT ![n] = p]  BY <1>8, WorkerMoves
  <2> QED  BY <1>0, <2>1, <2>2 DEF Active, PcStates, Numbers
<1>9. ASSUME NEW n \in Numbers, Finish(n) PROVE Fresh' /\ BusyHasWorker'
  BY <1>0, <1>9 DEF Finish, Current, Active, PcStates, Numbers, Released
<1>10. ASSUME NEW n \in Numbers, Expire(n) PROVE UNCHANGED <<pc, busy, nextRequest>>
  BY <1>10 DEF Expire, hidVars
<1>11. CASE UNCHANGED vars
  BY <1>1, <1>11 DEF vars, hidVars, workerVars
<1> QED
  BY <1>1, <1>2, <1>3, <1>4, <1>5, <1>6, <1>7, <1>8, <1>9, <1>10, <1>11
     DEF Run, HidStep

-----------------------------------------------------------------------------
(* A success is an approval of this very request.                          *)

\* Every success in a queue is one its phone gave.
QueueApproved ==
    \A l \in Links : \A i \in 1 .. Len(queue[l]) :
        queue[l][i].status = "ok" => <<l, queue[l][i].number>> \in approved

\* The steps of a worker that neither take an answer nor end it.
LEMMA WinsFrame ==
    ASSUME TypeOK, NEW n \in Numbers, Worker(n), ~Finish(n),
           ~\E l \in Links : PollOne(n, l)
    PROVE  UNCHANGED <<wins, winner, queue, approved>>
  BY DEF Worker, Snapshot, Plan, SkipRound, Ask, Publish, LoopHead, EndPass,
         PollNothing, EndRound, Record, Check, Reply, wireVars, history, Unanswered,
         WinnerDevice

\* Only a worker that has ended its rounds with a winner comes to record.
LEMMA ToRecord ==
    ASSUME TypeOK, RecordHasWinner, NEW n \in Numbers, Worker(n), ~Finish(n),
           ~\E l \in Links : PollOne(n, l)
    PROVE  RecordHasWinner'
<1> USE DEF RecordHasWinner, PcStates
<1>0. pc \in [Numbers -> PcStates]  BY DEF TypeOK
<1>1. UNCHANGED winner  BY WinsFrame
<1>2. CASE EndRound(n)
  <2>1. pc' = [pc EXCEPT ![n] = pc'[n]] /\ (pc'[n] = "record" => winner[n] # None)
    BY <1>0, <1>2 DEF EndRound, Unanswered
  <2> QED  BY <1>0, <1>1, <2>1
<1>3. CASE ~EndRound(n)
  <2>1. pc' = [pc EXCEPT ![n] = pc'[n]] /\ pc'[n] # "record"
    BY <1>0, <1>3 DEF Worker, Snapshot, Plan, SkipRound, Ask, Publish, LoopHead,
       EndPass, PollNothing, Record, Check, Reply, WinnerDevice
  <2> QED  BY <1>0, <1>1, <2>1
<1> QED  BY <1>2, <1>3

\* Taking one answer: a win is an approved answer to n.
LEMMA TakeApproved ==
    ASSUME TypeOK, QueueApproved, SuccessIsApproved, RecordHasWinner,
           NEW n \in Numbers, NEW l \in Links, PollOne(n, l)
    PROVE  SuccessIsApproved' /\ QueueApproved' /\ RecordHasWinner'
<1> DEFINE r == Head(queue[l])
<1>0. /\ queue \in [Links -> Seq(Responses)] /\ wins \in [Numbers -> SUBSET Links]
      /\ winner \in [Numbers -> Links \cup {None}] /\ None \notin Links
  BY BrokerAssumption DEF TypeOK
<1>1. /\ queue[l] # <<>> /\ queue' = [queue EXCEPT ![l] = Tail(@)]
      /\ pc' = pc /\ pc[n] = "poll" /\ approved' = approved
      /\ Take(n, l, r)
  BY DEF PollOne
<1>2. /\ Tail(queue[l]) \in Seq(Responses) /\ Len(queue[l]) > 0
      /\ Len(Tail(queue[l])) = Len(queue[l]) - 1
      /\ \A i \in 1 .. Len(queue[l]) - 1 : Tail(queue[l])[i] = queue[l][i + 1]
      /\ r = queue[l][1] /\ r \in Responses
  BY <1>0, <1>1, TailEntries
<1>3. QueueApproved'
  <2> SUFFICES ASSUME NEW m \in Links, NEW i \in 1 .. Len(queue'[m]),
                      queue'[m][i].status = "ok"
               PROVE  <<m, queue'[m][i].number>> \in approved
    BY <1>1 DEF QueueApproved
  <2>1. CASE m = l
    <3>1. queue'[m] = Tail(queue[l])  BY <1>0, <1>1, <2>1
    <3>2. i + 1 \in 1 .. Len(queue[l]) /\ queue'[m][i] = queue[l][i + 1]
      BY <1>0, <1>2, <3>1
    <3> QED  BY <2>1, <3>2 DEF QueueApproved
  <2>2. CASE m # l
    BY <1>0, <1>1, <2>2 DEF QueueApproved
  <2> QED  BY <2>1, <2>2
<1>4. r.status = "ok" => <<l, r.number>> \in approved
  <2>1. 1 \in 1 .. Len(queue[l])  BY <1>0, <1>2
  <2> QED  BY <1>2, <2>1 DEF QueueApproved
<1>5. SuccessIsApproved'
  <2> HIDE DEF r
  <2>1. CASE r # Sentinel /\ Matches(n, r) /\ r.status = "ok"
    <3>1. /\ wins' = [wins EXCEPT ![n] = @ \cup {l}]
          /\ winner' = [winner EXCEPT ![n] = IF @ = None THEN l ELSE @]
      BY <1>1, <2>1 DEF Take
    <3>2. <<l, n>> \in approved  BY <1>4, <2>1 DEF Matches
    <3> QED  BY <1>0, <1>1, <3>1, <3>2 DEF SuccessIsApproved
  <2>2. CASE ~(r # Sentinel /\ Matches(n, r) /\ r.status = "ok")
    <3>1. wins' = wins /\ winner' = winner  BY <1>1, <2>2 DEF Take
    <3> QED  BY <1>1, <3>1 DEF SuccessIsApproved
  <2> QED  BY <2>1, <2>2
<1>6. RecordHasWinner'
  <2>1. \A m \in Numbers : winner[m] # None => winner'[m] # None
    <3> HIDE DEF r
    <3> QED  BY <1>0, <1>1 DEF Take
  <2> QED  BY <1>1, <2>1 DEF RecordHasWinner
<1> QED  BY <1>3, <1>5, <1>6

\* An answer enters a queue as its phone gave it, a sentinel is no success.
LEMMA QueueGrows ==
    ASSUME TypeOK, QueueApproved, NEW l \in Links, LinkStep(l)
    PROVE  QueueApproved' /\ approved \subseteq approved'
<1>0. /\ queue \in [Links -> Seq(Responses)] /\ inbox \in [Links -> Seq(Numbers)]
  BY DEF TypeOK
<1>1. ASSUME NEW e \in Responses, queue' = [queue EXCEPT ![l] = Append(@, e)],
             approved \subseteq approved',
             e.status = "ok" => <<l, e.number>> \in approved'
      PROVE  QueueApproved'
  <2> SUFFICES ASSUME NEW m \in Links, NEW i \in 1 .. Len(queue'[m]),
                      queue'[m][i].status = "ok"
               PROVE  <<m, queue'[m][i].number>> \in approved'
    BY DEF QueueApproved
  <2>1. CASE m # l
    BY <1>0, <1>1, <2>1 DEF QueueApproved
  <2>2. CASE m = l
    <3>1. queue'[m] = Append(queue[l], e)  BY <1>0, <1>1, <2>2
    <3>2. /\ Len(Append(queue[l], e)) = Len(queue[l]) + 1
          /\ \A j \in 1 .. Len(queue[l]) : Append(queue[l], e)[j] = queue[l][j]
          /\ Append(queue[l], e)[Len(queue[l]) + 1] = e
          /\ Len(queue[l]) \in Nat
      BY <1>0, AppendEntries
    <3>3. CASE i \in 1 .. Len(queue[l])
      BY <1>1, <2>2, <3>1, <3>2, <3>3 DEF QueueApproved
    <3>4. CASE i = Len(queue[l]) + 1
      BY <1>1, <2>2, <3>1, <3>2, <3>4
    <3> QED  BY <3>1, <3>2, <3>3, <3>4
  <2> QED  BY <2>1, <2>2
<1>2. CASE UNCHANGED <<queue, approved>>
  BY <1>2 DEF QueueApproved
<1>3. CASE Close(l)
  <2>1. Sentinel \in Responses /\ Sentinel.status # "ok"
    BY DEF Sentinel, Responses, Statuses
  <2>2. queue' = [queue EXCEPT ![l] = Append(@, Sentinel)] /\ approved' = approved
    BY <1>3 DEF Close, history, Ended
  <2> QED  BY <1>1, <2>1, <2>2
<1>4. CASE PhoneAnswer(l)
  <2>1. Head(inbox[l]) \in Numbers  BY <1>0, <1>4, TailEntries DEF PhoneAnswer
  <2>2. ASSUME NEW s \in Replies,
               queue' = [queue EXCEPT ![l] =
                           Append(@, [number |-> Head(inbox[l]), status |-> s])],
               approved' = IF s = "ok" THEN approved \cup {<<l, Head(inbox[l])>>}
                                       ELSE approved
        PROVE  QueueApproved' /\ approved \subseteq approved'
    <3>1. [number |-> Head(inbox[l]), status |-> s] \in Responses
      BY <2>1, BrokerAssumption DEF Responses
    <3>2. /\ approved \subseteq approved'
          /\ s = "ok" => <<l, Head(inbox[l])>> \in approved'
      BY <2>2
    <3> QED  BY <1>1, <2>2, <3>1, <3>2
  <2> QED  BY <1>2, <1>4, <2>2 DEF PhoneAnswer
<1>5. CASE \/ Connect(l) \/ Break(l) \/ Remove(l) \/ SyncUhid(l) \/ SweepCancel(l)
           \/ SweepWithdraw(l)
  BY <1>2, <1>5 DEF Connect, Break, Remove, SyncUhid, SweepCancel, SweepWithdraw,
     wireVars, history
<1> QED  BY <1>3, <1>4, <1>5 DEF LinkStep

\* A success is approved, step by step.
LEMMA SuccessStep ==
    ASSUME TypeOK, QueueApproved, SuccessIsApproved, RecordHasWinner, [Run]_vars
    PROVE  QueueApproved' /\ SuccessIsApproved' /\ RecordHasWinner'
<1>1. CASE UNCHANGED <<pc, wins, winner, queue, approved>>
  BY <1>1 DEF QueueApproved, SuccessIsApproved, RecordHasWinner
<1>2. ASSUME NEW l \in Links, LinkStep(l)
      PROVE  QueueApproved' /\ SuccessIsApproved' /\ RecordHasWinner'
  <2>1. UNCHANGED <<pc, wins, winner>>  BY <1>2, LinkFrame DEF workerVars
  <2>2. QueueApproved' /\ approved \subseteq approved'  BY <1>2, QueueGrows
  <2> QED  BY <2>1, <2>2 DEF SuccessIsApproved, RecordHasWinner
<1>3. ASSUME NEW c \in Channels, NEW k \in Kinds, Dispatch(c, k)
      PROVE  QueueApproved' /\ SuccessIsApproved' /\ RecordHasWinner'
  <2>1. UNCHANGED <<wins, winner, queue, approved>>
    BY <1>3 DEF Dispatch, wireVars, history
  <2>2. \A n \in Numbers : pc'[n] = "record" => pc[n] = "record"
    <3>1. pc \in [Numbers -> PcStates]  BY DEF TypeOK
    <3> QED  BY <1>3, <3>1 DEF Dispatch
  <2> QED  BY <2>1, <2>2 DEF QueueApproved, SuccessIsApproved, RecordHasWinner
<1>4. ASSUME NEW c \in Channels, Refuse(c) \/ HidCancel(c) \/ HidInit(c)
      PROVE  UNCHANGED <<pc, wins, winner, queue, approved>>
  BY <1>4 DEF Refuse, HidCancel, HidInit, wireVars, workerVars, history, Freed
<1>5. CASE HidClose \/ HidWithdraw \/ UpdateCheck
  BY <1>1, <1>5 DEF HidClose, HidWithdraw, UpdateCheck, wireVars,
     workerVars, history
<1>6. ASSUME NEW n \in Numbers, NEW l \in Links, PollOne(n, l)
      PROVE  QueueApproved' /\ SuccessIsApproved' /\ RecordHasWinner'
  BY <1>6, TakeApproved
<1>7. ASSUME NEW n \in Numbers, Finish(n)
      PROVE  QueueApproved' /\ SuccessIsApproved' /\ RecordHasWinner'
  <2>1. /\ pc \in [Numbers -> PcStates] /\ wins \in [Numbers -> SUBSET Links]
        /\ winner \in [Numbers -> Links \cup {None}]
    BY DEF TypeOK
  <2>2. /\ UNCHANGED <<queue, approved>> /\ pc' = [pc EXCEPT ![n] = "done"]
        /\ wins' = [wins EXCEPT ![n] = {}] /\ winner' = [winner EXCEPT ![n] = None]
    BY <1>7 DEF Finish, wireVars, history, Released
  <2> QED  BY <2>1, <2>2 DEF QueueApproved, SuccessIsApproved, RecordHasWinner
<1>8. ASSUME NEW n \in Numbers, Worker(n), ~Finish(n), ~\E l \in Links : PollOne(n, l)
      PROVE  QueueApproved' /\ SuccessIsApproved' /\ RecordHasWinner'
  <2>1. UNCHANGED <<wins, winner, queue, approved>>  BY <1>8, WinsFrame
  <2>2. RecordHasWinner'  BY <1>8, ToRecord
  <2> QED  BY <2>1, <2>2 DEF QueueApproved, SuccessIsApproved
<1>9. ASSUME NEW n \in Numbers, Expire(n)
      PROVE  UNCHANGED <<pc, wins, winner, queue, approved>>
  BY <1>9 DEF Expire, wireVars, history
<1>10. CASE UNCHANGED vars
  BY <1>1, <1>10 DEF vars, wireVars, workerVars, history
<1> QED
  BY <1>1, <1>2, <1>3, <1>4, <1>5, <1>6, <1>7, <1>8, <1>9, <1>10
     DEF Run, HidStep

-----------------------------------------------------------------------------
(* No prompt is left behind.  The invariant NoOrphanPrompt needs that a    *)
(* phone is asked at most once for a request, which needs that the rounds  *)
(* are disjoint, and that only a closed link has a sentinel.               *)

\* A sentinel is only ever in the queue of a link that is no longer alive.
SentinelMeansDown ==
    \A l \in Links : \A i \in 1 .. Len(queue[l]) :
        queue[l][i].number = 0 => link[l] \notin {"new", "up", "broken"}

\* A link is in one round only, and there is no second round before the plan.
RoundsDisjoint ==
    \A n \in Numbers :
        /\ targets[n] \cap rest[n] = {}
        /\ pc[n] \in {"none", "snapshot", "plan"} => rest[n] = {}

Delivered(l, n) == Asked(l, n) \/ Answered(l, n)

\* A phone holds a request at most once, and not while its answer is queued.
AskedOnce ==
    \A l \in Links :
        /\ \A i, j \in 1 .. Len(inbox[l]) : inbox[l][i] = inbox[l][j] => i = j
        /\ \A n \in Numbers : ~(Asked(l, n) /\ Answered(l, n))
        /\ link[l] = "new" => \A n \in Numbers : ~Asked(l, n)

\* The worker of n will not ask the phone on l any more.
Past(l, n) ==
    /\ pc[n] \notin {"none", "snapshot", "plan"}
    /\ l \notin rest[n]
    /\ pc[n] = "ask" => l \notin targets[n]

\* A phone that got the request is in no round that is still to be asked.
AskedLeavesRounds ==
    \A l \in Links, n \in Numbers : Delivered(l, n) => Past(l, n)

PromptInv ==
    /\ SentinelMeansDown /\ RoundsDisjoint /\ AskedOnce /\ AskedLeavesRounds
    /\ NoOrphanPrompt

\* Entries of a queue that one thread takes from or adds to.
LEMMA TakenEntries ==
    ASSUME TypeOK, NEW n \in Numbers, NEW l \in Links, PollOne(n, l)
    PROVE  /\ \A m \in Links : \A i \in 1 .. Len(queue'[m]) :
                \E j \in 1 .. Len(queue[m]) : queue'[m][i] = queue[m][j]
           /\ \A k \in Links, m \in Numbers : Answered(k, m)' => Answered(k, m)
<1>0. queue \in [Links -> Seq(Responses)]  BY DEF TypeOK
<1>1. queue[l] # <<>> /\ queue' = [queue EXCEPT ![l] = Tail(@)]  BY DEF PollOne
<1>2. /\ Len(queue[l]) \in Nat /\ Len(Tail(queue[l])) = Len(queue[l]) - 1
      /\ \A i \in 1 .. Len(queue[l]) - 1 : Tail(queue[l])[i] = queue[l][i + 1]
  BY <1>0, <1>1, TailEntries
<1>3. ASSUME NEW m \in Links, NEW i \in 1 .. Len(queue'[m])
      PROVE  \E j \in 1 .. Len(queue[m]) : queue'[m][i] = queue[m][j]
  <2>1. CASE m = l
    <3>1. queue'[m] = Tail(queue[l])  BY <1>0, <1>1, <2>1
    <3>2. i + 1 \in 1 .. Len(queue[l]) /\ queue'[m][i] = queue[l][i + 1]
      BY <1>2, <3>1
    <3> QED  BY <2>1, <3>2
  <2>2. CASE m # l
    BY <1>0, <1>1, <2>2
  <2> QED  BY <2>1, <2>2
<1>4. ASSUME NEW k \in Links, NEW m \in Numbers, Answered(k, m)'
      PROVE  Answered(k, m)
  BY <1>3, <1>4 DEF Answered
<1> QED  BY <1>3, <1>4

\* An answer or a sentinel added to a queue leaves the older entries in place.
LEMMA AddedEntries ==
    ASSUME TypeOK, NEW l \in Links, NEW e \in Responses,
           queue' = [queue EXCEPT ![l] = Append(@, e)]
    PROVE  /\ \A m \in Links : \A i \in 1 .. Len(queue'[m]) :
                \/ \E j \in 1 .. Len(queue[m]) : queue'[m][i] = queue[m][j]
                \/ m = l /\ queue'[m][i] = e
           /\ \A k \in Links, m \in Numbers :
                Answered(k, m)' => Answered(k, m) \/ (k = l /\ m = e.number)
<1>0. queue \in [Links -> Seq(Responses)]  BY DEF TypeOK
<1>2. /\ Len(queue[l]) \in Nat /\ Len(Append(queue[l], e)) = Len(queue[l]) + 1
      /\ \A i \in 1 .. Len(queue[l]) : Append(queue[l], e)[i] = queue[l][i]
      /\ Append(queue[l], e)[Len(queue[l]) + 1] = e
  BY <1>0, AppendEntries
<1>3. ASSUME NEW m \in Links, NEW i \in 1 .. Len(queue'[m])
      PROVE  \/ \E j \in 1 .. Len(queue[m]) : queue'[m][i] = queue[m][j]
             \/ m = l /\ queue'[m][i] = e
  <2>1. CASE m = l
    <3>1. queue'[m] = Append(queue[l], e)  BY <1>0, <2>1
    <3>2. i \in 1 .. Len(queue[l]) \/ i = Len(queue[l]) + 1  BY <1>2, <3>1
    <3> QED  BY <1>2, <2>1, <3>1, <3>2
  <2>2. CASE m # l
    BY <1>0, <2>2
  <2> QED  BY <2>1, <2>2
<1>4. ASSUME NEW k \in Links, NEW m \in Numbers, Answered(k, m)'
      PROVE  Answered(k, m) \/ (k = l /\ m = e.number)
  BY <1>3, <1>4 DEF Answered
<1> QED  BY <1>3, <1>4

\* A phone that answers takes the oldest request from its inbox.
LEMMA AnsweredEntries ==
    ASSUME TypeOK, AskedOnce, NEW l \in Links, PhoneAnswer(l)
    PROVE  /\ \A k \in Links, m \in Numbers :
                Asked(k, m)' <=> Asked(k, m) /\ ~(k = l /\ m = Head(inbox[l]))
           /\ \A k \in Links : \A i, j \in 1 .. Len(inbox'[k]) :
                inbox'[k][i] = inbox'[k][j] => i = j
           /\ Asked(l, Head(inbox[l])) /\ Head(inbox[l]) \in Numbers
<1>0. inbox \in [Links -> Seq(Numbers)]  BY DEF TypeOK
<1>1. inbox[l] # <<>> /\ inbox' = [inbox EXCEPT ![l] = Tail(@)]  BY DEF PhoneAnswer
<1>2. /\ Len(inbox[l]) \in Nat /\ Len(inbox[l]) > 0
      /\ Tail(inbox[l]) \in Seq(Numbers)
      /\ Len(Tail(inbox[l])) = Len(inbox[l]) - 1
      /\ \A i \in 1 .. Len(inbox[l]) - 1 : Tail(inbox[l])[i] = inbox[l][i + 1]
      /\ Head(inbox[l]) = inbox[l][1] /\ Head(inbox[l]) \in Numbers
  BY <1>0, <1>1, TailEntries
<1>3. \A i, j \in 1 .. Len(inbox[l]) : inbox[l][i] = inbox[l][j] => i = j
  BY DEF AskedOnce
<1>4. ASSUME NEW m \in Numbers
      PROVE  Asked(l, m)' <=> Asked(l, m) /\ m # Head(inbox[l])
  <2>1. inbox'[l] = Tail(inbox[l])  BY <1>0, <1>1
  <2>2. ASSUME Asked(l, m)' PROVE Asked(l, m) /\ m # Head(inbox[l])
    <3>1. PICK i \in 1 .. Len(inbox[l]) - 1 : inbox[l][i + 1] = m
      BY <1>2, <2>1, <2>2 DEF Asked
    <3>2. i + 1 \in 1 .. Len(inbox[l]) /\ 1 \in 1 .. Len(inbox[l]) /\ i + 1 # 1
      BY <1>2
    <3> QED  BY <1>2, <1>3, <3>1, <3>2 DEF Asked
  <2>3. ASSUME Asked(l, m), m # Head(inbox[l]) PROVE Asked(l, m)'
    <3>1. PICK i \in 1 .. Len(inbox[l]) : inbox[l][i] = m  BY <2>3 DEF Asked
    <3>2. i - 1 \in 1 .. Len(inbox[l]) - 1 /\ (i - 1) + 1 = i
      BY <1>2, <2>3, <3>1
    <3>3. Tail(inbox[l])[i - 1] = m  BY <1>2, <3>1, <3>2
    <3> QED  BY <1>2, <2>1, <3>2, <3>3 DEF Asked
  <2> QED  BY <2>2, <2>3
<1>5. ASSUME NEW k \in Links, k # l, NEW m \in Numbers PROVE Asked(k, m)' <=> Asked(k,
     m)
  BY <1>0, <1>1, <1>5 DEF Asked
<1>6. ASSUME NEW k \in Links, NEW i \in 1 .. Len(inbox'[k]),
     NEW j \in 1 .. Len(inbox'[k]),
             inbox'[k][i] = inbox'[k][j]
      PROVE  i = j
  <2>1. CASE k = l
    <3>1. inbox'[l] = Tail(inbox[l])  BY <1>0, <1>1
    <3>2. /\ i + 1 \in 1 .. Len(inbox[l]) /\ j + 1 \in 1 .. Len(inbox[l])
          /\ inbox[l][i + 1] = inbox[l][j + 1]
      BY <1>2, <1>6, <2>1, <3>1
    <3> QED  BY <1>3, <3>2
  <2>2. CASE k # l
    BY <1>0, <1>1, <1>6, <2>2 DEF AskedOnce
  <2> QED  BY <2>1, <2>2
<1>7. Asked(l, Head(inbox[l]))  BY <1>2 DEF Asked
<1> QED  BY <1>2, <1>4, <1>5, <1>6, <1>7

\* Sending the request of n to the targets that are up.
LEMMA AskEntries ==
    ASSUME TypeOK, AskedOnce, AskedLeavesRounds, NEW n \in Numbers, Ask(n)
    PROVE  /\ \A k \in Links, m \in Numbers :
                Asked(k, m)' <=> Asked(k, m) \/ (m = n /\ k \in targets[n] \cap Up)
           /\ \A k \in Links : \A i, j \in 1 .. Len(inbox'[k]) :
                inbox'[k][i] = inbox'[k][j] => i = j
<1>0. inbox \in [Links -> Seq(Numbers)]  BY DEF TypeOK
<1>1. /\ pc[n] = "ask"
      /\ inbox' = [k \in Links |-> IF k \in targets[n] \cap Up THEN Append(inbox[k], n)
                                                               ELSE inbox[k]]
  BY DEF Ask
<1>2. ASSUME NEW k \in Links
      PROVE  /\ Len(inbox[k]) \in Nat /\ Len(Append(inbox[k], n)) = Len(inbox[k]) + 1
             /\ \A i \in 1 .. Len(inbox[k]) : Append(inbox[k], n)[i] = inbox[k][i]
             /\ Append(inbox[k], n)[Len(inbox[k]) + 1] = n
  BY <1>0, AppendEntries
<1>3. ASSUME NEW k \in Links
      PROVE  /\ \A m \in Numbers :
                  Asked(k, m)' <=> Asked(k, m) \/ (m = n /\ k \in targets[n] \cap Up)
             /\ \A i, j \in 1 .. Len(inbox'[k]) : inbox'[k][i] = inbox'[k][j] => i = j
  <2>1. CASE k \in targets[n] \cap Up
    <3>1. inbox'[k] = Append(inbox[k], n)  BY <1>1, <2>1
    <3>2. ASSUME NEW m \in Numbers
          PROVE  Asked(k, m)' <=> Asked(k, m) \/ m = n
      <4>1. ASSUME Asked(k, m)' PROVE Asked(k, m) \/ m = n
        <5>1. PICK i \in 1 .. Len(inbox[k]) + 1 : Append(inbox[k], n)[i] = m
          BY <1>2, <3>1, <4>1 DEF Asked
        <5> QED  BY <1>2, <5>1 DEF Asked
      <4>2. ASSUME Asked(k, m) PROVE Asked(k, m)'
        <5>1. PICK i \in 1 .. Len(inbox[k]) : inbox[k][i] = m  BY <4>2 DEF Asked
        <5>2. i \in 1 .. Len(inbox'[k]) /\ inbox'[k][i] = m  BY <1>2, <3>1, <5>1
        <5> QED  BY <5>2 DEF Asked
      <4>3. ASSUME m = n PROVE Asked(k, m)'
        <5>1. /\ Len(inbox[k]) + 1 \in 1 .. Len(inbox'[k])
              /\ inbox'[k][Len(inbox[k]) + 1] = m
          BY <1>2, <3>1, <4>3
        <5> QED  BY <5>1 DEF Asked
      <4> QED  BY <4>1, <4>2, <4>3
    <3>3. ~Asked(k, n)  BY <1>1, <2>1 DEF AskedLeavesRounds, Delivered, Past
    <3>4. ASSUME NEW i \in 1 .. Len(inbox'[k]), NEW j \in 1 .. Len(inbox'[k]),
                 inbox'[k][i] = inbox'[k][j]
          PROVE  i = j
      <4>1. \A h \in 1 .. Len(inbox[k]) : inbox[k][h] # n  BY <3>3 DEF Asked
      <4>2. \A h \in 1 .. Len(inbox'[k]) :
              h = Len(inbox[k]) + 1 \/ h \in 1 .. Len(inbox[k])
        BY <1>2, <3>1
      <4> QED  BY <1>2, <3>1, <3>4, <4>1, <4>2 DEF AskedOnce
    <3> QED  BY <2>1, <3>2, <3>4
  <2>2. CASE k \notin targets[n] \cap Up
    <3>1. inbox'[k] = inbox[k]  BY <1>1, <2>2
    <3> QED  BY <2>2, <3>1 DEF Asked, AskedOnce
  <2> QED  BY <2>1, <2>2
<1> QED  BY <1>3

-----------------------------------------------------------------------------

\* The steps of the HID thread and the update loop leave the phones' answers
\* and the rounds alone.
LEMMA HidFrame ==
    ASSUME HidStep \/ UpdateCheck
    PROVE  UNCHANGED <<linkVars, inbox, queue, targets, rest, waiting>>
  BY DEF HidStep, Dispatch, Refuse, HidCancel, HidInit, HidClose, HidWithdraw,
         UpdateCheck, wireVars, workerVars, Freed

\* Only Ask and PollOne touch the queues, and no worker touches a link.
LEMMA WorkerFrame ==
    ASSUME NEW n \in Numbers, Worker(n) \/ Expire(n)
    PROVE  /\ UNCHANGED linkVars
           /\ ~Ask(n) => UNCHANGED inbox
           /\ (~\E l \in Links : PollOne(n, l)) => UNCHANGED queue
  BY DEF Worker, Snapshot, Plan, SkipRound, Ask, Publish, LoopHead, EndPass,
         PollNothing, PollOne, EndRound, Record, Check, Reply, Finish, Expire,
         wireVars, Unanswered, WinnerDevice, Released

\* A sentinel is only pushed by the close that ends the link.
LEMMA SentinelStep ==
    ASSUME TypeOK, SentinelMeansDown, [Run]_vars
    PROVE  SentinelMeansDown'
<1> DEFINE Alive == {"new", "up", "broken"}
<1>0. link \in [Links -> LinkStates]  BY DEF TypeOK
<1>1. CASE UNCHANGED <<link, queue>>
  BY <1>1 DEF SentinelMeansDown
<1>2. ASSUME NEW l \in Links,
             \/ Connect(l) \/ Break(l) \/ Remove(l) \/ SyncUhid(l) \/ SweepCancel(l)
             \/ SweepWithdraw(l)
      PROVE  SentinelMeansDown'
  <2>1. UNCHANGED queue
    BY <1>2 DEF Connect, Break, Remove, SyncUhid, SweepCancel, SweepWithdraw, wireVars
  <2>2. \A m \in Links : link[m] \notin Alive => link'[m] \notin Alive
    BY <1>0, <1>2 DEF Connect, Break, Remove, SyncUhid, SweepCancel, SweepWithdraw,
         linkVars
  <2> QED  BY <2>1, <2>2 DEF SentinelMeansDown
<1>3. ASSUME NEW l \in Links, Close(l) PROVE SentinelMeansDown'
  <2>1. Sentinel \in Responses  BY DEF Sentinel, Responses, Statuses
  <2>2. /\ link' = [link EXCEPT ![l] = "closed"]
        /\ queue' = [queue EXCEPT ![l] = Append(@, Sentinel)]
    BY <1>3 DEF Close, Ended
  <2>3. \A m \in Links : \A i \in 1 .. Len(queue'[m]) :
            (\E j \in 1 .. Len(queue[m]) : queue'[m][i] = queue[m][j]) \/ m = l
    BY <2>1, <2>2, AddedEntries
  <2> QED  BY <1>0, <2>2, <2>3 DEF SentinelMeansDown
<1>4. ASSUME NEW l \in Links, PhoneAnswer(l) PROVE SentinelMeansDown'
  <2>1. UNCHANGED link  BY <1>4 DEF PhoneAnswer, linkVars
  <2>2. Head(inbox[l]) \in Numbers
    <3>1. inbox[l] \in Seq(Numbers) /\ inbox[l] # <<>>  BY <1>4 DEF PhoneAnswer, TypeOK
    <3> QED  BY <3>1, TailEntries
  <2>3. ASSUME NEW s \in Replies,
               queue' = [queue EXCEPT ![l] =
                           Append(@, [number |-> Head(inbox[l]), status |-> s])]
        PROVE  SentinelMeansDown'
    <3> DEFINE e == [number |-> Head(inbox[l]), status |-> s]
    <3>1. e \in Responses /\ e.number # 0
      BY <2>2, BrokerAssumption DEF Responses, Numbers
    <3>2. \A m \in Links : \A i \in 1 .. Len(queue'[m]) :
              \/ \E j \in 1 .. Len(queue[m]) : queue'[m][i] = queue[m][j]
              \/ m = l /\ queue'[m][i] = e
      BY <2>3, <3>1, AddedEntries
    <3> HIDE DEF e
    <3> QED  BY <2>1, <3>1, <3>2 DEF SentinelMeansDown
  <2> QED  BY <1>1, <1>4, <2>1, <2>3 DEF PhoneAnswer
<1>5. ASSUME NEW n \in Numbers, NEW l \in Links, PollOne(n, l) PROVE SentinelMeansDown'
  <2>1. UNCHANGED link  BY <1>5 DEF PollOne, linkVars
  <2> QED  BY <1>5, <2>1, TakenEntries DEF SentinelMeansDown
<1>6. ASSUME NEW n \in Numbers, Worker(n) \/ Expire(n), ~\E l \in Links : PollOne(n, l)
      PROVE  UNCHANGED <<link, queue>>
  BY <1>6, WorkerFrame DEF linkVars
<1>7. CASE HidStep \/ UpdateCheck
  BY <1>1, <1>7, HidFrame DEF linkVars
<1>8. CASE UNCHANGED vars
  BY <1>1, <1>8 DEF vars, linkVars, wireVars
<1> QED
  BY <1>1, <1>2, <1>3, <1>4, <1>5, <1>6, <1>7, <1>8 DEF Run, LinkStep

\* A worker's rounds change where it plans, skips or ends one, or is done.
LEMMA RoundFrame ==
    ASSUME TypeOK, NEW n \in Numbers, Worker(n),
           ~Snapshot(n), ~Plan(n), ~SkipRound(n), ~EndRound(n), ~Finish(n)
    PROVE  /\ UNCHANGED <<targets, rest>>
           /\ pc[n] \notin {"none", "snapshot", "plan"}
           /\ \E p \in PcStates \ {"none", "snapshot", "plan", "ask"} :
                pc' = [pc EXCEPT ![n] = p]
<1> USE DEF PcStates, workerVars
<1>0. pc \in [Numbers -> PcStates]  BY DEF TypeOK
<1>1. CASE Ask(n)        BY <1>1 DEF Ask
<1>2. CASE Publish(n)    BY <1>2 DEF Publish
<1>3. CASE LoopHead(n)   BY <1>3 DEF LoopHead
<1>4. CASE EndPass(n)    BY <1>4 DEF EndPass
<1>5. CASE \E l \in Links : PollNothing(n, l) \/ PollOne(n, l)
  BY <1>0, <1>5 DEF PollNothing, PollOne
<1>6. CASE Record(n)     BY <1>6 DEF Record, WinnerDevice
<1>7. CASE Check(n)      BY <1>7 DEF Check
<1>8. CASE Reply(n)      BY <1>8 DEF Reply
<1> QED
  BY <1>1, <1>2, <1>3, <1>4, <1>5, <1>6, <1>7, <1>8 DEF Worker

\* The rounds stay disjoint, and what is past stays past.
LEMMA RoundsStep ==
    ASSUME TypeOK, Fresh, RoundsDisjoint, [Run]_vars
    PROVE  /\ RoundsDisjoint'
           /\ \A l \in Links, m \in Numbers : Past(l, m) => Past(l, m)'
<1> USE DEF RoundsDisjoint, Past
<1> DEFINE Goal == /\ RoundsDisjoint'
                   /\ \A l \in Links, m \in Numbers : Past(l, m) => Past(l, m)'
<1>0. /\ pc \in [Numbers -> PcStates] /\ targets \in [Numbers -> SUBSET Links]
      /\ rest \in [Numbers -> SUBSET Links]
  BY DEF TypeOK
<1>1. CASE UNCHANGED <<pc, targets, rest>>
  BY <1>1
<1>2. ASSUME NEW c \in Channels, NEW k \in Kinds, Dispatch(c, k) PROVE Goal
  <2>1. /\ nextRequest \in Numbers /\ pc[nextRequest] = "none"
        /\ pc' = [pc EXCEPT ![nextRequest] = "snapshot"] /\ UNCHANGED <<targets, rest>>
    <3>1. nextRequest \in Numbers /\ nextRequest >= nextRequest
      BY <1>2, BrokerAssumption DEF Dispatch, Numbers
    <3> QED  BY <1>2, <3>1 DEF Dispatch, Fresh
  <2> QED  BY <1>0, <2>1
<1>3. ASSUME NEW n \in Numbers, Snapshot(n) PROVE Goal
  <2>1. PICK p \in {"plan", "ask"} : pc' = [pc EXCEPT ![n] = p]
    BY <1>3 DEF Snapshot
  <2>2. \A m \in Numbers \ {n} : targets'[m] = targets[m]
    BY <1>0, <1>3 DEF Snapshot
  <2>3. pc[n] = "snapshot" /\ UNCHANGED rest  BY <1>3 DEF Snapshot
  <2> QED  BY <1>0, <2>1, <2>2, <2>3
<1>4. ASSUME NEW n \in Numbers, Plan(n) PROVE Goal
  <2>1. pc[n] = "plan" /\ pc' = [pc EXCEPT ![n] = "ask"]  BY <1>4 DEF Plan
  <2>2. \A m \in Numbers \ {n} : targets'[m] = targets[m] /\ rest'[m] = rest[m]
    BY <1>0, <1>4 DEF Plan
  <2>3. targets'[n] \cap rest'[n] = {}
    <3> DEFINE held == {l \in targets[n] : DeviceOf[l] \in holders}
    <3>1. CASE kind[n] = "assert" /\ held # {}
      <4>1. /\ targets' = [targets EXCEPT ![n] = held]
            /\ rest' = [rest EXCEPT ![n] = targets[n] \ held]
        BY <1>4, <3>1 DEF Plan
      <4>2. targets'[n] = held /\ rest'[n] = targets[n] \ held  BY <1>0, <4>1
      <4> QED  BY <4>2
    <3>2. CASE ~(kind[n] = "assert" /\ held # {})
      <4>1. UNCHANGED rest  BY <1>4, <3>2 DEF Plan
      <4> QED  BY <2>1, <4>1
    <3> QED  BY <3>1, <3>2
  <2> QED  BY <1>0, <2>1, <2>2, <2>3
<1>5. ASSUME NEW n \in Numbers, SkipRound(n) PROVE Goal
  <2>1. /\ pc[n] = "ask" /\ pc'[n] \in {"check", "ask"}
        /\ pc' = [pc EXCEPT ![n] = pc'[n]]
        /\ targets' = [targets EXCEPT ![n] = rest[n]] /\ rest' = [rest EXCEPT ![n] = {}]
    BY <1>0, <1>5 DEF SkipRound
  <2> QED  BY <1>0, <2>1
<1>6. ASSUME NEW n \in Numbers, EndRound(n) PROVE Goal
  <2>1. /\ pc[n] = "clear" /\ pc' = [pc EXCEPT ![n] = pc'[n]]
        /\ pc'[n] \in {"ask", "check", "record"}
    BY <1>0, <1>6 DEF EndRound, Unanswered
  <2>2. \/ targets' = [targets EXCEPT ![n] = rest[n]] /\ rest' = [rest EXCEPT ![n] = {}]
        \/ UNCHANGED <<targets, rest>> /\ pc'[n] # "ask"
    BY <1>0, <1>6 DEF EndRound, Unanswered
  <2> QED  BY <1>0, <2>1, <2>2
<1>7. ASSUME NEW n \in Numbers, Finish(n) PROVE Goal
  <2>1. /\ pc' = [pc EXCEPT ![n] = "done"]
        /\ targets' = [targets EXCEPT ![n] = {}] /\ rest' = [rest EXCEPT ![n] = {}]
    BY <1>7 DEF Finish, Released
  <2> QED  BY <1>0, <2>1
<1>8. ASSUME NEW n \in Numbers, Worker(n),
             ~Snapshot(n), ~Plan(n), ~SkipRound(n), ~EndRound(n), ~Finish(n)
      PROVE  Goal
  <2>1. UNCHANGED <<targets, rest>> /\ pc[n] \notin {"none", "snapshot", "plan"}
    BY <1>8, RoundFrame
  <2>2. PICK p \in PcStates \ {"none", "snapshot", "plan", "ask"} :
          pc' = [pc EXCEPT ![n] = p]
    BY <1>8, RoundFrame
  <2> QED  BY <1>0, <2>1, <2>2
<1>9. ASSUME NEW l \in Links, LinkStep(l) PROVE UNCHANGED <<pc, targets, rest>>
  BY <1>9, LinkFrame DEF workerVars
<1>10. ASSUME NEW n \in Numbers, Expire(n) PROVE UNCHANGED <<pc, targets, rest>>
  BY <1>10 DEF Expire
<1>11. ASSUME NEW c \in Channels, Refuse(c) \/ HidCancel(c) \/ HidInit(c)
       PROVE  UNCHANGED <<pc, targets, rest>>
  BY <1>11 DEF Refuse, HidCancel, HidInit, workerVars, Freed
<1>12. CASE HidClose \/ HidWithdraw \/ UpdateCheck
  BY <1>1, <1>12 DEF HidClose, HidWithdraw, UpdateCheck, workerVars
<1>13. CASE UNCHANGED vars
  BY <1>1, <1>13 DEF vars, workerVars
<1> QED
  BY <1>1, <1>2, <1>3, <1>4, <1>5, <1>6, <1>7, <1>8, <1>9, <1>10, <1>11, <1>12, <1>13
     DEF Run, HidStep

\* The steps that put nothing into an inbox and nothing real into a queue.
LEMMA DeliveryFrame ==
    ASSUME TypeOK, [Run]_vars,
           ~\E n \in Numbers : Ask(n), ~\E l \in Links : PhoneAnswer(l)
    PROVE  /\ UNCHANGED inbox
           /\ \A l \in Links, m \in Numbers : Answered(l, m)' => Answered(l, m)
<1>1. CASE UNCHANGED <<inbox, queue>>
  BY <1>1 DEF Answered
<1>2. ASSUME NEW l \in Links, Close(l)
      PROVE  \A k \in Links, m \in Numbers : Answered(k, m)' => Answered(k, m)
  <2>1. Sentinel \in Responses  BY DEF Sentinel, Responses, Statuses
  <2>2. queue' = [queue EXCEPT ![l] = Append(@, Sentinel)]  BY <1>2 DEF Close, Ended
  <2>3. \A m \in Numbers : m # Sentinel.number  BY DEF Sentinel, Numbers
  <2> QED  BY <2>1, <2>2, <2>3, AddedEntries
<1>3. ASSUME NEW l \in Links, LinkStep(l), ~Close(l) PROVE UNCHANGED <<inbox, queue>>
  BY <1>3 DEF LinkStep, Connect, Break, Remove, SyncUhid, SweepCancel, SweepWithdraw,
     wireVars
<1>4. ASSUME NEW l \in Links, Close(l) PROVE UNCHANGED inbox
  BY <1>4 DEF Close, Ended
<1>5. ASSUME NEW n \in Numbers, NEW l \in Links, PollOne(n, l)
      PROVE  /\ UNCHANGED inbox
             /\ \A k \in Links, m \in Numbers : Answered(k, m)' => Answered(k, m)
  <2>1. UNCHANGED inbox  BY <1>5 DEF PollOne
  <2> QED  BY <1>5, <2>1, TakenEntries
<1>6. ASSUME NEW n \in Numbers, Worker(n) \/ Expire(n), ~\E l \in Links : PollOne(n, l)
      PROVE  UNCHANGED <<inbox, queue>>
  BY <1>6, WorkerFrame
<1>7. CASE HidStep \/ UpdateCheck
  BY <1>1, <1>7, HidFrame
<1>8. CASE UNCHANGED vars
  BY <1>1, <1>8 DEF vars, wireVars
<1> QED
  BY <1>1, <1>2, <1>3, <1>4, <1>5, <1>6, <1>7, <1>8 DEF Run

\* A link that becomes "new" does not exist; only live links come up.
LEMMA NewLinks ==
    ASSUME TypeOK, [Run]_vars
    PROVE  \A l \in Links : link'[l] = "new" => link[l] = "new"
<1>0. link \in [Links -> LinkStates]  BY DEF TypeOK
<1>1. ASSUME NEW k \in Links, LinkStep(k)
      PROVE  \A l \in Links : link'[l] = "new" => link[l] = "new"
  BY <1>0, <1>1 DEF LinkStep, Connect, Break, Close, Remove, SyncUhid, SweepCancel,
     SweepWithdraw, PhoneAnswer, linkVars, Ended
<1>2. ASSUME NEW n \in Numbers, Worker(n) \/ Expire(n) PROVE UNCHANGED link
  BY <1>2, WorkerFrame DEF linkVars
<1>3. CASE HidStep \/ UpdateCheck  BY <1>3, HidFrame DEF linkVars
<1>4. CASE UNCHANGED vars  BY <1>4 DEF vars, linkVars
<1> QED  BY <1>1, <1>2, <1>3, <1>4 DEF Run

\* A phone is asked at most once for a request.
LEMMA AskedStep ==
    ASSUME TypeOK, Fresh, RoundsDisjoint, AskedOnce, AskedLeavesRounds, [Run]_vars
    PROVE  AskedOnce' /\ AskedLeavesRounds'
<1>0. \A l \in Links, m \in Numbers : Past(l, m) => Past(l, m)'
  BY RoundsStep
<1>1. \A l \in Links : link'[l] = "new" => link[l] = "new"
  BY NewLinks
<1>2. ASSUME NEW n \in Numbers, Ask(n) PROVE AskedOnce' /\ AskedLeavesRounds'
  <2>1. \A k \in Links, m \in Numbers :
            Asked(k, m)' <=> Asked(k, m) \/ (m = n /\ k \in targets[n] \cap Up)
    BY <1>2, AskEntries
  <2>2. \A k \in Links : \A i, j \in 1 .. Len(inbox'[k]) :
            inbox'[k][i] = inbox'[k][j] => i = j
    BY <1>2, AskEntries
  <2>3. UNCHANGED <<link, queue>> /\ pc[n] = "ask"  BY <1>2 DEF Ask, linkVars
  <2>4. \A k \in Links, m \in Numbers : Answered(k, m)' <=> Answered(k, m)
    BY <2>3 DEF Answered
  <2>5. \A k \in targets[n] : ~Answered(k, n)
    <3>1. targets[n] \in SUBSET Links  BY DEF TypeOK
    <3> QED  BY <2>3, <3>1 DEF AskedLeavesRounds, Delivered, Past
  <2>6. AskedOnce'
    <3>1. \A k \in Links, m \in Numbers : ~(Asked(k, m)' /\ Answered(k, m)')
      BY <2>1, <2>4, <2>5 DEF AskedOnce
    <3>2. \A k \in Links : link'[k] = "new" => \A m \in Numbers : ~Asked(k, m)'
      BY <2>1, <2>3 DEF AskedOnce, Up
    <3> QED  BY <2>2, <3>1, <3>2 DEF AskedOnce
  <2>7. \A k \in targets[n] : Past(k, n)'
    <3>1. /\ UNCHANGED <<targets, rest>> /\ pc' = [pc EXCEPT ![n] = "publish"]
          /\ pc \in [Numbers -> PcStates]
      BY <1>2 DEF Ask, TypeOK
    <3> QED  BY <3>1 DEF Past, RoundsDisjoint
  <2>8. AskedLeavesRounds'
    BY <1>0, <2>1, <2>4, <2>7 DEF AskedLeavesRounds, Delivered
  <2> QED  BY <2>6, <2>8
<1>3. ASSUME NEW l \in Links, PhoneAnswer(l) PROVE AskedOnce' /\ AskedLeavesRounds'
  <2> DEFINE h == Head(inbox[l])
  <2>1. /\ \A k \in Links, m \in Numbers :
              Asked(k, m)' <=> Asked(k, m) /\ ~(k = l /\ m = h)
        /\ \A k \in Links : \A i, j \in 1 .. Len(inbox'[k]) :
              inbox'[k][i] = inbox'[k][j] => i = j
        /\ Asked(l, h) /\ h \in Numbers
    BY <1>3, AnsweredEntries
  <2>2. \A k \in Links, m \in Numbers :
            Answered(k, m)' => Answered(k, m) \/ (k = l /\ m = h)
    <3>1. CASE UNCHANGED queue  BY <3>1 DEF Answered
    <3>2. ASSUME NEW s \in Replies,
                 queue' = [queue EXCEPT ![l] = Append(@, [number |-> h, status |-> s])]
          PROVE  \A k \in Links, m \in Numbers :
                    Answered(k, m)' => Answered(k, m) \/ (k = l /\ m = h)
      <4> DEFINE e == [number |-> h, status |-> s]
      <4>1. e \in Responses  BY <2>1, BrokerAssumption DEF Responses
      <4>2. e.number = h  OBVIOUS
      <4>3. queue' = [queue EXCEPT ![l] = Append(@, e)]  BY <3>2
      <4> HIDE DEF h, e
      <4>4. \A k \in Links, m \in Numbers :
                Answered(k, m)' => Answered(k, m) \/ (k = l /\ m = e.number)
        BY <4>1, <4>3, AddedEntries
      <4> QED  BY <4>2, <4>4
    <3> QED  BY <1>3, <3>1, <3>2 DEF PhoneAnswer
  <2> HIDE DEF h
  <2>3. AskedOnce'
    <3>1. \A k \in Links, m \in Numbers : ~(Asked(k, m)' /\ Answered(k, m)')
      BY <2>1, <2>2 DEF AskedOnce
    <3>2. \A k \in Links : link'[k] = "new" => \A m \in Numbers : ~Asked(k, m)'
      BY <1>1, <2>1 DEF AskedOnce
    <3> QED  BY <2>1, <3>1, <3>2 DEF AskedOnce
  <2>4. \A k \in Links, m \in Numbers : Delivered(k, m)' => Delivered(k, m)
    BY <2>1, <2>2 DEF Delivered
  <2> QED  BY <1>0, <2>3, <2>4 DEF AskedLeavesRounds
<1>4. CASE (~\E n \in Numbers : Ask(n)) /\ (~\E l \in Links : PhoneAnswer(l))
  <2>1. /\ UNCHANGED inbox
        /\ \A l \in Links, m \in Numbers : Answered(l, m)' => Answered(l, m)
    BY <1>4, DeliveryFrame
  <2>2. \A l \in Links, m \in Numbers : Asked(l, m)' <=> Asked(l, m)
    BY <2>1 DEF Asked
  <2>3. AskedOnce'
    <3>1. \A k \in Links, m \in Numbers : ~(Asked(k, m)' /\ Answered(k, m)')
      BY <2>1, <2>2 DEF AskedOnce
    <3>2. \A k \in Links : link'[k] = "new" => \A m \in Numbers : ~Asked(k, m)'
      BY <1>1, <2>2 DEF AskedOnce
    <3>3. \A k \in Links : \A i, j \in 1 .. Len(inbox'[k]) :
            inbox'[k][i] = inbox'[k][j] => i = j
      BY <2>1 DEF AskedOnce
    <3> QED  BY <3>1, <3>2, <3>3 DEF AskedOnce
  <2>4. \A k \in Links, m \in Numbers : Delivered(k, m)' => Delivered(k, m)
    BY <2>1, <2>2 DEF Delivered
  <2> QED  BY <1>0, <2>3, <2>4 DEF AskedLeavesRounds
<1> QED  BY <1>2, <1>3, <1>4

\* The worker of n waits for the phone on l.
Attended(l, n) == pc[n] \in {"publish", "head", "poll", "clear"} /\ l \in waiting[n]

\* What a worker's own step does to the phones it waits for.
LEMMA WorkerAttends ==
    ASSUME TypeOK, SentinelMeansDown, AskedOnce, AskedLeavesRounds, NoOrphanPrompt,
           NEW n \in Numbers, Worker(n), NEW l \in Links,
           Asked(l, n)', link[l] = "up", n \notin withdrawn'[l]
    PROVE  Attended(l, n)'
<1> USE DEF Attended, NoOrphanPrompt
<1>0. /\ pc \in [Numbers -> PcStates] /\ waiting \in [Numbers -> SUBSET Links]
      /\ withdrawn \in [Links -> SUBSET Numbers] /\ queue \in [Links -> Seq(Responses)]
      /\ targets \in [Numbers -> SUBSET Links]
  BY DEF TypeOK
<1>1. CASE Ask(n)
  <2>1. pc' = [pc EXCEPT ![n] = "publish"] /\ pc[n] = "ask" /\ UNCHANGED withdrawn
    BY <1>1 DEF Ask
  <2>2. Asked(l, n) \/ l \in targets[n] \cap Up  BY <1>1, AskEntries
  <2>3. ~Asked(l, n)  BY <2>1
  <2>4. targets[n] \cap Up \subseteq waiting'[n]  BY <1>0, <1>1 DEF Ask
  <2> QED  BY <1>0, <2>1, <2>2, <2>3, <2>4
<1>2. CASE ~Ask(n)
  <2>1. UNCHANGED inbox  BY <1>2, WorkerFrame
  <2>2. Asked(l, n)  BY <2>1 DEF Asked
  <2>3. CASE EndRound(n)
    <3>1. l \in Up  BY DEF Up
    <3>2. l \notin waiting[n] /\ withdrawn[l] \subseteq withdrawn'[l]
      BY <1>0, <2>3, <3>1 DEF EndRound, SendCancel, Unanswered
    <3> QED  BY <2>2, <3>2
  <2>4. ASSUME NEW k \in Links, PollOne(n, k) PROVE Attended(l, n)'
    <3> DEFINE r == Head(queue[k])
    <3>1. /\ queue[k] # <<>> /\ UNCHANGED <<pc, withdrawn>> /\ Take(n, k, r)
      BY <2>4 DEF PollOne
    <3>2. Attended(l, n)  BY <2>2, <3>1
    <3>3. 1 \in 1 .. Len(queue[k]) /\ r = queue[k][1]
      BY <1>0, <3>1, TailEntries
    <3>4. CASE k # l
      <4> HIDE DEF r
      <4>1. waiting' = waiting \/ waiting' = [waiting EXCEPT ![n] = @ \ {k}]
        BY <3>1 DEF Take
      <4> QED  BY <1>0, <3>1, <3>2, <3>4, <4>1
    <3>5. CASE k = l
      <4>1. r # Sentinel  BY <3>3, <3>5 DEF SentinelMeansDown, Sentinel
      <4>2. ~Matches(n, r)
        BY <2>2, <3>3, <3>5 DEF AskedOnce, Answered, Matches
      <4> HIDE DEF r
      <4>3. waiting' = waiting  BY <3>1, <4>1, <4>2 DEF Take
      <4> QED  BY <3>1, <3>2, <4>3
    <3> QED  BY <3>4, <3>5
  <2>5. CASE ~EndRound(n) /\ ~\E k \in Links : PollOne(n, k)
    <3>1. UNCHANGED <<waiting, withdrawn>>
      BY <1>2, <2>5 DEF Worker, Snapshot, Plan, SkipRound, Publish, LoopHead, EndPass,
         PollNothing, Record, Check, Reply, Finish, wireVars, WinnerDevice, Released
    <3>2. Attended(l, n)  BY <2>2, <3>1
    <3>3. pc'[n] \in {"publish", "head", "poll", "clear"}
      BY <1>0, <1>2, <2>5, <3>2 DEF Worker, Snapshot, Plan, SkipRound, Publish,
         LoopHead, EndPass, PollNothing, Record, Check, Reply, Finish, WinnerDevice,
         Released
    <3> QED  BY <3>1, <3>2, <3>3
  <2> QED  BY <2>3, <2>4, <2>5
<1> QED  BY <1>1, <1>2

\* A worker's step leaves the other requests alone and withdraws no CANCEL.
LEMMA OtherWorkers ==
    ASSUME TypeOK, NEW n \in Numbers, Worker(n), NEW m \in Numbers, m # n
    PROVE  /\ pc'[m] = pc[m] /\ waiting'[m] = waiting[m]
           /\ \A l \in Links : withdrawn[l] \subseteq withdrawn'[l]
<1>0. /\ pc \in [Numbers -> PcStates] /\ waiting \in [Numbers -> SUBSET Links]
      /\ withdrawn \in [Links -> SUBSET Numbers]
  BY DEF TypeOK
<1>1. CASE EndRound(n)
  BY <1>0, <1>1 DEF EndRound, SendCancel, Unanswered
<1>2. ASSUME NEW l \in Links, PollOne(n, l)
      PROVE  /\ pc'[m] = pc[m] /\ waiting'[m] = waiting[m]
             /\ \A k \in Links : withdrawn[k] \subseteq withdrawn'[k]
  BY <1>0, <1>2 DEF PollOne, Take
<1>3. CASE ~EndRound(n) /\ ~\E l \in Links : PollOne(n, l)
  BY <1>0, <1>3 DEF Worker, Snapshot, Plan, SkipRound, Ask, Publish, LoopHead, EndPass,
     PollNothing, Record, Check, Reply, Finish, wireVars, WinnerDevice, Released
<1> QED  BY <1>1, <1>2, <1>3

\* No step leaves a prompt behind.
LEMMA OrphanStep ==
    ASSUME TypeOK, Fresh, PromptInv, [Run]_vars
    PROVE  NoOrphanPrompt'
<1> USE DEF PromptInv
<1> SUFFICES ASSUME NEW l \in Links, NEW n \in Numbers,
                    Asked(l, n)', link'[l] = "up", n \notin withdrawn'[l]
             PROVE  Attended(l, n)'
  BY DEF NoOrphanPrompt, Attended
<1>0. /\ link \in [Links -> LinkStates] /\ withdrawn \in [Links -> SUBSET Numbers]
      /\ pc \in [Numbers -> PcStates]
  BY DEF TypeOK
<1>1. CASE UNCHANGED <<link, inbox, withdrawn, pc, waiting>>
  BY <1>1 DEF NoOrphanPrompt, Attended, Asked
<1>2. ASSUME NEW k \in Links, LinkStep(k) PROVE Attended(l, n)'
  <2>1. UNCHANGED <<pc, waiting>>  BY <1>2, LinkFrame DEF workerVars
  <2>2. Asked(l, n)
    <3>1. CASE PhoneAnswer(k)  BY <3>1, AnsweredEntries
    <3>2. CASE ~PhoneAnswer(k)
      <4>1. UNCHANGED inbox
        BY <1>2, <3>2 DEF LinkStep, Connect, Break, Close, Remove, SyncUhid,
           SweepCancel, SweepWithdraw, wireVars, Ended
      <4> QED  BY <4>1 DEF Asked
    <3> QED  BY <3>1, <3>2
  <2>3. link[l] \in {"new", "up"} /\ withdrawn[l] \subseteq withdrawn'[l]
    BY <1>0, <1>2 DEF LinkStep, Connect, Break, Close, Remove, SyncUhid, SweepCancel,
       SweepWithdraw, PhoneAnswer, SendCancel, wireVars, linkVars, Ended
  <2>4. link[l] = "up"  BY <2>2, <2>3 DEF AskedOnce
  <2> QED  BY <2>1, <2>2, <2>3, <2>4 DEF NoOrphanPrompt, Attended
<1>3. ASSUME NEW c \in Channels, NEW k \in Kinds, Dispatch(c, k) PROVE Attended(l, n)'
  <2>1. UNCHANGED <<link, inbox, withdrawn,
       waiting>> /\ pc' = [pc EXCEPT ![nextRequest] = "snapshot"]
    BY <1>3 DEF Dispatch, linkVars, wireVars
  <2>2. Asked(l, n) /\ Attended(l, n)
    BY <2>1 DEF Asked, NoOrphanPrompt, Attended
  <2>3. n # nextRequest
    <3>1. nextRequest \in Numbers => pc[nextRequest] = "none"
      BY BrokerAssumption DEF Fresh, Numbers
    <3> QED  BY <2>2, <3>1 DEF Attended
  <2> QED  BY <1>0, <2>1, <2>2, <2>3 DEF Attended
<1>4. ASSUME NEW c \in Channels, Refuse(c) \/ HidCancel(c) \/ HidInit(c)
      PROVE  UNCHANGED <<link, inbox, withdrawn, pc, waiting>>
  BY <1>4 DEF Refuse, HidCancel, HidInit, linkVars, wireVars, workerVars, Freed
<1>5. CASE HidClose \/ UpdateCheck
  BY <1>1, <1>5 DEF HidClose, UpdateCheck, linkVars, wireVars, workerVars
<1>6. CASE HidWithdraw
  <2>1. UNCHANGED <<link, inbox, pc, waiting>> /\ withdrawn[l] \subseteq withdrawn'[l]
    BY <1>0, <1>6 DEF HidWithdraw, SendCancel, linkVars, workerVars
  <2> QED  BY <2>1 DEF NoOrphanPrompt, Attended, Asked
<1>7. ASSUME NEW m \in Numbers, Worker(m) PROVE Attended(l, n)'
  <2>1. link[l] = "up"  BY <1>7, WorkerFrame DEF linkVars
  <2>2. CASE m = n  BY <1>7, <2>1, <2>2, WorkerAttends
  <2>3. CASE m # n
    <3>1. /\ pc'[n] = pc[n] /\ waiting'[n] = waiting[n]
          /\ withdrawn[l] \subseteq withdrawn'[l]
      BY <1>7, <2>3, OtherWorkers
    <3>2. Asked(l, n)
      <4>1. CASE Ask(m)  BY <2>3, <4>1, AskEntries
      <4>2. CASE ~Ask(m)
        <5>1. UNCHANGED inbox  BY <1>7, <4>2, WorkerFrame
        <5> QED  BY <5>1 DEF Asked
      <4> QED  BY <4>1, <4>2
    <3> QED  BY <2>1, <3>1, <3>2 DEF NoOrphanPrompt, Attended
  <2> QED  BY <2>2, <2>3
<1>8. ASSUME NEW m \in Numbers, Expire(m)
      PROVE  UNCHANGED <<link, inbox, withdrawn, pc, waiting>>
  BY <1>8 DEF Expire, linkVars, wireVars
<1>9. CASE UNCHANGED vars
  BY <1>1, <1>9 DEF vars, linkVars, wireVars, workerVars
<1> QED
  BY <1>1, <1>2, <1>3, <1>4, <1>5, <1>6, <1>7, <1>8, <1>9 DEF Run, HidStep

-----------------------------------------------------------------------------
(* One prompt per device.                                                  *)

\* Of two registered links, one was pushed to Daemon.links before the other.
BeforeTotal ==
    \A l, m \in Links :
        /\ l # m
        /\ link[l] \in {"up", "broken", "closed"}
        /\ link[m] \in {"up", "broken", "closed"}
        => l \in before[m] \/ m \in before[l]

\* Before its plan a worker has asked nobody.
NothingAskedYet ==
    \A n \in Numbers : pc[n] \in {"none", "snapshot", "plan"} =>
        rest[n] = {} /\ waiting[n] = {}

\* Of two live links to one device, by_device keeps one.
LEMMA ByDeviceOnce ==
    ASSUME TypeOK, BeforeTotal, NEW l \in ByDevice, NEW m \in ByDevice,
           DeviceOf[l] = DeviceOf[m]
    PROVE  l = m
<1>1. /\ l \in Live /\ m \in Live /\ l \in Links /\ m \in Links
      /\ ~Precedes(l, m) /\ ~Precedes(m, l)
  BY DEF ByDevice, Live
<1>2. Priority[l] \in Nat /\ Priority[m] \in Nat
  BY <1>1, BrokerAssumption
<1>3. Priority[l] = Priority[m] /\ l \notin before[m] /\ m \notin before[l]
  BY <1>1, <1>2 DEF Precedes
<1>4. link[l] \in {"up", "broken", "closed"} /\ link[m] \in {"up", "broken", "closed"}
  BY <1>1 DEF Live
<1> QED  BY <1>1, <1>3, <1>4 DEF BeforeTotal

\* The order of the links is total at every step.
LEMMA BeforeStep ==
    ASSUME TypeOK, BeforeTotal, [Run]_vars
    PROVE  BeforeTotal'
<1>0. link \in [Links -> LinkStates] /\ before \in [Links -> SUBSET Links]
  BY DEF TypeOK
<1>1. CASE UNCHANGED linkVars
  BY <1>1 DEF linkVars, BeforeTotal
<1>2. ASSUME NEW l \in Links, Connect(l) PROVE BeforeTotal'
  <2>1. /\ link' = [link EXCEPT ![l] = "up"]
        /\ before' = [before EXCEPT ![l] =
                        {m \in Links : link[m] \in {"up", "broken", "closed"}}]
    BY <1>2 DEF Connect
  <2> QED  BY <1>0, <2>1 DEF BeforeTotal
<1>3. ASSUME NEW l \in Links, LinkStep(l), ~Connect(l) PROVE BeforeTotal'
  <2>1. UNCHANGED before
    BY <1>3 DEF LinkStep, Break, Close, Remove, SyncUhid, SweepCancel, SweepWithdraw,
       PhoneAnswer, linkVars, Ended
  <2>2. \A m \in Links : link'[m] \in {"up", "broken", "closed"} =>
                         link[m] \in {"up", "broken", "closed"}
    BY <1>0, <1>3 DEF LinkStep, Break, Close, Remove, SyncUhid, SweepCancel,
       SweepWithdraw, PhoneAnswer, linkVars, Ended
  <2> QED  BY <2>1, <2>2 DEF BeforeTotal
<1>4. ASSUME NEW n \in Numbers, Worker(n) \/ Expire(n) PROVE UNCHANGED linkVars
  BY <1>4, WorkerFrame
<1>5. CASE HidStep \/ UpdateCheck  BY <1>1, <1>5, HidFrame
<1>6. CASE UNCHANGED vars  BY <1>1, <1>6 DEF vars
<1> QED  BY <1>1, <1>2, <1>3, <1>4, <1>5, <1>6 DEF Run

\* A worker that has left the plan asks only links it already meant to ask.
LEMMA RoundsShrink ==
    ASSUME TypeOK, NEW n \in Numbers, Worker(n), ~Snapshot(n)
    PROVE  targets'[n] \cup rest'[n] \cup waiting'[n]
               \subseteq targets[n] \cup rest[n] \cup waiting[n]
<1>0. /\ targets \in [Numbers -> SUBSET Links] /\ rest \in [Numbers -> SUBSET Links]
      /\ waiting \in [Numbers -> SUBSET Links]
  BY DEF TypeOK
<1>1. CASE Plan(n)
  <2> DEFINE held == {l \in targets[n] : DeviceOf[l] \in holders}
  <2>1. UNCHANGED waiting  BY <1>1 DEF Plan
  <2>2. CASE kind[n] = "assert" /\ held # {}
    <3>1. /\ targets' = [targets EXCEPT ![n] = held]
          /\ rest' = [rest EXCEPT ![n] = targets[n] \ held]
      BY <1>1, <2>2 DEF Plan
    <3>2. targets'[n] \subseteq targets[n] /\ rest'[n] \subseteq targets[n]
      BY <1>0, <3>1
    <3> QED  BY <2>1, <3>2
  <2>3. CASE ~(kind[n] = "assert" /\ held # {})
    <3>1. /\ targets' = [targets EXCEPT ![n] =
                           CASE kind[n] = "info" -> First(targets[n])
                             [] kind[n] = "next" -> Find(targets[n], last)
                             [] OTHER -> targets[n]]
          /\ rest' = rest
      BY <1>1, <2>3 DEF Plan
    <3>2. targets'[n] \subseteq targets[n]
      <4>1. First(targets[n]) \subseteq targets[n] /\ Find(targets[n],
           last) \subseteq targets[n]
        BY DEF First, Find
      <4> QED  BY <1>0, <3>1, <4>1
    <3> QED  BY <2>1, <3>1, <3>2
  <2> QED  BY <2>2, <2>3
<1>2. CASE SkipRound(n)  BY <1>0, <1>2 DEF SkipRound
<1>3. CASE Ask(n)        BY <1>0, <1>3 DEF Ask
<1>4. CASE EndRound(n)   BY <1>0, <1>4 DEF EndRound, Unanswered
<1>5. CASE Finish(n)     BY <1>0, <1>5 DEF Finish, Released
<1>6. ASSUME NEW l \in Links, PollOne(n, l)
      PROVE  UNCHANGED <<targets, rest>> /\ waiting'[n] \subseteq waiting[n]
  BY <1>0, <1>6 DEF PollOne, Take
<1>7. CASE \/ Publish(n) \/ LoopHead(n) \/ EndPass(n) \/ Record(n) \/ Check(n) \/ Reply(n)
           \/ \E l \in Links : PollNothing(n, l)
  BY <1>7 DEF Publish, LoopHead, EndPass, PollNothing, Record, Check, Reply,
       WinnerDevice
<1> QED  BY <1>1, <1>2, <1>3, <1>4, <1>5, <1>6, <1>7 DEF Worker

\* A worker's step leaves the rounds of the other requests alone.
LEMMA OtherRounds ==
    ASSUME TypeOK, NEW n \in Numbers, Worker(n), NEW m \in Numbers, m # n
    PROVE  targets'[m] = targets[m] /\ rest'[m] = rest[m] /\ waiting'[m] = waiting[m]
<1>0. targets \in [Numbers -> SUBSET Links] /\ rest \in [Numbers -> SUBSET Links]
  BY DEF TypeOK
<1>1. waiting'[m] = waiting[m]  BY OtherWorkers
<1>2. CASE Snapshot(n) \/ Plan(n) \/ SkipRound(n) \/ EndRound(n) \/ Finish(n)
  BY <1>0, <1>1, <1>2 DEF Snapshot, Plan, SkipRound, EndRound, Finish, Unanswered,
       Released
<1>3. CASE ~(Snapshot(n) \/ Plan(n) \/ SkipRound(n) \/ EndRound(n) \/ Finish(n))
  BY <1>1, <1>3, RoundFrame
<1> QED  BY <1>2, <1>3

\* One link per device in the rounds of a request, step by step.
LEMMA OnePromptStep ==
    ASSUME TypeOK, Fresh, BeforeTotal, NothingAskedYet, OnePromptPerDevice, [Run]_vars
    PROVE  NothingAskedYet' /\ OnePromptPerDevice'
<1> USE DEF NothingAskedYet, OnePromptPerDevice
<1>0. /\ pc \in [Numbers -> PcStates] /\ targets \in [Numbers -> SUBSET Links]
      /\ rest \in [Numbers -> SUBSET Links] /\ waiting \in [Numbers -> SUBSET Links]
  BY DEF TypeOK
<1>1. CASE UNCHANGED <<pc, targets, rest, waiting>>
  BY <1>1
<1>2. ASSUME NEW c \in Channels, NEW k \in Kinds, Dispatch(c, k)
      PROVE  NothingAskedYet' /\ OnePromptPerDevice'
  <2>1. /\ nextRequest \in Numbers /\ pc' = [pc EXCEPT ![nextRequest] = "snapshot"]
        /\ UNCHANGED <<targets, rest, waiting>>
    BY <1>2 DEF Dispatch
  <2>2. pc[nextRequest] = "none"
    BY <2>1, BrokerAssumption DEF Fresh, Numbers
  <2> QED  BY <1>0, <2>1, <2>2
<1>3. ASSUME NEW n \in Numbers, Snapshot(n)
      PROVE  NothingAskedYet' /\ OnePromptPerDevice'
  <2>1. /\ pc[n] = "snapshot" /\ UNCHANGED <<rest, waiting>>
        /\ rest[n] = {} /\ waiting[n] = {}
    BY <1>3 DEF Snapshot
  <2>2. targets'[n] \subseteq ByDevice
    BY <1>0, <1>3 DEF Snapshot, Find
  <2>3. \A m \in Numbers \ {n} : targets'[m] = targets[m] /\ pc'[m] = pc[m]
    BY <1>0, <1>3 DEF Snapshot
  <2>4. \A l, m \in ByDevice : DeviceOf[l] = DeviceOf[m] => l = m
    BY ByDeviceOnce
  <2> QED  BY <2>1, <2>2, <2>3, <2>4
<1>4. ASSUME NEW n \in Numbers, Worker(n), ~Snapshot(n)
      PROVE  NothingAskedYet' /\ OnePromptPerDevice'
  <2>1. targets'[n] \cup rest'[n] \cup waiting'[n]
            \subseteq targets[n] \cup rest[n] \cup waiting[n]
    BY <1>4, RoundsShrink
  <2>2. \A m \in Numbers : m # n =>
            /\ targets'[m] = targets[m] /\ rest'[m] = rest[m] /\ waiting'[m] = waiting[m]
    BY <1>4, OtherRounds
  <2>3. \A m \in Numbers : pc'[m] \in {"none", "snapshot",
       "plan"} => m # n /\ pc'[m] = pc[m]
    <3>1. pc'[n] \notin {"none", "snapshot", "plan"}
      BY <1>0, <1>4 DEF Worker, Plan, SkipRound, Ask, Publish, LoopHead, EndPass,
         PollNothing, PollOne, EndRound, Record, Check, Reply, Finish, Unanswered,
         WinnerDevice, Released
    <3>2. \A m \in Numbers : m # n => pc'[m] = pc[m]
      BY <1>4, OtherWorkers
    <3> QED  BY <3>1, <3>2
  <2>4. NothingAskedYet'  BY <2>2, <2>3
  <2>5. OnePromptPerDevice'  BY <2>1, <2>2
  <2> QED  BY <2>4, <2>5
<1>5. ASSUME NEW l \in Links, LinkStep(l) PROVE UNCHANGED <<pc, targets, rest, waiting>>
  BY <1>5, LinkFrame DEF workerVars
<1>6. ASSUME NEW n \in Numbers, Expire(n) PROVE UNCHANGED <<pc, targets, rest, waiting>>
  BY <1>6 DEF Expire
<1>7. ASSUME NEW c \in Channels, Refuse(c) \/ HidCancel(c) \/ HidInit(c)
      PROVE  UNCHANGED <<pc, targets, rest, waiting>>
  BY <1>7 DEF Refuse, HidCancel, HidInit, workerVars, Freed
<1>8. CASE HidClose \/ HidWithdraw \/ UpdateCheck
  BY <1>1, <1>8 DEF HidClose, HidWithdraw, UpdateCheck, workerVars
<1>9. CASE UNCHANGED vars
  BY <1>1, <1>9 DEF vars, workerVars
<1> QED
  BY <1>1, <1>2, <1>3, <1>4, <1>5, <1>6, <1>7, <1>8, <1>9 DEF Run, HidStep

-----------------------------------------------------------------------------
(* The inductive invariant and what follows from it.                       *)

IndInv ==
    /\ TypeOK
    /\ Fresh /\ BusyHasWorker
    /\ QueueApproved /\ SuccessIsApproved /\ RecordHasWinner
    /\ PromptInv
    /\ BeforeTotal /\ NothingAskedYet /\ OnePromptPerDevice

\* The starting state satisfies the inductive invariant.
LEMMA InitIndInv == Init => IndInv
<1> SUFFICES ASSUME Init PROVE IndInv
  OBVIOUS
<1>1. TypeOK  BY InitTypeOK
<1>2. \A l \in Links, n \in Numbers : ~Asked(l, n) /\ ~Answered(l, n)
  BY DEF Init, Asked, Answered
<1>3. /\ Fresh /\ BusyHasWorker /\ SuccessIsApproved /\ RecordHasWinner
      /\ NothingAskedYet /\ OnePromptPerDevice /\ RoundsDisjoint
  BY DEF Init, Fresh, BusyHasWorker, SuccessIsApproved, RecordHasWinner,
     NothingAskedYet, OnePromptPerDevice, RoundsDisjoint
<1>4. QueueApproved /\ SentinelMeansDown /\ BeforeTotal
  BY DEF Init, QueueApproved, SentinelMeansDown, BeforeTotal
<1>5. AskedOnce /\ AskedLeavesRounds /\ NoOrphanPrompt
  BY <1>2 DEF Init, AskedOnce, AskedLeavesRounds, NoOrphanPrompt, Delivered
<1> QED  BY <1>1, <1>3, <1>4, <1>5 DEF IndInv, PromptInv

\* A step of the running daemon preserves the inductive invariant: the lemmas
\* above, put together.
LEMMA RunStep == IndInv /\ [Run]_vars => IndInv'
<1> SUFFICES ASSUME IndInv, [Run]_vars PROVE IndInv'
  OBVIOUS
<1> USE DEF IndInv, PromptInv
<1>1. TypeOK'
  <2>1. ASSUME NEW l \in Links, LinkStep(l) PROVE TypeOK'  BY <2>1, LinkTypeOK
  <2>2. CASE HidStep  BY <2>2, HidTypeOK
  <2>3. ASSUME NEW n \in Numbers, Worker(n) \/ Expire(n) PROVE TypeOK'
    BY <2>3, WorkerTypeOK
  <2>4. CASE UpdateCheck
    BY <2>4 DEF UpdateCheck, TypeOK, vars, linkVars, wireVars, hidVars,
       requestVars, workerVars, clientVars, history
  <2>5. CASE UNCHANGED vars
    BY <2>5 DEF TypeOK, vars, linkVars, wireVars, hidVars, requestVars, workerVars,
       callVars, clientVars, history
  <2> QED  BY <2>1, <2>2, <2>3, <2>4, <2>5 DEF Run
<1>2. Fresh' /\ BusyHasWorker'  BY BusyStep
<1>3. QueueApproved' /\ SuccessIsApproved' /\ RecordHasWinner'  BY SuccessStep
<1>4. SentinelMeansDown'  BY SentinelStep
<1>5. RoundsDisjoint'  BY RoundsStep
<1>6. AskedOnce' /\ AskedLeavesRounds'  BY AskedStep
<1>7. NoOrphanPrompt'  BY OrphanStep
<1>8. BeforeTotal'  BY BeforeStep
<1>9. NothingAskedYet' /\ OnePromptPerDevice'  BY OnePromptStep
<1> QED  BY <1>1, <1>2, <1>3, <1>4, <1>5, <1>6, <1>7, <1>8, <1>9

\* The exit after a package update preserves it: nothing is left that could
\* contradict a part of it.
LEMMA ExitStep == IndInv /\ UpdateExit => IndInv'
<1> SUFFICES ASSUME IndInv, UpdateExit PROVE IndInv'
  OBVIOUS
<1> USE DEF IndInv, PromptInv, UpdateExit
<1>1. TypeOK'
  BY DEF TypeOK, LinkStates, PcStates, wireVars, requestVars, history
<1>2. /\ UNCHANGED <<nextRequest, inbox, queue, approved>>
      /\ \A l \in Links : link'[l] = "gone"
      /\ \A n \in Numbers : pc'[n] = IF pc[n] = "none" THEN "none" ELSE "done"
      /\ \A n \in Numbers : targets'[n] = {} /\ rest'[n] = {} /\ waiting'[n] = {}
  BY DEF wireVars, history
<1>3. Fresh' /\ BusyHasWorker'  BY <1>2 DEF Fresh, BusyHasWorker
<1>4. QueueApproved' /\ SuccessIsApproved' /\ RecordHasWinner'
  BY <1>2 DEF QueueApproved, SuccessIsApproved, RecordHasWinner
<1>5. SentinelMeansDown' /\ RoundsDisjoint'
  BY <1>2 DEF SentinelMeansDown, RoundsDisjoint
<1>6. /\ \A l \in Links, n \in Numbers : Asked(l, n)' = Asked(l, n)
      /\ \A l \in Links, n \in Numbers : Answered(l, n)' = Answered(l, n)
  BY <1>2 DEF Asked, Answered
<1>7. AskedOnce' /\ AskedLeavesRounds'
  BY <1>2, <1>6 DEF AskedOnce, AskedLeavesRounds, Delivered, Past
<1>8. NoOrphanPrompt'  BY <1>2 DEF NoOrphanPrompt
<1>9. BeforeTotal' /\ NothingAskedYet' /\ OnePromptPerDevice'
  BY <1>2 DEF BeforeTotal, NothingAskedYet, OnePromptPerDevice
<1> QED  BY <1>1, <1>3, <1>4, <1>5, <1>7, <1>8, <1>9

\* Every step preserves the inductive invariant.
LEMMA IndInvStep == IndInv /\ [Next]_vars => IndInv'
<1> QED  BY RunStep, ExitStep DEF Next

\* The inductive invariant holds in every reachable state.
LEMMA Invariance == Spec => []IndInv
<1> QED  BY InitIndInv, IndInvStep, PTL DEF Spec

\* Every reachable state of the daemon is well typed.
THEOREM TypeCorrect == Spec => []TypeOK
<1>1. IndInv => TypeOK  BY DEF IndInv
<1> QED  BY Invariance, <1>1, PTL

\* The daemon is never wedged: the request that holds `busy` has a running
\* worker, whatever the clients and the connections do.
THEOREM NeverWedged == Spec => []BusyHasWorker
<1>1. IndInv => BusyHasWorker  BY DEF IndInv
<1> QED  BY Invariance, <1>1, PTL

\* A request that nobody works on any more leaves no prompt on any phone that
\* can still be told.
THEOREM NoPromptLeftBehind == Spec => []NoOrphanPrompt
<1>1. IndInv => NoOrphanPrompt  BY DEF IndInv, PromptInv
<1> QED  BY Invariance, <1>1, PTL

\* An answer to another request never makes a request succeed.
THEOREM OnlyApprovalsWin == Spec => []SuccessIsApproved
<1>1. IndInv => SuccessIsApproved  BY DEF IndInv
<1> QED  BY Invariance, <1>1, PTL

\* A phone is asked on one of its connections only.
THEOREM OnePromptEach == Spec => []OnePromptPerDevice
<1>1. IndInv => OnePromptPerDevice  BY DEF IndInv
<1> QED  BY Invariance, <1>1, PTL

-----------------------------------------------------------------------------
(* No phone is asked once another has decided.                             *)

\* A worker comes to ask only while nothing is decided.
AskUndecided ==
    \A n \in Numbers : pc[n] \in {"none", "snapshot", "plan", "ask"} =>
        winner[n] = None /\ ~Stops(n)

\* A request that still has a phone to ask is undecided, step by step.
LEMMA UndecidedStep ==
    ASSUME TypeOK, Fresh, AskUndecided, [Run]_vars
    PROVE  AskUndecided'
<1> USE DEF AskUndecided, Stops
<1>0. /\ pc \in [Numbers -> PcStates] /\ winner \in [Numbers -> Links \cup {None}]
      /\ errors \in [Numbers -> SUBSET Statuses]
  BY DEF TypeOK
<1>1. CASE UNCHANGED <<pc, winner, errors>>
  BY <1>1
<1>2. ASSUME NEW c \in Channels, NEW k \in Kinds, Dispatch(c, k) PROVE AskUndecided'
  <2>1. /\ nextRequest \in Numbers /\ pc' = [pc EXCEPT ![nextRequest] = "snapshot"]
        /\ UNCHANGED <<winner, errors>>
    BY <1>2 DEF Dispatch
  <2>2. pc[nextRequest] = "none"
    BY <2>1, BrokerAssumption DEF Fresh, Numbers
  <2> QED  BY <1>0, <2>1, <2>2
<1>3. ASSUME NEW n \in Numbers, NEW l \in Links, PollOne(n, l) PROVE AskUndecided'
  <2>1. UNCHANGED pc /\ pc[n] = "poll" /\ Take(n, l,
       Head(queue[l]))  BY <1>3 DEF PollOne
  <2>2. \A m \in Numbers : m # n => winner'[m] = winner[m] /\ errors'[m] = errors[m]
    BY <1>0, <2>1 DEF Take
  <2> QED  BY <2>1, <2>2
<1>4. ASSUME NEW n \in Numbers, EndRound(n) PROVE AskUndecided'
  <2>1. /\ UNCHANGED <<winner, errors>> /\ pc' = [pc EXCEPT ![n] = pc'[n]]
        /\ pc'[n] \in {"ask", "check", "record"}
        /\ pc'[n] = "ask" => winner[n] = None /\ ~Stops(n)
    BY <1>0, <1>4 DEF EndRound, Unanswered
  <2> QED  BY <1>0, <2>1
<1>5. ASSUME NEW n \in Numbers, Finish(n) PROVE AskUndecided'
  <2>1. /\ pc' = [pc EXCEPT ![n] = "done"] /\ winner' = [winner EXCEPT ![n] = None]
        /\ errors' = [errors EXCEPT ![n] = {}]
    BY <1>5 DEF Finish, Released
  <2> QED  BY <1>0, <2>1
<1>6. ASSUME NEW n \in Numbers,
     Snapshot(n) \/ Plan(n) \/ SkipRound(n) PROVE AskUndecided'
  <2>1. /\ UNCHANGED <<winner, errors>> /\ pc[n] \in {"snapshot", "plan", "ask"}
        /\ pc' = [pc EXCEPT ![n] = pc'[n]]
    BY <1>0, <1>6 DEF Snapshot, Plan, SkipRound
  <2> QED  BY <1>0, <2>1
<1>7. ASSUME NEW n \in Numbers, Worker(n), ~Finish(n), ~EndRound(n),
             ~\E l \in Links : PollOne(n, l), ~(Snapshot(n) \/ Plan(n) \/ SkipRound(n))
      PROVE  AskUndecided'
  <2>1. /\ UNCHANGED <<winner, errors>> /\ pc' = [pc EXCEPT ![n] = pc'[n]]
        /\ pc'[n] \notin {"none", "snapshot", "plan", "ask"}
    BY <1>0, <1>7 DEF Worker, Ask, Publish, LoopHead, EndPass, PollNothing, Record,
       Check, Reply, WinnerDevice
  <2> QED  BY <1>0, <2>1
<1>8. ASSUME NEW l \in Links, LinkStep(l) PROVE UNCHANGED <<pc, winner, errors>>
  BY <1>8, LinkFrame DEF workerVars
<1>9. ASSUME NEW n \in Numbers, Expire(n) PROVE UNCHANGED <<pc, winner, errors>>
  BY <1>9 DEF Expire
<1>10. ASSUME NEW c \in Channels, Refuse(c) \/ HidCancel(c) \/ HidInit(c)
       PROVE  UNCHANGED <<pc, winner, errors>>
  BY <1>10 DEF Refuse, HidCancel, HidInit, workerVars, Freed
<1>11. CASE HidClose \/ HidWithdraw \/ UpdateCheck
  BY <1>1, <1>11 DEF HidClose, HidWithdraw, UpdateCheck, workerVars
<1>12. CASE UNCHANGED vars
  BY <1>1, <1>12 DEF vars, workerVars
<1> QED
  BY <1>1, <1>2, <1>3, <1>4, <1>5, <1>6, <1>7, <1>8, <1>9, <1>10, <1>11, <1>12
     DEF Run, HidStep

\* A request enters an inbox only when its own worker asks.
LEMMA OnlyAskAsks ==
    ASSUME TypeOK, AskedOnce, AskedLeavesRounds, [Run]_vars,
           NEW l \in Links, NEW n \in Numbers, Asked(l, n)', ~Asked(l, n)
    PROVE  Ask(n)
<1>1. ASSUME NEW m \in Numbers, Ask(m) PROVE Ask(n)
  <2>1. n = m  BY <1>1, AskEntries
  <2> QED  BY <1>1, <2>1
<1>2. ASSUME NEW k \in Links, PhoneAnswer(k) PROVE FALSE
  BY <1>2, AnsweredEntries
<1>3. CASE (~\E m \in Numbers : Ask(m)) /\ (~\E k \in Links : PhoneAnswer(k))
  <2>1. UNCHANGED inbox  BY <1>3, DeliveryFrame
  <2> QED  BY <2>1 DEF Asked
<1> QED  BY <1>1, <1>2, <1>3

\* Once a phone has approved, refused or failed otherwise, no further phone is
\* asked for the same request.
THEOREM NoPhoneAfterDecision == Spec => NoAskAfterDecision
<1>1. Init => AskUndecided
  BY DEF Init, AskUndecided, Stops
<1>2. IndInv /\ AskUndecided /\ [Next]_vars => AskUndecided'
  <2> SUFFICES ASSUME IndInv, AskUndecided, [Next]_vars PROVE AskUndecided'
    OBVIOUS
  <2>1. CASE [Run]_vars  BY <2>1, UndecidedStep DEF IndInv
  <2>2. CASE UpdateExit  BY <2>2 DEF UpdateExit, AskUndecided, Stops
  <2> QED  BY <2>1, <2>2 DEF Next
<1>3. Spec => []AskUndecided
  BY <1>1, <1>2, Invariance, PTL DEF Spec
<1>4. ASSUME IndInv, AskUndecided, [Next]_vars
      PROVE  [\A l \in Links, n \in Numbers :
                Asked(l, n)' /\ ~Asked(l, n) =>
                    winner[n] = None /\ errors[n] \subseteq {"nocred"}]_vars
  <2> SUFFICES ASSUME NEW l \in Links, NEW n \in Numbers, Asked(l, n)', ~Asked(l, n)
               PROVE  winner[n] = None /\ errors[n] \subseteq {"nocred"}
    OBVIOUS
  <2>1. ~UpdateExit  BY DEF UpdateExit, wireVars, Asked
  <2>2. Ask(n)  BY <1>4, <2>1, OnlyAskAsks DEF Next, IndInv, PromptInv
  <2> QED  BY <1>4, <2>2 DEF Ask, AskUndecided, Stops
<1> QED
  BY <1>3, <1>4, Invariance, PTL DEF Spec, NoAskAfterDecision

-----------------------------------------------------------------------------
(* The daemon keeps what Exchange promises the clients.                    *)

\* On the channel of the current request nobody waits for another one: a client
\* cannot ask again before it gives up, and giving up frees the daemon.
OwnWait == busy # 0 => waits[channel[busy]] \in {0, busy}

\* The worker's steps as the clients see them.
LEMMA PhaseStep ==
    ASSUME TypeOK, NEW n \in Numbers, NEW p \in PcStates, pc' = [pc EXCEPT ![n] = p]
    PROVE  /\ pc[n] \in Active \ {"finish"} /\ p \in Active \ {"finish"} => Phases' = Phases
           /\ p = "snapshot" => Phases' = [Phases EXCEPT ![n] = "working"]
           /\ p = "finish" => Phases' = [Phases EXCEPT ![n] = "settled"]
           /\ p = "done" => Phases' = [Phases EXCEPT ![n] = "done"]
<1>1. /\ pc'[n] = p
      /\ \A m \in Numbers : m # n => pc'[m] = pc[m]
  BY DEF TypeOK
<1>2. \A m \in Numbers : m # n => Phase(m)' = Phase(m)
  BY <1>1 DEF Phase
<1>3. /\ pc[n] \in Active \ {"finish"} /\ p \in Active \ {"finish"} => Phase(n)' = Phase(n)
      /\ p = "snapshot" => Phase(n)' = "working"
      /\ p = "finish" => Phase(n)' = "settled"
      /\ p = "done" => Phase(n)' = "done"
  BY <1>1 DEF Phase, Active
<1> QED  BY <1>2, <1>3 DEF Phases

\* A worker between snapshot and the reply that moves on there is not seen.
LEMMA WorkerUnseen ==
    ASSUME NEW n \in Numbers, Worker(n), ~Check(n), ~Reply(n), ~Finish(n), TypeOK
    PROVE  UNCHANGED <<busy, Phases, channel, waits, got>>
<1> USE DEF hidVars, requestVars, clientVars
<1>1. UNCHANGED <<busy, channel, waits, got>>
  BY DEF Worker, Snapshot, Plan, SkipRound, Ask, Publish, LoopHead, EndPass,
     PollNothing, PollOne, EndRound, Record
<1>2. PICK p \in Active : pc' = [pc EXCEPT ![n] = p]
  BY WorkerMoves
<1>3. pc \in [Numbers -> PcStates]
  BY DEF TypeOK
<1>4. pc'[n] # "finish" /\ pc[n] # "finish"
  BY <1>3 DEF Worker, Snapshot, Plan, SkipRound, Ask, Publish, LoopHead, EndPass,
     PollNothing, PollOne, EndRound, Record
<1>5. p # "finish" /\ pc[n] \in Active /\ p \in PcStates
  BY <1>2, <1>3, <1>4, WorkerMoves DEF Active
<1> QED  BY <1>1, <1>2, <1>4, <1>5, PhaseStep

\* Every step keeps a current request's channel to itself.
LEMMA OwnWaitStep ==
    ASSUME TypeOK, OwnWait, [Next]_vars
    PROVE  OwnWait'
<1> USE DEF OwnWait, hidVars, requestVars, clientVars
<1>0. /\ busy \in Numbers \cup {0} /\ channel \in [Numbers -> Channels]
      /\ waits \in [Channels -> Numbers \cup {0}] /\ 0 \notin Numbers
  BY DEF TypeOK, Numbers
<1>1. ASSUME NEW l \in Links, LinkStep(l) PROVE OwnWait'
  BY <1>1, LinkFrame
<1>2. ASSUME NEW c \in Channels, NEW k \in Kinds, Dispatch(c, k) PROVE OwnWait'
  BY <1>0, <1>2 DEF Dispatch
<1>3. ASSUME NEW c \in Channels, Refuse(c) \/ HidCancel(c) \/ HidInit(c) PROVE OwnWait'
  BY <1>0, <1>3 DEF Refuse, HidCancel, HidInit, Freed
<1>4. CASE HidClose \/ HidWithdraw \/ UpdateCheck \/ UpdateExit
  BY <1>0, <1>4 DEF HidClose, HidWithdraw, UpdateCheck, UpdateExit
<1>5. ASSUME NEW n \in Numbers, Worker(n) PROVE OwnWait'
  <2>1. CASE Check(n) \/ Reply(n) \/ Finish(n)
    BY <1>0, <2>1 DEF Check, Reply, Finish, Released, Current
  <2>2. CASE ~Check(n) /\ ~Reply(n) /\ ~Finish(n)
    BY <1>5, <2>2, WorkerUnseen
  <2> QED  BY <2>1, <2>2
<1>6. ASSUME NEW n \in Numbers, Expire(n) PROVE OwnWait'
  BY <1>6 DEF Expire
<1>7. CASE UNCHANGED vars
  BY <1>7 DEF vars
<1> QED
  BY <1>1, <1>2, <1>3, <1>4, <1>5, <1>6, <1>7 DEF Next, Run, HidStep

\* What the HID thread does to the clients: a request accepted, given up or all
\* given up at once.
LEMMA HidKeepsExchange ==
    ASSUME IndInv, OwnWait, HidStep
    PROVE  [Clients!Next]_(Clients!vars)
<1> USE DEF hidVars, requestVars, workerVars, clientVars, Clients!vars
<1>0. TypeOK /\ Fresh
  BY DEF IndInv
<1>1. ASSUME NEW c \in Channels, NEW k \in Kinds, Dispatch(c, k)
      PROVE  [Clients!Next]_(Clients!vars)
  <2>1. PICK n \in Numbers : n = nextRequest
    BY <1>1 DEF Dispatch
  <2>2. pc' = [pc EXCEPT ![n] = "snapshot"] /\ pc[n] = "none"
    BY <1>0, <1>1, <2>1 DEF Dispatch, Fresh, Numbers
  <2>3. Phases[n] = "new" /\ Phases' = [Phases EXCEPT ![n] = "working"]
    BY <1>0, <2>2, PhaseStep DEF Phases, Phase, PcStates
  <2>4. Clients!Accept(n, c)
    BY <1>1, <2>1, <2>3 DEF Dispatch, Clients!Accept
  <2> QED  BY <2>4 DEF Clients!Next
<1>2. ASSUME NEW c \in Channels, HidInit(c)
      PROVE  [Clients!Next]_(Clients!vars)
  <2>1. UNCHANGED Phases
    BY <1>2 DEF HidInit, Phases, Phase
  <2>2. Clients!GiveUp(c)
    BY <1>2, <2>1 DEF HidInit, Freed, Clients!GiveUp
  <2> QED  BY <2>2 DEF Clients!Next
<1>3. CASE HidClose
  <2>1. UNCHANGED Phases
    BY <1>3 DEF HidClose, Phases, Phase
  <2>2. Clients!Leave
    BY <1>3, <2>1 DEF HidClose, Clients!Leave
  <2> QED  BY <2>2 DEF Clients!Next
<1>4. CASE HidWithdraw \/ \E c \in Channels : Refuse(c) \/ HidCancel(c)
  <2>1. UNCHANGED <<busy, pc, channel, waits, got>>
    BY <1>4 DEF HidWithdraw, Refuse, HidCancel, Freed
  <2> QED  BY <2>1 DEF Phases, Phase
<1> QED  BY <1>1, <1>2, <1>3, <1>4 DEF HidStep

\* What a worker does to them: an answer, an answer that is dropped, an end.
LEMMA WorkerKeepsExchange ==
    ASSUME IndInv, OwnWait, NEW n \in Numbers, Worker(n)
    PROVE  [Clients!Next]_(Clients!vars)
<1> USE DEF hidVars, requestVars, clientVars, Clients!vars
<1>a. TypeOK
  BY DEF IndInv
<1>b. pc \in [Numbers -> PcStates]
  BY <1>a DEF TypeOK
<1>0. TypeOK /\ pc \in [Numbers -> PcStates] /\ 0 \notin Numbers
  BY <1>a, <1>b DEF Numbers
<1>1. CASE Check(n)
  <2>1. Phases[n] = "working" /\ UNCHANGED <<busy, channel, waits, got>>
    BY <1>1 DEF Check, Phases, Phase
  <2>2. CASE busy = n
    <3>1. pc' = [pc EXCEPT ![n] = "reply"] /\ pc[n] = "check"
      BY <1>1, <2>2 DEF Check, Current
    <3>2. UNCHANGED Phases
      BY <1>0, <3>1, PhaseStep DEF Active, PcStates
    <3> QED  BY <2>1, <3>2
  <2>3. CASE busy # n
    <3>1. pc' = [pc EXCEPT ![n] = "finish"]
      BY <1>1, <2>3 DEF Check, Current
    <3>2. Phases' = [Phases EXCEPT ![n] = "settled"]
      BY <1>0, <3>1, PhaseStep DEF PcStates
    <3>3. Clients!Drop(n)
      BY <2>1, <2>3, <3>2 DEF Clients!Drop
    <3> QED  BY <3>3 DEF Clients!Next
  <2> QED  BY <2>2, <2>3
<1>2. CASE Reply(n)
  <2>1. Phases[n] = "working" /\ Phases' = [Phases EXCEPT ![n] = "settled"]
    BY <1>0, <1>2, PhaseStep DEF Reply, Phases, Phase, PcStates
  <2>2. Clients!Answer(n)
    BY <1>0, <1>2, <2>1 DEF Reply, OwnWait, Clients!Answer
  <2> QED  BY <2>2 DEF Clients!Next
<1>3. CASE Finish(n)
  <2>1. Phases[n] = "settled" /\ Phases' = [Phases EXCEPT ![n] = "done"]
    BY <1>0, <1>3, PhaseStep DEF Finish, Phases, Phase, PcStates
  <2>2. Clients!End(n)
    BY <1>3, <2>1 DEF Finish, Released, Current, Clients!End
  <2> QED  BY <2>2 DEF Clients!Next
<1>4. CASE ~Check(n) /\ ~Reply(n) /\ ~Finish(n)
  BY <1>0, <1>4, WorkerUnseen
<1> QED  BY <1>1, <1>2, <1>3, <1>4

\* Whatever phones, links, clients and threads do in whatever order, a step of the
\* daemon (dispatch, cancel, handle_cbor, finish_request, update_loop) is a step of
\* Exchange or none: one request at a time keeps the others out, it is settled once,
\* and who waits on the channel of a current request waits for that request.
THEOREM ExchangeKept == Spec => Clients!Safety
<1>1. Init => Clients!Init /\ OwnWait
  <2> SUFFICES ASSUME Init PROVE Clients!Init /\ OwnWait
    OBVIOUS
  <2>1. Phases = [n \in Numbers |-> "new"]
    BY DEF Init, Phases, Phase
  <2>2. channel \in [Numbers -> Channels]
    BY InitTypeOK DEF TypeOK
  <2> QED  BY <2>1, <2>2 DEF Init, OwnWait, Clients!Init
<1>2. IndInv /\ OwnWait /\ [Next]_vars => OwnWait'
  BY OwnWaitStep DEF IndInv
<1>3. IndInv /\ OwnWait /\ [Next]_vars => [Clients!Next]_(Clients!vars)
  <2> SUFFICES ASSUME IndInv, OwnWait, [Next]_vars
               PROVE  [Clients!Next]_(Clients!vars)
    OBVIOUS
  <2>1. CASE UNCHANGED <<busy, pc, channel, waits, got>>
    BY <2>1 DEF Clients!vars, Phases, Phase
  <2>2. CASE \/ \E l \in Links : LinkStep(l)
             \/ \E n \in Numbers : Expire(n)
             \/ UpdateCheck \/ UNCHANGED vars
    BY <2>1, <2>2, LinkFrame DEF Expire, UpdateCheck, vars, hidVars, requestVars,
       workerVars, clientVars
  <2>3. CASE UpdateExit
    <3>1. Phases' = [n \in Numbers |-> IF Phases[n] = "new" THEN "new" ELSE "done"]
      BY <2>3 DEF UpdateExit, Phases, Phase
    <3>2. Clients!Exit
      BY <2>3, <3>1 DEF UpdateExit, requestVars, Clients!Exit
    <3> QED  BY <3>2 DEF Clients!Next
  <2> QED
    BY <2>2, <2>3, HidKeepsExchange, WorkerKeepsExchange DEF Next, Run
<1> QED
  BY <1>1, <1>2, <1>3, Invariance, PTL DEF Spec, Clients!Safety

-----------------------------------------------------------------------------
(* The current request loses no answer and no broken connection.           *)

\* What the worker of n still has to find about the phone on l.
Kept(l, n) ==
    /\ link[l] # "new"
    /\ link[l] = "up" => Asked(l, n) \/ Answered(l, n) \/ <<l, n>> \in swallowed
    /\ link[l] \notin {"up", "broken"} =>
         \/ \E i \in 1 .. Len(queue[l]) : queue[l][i] = Sentinel
         \/ <<l, 0>> \in swallowed

InTouch ==
    /\ \A n \in Numbers : pc[n] = "none" => waiting[n] = {}
    /\ \A n \in Numbers, l \in Links : Current(n) /\ l \in waiting[n] => Kept(l, n)

\* An entry added to a queue stands behind the older ones.
LEMMA AllStay ==
    ASSUME TypeOK, NEW l \in Links, NEW e \in Responses,
           queue' = [queue EXCEPT ![l] = Append(@, e)]
    PROVE  /\ \A k \in Links : \A i \in 1 .. Len(queue[k]) :
                \E j \in 1 .. Len(queue'[k]) : queue'[k][j] = queue[k][i]
           /\ \E j \in 1 .. Len(queue'[l]) : queue'[l][j] = e
<1>0. queue \in [Links -> Seq(Responses)]  BY DEF TypeOK
<1>1. /\ queue'[l] = Append(queue[l], e)
      /\ \A k \in Links : k # l => queue'[k] = queue[k]
  BY <1>0
<1>2. /\ Len(queue[l]) \in Nat /\ Len(queue'[l]) = Len(queue[l]) + 1
      /\ \A i \in 1 .. Len(queue[l]) : queue'[l][i] = queue[l][i]
      /\ queue'[l][Len(queue[l]) + 1] = e
  BY <1>0, <1>1, AppendEntries
<1>3. \E j \in 1 .. Len(queue'[l]) : queue'[l][j] = e
  <2>1. Len(queue[l]) + 1 \in 1 .. Len(queue'[l])  BY <1>2
  <2> QED  BY <1>2, <2>1
<1>4. ASSUME NEW k \in Links, NEW i \in 1 .. Len(queue[k])
      PROVE  \E j \in 1 .. Len(queue'[k]) : queue'[k][j] = queue[k][i]
  <2>1. i \in 1 .. Len(queue'[k]) /\ queue'[k][i] = queue[k][i]
    BY <1>1, <1>2
  <2> QED  BY <2>1
<1> QED  BY <1>3, <1>4

\* Only the head that a worker takes leaves a queue.
LEMMA OthersStay ==
    ASSUME TypeOK, NEW l \in Links, queue[l] # <<>>,
           queue' = [queue EXCEPT ![l] = Tail(@)]
    PROVE  \A k \in Links : \A i \in 1 .. Len(queue[k]) :
               \/ \E j \in 1 .. Len(queue'[k]) : queue'[k][j] = queue[k][i]
               \/ k = l /\ queue[k][i] = Head(queue[l])
<1>0. queue \in [Links -> Seq(Responses)]  BY DEF TypeOK
<1> SUFFICES ASSUME NEW k \in Links, NEW i \in 1 .. Len(queue[k])
             PROVE  \/ \E j \in 1 .. Len(queue'[k]) : queue'[k][j] = queue[k][i]
                    \/ k = l /\ queue[k][i] = Head(queue[l])
  OBVIOUS
<1>1. CASE k # l
  BY <1>0, <1>1
<1>2. CASE k = l /\ i = 1
  BY <1>0, <1>2, TailEntries
<1>3. CASE k = l /\ i # 1
  <2>1. queue'[l] = Tail(queue[l])  BY <1>0
  <2>2. /\ Len(queue[l]) \in Nat /\ Len(queue'[l]) = Len(queue[l]) - 1
        /\ \A j \in 1 .. Len(queue[l]) - 1 : queue'[l][j] = queue[l][j + 1]
    BY <1>0, <2>1, TailEntries
  <2>3. i - 1 \in 1 .. Len(queue'[l]) /\ queue'[l][i - 1] = queue[l][(i - 1) + 1]
    BY <1>3, <2>2
  <2>4. (i - 1) + 1 = i  BY <1>3, <2>2
  <2> QED  BY <1>3, <2>3, <2>4
<1> QED  BY <1>1, <1>2, <1>3

\* Where the queue of l keeps its entries, what n has to find there is still there.
LEMMA StillKept ==
    ASSUME NEW l \in Links, NEW n \in Numbers, Kept(l, n), swallowed \subseteq swallowed',
           \A i \in 1 .. Len(queue[l]) :
               \E j \in 1 .. Len(queue'[l]) : queue'[l][j] = queue[l][i],
           Asked(l, n) => Asked(l, n)',
           \/ link'[l] = link[l]
           \/ link'[l] = "broken"
           \/ link[l] \notin {"up", "broken"} /\ link'[l] \notin {"new", "up", "broken"}
    PROVE  Kept(l, n)'
<1>1. Answered(l, n) => Answered(l, n)'
  BY DEF Answered
<1>2. (\E i \in 1 .. Len(queue[l]) : queue[l][i] = Sentinel) =>
        \E j \in 1 .. Len(queue'[l]) : queue'[l][j] = Sentinel
  <2> SUFFICES ASSUME NEW i \in 1 .. Len(queue[l]), queue[l][i] = Sentinel
               PROVE  \E j \in 1 .. Len(queue'[l]) : queue'[l][j] = Sentinel
    OBVIOUS
  <2>1. PICK j \in 1 .. Len(queue'[l]) : queue'[l][j] = queue[l][i]
    OBVIOUS
  <2> QED  BY <2>1
<1> QED  BY <1>1, <1>2 DEF Kept

\* The links' own steps.
LEMMA LinkKeeps ==
    ASSUME TypeOK, AskedOnce, NEW k \in Links, LinkStep(k),
           NEW l \in Links, NEW n \in Numbers, Kept(l, n)
    PROVE  Kept(l, n)'
<1>0. link \in [Links -> LinkStates] /\ queue \in [Links -> Seq(Responses)]
  BY DEF TypeOK
<1>1. CASE Connect(k) \/ Break(k) \/ Remove(k) \/ SyncUhid(k) \/ SweepCancel(k)
           \/ SweepWithdraw(k)
  <2>1. UNCHANGED <<inbox, queue, swallowed>>
    BY <1>1 DEF Connect, Break, Remove, SyncUhid, SweepCancel, SweepWithdraw, wireVars,
       history
  <2>2. \/ link'[l] = link[l]
        \/ link'[l] = "broken"
        \/ link[l] \notin {"up", "broken"} /\ link'[l] \notin {"new", "up", "broken"}
    BY <1>0, <1>1 DEF Connect, Break, Remove, SyncUhid, SweepCancel, SweepWithdraw,
       linkVars, Kept
  <2>3. Asked(l, n) => Asked(l, n)'  BY <2>1 DEF Asked
  <2> QED  BY <2>1, <2>2, <2>3, StillKept
<1>2. CASE Close(k)
  <2>1. Sentinel \in Responses  BY DEF Sentinel, Responses, Statuses
  <2>2. /\ link' = [link EXCEPT ![k] = "closed"] /\ UNCHANGED <<inbox, swallowed>>
        /\ queue' = [queue EXCEPT ![k] = Append(@, Sentinel)]
    BY <1>2 DEF Close, Ended, history
  <2>3. /\ \A i \in 1 .. Len(queue[l]) :
             \E j \in 1 .. Len(queue'[l]) : queue'[l][j] = queue[l][i]
        /\ \E j \in 1 .. Len(queue'[k]) : queue'[k][j] = Sentinel
    BY <2>1, <2>2, AllStay
  <2>4. CASE k = l
    BY <1>0, <2>2, <2>3, <2>4 DEF Kept
  <2>5. CASE k # l
    <3>1. link'[l] = link[l]  BY <1>0, <2>2, <2>5
    <3>2. Asked(l, n) => Asked(l, n)'  BY <2>2 DEF Asked
    <3> QED  BY <2>2, <2>3, <3>1, <3>2, StillKept
  <2> QED  BY <2>4, <2>5
<1>3. CASE PhoneAnswer(k)
  <2>1. UNCHANGED <<link, swallowed>>
    BY <1>3 DEF PhoneAnswer, linkVars
  <2>2. /\ Asked(l, n) => Asked(l, n)' \/ (k = l /\ n = Head(inbox[k]))
        /\ Head(inbox[k]) \in Numbers
    BY <1>3, AnsweredEntries
  <2>3. ASSUME NEW s \in Replies,
               queue' = [queue EXCEPT ![k] =
                           Append(@, [number |-> Head(inbox[k]), status |-> s])]
        PROVE  Kept(l, n)'
    <3> DEFINE e == [number |-> Head(inbox[k]), status |-> s]
    <3>1. e \in Responses /\ e.number = Head(inbox[k])
      BY <2>2, BrokerAssumption DEF Responses
    <3> HIDE DEF e
    <3>2. queue' = [queue EXCEPT ![k] = Append(@, e)]
      BY <2>3 DEF e
    <3>3. /\ \A i \in 1 .. Len(queue[l]) :
               \E j \in 1 .. Len(queue'[l]) : queue'[l][j] = queue[l][i]
          /\ \E j \in 1 .. Len(queue'[k]) : queue'[k][j] = e
      BY <3>1, <3>2, AllStay
    <3>4. CASE Asked(l, n) => Asked(l, n)'
      BY <2>1, <3>3, <3>4, StillKept
    <3>5. CASE k = l /\ n = Head(inbox[k])
      <4>1. Answered(l, n)'  BY <3>1, <3>3, <3>5 DEF Answered
      <4>2. (\E i \in 1 .. Len(queue[l]) : queue[l][i] = Sentinel) =>
              \E j \in 1 .. Len(queue'[l]) : queue'[l][j] = Sentinel
        BY <3>3
      <4> QED  BY <2>1, <4>1, <4>2 DEF Kept
    <3> QED  BY <2>2, <3>4, <3>5
  <2>4. CASE link[k] # "up" /\ UNCHANGED queue
    <3>1. CASE Asked(l, n) => Asked(l, n)'
      BY <2>1, <2>4, <3>1, StillKept
    <3>2. CASE k = l
      BY <2>1, <2>4, <3>2 DEF Kept
    <3> QED  BY <2>2, <3>1, <3>2
  <2> QED  BY <1>3, <2>3, <2>4 DEF PhoneAnswer
<1> QED  BY <1>1, <1>2, <1>3 DEF LinkStep

\* A worker's steps: who takes what is meant for another is no longer current, and
\* leaves its trace in swallowed.
LEMMA WorkerKeeps ==
    ASSUME IndInv, NEW m \in Numbers, Worker(m), NEW l \in Links, NEW n \in Numbers,
           Current(n), l \in waiting[n] => Kept(l, n), l \in waiting'[n]
    PROVE  Kept(l, n)'
<1>0. /\ TypeOK /\ AskedOnce /\ AskedLeavesRounds
      /\ waiting \in [Numbers -> SUBSET Links] /\ queue \in [Links -> Seq(Responses)]
  BY DEF IndInv, PromptInv, TypeOK
<1>1. UNCHANGED link
  BY WorkerFrame DEF linkVars
<1>2. CASE Ask(m)
  <2>1. /\ \A k \in Links, i \in Numbers :
             Asked(k, i)' <=> Asked(k, i) \/ (i = m /\ k \in targets[m] \cap Up)
        /\ UNCHANGED <<queue, swallowed>>
    BY <1>0, <1>2, AskEntries DEF Ask, history
  <2>2. CASE m = n
    <3>1. l \in targets[n] \cap Up \/ link[l] = "broken"
      BY <1>0, <1>2, <2>2 DEF Ask
    <3> QED  BY <1>1, <2>1, <2>2, <3>1 DEF Kept, Up
  <2>3. CASE m # n
    <3>1. Kept(l, n)  BY <1>0, <2>3, OtherWorkers
    <3> QED  BY <1>1, <2>1, <3>1, StillKept
  <2> QED  BY <2>2, <2>3
<1>3. ASSUME NEW k \in Links, PollOne(m, k)
      PROVE  Kept(l, n)'
  <2> DEFINE r == Head(queue[k])
  <2>1. /\ queue[k] # <<>> /\ queue' = [queue EXCEPT ![k] = Tail(@)]
        /\ Take(m, k, r) /\ UNCHANGED inbox
        /\ swallowed' = IF Current(m) THEN swallowed
                                      ELSE swallowed \cup {<<k, r.number>>}
    BY <1>3 DEF PollOne
  <2>2. \A i \in 1 .. Len(queue[l]) :
            \/ \E j \in 1 .. Len(queue'[l]) : queue'[l][j] = queue[l][i]
            \/ l = k /\ queue[l][i] = r
    BY <1>0, <2>1, OthersStay
  <2> HIDE DEF r
  <2>3. l \in waiting[n]
    BY <1>0, <2>1 DEF Take
  <2>4. Asked(l, n) => Asked(l, n)'
    BY <2>1 DEF Asked
  <2>5. CASE \A i \in 1 .. Len(queue[l]) :
               \E j \in 1 .. Len(queue'[l]) : queue'[l][j] = queue[l][i]
    BY <1>1, <2>1, <2>3, <2>4, <2>5, StillKept
  <2>6. CASE k = l /\ m = n
    <3>1. r # Sentinel /\ r.number # n
      BY <1>0, <2>1, <2>6 DEF Take, Matches
    <3>2. Answered(l, n) => Answered(l, n)'
      BY <2>2, <3>1 DEF Answered
    <3>3. (\E i \in 1 .. Len(queue[l]) : queue[l][i] = Sentinel) =>
            \E j \in 1 .. Len(queue'[l]) : queue'[l][j] = Sentinel
      BY <2>2, <3>1
    <3> QED  BY <1>1, <2>1, <2>3, <2>4, <3>2, <3>3 DEF Kept
  <2>7. CASE k = l /\ m # n
    <3>1. swallowed' = swallowed \cup {<<l, r.number>>}
      BY <2>1, <2>7 DEF Current
    <3>2. Answered(l, n) => Answered(l, n)' \/ <<l, n>> \in swallowed'
      BY <2>2, <3>1 DEF Answered
    <3>3. (\E i \in 1 .. Len(queue[l]) : queue[l][i] = Sentinel) =>
            \/ \E j \in 1 .. Len(queue'[l]) : queue'[l][j] = Sentinel
            \/ <<l, 0>> \in swallowed'
      BY <2>2, <3>1 DEF Sentinel
    <3> QED  BY <1>1, <2>3, <2>4, <3>1, <3>2, <3>3 DEF Kept
  <2> QED  BY <2>2, <2>5, <2>6, <2>7
<1>4. CASE ~Ask(m) /\ ~\E k \in Links : PollOne(m, k)
  <2>1. UNCHANGED <<inbox, queue>>
    BY <1>4, WorkerFrame
  <2>2. UNCHANGED swallowed /\ l \in waiting[n]
    BY <1>0, <1>4 DEF Worker, Snapshot, Plan, SkipRound, Publish, LoopHead, EndPass,
       PollNothing, EndRound, Record, Check, Reply, Finish, history
  <2>3. Asked(l, n) => Asked(l, n)'
    BY <2>1 DEF Asked
  <2> QED  BY <1>1, <2>1, <2>2, <2>3, StillKept
<1> QED  BY <1>2, <1>3, <1>4

\* A request becomes current only when it is new, and then waits for nobody.
LEMMA InTouchStep ==
    ASSUME IndInv, InTouch, [Next]_vars
    PROVE  InTouch'
<1>0. /\ TypeOK /\ Fresh /\ AskedOnce /\ 0 \notin Numbers
      /\ pc \in [Numbers -> PcStates] /\ waiting \in [Numbers -> SUBSET Links]
  BY DEF IndInv, PromptInv, TypeOK, Numbers
<1>1. ASSUME UNCHANGED <<link, inbox, queue, swallowed, waiting>>,
             \A n \in Numbers : busy' = n => busy = n \/ waiting[n] = {},
             \A n \in Numbers : pc'[n] = "none" => pc[n] = "none"
      PROVE  InTouch'
  BY <1>1 DEF InTouch, Kept, Current, Asked, Answered
<1>2. ASSUME NEW k \in Links, LinkStep(k) PROVE InTouch'
  <2>1. UNCHANGED <<busy, pc, waiting>>
    BY <1>2, LinkFrame DEF hidVars, workerVars
  <2> QED  BY <1>0, <1>2, <2>1, LinkKeeps DEF InTouch, Current
<1>3. ASSUME NEW c \in Channels, NEW k \in Kinds, Dispatch(c, k) PROVE InTouch'
  <2>1. PICK n \in Numbers : n = nextRequest
    BY <1>3 DEF Dispatch
  <2>2. /\ pc' = [pc EXCEPT ![n] = "snapshot"] /\ busy' = n /\ pc[n] = "none"
        /\ UNCHANGED <<link, inbox, queue, swallowed, waiting>>
    BY <1>0, <1>3, <2>1 DEF Dispatch, Fresh, Numbers, linkVars, wireVars, history
  <2> QED  BY <1>0, <1>1, <2>2 DEF InTouch
<1>4. CASE HidClose \/ HidWithdraw \/ UpdateCheck
           \/ \E c \in Channels : Refuse(c) \/ HidCancel(c) \/ HidInit(c)
  <2>1. /\ UNCHANGED <<link, inbox, queue, swallowed, waiting, pc>>
        /\ busy' = busy \/ busy' = 0
    BY <1>4 DEF HidClose, HidWithdraw, UpdateCheck, Refuse, HidCancel, HidInit, Freed,
       linkVars, wireVars, hidVars, workerVars, history
  <2> QED  BY <1>0, <1>1, <2>1
<1>5. ASSUME NEW m \in Numbers, Worker(m) PROVE InTouch'
  <2>1. \A n \in Numbers : Current(n)' => Current(n)
    BY <1>0, <1>5, WorkerMoves DEF Current, Finish, Released
  <2>2. \A n \in Numbers : pc'[n] = "none" => waiting'[n] = {}
    <3> SUFFICES ASSUME NEW n \in Numbers, pc'[n] = "none"
                 PROVE  waiting'[n] = {}
      OBVIOUS
    <3>1. n # m
      BY <1>0, <1>5, WorkerMoves DEF Active, Finish
    <3> QED  BY <1>0, <1>5, <3>1, OtherWorkers DEF InTouch
  <2>3. ASSUME NEW n \in Numbers, NEW l \in Links, Current(n)', l \in waiting'[n]
        PROVE  Kept(l, n)'
    BY <1>5, <2>1, <2>3, WorkerKeeps DEF InTouch
  <2> QED  BY <2>2, <2>3 DEF InTouch
<1>6. ASSUME NEW m \in Numbers, Expire(m) PROVE InTouch'
  BY <1>1, <1>6 DEF Expire, linkVars, wireVars, hidVars, history
<1>7. CASE UNCHANGED vars
  BY <1>1, <1>7 DEF vars, linkVars, wireVars, hidVars, workerVars, history
<1>8. CASE UpdateExit
  BY <1>8 DEF UpdateExit, InTouch
<1> QED
  BY <1>2, <1>3, <1>4, <1>5, <1>6, <1>7, <1>8 DEF Next, Run, HidStep

LEMMA InTouchAlways == Spec => []InTouch
<1>1. Init => InTouch
  BY DEF Init, InTouch
<1> QED  BY <1>1, InTouchStep, Invariance, PTL DEF Spec

\* The answer of a phone that the current request waits for is read by its own worker,
\* or it was taken from Link.responses by a worker that is current no more.
THEOREM NoAnswerLost == Spec => []AnswerKept
<1>1. InTouch => AnswerKept
  BY DEF InTouch, AnswerKept, Kept
<1> QED  BY <1>1, InTouchAlways, PTL

\* A connection that ends under the current request is noticed: the sentinel of
\* Link.close waits for its worker, or such a worker has taken it.
THEOREM NoLossMissed == Spec => []LossNoticed
<1>1. InTouch => LossNoticed
  BY DEF InTouch, LossNoticed, Kept
<1> QED  BY <1>1, InTouchAlways, PTL

-----------------------------------------------------------------------------
(* A cancel reaches every phone the worker polls.                          *)

\* While the worker polls, Request.pending has every link it waits for.
PendingCovers ==
    \A n \in Numbers : pc[n] \in {"head", "poll"} => waiting[n] \subseteq pending[n]

LEMMA PendingStep ==
    ASSUME TypeOK, PendingCovers, [Next]_vars
    PROVE  PendingCovers'
<1> USE DEF PendingCovers
<1>0. /\ pc \in [Numbers -> PcStates] /\ waiting \in [Numbers -> SUBSET Links]
      /\ pending \in [Numbers -> SUBSET Links]
  BY DEF TypeOK
<1>1. CASE UNCHANGED <<pc, waiting, pending>>
  BY <1>1
<1>2. ASSUME NEW l \in Links, LinkStep(l) PROVE UNCHANGED <<pc, waiting, pending>>
  BY <1>2, LinkFrame DEF requestVars, workerVars
<1>3. ASSUME NEW c \in Channels, NEW k \in Kinds, Dispatch(c, k) PROVE PendingCovers'
  BY <1>0, <1>3 DEF Dispatch
<1>4. CASE HidClose \/ HidWithdraw \/ UpdateCheck
           \/ \E c \in Channels : Refuse(c) \/ HidCancel(c) \/ HidInit(c)
  BY <1>1, <1>4 DEF HidClose, HidWithdraw, UpdateCheck, Refuse, HidCancel, HidInit,
     requestVars, workerVars
<1>5. ASSUME NEW n \in Numbers, Worker(n) PROVE PendingCovers'
  <2>1. CASE Publish(n) \/ EndRound(n)
    BY <1>0, <2>1 DEF Publish, EndRound
  <2>2. ASSUME NEW l \in Links, PollOne(n, l) PROVE PendingCovers'
    <3>1. UNCHANGED <<pc, pending>>
      BY <2>2 DEF PollOne, requestVars
    <3>2. \A m \in Numbers : waiting'[m] \subseteq waiting[m]
      BY <1>0, <2>2 DEF PollOne, Take
    <3> QED  BY <3>1, <3>2
  <2>3. CASE ~Publish(n) /\ ~EndRound(n) /\ ~\E l \in Links : PollOne(n, l)
    <3>1. UNCHANGED pending
      BY <1>5, <2>3 DEF Worker, Snapshot, Plan, SkipRound, Ask, LoopHead, EndPass,
         PollNothing, Record, Check, Reply, Finish, requestVars
    <3>2. \A m \in Numbers : m # n => pc'[m] = pc[m] /\ waiting'[m] = waiting[m]
      BY <1>0, <1>5, OtherWorkers
    <3>3. pc'[n] \in {"head", "poll"} =>
            pc[n] \in {"head", "poll"} /\ waiting'[n] = waiting[n]
      BY <1>0, <1>5, <2>3 DEF Worker, Snapshot, Plan, SkipRound, Ask, LoopHead, EndPass,
         PollNothing, Record, Check, Reply, Finish
    <3> QED  BY <3>1, <3>2, <3>3
  <2> QED  BY <2>1, <2>2, <2>3
<1>6. ASSUME NEW n \in Numbers, Expire(n) PROVE UNCHANGED <<pc, waiting, pending>>
  BY <1>6 DEF Expire, requestVars
<1>7. CASE UNCHANGED vars
  BY <1>1, <1>7 DEF vars, requestVars, workerVars
<1>8. CASE UpdateExit
  BY <1>8 DEF UpdateExit
<1> QED
  BY <1>1, <1>2, <1>3, <1>4, <1>5, <1>6, <1>7, <1>8 DEF Next, Run, HidStep

\* Only the two threads that cancel add to cancelled.
LEMMA OnlyCancelsCancel ==
    ASSUME [Next]_vars, NEW n, n \in cancelled' \ cancelled
    PROVE  \/ HidWithdraw /\ n = hidCall
           \/ \E l \in Links : SweepWithdraw(l) /\ n = sweep[l]
<1> USE DEF history
<1>1. ASSUME NEW l \in Links, LinkStep(l) PROVE SweepWithdraw(l) /\ n = sweep[l]
  BY <1>1 DEF LinkStep, Connect, Break, Close, Remove, SyncUhid, SweepCancel,
     SweepWithdraw, PhoneAnswer
<1>2. CASE HidStep
  BY <1>2 DEF HidStep, Dispatch, Refuse, HidCancel, HidInit, HidClose, HidWithdraw
<1>3. ~UpdateCheck /\ ~UpdateExit /\ ~UNCHANGED vars
  BY DEF UpdateCheck, UpdateExit, vars
<1>4. ASSUME NEW m \in Numbers, Worker(m) \/ Expire(m) PROVE FALSE
  BY <1>4 DEF Worker, Snapshot, Plan, SkipRound, Ask, Publish, LoopHead, EndPass,
     PollNothing, PollOne, EndRound, Record, Check, Reply, Finish, Expire
<1> QED  BY <1>1, <1>2, <1>3, <1>4 DEF Next, Run

\* A cancel while the worker polls, by the client or by the last link's end, reaches
\* every phone it still waits for, of whichever round.
THEOREM CancelReachesAll == Spec => CancelReachesWaited
<1>1. Init => PendingCovers
  BY DEF Init, PendingCovers
<1>2. IndInv /\ PendingCovers /\ [Next]_vars => PendingCovers'
  BY PendingStep DEF IndInv
<1>3. ASSUME IndInv, PendingCovers, [Next]_vars
      PROVE  [\A n \in cancelled' \ cancelled, l \in Links :
                pc[n] \in {"head", "poll"} /\ l \in waiting[n] /\ link[l] = "up"
                  /\ Asked(l, n) => n \in withdrawn'[l]]_vars
  <2> SUFFICES ASSUME NEW n \in cancelled' \ cancelled, NEW l \in Links,
                      pc[n] \in {"head", "poll"}, l \in waiting[n], link[l] = "up"
               PROVE  n \in withdrawn'[l]
    OBVIOUS
  <2>1. \/ HidWithdraw /\ n = hidCall
        \/ \E k \in Links : SweepWithdraw(k) /\ n = sweep[k]
    BY <1>3, OnlyCancelsCancel
  <2>2. SendCancel(n, pending[n]) /\ n \in Numbers
    BY <1>3, <2>1 DEF HidWithdraw, SweepWithdraw, IndInv, TypeOK
  <2>3. l \in pending[n] \cap Up
    BY <1>3, <2>2 DEF PendingCovers, Up
  <2> QED  BY <2>2, <2>3 DEF SendCancel
<1> QED
  BY <1>1, <1>2, <1>3, Invariance, PTL DEF Spec, CancelReachesWaited
=============================================================================
