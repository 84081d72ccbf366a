---------------------------- MODULE FramingProofs ----------------------------
(***************************************************************************)
(* Messages and answers stay whole on the virtual FIDO device, for any     *)
(* number of channels, clients that stop half-way, and workers that write  *)
(* at the same time.                                                       *)
(***************************************************************************)
EXTENDS Framing, SequenceTheorems, TLAPS

Parts == [piece : (Messages \cup {0}) \X Nat, total : Nat]

\* Types.
Fields ==
    /\ partial \in [Channels -> Partials \cup {None}]
    /\ busy \in Messages \cup {0} /\ next \in Nat \ {0}
    /\ owner \in [Messages -> Channels \cup {None}]
    /\ pc \in [Messages -> {"none", "work", "write", "finish", "done"}]
    /\ written \in [Messages -> Nat] /\ size \in [Messages -> Nat]
    /\ input \in [Channels -> Seq(Reports)]
    /\ phase \in [Channels -> {"idle", "writing", "waiting"}]
    /\ message \in [Channels -> Messages \cup {0}]
    /\ command \in [Channels -> {"init", "cbor"}]
    /\ length \in [Channels -> Nat] /\ sent \in [Channels -> Nat]
    /\ rx \in [Channels -> Seq(Parts)]
    /\ DOMAIN got = Channels

\* The pieces of a message so far are in order, and of one message, or some are of
\* a message that was refused.
Grown(p, past) ==
    /\ Len(p.data) = p.next + 1 /\ Len(p.data) <= p.total
    /\ \A i \in 1 .. Len(p.data) : p.data[i][2] = i
    /\ p.data[1][1] = p.message
    /\ \/ \A i \in 1 .. Len(p.data) : p.data[i][1] = p.message
       \/ \E i \in 2 .. Len(p.data) : p.data[i][1] \in past

\* A message that is kept has no worker yet, and no other channel has it.
Kept(c) ==
    partial[c] # None =>
        /\ Grown(partial[c], refused) /\ Len(partial[c].data) < partial[c].total
        /\ phase[c] = "writing" =>
             message[c] = partial[c].message \/ message[c] \in refused
        /\ partial[c].message < next /\ pc[partial[c].message] = "none"

Assembling ==
    /\ \A c \in Channels : Kept(c)
    /\ \A c, d \in Channels : partial[c] # None /\ partial[d] # None =>
         c = d \/ partial[c].message # partial[d].message

\* Only the worker of the current request writes, or one that an INIT gave up.
Working(m) ==
    /\ pc[m] \in {"work", "write", "finish"} => owner[m] \in Channels
    /\ pc[m] = "write" => /\ busy = m \/ m \in abandoned
                          /\ size[m] \in ReplyLengths /\ written[m] < size[m]
    /\ pc[m] \in {"none", "work"} => written[m] = 0
    /\ m >= next => pc[m] = "none"

Workers ==
    /\ busy # 0 => pc[busy] \in {"work", "write", "finish"}
    /\ \A m \in Messages : Working(m)

\* A client has a message, and reads only when it waits.
Asking(c) ==
    /\ phase[c] # "waiting" => rx[c] = <<>>
    /\ phase[c] # "idle" => message[c] \in Messages
    /\ phase[c] = "writing" => command[c] = "cbor" /\ sent[c] \in 1 .. length[c] - 1

Writers == \A c \in Channels : Asking(c)

Holds(c) == busy # 0 /\ owner[busy] = c

\* After an INIT nothing of its channel is under way, and what the client reads up
\* to the answer to it is older.
Renewed(c) ==
    /\ \A i \in 1 .. Len(input[c]) : input[c][i].type = "init" => input[c][i].piece[1] < next
    /\ phase[c] = "waiting" /\ command[c] = "init" /\ c \notin overlapped =>
         /\ partial[c] = None /\ ~Holds(c) /\ rx[c] = <<>>
         /\ input[c] # <<>> /\ input[c][Len(input[c])] = InitReport(message[c])
         /\ \A i \in 1 .. Len(input[c]) - 1 :
              ~ (input[c][i].type = "init" /\ input[c][i].piece[1] = message[c])

Inits == \A c \in Channels : Renewed(c)

\* The worker of the current request has nothing more to write on c.
Quiet(c) == Holds(c) => pc[busy] = "finish"

\* Report i of an answer of n reports to message m.
Report(m, i, n) ==
    [piece |-> <<m, i>>, total |-> n,
     sequence |-> IF i = 1 THEN 0 ELSE SequenceOf(i),
     type |-> IF i = 1 THEN "cbor" ELSE IF SequenceOf(i) >= InitBit THEN "unknown" ELSE "more"]

\* How a channel stands whose client has not lost track: at rest, in a message,
\* before an error, before its worker, or in its answer.
Idle(c) == phase[c] = "idle" /\ partial[c] = None /\ input[c] = <<>> /\ Quiet(c)

Writing(c) ==
    /\ phase[c] = "writing" /\ Quiet(c)
    /\ \/ /\ partial[c] # None /\ input[c] = <<>>
          /\ partial[c].message = message[c] /\ partial[c].command = "cbor"
          /\ partial[c].next = sent[c] - 1 /\ partial[c].total = length[c]
       \/ partial[c] = None /\ input[c] = <<ErrorReport>>

Denied(c) == rx[c] = <<>> /\ input[c] = <<ErrorReport>> /\ Quiet(c)

Queued(c) ==
    /\ rx[c] = <<>> /\ input[c] = <<>>
    /\ busy = message[c] /\ owner[busy] = c /\ pc[busy] = "work"

Gets(c, n) ==
    /\ Len(rx[c]) < n
    /\ \A i \in 1 .. Len(rx[c]) : rx[c][i] = [piece |-> <<message[c], i>>, total |-> n]
    /\ \A i \in 1 .. Len(input[c]) : input[c][i] = Report(message[c], Len(rx[c]) + i, n)
    /\ \/ Len(rx[c]) + Len(input[c]) = n /\ Quiet(c)
       \/ /\ Len(rx[c]) + Len(input[c]) < n
          /\ busy = message[c] /\ owner[busy] = c /\ pc[busy] = "write"
          /\ size[busy] = n /\ written[busy] = Len(rx[c]) + Len(input[c])

Waiting(c) ==
    /\ phase[c] = "waiting" /\ partial[c] = None /\ command[c] = "cbor"
    /\ Denied(c) \/ Queued(c) \/ \E n \in ReplyLengths : Gets(c, n)

Standing(c) == Idle(c) \/ Writing(c) \/ Waiting(c) \/ (phase[c] = "waiting" /\ command[c] = "init")

InStep == \A c \in Channels : c \notin unsure \cup overlapped => Standing(c)

IndInv == Fields /\ Assembling /\ Workers /\ Writers /\ Inits /\ InStep
-----------------------------------------------------------------------------

\* Nothing is under way at first.
LEMMA InitHolds == Init => IndInv /\ MessagesKept
<1>. SUFFICES ASSUME Init
              PROVE  IndInv /\ MessagesKept
  OBVIOUS
<1>. USE DEF Init
<1>1. Fields
  BY DEF Fields
<1>2. Assembling /\ Workers
  BY DEF Assembling, Kept, Workers, Working, Messages
<1>3. Writers /\ Inits
  BY DEF Writers, Asking, Inits, Renewed
<1>4. InStep
  BY DEF InStep, Standing, Idle, Quiet, Holds
<1>5. MessagesKept
  BY DEF MessagesKept, MessagesIntact, RepliesIntact
<1>. QED
  BY <1>1, <1>2, <1>3, <1>4, <1>5 DEF IndInv

-----------------------------------------------------------------------------
(* Queues, reports and pieces.                                             *)

LEMMA Appended ==
    ASSUME NEW S, NEW s \in Seq(S), NEW x \in S
    PROVE  /\ Append(s, x) \in Seq(S) /\ Len(s) \in Nat /\ Len(Append(s, x)) = Len(s) + 1
           /\ Append(s, x)[Len(s) + 1] = x /\ Append(s, x) # <<>>
           /\ \A i \in 1 .. Len(s) : Append(s, x)[i] = s[i]
  OBVIOUS

LEMMA Taken ==
    ASSUME NEW S, NEW s \in Seq(S), s # <<>>
    PROVE  /\ Tail(s) \in Seq(S) /\ Len(s) \in Nat \ {0} /\ Len(Tail(s)) = Len(s) - 1
           /\ Head(s) = s[1] /\ Head(s) \in S
           /\ \A i \in 1 .. Len(s) - 1 : Tail(s)[i] = s[i + 1]
  OBVIOUS

LEMMA SequenceNumbers ==
    ASSUME NEW i \in Nat \ {0, 1}
    PROVE  SequenceOf(i) \in Nat
<1>1. 2 * InitBit \in Nat \ {0} /\ i - 2 \in Nat
  BY FramingAssumption
<1>. DEFINE b == 2 * InitBit
            a == i - 2
<1>2. a % b \in Nat
  <2>. HIDE DEF a, b
  <2>. QED
    BY <1>1 DEF a, b
<1>. QED
  BY <1>2 DEF SequenceOf

LEMMA ReportTypes ==
    /\ ErrorReport \in Reports
    /\ \A m \in Messages : InitReport(m) \in Reports
    /\ \A m \in Messages : \A i \in Nat \ {0} : \A n \in Nat : Report(m, i, n) \in Reports
<1>1. ErrorReport \in Reports
  BY DEF ErrorReport, Reports
<1>2. \A m \in Messages : InitReport(m) \in Reports
  BY DEF InitReport, Reports
<1>3. ASSUME NEW m \in Messages, NEW i \in Nat \ {0}, NEW n \in Nat
      PROVE  Report(m, i, n) \in Reports
  <2>1. i = 1 \/ SequenceOf(i) \in Nat
    BY SequenceNumbers
  <2>. QED
    BY <2>1 DEF Report, Reports
<1>. QED
  BY <1>1, <1>2, <1>3

\* A report goes to one client, behind what is there.
LEMMA Delivered ==
    ASSUME Fields, NEW c \in Channels, NEW r \in Reports, Deliver(c, r)
    PROVE  /\ input' \in [Channels -> Seq(Reports)]
           /\ \A d \in Channels : d # c => input'[d] = input[d]
           /\ input'[c] = Append(input[c], r)
<1>1. input \in [Channels -> Seq(Reports)] /\ input' = [input EXCEPT ![c] = Append(@, r)]
  BY DEF Fields, Deliver
<1>2. Append(input[c], r) \in Seq(Reports)
  BY <1>1, Appended
<1>. QED
  BY <1>1, <1>2

LEMMA MessagesCount == \A m \in Messages : m \in Nat /\ m # 0
  BY FramingAssumption DEF Messages

\* A message that is kept has a number.
LEMMA KeptNumber ==
    ASSUME Fields, NEW c \in Channels, partial[c] # None
    PROVE  partial[c] \in Partials /\ partial[c].message \in Nat /\ partial[c].message # 0
  BY MessagesCount DEF Fields, Partials

LEMMA LengthsCount == \A n \in Lengths : n \in Nat /\ n >= 1
  BY FramingAssumption

\* The first report of a message begins one.
LEMMA StartsGrown ==
    ASSUME NEW c \in Channels, NEW m \in Messages, NEW k \in {"init", "cbor"}, NEW n \in Lengths
    PROVE  Started(c, m, k, n) \in Partials /\ Grown(Started(c, m, k, n), refused)
           /\ Len(Started(c, m, k, n).data) = 1
<1>1. <<<<m, 1>>>> \in Seq(Pieces) /\ n >= 1 /\ n \in Nat
  BY LengthsCount DEF Pieces
<1>. QED
  BY <1>1 DEF Started, Partials, Grown

\* A kept message with one piece more.
Added(p, x) == [p EXCEPT !.data = Append(@, x), !.next = @ + 1]

LEMMA PieceAdded ==
    ASSUME NEW p \in Partials, NEW x \in Pieces
    PROVE  /\ Added(p, x) \in Partials /\ p.total \in Nat
           /\ Added(p, x).message = p.message /\ Added(p, x).total = p.total
           /\ Added(p, x).command = p.command /\ Added(p, x).next = p.next + 1
           /\ Len(p.data) \in Nat /\ Len(Added(p, x).data) = Len(p.data) + 1
           /\ Added(p, x).data[Len(p.data) + 1] = x
           /\ \A i \in 1 .. Len(p.data) : Added(p, x).data[i] = p.data[i]
<1>. DEFINE q == Added(p, x)
<1>. DEFINE d == Append(p.data, x)
<1>1. /\ p.message \in Messages /\ p.command \in {"init", "cbor"} /\ p.total \in Lengths
      /\ p.next \in Nat /\ p.data \in Seq(Pieces)
  BY DEF Partials
<1>2. /\ d \in Seq(Pieces) /\ Len(p.data) \in Nat /\ Len(d) = Len(p.data) + 1
      /\ d[Len(p.data) + 1] = x
      /\ \A i \in 1 .. Len(p.data) : d[i] = p.data[i]
  BY <1>1, Appended
<1>. HIDE DEF d
<1>3. q = [p EXCEPT !.data = d, !.next = p.next + 1]
  BY DEF Added, d
<1>4. q \in Partials
  <2>1. p.next + 1 \in Nat
    BY <1>1
  <2>2. \A y \in Partials : \A e \in Seq(Pieces) : \A k \in Nat :
          [y EXCEPT !.data = e, !.next = k] \in Partials
    BY DEF Partials
  <2>3. d \in Seq(Pieces)
    BY <1>2
  <2>4. [p EXCEPT !.data = d, !.next = p.next + 1] \in Partials
    BY <2>1, <2>2, <2>3, Zenon
  <2>. QED
    BY <1>3, <2>4, Zenon
<1>5. q.data = d /\ q.message = p.message /\ q.total = p.total /\ q.command = p.command
      /\ q.next = p.next + 1
  BY <1>3 DEF Partials
<1>6. p.total \in Nat
  BY <1>1, LengthsCount
<1>. HIDE DEF q
<1>. QED
  BY <1>2, <1>4, <1>5, <1>6 DEF q

Longer(c) == Added(partial[c], <<message[c], sent[c] + 1>>)

\* A report in turn continues it.
LEMMA GoesOn ==
    ASSUME Fields, NEW c \in Channels, Kept(c), Asking(c), phase[c] = "writing",
           partial[c] # None, Follows(partial[c], (sent[c] + 1) - 2)
    PROVE  /\ Longer(c) \in Partials /\ Grown(Longer(c), refused)
           /\ Longer(c).message = partial[c].message /\ Longer(c).total = partial[c].total
           /\ Longer(c).command = partial[c].command /\ Longer(c).next = partial[c].next + 1
           /\ Len(Longer(c).data) = Len(partial[c].data) + 1
           /\ partial[c].next = sent[c] - 1 /\ Len(partial[c].data) = sent[c]
<1>. DEFINE x == <<message[c], sent[c] + 1>>
<1>1. PICK p \in Partials : p = partial[c]
  BY DEF Fields
<1>2. PICK q : q = Longer(c)
  OBVIOUS
<1>3. /\ Grown(p, refused) /\ Len(p.data) < p.total /\ p.next \in Nat
      /\ message[c] = p.message \/ message[c] \in refused
  BY <1>1 DEF Kept, Partials
<1>4. message[c] \in Messages /\ sent[c] \in Nat /\ sent[c] >= 1 /\ p.next = sent[c] - 1
  BY <1>1, <1>3 DEF Fields, Asking, Follows
<1>5. x \in Pieces
  BY <1>4 DEF Pieces
<1>6. q = Added(p, x)
  BY <1>1, <1>2 DEF Longer
<1>. HIDE DEF x
<1>7. /\ q \in Partials /\ p.total \in Nat
      /\ q.message = p.message /\ q.total = p.total /\ q.command = p.command
      /\ q.next = p.next + 1
  BY <1>5, <1>6, PieceAdded
<1>8. /\ Len(p.data) \in Nat /\ Len(q.data) = Len(p.data) + 1 /\ q.data[Len(p.data) + 1] = x
      /\ \A i \in 1 .. Len(p.data) : q.data[i] = p.data[i]
  BY <1>5, <1>6, PieceAdded
<1>. DEFINE k == Len(p.data)
<1>9. /\ k = p.next + 1 /\ k = sent[c] /\ \A i \in 1 .. k : p.data[i][2] = i
      /\ p.data[1][1] = p.message
      /\ (\A i \in 1 .. k : p.data[i][1] = p.message) \/ (\E i \in 2 .. k : p.data[i][1] \in refused)
  <2>1. /\ k = p.next + 1 /\ \A i \in 1 .. k : p.data[i][2] = i
        /\ p.data[1][1] = p.message
        /\ (\A i \in 1 .. k : p.data[i][1] = p.message) \/ (\E i \in 2 .. k : p.data[i][1] \in refused)
    BY <1>3 DEF Grown
  <2>2. k = sent[c]
    BY <1>3, <1>4, <2>1
  <2>. QED
    BY <2>1, <2>2
<1>10. x[1] = message[c] /\ x[2] = k + 1
  BY <1>9 DEF x
<1>. HIDE DEF k
<1>11. /\ k \in Nat \ {0} /\ Len(q.data) = k + 1 /\ q.data[k + 1] = x
       /\ \A i \in 1 .. k : q.data[i] = p.data[i]
  BY <1>8, <1>9, <1>4 DEF k
<1>12. \A i \in 1 .. k + 1 : i \in 1 .. k \/ i = k + 1
  BY <1>11
<1>13. \A i \in 1 .. k + 1 : q.data[i][2] = i
  BY <1>9, <1>10, <1>11, <1>12
<1>14. \/ \A i \in 1 .. k + 1 : q.data[i][1] = q.message
       \/ \E i \in 2 .. k + 1 : q.data[i][1] \in refused
  <2>1. CASE \E i \in 2 .. k : p.data[i][1] \in refused
    <3>1. PICK i \in 2 .. k : p.data[i][1] \in refused
      BY <2>1
    <3>2. i \in 2 .. k + 1 /\ q.data[i] = p.data[i]
      BY <1>11
    <3>. QED
      BY <3>1, <3>2
  <2>2. CASE message[c] \in refused
    <3>1. k + 1 \in 2 .. k + 1
      BY <1>11
    <3>. QED
      BY <1>10, <1>11, <2>2, <3>1
  <2>3. CASE message[c] = p.message /\ \A i \in 1 .. k : p.data[i][1] = p.message
    BY <1>7, <1>10, <1>11, <1>12, <2>3
  <2>. QED
    BY <1>3, <1>9, <2>1, <2>2, <2>3
<1>15. q.data[1][1] = q.message
  <2>1. 1 \in 1 .. k
    BY <1>11
  <2>. QED
    BY <1>7, <1>9, <1>11, <2>1
<1>16. k + 1 = q.next + 1 /\ k + 1 <= q.total
  BY <1>3, <1>7, <1>9, <1>11 DEF k
<1>17. Grown(q, refused)
  BY <1>11, <1>13, <1>14, <1>15, <1>16 DEF Grown
<1>. QED
  BY <1>1, <1>2, <1>4, <1>7, <1>8, <1>9, <1>17 DEF k

-----------------------------------------------------------------------------
(* What a report of a client does.                                         *)

Cleared(c, p) ==
    /\ Len(p.data) >= p.total
    /\ partial' = [partial EXCEPT ![c] = None]
    /\ dispatched' = [data |-> p.data, length |-> p.total]

\* Collect: the message is kept, or it is complete and an INIT, one too many, or
\* the next request.
KeepIt(c, p) ==
    /\ Len(p.data) < p.total
    /\ partial' = [partial EXCEPT ![c] = p]
    /\ UNCHANGED <<busy, owner, pc, input, dispatched, abandoned>>

Renew(c, p) ==
    /\ Cleared(c, p) /\ p.command = "init" /\ Deliver(c, InitReport(p.message))
    /\ IF Holds(c) THEN busy' = 0 /\ abandoned' = abandoned \cup {busy}
                   ELSE UNCHANGED <<busy, abandoned>>
    /\ UNCHANGED <<owner, pc>>

Deny(c, p) ==
    /\ Cleared(c, p) /\ p.command # "init" /\ Deliver(c, ErrorReport)
    /\ UNCHANGED <<busy, owner, pc, abandoned>>

Launch(c, p) ==
    /\ Cleared(c, p) /\ p.command # "init" /\ busy = 0 /\ busy' = p.message
    /\ owner' = [owner EXCEPT ![p.message] = c]
    /\ pc' = [pc EXCEPT ![p.message] = "work"]
    /\ UNCHANGED <<input, abandoned>>

Handled(c, p) == KeepIt(c, p) \/ Renew(c, p) \/ Deny(c, p) \/ Launch(c, p)

LEMMA CollectForms ==
    ASSUME NEW c \in Channels, NEW p \in Partials, Collect(c, p)
    PROVE  Handled(c, p)
<1>1. Len(p.data) \in Nat /\ p.total \in Nat
  BY LengthsCount DEF Partials
<1>2. CASE Complete(p)
  <2>1. Cleared(c, p) /\ Dispatch(c, p)
    BY <1>2 DEF Collect, Complete, Cleared, Dispatch
  <2>. QED
    BY <2>1 DEF Handled, Renew, Deny, Launch, Dispatch, Busy, Holds
<1>3. CASE ~Complete(p)
  BY <1>1, <1>3 DEF Collect, Complete, Handled, KeepIt
<1>. QED
  BY <1>2, <1>3

\* A first report is refused, or it begins a message.
Reject(c) ==
    /\ busy # 0 /\ owner[busy] # c /\ Deliver(c, ErrorReport)
    /\ refused' = IF partial[c] = None THEN refused ELSE refused \cup {next}
    /\ UNCHANGED <<partial, busy, owner, pc, dispatched, abandoned>>

LEMMA BeginForms ==
    ASSUME NEW c \in Channels, NEW k \in {"init", "cbor"}, NEW n \in Lengths, Begin(c, k, n)
    PROVE  \/ k = "cbor" /\ Reject(c)
           \/ /\ refused' = refused
              /\ Handled(c, Started(c, next, k, n))
<1>1. next \in Messages /\ FirstReport(c, next, k, n)
  BY DEF Begin
<1>2. Started(c, next, k, n) \in Partials
  BY <1>1, StartsGrown
<1>. QED
  BY <1>1, <1>2, CollectForms DEF FirstReport, Reject, daemonVars

\* A further report is ignored, out of turn, or continues the message.
Ignored(c) == partial[c] = None /\ UNCHANGED <<partial, busy, owner, pc, input, dispatched, abandoned>>

Broken(c) ==
    /\ partial[c] # None /\ ~Follows(partial[c], (sent[c] + 1) - 2)
    /\ partial' = [partial EXCEPT ![c] = None] /\ Deliver(c, ErrorReport)
    /\ UNCHANGED <<busy, owner, pc, dispatched, abandoned>>

LEMMA ContinueForms ==
    ASSUME Fields, NEW c \in Channels, Kept(c), Asking(c), Continue(c)
    PROVE  \/ Ignored(c)
           \/ Broken(c)
           \/ /\ partial[c] # None /\ Follows(partial[c], (sent[c] + 1) - 2)
              /\ Handled(c, Longer(c))
<1>1. phase[c] = "writing" /\ NextReport(c, message[c], sent[c] + 1)
  BY DEF Continue
<1>2. CASE partial[c] = None
  BY <1>1, <1>2 DEF NextReport, Ignored, daemonVars
<1>3. CASE partial[c] # None /\ ~Follows(partial[c], (sent[c] + 1) - 2)
  BY <1>1, <1>3 DEF NextReport, Broken
<1>4. CASE partial[c] # None /\ Follows(partial[c], (sent[c] + 1) - 2)
  <2>1. Collect(c, Longer(c))
    BY <1>1, <1>4 DEF NextReport, Longer, Added
  <2>2. Longer(c) \in Partials
    BY <1>1, <1>4, GoesOn
  <2>. QED
    BY <1>4, <2>1, <2>2, CollectForms
<1>. QED
  BY <1>2, <1>3, <1>4

\* The message a report brought on: it has no worker yet and is of no other channel.
Brought(c, p) ==
    /\ Grown(p, refused) /\ p.message \in Messages /\ p.message < next'
    /\ pc[p.message] = "none" /\ written[p.message] = 0
    /\ \A d \in Channels : partial[d] # None => d = c \/ partial[d].message # p.message
    /\ message'[c] = p.message \/ message'[c] \in refused
    /\ refused' = refused

\* What both have in common.
Reported(c) ==
    \/ Reject(c) /\ message'[c] = next
    \/ Ignored(c) /\ refused' = refused
    \/ Broken(c) /\ refused' = refused
    \/ \E p \in Partials : Brought(c, p) /\ Handled(c, p)

Sends(c) == (\E k \in {"init", "cbor"}, n \in Lengths : Begin(c, k, n)) \/ Continue(c)

LEMMA ReportForms ==
    ASSUME Fields, Assembling, Workers, Writers, NEW c \in Channels, Sends(c)
    PROVE  Reported(c)
<1>0. Kept(c) /\ Asking(c)
  BY DEF Assembling, Writers
<1>1. ASSUME NEW k \in {"init", "cbor"}, NEW n \in Lengths, Begin(c, k, n)
      PROVE  Reported(c)
  <2>. DEFINE p == Started(c, next, k, n)
  <2>1. next \in Messages /\ next \in Nat /\ next' = next + 1 /\ message'[c] = next
    BY <1>1 DEF Begin, Fields
  <2>2. p \in Partials /\ Grown(p, refused) /\ p.message = next
    BY <2>1, StartsGrown DEF Started
  <2>3. pc[next] = "none" /\ written[next] = 0
    BY <2>1 DEF Workers, Working
  <2>4. \A d \in Channels : partial[d] # None => partial[d].message < next
    BY DEF Assembling, Kept
  <2>5. \A d \in Channels : partial[d] # None => partial[d].message # next
    BY <2>1, <2>4
  <2>. HIDE DEF p
  <2>6. refused' = refused => Brought(c, p)
    BY <2>1, <2>2, <2>3, <2>5 DEF Brought
  <2>. QED
    BY <1>1, <2>1, <2>2, <2>6, BeginForms DEF Reported, p
<1>2. CASE Continue(c)
  <2>1. phase[c] = "writing" /\ UNCHANGED <<refused, message, next>>
    BY <1>2 DEF Continue
  <2>2. ASSUME partial[c] # None, Follows(partial[c], (sent[c] + 1) - 2)
        PROVE  Longer(c) \in Partials /\ Brought(c, Longer(c))
    <3>1. Longer(c) \in Partials /\ Grown(Longer(c), refused) /\ Longer(c).message = partial[c].message
      BY <1>0, <2>1, <2>2, GoesOn
    <3>2. Longer(c).message \in Messages
      BY <3>1 DEF Partials
    <3>3. partial[c].message < next /\ pc[partial[c].message] = "none"
          /\ (message[c] = partial[c].message \/ message[c] \in refused)
      BY <1>0, <2>1, <2>2 DEF Kept
    <3>4. written[partial[c].message] = 0
      BY <3>1, <3>2, <3>3 DEF Workers, Working
    <3>5. \A d \in Channels : partial[d] # None => d = c \/ partial[d].message # partial[c].message
      BY <2>2 DEF Assembling
    <3>. QED
      BY <2>1, <3>1, <3>2, <3>3, <3>4, <3>5 DEF Brought
  <2>. QED
    BY <1>0, <1>2, <2>1, <2>2, ContinueForms DEF Reported
<1>. QED
  BY <1>1, <1>2 DEF Sends

LEMMA ReportedFields ==
    ASSUME Fields, NEW c \in Channels, Reported(c)
    PROVE  /\ partial' \in [Channels -> Partials \cup {None}]
           /\ busy' \in Messages \cup {0}
           /\ owner' \in [Messages -> Channels \cup {None}]
           /\ pc' \in [Messages -> {"none", "work", "write", "finish", "done"}]
           /\ input' \in [Channels -> Seq(Reports)]
           /\ \A d \in Channels : d # c => partial'[d] = partial[d] /\ input'[d] = input[d]
<1>0. /\ partial \in [Channels -> Partials \cup {None}] /\ busy \in Messages \cup {0}
      /\ owner \in [Messages -> Channels \cup {None}]
      /\ pc \in [Messages -> {"none", "work", "write", "finish", "done"}]
      /\ input \in [Channels -> Seq(Reports)]
  BY DEF Fields
<1>1. CASE Reject(c) \/ Broken(c)
  <2>1. Deliver(c, ErrorReport) /\ UNCHANGED <<busy, owner, pc>>
        /\ (partial' = partial \/ partial' = [partial EXCEPT ![c] = None])
    BY <1>1 DEF Reject, Broken
  <2>2. input' \in [Channels -> Seq(Reports)] /\ \A d \in Channels : d # c => input'[d] = input[d]
    BY <2>1, ReportTypes, Delivered
  <2>. QED
    BY <1>0, <2>1, <2>2
<1>2. CASE Ignored(c)
  BY <1>0, <1>2 DEF Ignored
<1>3. ASSUME NEW p \in Partials, Brought(c, p), Handled(c, p)
      PROVE  /\ partial' \in [Channels -> Partials \cup {None}]
             /\ busy' \in Messages \cup {0}
             /\ owner' \in [Messages -> Channels \cup {None}]
             /\ pc' \in [Messages -> {"none", "work", "write", "finish", "done"}]
             /\ input' \in [Channels -> Seq(Reports)]
             /\ \A d \in Channels : d # c => partial'[d] = partial[d] /\ input'[d] = input[d]
  <2>1. CASE KeepIt(c, p)
    BY <1>0, <2>1 DEF KeepIt
  <2>2. CASE Renew(c, p) \/ Deny(c, p)
    <3>1. \E r \in Reports : Deliver(c, r)
      BY <1>3, <2>2, ReportTypes DEF Renew, Deny, Brought
    <3>2. input' \in [Channels -> Seq(Reports)] /\ \A d \in Channels : d # c => input'[d] = input[d]
      BY <3>1, Delivered
    <3>3. UNCHANGED <<owner, pc>> /\ (busy' = 0 \/ busy' = busy)
          /\ partial' = [partial EXCEPT ![c] = None]
      BY <2>2 DEF Renew, Deny, Cleared
    <3>. QED
      BY <1>0, <3>2, <3>3
  <2>3. CASE Launch(c, p)
    BY <1>0, <1>3, <2>3 DEF Launch, Cleared, Brought
  <2>. QED
    BY <1>3, <2>1, <2>2, <2>3 DEF Handled
<1>. QED
  BY <1>1, <1>2, <1>3 DEF Reported

-----------------------------------------------------------------------------
(* The types.                                                              *)

LEMMA SendFields ==
    ASSUME Fields, Assembling, Workers, Writers, NEW c \in Channels, Sends(c)
    PROVE  Fields' /\ Reported(c)
<1>1. Reported(c)
  BY ReportForms
<1>2. /\ partial' \in [Channels -> Partials \cup {None}]
      /\ busy' \in Messages \cup {0}
      /\ owner' \in [Messages -> Channels \cup {None}]
      /\ pc' \in [Messages -> {"none", "work", "write", "finish", "done"}]
      /\ input' \in [Channels -> Seq(Reports)]
  BY <1>1, ReportedFields
<1>3. written' \in [Messages -> Nat] /\ size' \in [Messages -> Nat]
  BY DEF Sends, Begin, Continue, Fields
<1>4. ASSUME NEW k \in {"init", "cbor"}, NEW n \in Lengths, Begin(c, k, n)
      PROVE  Fields'
  <2>1. n \in Nat /\ next \in Messages /\ next \in Nat /\ next' = next + 1
    BY <1>4, LengthsCount DEF Begin, Fields
  <2>2. next' \in Nat \ {0} /\ message' \in [Channels -> Messages \cup {0}]
    BY <1>4, <2>1 DEF Begin, Fields
  <2>3. length' \in [Channels -> Nat] /\ sent' \in [Channels -> Nat]
    BY <1>4, <2>1 DEF Begin, Fields
  <2>4. command' \in [Channels -> {"init", "cbor"}] /\ rx' \in [Channels -> Seq(Parts)]
        /\ DOMAIN got' = Channels
    BY <1>4 DEF Begin, Fields
  <2>5. phase' \in [Channels -> {"idle", "writing", "waiting"}]
    BY <1>4 DEF Begin, Fields
  <2>. QED
    BY <1>2, <1>3, <2>2, <2>3, <2>4, <2>5 DEF Fields
<1>5. CASE Continue(c)
  <2>1. sent' \in [Channels -> Nat] /\ phase' \in [Channels -> {"idle", "writing", "waiting"}]
    BY <1>5 DEF Continue, Fields
  <2>2. UNCHANGED <<message, next, command, length, rx, got>>
    BY <1>5 DEF Continue
  <2>3. /\ message' \in [Channels -> Messages \cup {0}] /\ next' \in Nat \ {0}
        /\ command' \in [Channels -> {"init", "cbor"}] /\ length' \in [Channels -> Nat]
        /\ rx' \in [Channels -> Seq(Parts)] /\ DOMAIN got' = Channels
    BY <2>2 DEF Fields
  <2>. QED
    BY <1>1, <1>2, <1>3, <2>1, <2>3 DEF Fields
<1>. QED
  BY <1>1, <1>4, <1>5 DEF Sends

\* A client that is through with its message.
LEMMA ThroughFields ==
    ASSUME Fields, NEW c \in Channels, NEW reply, Through(c, reply)
    PROVE  /\ phase' \in [Channels -> {"idle", "writing", "waiting"}] /\ next' \in Nat \ {0}
           /\ message' \in [Channels -> Messages \cup {0}]
           /\ command' \in [Channels -> {"init", "cbor"}]
           /\ length' \in [Channels -> Nat] /\ sent' \in [Channels -> Nat]
           /\ rx' \in [Channels -> Seq(Parts)]
           /\ DOMAIN got' = Channels /\ got'[c] = reply
           /\ phase'[c] = "idle" /\ rx'[c] = <<>>
           /\ \A d \in Channels : d # c => /\ phase'[d] = phase[d] /\ message'[d] = message[d]
                                           /\ command'[d] = command[d] /\ length'[d] = length[d]
                                           /\ sent'[d] = sent[d] /\ rx'[d] = rx[d]
                                           /\ got'[d] = got[d]
  BY DEF Through, Fields

LEMMA GiveUpFields ==
    ASSUME Fields, NEW c \in Channels, GiveUp(c)
    PROVE  Fields'
<1>1. Through(c, None) /\ UNCHANGED <<daemonVars, workerVars, input>>
  BY DEF GiveUp
<1>. QED
  BY <1>1, ThroughFields DEF Fields, daemonVars, workerVars

\* What Read makes of the reports, by what the first one is.
Part(r) == [piece |-> r.piece, total |-> r.total]
All(c)  == Append(rx[c], Part(Head(input[c])))

LEMMA ReadForms ==
    ASSUME Fields, NEW c \in Channels, Read(c)
    PROVE  /\ phase[c] = "waiting" /\ input[c] # <<>>
           /\ Head(input[c]) \in Reports /\ Head(input[c]) = input[c][1]
           /\ input' = [input EXCEPT ![c] = Tail(@)] /\ Tail(input[c]) \in Seq(Reports)
           /\ UNCHANGED <<partial, busy, owner, pc, written, size, dispatched, refused, abandoned,
                          overlapped>>
           /\ All(c) \in Seq(Parts) /\ Len(All(c)) = Len(rx[c]) + 1 /\ Len(rx[c]) \in Nat
           /\ \A i \in 1 .. Len(rx[c]) : All(c)[i] = rx[c][i]
           /\ All(c)[Len(rx[c]) + 1] = Part(Head(input[c]))
           /\ \/ /\ Fits(c, Head(input[c])) /\ Len(All(c)) < All(c)[1].total
                 /\ rx' = [rx EXCEPT ![c] = All(c)]
                 /\ UNCHANGED <<phase, message, next, command, length, sent, unsure, got>>
              \/ /\ Fits(c, Head(input[c])) /\ Len(All(c)) = All(c)[1].total
                 /\ Through(c, IF c \in unsure THEN None
                               ELSE <<message[c], [i \in 1 .. Len(All(c)) |-> All(c)[i].piece]>>)
                 /\ unsure' = IF Head(input[c]).type = "init" THEN unsure \ {c} ELSE unsure
              \/ /\ ~Fits(c, Head(input[c]))
                 /\ Through(c, None)
                 /\ unsure' = unsure \cup {c}
<1>1. phase[c] = "waiting" /\ input[c] # <<>> /\ input[c] \in Seq(Reports) /\ rx[c] \in Seq(Parts)
  BY DEF Read, Fields
<1>2. Head(input[c]) \in Reports /\ Head(input[c]) = input[c][1] /\ Tail(input[c]) \in Seq(Reports)
  BY <1>1, Taken
<1>3. Part(Head(input[c])) \in Parts
  <2>1. \A r \in Reports : Part(r) \in Parts
    BY DEF Part, Parts, Reports
  <2>. QED
    BY <1>2, <2>1
<1>4. /\ All(c) \in Seq(Parts) /\ Len(All(c)) = Len(rx[c]) + 1 /\ Len(rx[c]) \in Nat
      /\ \A i \in 1 .. Len(rx[c]) : All(c)[i] = rx[c][i]
      /\ All(c)[Len(rx[c]) + 1] = Part(Head(input[c]))
  BY <1>1, <1>3, Appended DEF All
<1>5. /\ input' = [input EXCEPT ![c] = Tail(@)]
      /\ UNCHANGED <<partial, busy, owner, pc, written, size, dispatched, refused, abandoned,
                     overlapped>>
  BY DEF Read, daemonVars, workerVars
<1>6. \/ /\ Fits(c, Head(input[c])) /\ Len(All(c)) < All(c)[1].total
         /\ rx' = [rx EXCEPT ![c] = All(c)]
         /\ UNCHANGED <<phase, message, next, command, length, sent, unsure, got>>
      \/ /\ Fits(c, Head(input[c])) /\ Len(All(c)) = All(c)[1].total
         /\ Through(c, IF c \in unsure THEN None
                       ELSE <<message[c], [i \in 1 .. Len(All(c)) |-> All(c)[i].piece]>>)
         /\ unsure' = IF Head(input[c]).type = "init" THEN unsure \ {c} ELSE unsure
      \/ /\ ~Fits(c, Head(input[c]))
         /\ Through(c, None)
         /\ unsure' = unsure \cup {c}
  BY DEF Read, All, Part
<1>. QED
  BY <1>1, <1>2, <1>4, <1>5, <1>6

LEMMA ReadFields ==
    ASSUME Fields, NEW c \in Channels, Read(c)
    PROVE  Fields'
<1>1. input' \in [Channels -> Seq(Reports)]
      /\ UNCHANGED <<partial, busy, owner, pc, written, size>>
  <2>1. /\ input' = [input EXCEPT ![c] = Tail(@)] /\ Tail(input[c]) \in Seq(Reports)
        /\ UNCHANGED <<partial, busy, owner, pc, written, size>>
    BY ReadForms
  <2>. QED
    BY <2>1 DEF Fields
<1>2. CASE \E reply : Through(c, reply)
  BY <1>1, <1>2, ThroughFields DEF Fields
<1>3. CASE rx' = [rx EXCEPT ![c] = All(c)]
           /\ UNCHANGED <<phase, message, next, command, length, sent, got>>
  <2>1. All(c) \in Seq(Parts)
    BY ReadForms
  <2>. QED
    BY <1>1, <1>3, <2>1 DEF Fields
<1>. QED
  BY <1>2, <1>3, ReadForms

\* The worker's report is one of its answer.
LEMMA WrittenReport ==
    ASSUME Fields, Workers, NEW m \in Messages, Write(m)
    PROVE  /\ owner[m] \in Channels /\ pc[m] = "write"
           /\ Deliver(owner[m], Report(m, written[m] + 1, size[m]))
           /\ Report(m, written[m] + 1, size[m]) \in Reports
           /\ input' \in [Channels -> Seq(Reports)]
           /\ \A d \in Channels : d # owner[m] => input'[d] = input[d]
           /\ input'[owner[m]] = Append(input[owner[m]], Report(m, written[m] + 1, size[m]))
<1>1. owner[m] \in Channels /\ pc[m] = "write"
  BY DEF Write, Workers, Working
<1>2. written[m] + 1 \in Nat \ {0} /\ size[m] \in Nat
  BY DEF Fields
<1>3. Report(m, written[m] + 1, size[m]) \in Reports
  BY <1>2, ReportTypes
<1>4. AnswerReport(m, written[m] + 1) = Report(m, written[m] + 1, size[m])
  BY DEF AnswerReport, Report
<1>5. Deliver(owner[m], Report(m, written[m] + 1, size[m]))
  BY <1>4 DEF Write, ReplyChannel
<1>. QED
  BY <1>1, <1>3, <1>5, Delivered

LEMMA WorkerFields ==
    ASSUME Fields, Workers, NEW m \in Messages, Worker(m)
    PROVE  Fields'
<1>0. UNCHANGED <<partial, phase, message, next, command, length, sent, rx, got>>
  BY DEF Worker, Respond, Write, Finish, daemonVars, clientVars, history
<1>1. ASSUME NEW n \in ReplyLengths, Respond(m, n)
      PROVE  Fields'
  <2>1. n \in Nat
    BY FramingAssumption
  <2>2. pc' \in [Messages -> {"none", "work", "write", "finish", "done"}]
        /\ size' \in [Messages -> Nat]
    BY <1>1, <2>1 DEF Respond, Fields
  <2>3. UNCHANGED <<busy, owner, written, input>>
    BY <1>1 DEF Respond, daemonVars
  <2>. QED
    BY <1>0, <2>2, <2>3 DEF Fields
<1>2. CASE Write(m)
  <2>1. pc' \in [Messages -> {"none", "work", "write", "finish", "done"}]
        /\ written' \in [Messages -> Nat]
    BY <1>2 DEF Write, Fields
  <2>2. UNCHANGED <<busy, owner, size>>
    BY <1>2 DEF Write, daemonVars
  <2>3. input' \in [Channels -> Seq(Reports)]
    BY <1>2, WrittenReport
  <2>. QED
    BY <1>0, <2>1, <2>2, <2>3 DEF Fields
<1>3. CASE Finish(m)
  <2>1. /\ pc' \in [Messages -> {"none", "work", "write", "finish", "done"}]
        /\ written' \in [Messages -> Nat] /\ size' \in [Messages -> Nat]
        /\ owner' \in [Messages -> Channels \cup {None}]
    BY <1>3 DEF Finish, Fields
  <2>2. busy' \in Messages \cup {0} /\ input' = input
    BY <1>3 DEF Finish, Freed, Fields
  <2>. QED
    BY <1>0, <2>1, <2>2 DEF Fields
<1>. QED
  BY <1>1, <1>2, <1>3 DEF Worker

LEMMA FieldsStep ==
    ASSUME IndInv, [Next]_vars
    PROVE  Fields'
<1>0. Fields /\ Assembling /\ Writers /\ Workers
  BY DEF IndInv
<1>1. CASE \E c \in Channels : Client(c)
  BY <1>0, <1>1, SendFields, GiveUpFields, ReadFields DEF Client, Sends
<1>2. CASE \E m \in Messages : Worker(m)
  BY <1>0, <1>2, WorkerFields
<1>3. CASE UNCHANGED vars
  BY <1>0, <1>3 DEF Fields, vars, daemonVars, workerVars, clientVars, history
<1>. QED
  BY <1>1, <1>2, <1>3 DEF Next

-----------------------------------------------------------------------------
(* Messages under way.                                                     *)

LEMMA AssemblingSend ==
    ASSUME Fields, Assembling, Workers, Writers, NEW c \in Channels, Sends(c)
    PROVE  Assembling'
<1>0. Reported(c)
  BY ReportForms
<1>1. /\ \A d \in Channels : d # c => /\ phase'[d] = phase[d] /\ message'[d] = message[d]
                                      /\ partial'[d] = partial[d]
      /\ next <= next' /\ next \in Nat /\ next' \in Nat
  <2>1. \A d \in Channels : d # c => phase'[d] = phase[d] /\ message'[d] = message[d]
    BY DEF Sends, Begin, Continue, Fields
  <2>2. next \in Nat /\ (next' = next \/ next' = next + 1)
    BY DEF Sends, Begin, Continue, Fields
  <2>. QED
    BY <1>0, <2>1, <2>2, ReportedFields
<1>2. \A q : Grown(q, refused) /\ refused \subseteq refused' => Grown(q, refused')
  BY DEF Grown
<1>3. ASSUME NEW d \in Channels, d # c, refused \subseteq refused',
             partial[d] # None => pc'[partial[d].message] = "none"
      PROVE  Kept(d)'
  <2>1. Kept(d) /\ (partial[d] # None => partial[d].message \in Nat)
    BY KeptNumber DEF Assembling
  <2>2. partial[d] # None => partial[d].message < next'
    BY <1>1, <2>1 DEF Kept
  <2>. QED
    BY <1>1, <1>2, <1>3, <2>1, <2>2 DEF Kept
<1>4. \A d, e \in Channels : d # c /\ e # c /\ partial'[d] # None /\ partial'[e] # None =>
        d = e \/ partial'[d].message # partial'[e].message
  BY <1>1 DEF Assembling
<1>5. ASSUME refused \subseteq refused', pc' = pc, partial'[c] = None
      PROVE  Assembling'
  <2>1. \A d \in Channels : d # c => Kept(d)'
    BY <1>5, <1>3 DEF Assembling, Kept
  <2>. QED
    BY <1>5, <1>4, <2>1 DEF Assembling, Kept
<1>6. CASE Reject(c) /\ message'[c] = next
  <2>1. refused \subseteq refused' /\ UNCHANGED <<partial, pc>>
        /\ (partial[c] # None => message'[c] \in refused')
    BY <1>6 DEF Reject
  <2>2. \A d \in Channels : d # c => Kept(d)'
    BY <2>1, <1>3 DEF Assembling, Kept
  <2>3. Kept(c)'
    <3>1. Kept(c) /\ (partial[c] # None => partial[c].message \in Nat)
      BY KeptNumber DEF Assembling
    <3>2. partial[c] # None => partial[c].message < next'
      BY <1>1, <3>1 DEF Kept
    <3>. QED
      BY <1>2, <2>1, <3>1, <3>2 DEF Kept
  <2>. QED
    BY <1>1, <2>1, <2>2, <2>3 DEF Assembling
<1>7. CASE Ignored(c) /\ refused' = refused
  BY <1>5, <1>7 DEF Ignored
<1>8. CASE Broken(c) /\ refused' = refused
  BY <1>5, <1>8 DEF Broken, Fields
<1>9. ASSUME NEW p \in Partials, Brought(c, p), Handled(c, p)
      PROVE  Assembling'
  <2>1. CASE KeepIt(c, p)
    <3>1. partial'[c] = p /\ pc' = pc /\ refused' = refused /\ Len(p.data) < p.total
      BY <1>9, <2>1 DEF KeepIt, Fields, Brought
    <3>2. Kept(c)'
      BY <1>2, <1>9, <3>1 DEF Kept, Brought
    <3>3. \A d \in Channels : d # c => Kept(d)'
      BY <1>3, <3>1 DEF Assembling, Kept
    <3>4. \A d, e \in Channels : partial'[d] # None /\ partial'[e] # None =>
            d = e \/ partial'[d].message # partial'[e].message
      BY <1>1, <1>9, <3>1 DEF Assembling, Brought
    <3>. QED
      BY <3>2, <3>3, <3>4 DEF Assembling
  <2>2. CASE Renew(c, p) \/ Deny(c, p)
    BY <1>5, <1>9, <2>2 DEF Renew, Deny, Cleared, Fields, Brought
  <2>3. CASE Launch(c, p)
    <3>1. partial'[c] = None /\ refused' = refused
          /\ \A m \in Messages : m # p.message => pc'[m] = pc[m]
      BY <1>9, <2>3 DEF Launch, Cleared, Fields, Brought
    <3>2. \A d \in Channels : d # c => Kept(d)'
      <4>. SUFFICES ASSUME NEW d \in Channels, d # c, partial[d] # None
                    PROVE  Kept(d)'
        BY <1>1 DEF Kept
      <4>1. partial[d].message \in Messages /\ partial[d].message # p.message
        BY <1>9 DEF Brought, Fields, Partials
      <4>2. Kept(d)
        BY DEF Assembling
      <4>3. pc'[partial[d].message] = "none"
        BY <3>1, <4>1, <4>2 DEF Kept
      <4>. QED
        BY <1>3, <3>1, <4>3
    <3>. QED
      BY <1>4, <3>1, <3>2 DEF Assembling, Kept
  <2>. QED
    BY <1>9, <2>1, <2>2, <2>3 DEF Handled
<1>. QED
  BY <1>0, <1>6, <1>7, <1>8, <1>9 DEF Reported

LEMMA AssemblingStep ==
    ASSUME IndInv, [Next]_vars
    PROVE  Assembling'
<1>0. Fields /\ Assembling /\ Writers /\ Workers
  BY DEF IndInv
<1>1. ASSUME NEW c \in Channels, GiveUp(c) \/ Read(c)
      PROVE  Assembling'
  <2>1. UNCHANGED <<partial, pc, refused, next>>
    BY <1>1 DEF GiveUp, Read, Through, daemonVars, workerVars
  <2>2. \A d \in Channels : phase'[d] = "writing" => phase[d] = "writing" /\ message'[d] = message[d]
    <3>1. (\E reply : Through(c, reply)) \/ UNCHANGED <<phase, message>>
      BY <1>1 DEF GiveUp, Read
    <3>2. (\E reply : Through(c, reply)) => phase'[c] = "idle"
      BY <1>0, ThroughFields
    <3>3. \A d \in Channels : (\E reply : Through(c, reply)) /\ d # c =>
            phase'[d] = phase[d] /\ message'[d] = message[d]
      BY <1>0, ThroughFields
    <3>. QED
      BY <3>1, <3>2, <3>3
  <2>. QED
    BY <1>0, <2>1, <2>2 DEF Assembling, Kept, Grown
<1>2. ASSUME NEW m \in Messages, Worker(m)
      PROVE  Assembling'
  <2>1. UNCHANGED <<partial, phase, message, refused, next>>
    BY <1>2 DEF Worker, Respond, Write, Finish, daemonVars, clientVars, history
  <2>2. \A n \in Messages : pc[n] = "none" => pc'[n] = "none"
    BY <1>0, <1>2 DEF Worker, Respond, Write, Finish, Fields
  <2>3. \A c \in Channels : partial[c] # None => partial[c].message \in Messages
    BY <1>0 DEF Fields, Partials
  <2>. QED
    BY <1>0, <2>1, <2>2, <2>3 DEF Assembling, Kept, Grown
<1>3. CASE UNCHANGED vars
  BY <1>0, <1>3 DEF Assembling, Kept, Grown, vars, daemonVars, workerVars, clientVars, history
<1>. QED
  BY <1>0, <1>1, <1>2, <1>3, AssemblingSend DEF Next, Client, Sends

\* Complete messages are one client's, or have a refused one in them.
LEMMA IntactStep ==
    ASSUME IndInv, MessagesIntact, [Next]_vars
    PROVE  MessagesIntact'
<1>0. Fields /\ Assembling /\ Writers /\ Workers
  BY DEF IndInv
<1>1. ASSUME UNCHANGED dispatched, refused \subseteq refused'
      PROVE  MessagesIntact'
  BY <1>1 DEF MessagesIntact, Whole
<1>2. ASSUME NEW c \in Channels, Sends(c)
      PROVE  MessagesIntact'
  <2>1. Reported(c)
    BY <1>0, <1>2, ReportForms
  <2>2. ASSUME NEW p \in Partials, Brought(c, p), Cleared(c, p)
        PROVE  MessagesIntact'
    <3>1. dispatched'.data = p.data /\ dispatched'.length = p.total /\ refused' = refused
      BY <2>2 DEF Cleared, Brought
    <3>2. p.data \in Seq(Pieces) /\ p.total \in Nat /\ p.next \in Nat /\ Len(p.data) = p.total
      BY <2>2, LengthsCount DEF Partials, Cleared, Brought, Grown
    <3>3. CASE \E i \in 2 .. Len(p.data) : p.data[i][1] \in refused
      BY <3>1, <3>3 DEF MessagesIntact
    <3>4. CASE \A i \in 1 .. Len(p.data) : p.data[i][1] = p.message
      <4>1. \A i \in 1 .. p.total : p.data[i] = <<p.message, i>>
        BY <2>2, <3>2, <3>4 DEF Brought, Grown, Pieces
      <4>2. p.data = [i \in 1 .. p.total |-> <<p.message, i>>]
        <5>1. p.data \in [1 .. Len(p.data) -> Pieces]
          BY <3>2, LenProperties
        <5>. QED
          BY <3>2, <4>1, <5>1
      <4>3. p.data[1][1] = p.message
        BY <2>2 DEF Brought, Grown
      <4>. QED
        BY <3>1, <4>2, <4>3 DEF MessagesIntact, Whole
    <3>. QED
      BY <2>2, <3>3, <3>4 DEF Brought, Grown
  <2>3. ASSUME NEW p \in Partials, Brought(c, p), Handled(c, p)
        PROVE  MessagesIntact'
    <3>1. Cleared(c, p) \/ KeepIt(c, p)
      BY <2>3 DEF Handled, Renew, Deny, Launch
    <3>. QED
      BY <1>1, <2>2, <2>3, <3>1 DEF KeepIt, Brought
  <2>4. CASE Reject(c) \/ ((Ignored(c) \/ Broken(c)) /\ refused' = refused)
    BY <1>1, <2>4 DEF Reject, Ignored, Broken
  <2>. QED
    BY <2>1, <2>3, <2>4 DEF Reported
<1>3. CASE \/ \E c \in Channels : GiveUp(c) \/ Read(c)
           \/ \E m \in Messages : Worker(m)
           \/ UNCHANGED vars
  <2>1. UNCHANGED <<dispatched, refused>>
    BY <1>3 DEF GiveUp, Read, Worker, Respond, Write, Finish, history, vars
  <2>. QED
    BY <1>1, <2>1
<1>. QED
  BY <1>2, <1>3 DEF Next, Client, Sends

-----------------------------------------------------------------------------
(* Workers and clients.                                                    *)

LEMMA WorkersSend ==
    ASSUME Fields, Assembling, Workers, Writers, NEW c \in Channels, Sends(c)
    PROVE  Workers'
<1>0. Reported(c) /\ \A m \in Messages : Working(m)
  BY ReportForms DEF Workers
<1>1. /\ UNCHANGED <<written, size>> /\ next \in Nat /\ next' \in Nat /\ next <= next'
      /\ \A m \in Messages : m \in Nat /\ (m >= next' => m >= next)
  <2>1. UNCHANGED <<written, size>> /\ next \in Nat /\ (next' = next \/ next' = next + 1)
    BY DEF Sends, Begin, Continue, Fields
  <2>. QED
    BY <2>1, MessagesCount
<1>2. ASSUME UNCHANGED <<busy, owner, pc, abandoned>>
      PROVE  Workers'
  BY <1>0, <1>1, <1>2 DEF Workers, Working
<1>3. ASSUME NEW p \in Partials, Brought(c, p), Handled(c, p)
      PROVE  Workers'
  <2>1. CASE KeepIt(c, p) \/ Deny(c, p)
    BY <1>2, <2>1 DEF KeepIt, Deny
  <2>2. CASE Renew(c, p)
    BY <1>0, <1>1, <2>2 DEF Renew, Workers, Working
  <2>3. CASE Launch(c, p)
    <3>1. /\ p.message \in Messages /\ busy = 0 /\ busy' = p.message /\ abandoned' = abandoned
          /\ owner'[p.message] = c /\ pc'[p.message] = "work" /\ written[p.message] = 0
          /\ p.message < next'
          /\ \A m \in Messages : m # p.message => pc'[m] = pc[m] /\ owner'[m] = owner[m]
      BY <1>3, <2>3 DEF Launch, Brought, Fields
    <3>2. Working(p.message)'
      BY <1>1, <3>1 DEF Working
    <3>3. \A m \in Messages : m # p.message => Working(m)'
      <4>. SUFFICES ASSUME NEW m \in Messages, m # p.message
                    PROVE  Working(m)'
        OBVIOUS
      <4>1. m # 0
        BY MessagesCount
      <4>2. pc[m] = "write" => m \in abandoned
        BY <1>0, <3>1, <4>1 DEF Working
      <4>. QED
        BY <1>0, <1>1, <3>1, <4>2 DEF Working
    <3>. QED
      BY <3>1, <3>2, <3>3 DEF Workers
  <2>. QED
    BY <1>3, <2>1, <2>2, <2>3 DEF Handled
<1>. QED
  BY <1>0, <1>2, <1>3 DEF Reported, Reject, Ignored, Broken

LEMMA WorkersStep ==
    ASSUME IndInv, [Next]_vars
    PROVE  Workers'
<1>0. Fields /\ Assembling /\ Writers /\ Workers /\ \A m \in Messages : Working(m)
  BY DEF IndInv, Workers
<1>1. CASE UNCHANGED <<busy, owner, pc, written, size, abandoned, next>>
  BY <1>0, <1>1 DEF Workers, Working
<1>2. ASSUME NEW c \in Channels, GiveUp(c) \/ Read(c)
      PROVE  Workers'
  <2>1. UNCHANGED <<busy, owner, pc, written, size, abandoned, next>>
    BY <1>2 DEF GiveUp, Read, Through, daemonVars, workerVars
  <2>. QED
    BY <1>1, <2>1
<1>3. ASSUME NEW m \in Messages, Worker(m)
      PROVE  Workers'
  <2>0. UNCHANGED <<next>> /\ m # 0
    BY <1>3, MessagesCount DEF Worker, Respond, Write, Finish, clientVars
  <2>1. \A n \in Messages : n # m => /\ pc'[n] = pc[n] /\ owner'[n] = owner[n]
                                     /\ size'[n] = size[n] /\ written'[n] = written[n]
                                     /\ (n \in abandoned => n \in abandoned')
                                     /\ (busy = n => busy' = n)
    BY <1>0, <1>3 DEF Worker, Respond, Write, Finish, Freed, Fields, daemonVars, history
  <2>2. \A n \in Messages : n # m => Working(n)'
    BY <1>0, <2>0, <2>1 DEF Working
  <2>3. busy' = busy \/ (busy = m /\ busy' = 0)
    BY <1>3 DEF Worker, Respond, Write, Finish, Freed, daemonVars
  <2>4. ASSUME NEW n \in ReplyLengths, Respond(m, n)
        PROVE  Working(m)' /\ (busy' = m => pc'[m] \in {"work", "write", "finish"})
    <3>1. n \in Nat /\ n # 0
      BY FramingAssumption
    <3>2. pc[m] = "work" /\ written[m] = 0 /\ owner[m] \in Channels /\ ~(m >= next)
      BY <1>0, <2>4 DEF Respond, Working
    <3>3. UNCHANGED <<busy, owner, written, abandoned, next>>
      BY <2>4 DEF Respond, daemonVars, clientVars, history
    <3>4. \/ busy = m /\ pc'[m] = "write" /\ size'[m] = n
          \/ pc'[m] = "finish"
      BY <1>0, <2>4 DEF Respond, Fields
    <3>. QED
      BY <3>1, <3>2, <3>3, <3>4 DEF Working
  <2>5. ASSUME Write(m)
        PROVE  Working(m)' /\ (busy' = m => pc'[m] \in {"work", "write", "finish"})
    <3>1. pc[m] = "write" /\ owner[m] \in Channels /\ ~(m >= next) /\ written[m] < size[m]
          /\ (busy = m \/ m \in abandoned) /\ size[m] \in ReplyLengths
      BY <1>0, <2>5 DEF Write, Working
    <3>2. UNCHANGED <<busy, owner, size, abandoned, next>>
      BY <2>5 DEF Write, daemonVars, clientVars
    <3>3. written[m] \in Nat /\ size[m] \in Nat /\ written'[m] = written[m] + 1
          /\ pc'[m] = IF written[m] + 1 = size[m] THEN "finish" ELSE "write"
      BY <1>0, <2>5, <3>1 DEF Write, Fields
    <3>. QED
      BY <3>1, <3>2, <3>3 DEF Working
  <2>6. ASSUME Finish(m)
        PROVE  Working(m)' /\ (busy' = m => pc'[m] \in {"work", "write", "finish"})
    <3>1. busy' # m /\ pc'[m] = "done" /\ pc[m] = "finish"
      BY <1>0, <2>0, <2>6 DEF Finish, Freed, Fields
    <3>2. ~(m >= next)
      BY <1>0, <3>1 DEF Working
    <3>. QED
      BY <2>0, <3>1, <3>2 DEF Working
  <2>7. Working(m)' /\ (busy' = m => pc'[m] \in {"work", "write", "finish"})
    BY <1>3, <2>4, <2>5, <2>6 DEF Worker
  <2>8. busy' # 0 => pc'[busy'] \in {"work", "write", "finish"}
    BY <1>0, <2>1, <2>3, <2>7 DEF Workers, Fields
  <2>. QED
    BY <2>2, <2>7, <2>8 DEF Workers
<1>4. CASE UNCHANGED vars
  BY <1>1, <1>4 DEF vars, daemonVars, workerVars, clientVars, history
<1>. QED
  BY <1>0, <1>2, <1>3, <1>4, WorkersSend DEF Next, Client, Sends

LEMMA WritersStep ==
    ASSUME IndInv, [Next]_vars
    PROVE  Writers'
<1>0. Fields /\ \A d \in Channels : Asking(d)
  BY DEF IndInv, Writers
<1>1. ASSUME UNCHANGED <<phase, rx, message, command, sent, length>>
      PROVE  Writers'
  BY <1>0, <1>1 DEF Writers, Asking
<1>2. ASSUME NEW c \in Channels, Client(c)
      PROVE  Writers'
  <2>1. ASSUME NEW k \in {"init", "cbor"}, NEW n \in Lengths, Begin(c, k, n)
        PROVE  Writers'
    <3>1. n \in Nat /\ n >= 1 /\ next \in Messages
      BY <2>1, LengthsCount DEF Begin
    <3>2. Asking(c)'
      <4>1. /\ rx'[c] = <<>> /\ message'[c] = next /\ command'[c] = k /\ length'[c] = n
            /\ sent'[c] = 1 /\ phase'[c] = IF n = 1 THEN "waiting" ELSE "writing"
            /\ (k = "init" => n = 1)
        BY <1>0, <2>1 DEF Begin, Fields
      <4>2. n # 1 => 1 \in 1 .. n - 1 /\ k = "cbor"
        BY <3>1, <4>1
      <4>. QED
        BY <3>1, <4>1, <4>2 DEF Asking
    <3>3. \A d \in Channels : d # c => Asking(d)'
      BY <1>0, <2>1 DEF Begin, Fields, Asking
    <3>. QED
      BY <3>2, <3>3 DEF Writers
  <2>2. CASE Continue(c)
    <3>1. Asking(c)'
      <4>1. sent[c] \in 1 .. length[c] - 1 /\ length[c] \in Nat /\ command[c] = "cbor"
            /\ message[c] \in Messages /\ rx[c] = <<>>
        BY <1>0, <2>2 DEF Continue, Asking, Fields
      <4>2. UNCHANGED <<message, command, length, rx>> /\ sent'[c] = sent[c] + 1
            /\ phase'[c] = IF sent[c] + 1 = length[c] THEN "waiting" ELSE "writing"
        BY <1>0, <2>2 DEF Continue, Fields
      <4>3. sent[c] + 1 # length[c] => sent[c] + 1 \in 1 .. length[c] - 1
        BY <4>1
      <4>. QED
        BY <4>1, <4>2, <4>3 DEF Asking
    <3>2. \A d \in Channels : d # c => Asking(d)'
      BY <1>0, <2>2 DEF Continue, Fields, Asking
    <3>. QED
      BY <3>1, <3>2 DEF Writers
  <2>3. ASSUME NEW reply, Through(c, reply)
        PROVE  Writers'
    BY <1>0, <2>3, ThroughFields DEF Writers, Asking
  <2>4. CASE Read(c) /\ rx' = [rx EXCEPT ![c] = All(c)]
             /\ UNCHANGED <<phase, message, next, command, length, sent, unsure, got>>
    BY <1>0, <2>4 DEF Writers, Asking, Read, Fields
  <2>. QED
    BY <1>0, <1>2, <2>1, <2>2, <2>3, <2>4, ReadForms DEF Client, GiveUp
<1>3. CASE (\E m \in Messages : Worker(m)) \/ UNCHANGED vars
  BY <1>1, <1>3 DEF Worker, Respond, Write, Finish, clientVars, vars
<1>. QED
  BY <1>2, <1>3 DEF Next

-----------------------------------------------------------------------------
(* A step is seen by one channel.                                          *)

\* Nothing changes for d, nor for the worker it waits for.
Apart(d) ==
    /\ partial'[d] = partial[d] /\ input'[d] = input[d]
    /\ phase'[d] = phase[d] /\ message'[d] = message[d] /\ command'[d] = command[d]
    /\ length'[d] = length[d] /\ sent'[d] = sent[d] /\ rx'[d] = rx[d]
    /\ (d \in unsure' => d \in unsure) /\ (d \in unsure => d \in unsure')
    /\ overlapped \subseteq overlapped' /\ next <= next'
    /\ Holds(d) => /\ busy' = busy /\ owner'[busy] = d /\ pc'[busy] = pc[busy]
                   /\ size'[busy] = size[busy] /\ written'[busy] = written[busy]
    /\ Holds(d)' => Holds(d)

LEMMA ApartSend ==
    ASSUME Fields, Assembling, Workers, Writers, NEW c \in Channels, Sends(c),
           NEW d \in Channels, d # c
    PROVE  Apart(d)
<1>0. Reported(c)
  BY ReportForms
<1>1. /\ phase'[d] = phase[d] /\ message'[d] = message[d] /\ command'[d] = command[d]
      /\ length'[d] = length[d] /\ sent'[d] = sent[d] /\ rx'[d] = rx[d]
      /\ UNCHANGED <<unsure, overlapped, size, written>>
  BY DEF Sends, Begin, Continue, Fields
<1>2. next <= next'
  <2>1. next \in Nat /\ (next' = next \/ next' = next + 1)
    BY DEF Sends, Begin, Continue, Fields
  <2>. QED
    BY <2>1
<1>3. partial'[d] = partial[d] /\ input'[d] = input[d]
  BY <1>0, ReportedFields
<1>4. \/ UNCHANGED <<busy, owner, pc>>
      \/ Holds(c) /\ busy' = 0 /\ UNCHANGED <<owner, pc>>
      \/ busy = 0 /\ owner'[busy'] = c
  <2>1. ASSUME NEW p \in Partials, Brought(c, p), Launch(c, p)
        PROVE  busy = 0 /\ owner'[busy'] = c
    BY <2>1 DEF Launch, Brought, Fields
  <2>. QED
    BY <1>0, <2>1 DEF Reported, Reject, Ignored, Broken, Handled, KeepIt, Renew, Deny
<1>5. /\ Holds(d) => busy' = busy /\ owner'[busy] = d /\ pc'[busy] = pc[busy]
      /\ Holds(d)' => Holds(d)
  BY <1>4 DEF Holds
<1>. QED
  BY <1>1, <1>2, <1>3, <1>5 DEF Apart

LEMMA ApartClient ==
    ASSUME Fields, NEW c \in Channels, GiveUp(c) \/ Read(c), NEW d \in Channels, d # c
    PROVE  Apart(d)
<1>1. UNCHANGED <<partial, busy, owner, pc, size, written, overlapped>> /\ next' = next
  BY DEF GiveUp, Read, Through, daemonVars, workerVars
<1>2. input'[d] = input[d]
  BY DEF GiveUp, Read, Fields
<1>3. unsure' = unsure \/ unsure' = unsure \cup {c} \/ unsure' = unsure \ {c}
  BY DEF GiveUp, Read
<1>4. /\ phase'[d] = phase[d] /\ message'[d] = message[d] /\ command'[d] = command[d]
      /\ length'[d] = length[d] /\ sent'[d] = sent[d] /\ rx'[d] = rx[d]
  <2>1. (\E reply : Through(c, reply))
        \/ ((\E v : rx' = [rx EXCEPT ![c] = v]) /\ UNCHANGED <<phase, message, command, length, sent>>)
    BY DEF GiveUp, Read
  <2>. QED
    BY <2>1, ThroughFields DEF Fields
<1>5. next \in Nat
  BY DEF Fields
<1>6. next <= next'
  BY <1>1, <1>5
<1>. QED
  BY <1>1, <1>2, <1>3, <1>4, <1>6 DEF Apart, Holds

LEMMA ApartWorker ==
    ASSUME Fields, Workers, NEW m \in Messages, Worker(m), NEW d \in Channels,
           owner[m] # d \/ (busy # m /\ ~Write(m))
    PROVE  Apart(d)
<1>1. UNCHANGED <<partial, phase, message, command, length, sent, rx, next, unsure>>
  BY DEF Worker, Respond, Write, Finish, daemonVars, clientVars, history
<1>2. overlapped \subseteq overlapped'
  BY DEF Worker, Respond, Write, Finish, history
<1>3. next <= next'
  <2>1. next \in Nat /\ next' = next
    BY <1>1 DEF Fields
  <2>. QED
    BY <2>1
<1>4. input'[d] = input[d]
  <2>1. Write(m) => input'[d] = input[d]
    BY WrittenReport
  <2>. QED
    BY <2>1 DEF Worker, Respond, Finish
<1>5. \A n \in Messages : n # m => /\ pc'[n] = pc[n] /\ owner'[n] = owner[n]
                                   /\ size'[n] = size[n] /\ written'[n] = written[n]
  BY DEF Worker, Respond, Write, Finish, Fields, daemonVars
<1>6. busy' = busy \/ (busy = m /\ busy' = 0)
  BY DEF Worker, Respond, Write, Finish, Freed, daemonVars
<1>7. owner'[m] = owner[m] \/ busy' # m
  BY MessagesCount DEF Worker, Respond, Write, Finish, Freed, Fields, daemonVars
<1>8. busy \in Messages \cup {0} /\ (Write(m) => owner[m] # d)
  BY DEF Fields
<1>9. /\ Holds(d) => busy # m
      /\ Holds(d)' => busy' # m /\ busy' # 0 /\ owner'[busy'] = d
  BY <1>6, <1>7, <1>8 DEF Holds
<1>10. /\ Holds(d) => /\ busy' = busy /\ owner'[busy] = d /\ pc'[busy] = pc[busy]
                      /\ size'[busy] = size[busy] /\ written'[busy] = written[busy]
       /\ Holds(d)' => Holds(d)
  BY <1>5, <1>6, <1>8, <1>9 DEF Holds
<1>. QED
  BY <1>1, <1>2, <1>3, <1>4, <1>10 DEF Apart

LEMMA ApartStays ==
    ASSUME Fields, NEW d \in Channels, Apart(d), Asking(d), next' \in Nat
    PROVE  (Renewed(d) => Renewed(d)') /\ (Standing(d) => Standing(d)')
<1>1. Quiet(d) => Quiet(d)'
  BY DEF Apart, Quiet, Holds
<1>2. Idle(d) => Idle(d)'
  BY <1>1 DEF Apart, Idle
<1>3. Writing(d) => Writing(d)'
  BY <1>1 DEF Apart, Writing, ErrorReport
<1>4. phase[d] = "waiting" => message[d] # 0
  BY MessagesCount DEF Asking
<1>5. Waiting(d) => Waiting(d)'
  <2>. SUFFICES ASSUME Waiting(d)
                PROVE  Waiting(d)'
    OBVIOUS
  <2>1. phase[d] = "waiting" /\ partial[d] = None /\ command[d] = "cbor" /\ message[d] # 0
    BY <1>4 DEF Waiting
  <2>2. Denied(d) => Denied(d)'
    BY <1>1 DEF Apart, Denied, ErrorReport
  <2>3. Queued(d) => Queued(d)'
    BY <2>1 DEF Apart, Queued, Holds
  <2>4. ASSUME NEW n \in ReplyLengths, Gets(d, n)
        PROVE  Gets(d, n)'
    <3>1. rx'[d] = rx[d] /\ input'[d] = input[d] /\ message'[d] = message[d]
      BY DEF Apart
    <3>2. /\ Len(rx[d]) < n
          /\ \A i \in 1 .. Len(rx[d]) : rx[d][i] = [piece |-> <<message[d], i>>, total |-> n]
          /\ \A i \in 1 .. Len(input[d]) : input[d][i] = Report(message[d], Len(rx[d]) + i, n)
      BY <2>4 DEF Gets
    <3>3. \/ Len(rx[d]) + Len(input[d]) = n /\ Quiet(d)
          \/ /\ Len(rx[d]) + Len(input[d]) < n
             /\ busy = message[d] /\ owner[busy] = d /\ pc[busy] = "write"
             /\ size[busy] = n /\ written[busy] = Len(rx[d]) + Len(input[d])
      BY <2>4 DEF Gets
    <3>4. \/ Len(rx[d]) + Len(input[d]) = n /\ Quiet(d)'
          \/ /\ Len(rx[d]) + Len(input[d]) < n
             /\ busy' = message[d] /\ owner'[busy'] = d /\ pc'[busy'] = "write"
             /\ size'[busy'] = n /\ written'[busy'] = Len(rx[d]) + Len(input[d])
      BY <1>1, <2>1, <3>3 DEF Apart, Holds
    <3>. QED
      BY <3>1, <3>2, <3>4 DEF Gets, Report, SequenceOf
  <2>5. phase'[d] = "waiting" /\ partial'[d] = None /\ command'[d] = "cbor"
    BY <2>1 DEF Apart
  <2>. QED
    BY <2>2, <2>3, <2>4, <2>5 DEF Waiting
<1>6. Standing(d) => Standing(d)'
  BY <1>2, <1>3, <1>5 DEF Standing, Apart
<1>7. Renewed(d) => Renewed(d)'
  <2>. SUFFICES ASSUME Renewed(d)
                PROVE  Renewed(d)'
    OBVIOUS
  <2>1. \A i \in 1 .. Len(input[d]) : input[d][i].type = "init" => input[d][i].piece[1] \in Nat
    <3>1. input[d] \in Seq(Reports)
      BY DEF Fields
    <3>2. \A i \in 1 .. Len(input[d]) : input[d][i] \in Reports
      BY <3>1
    <3>3. \A r \in Reports : r.piece[1] \in Nat
      BY MessagesCount DEF Reports
    <3>. QED
      BY <3>2, <3>3
  <2>2. next \in Nat /\ next <= next'
    BY DEF Fields, Apart
  <2>3. \A i \in 1 .. Len(input[d]) : input[d][i].type = "init" => input[d][i].piece[1] < next'
    BY <2>1, <2>2 DEF Renewed
  <2>. QED
    BY <2>3 DEF Renewed, Apart, InitReport
<1>. QED
  BY <1>6, <1>7

-----------------------------------------------------------------------------
(* INIT.                                                                   *)

Older(q, n) == \A i \in 1 .. Len(q) : q[i].type = "init" => q[i].piece[1] < n

LEMMA OlderStays ==
    ASSUME NEW q \in Seq(Reports), NEW n \in Nat, NEW k \in Nat, n <= k, Older(q, n)
    PROVE  /\ Older(q, k)
           /\ \A r \in Reports : (r.type = "init" => r.piece[1] < k) => Older(Append(q, r), k)
           /\ q # <<>> => Older(Tail(q), n)
<1>1. \A i \in 1 .. Len(q) : q[i] \in Reports /\ q[i].piece[1] \in Nat
  <2>1. \A r \in Reports : r.piece[1] \in Nat
    BY MessagesCount DEF Reports
  <2>. QED
    BY <2>1
<1>2. Older(q, k)
  BY <1>1 DEF Older
<1>3. ASSUME NEW r \in Reports, r.type = "init" => r.piece[1] < k
      PROVE  Older(Append(q, r), k)
  <2>1. \A i \in 1 .. Len(Append(q, r)) : i \in 1 .. Len(q) \/ i = Len(q) + 1
    BY Appended
  <2>2. /\ \A i \in 1 .. Len(q) : Append(q, r)[i] = q[i]
        /\ Append(q, r)[Len(q) + 1] = r
    BY Appended
  <2>. QED
    BY <1>2, <1>3, <2>1, <2>2 DEF Older
<1>4. ASSUME q # <<>>
      PROVE  Older(Tail(q), n)
  <2>1. \A i \in 1 .. Len(Tail(q)) : i + 1 \in 1 .. Len(q) /\ Tail(q)[i] = q[i + 1]
    BY <1>4, Taken
  <2>. QED
    BY <2>1 DEF Older
<1>. QED
  BY <1>2, <1>3, <1>4

LEMMA RenewedSend ==
    ASSUME IndInv, NEW c \in Channels, Sends(c)
    PROVE  Renewed(c)'
<1>0. Fields /\ Assembling /\ Workers /\ Writers /\ Reported(c) /\ Renewed(c) /\ Asking(c)
  BY ReportForms DEF IndInv, Writers, Inits
<1>1. input[c] \in Seq(Reports) /\ next \in Nat /\ next' \in Nat /\ next <= next'
      /\ Older(input[c], next)
  <2>1. next \in Nat /\ (next' = next \/ next' = next + 1) /\ input[c] \in Seq(Reports)
    BY <1>0 DEF Sends, Begin, Continue, Fields
  <2>. QED
    BY <1>0, <2>1 DEF Renewed, Older
<1>2. Older(input'[c], next')
  <2>1. Older(input[c], next')
    BY <1>1, OlderStays
  <2>2. ErrorReport.type # "init"
    BY DEF ErrorReport
  <2>3. ASSUME Deliver(c, ErrorReport)
        PROVE  Older(input'[c], next')
    <3>1. input'[c] = Append(input[c], ErrorReport) /\ ErrorReport \in Reports
      BY <1>0, <2>3, Delivered, ReportTypes
    <3>. QED
      BY <1>1, <2>2, <3>1, OlderStays
  <2>4. ASSUME NEW p \in Partials, Brought(c, p), Renew(c, p)
        PROVE  Older(input'[c], next')
    <3>1. InitReport(p.message) \in Reports /\ InitReport(p.message).piece[1] < next'
      BY <2>4, ReportTypes DEF Brought, InitReport
    <3>2. input'[c] = Append(input[c], InitReport(p.message))
      BY <1>0, <2>4, <3>1, Delivered DEF Renew
    <3>. QED
      BY <1>1, <3>1, <3>2, OlderStays
  <2>. QED
    BY <1>0, <2>1, <2>3, <2>4 DEF Reported, Reject, Ignored, Broken, Handled, KeepIt, Deny, Launch
<1>3. ASSUME phase'[c] = "waiting", command'[c] = "init"
      PROVE  /\ partial'[c] = None /\ ~Holds(c)' /\ rx'[c] = <<>>
             /\ input'[c] # <<>> /\ input'[c][Len(input'[c])] = InitReport(message'[c])
             /\ \A i \in 1 .. Len(input'[c]) - 1 :
                  ~ (input'[c][i].type = "init" /\ input'[c][i].piece[1] = message'[c])
  <2>1. ~Continue(c)
    BY <1>0, <1>3 DEF Continue, Asking
  <2>2. PICK n \in Lengths : Begin(c, "init", n)
    <3>1. PICK k \in {"init", "cbor"}, n \in Lengths : Begin(c, k, n)
      BY <2>1 DEF Sends
    <3>2. k = "init"
      BY <1>0, <1>3, <3>1 DEF Begin, Fields
    <3>. QED
      BY <3>1, <3>2
  <2>3. /\ n = 1 /\ next \in Messages /\ rx'[c] = <<>> /\ message'[c] = next
        /\ Handled(c, Started(c, next, "init", n))
    BY <1>0, <2>2, BeginForms DEF Begin, Fields
  <2>4. Renew(c, Started(c, next, "init", n))
    BY <2>3 DEF Handled, KeepIt, Deny, Launch, Started
  <2>5. /\ partial'[c] = None /\ Deliver(c, InitReport(next)) /\ owner' = owner
        /\ IF Holds(c) THEN busy' = 0 ELSE busy' = busy
    BY <1>0, <2>4 DEF Renew, Cleared, Started, Fields
  <2>6. ~Holds(c)'
    BY <2>5 DEF Holds
  <2>7. input'[c] = Append(input[c], InitReport(next)) /\ InitReport(next) \in Reports
    BY <1>0, <2>3, <2>5, Delivered, ReportTypes
  <2>8. /\ Len(input[c]) \in Nat /\ Len(input'[c]) = Len(input[c]) + 1 /\ input'[c] # <<>>
        /\ input'[c][Len(input'[c])] = InitReport(next)
        /\ \A i \in 1 .. Len(input[c]) : input'[c][i] = input[c][i]
    BY <1>1, <2>7, Appended
  <2>9. \A i \in 1 .. Len(input'[c]) - 1 : i \in 1 .. Len(input[c])
    BY <2>8
  <2>10. \A i \in 1 .. Len(input[c]) : input[c][i].type = "init" => input[c][i].piece[1] # next
    BY <1>1 DEF Older
  <2>. QED
    BY <2>3, <2>5, <2>6, <2>8, <2>9, <2>10
<1>. QED
  BY <1>2, <1>3 DEF Renewed, Older, InitReport

\* While the client of an INIT waits, nothing but its answer fits.
LEMMA OnlyItsInit ==
    ASSUME Fields, NEW c \in Channels, Renewed(c), Read(c), command[c] = "init",
           c \notin overlapped, Fits(c, Head(input[c]))
    PROVE  /\ rx[c] = <<>> /\ partial[c] = None /\ ~Holds(c)
           /\ Head(input[c]) = InitReport(message[c]) /\ input'[c] = <<>>
           /\ Len(All(c)) = 1 /\ All(c)[1] = Part(InitReport(message[c]))
<1>1. phase[c] = "waiting" /\ input[c] # <<>> /\ input[c] \in Seq(Reports)
      /\ input'[c] = Tail(input[c]) /\ Head(input[c]) = input[c][1]
  <2>1. phase[c] = "waiting" /\ input[c] # <<>> /\ Head(input[c]) = input[c][1]
        /\ input' = [input EXCEPT ![c] = Tail(@)]
    BY ReadForms
  <2>. QED
    BY <2>1 DEF Fields
<1>2. /\ rx[c] = <<>> /\ partial[c] = None /\ ~Holds(c)
      /\ input[c][Len(input[c])] = InitReport(message[c])
      /\ \A i \in 1 .. Len(input[c]) - 1 :
           ~ (input[c][i].type = "init" /\ input[c][i].piece[1] = message[c])
  BY <1>1 DEF Renewed
<1>3. Head(input[c]).type = "init" /\ Head(input[c]).piece[1] = message[c]
  BY <1>2 DEF Fits
<1>4. Len(input[c]) = 1
  <2>1. Len(input[c]) \in Nat \ {0} /\ 1 \notin 1 .. Len(input[c]) - 1
    BY <1>1, <1>2, <1>3, Taken
  <2>2. \A k \in Nat \ {0} : 1 \notin 1 .. k - 1 => k = 1
    OBVIOUS
  <2>. QED
    BY <2>1, <2>2
<1>5. input'[c] = <<>>
  <2>1. Tail(input[c]) \in Seq(Reports) /\ Len(Tail(input[c])) = 0
    BY <1>1, <1>4, Taken
  <2>. QED
    BY <1>1, <2>1, EmptySeq
<1>6. Head(input[c]) = InitReport(message[c])
  BY <1>1, <1>2, <1>4
<1>7. Len(All(c)) = 1 /\ All(c)[1] = Part(InitReport(message[c]))
  <2>1. Len(rx[c]) = 0
    BY <1>2
  <2>2. Len(All(c)) = Len(rx[c]) + 1 /\ All(c)[Len(rx[c]) + 1] = Part(Head(input[c]))
    BY ReadForms
  <2>. QED
    BY <1>6, <2>1, <2>2
<1>. QED
  BY <1>2, <1>5, <1>6, <1>7

LEMMA InitsStep ==
    ASSUME IndInv, [Next]_vars
    PROVE  Inits'
<1>0. Fields /\ Assembling /\ Workers /\ Writers /\ next' \in Nat
      /\ \A d \in Channels : Renewed(d) /\ Asking(d)
  BY FieldsStep DEF IndInv, Writers, Inits, Fields
<1>1. ASSUME NEW d \in Channels, Apart(d)
      PROVE  Renewed(d)'
  BY <1>0, <1>1, ApartStays
<1>2. ASSUME NEW c \in Channels, Sends(c)
      PROVE  Inits'
  BY <1>0, <1>1, <1>2, ApartSend, RenewedSend DEF Inits
<1>3. ASSUME NEW c \in Channels, GiveUp(c)
      PROVE  Inits'
  <2>1. phase'[c] = "idle" /\ UNCHANGED <<input, next>>
    BY <1>0, <1>3, ThroughFields DEF GiveUp, Through
  <2>2. Renewed(c)'
    BY <1>0, <2>1 DEF Renewed
  <2>. QED
    BY <1>0, <1>1, <1>3, <2>2, ApartClient DEF Inits
<1>4. ASSUME NEW c \in Channels, Read(c)
      PROVE  Inits'
  <2>1. input[c] \in Seq(Reports) /\ input[c] # <<>> /\ input'[c] = Tail(input[c])
        /\ next \in Nat /\ next' = next
    BY <1>0, <1>4, ReadForms DEF Fields, Read, Through
  <2>2. Older(input'[c], next')
    BY <1>0, <2>1, OlderStays DEF Renewed, Older
  <2>3. ASSUME phase'[c] = "waiting", command'[c] = "init", c \notin overlapped'
        PROVE  FALSE
    <3>1. /\ Fits(c, Head(input[c])) /\ Len(All(c)) < All(c)[1].total
          /\ UNCHANGED <<command, overlapped>>
      BY <1>0, <1>4, <2>3, ReadForms, ThroughFields
    <3>2. Len(All(c)) = 1 /\ All(c)[1] = Part(InitReport(message[c]))
      BY <1>0, <1>4, <2>3, <3>1, OnlyItsInit
    <3>3. All(c)[1].total = 1
      BY <3>2 DEF Part, InitReport
    <3>. QED
      BY <3>1, <3>2, <3>3
  <2>4. Renewed(c)'
    BY <2>2, <2>3 DEF Renewed, Older, InitReport
  <2>. QED
    BY <1>0, <1>1, <1>4, <2>4, ApartClient DEF Inits
<1>5. ASSUME NEW m \in Messages, Worker(m), NEW c \in Channels, owner[m] = c
      PROVE  Renewed(c)'
  <2>1. UNCHANGED <<partial, phase, message, command, rx, next>> /\ overlapped \subseteq overlapped'
    BY <1>5 DEF Worker, Respond, Write, Finish, daemonVars, clientVars, history
  <2>2. Holds(c)' => Holds(c)
    <3>1. busy' = busy \/ (busy = m /\ busy' = 0)
      BY <1>5 DEF Worker, Respond, Write, Finish, Freed, daemonVars
    <3>. QED
      BY <1>0, <1>5, <3>1 DEF Holds, Worker, Respond, Write, Finish, Fields, daemonVars
  <2>3. CASE ~Write(m)
    <3>1. input' = input
      BY <1>5, <2>3 DEF Worker, Respond, Finish
    <3>. QED
      BY <1>0, <2>1, <2>2, <3>1 DEF Renewed, InitReport
  <2>4. CASE Write(m)
    <3>1. /\ pc[m] = "write" /\ Report(m, written[m] + 1, size[m]) \in Reports
          /\ input'[c] = Append(input[c], Report(m, written[m] + 1, size[m]))
      BY <1>0, <1>5, <2>4, WrittenReport
    <3>2. Report(m, written[m] + 1, size[m]).type # "init"
      BY DEF Report
    <3>3. input[c] \in Seq(Reports) /\ next \in Nat /\ Older(input[c], next)
      BY <1>0 DEF Fields, Renewed, Older
    <3>4. Older(input'[c], next)
      BY <3>1, <3>2, <3>3, OlderStays
    <3>5. c \in overlapped' \/ Holds(c)
      BY <1>0, <1>5, <2>4, <3>1, MessagesCount DEF Workers, Working, Write, Holds
    <3>. QED
      BY <1>0, <2>1, <3>4, <3>5 DEF Renewed, Older
  <2>. QED
    BY <2>3, <2>4
<1>6. ASSUME NEW m \in Messages, Worker(m)
      PROVE  Inits'
  BY <1>0, <1>1, <1>5, <1>6, ApartWorker DEF Inits
<1>7. CASE UNCHANGED vars
  BY <1>0, <1>7 DEF Inits, Renewed, Holds, InitReport, vars, daemonVars, clientVars, history
<1>. QED
  BY <1>2, <1>3, <1>4, <1>6, <1>7 DEF Next, Client, Sends

-----------------------------------------------------------------------------
(* Answers.                                                                *)

\* An error ends a wait before anything else was sent.
LEMMA ErrorSent ==
    ASSUME Fields, NEW c \in Channels, Deliver(c, ErrorReport), input[c] = <<>>
    PROVE  input'[c] = <<ErrorReport>>
<1>1. input'[c] = Append(<<>>, ErrorReport)
  BY Delivered, ReportTypes
<1>2. \A r : Append(<<>>, r) = <<r>>
  OBVIOUS
<1>. QED
  BY <1>1, <1>2

LEMMA StandingBegin ==
    ASSUME IndInv, NEW c \in Channels, c \notin unsure \cup overlapped,
           NEW k \in {"init", "cbor"}, NEW n \in Lengths, Begin(c, k, n)
    PROVE  Standing(c)'
<1>. DEFINE p == Started(c, next, k, n)
<1>0. Fields /\ Standing(c)
  BY DEF IndInv, InStep
<1>1. Idle(c)
  BY <1>0 DEF Standing, Begin, Writing, Waiting
<1>2. /\ phase'[c] = (IF n = 1 THEN "waiting" ELSE "writing") /\ rx'[c] = <<>>
      /\ message'[c] = next /\ command'[c] = k /\ sent'[c] = 1 /\ length'[c] = n
      /\ (k = "init" => n = 1) /\ next \in Messages /\ n \in Nat
  BY <1>0, LengthsCount DEF Begin, Fields
<1>3. partial[c] = None /\ input[c] = <<>> /\ Quiet(c)
  BY <1>1 DEF Idle
<1>4. p \in Partials /\ Len(p.data) = 1 /\ p.total = n /\ p.next = 0 /\ p.message = next
      /\ p.command = k
  BY <1>2, StartsGrown DEF Started
<1>5. p # None
  BY <1>4, FramingAssumption
<1>6. (k = "cbor" /\ Reject(c)) \/ Handled(c, p)
  BY BeginForms
<1>. HIDE DEF p
<1>7. ASSUME k = "cbor", Deliver(c, ErrorReport), UNCHANGED <<busy, owner, pc>>, partial'[c] = None
      PROVE  Standing(c)'
  <2>1. input'[c] = <<ErrorReport>> /\ Quiet(c)'
    BY <1>0, <1>3, <1>7, ErrorSent DEF Quiet, Holds
  <2>. QED
    BY <1>2, <1>7, <2>1 DEF Standing, Writing, Waiting, Denied, ErrorReport
<1>8. CASE k = "cbor" /\ Reject(c)
  BY <1>3, <1>7, <1>8 DEF Reject
<1>9. CASE KeepIt(c, p)
  <2>1. n # 1 /\ k = "cbor" /\ partial'[c] = p /\ input'[c] = <<>> /\ Quiet(c)'
    BY <1>0, <1>2, <1>3, <1>4, <1>9 DEF KeepIt, Fields, Quiet, Holds
  <2>. QED
    BY <1>2, <1>4, <1>5, <2>1 DEF Standing, Writing
<1>10. ASSUME Cleared(c, p)
       PROVE  partial'[c] = None /\ n = 1
  <2>1. n >= 1 /\ 1 >= n
    BY <1>4, <1>10, LengthsCount DEF Cleared
  <2>. QED
    BY <1>0, <1>2, <1>10, <2>1 DEF Cleared, Fields
<1>11. CASE Renew(c, p)
  BY <1>2, <1>4, <1>10, <1>11 DEF Renew, Standing
<1>12. CASE Deny(c, p)
  BY <1>4, <1>7, <1>10, <1>12 DEF Deny
<1>13. CASE Launch(c, p)
  <2>1. /\ n = 1 /\ k = "cbor" /\ partial'[c] = None /\ input'[c] = <<>> /\ busy' = next
        /\ owner'[busy'] = c /\ pc'[busy'] = "work"
    BY <1>0, <1>2, <1>3, <1>4, <1>10, <1>13 DEF Launch, Fields
  <2>. QED
    BY <1>2, <2>1 DEF Standing, Waiting, Queued
<1>. QED
  BY <1>6, <1>8, <1>9, <1>11, <1>12, <1>13 DEF Handled

LEMMA StandingContinue ==
    ASSUME IndInv, NEW c \in Channels, c \notin unsure \cup overlapped, Continue(c)
    PROVE  Standing(c)'
<1>. DEFINE p == Longer(c)
<1>0. Fields /\ Standing(c) /\ Kept(c) /\ Asking(c)
  BY DEF IndInv, InStep, Assembling, Writers
<1>1. Writing(c) /\ phase[c] = "writing"
  BY <1>0 DEF Standing, Continue, Idle, Waiting
<1>2. /\ phase'[c] = (IF sent[c] + 1 = length[c] THEN "waiting" ELSE "writing")
      /\ sent'[c] = sent[c] + 1 /\ rx'[c] = <<>> /\ command'[c] = "cbor"
      /\ message'[c] = message[c] /\ length'[c] = length[c] /\ command[c] = "cbor"
      /\ length[c] \in Nat /\ sent[c] \in Nat /\ sent[c] >= 1 /\ sent[c] + 1 <= length[c]
  <2>1. rx[c] = <<>> /\ command[c] = "cbor" /\ sent[c] \in 1 .. length[c] - 1 /\ length[c] \in Nat
    BY <1>0, <1>1 DEF Asking, Fields
  <2>2. UNCHANGED <<message, command, length, rx>> /\ sent'[c] = sent[c] + 1
        /\ phase'[c] = IF sent[c] + 1 = length[c] THEN "waiting" ELSE "writing"
    BY <1>0, <1>1 DEF Continue, Fields
  <2>. QED
    BY <2>1, <2>2
<1>3. Quiet(c)
  BY <1>1 DEF Writing
<1>4. CASE partial[c] = None
  <2>1. Ignored(c) /\ input[c] = <<ErrorReport>>
    BY <1>0, <1>1, <1>4, ContinueForms DEF Broken, Writing
  <2>2. partial'[c] = None /\ input'[c] = <<ErrorReport>> /\ Quiet(c)'
    BY <1>3, <1>4, <2>1 DEF Ignored, Quiet, Holds
  <2>. QED
    BY <1>2, <2>2 DEF Standing, Writing, Waiting, Denied, ErrorReport
<1>5. CASE partial[c] # None
  <2>1. /\ input[c] = <<>> /\ partial[c].message = message[c] /\ partial[c].command = "cbor"
        /\ partial[c].next = sent[c] - 1 /\ partial[c].total = length[c]
    BY <1>1, <1>5 DEF Writing
  <2>2. Follows(partial[c], (sent[c] + 1) - 2)
    BY <1>2, <2>1 DEF Follows
  <2>3. Handled(c, p)
    BY <1>0, <1>5, <2>2, ContinueForms DEF Ignored, Broken
  <2>4. /\ p \in Partials /\ p.message = message[c] /\ p.total = length[c] /\ p.command = "cbor"
        /\ p.next = sent[c] /\ Len(p.data) = sent[c] + 1
    <3>1. /\ p \in Partials /\ p.message = partial[c].message /\ p.total = partial[c].total
          /\ p.command = partial[c].command /\ p.next = partial[c].next + 1
          /\ Len(p.data) = Len(partial[c].data) + 1 /\ Len(partial[c].data) = sent[c]
      BY <1>0, <1>1, <1>5, <2>2, GoesOn
    <3>2. partial[c].next + 1 = sent[c]
      BY <1>2, <2>1
    <3>. HIDE DEF p
    <3>. QED
      BY <2>1, <3>1, <3>2
  <2>5. p # None
    BY <2>4, FramingAssumption
  <2>. HIDE DEF p
  <2>6. CASE KeepIt(c, p)
    <3>1. /\ sent[c] + 1 # length[c] /\ partial'[c] = p /\ input'[c] = <<>>
          /\ UNCHANGED <<busy, owner, pc>>
      BY <1>0, <1>2, <2>1, <2>4, <2>6 DEF KeepIt, Fields
    <3>2. Quiet(c)' /\ sent[c] = sent'[c] - 1
      BY <1>2, <1>3, <3>1 DEF Quiet, Holds
    <3>. QED
      BY <1>2, <2>4, <2>5, <3>1, <3>2 DEF Standing, Writing
  <2>7. ASSUME Cleared(c, p)
        PROVE  partial'[c] = None /\ phase'[c] = "waiting"
    BY <1>0, <1>2, <2>4, <2>7 DEF Cleared, Fields
  <2>8. CASE Deny(c, p)
    <3>1. /\ partial'[c] = None /\ phase'[c] = "waiting" /\ input'[c] = <<ErrorReport>>
          /\ UNCHANGED <<busy, owner, pc>>
      BY <1>0, <2>1, <2>7, <2>8, ErrorSent DEF Deny
    <3>2. Quiet(c)'
      BY <1>3, <3>1 DEF Quiet, Holds
    <3>. QED
      BY <1>2, <3>1, <3>2 DEF Standing, Waiting, Denied, ErrorReport
  <2>9. CASE Launch(c, p)
    <3>1. message[c] \in Messages
      BY <1>0, <1>1 DEF Asking
    <3>2. /\ partial'[c] = None /\ phase'[c] = "waiting" /\ input'[c] = <<>>
          /\ busy' = message'[c] /\ owner'[busy'] = c /\ pc'[busy'] = "work"
      BY <1>0, <1>2, <2>1, <2>4, <2>7, <2>9, <3>1 DEF Launch, Fields
    <3>. QED
      BY <1>2, <3>2 DEF Standing, Waiting, Queued
  <2>10. ~Renew(c, p)
    BY <2>4 DEF Renew
  <2>. QED
    BY <2>3, <2>6, <2>8, <2>9, <2>10 DEF Handled
<1>. QED
  BY <1>4, <1>5

\* What a client has read of its answer, with the report that comes next.
LEMMA GetsNext ==
    ASSUME Fields, NEW c \in Channels, Read(c), NEW n \in ReplyLengths, Gets(c, n)
    PROVE  /\ \A i \in 1 .. Len(All(c)) : All(c)[i] = [piece |-> <<message[c], i>>, total |-> n]
           /\ All(c)[1].total = n /\ Len(All(c)) \in Nat
           /\ Len(All(c)) = Len(rx[c]) + 1 /\ Len(rx[c]) \in Nat
           /\ Len(input[c]) \in Nat \ {0} /\ Len(input'[c]) = Len(input[c]) - 1
           /\ \A i \in 1 .. Len(input'[c]) :
                input'[c][i] = Report(message[c], Len(All(c)) + i, n)
<1>. DEFINE k == Len(rx[c])
            l == Len(input[c])
<1>1. input[c] \in Seq(Reports) /\ input[c] # <<>> /\ input'[c] = Tail(input[c])
  <2>1. input[c] # <<>> /\ input' = [input EXCEPT ![c] = Tail(@)]
    BY ReadForms
  <2>. QED
    BY <2>1 DEF Fields
<1>2. /\ Head(input[c]) = input[c][1] /\ Len(All(c)) = k + 1 /\ k \in Nat
      /\ \A i \in 1 .. k : All(c)[i] = rx[c][i]
      /\ All(c)[k + 1] = Part(Head(input[c]))
  BY ReadForms
<1>3. /\ l \in Nat \ {0} /\ Len(input'[c]) = l - 1
      /\ \A i \in 1 .. l - 1 : input'[c][i] = input[c][i + 1]
  BY <1>1, Taken
<1>4. /\ \A i \in 1 .. k : rx[c][i] = [piece |-> <<message[c], i>>, total |-> n]
      /\ \A i \in 1 .. l : input[c][i] = Report(message[c], k + i, n)
  BY DEF Gets
<1>. HIDE DEF k, l
<1>5. All(c)[k + 1] = [piece |-> <<message[c], k + 1>>, total |-> n]
  <2>1. 1 \in 1 .. l
    BY <1>3
  <2>2. input[c][1] = Report(message[c], k + 1, n)
    BY <1>4, <2>1
  <2>. QED
    BY <1>2, <2>2 DEF Part, Report
<1>6. \A i \in 1 .. k + 1 : All(c)[i] = [piece |-> <<message[c], i>>, total |-> n]
  <2>1. \A i \in 1 .. k + 1 : i \in 1 .. k \/ i = k + 1
    BY <1>2
  <2>. QED
    BY <1>2, <1>4, <1>5, <2>1
<1>7. All(c)[1].total = n
  <2>1. 1 \in 1 .. k + 1
    BY <1>2
  <2>2. All(c)[1] = [piece |-> <<message[c], 1>>, total |-> n]
    BY <1>6, <2>1
  <2>. QED
    BY <2>2
<1>8. \A i \in 1 .. l - 1 : input'[c][i] = Report(message[c], (k + 1) + i, n)
  <2>. SUFFICES ASSUME NEW i \in 1 .. l - 1
                PROVE  input'[c][i] = Report(message[c], (k + 1) + i, n)
    OBVIOUS
  <2>1. i + 1 \in 1 .. l /\ k + (i + 1) = (k + 1) + i
    BY <1>2, <1>3
  <2>2. input[c][i + 1] = Report(message[c], k + (i + 1), n)
    BY <1>4, <2>1
  <2>. QED
    BY <1>3, <2>1, <2>2
<1>. QED
  BY <1>2, <1>3, <1>6, <1>7, <1>8 DEF k, l

\* Only the reports of its answer fit a client that has not lost track.
LEMMA FitsGets ==
    ASSUME Fields, NEW c \in Channels, Read(c), Standing(c), command[c] # "init",
           Fits(c, Head(input[c]))
    PROVE  Waiting(c) /\ \E n \in ReplyLengths : Gets(c, n)
<1>1. phase[c] = "waiting" /\ input[c] # <<>> /\ Head(input[c]) = input[c][1]
  BY ReadForms
<1>2. Waiting(c)
  BY <1>1 DEF Standing, Idle, Writing
<1>3. ~Denied(c)
  <2>1. <<ErrorReport>>[1] = ErrorReport
    OBVIOUS
  <2>. QED
    BY <1>1, <1>2, <2>1 DEF Denied, Fits, Waiting, ErrorReport
<1>4. ~Queued(c)
  BY <1>1 DEF Queued
<1>. QED
  BY <1>2, <1>3, <1>4 DEF Waiting

\* A report that fits is kept, or ends the answer.
LEMMA ReadFits ==
    ASSUME Fields, NEW c \in Channels, Read(c), Fits(c, Head(input[c]))
    PROVE  \/ /\ Len(All(c)) < All(c)[1].total
              /\ rx'[c] = All(c) /\ UNCHANGED <<phase, message, command, unsure, got>>
           \/ /\ Len(All(c)) = All(c)[1].total
              /\ phase'[c] = "idle"
              /\ got'[c] = IF c \in unsure THEN None
                           ELSE <<message[c], [i \in 1 .. Len(All(c)) |-> All(c)[i].piece]>>
              /\ unsure' = IF Head(input[c]).type = "init" THEN unsure \ {c} ELSE unsure
<1>1. CASE /\ Len(All(c)) < All(c)[1].total
           /\ rx' = [rx EXCEPT ![c] = All(c)]
           /\ UNCHANGED <<phase, message, next, command, length, sent, unsure, got>>
  BY <1>1 DEF Fields
<1>2. CASE /\ Len(All(c)) = All(c)[1].total
           /\ Through(c, IF c \in unsure THEN None
                         ELSE <<message[c], [i \in 1 .. Len(All(c)) |-> All(c)[i].piece]>>)
           /\ unsure' = IF Head(input[c]).type = "init" THEN unsure \ {c} ELSE unsure
  BY <1>2, ThroughFields
<1>. QED
  BY <1>1, <1>2, ReadForms

\* One report read is one fewer to come.
LEMMA OneFewer ==
    ASSUME NEW k \in Nat, NEW l \in Nat \ {0}, NEW n \in Nat, NEW a, NEW b,
           a = k + 1, b = l - 1
    PROVE  /\ a + b = k + l /\ k + l \in Nat
           /\ k + l <= n /\ ~(a < n) => l = 1 /\ k + l = n
  OBVIOUS

LEMMA StandingRead ==
    ASSUME IndInv, NEW c \in Channels, Read(c), c \notin unsure' \cup overlapped'
    PROVE  Standing(c)'
<1>0. Fields /\ Renewed(c) /\ (c \notin unsure => Standing(c)) /\ overlapped' = overlapped
      /\ phase[c] = "waiting" /\ input[c] # <<>>
      /\ UNCHANGED <<partial, busy, owner, pc, written, size>>
  BY ReadForms DEF IndInv, Inits, InStep
<1>1. Fits(c, Head(input[c]))
  BY <1>0, ReadForms
<1>2. CASE command[c] = "init"
  <2>1. /\ partial[c] = None /\ ~Holds(c) /\ input'[c] = <<>> /\ Len(All(c)) = 1
        /\ All(c)[1] = Part(InitReport(message[c]))
    BY <1>0, <1>1, <1>2, OnlyItsInit
  <2>2. All(c)[1].total = 1
    BY <2>1 DEF Part, InitReport
  <2>3. phase'[c] = "idle"
    <3>1. ~(Len(All(c)) < All(c)[1].total)
      BY <2>1, <2>2
    <3>. QED
      BY <1>0, <1>1, <3>1, ReadFits
  <2>. QED
    BY <1>0, <2>1, <2>3 DEF Standing, Idle, Quiet, Holds
<1>3. CASE command[c] # "init"
  <2>1. Head(input[c]).type # "init"
    BY <1>0, <1>1, <1>3 DEF Fits
  <2>2. c \notin unsure
    BY <1>0, <1>1, <2>1, ReadForms
  <2>3. Waiting(c) /\ \E n \in ReplyLengths : Gets(c, n)
    BY <1>0, <1>1, <1>3, <2>2, FitsGets
  <2>4. PICK n \in ReplyLengths : Gets(c, n)
    BY <2>3
  <2>5. partial'[c] = None /\ command[c] = "cbor" /\ (Quiet(c) => Quiet(c)')
    BY <1>0, <2>3 DEF Waiting, Quiet, Holds
  <2>6. /\ \A i \in 1 .. Len(All(c)) : All(c)[i] = [piece |-> <<message[c], i>>, total |-> n]
        /\ All(c)[1].total = n /\ Len(All(c)) \in Nat
        /\ Len(All(c)) = Len(rx[c]) + 1 /\ Len(rx[c]) \in Nat
        /\ Len(input[c]) \in Nat \ {0} /\ Len(input'[c]) = Len(input[c]) - 1
        /\ \A i \in 1 .. Len(input'[c]) : input'[c][i] = Report(message[c], Len(All(c)) + i, n)
    BY <1>0, <2>4, GetsNext
  <2>7. n \in Nat
    BY FramingAssumption
  <2>. DEFINE k == Len(rx[c])
              l == Len(input[c])
  <2>8. \/ k + l = n /\ Quiet(c)
        \/ /\ k + l < n
           /\ busy = message[c] /\ owner[busy] = c /\ pc[busy] = "write"
           /\ size[busy] = n /\ written[busy] = k + l
    BY <2>4 DEF Gets
  <2>9. /\ All(c)[1].total = n /\ Len(All(c)) \in Nat
        /\ Len(All(c)) = k + 1 /\ k \in Nat
        /\ l \in Nat \ {0} /\ Len(input'[c]) = l - 1
    BY <2>6
  <2>10. /\ Len(All(c)) + Len(input'[c]) = k + l /\ k + l \in Nat
         /\ k + l <= n /\ ~(Len(All(c)) < n) => l = 1 /\ k + l = n
    <3>. HIDE DEF k, l
    <3>. QED
      BY <2>7, <2>9, OneFewer
  <2>11. CASE Len(All(c)) < n
    <3>1. rx'[c] = All(c) /\ UNCHANGED <<phase, message, command>>
      <4>1. Len(All(c)) # All(c)[1].total
        BY <2>7, <2>9, <2>11
      <4>. QED
        BY <1>0, <1>1, <4>1, ReadFits
    <3>2. Gets(c, n)'
      <4>1. /\ Len(rx'[c]) < n
            /\ \A i \in 1 .. Len(rx'[c]) : rx'[c][i] = [piece |-> <<message'[c], i>>, total |-> n]
            /\ \A i \in 1 .. Len(input'[c]) : input'[c][i] = Report(message'[c], Len(rx'[c]) + i, n)
        BY <2>6, <2>11, <3>1
      <4>2. Len(rx'[c]) + Len(input'[c]) = k + l
        BY <2>10, <3>1
      <4>3. \/ Len(rx'[c]) + Len(input'[c]) = n /\ Quiet(c)'
            \/ /\ Len(rx'[c]) + Len(input'[c]) < n
               /\ busy' = message'[c] /\ owner'[busy'] = c /\ pc'[busy'] = "write"
               /\ size'[busy'] = n /\ written'[busy'] = Len(rx'[c]) + Len(input'[c])
        <5>. HIDE DEF k, l
        <5>. QED
          BY <1>0, <2>5, <2>8, <3>1, <4>2
      <4>. QED
        BY <4>1, <4>3 DEF Gets, Report, SequenceOf
    <3>. QED
      BY <1>0, <2>5, <3>1, <3>2 DEF Standing, Waiting
  <2>12. CASE ~(Len(All(c)) < n)
    <3>1. phase'[c] = "idle"
      BY <1>0, <1>1, <2>9, <2>12, ReadFits
    <3>2. k + l <= n
      <4>1. k + l = n \/ k + l < n
        BY <2>8
      <4>. HIDE DEF k, l
      <4>. QED
        BY <2>7, <2>10, <4>1
    <3>3. l = 1 /\ k + l = n
      BY <2>10, <2>12, <3>2
    <3>4. input'[c] = <<>>
      <4>1. input'[c] \in Seq(Reports)
        BY <1>0, ReadFields DEF Fields
      <4>2. Len(input'[c]) = 0
        BY <2>9, <3>3
      <4>. QED
        BY <4>1, <4>2, EmptySeq
    <3>5. Quiet(c)
      <4>1. ~(k + l < n)
        BY <2>7, <3>3
      <4>. QED
        BY <2>8, <4>1
    <3>. QED
      BY <2>5, <3>1, <3>4, <3>5 DEF Standing, Idle
  <2>. QED
    BY <2>11, <2>12
<1>. QED
  BY <1>2, <1>3

LEMMA StandingWorker ==
    ASSUME IndInv, NEW m \in Messages, Worker(m), busy = m \/ Write(m), NEW c \in Channels,
           owner[m] = c, c \notin unsure' \cup overlapped'
    PROVE  Standing(c)'
<1>0. Fields /\ Workers /\ Working(m) /\ Renewed(c) /\ m # 0
  BY MessagesCount DEF IndInv, Workers, Inits
<1>1. /\ UNCHANGED <<partial, phase, message, command, length, sent, rx, unsure>>
      /\ overlapped \subseteq overlapped'
  BY DEF Worker, Respond, Write, Finish, daemonVars, clientVars, history
<1>2. Standing(c)
  BY <1>1 DEF IndInv, InStep
<1>3. busy = m /\ Holds(c)
  BY <1>0 DEF Working, Write, Holds
<1>4. CASE phase[c] = "waiting" /\ command[c] = "init"
  BY <1>1, <1>4 DEF Standing
<1>5. ASSUME pc[m] # "finish", ~(phase[c] = "waiting" /\ command[c] = "init")
      PROVE  /\ phase[c] = "waiting" /\ partial[c] = None /\ command[c] = "cbor"
             /\ message[c] = m
             /\ \/ pc[m] = "work" /\ rx[c] = <<>> /\ input[c] = <<>>
                \/ pc[m] = "write" /\ \E n \in ReplyLengths : Gets(c, n)
  <2>1. ~Quiet(c)
    BY <1>3, <1>5 DEF Quiet
  <2>2. Waiting(c) /\ ~Denied(c)
    BY <1>2, <1>5, <2>1 DEF Standing, Idle, Writing, Denied
  <2>3. \A n \in ReplyLengths : Gets(c, n) => busy = message[c] /\ pc[busy] = "write"
    BY <2>1 DEF Gets
  <2>. QED
    BY <1>3, <2>2, <2>3 DEF Waiting, Queued
<1>6. ASSUME NEW n \in ReplyLengths, Respond(m, n), ~(phase[c] = "waiting" /\ command[c] = "init")
      PROVE  Standing(c)'
  <2>1. pc[m] = "work" /\ UNCHANGED <<busy, owner, written, input>> /\ pc'[m] = "write" /\ size'[m] = n
    BY <1>0, <1>3, <1>6 DEF Respond, Fields, daemonVars
  <2>2. /\ phase[c] = "waiting" /\ partial[c] = None /\ command[c] = "cbor" /\ message[c] = m
        /\ rx[c] = <<>> /\ input[c] = <<>> /\ written[m] = 0
    BY <1>0, <1>5, <1>6, <2>1 DEF Working
  <2>3. n \in Nat /\ 0 < n
    BY FramingAssumption
  <2>4. rx'[c] = <<>> /\ input'[c] = <<>> /\ message'[c] = m /\ busy' = m /\ owner'[m] = c
        /\ written'[m] = 0
    BY <1>1, <1>3, <2>1, <2>2
  <2>5. Gets(c, n)'
    BY <2>1, <2>3, <2>4 DEF Gets
  <2>. QED
    BY <1>1, <2>2, <2>5 DEF Standing, Waiting
<1>7. ASSUME Finish(m), ~(phase[c] = "waiting" /\ command[c] = "init")
      PROVE  Standing(c)'
  <2>1. pc[m] = "finish" /\ busy' = 0 /\ input' = input
    BY <1>3, <1>7 DEF Finish, Freed
  <2>2. Quiet(c)'
    BY <2>1 DEF Quiet, Holds
  <2>3. ~Queued(c)
    BY <1>3, <2>1 DEF Queued
  <2>4. \A n \in ReplyLengths : Gets(c, n) => Gets(c, n)'
    BY <1>1, <1>3, <2>1, <2>2 DEF Gets, Report, SequenceOf
  <2>. QED
    BY <1>1, <1>2, <1>7, <2>1, <2>2, <2>3, <2>4
       DEF Standing, Idle, Writing, Waiting, Denied, ErrorReport
<1>8. ASSUME Write(m), ~(phase[c] = "waiting" /\ command[c] = "init")
      PROVE  Standing(c)'
  <2>1. /\ pc[m] = "write"
        /\ input'[c] = Append(input[c], Report(m, written[m] + 1, size[m]))
        /\ Report(m, written[m] + 1, size[m]) \in Reports
    BY <1>0, <1>8, WrittenReport
  <2>2. /\ phase[c] = "waiting" /\ partial[c] = None /\ command[c] = "cbor" /\ message[c] = m
        /\ \E n \in ReplyLengths : Gets(c, n)
    BY <1>5, <1>8, <2>1
  <2>3. PICK n \in ReplyLengths : Gets(c, n)
    BY <2>2
  <2>. DEFINE k == Len(rx[c])
              l == Len(input[c])
              r == Report(m, written[m] + 1, size[m])
  <2>4. /\ k + l < n /\ size[m] = n /\ written[m] = k + l
        /\ k < n
        /\ \A i \in 1 .. k : rx[c][i] = [piece |-> <<m, i>>, total |-> n]
        /\ \A i \in 1 .. l : input[c][i] = Report(m, k + i, n)
    BY <1>3, <2>1, <2>2, <2>3 DEF Gets, Quiet
  <2>5. input[c] \in Seq(Reports) /\ k \in Nat /\ n \in Nat
    BY <1>0, FramingAssumption DEF Fields
  <2>6. /\ l \in Nat /\ Len(input'[c]) = l + 1 /\ input'[c][l + 1] = r
        /\ \A i \in 1 .. l : input'[c][i] = input[c][i]
    BY <2>1, <2>5, Appended
  <2>7. /\ UNCHANGED <<busy, owner, size>> /\ written'[m] = (k + l) + 1
        /\ pc'[m] = IF (k + l) + 1 = n THEN "finish" ELSE "write"
    BY <1>0, <1>8, <2>1, <2>4 DEF Write, Fields, daemonVars
  <2>8. r = Report(m, (k + l) + 1, n)
    BY <2>4
  <2>. HIDE DEF k, l, r
  <2>9. \A i \in 1 .. l + 1 : input'[c][i] = Report(m, k + i, n)
    <3>1. \A i \in 1 .. l + 1 : i \in 1 .. l \/ i = l + 1
      BY <2>6
    <3>2. k + (l + 1) = (k + l) + 1
      BY <2>5, <2>6
    <3>. QED
      BY <2>4, <2>6, <2>8, <3>1, <3>2
  <2>10. (k + l) + 1 = n \/ (k + l) + 1 < n
    <3>1. k \in Nat /\ l \in Nat /\ n \in Nat /\ k + l < n
      BY <2>4, <2>5, <2>6
    <3>. QED
      BY <3>1
  <2>11. rx'[c] = rx[c] /\ message'[c] = m /\ Len(rx'[c]) = k
    BY <1>1, <2>2 DEF k
  <2>12. Len(rx'[c]) + Len(input'[c]) = (k + l) + 1
    BY <2>5, <2>6, <2>11
  <2>13. /\ Len(rx'[c]) < n
         /\ \A i \in 1 .. Len(rx'[c]) : rx'[c][i] = [piece |-> <<message'[c], i>>, total |-> n]
         /\ \A i \in 1 .. Len(input'[c]) : input'[c][i] = Report(message'[c], Len(rx'[c]) + i, n)
    BY <2>4, <2>6, <2>9, <2>11
  <2>14. \/ Len(rx'[c]) + Len(input'[c]) = n /\ Quiet(c)'
         \/ /\ Len(rx'[c]) + Len(input'[c]) < n
            /\ busy' = message'[c] /\ owner'[busy'] = c /\ pc'[busy'] = "write"
            /\ size'[busy'] = n /\ written'[busy'] = Len(rx'[c]) + Len(input'[c])
    <3>1. CASE (k + l) + 1 = n
      <4>1. Quiet(c)'
        BY <1>3, <2>7, <3>1 DEF Quiet, Holds
      <4>. QED
        BY <2>12, <3>1, <4>1
    <3>2. CASE (k + l) + 1 < n
      <4>1. (k + l) + 1 # n
        BY <2>4, <2>5, <2>6, <3>2
      <4>2. /\ busy' = m /\ owner'[m] = c /\ pc'[m] = "write" /\ size'[m] = n
            /\ written'[m] = (k + l) + 1
        BY <1>3, <2>4, <2>7, <4>1
      <4>. QED
        BY <2>11, <2>12, <3>2, <4>2
    <3>. QED
      BY <2>10, <3>1, <3>2
  <2>15. Gets(c, n)'
    BY <2>13, <2>14 DEF Gets, Report, SequenceOf
  <2>. QED
    BY <1>1, <2>2, <2>15 DEF Standing, Waiting
<1>. QED
  BY <1>4, <1>6, <1>7, <1>8 DEF Worker

LEMMA InStepStep ==
    ASSUME IndInv, [Next]_vars
    PROVE  InStep'
<1>0. Fields /\ Assembling /\ Workers /\ Writers /\ next' \in Nat /\ \A d \in Channels : Asking(d)
  BY FieldsStep DEF IndInv, Writers, Fields
<1>1. ASSUME NEW d \in Channels, Apart(d), d \notin unsure' \cup overlapped'
      PROVE  Standing(d)'
  <2>1. d \notin unsure \cup overlapped
    BY <1>1 DEF Apart
  <2>2. Standing(d)
    BY <2>1 DEF IndInv, InStep
  <2>. QED
    BY <1>0, <1>1, <2>2, ApartStays
<1>2. ASSUME NEW c \in Channels, Sends(c)
      PROVE  InStep'
  <2>1. ASSUME c \notin unsure' \cup overlapped'
        PROVE  Standing(c)'
    <3>1. UNCHANGED <<unsure, overlapped>>
      BY <1>2 DEF Sends, Begin, Continue
    <3>2. c \notin unsure \cup overlapped
      BY <2>1, <3>1
    <3>. QED
      BY <1>2, <3>2, StandingBegin, StandingContinue DEF Sends
  <2>. QED
    BY <1>0, <1>1, <1>2, <2>1, ApartSend DEF InStep
<1>3. ASSUME NEW c \in Channels, GiveUp(c) \/ Read(c)
      PROVE  InStep'
  <2>1. ASSUME c \notin unsure' \cup overlapped'
        PROVE  Standing(c)'
    <3>1. ~GiveUp(c)
      BY <2>1 DEF GiveUp
    <3>. QED
      BY <1>3, <2>1, <3>1, StandingRead
  <2>. QED
    BY <1>0, <1>1, <1>3, <2>1, ApartClient DEF InStep
<1>4. ASSUME NEW m \in Messages, Worker(m)
      PROVE  InStep'
  <2>1. ASSUME NEW c \in Channels, c \notin unsure' \cup overlapped'
        PROVE  Standing(c)'
    <3>1. CASE owner[m] # c \/ (busy # m /\ ~Write(m))
      BY <1>0, <1>1, <1>4, <2>1, <3>1, ApartWorker
    <3>2. CASE owner[m] = c /\ (busy = m \/ Write(m))
      BY <1>4, <2>1, <3>2, StandingWorker
    <3>. QED
      BY <3>1, <3>2
  <2>. QED
    BY <2>1 DEF InStep
<1>5. CASE UNCHANGED vars
  <2>1. next \in Nat /\ next' = next
    BY <1>0, <1>5 DEF Fields, vars, clientVars
  <2>2. next <= next'
    BY <2>1
  <2>3. \A d \in Channels : Apart(d)
    BY <1>5, <2>2 DEF Apart, Holds, vars, daemonVars, workerVars, clientVars, history
  <2>. QED
    BY <1>1, <2>3 DEF InStep
<1>. QED
  BY <1>2, <1>3, <1>4, <1>5 DEF Next, Client, Sends

\* What a client takes when a reply is complete.
LEMMA Answered ==
    ASSUME IndInv, NEW c \in Channels, Read(c), got'[c] # None, got'[c] # got[c],
           c \notin overlapped
    PROVE  \E n \in ReplyLengths \cup {1} : got'[c][2] = Whole(got'[c][1], n)
<1>0. Fields /\ Renewed(c) /\ (c \notin unsure => Standing(c)) /\ phase[c] = "waiting"
  BY ReadForms DEF IndInv, Inits, InStep
<1>1. Fits(c, Head(input[c])) /\ Len(All(c)) = All(c)[1].total /\ c \notin unsure
      /\ got'[c] = <<message[c], [i \in 1 .. Len(All(c)) |-> All(c)[i].piece]>>
  <2>1. Fits(c, Head(input[c]))
    BY <1>0, ReadForms, ThroughFields
  <2>. QED
    BY <1>0, <2>1, ReadFits
<1>2. CASE command[c] = "init"
  <2>1. Len(All(c)) = 1 /\ All(c)[1] = Part(InitReport(message[c]))
    BY <1>0, <1>1, <1>2, OnlyItsInit
  <2>2. All(c)[1].piece = <<message[c], 1>>
    BY <2>1 DEF Part, InitReport
  <2>3. [i \in 1 .. Len(All(c)) |-> All(c)[i].piece] = Whole(message[c], 1)
    BY <2>1, <2>2 DEF Whole
  <2>. QED
    BY <1>1, <2>3
<1>3. CASE command[c] # "init"
  <2>1. PICK n \in ReplyLengths : Gets(c, n)
    BY <1>0, <1>1, <1>3, FitsGets
  <2>2. /\ \A i \in 1 .. Len(All(c)) : All(c)[i] = [piece |-> <<message[c], i>>, total |-> n]
        /\ All(c)[1].total = n
    BY <1>0, <2>1, GetsNext
  <2>3. Len(All(c)) = n
    BY <1>1, <2>2
  <2>4. [i \in 1 .. Len(All(c)) |-> All(c)[i].piece] = Whole(message[c], n)
    BY <2>2, <2>3 DEF Whole
  <2>. QED
    BY <1>1, <2>4
<1>. QED
  BY <1>2, <1>3

LEMMA RepliesStep ==
    ASSUME IndInv, RepliesIntact, [Next]_vars
    PROVE  RepliesIntact'
<1>0. Fields
  BY DEF IndInv
<1>1. overlapped \subseteq overlapped'
  BY DEF Next, Client, Begin, Continue, GiveUp, Read, Worker, Respond, Write, Finish, vars, history
<1>2. ASSUME NEW d \in Channels, got'[d] = got[d], got'[d] # None, d \notin overlapped'
      PROVE  \E n \in ReplyLengths \cup {1} : got'[d][2] = Whole(got'[d][1], n)
  BY <1>1, <1>2 DEF RepliesIntact
<1>3. ASSUME NEW c \in Channels, Client(c), NEW d \in Channels,
             got'[d] # None, d \notin overlapped'
      PROVE  \E n \in ReplyLengths \cup {1} : got'[d][2] = Whole(got'[d][1], n)
  <2>1. CASE Sends(c)
    <3>1. got'[d] = got[d]
      BY <1>0, <1>3, <2>1 DEF Sends, Begin, Continue, Fields
    <3>. QED
      BY <1>2, <1>3, <3>1
  <2>2. CASE GiveUp(c)
    <3>1. got'[d] = got[d]
      BY <1>0, <1>3, <2>2, ThroughFields DEF GiveUp
    <3>. QED
      BY <1>2, <1>3, <3>1
  <2>3. CASE Read(c)
    <3>1. d # c => got'[d] = got[d]
      <4>1. got' = got \/ \E reply : Through(c, reply)
        BY <2>3 DEF Read
      <4>. QED
        BY <1>0, <4>1, ThroughFields
    <3>2. d \notin overlapped
      BY <1>1, <1>3
    <3>. QED
      BY <1>2, <1>3, <2>3, <3>1, <3>2, Answered
  <2>. QED
    BY <1>3, <2>1, <2>2, <2>3 DEF Client, Sends
<1>4. CASE (\E m \in Messages : Worker(m)) \/ UNCHANGED vars
  <2>1. got' = got
    BY <1>4 DEF Worker, Respond, Write, Finish, vars, history
  <2>. QED
    BY <1>2, <2>1 DEF RepliesIntact
<1>5. CASE \E c \in Channels : Client(c)
  BY <1>3, <1>5 DEF RepliesIntact
<1>. QED
  BY <1>4, <1>5 DEF Next

-----------------------------------------------------------------------------
(* The theorems.                                                           *)

Invariant == IndInv /\ MessagesIntact /\ RepliesIntact

LEMMA Invariance == Spec => []Invariant
<1>1. Init => Invariant
  BY InitHolds DEF Invariant, MessagesKept
<1>2. Invariant /\ [Next]_vars => Invariant'
  BY FieldsStep, AssemblingStep, WorkersStep, WritersStep, InitsStep, InStepStep, IntactStep,
     RepliesStep DEF Invariant, IndInv
<1>. QED
  BY <1>1, <1>2, PTL DEF Spec

\* The state of the device (HidState, packet) has its types; a message in progress
\* lacks reports, and its sequence byte never reaches the bit of a first report,
\* which the largest message that packet admits just allows.
THEOREM TypeCorrect == Spec => []TypeOK
<1>1. Invariant => TypeOK
  <2>. SUFFICES ASSUME Invariant
                PROVE  TypeOK
    OBVIOUS
  <2>1. Fields /\ Assembling
    BY DEF Invariant, IndInv
  <2>2. ASSUME NEW c \in Channels, partial[c] # None
        PROVE  /\ partial[c].data \in Seq(Pieces) /\ partial[c].message \in Messages
               /\ Len(partial[c].data) < partial[c].total /\ partial[c].next < InitBit
    <3>1. PICK p \in Partials : p = partial[c]
      BY <2>1, <2>2 DEF Fields
    <3>2. /\ p.data \in Seq(Pieces) /\ p.message \in Messages /\ p.next \in Nat
          /\ p.total \in Lengths
      BY DEF Partials
    <3>3. Len(p.data) < p.total /\ Len(p.data) = p.next + 1
      BY <2>1, <2>2, <3>1 DEF Assembling, Kept, Grown
    <3>4. p.total \in Nat /\ p.total <= 1 + InitBit /\ InitBit \in Nat
      <4>1. InitBit \in Nat /\ p.total \in 1 .. 1 + InitBit
        BY <3>2, FramingAssumption
      <4>. QED
        BY <4>1
    <3>5. p.next < InitBit
      BY <3>2, <3>3, <3>4
    <3>. QED
      BY <3>1, <3>2, <3>3, <3>5
  <2>. QED
    BY <2>1, <2>2 DEF TypeOK, Fields
<1>. QED
  BY <1>1, Invariance, PTL

\* What dispatch gets is one message as one client wrote it, and what a client takes
\* for a reply is the whole answer to its message (packet, reply), with the
\* exceptions MessagesIntact and RepliesIntact name.
THEOREM KeptWhole == Spec => []MessagesKept
<1>1. Invariant => MessagesKept
  BY DEF Invariant, MessagesKept
<1>. QED
  BY <1>1, Invariance, PTL
=============================================================================
