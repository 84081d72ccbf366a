------------------------------ MODULE Framing ------------------------------
(***************************************************************************)
(* CTAPHID on the virtual FIDO device (src/src/daemon.rs): packet puts the *)
(* 64-byte reports of all channels together to messages, dispatch starts a *)
(* worker for a CBOR message, and reply cuts an answer into reports again.  *)
(* The HID reader handles one report after the other; the worker of the    *)
(* current request, workers of requests an INIT gave up, and the reader    *)
(* write their reports without a common lock.                              *)
(*                                                                         *)
(* A report carries one piece of a message: the n-th piece of message m is *)
(* <<m, n>>.  A client (external: libfido2 and its like, as CTAPHID has    *)
(* them) writes a message, reads reports until the reply is complete or    *)
(* does not fit, and may give up at any moment.  What the phones do to a   *)
(* request is module Broker; one is connected.  PING, WINK, KEEPALIVE,     *)
(* CANCEL and malformed reports change no state of this module and are     *)
(* left out, and a channel is there from the start.  A report is           *)
(* handled as soon as it is written: the kernel's queue keeps their order, *)
(* and a client decides nothing on it.                                     *)
(***************************************************************************)
EXTENDS Naturals, Sequences, FiniteSets

CONSTANTS
    Channels,     \* one client each
    InitBit,      \* 128 in the code: the bit that marks a first report
    Lengths,      \* reports of a CBOR message; 1 + InitBit reports are 7609 bytes
    ReplyLengths, \* reports of an answer
    MaxMessages,  \* bound: messages of all clients
    None

Messages == 1 .. MaxMessages
Pieces   == Messages \X Nat

\* Partial: a message of a channel so far.  `message` is the one it began with.
Partials == [message : Messages, command : {"init", "cbor"}, total : Lengths, next : Nat,
             data : Seq(Pieces)]

ASSUME FramingAssumption ==
    /\ InitBit \in Nat \ {0} /\ MaxMessages \in Nat
    /\ Lengths \subseteq 1 .. 1 + InitBit
    /\ ReplyLengths \subseteq Nat \ {0}
    /\ None \notin Partials

VARIABLES
    partial,    \* HidState.partial: the message of a channel so far, or None
    busy,       \* HidState.busy: the current request, 0 when none
    owner,      \* Request.channel
    pc,         \* where the worker of each request stands
    written,    \* reports of the answer it has written
    size,       \* reports of the whole answer
    input,      \* reports on their way to each client
    phase,      \* client: "idle", "writing", "waiting"
    message,    \* client: the message it is about, 0 when none
    next,       \* messages begun so far, plus one
    command,    \* client: "init" or "cbor"
    length,     \* client: reports of the message
    sent,       \* client: those it has written
    rx,         \* client: pieces of the reply it has read
    dispatched, \* history: [data, length], what dispatch got last, None at first
    refused,    \* history: messages refused while an unfinished one was kept
    abandoned,  \* history: requests that INIT took `busy` from
    overlapped, \* history: channels an abandoned worker still wrote to
    unsure,     \* history: clients that gave up or lost track, until their next INIT
    got         \* history: <<message, reply>>, what the client took last, or None

daemonVars == <<partial, busy, owner>>
workerVars == <<pc, written, size>>
clientVars == <<phase, message, next, command, length, sent, rx>>
history    == <<dispatched, refused, abandoned, overlapped, unsure, got>>
vars == <<daemonVars, workerVars, input, clientVars, history>>

Init ==
    /\ partial = [c \in Channels |-> None]
    /\ busy = 0
    /\ owner = [m \in Messages |-> None]
    /\ pc = [m \in Messages |-> "none"]
    /\ written = [m \in Messages |-> 0] /\ size = [m \in Messages |-> 0]
    /\ input = [c \in Channels |-> <<>>]
    /\ phase = [c \in Channels |-> "idle"]
    /\ message = [c \in Channels |-> 0]
    /\ next = 1
    /\ command = [c \in Channels |-> "cbor"] /\ length = [c \in Channels |-> 0]
    /\ sent = [c \in Channels |-> 0]
    /\ rx = [c \in Channels |-> <<>>]
    /\ dispatched = None /\ refused = {} /\ abandoned = {} /\ overlapped = {}
    /\ unsure = {}
    /\ got = [c \in Channels |-> None]

-----------------------------------------------------------------------------
(* The HID reader: packet and dispatch.                                    *)

\* Reports on their way to a client.  `sequence` is the byte after the channel.
ErrorReport    == [type |-> "error", piece |-> <<0, 1>>, total |-> 1, sequence |-> 0]
InitReport(m)  == [type |-> "init", piece |-> <<m, 1>>, total |-> 1, sequence |-> 0]

Deliver(c, r) == input' = [input EXCEPT ![c] = Append(@, r)]

Busy == busy # 0

\* dispatch: INIT is answered, a CBOR message gets a worker unless one is busy.
Dispatch(c, p) ==
    /\ dispatched' = [data |-> p.data, length |-> p.total]
    /\ IF p.command = "init"
         THEN /\ Deliver(c, InitReport(p.message))
              /\ IF Busy /\ owner[busy] = c
                   THEN busy' = 0 /\ abandoned' = abandoned \cup {busy}
                   ELSE UNCHANGED <<busy, abandoned>>
              /\ UNCHANGED <<owner, pc>>
       ELSE IF Busy
         THEN Deliver(c, ErrorReport) /\ UNCHANGED <<busy, owner, pc, abandoned>>
         ELSE /\ busy' = p.message
              /\ owner' = [owner EXCEPT ![p.message] = c]
              /\ pc' = [pc EXCEPT ![p.message] = "work"]
              /\ UNCHANGED <<input, abandoned>>

\* A plausible bug: one report more than the message has.
CompleteLate(p) == Len(p.data) > p.total

Complete(p) == Len(p.data) >= p.total

\* A complete message leaves `partial` and is dispatched; another one is kept.
Collect(c, p) ==
    IF Complete(p)
      THEN /\ partial' = [partial EXCEPT ![c] = None]
           /\ Dispatch(c, p)
      ELSE /\ partial' = [partial EXCEPT ![c] = p]
           /\ UNCHANGED <<busy, owner, pc, input, dispatched, abandoned>>

\* A plausible bug: what the channel had stays in front.
StartedBehind(c, m, k, n) ==
    [message |-> m, command |-> k, total |-> n, next |-> 0,
     data |-> (IF partial[c] = None THEN <<>> ELSE partial[c].data) \o <<<<m, 1>>>>]

Started(c, m, k, n) ==
    [message |-> m, command |-> k, total |-> n, next |-> 0, data |-> <<<<m, 1>>>>]

\* A first report replaces what the channel had.  A CBOR message is refused
\* while the request of another channel is current: then nothing is replaced.
FirstReport(c, m, k, n) ==
    IF k = "cbor" /\ busy # 0 /\ owner[busy] # c
      THEN /\ Deliver(c, ErrorReport)
           /\ refused' = IF partial[c] = None THEN refused ELSE refused \cup {m}
           /\ UNCHANGED <<daemonVars, pc, dispatched, abandoned>>
      ELSE /\ Collect(c, Started(c, m, k, n))
           /\ UNCHANGED refused

\* Whether the sequence byte of a report is the expected one.
Follows(p, sequence) == sequence = p.next

\* A further report: ignored without a message to continue, an error out of turn.
NextReport(c, m, n) ==
    LET p == partial[c]
        sequence == n - 2
    IN  \/ /\ p = None
           /\ UNCHANGED <<daemonVars, pc, input, dispatched, abandoned>>
        \/ /\ p # None /\ ~Follows(p, sequence)
           /\ partial' = [partial EXCEPT ![c] = None]
           /\ Deliver(c, ErrorReport)
           /\ UNCHANGED <<busy, owner, pc, dispatched, abandoned>>
        \/ /\ p # None /\ Follows(p, sequence)
           /\ Collect(c, [p EXCEPT !.data = Append(@, <<m, n>>), !.next = @ + 1])

-----------------------------------------------------------------------------
(* The clients.                                                            *)

\* A client without a message begins one, with or without an INIT before it.
Begin(c, k, n) ==
    /\ phase[c] = "idle" /\ next \in Messages
    /\ k = "init" => n = 1
    /\ next' = next + 1
    /\ command' = [command EXCEPT ![c] = k]
    /\ length' = [length EXCEPT ![c] = n]
    /\ message' = [message EXCEPT ![c] = next]
    /\ sent' = [sent EXCEPT ![c] = 1]
    /\ phase' = [phase EXCEPT ![c] = IF n = 1 THEN "waiting" ELSE "writing"]
    /\ rx' = [rx EXCEPT ![c] = <<>>]
    /\ FirstReport(c, next, k, n)
    /\ got' = [got EXCEPT ![c] = None]
    /\ UNCHANGED <<written, size, overlapped, unsure>>

Continue(c) ==
    /\ phase[c] = "writing"
    /\ sent' = [sent EXCEPT ![c] = @ + 1]
    /\ phase' = [phase EXCEPT ![c] = IF sent[c] + 1 = length[c] THEN "waiting"
                                                                         ELSE @]
    /\ NextReport(c, message[c], sent[c] + 1)
    /\ UNCHANGED <<written, size, message, next, command, length, rx, refused, overlapped,
                   unsure, got>>

\* It is through with its message; `reply` is what it read, or None.
Through(c, reply) ==
    /\ phase' = [phase EXCEPT ![c] = "idle"]
    /\ message' = [message EXCEPT ![c] = 0]
    /\ sent' = [sent EXCEPT ![c] = 0]
    /\ rx' = [rx EXCEPT ![c] = <<>>]
    /\ got' = [got EXCEPT ![c] = reply]
    /\ command' = [command EXCEPT ![c] = "cbor"]
    /\ length' = [length EXCEPT ![c] = 0]
    /\ UNCHANGED next

\* A timeout, or the program that uses it ends.
GiveUp(c) ==
    /\ phase[c] # "idle"
    /\ Through(c, None)
    /\ unsure' = unsure \cup {c}
    /\ UNCHANGED <<daemonVars, workerVars, input, dispatched, refused, abandoned, overlapped>>

\* What it reads fits: the first report of the reply (of an INIT, with the nonce
\* it sent), or the next one in turn.
Fits(c, r) ==
    IF rx[c] = <<>>
      THEN r.type = command[c] /\ (r.type = "init" => r.piece[1] = message[c])
      ELSE r.type = "more" /\ r.sequence = Len(rx[c]) - 1

Read(c) ==
    LET r == Head(input[c])
        all == Append(rx[c], [piece |-> r.piece, total |-> r.total])
    IN
    /\ phase[c] = "waiting" /\ input[c] # <<>>
    /\ input' = [input EXCEPT ![c] = Tail(@)]
    /\ \/ /\ Fits(c, r) /\ Len(all) < all[1].total
          /\ rx' = [rx EXCEPT ![c] = all]
          /\ UNCHANGED <<phase, message, next, command, length, sent, unsure, got>>
       \/ /\ Fits(c, r) /\ Len(all) = all[1].total
          /\ Through(c, IF c \in unsure THEN None
                        ELSE <<message[c], [i \in 1 .. Len(all) |-> all[i].piece]>>)
          /\ unsure' = IF r.type = "init" THEN unsure \ {c} ELSE unsure
       \/ /\ ~Fits(c, r)
          /\ Through(c, None)
          /\ unsure' = unsure \cup {c}
    /\ UNCHANGED <<daemonVars, workerVars, dispatched, refused, abandoned, overlapped>>

-----------------------------------------------------------------------------
(* The worker of a request: handle_cbor as this module sees it.            *)

\* request_is_current, then reply; a request that is not current gets none.
Respond(m, n) ==
    /\ pc[m] = "work"
    /\ IF busy = m
         THEN /\ pc' = [pc EXCEPT ![m] = "write"]
              /\ size' = [size EXCEPT ![m] = n]
         ELSE pc' = [pc EXCEPT ![m] = "finish"] /\ UNCHANGED size
    /\ UNCHANGED <<daemonVars, written, input, clientVars, history>>

\* The byte that numbers report n of an answer, n > 1: one byte that wraps.
SequenceOf(n) == (n - 2) % (2 * InitBit)

\* What the byte makes of a report: with the init bit it is no further report.
AnswerReport(m, n) ==
    [piece |-> <<m, n>>, total |-> size[m],
     sequence |-> IF n = 1 THEN 0 ELSE SequenceOf(n),
     type |-> IF n = 1 THEN "cbor"
              ELSE IF SequenceOf(n) >= InitBit THEN "unknown" ELSE "more"]

ReplyChannel(m) == owner[m]

\* reply: one report, one write to the UHID device.
Write(m) ==
    /\ pc[m] = "write"
    /\ Deliver(ReplyChannel(m), AnswerReport(m, written[m] + 1))
    /\ written' = [written EXCEPT ![m] = @ + 1]
    /\ pc' = [pc EXCEPT ![m] = IF written[m] + 1 = size[m] THEN "finish" ELSE @]
    /\ overlapped' = IF m \in abandoned THEN overlapped \cup {owner[m]} ELSE overlapped
    /\ UNCHANGED <<daemonVars, size, clientVars, dispatched, refused, abandoned, unsure, got>>

Freed(m) == IF busy = m THEN 0 ELSE busy

\* finish_request
Finish(m) ==
    /\ pc[m] = "finish"
    /\ busy' = Freed(m)
    /\ pc' = [pc EXCEPT ![m] = "done"]
    /\ owner' = [owner EXCEPT ![m] = None]
    /\ written' = [written EXCEPT ![m] = 0] /\ size' = [size EXCEPT ![m] = 0]
    /\ abandoned' = abandoned \ {m}
    /\ UNCHANGED <<partial, input, clientVars, dispatched, refused, overlapped, unsure, got>>

Worker(m) == (\E n \in ReplyLengths : Respond(m, n)) \/ Write(m) \/ Finish(m)

Client(c) ==
    \/ \E k \in {"init", "cbor"}, n \in Lengths : Begin(c, k, n)
    \/ Continue(c) \/ GiveUp(c) \/ Read(c)

Next == (\E c \in Channels : Client(c)) \/ (\E m \in Messages : Worker(m))

Spec == Init /\ [][Next]_vars

\* Workers run on, and a client that waits reads what there is to read.
Fairness ==
    /\ \A m \in Messages : WF_vars(Worker(m))
    /\ \A c \in Channels : WF_vars(Read(c))

FairSpec == Spec /\ Fairness

-----------------------------------------------------------------------------
(* Properties.                                                             *)

Reports == [type : {"error", "init", "cbor", "more", "unknown"},
            piece : (Messages \cup {0}) \X Nat, total : Nat, sequence : Nat]

TypeOK ==
    /\ \A c \in Channels : partial[c] # None =>
         /\ partial[c].data \in Seq(Pieces) /\ partial[c].message \in Messages
         /\ Len(partial[c].data) < partial[c].total /\ partial[c].next < InitBit
    /\ busy \in Messages \cup {0}
    /\ owner \in [Messages -> Channels \cup {None}]
    /\ pc \in [Messages -> {"none", "work", "write", "finish", "done"}]
    /\ input \in [Channels -> Seq(Reports)]
    /\ phase \in [Channels -> {"idle", "writing", "waiting"}]
    /\ message \in [Channels -> Messages \cup {0}]

Whole(m, n) == [i \in 1 .. n |-> <<m, i>>]

\* What dispatch gets is what one client wrote as one message, all of it and in
\* order (packet: partial per channel, the sequence byte), however messages of
\* several channels and of clients that stopped half-way mix.  One mix is left: when
\* a first report is refused, what the channel had stays, and the reports that
\* follow the refused one continue it.
MessagesIntact ==
    LET data == dispatched.data IN
    dispatched # None =>
        \/ data = Whole(data[1][1], dispatched.length)
        \/ \E i \in 2 .. Len(data) : data[i][1] \in refused

\* What a client takes for the reply to its message is the answer to that message,
\* complete and in order, although several threads write reports without a common
\* lock (reply).  Exceptions: an INIT gave a request up while its worker was past
\* request_is_current, so that two workers wrote to the channel; and a client that
\* gave up or lost track has not sent INIT since.
RepliesIntact ==
    \A c \in Channels : got[c] # None /\ c \notin overlapped =>
        LET reply == got[c][2] IN
        \E n \in ReplyLengths \cup {1} : reply = Whole(got[c][1], n)

\* Neither way mixes the pieces of different messages (packet, reply).
MessagesKept == MessagesIntact /\ RepliesIntact

\* A client that has written its message and waits gets a reply or an error.
ReplyComes ==
    \A c \in Channels : phase[c] = "waiting" ~> phase[c] = "idle"
=============================================================================
