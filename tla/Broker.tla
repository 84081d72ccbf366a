------------------------------- MODULE Broker -------------------------------
(***************************************************************************)
(* The request path of the passkey daemon (src/src/daemon.rs): a CTAP      *)
(* request that a client writes to the virtual FIDO device is numbered,    *)
(* handed to a worker thread, fanned out to the connected phones in one or *)
(* two rounds, and the first answer that counts goes back to the client.   *)
(*                                                                         *)
(* Threads: the HID reader (packet, dispatch, cancel), one worker per      *)
(* accepted request (handle_cbor, fan_out, finish_request), one reader per *)
(* link (read_link, remove, and the cancel inside sync_uhid), and the      *)
(* update loop.  A step ends where a thread lets go of a lock or where     *)
(* another thread can see what it did.                                     *)
(*                                                                         *)
(* Abstracted: CBOR contents (a request has a kind), the bytes of frames,  *)
(* KEEPALIVE reports, the order in which one pass polls the links, and the *)
(* two FIFO halves of a connection, which are one queue per direction.     *)
(***************************************************************************)
EXTENDS Naturals, Sequences, FiniteSets

CONSTANTS
    Links,        \* Link objects the discovery loops may create, one per connection
    Devices,      \* phone identities (Link.device)
    DeviceOf,     \* [Links -> Devices]
    Priority,     \* [Links -> Nat]: 0 USB, 1 Wi-Fi, 2 Bluetooth
    Channels,     \* CTAPHID channels, one client each
    Kinds,        \* the request kinds the clients of this instance send
    Signals,      \* how they interrupt: subset of {"cancel", "init", "close"}
    Replies,      \* the statuses its phones answer with
    Choosable,    \* devices `passkey add` may pin through /run/passkey/use
    MaxRequests,  \* bound: numbers next_request hands out (u32, never wraps here)
    MaxFailures,  \* bound: connections that may go down
    MayReplace,   \* TRUE: a package update may delete the running program
    None          \* no device, no link

\* What handle_cbor tells apart: getInfo, getNextAssertion, a presence-free
\* getAssertion (`silent`), any other getAssertion, everything else.
AllKinds == {"info", "next", "probe", "assert", "make"}

Numbers == 1 .. MaxRequests

\* First byte of a response: success, OPERATION_DENIED, NO_CREDENTIALS, another error.
Statuses == {"ok", "denied", "nocred", "other"}

ASSUME BrokerAssumption ==
    /\ DeviceOf \in [Links -> Devices]
    /\ Priority \in [Links -> Nat]
    /\ Channels # {}
    /\ Kinds \subseteq AllKinds
    /\ Signals \subseteq {"cancel", "init", "close"}
    /\ Replies \subseteq Statuses
    /\ Choosable \subseteq Devices
    /\ MaxRequests \in Nat /\ MaxFailures \in Nat
    /\ MayReplace \in BOOLEAN
    /\ None \notin Links \cup Devices

\* Only the sentinel that Link.close pushes has number 0.
Responses == [number : Numbers \cup {0}, status : Statuses]
Sentinel == [number |-> 0, status |-> "other"]

VARIABLES
    link,         \* life of each Link object, see LinkStates
    before,       \* before[l]: links pushed to Daemon.links ahead of l
    inbox,        \* REQ numbers sent to the phone and not answered, oldest first
    withdrawn,    \* request numbers a CANCEL was sent for, per link
    queue,        \* Link.responses: answers the worker has not taken
    busy,         \* HidState.busy: number of the current request, 0 when none
    holders,      \* HidState.holders
    last,         \* HidState.last
    nextRequest,  \* Daemon.next_request
    channel,      \* Request.channel
    kind,         \* what the request asks for
    pending,      \* Request.pending, shared with cancel
    pc,           \* where each worker thread stands
    targets,      \* worker local: links of this round
    rest,         \* worker local: links of the next round
    waiting,      \* fan_out local `pending`
    todo,         \* links this pass has not polled yet
    wins,         \* links whose answer was a success
    winner,       \* link of the first success, or None
    errors,       \* statuses of the failures
    expired,      \* the 600 s deadline has passed
    hidCall,      \* request the HID thread is about to withdraw, 0 when none
    sweep,        \* the same for the thread that removes link l
    update,       \* update_loop: "running", "leaving", "exited"
    waits,        \* client: number of the request it waits for on the channel, 0 none
    got,          \* history: got[n] = request whose answer the client of n took
    approved,     \* history: <<l, n>>, the phone on l answered n with success
    cancelled,    \* history: requests some cancel() has finished withdrawing
    swallowed     \* history: <<l, m>>, a worker no longer current took from l what was
                  \* meant for another: the answer to m, or (m = 0) the sentinel

linkVars   == <<link, before>>
wireVars   == <<inbox, withdrawn, queue>>
hidVars    == <<busy, holders, last, nextRequest>>
requestVars == <<channel, kind, pending>>
workerVars == <<pc, targets, rest, waiting, todo, wins, winner, errors, expired>>
callVars   == <<hidCall, sweep, update>>
clientVars == <<waits, got>>
history    == <<approved, cancelled, swallowed>>
vars == <<linkVars, wireVars, hidVars, requestVars, workerVars, callVars,
          clientVars, history>>

-----------------------------------------------------------------------------
(* Links.  "new": not connected yet; "up"; "broken": the connection is dead   *)
(* but `alive` is still set; "closed": Link.close ran; "removed": taken out  *)
(* of Daemon.links; "empty": its sync_uhid saw no live link; "gone".         *)

LinkStates == {"new", "up", "broken", "closed", "removed", "empty", "gone"}

Up   == {l \in Links : link[l] = "up"}
Live == {l \in Links : link[l] \in {"up", "broken"}}     \* live_links

Precedes(l, m) ==
    \/ Priority[l] < Priority[m]
    \/ Priority[l] = Priority[m] /\ l \in before[m]

\* A plausible bug: every live link is asked, not one per device.
AllLive == Live

\* by_device: one live link per device, the best transport, then the oldest.
ByDevice == {l \in Live : \A m \in Live :
                DeviceOf[m] = DeviceOf[l] => ~Precedes(m, l)}

Find(S, d) == {l \in S : DeviceOf[l] = d}
First(S)   == {l \in S : \A m \in S : ~Precedes(m, l)}

Asked(l, n)    == \E i \in 1 .. Len(inbox[l]) : inbox[l][i] = n
Answered(l, n) == \E i \in 1 .. Len(queue[l]) : queue[l][i].number = n

PcStates == {"none", "snapshot", "plan", "ask", "publish", "head", "poll",
             "clear", "record", "check", "reply", "finish", "done"}
Active == PcStates \ {"none", "done"}

Init ==
    /\ link = [l \in Links |-> "new"]
    /\ before = [l \in Links |-> {}]
    /\ inbox = [l \in Links |-> <<>>]
    /\ withdrawn = [l \in Links |-> {}]
    /\ queue = [l \in Links |-> <<>>]
    /\ busy = 0 /\ holders = {} /\ last = None /\ nextRequest = 1
    /\ channel = [n \in Numbers |-> CHOOSE c \in Channels : TRUE]
    /\ kind = [n \in Numbers |-> "make"]
    /\ pending = [n \in Numbers |-> {}]
    /\ pc = [n \in Numbers |-> "none"]
    /\ targets = [n \in Numbers |-> {}]
    /\ rest = [n \in Numbers |-> {}]
    /\ waiting = [n \in Numbers |-> {}]
    /\ todo = [n \in Numbers |-> {}]
    /\ wins = [n \in Numbers |-> {}]
    /\ winner = [n \in Numbers |-> None]
    /\ errors = [n \in Numbers |-> {}]
    /\ expired = [n \in Numbers |-> FALSE]
    /\ hidCall = 0 /\ sweep = [l \in Links |-> 0] /\ update = "running"
    /\ waits = [c \in Channels |-> 0]
    /\ got = [n \in Numbers |-> 0]
    /\ approved = {} /\ cancelled = {} /\ swallowed = {}

-----------------------------------------------------------------------------
(* The connections and the phones behind them.                             *)

\* Daemon.add pushes the link and starts its reader.
Connect(l) ==
    /\ link[l] = "new"
    /\ link' = [link EXCEPT ![l] = "up"]
    /\ before' = [before EXCEPT ![l] =
                    {m \in Links : link[m] \in {"up", "broken", "closed"}}]
    /\ UNCHANGED <<wireVars, hidVars, requestVars, workerVars, callVars,
                   clientVars, history>>

\* The bound on failures: a link may still fail, or has failed already.
MayFail(l) ==
    \/ link[l] = "broken"
    \/ Cardinality({m \in Links : link[m] \notin {"new", "up"}}) < MaxFailures

\* The phone or the network goes away; nothing on this side knows yet.
Break(l) ==
    /\ link[l] = "up" /\ MayFail(l)
    /\ link' = [link EXCEPT ![l] = "broken"]
    /\ UNCHANGED <<before, wireVars, hidVars, requestVars, workerVars, callVars,
                   clientVars, history>>

\* A plausible bug: `alive` is cleared and nobody who waits is told.
EndedSilently(q) == q

\* What Link.close leaves in Link.responses.
Ended(q) == Append(q, Sentinel)

\* Link.close, by the link's reader, keepalive_loop or wifi_loop: whoever
\* clears `alive` also pushes the sentinel.
Close(l) ==
    /\ link[l] \in {"up", "broken"} /\ MayFail(l)
    /\ link' = [link EXCEPT ![l] = "closed"]
    /\ queue' = [queue EXCEPT ![l] = Ended(@)]
    /\ UNCHANGED <<before, inbox, withdrawn, hidVars, requestVars, workerVars,
                   callVars, clientVars, history>>

\* Daemon.remove: links.retain.
Remove(l) ==
    /\ link[l] = "closed"
    /\ link' = [link EXCEPT ![l] = "removed"]
    /\ UNCHANGED <<before, wireVars, hidVars, requestVars, workerVars, callVars,
                   clientVars, history>>

\* remove's sync_uhid reads live_links; a live link means create_uhid, which
\* finds the device present.
SyncUhid(l) ==
    /\ link[l] = "removed"
    /\ link' = [link EXCEPT ![l] = IF Live = {} THEN "empty" ELSE "gone"]
    /\ UNCHANGED <<before, wireVars, hidVars, requestVars, workerVars, callVars,
                   clientVars, history>>

\* A phone runs its requests one at a time in arrival order; its answer is
\* decoded by read_link into Link.responses.  Answers in flight when the
\* connection dies arrive or are lost.
PhoneAnswer(l) ==
    /\ inbox[l] # <<>>
    /\ inbox' = [inbox EXCEPT ![l] = Tail(@)]
    /\ \/ /\ link[l] \in {"up", "broken", "closed"}
          /\ \E s \in Replies :
               /\ queue' = [queue EXCEPT ![l] =
                              Append(@, [number |-> Head(inbox[l]), status |-> s])]
               /\ approved' = IF s = "ok" THEN approved \cup {<<l, Head(inbox[l])>>}
                                          ELSE approved
       \/ /\ link[l] # "up"
          /\ UNCHANGED <<queue, approved>>
    /\ UNCHANGED <<linkVars, withdrawn, hidVars, requestVars, workerVars,
                   callVars, clientVars, cancelled, swallowed>>

-----------------------------------------------------------------------------
(* The HID reader thread: dispatch and cancel.                             *)

HidReady == hidCall = 0

\* packet has put the report together (its bytes, and malformed packets that are
\* answered with an error, are abstracted) and dispatch accepts the CBOR request:
\* number, busy, worker thread.
Dispatch(c, k) ==
    /\ HidReady /\ waits[c] = 0 /\ Live # {}
    /\ nextRequest \in Numbers /\ busy = 0
    /\ busy' = nextRequest
    /\ nextRequest' = nextRequest + 1
    /\ channel' = [channel EXCEPT ![nextRequest] = c]
    /\ kind' = [kind EXCEPT ![nextRequest] = k]
    /\ pc' = [pc EXCEPT ![nextRequest] = "snapshot"]
    /\ waits' = [waits EXCEPT ![c] = nextRequest]
    /\ UNCHANGED <<linkVars, wireVars, holders, last, pending, targets, rest,
                   waiting, todo, wins, winner, errors, expired, callVars, got,
                   history>>

\* dispatch answers ERR_CHANNEL_BUSY: the number is spent all the same.  (The
\* first packet of a message on another channel is refused by packet already,
\* which changes nothing here.)
Refuse(c) ==
    /\ HidReady /\ waits[c] = 0 /\ Live # {}
    /\ nextRequest \in Numbers /\ busy # 0
    /\ nextRequest' = nextRequest + 1
    /\ UNCHANGED <<linkVars, wireVars, busy, holders, last, requestVars,
                   workerVars, callVars, clientVars, history>>

\* A plausible bug: a CANCEL forgets the request as an INIT does.
FreedAlways(reset) == 0

\* What cancel leaves in `busy`: only an INIT gives the request up.
Freed(reset) == IF reset THEN 0 ELSE busy

\* CTAPHID_CANCEL on channel c: the client still expects an answer.
HidCancel(c) ==
    /\ "cancel" \in Signals /\ HidReady
    /\ busy # 0 /\ channel[busy] = c
    /\ hidCall' = busy
    /\ busy' = Freed(FALSE)
    /\ UNCHANGED <<linkVars, wireVars, holders, last, nextRequest, requestVars,
                   workerVars, sweep, update, clientVars, history>>

\* CTAPHID_INIT on channel c: cancel(Some(c), true) frees the daemon at once;
\* the client drops what it waited for.
HidInit(c) ==
    /\ "init" \in Signals /\ HidReady
    /\ IF busy # 0 /\ channel[busy] = c
         THEN busy' = Freed(TRUE) /\ hidCall' = busy
         ELSE UNCHANGED <<busy, hidCall>>
    /\ waits' = [waits EXCEPT ![c] = 0]
    /\ UNCHANGED <<linkVars, wireVars, holders, last, nextRequest, requestVars,
                   workerVars, sweep, update, got, history>>

\* UHID_CLOSE: the last client closed the device; cancel(None, false).
HidClose ==
    /\ "close" \in Signals /\ HidReady
    /\ hidCall' = busy
    /\ waits' = [c \in Channels |-> 0]
    /\ UNCHANGED <<linkVars, wireVars, hidVars, requestVars, workerVars, sweep,
                   update, got, history>>

\* sync_uhid without a live link: cancel(None, false) by the removing thread.
SweepCancel(l) ==
    /\ link[l] = "empty"
    /\ link' = [link EXCEPT ![l] = "gone"]
    /\ sweep' = [sweep EXCEPT ![l] = busy]
    /\ UNCHANGED <<before, wireVars, hidVars, requestVars, workerVars, hidCall,
                   update, clientVars, history>>

\* A plausible bug: the cancel stops at the first link.
SendCancelFirst(n, S) ==
    withdrawn' = [l \in Links |-> IF l \in First(S) \cap Up THEN withdrawn[l] \cup {n}
                                                            ELSE withdrawn[l]]

\* withdraw under the lock of request.pending: CANCEL to every link in S.
SendCancel(n, S) ==
    withdrawn' = [l \in Links |-> IF l \in S \cap Up THEN withdrawn[l] \cup {n}
                                                     ELSE withdrawn[l]]

HidWithdraw ==
    /\ hidCall # 0
    /\ SendCancel(hidCall, pending[hidCall])
    /\ cancelled' = cancelled \cup {hidCall}
    /\ hidCall' = 0
    /\ UNCHANGED <<linkVars, inbox, queue, hidVars, requestVars, workerVars,
                   sweep, update, clientVars, approved, swallowed>>

SweepWithdraw(l) ==
    /\ sweep[l] # 0
    /\ SendCancel(sweep[l], pending[sweep[l]])
    /\ cancelled' = cancelled \cup {sweep[l]}
    /\ sweep' = [sweep EXCEPT ![l] = 0]
    /\ UNCHANGED <<linkVars, inbox, queue, hidVars, requestVars, workerVars,
                   hidCall, update, clientVars, approved, swallowed>>

-----------------------------------------------------------------------------
(* The worker of request n: handle_cbor.                                   *)

Current(n) == busy = n                                   \* request_is_current

\* by_device, then chosen_device: a pinned device is the only one asked.
Snapshot(n) ==
    /\ pc[n] = "snapshot"
    /\ \/ /\ targets' = [targets EXCEPT ![n] = ByDevice]
          /\ pc' = [pc EXCEPT ![n] = "plan"]
       \/ \E d \in Choosable :
            /\ targets' = [targets EXCEPT ![n] = Find(ByDevice, d)]
            /\ pc' = [pc EXCEPT ![n] = "ask"]
    /\ UNCHANGED <<linkVars, wireVars, hidVars, requestVars, rest, waiting, todo,
                   wins, winner, errors, expired, callVars, clientVars, history>>

\* The rounds, from holders and last as they are now.
Plan(n) ==
    LET all  == targets[n]
        held == {l \in all : DeviceOf[l] \in holders}
    IN  /\ pc[n] = "plan"
        /\ IF kind[n] = "assert" /\ held # {}
             THEN /\ targets' = [targets EXCEPT ![n] = held]
                  /\ rest' = [rest EXCEPT ![n] = all \ held]
             ELSE /\ targets' = [targets EXCEPT ![n] =
                                   CASE kind[n] = "info" -> First(all)
                                     [] kind[n] = "next" -> Find(all, last)
                                     [] OTHER -> all]
                  /\ UNCHANGED rest
        /\ pc' = [pc EXCEPT ![n] = "ask"]
        /\ UNCHANGED <<linkVars, wireVars, hidVars, requestVars, waiting, todo,
                       wins, winner, errors, expired, callVars, clientVars, history>>

\* An empty round is skipped.
SkipRound(n) ==
    /\ pc[n] = "ask" /\ targets[n] = {}
    /\ targets' = [targets EXCEPT ![n] = rest[n]]
    /\ rest' = [rest EXCEPT ![n] = {}]
    /\ pc' = [pc EXCEPT ![n] = IF rest[n] = {} THEN "check" ELSE "ask"]
    /\ UNCHANGED <<linkVars, wireVars, hidVars, requestVars, waiting, todo, wins,
                   winner, errors, expired, callVars, clientVars, history>>

\* fan_out sends REQ to every target and keeps those whose write succeeded:
\* all that are up, and perhaps a dead one that nobody has noticed.
Ask(n) ==
    /\ pc[n] = "ask" /\ targets[n] # {}
    /\ inbox' = [l \in Links |-> IF l \in targets[n] \cap Up THEN Append(inbox[l], n)
                                                             ELSE inbox[l]]
    /\ \E lost \in SUBSET {l \in targets[n] : link[l] = "broken"} :
         waiting' = [waiting EXCEPT ![n] = (targets[n] \cap Up) \cup lost]
    /\ pc' = [pc EXCEPT ![n] = "publish"]
    /\ UNCHANGED <<linkVars, withdrawn, queue, hidVars, requestVars, targets, rest,
                   todo, wins, winner, errors, expired, callVars, clientVars, history>>

\* *request.pending.lock() = pending.clone()
Publish(n) ==
    /\ pc[n] = "publish"
    /\ pending' = [pending EXCEPT ![n] = waiting[n]]
    /\ pc' = [pc EXCEPT ![n] = "head"]
    /\ UNCHANGED <<linkVars, wireVars, hidVars, channel, kind, targets, rest, waiting,
                   todo, wins, winner, errors, expired, callVars, clientVars, history>>

\* fan_out's `done`: a success or a refusal settles any request but a probe,
\* which waits for all.
Decided(n) == kind[n] # "probe" /\ (winner[n] # None \/ "denied" \in errors[n])

\* The condition of the polling loop.
LoopHead(n) ==
    /\ pc[n] = "head"
    /\ IF waiting[n] # {} /\ ~Decided(n) /\ ~expired[n] /\ Current(n)
         THEN /\ todo' = [todo EXCEPT ![n] = waiting[n]]
              /\ pc' = [pc EXCEPT ![n] = "poll"]
         ELSE /\ pc' = [pc EXCEPT ![n] = "clear"]
              /\ UNCHANGED todo
    /\ UNCHANGED <<linkVars, wireVars, hidVars, requestVars, targets, rest, waiting,
                   wins, winner, errors, expired, callVars, clientVars, history>>

\* One pass has polled every link it started with, or stopped at a decision.
EndPass(n) ==
    /\ pc[n] = "poll" /\ (todo[n] = {} \/ Decided(n))
    /\ todo' = [todo EXCEPT ![n] = {}]
    /\ pc' = [pc EXCEPT ![n] = "head"]
    /\ UNCHANGED <<linkVars, wireVars, hidVars, requestVars, targets, rest, waiting,
                   wins, winner, errors, expired, callVars, clientVars, history>>

PollNothing(n, l) ==
    /\ pc[n] = "poll" /\ ~Decided(n) /\ l \in todo[n]
    /\ queue[l] = <<>>
    /\ todo' = [todo EXCEPT ![n] = @ \ {l}]
    /\ UNCHANGED <<linkVars, wireVars, hidVars, requestVars, pc, targets, rest, waiting,
                   wins, winner, errors, expired, callVars, clientVars, history>>

\* The sentinel ends the wait for l; a number of another request is dropped;
\* the answer to n is a win or a failure.
MatchesAny(n, r) == TRUE              \* a plausible bug: no number check
MatchesNewer(n, r) == r.number > n    \* a plausible bug: the wrong comparison
Matches(n, r) == r.number = n

Take(n, l, r) ==
    \/ /\ r = Sentinel
       /\ waiting' = [waiting EXCEPT ![n] = @ \ {l}]
       /\ errors' = [errors EXCEPT ![n] = @ \cup {"other"}]
       /\ UNCHANGED <<wins, winner>>
    \/ /\ r # Sentinel /\ ~Matches(n, r)
       /\ UNCHANGED <<waiting, errors, wins, winner>>
    \/ /\ r # Sentinel /\ Matches(n, r)
       /\ waiting' = [waiting EXCEPT ![n] = @ \ {l}]
       /\ IF r.status = "ok"
            THEN /\ wins' = [wins EXCEPT ![n] = @ \cup {l}]
                 /\ winner' = [winner EXCEPT ![n] = IF @ = None THEN l ELSE @]
                 /\ UNCHANGED errors
            ELSE /\ errors' = [errors EXCEPT ![n] = @ \cup {r.status}]
                 /\ UNCHANGED <<wins, winner>>

PollOne(n, l) ==
    /\ pc[n] = "poll" /\ ~Decided(n) /\ l \in todo[n]
    /\ queue[l] # <<>>
    /\ queue' = [queue EXCEPT ![l] = Tail(@)]
    /\ todo' = [todo EXCEPT ![n] = @ \ {l}]
    /\ Take(n, l, Head(queue[l]))
    /\ swallowed' = IF Current(n) THEN swallowed
                                  ELSE swallowed \cup {<<l, Head(queue[l]).number>>}
    /\ UNCHANGED <<linkVars, inbox, withdrawn, hidVars, requestVars, pc, targets,
                   rest, expired, callVars, clientVars, approved, cancelled>>

\* A plausible bug: every failure leads to the next round.
StopsNever(n) == FALSE

\* should_stop of handle_cbor: a failure other than "no credentials".
Stops(n) == errors[n] \ {"nocred"} # {}

\* A plausible bug: the round ends and its prompts stay.
NobodyLeft(n) == {}

\* Whom fan_out withdraws the request from.
Unanswered(n) == waiting[n]

\* The end of fan_out: pending is cleared, the links still waited for get
\* CANCEL; then the winner is recorded, the next round starts or the first
\* error that says more than "no credentials" is the answer.
EndRound(n) ==
    /\ pc[n] = "clear"
    /\ pending' = [pending EXCEPT ![n] = {}]
    /\ SendCancel(n, Unanswered(n))
    /\ waiting' = [waiting EXCEPT ![n] = {}]
    /\ IF winner[n] = None /\ ~Stops(n) /\ rest[n] # {}
         THEN /\ targets' = [targets EXCEPT ![n] = rest[n]]
              /\ rest' = [rest EXCEPT ![n] = {}]
              /\ pc' = [pc EXCEPT ![n] = "ask"]
         ELSE /\ pc' = [pc EXCEPT ![n] = IF winner[n] = None THEN "check" ELSE "record"]
              /\ UNCHANGED <<targets, rest>>
    /\ UNCHANGED <<linkVars, inbox, queue, hidVars, channel, kind, todo, wins, winner,
                   errors, expired, callVars, clientVars, history>>

\* A plausible bug: the link is kept where its device is meant.
WinnerLink(n) == winner[n]
WinnerDevice(n) == DeviceOf[winner[n]]

\* A successful assertion sets last, a probe also holders, current or not.
Record(n) ==
    /\ pc[n] = "record"
    /\ IF kind[n] \in {"assert", "probe"}
         THEN last' = WinnerDevice(n)
         ELSE UNCHANGED last
    /\ IF kind[n] = "probe"
         THEN holders' = {DeviceOf[l] : l \in wins[n]}
         ELSE UNCHANGED holders
    /\ pc' = [pc EXCEPT ![n] = "check"]
    /\ UNCHANGED <<linkVars, wireVars, busy, nextRequest, requestVars, targets, rest,
                   waiting, todo, wins, winner, errors, expired, callVars, clientVars,
                   history>>

\* request_is_current, tested before the reply and not again.
Check(n) ==
    /\ pc[n] = "check"
    /\ pc' = [pc EXCEPT ![n] = IF Current(n) THEN "reply" ELSE "finish"]
    /\ UNCHANGED <<linkVars, wireVars, hidVars, requestVars, targets, rest, waiting,
                   todo, wins, winner, errors, expired, callVars, clientVars, history>>

\* The answer goes out on the channel; a client that waits there takes it.
Reply(n) ==
    LET c == channel[n] IN
    /\ pc[n] = "reply"
    /\ IF waits[c] # 0
         THEN /\ got' = [got EXCEPT ![waits[c]] = n]
              /\ waits' = [waits EXCEPT ![c] = 0]
         ELSE UNCHANGED clientVars
    /\ pc' = [pc EXCEPT ![n] = "finish"]
    /\ UNCHANGED <<linkVars, wireVars, hidVars, requestVars, targets, rest, waiting,
                   todo, wins, winner, errors, expired, callVars, history>>

\* A plausible bug: the request stays current after its answer.
NeverReleased(n) == busy

\* finish_request frees the daemon unless another request is current by now.
Released(n) == IF Current(n) THEN 0 ELSE busy

\* finish_request, and the worker's locals go with its thread.
Finish(n) ==
    /\ pc[n] = "finish"
    /\ busy' = Released(n)
    /\ pc' = [pc EXCEPT ![n] = "done"]
    /\ targets' = [targets EXCEPT ![n] = {}]
    /\ rest' = [rest EXCEPT ![n] = {}]
    /\ wins' = [wins EXCEPT ![n] = {}]
    /\ winner' = [winner EXCEPT ![n] = None]
    /\ errors' = [errors EXCEPT ![n] = {}]
    /\ expired' = [expired EXCEPT ![n] = FALSE]
    /\ UNCHANGED <<linkVars, wireVars, holders, last, nextRequest, requestVars,
                   waiting, todo, callVars, clientVars, history>>

\* 600 s after the plan was made.
Expire(n) ==
    /\ pc[n] \in {"ask", "publish", "head", "poll", "clear"} /\ ~expired[n]
    /\ expired' = [expired EXCEPT ![n] = TRUE]
    /\ UNCHANGED <<linkVars, wireVars, hidVars, requestVars, pc, targets, rest, waiting,
                   todo, wins, winner, errors, callVars, clientVars, history>>

Worker(n) ==
    \/ Snapshot(n) \/ Plan(n) \/ SkipRound(n) \/ Ask(n) \/ Publish(n)
    \/ LoopHead(n) \/ EndPass(n)
    \/ \E l \in Links : PollNothing(n, l) \/ PollOne(n, l)
    \/ EndRound(n) \/ Record(n) \/ Check(n) \/ Reply(n) \/ Finish(n)

-----------------------------------------------------------------------------
(* update_loop: the program file is gone and nothing is busy; then exit.   *)

UpdateCheck ==
    /\ MayReplace /\ update = "running" /\ busy = 0
    /\ update' = "leaving"
    /\ UNCHANGED <<linkVars, wireVars, hidVars, requestVars, workerVars, hidCall,
                   sweep, clientVars, history>>

\* exit(75): the threads are gone and the connections close, which ends the
\* prompts of the phones.
UpdateExit ==
    /\ update = "leaving"
    /\ update' = "exited"
    /\ link' = [l \in Links |-> "gone"]
    /\ busy' = 0 /\ hidCall' = 0 /\ sweep' = [l \in Links |-> 0]
    /\ pc' = [n \in Numbers |-> IF pc[n] = "none" THEN "none" ELSE "done"]
    /\ targets' = [n \in Numbers |-> {}]
    /\ rest' = [n \in Numbers |-> {}]
    /\ waiting' = [n \in Numbers |-> {}]
    /\ todo' = [n \in Numbers |-> {}]
    /\ wins' = [n \in Numbers |-> {}]
    /\ winner' = [n \in Numbers |-> None]
    /\ errors' = [n \in Numbers |-> {}]
    /\ expired' = [n \in Numbers |-> FALSE]
    /\ waits' = [c \in Channels |-> 0]
    /\ UNCHANGED <<before, wireVars, holders, last, nextRequest, requestVars, got,
                   history>>

LinkStep(l) ==
    \/ Connect(l) \/ Break(l) \/ Close(l) \/ Remove(l) \/ SyncUhid(l)
    \/ SweepCancel(l) \/ SweepWithdraw(l) \/ PhoneAnswer(l)

HidStep ==
    \/ \E c \in Channels, k \in Kinds : Dispatch(c, k)
    \/ \E c \in Channels : Refuse(c) \/ HidCancel(c) \/ HidInit(c)
    \/ HidClose \/ HidWithdraw

\* A step of the running daemon, of a phone or of a client.
Run ==
    \/ \E l \in Links : LinkStep(l)
    \/ HidStep
    \/ \E n \in Numbers : Worker(n) \/ Expire(n)
    \/ UpdateCheck

Next == Run \/ UpdateExit

Spec == Init /\ [][Next]_vars

\* Threads that hold work run on, and time passes.  Nothing is assumed of the
\* clients, the phones or the network.
Fairness ==
    /\ \A n \in Numbers : WF_vars(Worker(n))
    /\ \A n \in Numbers : WF_vars(Expire(n))

FairSpec == Spec /\ Fairness

-----------------------------------------------------------------------------
(* Properties.                                                             *)

TypeOK ==
    /\ link \in [Links -> LinkStates]
    /\ before \in [Links -> SUBSET Links]
    /\ inbox \in [Links -> Seq(Numbers)]
    /\ withdrawn \in [Links -> SUBSET Numbers]
    /\ queue \in [Links -> Seq(Responses)]
    /\ busy \in Numbers \cup {0}
    /\ holders \subseteq Devices
    /\ last \in Devices \cup {None}
    /\ nextRequest \in 1 .. MaxRequests + 1
    /\ channel \in [Numbers -> Channels]
    /\ kind \in [Numbers -> AllKinds]
    /\ pending \in [Numbers -> SUBSET Links]
    /\ pc \in [Numbers -> PcStates]
    /\ targets \in [Numbers -> SUBSET Links]
    /\ rest \in [Numbers -> SUBSET Links]
    /\ waiting \in [Numbers -> SUBSET Links]
    /\ todo \in [Numbers -> SUBSET Links]
    /\ wins \in [Numbers -> SUBSET Links]
    /\ winner \in [Numbers -> Links \cup {None}]
    /\ errors \in [Numbers -> SUBSET Statuses]
    /\ expired \in [Numbers -> BOOLEAN]
    /\ hidCall \in Numbers \cup {0}
    /\ sweep \in [Links -> Numbers \cup {0}]
    /\ update \in {"running", "leaving", "exited"}
    /\ waits \in [Channels -> Numbers \cup {0}]
    /\ got \in [Numbers -> Numbers \cup {0}]
    /\ approved \subseteq Links \X Numbers
    /\ cancelled \subseteq Numbers
    /\ swallowed \subseteq Links \X (Numbers \cup {0})

\* The daemon is never wedged: whatever request holds `busy` has a worker
\* that still runs and will release it (dispatch, cancel, finish_request).
BusyHasWorker == busy # 0 => pc[busy] \in Active

\* A request nobody works on leaves no prompt behind: while a phone on a live
\* connection still holds request n and was not told to withdraw it, the
\* worker of n runs and waits for that phone (fan_out, withdraw).
NoOrphanPrompt ==
    \A l \in Links, n \in Numbers :
        Asked(l, n) /\ link[l] = "up" /\ n \notin withdrawn[l] =>
            pc[n] \in {"publish", "head", "poll", "clear"} /\ l \in waiting[n]

\* Only the phone's own approval of request n makes it succeed: a late answer
\* to another request is never counted (fan_out's number check).
SuccessIsApproved ==
    \A n \in Numbers :
        /\ \A l \in wins[n] : <<l, n>> \in approved
        /\ winner[n] # None => winner[n] \in wins[n]

\* The answer of a phone the current request waits for is still to be read,
\* unless an abandoned worker took it from Link.responses, which all workers
\* share (try_recv in fan_out).
AnswerKept ==
    \A n \in Numbers, l \in Links :
        Current(n) /\ l \in waiting[n] /\ link[l] = "up" =>
            Asked(l, n) \/ Answered(l, n) \/ <<l, n>> \in swallowed

\* A connection that died is noticed by the current request that waits for it:
\* the sentinel of Link.close is in its queue, unless an abandoned worker took
\* it; then only the 600 s deadline ends the wait.
LossNoticed ==
    \A n \in Numbers, l \in Links :
        Current(n) /\ l \in waiting[n] /\ link[l] \notin {"up", "broken"} =>
            \/ \E i \in 1 .. Len(queue[l]) : queue[l][i] = Sentinel
            \/ <<l, 0>> \in swallowed

\* A phone with several connections is asked on one of them only (by_device).
OnePromptPerDevice ==
    \A n \in Numbers : \A l, m \in targets[n] \cup rest[n] \cup waiting[n] :
        DeviceOf[l] = DeviceOf[m] => l = m

\* After a phone has approved or refused, or failed otherwise, no further phone
\* is asked for the same request (should_stop, the early return on a win).
NoAskAfterDecision ==
    [][\A l \in Links, n \in Numbers :
          Asked(l, n)' /\ ~Asked(l, n) =>
              winner[n] = None /\ errors[n] \subseteq {"nocred"}]_vars

Phase(n) == CASE pc[n] = "none" -> "new"
              [] pc[n] = "finish" -> "settled"
              [] pc[n] = "done" -> "done"
              [] OTHER -> "working"

Phases == [n \in Numbers |-> Phase(n)]

Clients == INSTANCE Exchange WITH
    Requests <- Numbers,
    current  <- busy,
    phase    <- Phases

\* The daemon implements Exchange (dispatch, cancel, handle_cbor, finish_request):
\* whatever the phones do, and whoever interrupts, one request at a time keeps the
\* others out and is free again, a request is settled once, a client that waits is
\* answered, and it is its own request's answer unless an INIT came before.
KeepsExchange == Clients!Spec

\* A cancel that comes while the worker polls reaches every phone it waits for, in
\* whichever round, and not only the request's own links of the moment it was made
\* (request.pending is shared, withdraw).  Before the worker has assigned pending it
\* reaches nobody: this is not claimed for "ask" and "publish".
CancelReachesWaited ==
    [][\A n \in cancelled' \ cancelled, l \in Links :
          pc[n] \in {"head", "poll"} /\ l \in waiting[n] /\ link[l] = "up" /\ Asked(l, n) =>
              n \in withdrawn'[l]]_vars
=============================================================================
