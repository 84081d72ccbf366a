# TLA+ development of passkey

passkey lets a phone's fingerprint answer FIDO2 requests of a computer. A
daemon on the computer offers a virtual FIDO device (UHID), passes each CTAP
request to the phones connected over USB, Wi-Fi or Bluetooth, and returns the
first answer that counts; an Android service shows the prompt and signs.
This directory models the parts of it where threads, processes, connections and
two machines meet, checks them with TLC, and proves with TLAPS what matters most
of all of them but the PAM service files.

## 1. The system

| Part | State it keeps | Operations | What is hard |
|---|---|---|---|
| **Request broker** `src/src/daemon.rs` 487-795, 840-860 | `HidState` (busy, holders, last), `Request.pending`, `next_request`, one answer queue per link | `dispatch`, `cancel`, `handle_cbor`, `fan_out`, `withdraw`, `finish_request`, `update_loop` | one worker thread per request, old workers that outlive their request, CANCEL at any moment, links dying under a wait, deadlines |
| **Presence** `daemon.rs` 262-397 | `Daemon.links`, `/run/passkey/devices`, `UhidState` | `add`, `remove`, `publish`, `sync_uhid`, `create_uhid`, `destroy_uhid`, `read_uhid` | every link thread and every UHID reader looks first and acts later |
| **Link, keepalive** 145-204, 797-822, 862-872 | stream, `alive`, `pong`, queue | `send`, `close`, `ping`, `read_link` | a blocked write holds the writer lock that `close` needs |
| **CTAPHID framing** 454-559 | `HidState.partial` | `packet`, `reply` | interleaved channels, boundaries of lengths and sequence numbers |
| **Discovery loops** 874-1255 | known names, adb and BlueZ handles | `wifi_loop`, `adb_loop`, Bluetooth profile | they add links that others close |
| **Wi-Fi peers** `src/src/wifi.rs` | profiles in `/etc/passkey/wifi` | `Peer::connect`, `save`, `load`, `remove` | files changed by the command line while the daemon reads them and connects for seconds |
| **PAM helper** `src/src/pam_auth.rs` | none | `run` | two requests in a row to the broker |
| **PAM module** `src/pam/src/lib.rs` | prompt thread with its channel, one `Ask` (helper process and pipe) at a time | `authenticate` | password prompt and phone race, a thread that outlives the call |
| **Command line** `src/src/cli.rs` | key and name files, the pin `/run/passkey/use`, PAM service files with their markers | `add`, `remove`, `uninstall`; `root_store`, `root_remove`, `root_use`, `pam_add`, `pam_remove` | no lock: several files per command, failures and kills between them, two commands at once |
| **Phone prompt** `android/.../KeyService.java`, `PromptActivity.java` | prompt slot (`current`, `owner`, `ownerSeq`, `result`, `shown`), one `Conn` per computer | `serve`, `cancel`, `confirm`, `answer`, `attach`, `detach`, activity callbacks | user, computer, timeout and UI thread end the same prompt |
| **Authenticator** `Authenticator.java` | keys, counters, `pending` assertions | `handle` (monitor), `makeCredential`, `getAssertion`, `getNextAssertion` | a monitor held while the user thinks; storage in two places |
| **Phone Wi-Fi server** `WifiTransport.java`, the switch of `MainActivity.java` | listener, secret, four slots, `sockets`, one thread per connection | `start`, `listen`, `disable`, `reset` | accepting against disabling and forgetting; connections that die without a word |
| the rest of `MainActivity`, `BootReceiver`, `Cbor.java`, `main.rs`, packaging | rendering, parsing, start-up | | no protocol of their own |

How they interact: a client writes HID reports, the daemon's UHID reader
assembles and dispatches them (`packet`, `dispatch`); a worker thread writes
`REQ n` to the links; each phone's reader queues it for the worker of that
connection, which enters `Authenticator.handle` and, if the request needs the
user, `KeyService.confirm`; the answer `RESP n` reaches the daemon's link
reader, which puts it in the link's queue, where the broker's workers poll.
`CANCEL n` runs the same way beside it. Links appear and disappear under all of
this and with them the FIDO device and the devices file. The command line edits
files that others read: the daemon its Wi-Fi profiles and the pin, the PAM
helper the keys, PAM the service files.

What makes each part correct:

* broker: one request at a time and never a wedge; no answer counts for another
  request; nobody is asked after a decision, and one phone only once; no prompt
  without a worker that waits for it; a client always hears something;
* framing: no message and no reply is put together from two;
* presence: the FIDO device exists while a phone is connected and is always
  read; the file tells the truth once the threads are at rest;
* prompt: an approval counts for the prompt it was given to; a computer
  withdraws only its own requests; withdrawing works whichever side is first;
  the slot never jams;
* keys: the two stores agree, counters grow, no signature without its consent;
* PAM module: success is earned, the password keeps working, nothing stays behind;
* command line: what a command reported is so; a service file is the
  administrator's again after uninstall, and the pin goes with the command;
* Wi-Fi: nobody is served who is not paired, and a paired computer comes back.

## 2. Modules

`Broker.tla` - the request path of the daemon. A link's life, its two
FIFO directions (`inbox` towards the phone, `queue` back), `HidState`, the
shared `pending` of each request, the program counter and locals of each
worker, the two callers of `cancel` (HID thread, removing thread), and a client
per channel. One step per critical section or externally visible effect:

| code | actions |
|---|---|
| `packet`, `dispatch` | `Dispatch`, `Refuse`, `HidCancel`, `HidInit` |
| `cancel` | first block `HidCancel` / `HidInit` / `HidClose` / `SweepCancel`, second block `HidWithdraw` / `SweepWithdraw` |
| `handle_cbor` | `Snapshot`, `Plan`, `SkipRound`, `EndRound`, `Record`, `Check`, `Reply`, `Finish` |
| `fan_out` | `Ask`, `Publish`, `LoopHead`, `PollOne`, `PollNothing`, `EndPass`, `EndRound` |
| deadline | `Expire`, at any time after the plan |
| link reader, `close`, `remove`, `sync_uhid` | `PhoneAnswer`, `Close`, `Remove`, `SyncUhid`, `SweepCancel` |
| `update_loop` | `UpdateCheck`, `UpdateExit` |

`Exchange.tla` - what the daemon promises its clients, without workers, links and
phones: one current request, settled once, answered at most once, nobody waits
for ever. `Broker!KeepsExchange` is that specification under the refinement
mapping `current <- busy` and `phase` from the workers' program counters; the
clients' own variables are the same in both.

`Presence.tla` - the links list, the devices file with its temporary
file, and the UHID device with its generations. A link's thread goes through
`add` (`Discover` for the Wi-Fi and adb loops or `NewConnection` for BlueZ, then
`Look`, `Write`, `Rename`, `Sync`, `Create` or `Destroy`), reads, and goes
through `remove` (`Retain`, `Count`, then the same steps). A UHID
reader polls until it is outdated or fails, then `EndUhid` and, if the device
was its own, the same `Sync`.

`PhonePrompt.tla` - the phone. Per connection: the frames on their way,
the reader (`ReadReq`, `ReadCancel`, `EndStream`, `Shutdown`), the executor's
queue and its worker (`Start`, `EnterQuiet`, `EnterAsk`, `Raise` or
`Withdrawn`, `Show`, `Wake` or `Timeout`, `Respond`); the monitor of
`Authenticator.handle`; the static prompt slot; the one `PromptActivity`
(`Create`, `Abort`), and the user (`Approve`, `Refuse`, `Dismiss`, `Tap`,
`Reject`).

`PromptLedger.tla` - what the phone promises the computers: requests that are
asked, recalled, offered one at a time, settled once by their user, their own
computer or time, and reported. `PhonePrompt!KeepsBook` is that specification
under a mapping that computes the book from the slot, the queues, the worker's
locals and what was sent.

`PamSession.tla` - one call of the PAM module's `authenticate` with its
three kinds of actors:

| code | actions |
|---|---|
| `authenticate` before the loop | `Ignore`, `Begin` |
| the loop, one step per look at the channel, the pipe and the clock | `Receive`, `NothingTyped`, `Approved`, `Denied`, `NoAsk`, `NoAnswer`, `Again`, `TimeOut` |
| after it | `Linger` (`recv_timeout` after `end_tty_prompt`), `Return` |
| prompt thread, or the caller itself in mode=on-empty | `TypeIn`, `SendTyped` |
| `passkey pam-auth` | `Probe`, `Assert`, `Verify`, `GiveUp`; its deadline is `Expire` |

`memory` follows the line that `pam_prompt` allocates until `wipe` or until it
is dropped unseen.

`Credentials.tla` - the keys of the phone. `handle` is a monitor, so one
request is inside at a time and its steps are the writes it makes: `DeleteKey`,
`DeleteRecord`, `Generate`, `Record` of `makeCredential`, `Count` and `Sign` of
`assertion`; `EndAtOnce`, `EnterMake`, `EnterGet`, `EnterNext` enter it,
`ConsentMake`, `ConsentGet`, `Refuse` end the user's prompt, `GenerateFails` and
`SignFails` are the Keystore's errors, and `Kill` ends the process between any
two steps: `vault` (Keystore) and `store` (preferences) stay, `pending` goes.

`Framing.tla` - CTAPHID from the client's report to the client's reply, over all
channels, with several workers writing:

| code | actions |
|---|---|
| `packet`, INIT report | `FirstReport` with `Started`: refuse as busy, replace what the channel had, or go on to `Collect` |
| `packet`, continuation | `NextReport` with `Follows` (the sequence byte), `Collect`, `Complete` |
| `dispatch` | `Dispatch`: INIT gives the request up, a CBOR message becomes `busy` or is refused |
| `handle_cbor`, `reply` | `Respond`, then one `Write` per report; `SequenceOf` is the byte, modulo twice the init bit |
| `finish_request` | `Finish`, `Freed` |
| a client (external) | `Begin`, `Continue`, `Read`, `GiveUp` |

`Registry.tla` - commands as processes, one step per access to a file:

| code | actions |
|---|---|
| `add`, `root_use` | `Start`, `Pin` or `NoPin`, `Name`, `Make` or `Refused`, `Unpin` (`ClearUse`) |
| `remove`, `handles_for`, `names_for` | `ReadHandles`, `Find` |
| `root_store`, `root_remove` | `ReadKeys`, `ReadNames`, `WriteKeys`, `WriteNames`; `Stored`, `Without`, `Unnamed` are the edits |
| `uninstall` | `WipeKeys`, `WipeNames` |
| a file operation fails, a command is killed | `Fail`, `Kill` |
| `chosen_device` of the daemon | `Chosen` |

`PamFiles.tla` - the text of a service file as a sequence of kinds of lines, and what
the edits make of it: `Inserted` is the loop of `pam_add`, `Restored` the filter of
`pam_remove`; what the files may be at first; and the state of the commands with the
properties, which `PamProofs.tla` shares with PamStack.

`PamStack.tla` - the commands on these files: `AddLook`, `AddWrite`, `AddMark` are
`pam_add` for one service, `UninstallLook`, `UninstallWrite`, `Unmark` are `pam_remove`, `Wipe`
ends `uninstall`; `Edit` and `Upgrade` are the administrator and the package
manager, `Fail` stands for both failures and kills.

`Wifi.tla` - both ends of the Wi-Fi transport:

| code | actions |
|---|---|
| `WifiTransport.listen` and its threads | `Accept`, `List`, `Check`, `ReadFails`, `End` |
| `start`, `disable`, `reset`, the app killed and started | `SwitchOn`, `SwitchOff`, `Reset`, `Restart` |
| `Peer::connect` | `Connect`, then `Welcome` or `Failed`, `Closed` |
| `wifi add`, `wifi remove` | `PairConnect`, `PairEnd`, `Remove` |
| `wifi_loop`, `keepalive_loop` | `Load`, `Dial`, `DialEnd`, `RoundEnds`, `LinkEnds` |
| a computer leaves the network or loses power (external) | `Vanish` |

`BrokerProofs.tla`, `FramingProofs.tla`, `PresenceProofs.tla`, `PhoneProofs.tla`,
`CredentialProofs.tla`, `PamProofs.tla`, `RegistryProofs.tla`, `WifiProofs.tla` - the
theorems. `MCBroker.tla`, `MCPresence.tla`, `MCPhonePrompt.tla`, `MCCredentials.tla`, `MCPamStack.tla`, `MCRegistry.tla` - the instances for TLC;
`PamSession`, `Framing` and `Wifi` are checked as they stand.

### Abstractions

* CBOR is a request kind (`info`, `next`, `probe`, `assert`, `make`), an answer
  is one of four statuses (`ok`, `denied`, `nocred`, `other`): what
  `handle_cbor` branches on. KEEPALIVE reports carry no state.
* `Broker` has one HID thread. Two UHID readers can overlap for a moment after
  the device was replaced; that needs the
  composition of Broker and Presence. It also has `create_uhid`/`destroy_uhid`
  as no-ops: they are Presence's.
* `Broker` sends REQ or CANCEL to all links of a set in one step. A send to one
  phone is independent of the others; a send to a link that died unnoticed
  may succeed or fail (`Ask` chooses).
* `UpdateExit` ends the daemon's process: threads, queues and links are gone,
  and nothing of the model starts again.
* `EndRound` does `pending.clear()` and the final `withdraw` together; a
  `cancel` between the two would find nothing to withdraw, and the CANCELs
  that follow do the same work.
* The writer lock and blocked writes are left out of Broker and Presence.
* In `Presence` the temporary file is written in one step, so a reader of a
  file that two threads write at once is out of scope; `cancel`
  inside `sync_uhid` touches no state of that module.
* In `PhonePrompt` the ten minutes of a prompt may end at any moment, the
  user may do anything the screen offers, and one service runs throughout.
  The activity obeys `singleInstance`: an intent for an activity that is
  alive does not make another one. What the activity does to get its biometric
  prompt shown (unlocking first, asking again after the system cancelled it)
  is one state, "open".
* In `PamSession` the helper's two requests succeed or fail; what the daemon
  does with them is Broker's, whose clients they are. Errors of polling the
  pipe count as "no" (`GiveUp`), argument parsing and signal masks are left out.
* In `Credentials` an allow list serves one of the site's keys, the 30 s after
  which getNextAssertion has nothing to continue may be over at any moment
  (`EndAtOnce`), and keys are numbered in the order they are made, which is the
  order `getAssertion` sorts by. CBOR, attestation and the signature are left out.
* In `Framing` a report carries one piece `<<message, n>>` of a message instead of
  59 bytes, so mixing shows whatever the bytes are. A client follows CTAPHID
  and checks the sequence byte, as libfido2 does. A report is handled when it is
  written; PING, WINK, KEEPALIVE, CANCEL and malformed reports leave this state alone.
* In `Registry` and `PamStack` a file changes in one step, because `write_file`
  renames; the two reads of `names_for` are one step; argument parsing, the tests
  of the environment and the output are left out. A privileged child dies
  with the command that waits for it. The systemd unit that `add` installs
  and `uninstall` removes is not there.
* In `PamFiles` a line is one of six kinds: what `is_auth`, `is_guard` and
  `is_ours` tell apart. A package brings no line of passkey; a line of passkey that is
  in /etc at first is where some `pam_add` put it, or behind an auth line that was
  added in front of it (`PamFilesAssumption`).
* In `Wifi` TLS and the certificate pin are always right, the secret is the
  number of resets before it was made, and there is one phone at one address.
  The socket of a computer's process that ends is closed and the phone reads
  the end of the stream; only `Vanish` makes no sound.

## 3. Runs

All instances are finite because requests, failures, devices, commands and
edits are bounded; they stop when the bounds are used up or when the call is
over, so deadlock is not checked (`CHECK_DEADLOCK FALSE`). That nothing waits for
ever is what the liveness properties and the two refinements say.

| run | instance | shows |
|---|---|---|
| `broker_rounds` | a phone on USB and Wi-Fi that may be pinned, another phone; 2 requests (probe, assertion, getNextAssertion), 3 answers | `TypeOK`, `OnePromptPerDevice`, `NoAskAfterDecision` with the rounds that `holders` and `last` cause |
| `broker_cancel` | 2 phones, 1 request, CANCEL, INIT, UHID_CLOSE, 1 failure, package update | `NoOrphanPrompt`, `LossNoticed`, `CancelReachesWaited` |
| `broker_abandon` | 1 phone, 2 channels, 2 requests, INIT; fair | two workers on one queue: `BusyHasWorker`, `SuccessIsApproved`, `AnswerKept`; Broker implements Exchange (`KeepsExchange`) |
| `phone_prompts` | 2 requests of one computer or one of each of two, one of which may vanish, CANCELs, the notification's Reject; fair | `TypeOK`, `LatestCancelCounts`, `PromptHasOwner`; PhonePrompt implements PromptLedger (`KeepsBook`) |
| `presence_links` | 2 phones, 4 UHID devices, 1 failure of /dev/uhid; fair | `TypeOK`, `SeenRightly`, `DeviceStays`, `ClosedLinksLeave` |
| `pam_session` | one call in either mode, 3 helpers (the code's own limit), any line typed at any time; fair | `TypeOK`, `ResultIsEarned`, `NothingLeft`, `CallEnds` |
| `credentials_keys` | 2 computers, 2 sites with 2 users, 2 keys with counters to 2, kills and Keystore failures; symmetric | `TypeOK`, `CounterFresh`, `StoresAgree`, `ConsentCovers` |
| `framing_channels` | 2 clients, 3 messages of 1 or 3 reports, answers of 2 or 4 reports with the init bit at 2, INIT and clients that give up; fair | `TypeOK`, `MessagesKept`, `ReplyComes` |
| `registry_commands` | 3 commands of any kind, 2 users, 2 names of which one is a numeral, 1 failure or kill; symmetric | `TypeOK`, `ReportsHold`, `RemovedIsMeant`, `PinFollowsAdd` |
| `pam_stack` | 3 commands, 2 services that begin as one of 6 stacks, 1 failure or kill, 1 edit or upgrade; symmetric | `StackTypeOK`, `StackRestored`, `PasskeyFirst` |
| `wifi_pairing` | 1 computer, 3 connections, 2 slots, 1 pairing or removal, 2 uses of the switch, Forget or restarts, 1 silent death; fair | `TypeOK`, `OnlyPairedServed`, `UnpairedLeaves`, `Reconnects` |
| `wifi_slots_gone` | the code's 4 slots, 5 connections, 4 silent deaths; fair | `Reconnects` is violated, see below |

Why these bounds suffice. The hazards of the broker take at most two workers at
once (an abandoned one and a current one) and at most two phones (the one that
decided and another). A number is handed out once and links do not come back,
so a third request meets the same states as the second. The prompt's
hazards take two prompts, on one connection or on two. In Presence each link
is added and removed once; two threads are enough for every check-then-act
race, and four generations are more than two links and one failure can use up.
PamSession has no bound of its own. In Credentials replacing a key takes two
keys, a list with a rest takes two keys of one site, and a counter that fell
behind shows at its second use.

In Framing the init bit 2 stands for 128: with it three reports are the longest
message a client can write, two an answer that fits, and four one report more than
the sequence byte can count, the wrap of 7609 bytes; two clients and an abandoned
worker are the most that can write to one another's channel, and a message
that is left half-way meets one that follows and one that is refused. In
Registry three commands are what it takes for one to read twice, one to
change what it reads and one to have registered before; a position shifts or a
write is lost with two. In PamStack the third command finds what a failed one
and an interrupted one left. In Wifi three connections are one served, one
dying and one coming, for two slots; two uses of the switch are off and
on again, or Forget and a restart.

### Fairness

`Broker`: weak fairness of each worker thread and of the clock (`Expire`). A
worker of the model never blocks: its lock sections are short, and it sleeps
20 ms between passes. Nothing is assumed of clients, phones, links or the HID
thread. `PhonePrompt`: weak fairness of the reader, worker and UI threads; the
prompt's own timeout is a step of the worker. Nothing is assumed of user or
computer. `Presence`: weak fairness of every thread that was started; a link's
reader can only go on when its stream ended, which `close` causes by shutting
it down. `PamSession`: weak fairness of the caller's thread, which never blocks
in the loop, of the prompt thread once `pam_prompt` has returned (`SendTyped`),
and of the clock while a helper is at work. Nothing is assumed of user, phone or
helper. `Framing`: weak fairness of each worker and of a client's reading, not
of its writing and never of INIT. `Wifi`: weak fairness of each thread of the
phone, of `wifi_loop`, of the end of a link (a PING that is not answered within
its time closes it) and of the pairing command, whose connect and read have
timeouts; nothing is assumed of users and networks. The two refinements carry the
liveness of the abstract specifications (`Progress`, `Answers`) under the
same fairness. `Credentials`, `Registry` and `PamStack` state no liveness.

### Where the code differs from what its comments say

One run shows TLC violating a sentence of the repository:

* `wifi_slots_gone` - README.md:49 says the computer "reconnects while the
  phone's Wi-Fi listener is enabled". The phone reads a served connection
  without a timeout (`WifiTransport.java:148`) and sends nothing by itself, so a
  connection whose computer fell silent keeps its permit of four. After four
  of them every new connection is closed at once.

More are modelled, and visible in the passing properties' exceptions or in the
actions named, without a run of their own:

* a CANCEL handled before `request.pending` is assigned (`daemon.rs:744`) reaches no
  phone, and the request stays open (KeyService.java:43 says the computer ends
  it): `CancelReachesWaited` claims nothing for the workers in `ask` and `publish`;
* the reply precedes `finish_request` (`daemon.rs:689`, `691`): the assertion
  that `pam_auth.rs` sends right after its probe may be refused as busy
  (pam_auth.rs:100-101), by `Refuse` between `Reply` and `Finish`;
* `sync_uhid` (`daemon.rs:338`) destroys the device another thread has just found
  present; a connected phone has no FIDO device then (MainActivity.java:132;
  `raced` in `DeviceMatchesOrRaced`);
* an answer of more than 57 + 128 * 59 bytes wraps into sequence bytes with the init bit
  (`daemon.rs:471`); the client notices and takes nothing (`unsure` in Framing);
* when the first report of a message is refused as busy, the unfinished message
  the channel had stays, and reports that follow the refused one may complete it
  (`refused` in `MessagesIntact`);
* two commands that store or remove at once each write what they read before the
  other wrote: a registration is lost, or a removed key comes back (`raced` in
  `ReportsHold`);
* `remove` lists the handles and reads the key file again for the names: a removal in
  between shifts the positions, and another key goes (`shifted` in
  `RemovedIsMeant`);
* a service file copied to /etc whose marker was not written survives uninstall,
  and one whose vendor's file changed meanwhile too (`cut`, `replaced` in
  `StackRestored`);
* a connection accepted before Wi-Fi is switched off and listed after it is served
  while it is off (`late` in `OnlyPairedServed`);
* a `start` that fails after `reset`, or when the app begins, leaves the listener closed
  although the switch stands on (`SwitchOn` turns the switch off then, `Reset`
  and `Restart` do not);
* `request_is_current` is tested before the reply without the lock (`Check`,
  `Reply`): after INIT and a new request in between, the new request's client
  takes the old answer, against KeyService.java:37-39;
* `Conn.cancelled` keeps one number (`LatestCancelCounts` says "latest"): of two
  CANCELs that arrive before their prompts only the last counts, against
  KeyService.java:122;
* an abandoned worker still in its polling pass takes the answer or the
  sentinel meant for the current request (`swallowed` in `AnswerKept`,
  `LossNoticed`), which then waits for its 600 s deadline;
* of two `publish` at once the older picture may be the last one written
  (`stale` in `FileMatchesOrStale`);
* the notification's Reject ends a prompt but not its activity, which then
  keeps the next prompt from opening by itself (`rejected` in `LeftoverLeaves`);
* `update_loop` exits after it let go of the lock it tested `busy` under
  (`UpdateCheck`, `UpdateExit`);
* after an approval the prompt thread may be left inside `pam_prompt` with the
  PAM handle, which lib.rs:160 says is only used during the call
  (`PromptStays` excepts success);
* a line sent between the end of `recv_timeout` and the end of the receiver is
  neither received nor refused, so nobody wipes it (`lost` in `AnswerWiped`);
* `tries < 3` never bites: the prompt is answered once, so a call starts two
  helpers at most;
* a replacement cut short by a kill or by the Keystore leaves the account without
  a key, or with a record whose key is gone (`broken` in `AccountKeepsKey`,
  `RecordUsable`).

`Authenticator.java:302` speaks of 30 s inside `handle`; the prompt may
hold it for ten minutes (`PROMPT_TIMEOUT_MS`).

## 4. Proofs

### The broker

`BrokerProofs.tla` proves, for every number of links, phones, channels and
requests, from `BrokerAssumption` (the types of the constants and `None`
outside links and devices):

* `TypeCorrect` - `TypeOK`;
* `NeverWedged` - `BusyHasWorker`;
* `NoPromptLeftBehind` - `NoOrphanPrompt`;
* `OnlyApprovalsWin` - `SuccessIsApproved`;
* `OnePromptEach` - `OnePromptPerDevice`;
* `NoAnswerLost` - `AnswerKept`, and `NoLossMissed` - `LossNoticed`;
* `NoPhoneAfterDecision` - the action property `NoAskAfterDecision`;
* `CancelReachesAll` - the action property `CancelReachesWaited`;
* `ExchangeKept` - the refinement: `Spec => Clients!Safety`, all of Exchange but its
  liveness.

They follow from one inductive invariant `IndInv`. What had to be added to the
properties, and why:

* `Fresh`: numbers not handed out have no worker, no prompt, no answer and are
  nobody's `busy`. Without it a dispatch could meet leftovers.
* `QueueApproved`: a success in a link's queue is one the phone gave; `Take`
  needs it to keep `SuccessIsApproved`.
* `RecordHasWinner`: a worker in `record` has a winner, so `WinnerDevice` is
  defined and `last` keeps its type.
* `PromptInv`: a phone asked for n has the worker of n waiting for it, was told
  to withdraw, or has lost its connection; together with what `pc` may be then.
* `BeforeTotal`: of two links in the list one was pushed before the other, so
  `ByDevice` leaves one link per phone.
* `NothingAskedYet`: targets of rounds to come hold no prompt yet; the round's
  links are disjoint, which `OnePromptPerDevice` needs across rounds.

`NoPhoneAfterDecision` uses `AskUndecided` as well: in `ask` no winner is known
and all failures so far are "no credentials".

`NoAnswerLost` and `NoLossMissed` come from `InTouch`: a request becomes current only
when it is new and waits for nobody, so whoever else takes from a link it waits for
is current no more and leaves its mark in `swallowed`. `CancelReachesAll` rests on
`PendingCovers`: from `Publish` to the end of the round the shared `pending` has every
link the worker waits for.

`ExchangeKept` needs one more fact, `OwnWait`: on the channel of the current request a
client waits for that request or for nothing. A client can ask again on its channel
only after an INIT, and the same INIT frees the daemon. Only `Dispatch`, `HidInit`,
`HidClose`, `Check`, `Reply`, `Finish` and `UpdateExit` are seen by the clients; the
lemma `WorkerUnseen` covers the rest of the worker.

The proofs have one lemma per group of actions; the last step of each theorem is PTL.

### The links

`PresenceProofs.tla` proves `TypeCorrect` (`TypeOK`), `SeenRight` (`SeenRightly`) and
`OnlyOwnReader` (`DeviceStays`) for every number of links, phones, loops and UHID
devices, from `PresenceAssumption` (finitely many links, none of them a device
number, and `None` is no set of phones). "At rest the file and the device are right" says
nothing while threads move, so the invariant says who will put them right:

* `FileComing`: the file names the connected phones, or its last write was stale, or
  some thread is bound for `publish`. A thread is `Bound` when it stands before its
  look, when it is in `remove` and will find the list changed, or when its link is
  closed and it still has to notice;
* `SyncComing`: the same for the device, where a thread may also stand between
  `publish` and the end of `sync_uhid`;
* `Places`: what `Bound` rests on: where a link's thread can stand in `add` and in
  `remove`, and that a link is in the list up to `retain` and closed from then on;
* `Readers`: the current device has a reader that polls or ends, numbers not yet given
  have none, and a current device's reader ends only by failing.

The step that decides is `Retain`: its own link leaves the list after it counted, so
it finds the list changed and publishes, even if the others that were bound do not.

### The phone's prompt

`PhoneProofs.tla` proves `TypeCorrect` (`TypeOK`), `WantedOnly` (`LatestCancelCounts`)
and `OwnedPrompt` (`PromptHasOwner`) for every number of connections and requests, from
`PhonePromptAssumption` (finitely many connections, which only the count of prompts
needs; the start-up load is a number of requests for each; `None` is neither a
connection, a request nor an activity). The invariant:

* `Inside`: the monitor's holder is the one worker between `confirm` and `wait`, so
  `Raise` finds the slot empty;
* `Raised`: prompts are numbered as they are raised, and owner and number of the slot
  are those of its prompt;
* `Wanted`: what `TooLate` and `cancel` establish between them, whichever is first;
* `ViewFits`: while a prompt is on offer, `shown` is set just when the open activity is
  its own. `cancel` and the timeout tell the activity only when `shown` is set, so
  without this an activity could be left open and untold.

The second part of the module proves the refinement `KeepsTheBook`: `Spec => Book!Safety`, that is,
the initial states are the book's and every step of computers, reader, worker, user and
screen is one of `PromptLedger` or leaves it alone, for every number of connections and
requests. `KeepsBook` adds the book's `Answers`, which stays with TLC. The mapping
reads the book from the history of prompts, so the proof has to know of the past what
the code forgets; `BookInv` adds to the invariant above

* `Records`: the types the mapping rests on;
* `InLine`: requests come through wire and executor in the order they were sent, each
  once. A request offered twice would have two verdicts;
* `InHand`: what a worker has in hand has met nothing yet before its prompt, is its own
  prompt's in `show` and `wait`, and is decided in `respond`;
* `OwnWish`: a withdrawal in the flags or on the wire is the computer's own, or its
  connection is lost; `Withdraw` of the book asks for just that;
* `Prompts`: one prompt to a number and to a request, and only a worker at its prompt
  has one that is not over. While it is on offer `result` is "timeout", which is what
  the worker finds if nobody answers.

`PlainTerms` then gives the book's `offer` and verdicts in closed form: a verdict is
what the worker returned, or `result` while the prompt has left the slot and the worker
has not woken. `Maps` is proved for each group of actions; a step that settles is
`SettledOffer` when it takes the slot's prompt and `SettledUnasked` when no prompt was
raised.

`TypeOK` comes last because it counts: there are at most as many prompts as requests.
`FewPrompts` maps prompt i to the connection and the number it was raised for; that is
an injection by `Prompts` of the book, so the prompts are no more than
`Conns \X Numbers` has members.

### The keys

`CredentialProofs.tla` proves `TypeCorrect` (`TypeOK`), `CountersGrow` (`CounterFresh`),
`StoresInStep` (`StoresAgree`) and `NoFlagUnasked` (`ConsentCovers`) for every number
of computers, sites, users, keys and kills, from `CredentialsAssumption`. The
invariant:

* `Numbered`: keys not made yet have no record and have signed nothing, nor has the
  one between the Keystore and its record. A counter could start twice otherwise;
* `VictimsGo`: from the look for keys of the same account to the new record, the keys
  of that account are just those about to be deleted. `OneKeyPerAccount` follows
  when the record is written, `AccountKeepsKey` at every kill in between;
* `Usable`, `Kept`: those two with the steps in between told apart;
* `Served`, `ListOf`: what `getAssertion` is about to sign with, and what it leaves for
  `getNextAssertion`, are keys of the site asked for, each once;
* `Consented`: verified flags are those of the last consent, for the assertion at hand
  and for what is left to continue.

### The PAM module

`PamProofs.tla` proves `TypeCorrect` (`TypeOK`), `OnlyEarned` (`ResultIsEarned`) and
`NothingStays` (`NothingLeft`) for any number of helpers a call may start, from
`PamSessionAssumption` (at least one). The invariant adds to the types

* `OneAlive`: helpers are started in turn, and only the one that is asked is
  alive. This makes `Killed(ask)` in `Return` enough;
* `AskInPlace`: on the way out a helper is still asked only after a line that ends
  the call whatever the phone says;
* `PromptInTurn`: the line is open, typed, sent, received in that order, and its
  memory is held from the second to the fourth. `AnswerWiped` needs that a line
  the caller received or found nobody to receive was wiped;
* `DecidedLast`: the loop itself never has a result; what `PromptStays` claims
  of `returned` is decided when the loop is left;
* `ApprovalSeen`: a helper that wrote "y" is being polled, was taken, was late, or came
  second to a line. It is `ApprovalCounts` for every program counter.

### The service files

The second part of `PamProofs.tla` proves `StackTypeCorrect` (`StackTypeOK`), `FilesRestored`
(`StackRestored`) and `LineFirst` (`PasskeyFirst`) of PamStack, which it instantiates as
`Stack`, for any number of services, commands, failures and edits and for files of any
length, from `PamFilesAssumption`.

First the edits. `Among`, the filter behind `Restored` and `DropOld`, is a recursive
function; that it exists (`FilterExists`) and goes through a file line by line
(`AmongGrows`) gives the laws used from then on: what it keeps (`AmongHas`), when it
changes nothing (`AmongAll`), filters after filters and of two parts (`AmongTwice`,
`AmongConcat`). Each is proved for every file by `LineByLine`, induction as the least
counterexample of the well-founded order. From them `InsertedText`: `pam_add` turns a
file whose lines of passkey are in their places (`Placed`) into one that has the wanted
line once and in front, and `pam_remove` makes of both the same text. An old line that
is replaced where it stands needs `Placed`: every guard behind it comes after an auth
line.

Then the commands. `StackRestored` excepts services that two commands or an editor worked
on at once, whose vendor's file changed under a file in /etc, or whose copy never got its
marker (`Excused`). For the others the invariant says

* `OneByOne`: between its look and its last write a command is alone at a service;
* `Ready`: so what it is about to write is still what it would compute from the files now;
* `Known`: a file is the administrator's own but for passkey's lines, or the vendor's but
  for them, with a marker or the command that is about to write one, and the
  administrator has none. If he has one and there is a marker, he edited the copy, and
  his is longer than the vendor's (an edit appends a line): this is why `pam_remove`, which compares texts,
  never deletes it;
* `LinesPlaced`, for all services: files and texts about to be written are `Placed`. It is
  what `PasskeyFirst` needs, and no race disturbs it.

A step of a command touches one service; `StepKeeps` does the others and the other commands
once for all of them. `Wipe`, `Edit` and `Upgrade` have lemmas of their own.

### The registrations

`RegistryProofs.tla` proves `TypeCorrect` (`TypeOK`), `PinFollows` (`PinFollowsAdd`),
`ReportsKept` (`ReportsHold`) and `RemovesTheMeant` (`RemovedIsMeant`) for every set of
commands, users and names and any number of faults, from `RegistryAssumption` (finitely
many commands; `None` is no command, name or key file).

The pin is one file for all commands, so the invariant says for each who wrote it
last: only an `add` that is past `Pin` can be in it (`AddsOnly`), it has the pin to
clear (`PinnedClears`), what is in the file was pinned by its owner (`UseIsPinned`), and
an owner without rivals is still in it (`StillMine`). Steps that do not touch the pin
are done once, in the lemma `Moves`.

`ReportsHold` and `RemovedIsMeant` except the runs in which two commands rewrote the
files at once. Until then (`Alone`)

* `OneAtATime`, `ReadIsNow`: one command stands between its first access and its last,
  and what it read is what the files hold, so its write changes just one line;
* `NotYetAnywhere`: the key of an `add` that has not written the key file is in no
  file, in no command's list and not among the removed. Otherwise a key could be
  reported removed and stored later;
* `OwnKeys`: a key stays with its user, so that taking it out of one line is enough;
* `Halfway`, `Named`: between the two files a new key is in the first without its name,
  a removed one is out of it with its name still there;
* `SeenStillThere`: the list that `remove` read is still a beginning of the line, unless
  a removal has shifted it: registrations append.

What the edits do to a line is proved for lines of any length. `Dropped`, the filter
over the credentials of a line, is a recursive function; that it exists for every
line (`DropsExists`) and keeps all handles but one is proved by induction on the number
of handles, as the least counterexample of the well-founded order (`LeastNumber`).

### Wi-Fi

`WifiProofs.tla` proves `TypeCorrect` (`TypeOK`) and `NobodyElseServed`
(`OnlyPairedServed`) for every number of computers, connections, slots and resets. `disable` closes what is in `sockets`;
the property follows from three facts: a thread past `List` is in `sockets`
(`ThreadsListed`), an open socket was accepted by a listener that is open or is
marked `late` (`OpenOrLate`), and who is served has shown the secret of now
(`ServedProved`), because `reset` closes all listed connections together with
changing it. None of these is inductive alone: without `ThreadsListed` a reset could leave
a served connection with the old secret.

`TypeOK` says that permits neither get lost nor multiply. Its proof counts: free permits
and connections in a thread's hands (`Holding`) are always `Slots` together (`Permits`),
which every step keeps by moving one connection into or out of `Holding`
(`PermitTaken`, `PermitReleased`) or none.

### Framing

`FramingProofs.tla` proves `TypeCorrect` (`TypeOK`) and `KeptWhole` (`MessagesKept`) for
every number of channels and messages, any lengths and any init bit, from
`FramingAssumption` (a message has at most one report more than the init bit counts,
which is what `packet` lets through; an answer has at least one; `None` is no message in
progress). The invariant:

* `Grown`, `Kept`: what a channel has is the first pieces of its message in order, and
  the sequence byte counts them. This alone bounds the byte: a message that is not complete
  has fewer reports than the init bit, so `TypeOK` needs no check in the code. A
  message with a foreign piece has one of a message that was refused, and the client
  that continues it is writing the refused one;
* `Assembling`: no two channels keep the same message, and one that is kept has no
  worker yet; so a dispatch never meets a worker of its own number;
* `Working`: a worker writes only while its request is current, or after an INIT gave
  it up (`abandoned`);
* `Renewed`: while a client waits for the answer to its INIT, nothing else of its channel
  is under way, the answer is the last report on its way, and no report before it answers
  this INIT, as the nonce tells. This is why an INIT puts a client that lost track
  back in step;
* `Standing`: how device, worker and reports fit a client that has not lost track, in one
  of five stages: at rest, writing, about to get an error, before its worker, or in its
  answer (`Gets`: what was read, what is on its way and what the worker has written are
  reports 1 .. k of one answer, each once).

A step touches one channel. What the others see is `Apart`, and `ApartStays` keeps
`Renewed` and `Standing` for all of them; the channel itself has one lemma for each
action (`StandingBegin`, `StandingContinue`, `StandingRead`, `StandingWorker`).
A reply is taken whole because a client in step reads reports k + 1 of `Gets`
(`GetsNext`), and one that is not in step takes nothing before its next INIT.

### What is not proved

Only model-checked:

* liveness, with it what `KeepsExchange` and `KeepsBook` say beyond their safety parts
  (`Progress`, `Answers`), and `ClosedLinksLeave`, `CallEnds`, `ReplyComes`,
  `UnpairedLeaves`, `Reconnects`: fairness and ENABLED are beyond the proof system.

Every invariant and action property of the runs is a theorem.

## 5. What is left

In order of importance:

1. Broker and Presence composed, with two UHID readers at once (`daemon.rs:429`),
   and Broker and Credentials, where two channels are in the middle of two lists
   (`daemon.rs:653`);
2. the writer lock of `Link` with blocked writes, PONG and close
   (`daemon.rs:180`): it needs a model of the kernel's buffers;
3. a restart of the phone's service in one process (`KeyService.java:70`).

## 6. Not modelled

* CBOR: `decode_at` and `silent` of the daemon, `Cbor.java`. Pure parsers of
  unbounded data; the models take their verdict.
* The adb subprocess and BlueZ's D-Bus: how links are found. What is done to the
  links then is in Presence and Wifi.
* TLS, certificates, the secret's digits, signatures, attestation.
* `list` and `status`, which only read; the systemd unit and drop-in; packaging;
  argument parsing and all output.
* Rendering of `MainActivity`, `BootReceiver`.
