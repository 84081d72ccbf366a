---------------------------- MODULE Credentials ----------------------------
(***************************************************************************)
(* The keys of the phone's Authenticator. A credential lives in two        *)
(* places that are written one after the other: its private key in the     *)
(* Android Keystore (vault) and its record, with the signature counter, in *)
(* the app's preferences (store). handle is a monitor, so one request is   *)
(* at work at a time; the app may be killed between any two writes.        *)
(*                                                                         *)
(* Abstracted: CBOR, attestation and the signatures themselves, how the    *)
(* user is asked (PhonePrompt), and requests that end without touching a   *)
(* key. Keys are numbered in the order they are made, the order of "t".    *)
(***************************************************************************)
EXTENDS Naturals, Sequences, FiniteSets

CONSTANTS
    Conns,     \* connections, the `owner` of a request
    Sites,     \* relying parties
    Users,     \* user ids at a site
    MaxKeys,   \* bound: keys made
    MaxCount,  \* bound: counter of a key
    None       \* no connection

ASSUME CredentialsAssumption ==
    /\ MaxKeys \in Nat /\ MaxCount \in Nat
    /\ None \notin Conns \cup Sites \cup Users

Keys     == 1 .. MaxKeys
Flags    == {"silent", "verified"}    \* UP and UV zero, or the user was asked
PcStates == {"idle", "make", "replace", "unrecord", "record", "ask", "count", "sign"}
Records  == [rp : Sites, uid : Users, rk : BOOLEAN, n : 0 .. MaxCount]

VARIABLES
    vault,         \* keys with a private key in the Keystore
    store,         \* record of each credential
    made,          \* keys generated so far
    pending, pendingOwner, pendingFlags,
    pc,            \* where the request inside handle stands
    job,           \* its parameters and locals
    victims,       \* keys it still has to delete
    used,          \* history: the last counter signed with each key
    consent,       \* history: <<c, site>> of the sign-in the user approved last
    owned,         \* history: accounts that were given a discoverable key
    broken         \* history: accounts whose replacement was cut short

keyVars     == <<vault, store, made>>
pendingVars == <<pending, pendingOwner, pendingFlags>>
history     == <<used, consent, owned, broken>>
vars == <<keyVars, pendingVars, pc, job, victims, history>>

NoJob == [conn |-> None, rp |-> None, uid |-> None, rk |-> FALSE,
          key |-> 0, flags |-> "silent", rest |-> <<>>]

Init ==
    /\ vault = {} /\ store = <<>> /\ made = 0
    /\ pending = <<>> /\ pendingOwner = None /\ pendingFlags = "silent"
    /\ pc = "idle" /\ job = NoJob /\ victims = {}
    /\ used = [k \in Keys |-> 0] /\ consent = None
    /\ owned = {} /\ broken = {}

-----------------------------------------------------------------------------
(* Entering handle.                                                        *)

\* Any request but getNextAssertion of the same connection, within 30 s,
\* ends the list. The 30 s may be over at any moment: EndAtOnce.
Forget(c) == pending' = <<>> /\ pendingOwner' = c /\ consent' = None

\* A plausible bug: whoever asks gets the rest of the list.
ContinuesAny(c) == c \in Conns

Continues(c) == c = pendingOwner

\* getInfo, malformed or unsupported requests, an excluded credential, a site
\* without a key, getNextAssertion with nothing to continue.
EndAtOnce(c) ==
    /\ pc = "idle" /\ Forget(c)
    /\ UNCHANGED <<keyVars, pendingFlags, pc, job, victims, used, owned, broken>>

EnterMake(c, rp, uid, rk) ==
    /\ pc = "idle" /\ Forget(c)
    /\ pc' = "make"
    /\ job' = [NoJob EXCEPT !.conn = c, !.rp = rp, !.uid = uid, !.rk = rk]
    /\ UNCHANGED <<keyVars, pendingFlags, victims, used, owned, broken>>

OfSite(rp) == {k \in DOMAIN store : store[k].rp = rp}

NewestFirst(S) == {s \in [1 .. Cardinality(S) -> S] : \A i, j \in DOMAIN s : i < j => s[i] > s[j]}

\* The keys served: all of the site, newest first; with an allow list one of
\* those it names and no others.
Hits(rp) == NewestFirst(OfSite(rp)) \cup {<<k>> : k \in OfSite(rp)}

\* What getAssertion leaves for getNextAssertion.
Offer(j) == pending' = j.rest /\ pendingFlags' = j.flags

\* Without up and uv the user is not asked, and the flags stay zero.
EnterGet(c, rp, hits, asks) ==
    /\ pc = "idle" /\ hits # <<>>
    /\ job' = [NoJob EXCEPT !.conn = c, !.rp = rp, !.key = Head(hits), !.rest = Tail(hits),
                            !.flags = IF asks THEN "verified" ELSE "silent"]
    /\ pendingOwner' = c /\ consent' = None
    /\ \/ asks /\ pc' = "ask" /\ pending' = <<>> /\ UNCHANGED pendingFlags
       \/ ~ asks /\ pc' = "count" /\ Offer(job')
    /\ UNCHANGED <<keyVars, victims, used, owned, broken>>

EnterNext(c) ==
    /\ pc = "idle" /\ Continues(c) /\ pending # <<>>
    /\ pendingOwner' = c /\ pending' = Tail(pending)
    /\ pc' = "count"
    /\ job' = [NoJob EXCEPT !.conn = c, !.key = Head(pending), !.flags = pendingFlags]
    /\ UNCHANGED <<keyVars, pendingFlags, victims, history>>

\* The user refuses, or the prompt ends without an answer.
Refuse ==
    /\ pc \in {"make", "ask"} /\ pc' = "idle" /\ job' = NoJob
    /\ UNCHANGED <<keyVars, pendingVars, victims, history>>

-----------------------------------------------------------------------------
(* makeCredential after the user's consent.                                *)

\* A plausible bug: site and user change places.
Swapped(j) == <<j.uid, j.rp>>

Account(j) == <<j.rp, j.uid>>

\* A plausible bug: the account is not compared.
ReplacedOfSite(j) == {k \in DOMAIN store : j.rk /\ store[k].rk /\ store[k].rp = j.rp}

\* A new discoverable key replaces the old one for the same site and account.
Replaced(j) ==
    {k \in DOMAIN store : j.rk /\ store[k].rk /\ Account(store[k]) = Account(j)}

ConsentMake ==
    /\ pc = "make" /\ pc' = "replace" /\ victims' = Replaced(job)
    /\ UNCHANGED <<keyVars, pendingVars, job, history>>

\* delete, first half: the Keystore. A failure there is ignored.
DeleteKey(k) ==
    /\ pc = "replace" /\ k \in victims
    /\ vault' \in {vault, vault \ {k}}
    /\ victims' = victims \ {k}
    /\ pc' = "unrecord" /\ job' = [job EXCEPT !.key = k]
    /\ UNCHANGED <<store, made, pendingVars, history>>

\* The records without that of k, and with one for k.
Without(k) == [i \in DOMAIN store \ {k} |-> store[i]]
With(k, record) == [i \in DOMAIN store \cup {k} |-> IF i = k THEN record ELSE store[i]]

\* delete, second half: the record.
DeleteRecord ==
    /\ pc = "unrecord" /\ pc' = "replace" /\ store' = Without(job.key)
    /\ UNCHANGED <<vault, made, pendingVars, job, victims, history>>

Generate ==
    /\ pc = "replace" /\ victims = {} /\ made < MaxKeys
    /\ made' = made + 1 /\ vault' = vault \cup {made'}
    /\ pc' = "record" /\ job' = [job EXCEPT !.key = made']
    /\ UNCHANGED <<store, pendingVars, victims, history>>

CutShort == IF job.rk THEN broken \cup {Account(job)} ELSE broken

\* KeyPairGenerator throws: the client gets ERR_OTHER.
GenerateFails ==
    /\ pc = "replace" /\ victims = {}
    /\ pc' = "idle" /\ job' = NoJob /\ broken' = CutShort
    /\ UNCHANGED <<keyVars, pendingVars, victims, used, consent, owned>>

\* The record is written and, failing or not, the attestation ends the request.
Record ==
    /\ pc = "record" /\ pc' = "idle" /\ job' = NoJob
    /\ store' = With(job.key, [rp |-> job.rp, uid |-> job.uid, rk |-> job.rk, n |-> 0])
    /\ owned' = IF job.rk THEN owned \cup {Account(job)} ELSE owned
    /\ broken' = IF job.rk THEN broken \ {Account(job)} ELSE broken
    /\ UNCHANGED <<vault, made, pendingVars, victims, used, consent>>

-----------------------------------------------------------------------------
(* getAssertion after the user's consent, and assertion.                   *)

ConsentGet ==
    /\ pc = "ask" /\ pc' = "count" /\ Offer(job)
    /\ consent' = <<job.conn, job.rp>>
    /\ UNCHANGED <<keyVars, pendingOwner, job, victims, used, owned, broken>>

\* A plausible bug: the new counter is not written.
Uncounted(k) == store

Counted(k) == [store EXCEPT ![k].n = @ + 1]

\* The counter is committed before anything is signed with it.
Count ==
    /\ pc = "count" /\ store[job.key].n < MaxCount
    /\ store' = Counted(job.key) /\ pc' = "sign"
    /\ UNCHANGED <<vault, made, pendingVars, job, victims, history>>

Sign ==
    /\ pc = "sign" /\ job.key \in vault
    /\ used' = [used EXCEPT ![job.key] = store[job.key].n]
    /\ pc' = "idle" /\ job' = NoJob
    /\ UNCHANGED <<keyVars, pendingVars, victims, consent, owned, broken>>

\* No private key, or the Keystore fails: ERR_OTHER.
SignFails ==
    /\ pc = "sign" /\ pc' = "idle" /\ job' = NoJob
    /\ UNCHANGED <<keyVars, pendingVars, victims, history>>

-----------------------------------------------------------------------------
\* The app is killed: what is in memory is gone.
Kill ==
    /\ pc' = "idle" /\ job' = NoJob /\ victims' = {}
    /\ pending' = <<>> /\ pendingOwner' = None /\ pendingFlags' = "silent"
    /\ consent' = None
    /\ broken' = IF pc \in {"replace", "unrecord", "record"} THEN CutShort ELSE broken
    /\ UNCHANGED <<keyVars, used, owned>>

Next ==
    \/ \E c \in Conns :
        \/ EndAtOnce(c) \/ EnterNext(c)
        \/ \E rp \in Sites :
            \/ \E uid \in Users, rk \in BOOLEAN : EnterMake(c, rp, uid, rk)
            \/ \E hits \in Hits(rp), asks \in BOOLEAN : EnterGet(c, rp, hits, asks)
    \/ Refuse \/ ConsentMake \/ DeleteRecord \/ Generate \/ GenerateFails \/ Record
    \/ \E k \in Keys : DeleteKey(k)
    \/ ConsentGet \/ Count \/ Sign \/ SignFails
    \/ Kill

Spec == Init /\ [][Next]_vars

-----------------------------------------------------------------------------
(* Types and properties.                                                   *)

\* The types of the stores, the pending list and the request at work.
TypeOK ==
    /\ vault \subseteq Keys /\ made \in 0 .. MaxKeys
    /\ DOMAIN store \subseteq Keys /\ \A k \in DOMAIN store : store[k] \in Records
    /\ pending \in Seq(Keys) /\ pendingOwner \in Conns \cup {None}
    /\ pendingFlags \in Flags
    /\ pc \in PcStates
    /\ job \in [conn : Conns \cup {None}, rp : Sites \cup {None}, uid : Users \cup {None},
                rk : BOOLEAN, key : Keys \cup {0}, flags : Flags, rest : Seq(Keys)]
    /\ victims \subseteq Keys
    /\ used \in [Keys -> 0 .. MaxCount] /\ consent \in (Conns \X Sites) \cup {None}
    /\ owned \subseteq Sites \X Users /\ broken \subseteq Sites \X Users

\* assertion (Authenticator.java:264-266): whatever fails and whenever the
\* app is killed, what is about to be signed carries a larger counter than
\* everything the key has signed.
CounterFresh ==
    /\ \A k \in DOMAIN store : store[k].n >= used[k]
    /\ pc = "sign" => store[job.key].n > used[job.key]

\* "A new discoverable key replaces the old one for the same site and
\* account" (Authenticator.java:141): there is never more than one, also not
\* after a kill or a failure in the middle.
OneKeyPerAccount ==
    \A j, k \in DOMAIN store :
        store[j].rk /\ store[k].rk /\ Account(store[j]) = Account(store[k]) => j = k

\* The two places of a credential agree: a record has its private key, so the
\* user is not asked to sign with a key that is gone, unless the app was
\* killed inside delete and the account has no new key since.
RecordUsable ==
    \A k \in DOMAIN store :
        k \in vault \/ Account(store[k]) \in broken \/ (pc = "unrecord" /\ k = job.key)

\* makeCredential deletes before it makes: an account that has a discoverable
\* key keeps one through every request of its own and of others, except while
\* it is being replaced and when that was cut short by a kill or by the
\* Keystore. Then the account has none.
AccountKeepsKey ==
    \A a \in owned :
        \/ \E k \in DOMAIN store : store[k].rk /\ Account(store[k]) = a /\ k \in vault
        \/ pc \in {"replace", "unrecord", "record"} /\ Account(job) = a
        \/ a \in broken

\* getNextAssertion's list holds records of one site that exist, each once.
PendingIsReal ==
    /\ \A i \in 1 .. Len(pending) : pending[i] \in DOMAIN store
    /\ \A i, j \in 1 .. Len(pending) :
        /\ store[pending[i]].rp = store[pending[j]].rp
        /\ pending[i] = pending[j] => i = j

\* The stores and the list (makeCredential, delete, handle) fit together whatever
\* fails or is killed between their writes: one key per account and no account
\* loses it but by a replacement that was cut short, every record can sign, and
\* the list that getNextAssertion continues names what is there.
StoresAgree == OneKeyPerAccount /\ RecordUsable /\ AccountKeepsKey /\ PendingIsReal

\* Flags say that the user was verified only if the last request of anyone
\* that was not a continuation is a sign-in on this site, by this connection,
\* which the user approved ("made with exactly the flags this one earned",
\* Authenticator.java:246).
ConsentCovers ==
    [][used' # used /\ job.flags = "verified" =>
           consent = <<job.conn, store[job.key].rp>>]_vars
=============================================================================
