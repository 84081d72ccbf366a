-------------------------- MODULE CredentialProofs --------------------------
(***************************************************************************)
(* Counters, consent and the two stores of the phone's keys, for any       *)
(* number of computers, sites, users and keys, and kills at any moment.    *)
(***************************************************************************)
EXTENDS Credentials, TLAPS, FiniteSetTheorems, SequenceTheorems

\* Where makeCredential stands, from its prompt on.
Making == {"make", "replace", "unrecord", "record"}

\* The parameters that the places of pc go by.
JobFits ==
    /\ pc # "idle" => job.conn \in Conns
    /\ pc \in Making => job.rp \in Sites /\ job.uid \in Users /\ pending = <<>>
    /\ pc = "ask" => job.rp \in Sites /\ pendingOwner = job.conn /\ job.flags = "verified"

\* Keys are numbered as they are made, and a new one has signed nothing.
Numbered ==
    /\ \A k \in Keys : k > made => k \notin DOMAIN store /\ used[k] = 0
    /\ pc = "record" =>
         /\ job.key \in Keys /\ job.key \in vault /\ job.key \notin DOMAIN store
         /\ used[job.key] = 0 /\ job.key <= made

\* A list of keys as getAssertion makes it: of one site, there, each once.
ListOf(s, rp) ==
    /\ \A i \in 1 .. Len(s) : s[i] \in DOMAIN store /\ store[s[i]].rp = rp
    /\ \A i, j \in 1 .. Len(s) : s[i] = s[j] => i = j

\* What getAssertion and getNextAssertion are about to sign with, and to leave.
Served ==
    /\ pc \in {"ask", "count", "sign"} => job.key \in DOMAIN store
    /\ pc = "ask" => store[job.key].rp = job.rp /\ ListOf(job.rest, job.rp)

\* A verified flag is that of the consent, now and for what is left to continue.
Consented ==
    /\ pc \in {"count", "sign"} /\ job.flags = "verified" =>
         consent = <<job.conn, store[job.key].rp>>
    /\ pendingFlags = "verified" =>
         \A i \in 1 .. Len(pending) : consent = <<pendingOwner, store[pending[i]].rp>>

\* The account of the key in the making has no other: those it has are about to go.
Rival(k) == job.rk /\ store[k].rk /\ Account(store[k]) = Account(job)

VictimsGo ==
    /\ pc \in {"replace", "unrecord"} =>
         /\ victims \subseteq DOMAIN store
         /\ \A k \in DOMAIN store :
              k \in victims \/ (pc = "unrecord" /\ k = job.key) <=> Rival(k)
    /\ pc = "unrecord" => job.key \in DOMAIN store /\ job.key \notin victims
    /\ pc = "record" => \A k \in DOMAIN store : ~Rival(k)

\* A private key is missing only where a replacement took it.
Usable ==
    \A k \in DOMAIN store :
        \/ k \in vault
        \/ store[k].rk /\ Account(store[k]) \in broken
        \/ pc = "unrecord" /\ k = job.key

HasKey(a) == \E k \in DOMAIN store : store[k].rk /\ Account(store[k]) = a /\ k \in vault

Kept ==
    \A a \in owned :
        \/ HasKey(a)
        \/ pc \in {"replace", "unrecord", "record"} /\ job.rk /\ Account(job) = a
        \/ a \in broken

IndInv ==
    /\ TypeOK /\ JobFits /\ Numbered
    /\ Served /\ PendingIsReal /\ Consented
    /\ CounterFresh
    /\ VictimsGo /\ OneKeyPerAccount /\ Usable /\ Kept

-----------------------------------------------------------------------------

\* The app starts with nothing.
LEMMA InitHolds == Init => IndInv
<1>. SUFFICES ASSUME Init
              PROVE  IndInv
  OBVIOUS
<1>. USE DEF Init
<1>1. DOMAIN store = {} /\ Len(pending) = 0
  OBVIOUS
<1>2. TypeOK
  <2>1. made \in 0 .. MaxKeys /\ used \in [Keys -> 0 .. MaxCount]
    BY CredentialsAssumption
  <2>2. job \in [conn : Conns \cup {None}, rp : Sites \cup {None}, uid : Users \cup {None},
                 rk : BOOLEAN, key : Keys \cup {0}, flags : Flags, rest : Seq(Keys)]
    BY DEF NoJob, Flags
  <2>. QED
    BY <1>1, <2>1, <2>2 DEF TypeOK, Flags, PcStates
<1>3. JobFits /\ Numbered /\ Served /\ PendingIsReal /\ Consented
  BY <1>1 DEF JobFits, Numbered, Served, PendingIsReal, Consented, Making
<1>4. CounterFresh /\ VictimsGo /\ OneKeyPerAccount /\ Usable /\ Kept
  BY <1>1 DEF CounterFresh, VictimsGo, OneKeyPerAccount, Usable, Kept
<1>. QED
  BY <1>2, <1>3, <1>4 DEF IndInv

\* The keys that getAssertion serves: a list of the site's, not empty.
LEMMA HitsServed ==
    ASSUME IndInv, NEW rp \in Sites, NEW hits \in Hits(rp), hits # <<>>
    PROVE  /\ hits \in Seq(Keys) /\ Head(hits) = hits[1]
           /\ Tail(hits) \in Seq(Keys) /\ Head(hits) \in Keys
           /\ Head(hits) \in DOMAIN store /\ store[Head(hits)].rp = rp
           /\ ListOf(Tail(hits), rp)
<1>1. OfSite(rp) \subseteq Keys /\ IsFiniteSet(OfSite(rp))
  <2>1. OfSite(rp) \subseteq 1 .. MaxKeys
    BY DEF IndInv, TypeOK, OfSite, Keys
  <2>2. IsFiniteSet(1 .. MaxKeys)
    BY CredentialsAssumption, FS_Interval
  <2>. QED
    BY <2>1, <2>2, FS_Subset DEF Keys
<1>2. /\ hits \in Seq(OfSite(rp))
      /\ \A i, j \in 1 .. Len(hits) : hits[i] = hits[j] => i = j
  <2>1. CASE hits \in NewestFirst(OfSite(rp))
    <3>1. Cardinality(OfSite(rp)) \in Nat
      BY <1>1, FS_CardinalityType
    <3>2. hits \in [1 .. Cardinality(OfSite(rp)) -> OfSite(rp)]
      BY <2>1 DEF NewestFirst
    <3>3. hits \in Seq(OfSite(rp)) /\ Len(hits) = Cardinality(OfSite(rp))
      BY <3>1, <3>2
    <3>4. \A i, j \in 1 .. Len(hits) : i < j => hits[i] > hits[j]
      BY <2>1, <3>2, <3>3 DEF NewestFirst
    <3>5. \A i \in 1 .. Len(hits) : hits[i] \in Nat
      BY <1>1, <3>2, <3>3 DEF Keys
    <3>. QED
      BY <3>1, <3>3, <3>4, <3>5
  <2>2. CASE \E k \in OfSite(rp) : hits = <<k>>
    BY <2>2
  <2>. QED
    BY <2>1, <2>2 DEF Hits
<1>3. hits \in Seq(Keys)
  BY <1>1, <1>2, SeqMonotonic
<1>4. /\ Len(hits) \in Nat /\ Len(hits) > 0
      /\ Tail(hits) \in Seq(Keys) /\ Len(Tail(hits)) = Len(hits) - 1
      /\ \A i \in 1 .. Len(Tail(hits)) : Tail(hits)[i] = hits[i + 1]
      /\ Head(hits) = hits[1]
  BY <1>3, HeadTailProperties, EmptySeq
<1>5. \A i \in 1 .. Len(hits) : hits[i] \in OfSite(rp)
  BY <1>2, ElementOfSeq
<1>6. ListOf(Tail(hits), rp)
  BY <1>2, <1>4, <1>5 DEF ListOf, OfSite
<1>. QED
  BY <1>1, <1>3, <1>4, <1>5, <1>6 DEF OfSite

-----------------------------------------------------------------------------
(* Steps that leave keys and history alone.                                *)

\* What they keep without a look at what they do, outside of makeCredential.
LEMMA StoresStay ==
    ASSUME IndInv, UNCHANGED <<keyVars, used, owned, broken>>,
           pc \in {"idle", "make", "ask", "count", "sign"},
           pc' \in {"idle", "make", "ask", "count"}
    PROVE  /\ Numbered' /\ CounterFresh' /\ VictimsGo' /\ OneKeyPerAccount' /\ Usable' /\ Kept'
<1>1. Numbered' /\ CounterFresh'
  BY DEF IndInv, keyVars, Numbered, CounterFresh
<1>2. VictimsGo' /\ OneKeyPerAccount'
  BY DEF IndInv, keyVars, VictimsGo, OneKeyPerAccount, Account
<1>3. Usable' /\ Kept'
  BY DEF IndInv, keyVars, Usable, Kept, HasKey, Account
<1>. QED
  BY <1>1, <1>2, <1>3

\* handle begins: a request that is no continuation ends the list.
LEMMA EnterKeeps ==
    ASSUME IndInv, NEW c \in Conns,
           \/ EndAtOnce(c)
           \/ \E rp \in Sites, uid \in Users, rk \in BOOLEAN : EnterMake(c, rp, uid, rk)
    PROVE  IndInv'
<1>. USE DEF IndInv
<1>1. pending' = <<>> /\ pendingOwner' = c /\ consent' = None /\ pendingFlags' = pendingFlags
  BY DEF EndAtOnce, EnterMake, Forget
<1>2. UNCHANGED <<keyVars, used, owned, broken, victims>> /\ pc = "idle" /\ pc' \in {"idle", "make"}
  BY DEF EndAtOnce, EnterMake
<1>3. Numbered' /\ CounterFresh' /\ VictimsGo' /\ OneKeyPerAccount' /\ Usable' /\ Kept'
  BY <1>2, StoresStay
<1>4. Len(pending') = 0
  BY <1>1
<1>5. Served' /\ PendingIsReal' /\ Consented'
  BY <1>2, <1>4 DEF Served, PendingIsReal, Consented
<1>6. TypeOK' /\ JobFits'
  <2>1. CASE EndAtOnce(c)
    BY <1>1, <1>2, <2>1 DEF EndAtOnce, TypeOK, JobFits, keyVars, Making
  <2>2. ASSUME NEW rp \in Sites, NEW uid \in Users, NEW rk \in BOOLEAN, EnterMake(c, rp, uid, rk)
        PROVE  TypeOK' /\ JobFits'
    <3>1. job' = [conn |-> c, rp |-> rp, uid |-> uid, rk |-> rk, key |-> 0,
                  flags |-> "silent", rest |-> <<>>]
      BY <2>2 DEF EnterMake, NoJob
    <3>2. job' \in [conn : Conns \cup {None}, rp : Sites \cup {None}, uid : Users \cup {None},
                    rk : BOOLEAN, key : Keys \cup {0}, flags : Flags, rest : Seq(Keys)]
      BY <3>1 DEF Flags
    <3>3. pc' = "make"
      BY <2>2 DEF EnterMake
    <3>. QED
      BY <1>1, <1>2, <3>1, <3>2, <3>3 DEF TypeOK, JobFits, keyVars, PcStates
  <2>. QED
    BY <2>1, <2>2
<1>. QED
  BY <1>3, <1>5, <1>6

\* getAssertion: the user is asked, or the list is left for the next request.
LEMMA GetKeeps ==
    ASSUME IndInv, NEW c \in Conns, NEW rp \in Sites, NEW hits \in Hits(rp),
           NEW asks \in BOOLEAN, EnterGet(c, rp, hits, asks)
    PROVE  IndInv'
<1>. USE DEF IndInv
<1>. DEFINE flags == IF asks THEN "verified" ELSE "silent"
<1>1. /\ hits # <<>> /\ pc = "idle" /\ pc' = (IF asks THEN "ask" ELSE "count")
      /\ pendingOwner' = c /\ consent' = None
      /\ UNCHANGED <<keyVars, used, owned, broken, victims>>
  BY DEF EnterGet
<1>2. job' = [conn |-> c, rp |-> rp, uid |-> None, rk |-> FALSE, key |-> Head(hits),
              flags |-> flags, rest |-> Tail(hits)]
  BY DEF EnterGet, NoJob
<1>3. IF asks THEN pending' = <<>> /\ pendingFlags' = pendingFlags
              ELSE pending' = Tail(hits) /\ pendingFlags' = "silent"
  BY <1>2 DEF EnterGet, Offer
<1>4. /\ Head(hits) \in Keys /\ Tail(hits) \in Seq(Keys)
      /\ Head(hits) \in DOMAIN store /\ store[Head(hits)].rp = rp
      /\ ListOf(Tail(hits), rp)
  BY <1>1, HitsServed
<1>5. Numbered' /\ CounterFresh' /\ VictimsGo' /\ OneKeyPerAccount' /\ Usable' /\ Kept'
  BY <1>1, StoresStay
<1>6. TypeOK'
  <2>1. job' \in [conn : Conns \cup {None}, rp : Sites \cup {None}, uid : Users \cup {None},
                  rk : BOOLEAN, key : Keys \cup {0}, flags : Flags, rest : Seq(Keys)]
    BY <1>2, <1>4 DEF Flags
  <2>2. pending' \in Seq(Keys) /\ pendingFlags' \in Flags
    <3>1. CASE asks
      BY <1>3, <3>1 DEF TypeOK
    <3>2. CASE ~asks
      BY <1>3, <1>4, <3>2 DEF Flags
    <3>. QED
      BY <3>1, <3>2
  <2>. QED
    BY <1>1, <2>1, <2>2 DEF TypeOK, keyVars, PcStates
<1>7. JobFits' /\ Served'
  <2>1. job'.conn = c /\ job'.rp = rp /\ job'.key = Head(hits) /\ job'.rest = Tail(hits)
    BY <1>2
  <2>2. asks => job'.flags = "verified"
    BY <1>2
  <2>3. JobFits'
    BY <1>1, <2>1, <2>2 DEF JobFits, Making
  <2>4. Served'
    BY <1>1, <1>4, <2>1 DEF Served, ListOf, keyVars
  <2>. QED
    BY <2>3, <2>4
<1>8. PendingIsReal' /\ Consented'
  <2>1. store' = store
    BY <1>1 DEF keyVars
  <2>2. CASE asks
    <3>1. Len(pending') = 0
      BY <1>3, <2>2
    <3>. QED
      BY <1>1, <2>2, <3>1 DEF PendingIsReal, Consented
  <2>3. CASE ~asks
    BY <1>2, <1>3, <1>4, <2>1, <2>3 DEF PendingIsReal, Consented, ListOf
  <2>. QED
    BY <2>2, <2>3
<1>. QED
  BY <1>5, <1>6, <1>7, <1>8

\* getNextAssertion takes the first of the list, with the flags of its consent.
LEMMA NextKeeps ==
    ASSUME IndInv, NEW c \in Conns, EnterNext(c)
    PROVE  IndInv'
<1>. USE DEF IndInv
<1>1. /\ pc = "idle" /\ pc' = "count" /\ c = pendingOwner /\ pendingOwner' = c
      /\ pending # <<>> /\ pending' = Tail(pending)
      /\ UNCHANGED <<keyVars, pendingFlags, victims, used, consent, owned, broken>>
  BY DEF EnterNext, Continues, history
<1>2. job' = [conn |-> c, rp |-> None, uid |-> None, rk |-> FALSE, key |-> Head(pending),
              flags |-> pendingFlags, rest |-> <<>>]
  BY DEF EnterNext, NoJob
<1>3. /\ Len(pending) \in Nat /\ Len(pending) > 0 /\ Head(pending) = pending[1]
      /\ Head(pending) \in Keys
      /\ Tail(pending) \in Seq(Keys) /\ Len(Tail(pending)) = Len(pending) - 1
      /\ \A i \in 1 .. Len(Tail(pending)) : Tail(pending)[i] = pending[i + 1]
  BY <1>1, HeadTailProperties, EmptySeq DEF TypeOK
<1>4. Numbered' /\ CounterFresh' /\ VictimsGo' /\ OneKeyPerAccount' /\ Usable' /\ Kept'
  BY <1>1, StoresStay
<1>5. TypeOK'
  <2>1. job' \in [conn : Conns \cup {None}, rp : Sites \cup {None}, uid : Users \cup {None},
                  rk : BOOLEAN, key : Keys \cup {0}, flags : Flags, rest : Seq(Keys)]
    BY <1>2, <1>3 DEF TypeOK
  <2>. QED
    BY <1>1, <1>3, <2>1 DEF TypeOK, keyVars, PcStates
<1>6. JobFits' /\ Served'
  BY <1>1, <1>2, <1>3 DEF JobFits, Served, Making, PendingIsReal, keyVars
<1>7. PendingIsReal'
  BY <1>1, <1>3 DEF PendingIsReal, keyVars
<1>8. Consented'
  BY <1>1, <1>2, <1>3 DEF Consented, keyVars
<1>. QED
  BY <1>4, <1>5, <1>6, <1>7, <1>8

\* A request ends without a signature.
LEMMA EndKeeps ==
    ASSUME IndInv, Refuse \/ SignFails
    PROVE  IndInv'
<1>. USE DEF IndInv
<1>1. /\ pc \in {"make", "ask", "sign"} /\ pc' = "idle" /\ job' = NoJob
      /\ UNCHANGED <<keyVars, pending, pendingOwner, pendingFlags, victims,
                     used, consent, owned, broken>>
  BY DEF Refuse, SignFails, history, pendingVars
<1>2. Numbered' /\ CounterFresh' /\ VictimsGo' /\ OneKeyPerAccount' /\ Usable' /\ Kept'
  BY <1>1, StoresStay
<1>3. TypeOK'
  <2>1. NoJob \in [conn : Conns \cup {None}, rp : Sites \cup {None}, uid : Users \cup {None},
                   rk : BOOLEAN, key : Keys \cup {0}, flags : Flags, rest : Seq(Keys)]
    BY DEF NoJob, Flags
  <2>. QED
    BY <1>1, <2>1 DEF TypeOK, keyVars, PcStates
<1>4. JobFits' /\ Served' /\ PendingIsReal' /\ Consented'
  BY <1>1 DEF JobFits, Served, PendingIsReal, Consented, Making, keyVars
<1>. QED
  BY <1>2, <1>3, <1>4

\* The user consents to a sign-in: what the list leaves is covered too.
LEMMA ConsentKeeps ==
    ASSUME IndInv, ConsentGet
    PROVE  IndInv'
<1>. USE DEF IndInv
<1>1. /\ pc = "ask" /\ pc' = "count" /\ pending' = job.rest /\ pendingFlags' = job.flags
      /\ consent' = <<job.conn, job.rp>>
      /\ UNCHANGED <<keyVars, pendingOwner, job, victims, used, owned, broken>>
  BY DEF ConsentGet, Offer
<1>2. /\ job.conn \in Conns /\ job.rp \in Sites /\ pendingOwner = job.conn
      /\ store[job.key].rp = job.rp /\ job.key \in DOMAIN store /\ ListOf(job.rest, job.rp)
  BY <1>1 DEF JobFits, Served
<1>3. Numbered' /\ CounterFresh' /\ VictimsGo' /\ OneKeyPerAccount' /\ Usable' /\ Kept'
  BY <1>1, StoresStay
<1>4. TypeOK'
  <2>1. pending' \in Seq(Keys) /\ pendingFlags' \in Flags
    BY <1>1 DEF TypeOK
  <2>. QED
    BY <1>1, <1>2, <2>1 DEF TypeOK, keyVars, PcStates
<1>5. JobFits' /\ Served' /\ PendingIsReal'
  BY <1>1, <1>2 DEF JobFits, Served, PendingIsReal, ListOf, Making, keyVars
<1>6. Consented'
  BY <1>1, <1>2 DEF Consented, ListOf, keyVars
<1>. QED
  BY <1>3, <1>4, <1>5, <1>6

-----------------------------------------------------------------------------
(* makeCredential.                                                         *)

\* Between two writes the list is empty and nobody signs: that part of the
\* invariant needs no look at the stores.
LEMMA NobodySigns ==
    ASSUME IndInv, pc \in Making, pc' \in Making \cup {"idle"},
           UNCHANGED <<pending, pendingOwner, pendingFlags, consent>>
    PROVE  Served' /\ PendingIsReal' /\ Consented'
<1>1. Len(pending) = 0
  BY DEF IndInv, JobFits
<1>2. Served'
  BY DEF Served, Making
<1>. QED
  BY <1>1, <1>2 DEF PendingIsReal, Consented, Making

\* The user consents to a new key.
LEMMA MakeKeeps ==
    ASSUME IndInv, ConsentMake
    PROVE  IndInv'
<1>. USE DEF IndInv
<1>1. /\ pc = "make" /\ pc' = "replace" /\ victims' = Replaced(job)
      /\ UNCHANGED <<vault, store, made, pending, pendingOwner, pendingFlags, job,
                     used, consent, owned, broken>>
  BY DEF ConsentMake, keyVars, pendingVars, history
<1>2. Served' /\ PendingIsReal' /\ Consented'
  BY <1>1, NobodySigns DEF Making
<1>3. TypeOK' /\ JobFits'
  BY <1>1 DEF TypeOK, PcStates, JobFits, Making, Replaced
<1>4. Numbered' /\ CounterFresh' /\ OneKeyPerAccount'
  BY <1>1 DEF Numbered, CounterFresh, OneKeyPerAccount, Account
<1>5. VictimsGo'
  BY <1>1 DEF VictimsGo, Replaced, Rival, Account
<1>6. Usable' /\ Kept'
  BY <1>1 DEF Usable, Kept, HasKey, Account
<1>. QED
  BY <1>2, <1>3, <1>4, <1>5, <1>6

\* delete takes the private key first, then the record: only of the account whose
\* key is being replaced.
LEMMA DeleteKeyKeeps ==
    ASSUME IndInv, NEW k \in Keys, DeleteKey(k)
    PROVE  IndInv'
<1>. USE DEF IndInv
<1>1. /\ pc = "replace" /\ pc' = "unrecord" /\ k \in victims /\ victims' = victims \ {k}
      /\ vault' \in {vault, vault \ {k}} /\ job' = [job EXCEPT !.key = k]
      /\ UNCHANGED <<store, made, pending, pendingOwner, pendingFlags,
                     used, consent, owned, broken>>
  BY DEF DeleteKey, pendingVars, history
<1>2. /\ job' \in [conn : Conns \cup {None}, rp : Sites \cup {None}, uid : Users \cup {None},
                   rk : BOOLEAN, key : Keys \cup {0}, flags : Flags, rest : Seq(Keys)]
      /\ job'.key = k /\ job'.rk = job.rk /\ Account(job') = Account(job)
      /\ job'.conn = job.conn /\ job'.rp = job.rp /\ job'.uid = job.uid
  BY <1>1 DEF TypeOK, Account
<1>3. Served' /\ PendingIsReal' /\ Consented'
  BY <1>1, NobodySigns DEF Making
<1>4. TypeOK' /\ JobFits'
  BY <1>1, <1>2 DEF TypeOK, PcStates, JobFits, Making
<1>5. Numbered' /\ CounterFresh' /\ OneKeyPerAccount'
  BY <1>1 DEF Numbered, CounterFresh, OneKeyPerAccount, Account
<1>6. VictimsGo'
  <2>1. \A i \in DOMAIN store : Rival(i)' <=> Rival(i)
    BY <1>1, <1>2 DEF Rival, Account
  <2>2. k \in DOMAIN store
    BY <1>1 DEF VictimsGo
  <2>3. \A i \in DOMAIN store : i \in victims <=> Rival(i)
    BY <1>1 DEF VictimsGo
  <2>4. \A i \in DOMAIN store : i \in victims' \/ i = k <=> Rival(i)'
    BY <1>1, <2>1, <2>3
  <2>. QED
    BY <1>1, <1>2, <2>2, <2>4 DEF VictimsGo
<1>7. Usable'
  BY <1>1, <1>2 DEF Usable, Account
<1>8. Kept'
  <2>. SUFFICES ASSUME NEW a \in owned
                PROVE  \/ HasKey(a)'
                       \/ job.rk /\ Account(job) = a
                       \/ a \in broken
    BY <1>1, <1>2 DEF Kept
  <2>1. CASE HasKey(a)
    <3>1. PICK i \in DOMAIN store : store[i].rk /\ Account(store[i]) = a /\ i \in vault
      BY <2>1 DEF HasKey
    <3>2. CASE i = k
      BY <1>1, <3>1, <3>2 DEF VictimsGo, Rival
    <3>3. CASE i # k
      BY <1>1, <3>1, <3>3 DEF HasKey, Account
    <3>. QED
      BY <3>2, <3>3
  <2>. QED
    BY <1>1, <2>1 DEF Kept
<1>. QED
  BY <1>3, <1>4, <1>5, <1>6, <1>7, <1>8

\* The record goes after the key: the account has none then, and is being replaced.
LEMMA DeleteRecordKeeps ==
    ASSUME IndInv, DeleteRecord
    PROVE  IndInv'
<1>. USE DEF IndInv
<1>1. /\ pc = "unrecord" /\ pc' = "replace" /\ store' = Without(job.key)
      /\ UNCHANGED <<vault, made, pending, pendingOwner, pendingFlags, job, victims,
                     used, consent, owned, broken>>
  BY DEF DeleteRecord, pendingVars, history
<1>2. /\ DOMAIN store' = DOMAIN store \ {job.key}
      /\ \A i \in DOMAIN store' : store'[i] = store[i]
  BY <1>1 DEF Without
<1>3. Served' /\ PendingIsReal' /\ Consented'
  BY <1>1, NobodySigns DEF Making
<1>4. TypeOK' /\ JobFits'
  BY <1>1, <1>2 DEF TypeOK, PcStates, JobFits, Making
<1>5. Numbered' /\ CounterFresh' /\ OneKeyPerAccount'
  BY <1>1, <1>2 DEF Numbered, CounterFresh, OneKeyPerAccount, Account
<1>6. VictimsGo'
  BY <1>1, <1>2 DEF VictimsGo, Rival, Account
<1>7. Usable'
  BY <1>1, <1>2 DEF Usable, Account
<1>8. Kept'
  <2>. SUFFICES ASSUME NEW a \in owned
                PROVE  \/ HasKey(a)'
                       \/ job.rk /\ Account(job) = a
                       \/ a \in broken
    BY <1>1 DEF Kept
  <2>1. CASE HasKey(a)
    <3>1. PICK i \in DOMAIN store : store[i].rk /\ Account(store[i]) = a /\ i \in vault
      BY <2>1 DEF HasKey
    <3>2. CASE i = job.key
      BY <1>1, <3>1, <3>2 DEF VictimsGo, Rival
    <3>3. CASE i # job.key
      BY <1>1, <1>2, <3>1, <3>3 DEF HasKey, Account
    <3>. QED
      BY <3>2, <3>3
  <2>. QED
    BY <1>1, <2>1 DEF Kept
<1>. QED
  BY <1>3, <1>4, <1>5, <1>6, <1>7, <1>8

\* A key pair, or none.
LEMMA GenerateKeeps ==
    ASSUME IndInv, Generate
    PROVE  IndInv'
<1>. USE DEF IndInv
<1>1. /\ pc = "replace" /\ victims = {} /\ pc' = "record" /\ made < MaxKeys
      /\ made' = made + 1 /\ vault' = vault \cup {made + 1}
      /\ job' = [job EXCEPT !.key = made + 1]
      /\ UNCHANGED <<store, pending, pendingOwner, pendingFlags, victims,
                     used, consent, owned, broken>>
  BY DEF Generate, pendingVars, history
<1>2. made \in Nat /\ made + 1 \in Keys /\ made + 1 \in 0 .. MaxKeys /\ MaxKeys \in Nat
  BY <1>1, CredentialsAssumption DEF TypeOK, Keys
<1>3. /\ job' \in [conn : Conns \cup {None}, rp : Sites \cup {None}, uid : Users \cup {None},
                   rk : BOOLEAN, key : Keys \cup {0}, flags : Flags, rest : Seq(Keys)]
      /\ job'.key = made + 1 /\ job'.rk = job.rk /\ Account(job') = Account(job)
      /\ job'.conn = job.conn /\ job'.rp = job.rp /\ job'.uid = job.uid
  BY <1>1, <1>2 DEF TypeOK, Account
<1>4. Served' /\ PendingIsReal' /\ Consented'
  BY <1>1, NobodySigns DEF Making
<1>5. TypeOK' /\ JobFits'
  BY <1>1, <1>2, <1>3 DEF TypeOK, PcStates, JobFits, Making
<1>6. Numbered'
  <2>1. \A i \in Keys : i > made + 1 => i > made
    BY <1>2 DEF Keys
  <2>2. made + 1 \notin DOMAIN store /\ used[made + 1] = 0
    BY <1>2 DEF Numbered
  <2>3. made + 1 <= made'
    BY <1>1, <1>2
  <2>. QED
    BY <1>1, <1>2, <1>3, <2>1, <2>2, <2>3 DEF Numbered
<1>7. CounterFresh' /\ OneKeyPerAccount'
  BY <1>1 DEF CounterFresh, OneKeyPerAccount, Account
<1>8. VictimsGo'
  BY <1>1, <1>3 DEF VictimsGo, Rival, Account
<1>9. Usable' /\ Kept'
  BY <1>1, <1>3 DEF Usable, Kept, HasKey, Account
<1>. QED
  BY <1>4, <1>5, <1>6, <1>7, <1>8, <1>9

\* What a replacement leaves behind that ends before the new record: the account is
\* one that lost its key.
LEMMA CutShortKeeps ==
    ASSUME IndInv, pc \in {"replace", "unrecord", "record"}, broken' = CutShort, pc' = "idle",
           UNCHANGED <<keyVars, owned>>
    PROVE  broken' \subseteq Sites \X Users /\ Usable' /\ Kept'
<1>. USE DEF IndInv
<1>1. broken \subseteq broken' /\ (job.rk => Account(job) \in broken')
  BY DEF CutShort
<1>2. broken' \subseteq Sites \X Users
  BY DEF CutShort, TypeOK, JobFits, Making, Account
<1>3. Usable'
  <2>1. pc = "unrecord" /\ job.key \in DOMAIN store => Rival(job.key)
    BY DEF VictimsGo
  <2>. QED
    BY <1>1, <2>1 DEF Usable, Rival, Account, keyVars
<1>4. Kept'
  BY <1>1 DEF Kept, HasKey, Account, keyVars
<1>. QED
  BY <1>2, <1>3, <1>4

\* No key pair: the account that was to get a new key has lost the old one.
LEMMA GenerateFailsKeeps ==
    ASSUME IndInv, GenerateFails
    PROVE  IndInv'
<1>. USE DEF IndInv
<1>1. /\ pc = "replace" /\ pc' = "idle" /\ job' = NoJob /\ broken' = CutShort
      /\ UNCHANGED <<keyVars, pending, pendingOwner, pendingFlags, victims,
                     used, consent, owned>>
  BY DEF GenerateFails, pendingVars
<1>2. NoJob \in [conn : Conns \cup {None}, rp : Sites \cup {None}, uid : Users \cup {None},
                 rk : BOOLEAN, key : Keys \cup {0}, flags : Flags, rest : Seq(Keys)]
  BY DEF NoJob, Flags
<1>3. broken' \subseteq Sites \X Users /\ Usable' /\ Kept'
  BY <1>1, CutShortKeeps
<1>4. Served' /\ PendingIsReal' /\ Consented'
  BY <1>1, NobodySigns DEF Making
<1>5. TypeOK' /\ JobFits'
  BY <1>1, <1>2, <1>3 DEF TypeOK, PcStates, JobFits, Making, keyVars
<1>6. Numbered' /\ CounterFresh' /\ VictimsGo' /\ OneKeyPerAccount'
  BY <1>1 DEF Numbered, CounterFresh, VictimsGo, OneKeyPerAccount, Account, keyVars
<1>. QED
  BY <1>3, <1>4, <1>5, <1>6

\* The app is killed between any two writes.
LEMMA KillKeeps ==
    ASSUME IndInv, Kill
    PROVE  IndInv'
<1>. USE DEF IndInv
<1>1. /\ pc' = "idle" /\ job' = NoJob /\ victims' = {}
      /\ pending' = <<>> /\ pendingOwner' = None /\ pendingFlags' = "silent" /\ consent' = None
      /\ UNCHANGED <<keyVars, used, owned>>
  BY DEF Kill
<1>2. NoJob \in [conn : Conns \cup {None}, rp : Sites \cup {None}, uid : Users \cup {None},
                 rk : BOOLEAN, key : Keys \cup {0}, flags : Flags, rest : Seq(Keys)]
  BY DEF NoJob, Flags
<1>3. broken' \subseteq Sites \X Users /\ Usable' /\ Kept'
  <2>1. CASE pc \in {"replace", "unrecord", "record"}
    BY <1>1, <2>1, CutShortKeeps DEF Kill
  <2>2. CASE pc \notin {"replace", "unrecord", "record"}
    <3>1. broken' = broken
      BY <2>2 DEF Kill
    <3>. QED
      BY <1>1, <2>2, <3>1 DEF TypeOK, Usable, Kept, HasKey, Account, keyVars
  <2>. QED
    BY <2>1, <2>2
<1>4. Len(pending') = 0
  BY <1>1
<1>5. TypeOK' /\ JobFits'
  BY <1>1, <1>2, <1>3 DEF TypeOK, PcStates, Flags, JobFits, Making, keyVars
<1>6. Served' /\ PendingIsReal' /\ Consented'
  BY <1>1, <1>4 DEF Served, PendingIsReal, Consented
<1>7. Numbered' /\ CounterFresh' /\ VictimsGo' /\ OneKeyPerAccount'
  BY <1>1 DEF Numbered, CounterFresh, VictimsGo, OneKeyPerAccount, Account, keyVars
<1>. QED
  BY <1>3, <1>5, <1>6, <1>7

\* The record of the new key: it is alone with its account, and has signed nothing.
LEMMA RecordKeeps ==
    ASSUME IndInv, Record
    PROVE  IndInv'
<1>. USE DEF IndInv
<1>. DEFINE new == [rp |-> job.rp, uid |-> job.uid, rk |-> job.rk, n |-> 0]
<1>1. /\ pc = "record" /\ pc' = "idle" /\ job' = NoJob /\ store' = With(job.key, new)
      /\ owned' = (IF job.rk THEN owned \cup {Account(job)} ELSE owned)
      /\ broken' = (IF job.rk THEN broken \ {Account(job)} ELSE broken)
      /\ UNCHANGED <<vault, made, pending, pendingOwner, pendingFlags, victims, used, consent>>
  BY DEF Record, pendingVars
<1>2. /\ job.key \in Keys /\ job.key \in vault /\ job.key \notin DOMAIN store
      /\ used[job.key] = 0 /\ job.key <= made
      /\ job.rp \in Sites /\ job.uid \in Users /\ job.rk \in BOOLEAN
  BY <1>1 DEF Numbered, JobFits, Making, TypeOK
<1>3. /\ DOMAIN store' = DOMAIN store \cup {job.key} /\ store'[job.key] = new
      /\ \A i \in DOMAIN store : store'[i] = store[i]
  BY <1>1, <1>2 DEF With
<1>4. Account(new) = Account(job) /\ Account(job) \in Sites \X Users /\ new \in Records
  BY <1>2, CredentialsAssumption DEF Account, Records
<1>5. NoJob \in [conn : Conns \cup {None}, rp : Sites \cup {None}, uid : Users \cup {None},
                 rk : BOOLEAN, key : Keys \cup {0}, flags : Flags, rest : Seq(Keys)]
  BY DEF NoJob, Flags
<1>6. \A i \in DOMAIN store : job.rk /\ store[i].rk => Account(store[i]) # Account(job)
  BY <1>1 DEF VictimsGo, Rival
<1>7. Served' /\ PendingIsReal' /\ Consented'
  BY <1>1, NobodySigns DEF Making
<1>8. TypeOK'
  <2>1. DOMAIN store' \subseteq Keys /\ \A i \in DOMAIN store' : store'[i] \in Records
    BY <1>2, <1>3, <1>4 DEF TypeOK
  <2>2. owned' \subseteq Sites \X Users /\ broken' \subseteq Sites \X Users
    BY <1>1, <1>4 DEF TypeOK
  <2>. QED
    BY <1>1, <1>5, <2>1, <2>2 DEF TypeOK, PcStates
<1>9. JobFits' /\ VictimsGo'
  BY <1>1 DEF JobFits, Making, VictimsGo
<1>10. Numbered'
  <2>1. \A i \in Keys : i > made => i # job.key
    BY <1>2 DEF Keys, TypeOK
  <2>. QED
    BY <1>1, <1>3, <2>1 DEF Numbered
<1>11. CounterFresh'
  <2>1. store'[job.key].n = 0 /\ 0 >= used[job.key]
    BY <1>2, <1>3
  <2>. QED
    BY <1>1, <1>3, <2>1 DEF CounterFresh
<1>12. OneKeyPerAccount'
  <2>. SUFFICES ASSUME NEW i \in DOMAIN store', NEW j \in DOMAIN store',
                       store'[i].rk, store'[j].rk, Account(store'[i]) = Account(store'[j])
                PROVE  i = j
    BY DEF OneKeyPerAccount, Account
  <2>1. CASE i \in DOMAIN store /\ j \in DOMAIN store
    BY <1>3, <2>1 DEF OneKeyPerAccount
  <2>2. CASE i = job.key \/ j = job.key
    BY <1>3, <1>4, <1>6, <2>2
  <2>. QED
    BY <1>3, <2>1, <2>2
<1>13. Usable'
  <2>. SUFFICES ASSUME NEW i \in DOMAIN store'
                PROVE  i \in vault \/ (store'[i].rk /\ Account(store'[i]) \in broken')
    BY <1>1 DEF Usable, Account
  <2>1. CASE i = job.key
    BY <1>2, <2>1
  <2>2. CASE i \in DOMAIN store
    BY <1>1, <1>3, <1>6, <2>2 DEF Usable
  <2>. QED
    BY <1>3, <2>1, <2>2
<1>14. Kept'
  <2>1. \A a : job.rk /\ Account(job) = a => HasKey(a)'
    BY <1>1, <1>2, <1>3, <1>4 DEF HasKey, Account
  <2>2. \A a : HasKey(a) => HasKey(a)'
    BY <1>1, <1>3 DEF HasKey, Account
  <2>3. \A a \in owned : HasKey(a) \/ (job.rk /\ Account(job) = a) \/ a \in broken
    BY DEF Kept
  <2>. QED
    BY <1>1, <2>1, <2>2, <2>3 DEF Kept
<1>. QED
  BY <1>7, <1>8, <1>9, <1>10, <1>11, <1>12, <1>13, <1>14

-----------------------------------------------------------------------------
(* assertion.                                                              *)

\* The counter is written, then signed with.
LEMMA CountKeeps ==
    ASSUME IndInv, Count
    PROVE  IndInv'
<1>. USE DEF IndInv
<1>1. /\ pc = "count" /\ pc' = "sign" /\ store[job.key].n < MaxCount
      /\ store' = Counted(job.key) /\ job.key \in DOMAIN store
      /\ UNCHANGED <<vault, made, pending, pendingOwner, pendingFlags, job, victims,
                     used, consent, owned, broken>>
  BY DEF Count, pendingVars, history, Served
<1>2. store[job.key] \in Records /\ store[job.key].n \in Nat
  BY <1>1 DEF TypeOK, Records
<1>3. DOMAIN store' = DOMAIN store
  BY <1>1 DEF Counted
<1>4. store'[job.key].n = store[job.key].n + 1 /\ store'[job.key] \in Records
  BY <1>1, <1>2, CredentialsAssumption DEF Counted, Records
<1>5. \A i \in DOMAIN store :
         /\ i # job.key => store'[i] = store[i]
         /\ store'[i].rp = store[i].rp /\ store'[i].rk = store[i].rk
         /\ Account(store'[i]) = Account(store[i])
  BY <1>1, <1>2 DEF Counted, Account, Records, TypeOK
<1>6. TypeOK' /\ JobFits' /\ Numbered'
  BY <1>1, <1>3, <1>4, <1>5 DEF TypeOK, PcStates, JobFits, Making, Numbered
<1>7. Served' /\ PendingIsReal' /\ Consented'
  BY <1>1, <1>3, <1>5 DEF Served, PendingIsReal, Consented
<1>8. CounterFresh'
  <2>1. used[job.key] \in Nat
    BY <1>1 DEF TypeOK
  <2>2. store'[job.key].n > used[job.key]
    BY <1>1, <1>2, <1>4, <2>1 DEF CounterFresh
  <2>3. store'[job.key].n >= used[job.key]
    BY <1>2, <1>4, <2>1, <2>2
  <2>. QED
    BY <1>1, <1>3, <1>5, <2>2, <2>3 DEF CounterFresh
<1>9. VictimsGo' /\ OneKeyPerAccount'
  BY <1>1, <1>3, <1>5 DEF VictimsGo, OneKeyPerAccount, Account
<1>10. Usable' /\ Kept'
  <2>1. Usable'
    BY <1>1, <1>3, <1>5 DEF Usable
  <2>2. \A a : HasKey(a) => HasKey(a)'
    BY <1>1, <1>3, <1>5 DEF HasKey
  <2>. QED
    BY <1>1, <2>1, <2>2 DEF Kept
<1>. QED
  BY <1>6, <1>7, <1>8, <1>9, <1>10

\* The signature takes the counter that was written.
LEMMA SignKeeps ==
    ASSUME IndInv, Sign
    PROVE  IndInv'
<1>. USE DEF IndInv
<1>1. /\ pc = "sign" /\ pc' = "idle" /\ job' = NoJob /\ job.key \in DOMAIN store
      /\ used' = [used EXCEPT ![job.key] = store[job.key].n]
      /\ UNCHANGED <<vault, store, made, pending, pendingOwner, pendingFlags, victims,
                     consent, owned, broken>>
  BY DEF Sign, keyVars, pendingVars, Served
<1>2. NoJob \in [conn : Conns \cup {None}, rp : Sites \cup {None}, uid : Users \cup {None},
                 rk : BOOLEAN, key : Keys \cup {0}, flags : Flags, rest : Seq(Keys)]
  BY DEF NoJob, Flags
<1>3. store[job.key].n \in 0 .. MaxCount /\ job.key \in Keys
  BY <1>1 DEF TypeOK, Records
<1>4. /\ used' \in [Keys -> 0 .. MaxCount] /\ used'[job.key] = store[job.key].n
      /\ \A i \in Keys : i # job.key => used'[i] = used[i]
  BY <1>1, <1>3 DEF TypeOK
<1>5. TypeOK' /\ JobFits'
  BY <1>1, <1>2, <1>4 DEF TypeOK, PcStates, JobFits, Making
<1>6. Numbered'
  BY <1>1, <1>4 DEF Numbered
<1>7. CounterFresh'
  <2>1. store[job.key].n >= used'[job.key]
    BY <1>3, <1>4
  <2>2. DOMAIN store \subseteq Keys
    BY DEF TypeOK
  <2>. QED
    BY <1>1, <1>4, <2>1, <2>2 DEF CounterFresh
<1>8. Served' /\ PendingIsReal' /\ Consented'
  BY <1>1 DEF Served, PendingIsReal, Consented
<1>9. VictimsGo' /\ OneKeyPerAccount' /\ Usable' /\ Kept'
  BY <1>1 DEF VictimsGo, OneKeyPerAccount, Usable, Kept, HasKey, Account
<1>. QED
  BY <1>5, <1>6, <1>7, <1>8, <1>9

-----------------------------------------------------------------------------

\* Every step keeps the invariant.
LEMMA StepKeeps == IndInv /\ [Next]_vars => IndInv'
<1>1. ASSUME IndInv, UNCHANGED vars
      PROVE  IndInv'
  <2>. USE <1>1 DEF vars, keyVars, pendingVars, history, IndInv
  <2>1. TypeOK' /\ JobFits' /\ Numbered'
    BY DEF TypeOK, JobFits, Numbered
  <2>2. Served' /\ PendingIsReal' /\ Consented' /\ CounterFresh'
    BY DEF Served, ListOf, PendingIsReal, Consented, CounterFresh
  <2>3. VictimsGo' /\ OneKeyPerAccount' /\ Usable' /\ Kept'
    BY DEF VictimsGo, Rival, OneKeyPerAccount, Usable, Kept, HasKey, Account
  <2>. QED
    BY <2>1, <2>2, <2>3
<1>. QED
  BY <1>1, EnterKeeps, GetKeeps, NextKeeps, EndKeeps, ConsentKeeps, MakeKeeps, DeleteKeyKeeps,
     DeleteRecordKeeps, GenerateKeeps, GenerateFailsKeeps, KillKeeps, RecordKeeps,
     CountKeeps, SignKeeps
     DEF Next

\* The invariant holds throughout.
LEMMA Inductive == Spec => []IndInv
<1>. QED
  BY InitHolds, StepKeeps, PTL DEF Spec

\* Every variable of the Authenticator keeps its type, for any number of computers,
\* sites, users and keys.
THEOREM TypeCorrect == Spec => []TypeOK
<1>1. IndInv => TypeOK
  BY DEF IndInv
<1>. QED
  BY <1>1, Inductive, PTL

\* Whatever fails and whenever the app is killed, a key never signs the same counter
\* twice, nor a smaller one (assertion writes the counter before it signs).
THEOREM CountersGrow == Spec => []CounterFresh
<1>1. IndInv => CounterFresh
  BY DEF IndInv
<1>. QED
  BY <1>1, Inductive, PTL

\* The Keystore and the records agree, an account has one key and keeps it but for a
\* replacement that was cut short, and the list that getNextAssertion continues is
\* of keys that are there (makeCredential, delete, getAssertion).
THEOREM StoresInStep == Spec => []StoresAgree
<1>1. ASSUME IndInv
      PROVE  StoresAgree
  <2>1. RecordUsable
    BY <1>1 DEF IndInv, Usable, RecordUsable
  <2>2. AccountKeepsKey
    BY <1>1 DEF IndInv, Kept, HasKey, AccountKeepsKey
  <2>. QED
    BY <1>1, <2>1, <2>2 DEF IndInv, StoresAgree
<1>. QED
  BY <1>1, Inductive, PTL

\* No signature says that the user was verified but for the site and the computer
\* of the sign-in that the user approved last (handle, getAssertion,
\* getNextAssertion).
THEOREM NoFlagUnasked == Spec => ConsentCovers
<1>1. IndInv /\ [Next]_vars =>
        [used' # used /\ job.flags = "verified" =>
           consent = <<job.conn, store[job.key].rp>>]_vars
  <2>. SUFFICES ASSUME IndInv, Next, used' # used, job.flags = "verified"
                PROVE  consent = <<job.conn, store[job.key].rp>>
    OBVIOUS
  <2>1. pc = "sign"
    BY DEF Next, EndAtOnce, EnterNext, EnterMake, EnterGet, Refuse, ConsentMake, DeleteRecord,
           Generate, GenerateFails, Record, DeleteKey, ConsentGet, Count, Sign, SignFails, Kill,
           history
  <2>. QED
    BY <2>1 DEF IndInv, Consented
<1>. QED
  BY <1>1, Inductive, PTL DEF Spec, ConsentCovers
=============================================================================
