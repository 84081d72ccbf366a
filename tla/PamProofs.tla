----------------------------- MODULE PamProofs -----------------------------
(***************************************************************************)
(* What authenticate returns and what it leaves behind, for any number of  *)
(* helpers that a call may start; and what passkey's commands make of the  *)
(* PAM service files, for any files, services and commands.                *)
(***************************************************************************)
EXTENDS PamSession, PamFiles, SequenceTheorems, WellFoundedInduction, TLAPS

(* The PAM module's call.                                                  *)

\* Before the loop is over.
Early == {"check", "prompt", "loop", "poll", "waited"}

\* Lines that end the call whatever the helper has to say.
Final == {"password", "null", "failed"}

\* Where a helper may be asked: never before the prompt, never after the call.
AskInPlace ==
    /\ pc \in {"check", "prompt"} => ask = 0 /\ tries = 0
    /\ pc \in {"linger", "returned"} => ask = 0
    /\ pc = "leave" /\ ask # 0 => typed \in Final

\* Helpers are started in turn, and only the one that is asked is alive.
OneAlive ==
    \A h \in Helpers :
        /\ h > tries => helper[h] = "unborn"
        /\ Alive(h) => h = ask

\* A line is typed, sent, received; its memory is held from the first to the last.
PromptInTurn ==
    /\ pc = "check" => prompt = "none"
    /\ prompt = "none" => pc \in {"check", "returned"}
    /\ prompt \in {"none", "open"} => typed = "nothing" /\ memory = "none"
    /\ mail => prompt = "sent"
    /\ ~prompting => prompt = "sent" /\ ~mail
    /\ prompt = "sent" /\ ~mail => memory # "held"
    /\ pc = "returned" => ~mail
    /\ memory = "lost" => result = "success"

\* The result is decided on the way out of the loop, and with the prompt still open
\* only by an approval.
DecidedLast ==
    /\ pc \in Early => result = "ignore" /\ ~authtok
    /\ pc = "linger" => result = "success"
    /\ pc \in {"leave", "returned"} /\ prompting => result = "success" \/ prompt = "none"
    /\ result = "success" => ~authtok /\ \E h \in Helpers : helper[h] = "yes"

\* An approval is being polled for, was taken, came after the deadline, or came
\* second to a line that ends the call.
ApprovalSeen ==
    \A h \in Helpers : helper[h] = "yes" =>
        h = ask \/ result = "success" \/ h \in expired \/ typed \in Final

IndInv == TypeOK /\ AskInPlace /\ OneAlive /\ PromptInTurn /\ DecidedLast /\ ApprovalSeen

-----------------------------------------------------------------------------

\* authenticate begins.
LEMMA InitHolds == Init => IndInv
<1>. SUFFICES ASSUME Init
              PROVE  IndInv
  OBVIOUS
<1>1. TypeOK
  <2>1. tries \in 0 .. MaxTries
    BY PamSessionAssumption DEF Init
  <2>2. helper \in [Helpers -> Phases] /\ expired \subseteq Helpers
    BY DEF Init, Phases
  <2>3. /\ prompting \in BOOLEAN /\ authtok \in BOOLEAN /\ mail \in BOOLEAN
        /\ pc \in PcStates /\ result \in Results /\ typed \in Typed
    BY DEF Init, PcStates, Results, Typed
  <2>. QED
    BY <2>1, <2>2, <2>3 DEF Init, TypeOK
<1>2. OneAlive /\ ApprovalSeen
  BY DEF Init, OneAlive, Alive, ApprovalSeen
<1>3. AskInPlace /\ PromptInTurn /\ DecidedLast
  BY DEF Init, AskInPlace, PromptInTurn, DecidedLast, Early
<1>. QED
  BY <1>1, <1>2, <1>3 DEF IndInv

\* A helper is started when none is asked: all others have ended.
LEMMA StartKeeps ==
    ASSUME IndInv, NEW ok \in BOOLEAN, StartAsk(ok), ask = 0, tries < MaxTries,
           pc # "returned", result' = result, typed' = typed, expired' = expired
    PROVE  /\ ask' \in Helpers \cup {0} /\ tries' \in 0 .. MaxTries
           /\ helper' \in [Helpers -> Phases]
           /\ OneAlive' /\ ApprovalSeen'
           /\ \A h \in Helpers : helper[h] = "yes" => helper'[h] = "yes"
<1>1. CASE ~ok
  BY <1>1 DEF StartAsk, IndInv, TypeOK, OneAlive, Alive, ApprovalSeen
<1>2. CASE ok
  <2>1. tries \in Nat /\ tries + 1 \in Helpers /\ ask' = tries + 1 /\ tries' = tries + 1
    BY <1>2, PamSessionAssumption DEF StartAsk, IndInv, TypeOK, Helpers
  <2>2. helper' = [helper EXCEPT ![tries + 1] = "probe"] /\ helper[tries + 1] = "unborn"
    BY <1>2, <2>1 DEF StartAsk, IndInv, OneAlive
  <2>3. helper' \in [Helpers -> Phases]
    BY <2>2 DEF IndInv, TypeOK, Phases
  <2>4. \A h \in Helpers : h # tries + 1 => helper'[h] = helper[h]
    BY <2>2 DEF IndInv, TypeOK
  <2>5. OneAlive'
    <3>. SUFFICES ASSUME NEW h \in Helpers
                  PROVE  /\ h > tries' => helper'[h] = "unborn"
                         /\ Alive(h)' => h = ask'
      BY DEF OneAlive
    <3>1. h \in Nat
      BY DEF Helpers
    <3>2. CASE h = tries + 1
      BY <2>1, <3>2
    <3>3. CASE h # tries + 1
      BY <2>1, <2>4, <3>1, <3>3 DEF IndInv, OneAlive, Alive, Helpers
    <3>. QED
      BY <3>2, <3>3
  <2>. QED
    BY <2>1, <2>2, <2>3, <2>4, <2>5, PamSessionAssumption
       DEF IndInv, TypeOK, Helpers, ApprovalSeen
<1>. QED
  BY <1>1, <1>2

\* A helper that ends, or is killed, is not asked any more.
LEMMA KilledKeeps ==
    ASSUME IndInv, helper' = Killed(ask), ask' = 0, tries' = tries
    PROVE  /\ helper' \in [Helpers -> Phases] /\ OneAlive'
           /\ \A h \in Helpers : (helper'[h] = "yes") <=> (helper[h] = "yes")
  BY DEF IndInv, TypeOK, Phases, OneAlive, Alive, Killed, Helpers

-----------------------------------------------------------------------------
(* The steps.                                                              *)

\* The caller's thread before the loop and on its way around it.
LEMMA EnterKeeps ==
    ASSUME IndInv, Ignore \/ Begin
    PROVE  IndInv'
<1>. USE DEF IndInv, promptVars, helperVars
<1>1. CASE Ignore
  BY <1>1 DEF Ignore, TypeOK, PcStates, AskInPlace, OneAlive, Alive, PromptInTurn,
              DecidedLast, Early, ApprovalSeen
<1>2. CASE Begin
  <2>1. ask = 0 /\ tries = 0 /\ pc = "check" /\ prompt' = "open"
    BY <1>2 DEF Begin, AskInPlace
  <2>2. UNCHANGED <<mode, prompting, result, authtok, typed, mail, memory, expired>>
    BY <1>2 DEF Begin
  <2>3. /\ ask' \in Helpers \cup {0} /\ tries' \in 0 .. MaxTries
        /\ helper' \in [Helpers -> Phases]
        /\ OneAlive' /\ ApprovalSeen'
    <3>1. CASE mode = "parallel" /\ \E ok \in BOOLEAN : StartAsk(ok)
      <4>1. tries < MaxTries
        BY <2>1, PamSessionAssumption
      <4>. QED
        BY <2>1, <2>2, <3>1, <4>1, StartKeeps
    <3>2. CASE UNCHANGED <<ask, tries, helper>>
      BY <2>2, <3>2 DEF TypeOK, OneAlive, Alive, ApprovalSeen
    <3>. QED
      BY <1>2, <3>1, <3>2 DEF Begin
  <2>4. pc' = "loop" \/ (pc' = "prompt" /\ UNCHANGED <<ask, tries>>)
    BY <1>2 DEF Begin
  <2>5. TypeOK'
    BY <2>1, <2>2, <2>3, <2>4 DEF TypeOK, PcStates
  <2>6. AskInPlace' /\ PromptInTurn' /\ DecidedLast'
    BY <2>1, <2>2, <2>4 DEF AskInPlace, PromptInTurn, DecidedLast, Early
  <2>. QED
    BY <2>3, <2>5, <2>6
<1>. QED
  BY <1>1, <1>2

\* The prompt's result: only an empty line goes on, with the helper that is asked
\* or with a new one.
LEMMA ReceiveKeeps ==
    ASSUME IndInv, Receive
    PROVE  IndInv'
<1>. USE DEF IndInv
<1>1. /\ pc = "loop" /\ prompting /\ mail /\ prompt = "sent" /\ result = "ignore"
      /\ ~authtok /\ memory' = Wiped /\ mail' = FALSE /\ prompting' = FALSE
      /\ UNCHANGED <<mode, prompt, typed, expired>>
  BY DEF Receive, PromptInTurn, DecidedLast, Early
<1>2. TypeOK /\ memory' \in {"none", "wiped", "lost"} /\ memory # "lost"
  BY <1>1 DEF Wiped, TypeOK, PromptInTurn
<1>3. ASSUME typed \in Final, pc' = "leave", UNCHANGED <<ask, tries, helper>>,
             \/ result' \in {"status", "conv_err"} /\ authtok' = authtok
             \/ authtok' = TRUE /\ result' = result
      PROVE  IndInv'
  <2>1. TypeOK'
    BY <1>1, <1>2, <1>3 DEF TypeOK, PcStates, Results, Wiped
  <2>2. AskInPlace' /\ OneAlive' /\ ApprovalSeen'
    BY <1>1, <1>3 DEF AskInPlace, OneAlive, Alive, ApprovalSeen
  <2>3. PromptInTurn' /\ DecidedLast'
    BY <1>1, <1>2, <1>3 DEF PromptInTurn, DecidedLast, Early, Wiped
  <2>. QED
    BY <2>1, <2>2, <2>3
<1>4. ASSUME typed = "empty", AskAgain, UNCHANGED <<result, authtok>>,
             pc' = IF ask' = 0 THEN "leave" ELSE "poll"
      PROVE  IndInv'
  <2>1. /\ ask' \in Helpers \cup {0} /\ tries' \in 0 .. MaxTries
        /\ helper' \in [Helpers -> Phases]
        /\ OneAlive' /\ ApprovalSeen'
    <3>1. CASE UNCHANGED <<ask, tries, helper>>
      BY <1>1, <1>4, <3>1 DEF TypeOK, OneAlive, Alive, ApprovalSeen
    <3>2. CASE ask = 0 /\ tries < MaxTries /\ \E ok \in BOOLEAN : StartAsk(ok)
      BY <1>1, <1>4, <3>2, StartKeeps
    <3>. QED
      BY <1>4, <3>1, <3>2 DEF AskAgain
  <2>2. TypeOK'
    BY <1>1, <1>2, <1>4, <2>1 DEF TypeOK, PcStates, Wiped
  <2>3. AskInPlace' /\ PromptInTurn' /\ DecidedLast'
    BY <1>1, <1>2, <1>4 DEF AskInPlace, PromptInTurn, DecidedLast, Early, Wiped
  <2>. QED
    BY <2>1, <2>2, <2>3
<1>. QED
  BY <1>1, <1>3, <1>4 DEF Receive, Judge, Final

\* The rest of the loop.
LEMMA LoopKeeps ==
    ASSUME IndInv,
           NothingTyped \/ Approved \/ Denied \/ NoAsk \/ NoAnswer \/ Again \/ TimeOut
    PROVE  IndInv'
<1>. USE DEF IndInv, promptVars, helperVars
<1>1. CASE NothingTyped \/ NoAnswer \/ Again
  BY <1>1 DEF NothingTyped, NoAnswer, Again, TypeOK, PcStates, AskInPlace, OneAlive,
              Alive, PromptInTurn, DecidedLast, Early, ApprovalSeen
<1>2. CASE Approved
  <2>1. ask \in Helpers /\ helper[ask] = "yes" /\ ~authtok
    BY <1>2 DEF Approved, Approves, TypeOK, DecidedLast, Early
  <2>2. TypeOK' /\ AskInPlace'
    BY <1>2 DEF Approved, TypeOK, PcStates, Results, AskInPlace
  <2>3. OneAlive' /\ ApprovalSeen'
    BY <1>2, <2>1 DEF Approved, OneAlive, Alive, ApprovalSeen
  <2>4. PromptInTurn' /\ DecidedLast'
    BY <1>2, <2>1 DEF Approved, PromptInTurn, DecidedLast, Early
  <2>. QED
    BY <2>2, <2>3, <2>4
<1>3. CASE Denied \/ NoAsk
  <2>1. \A h \in Helpers : h = ask => ~Alive(h) /\ helper[h] # "yes"
    BY <1>3 DEF Denied, NoAsk, Denies, Alive, Helpers
  <2>2. TypeOK' /\ AskInPlace'
    BY <1>3 DEF Denied, NoAsk, NextOf, TypeOK, PcStates, AskInPlace
  <2>3. OneAlive' /\ ApprovalSeen'
    BY <1>3, <2>1 DEF Denied, NoAsk, OneAlive, Alive, ApprovalSeen
  <2>4. PromptInTurn' /\ DecidedLast'
    BY <1>3 DEF Denied, NoAsk, NextOf, PromptInTurn, DecidedLast, Early
  <2>. QED
    BY <2>2, <2>3, <2>4
<1>4. CASE TimeOut
  <2>1. /\ helper' \in [Helpers -> Phases] /\ OneAlive'
        /\ \A h \in Helpers : (helper'[h] = "yes") <=> (helper[h] = "yes")
    BY <1>4, KilledKeeps DEF TimeOut
  <2>2. TypeOK' /\ AskInPlace'
    BY <1>4, <2>1 DEF TimeOut, NextOf, TypeOK, PcStates, AskInPlace
  <2>3. ApprovalSeen'
    BY <1>4, <2>1 DEF TimeOut, ApprovalSeen
  <2>4. PromptInTurn' /\ DecidedLast'
    BY <1>4, <2>1 DEF TimeOut, NextOf, PromptInTurn, DecidedLast, Early
  <2>. QED
    BY <2>1, <2>2, <2>3, <2>4
<1>. QED
  BY <1>1, <1>2, <1>3, <1>4

\* After the loop.
LEMMA LeaveKeeps ==
    ASSUME IndInv, Linger \/ Return
    PROVE  IndInv'
<1>. USE DEF IndInv, helperVars
<1>1. CASE Linger
  <2>1. mail' \in BOOLEAN /\ memory' \in {"none", "held", "wiped", "lost"}
    BY <1>1 DEF Linger, Wiped, TypeOK
  <2>2. TypeOK' /\ AskInPlace'
    BY <1>1, <2>1 DEF Linger, TypeOK, PcStates, AskInPlace
  <2>3. OneAlive' /\ ApprovalSeen'
    BY <1>1 DEF Linger, OneAlive, Alive, ApprovalSeen
  <2>4. PromptInTurn' /\ DecidedLast'
    BY <1>1, <2>1 DEF Linger, Wiped, TypeOK, PromptInTurn, DecidedLast, Early
  <2>. QED
    BY <2>2, <2>3, <2>4
<1>2. CASE Return
  <2>1. /\ helper' \in [Helpers -> Phases] /\ OneAlive'
        /\ \A h \in Helpers : (helper'[h] = "yes") <=> (helper[h] = "yes")
    BY <1>2, KilledKeeps DEF Return
  <2>2. TypeOK' /\ AskInPlace'
    BY <1>2, <2>1 DEF Return, TypeOK, PcStates, AskInPlace
  <2>3. ApprovalSeen'
    BY <1>2, <2>1 DEF Return, ApprovalSeen, AskInPlace, Helpers
  <2>4. PromptInTurn' /\ DecidedLast'
    BY <1>2, <2>1 DEF Return, PromptInTurn, DecidedLast, Early, TypeOK
  <2>. QED
    BY <2>1, <2>2, <2>3, <2>4
<1>. QED
  BY <1>1, <1>2

\* The prompt's thread.
LEMMA PromptKeeps ==
    ASSUME IndInv, SendTyped \/ \E line \in Typed \ {"nothing"} : TypeIn(line)
    PROVE  IndInv'
<1>. USE DEF IndInv, helperVars
<1>1. ASSUME NEW line \in Typed \ {"nothing"}, TypeIn(line)
      PROVE  IndInv'
  <2>1. TypeOK' /\ OneAlive'
    BY <1>1 DEF TypeIn, TypeOK, OneAlive, Alive
  <2>2. AskInPlace' /\ ApprovalSeen'
    BY <1>1 DEF TypeIn, AskInPlace, ApprovalSeen, PromptInTurn, Final
  <2>3. PromptInTurn' /\ DecidedLast'
    BY <1>1 DEF TypeIn, PromptInTurn, DecidedLast, Early
  <2>. QED
    BY <2>1, <2>2, <2>3
<1>2. CASE SendTyped
  <2>1. TypeOK' /\ OneAlive'
    BY <1>2 DEF SendTyped, Wiped, TypeOK, PcStates, OneAlive, Alive
  <2>2. AskInPlace' /\ ApprovalSeen'
    BY <1>2 DEF SendTyped, AskInPlace, ApprovalSeen
  <2>3. PromptInTurn' /\ DecidedLast'
    BY <1>2 DEF SendTyped, Wiped, PromptInTurn, DecidedLast, Early
  <2>. QED
    BY <2>1, <2>2, <2>3
<1>. QED
  BY <1>1, <1>2

\* The helper: only the one that is asked has steps to take.
LEMMA HelperKeeps ==
    ASSUME IndInv, NEW h \in Helpers,
           Probe(h) \/ Assert(h) \/ Verify(h) \/ GiveUp(h) \/ Expire(h)
    PROVE  IndInv'
<1>. USE DEF IndInv, promptVars
<1>1. CASE Expire(h)
  BY <1>1 DEF Expire, TypeOK, AskInPlace, OneAlive, Alive, PromptInTurn, DecidedLast, Early,
              ApprovalSeen
<1>2. CASE Probe(h) \/ Assert(h) \/ Verify(h) \/ GiveUp(h)
  <2>1. Alive(h) /\ h = ask
    BY <1>2 DEF Probe, Assert, Verify, GiveUp, Alive, OneAlive
  <2>2. PICK s \in {"assert", "verify", "yes", "no"} : helper' = [helper EXCEPT ![h] = s]
    BY <1>2 DEF Probe, Assert, Verify, GiveUp
  <2>3. UNCHANGED <<mode, pc, ask, tries, prompting, result, authtok, prompt, typed, mail,
                    memory, expired>>
    BY <1>2 DEF Probe, Assert, Verify, GiveUp
  <2>4. TypeOK' /\ AskInPlace' /\ PromptInTurn'
    BY <2>2, <2>3 DEF TypeOK, Phases, AskInPlace, PromptInTurn
  <2>5. OneAlive' /\ ApprovalSeen'
    BY <2>1, <2>2, <2>3 DEF TypeOK, OneAlive, Alive, ApprovalSeen
  <2>6. \A g \in Helpers : helper[g] = "yes" => helper'[g] = "yes"
    BY <2>1, <2>2 DEF TypeOK, Alive
  <2>7. DecidedLast'
    BY <2>3, <2>6 DEF DecidedLast
  <2>. QED
    BY <2>4, <2>5, <2>7
<1>. QED
  BY <1>1, <1>2

-----------------------------------------------------------------------------

\* The invariant holds throughout.
LEMMA Inductive == Spec => []IndInv
<1>1. IndInv /\ [Next]_vars => IndInv'
  <2>1. ASSUME IndInv, UNCHANGED vars
        PROVE  IndInv'
    BY <2>1 DEF vars, IndInv, TypeOK, AskInPlace, OneAlive, Alive, PromptInTurn, DecidedLast,
                ApprovalSeen
  <2>. QED
    BY <2>1, EnterKeeps, ReceiveKeeps, LoopKeeps, LeaveKeeps, PromptKeeps, HelperKeeps
       DEF Next, Caller
<1>. QED
  BY <1>1, InitHolds, PTL DEF Spec

\* Every variable of authenticate keeps its type: at most MaxTries helpers.
THEOREM TypeCorrect == Spec => []TypeOK
<1>1. IndInv => TypeOK
  BY DEF IndInv
<1>. QED
  BY <1>1, Inductive, PTL

\* However prompt and helper race: PAM_SUCCESS only by a verified assertion and not
\* next to a password, no refusal or deadline ends the call under an open prompt,
\* and an approval in time is what the call returns (the loop of authenticate).
THEOREM OnlyEarned == Spec => []ResultIsEarned
<1>1. ASSUME IndInv
      PROVE  ResultIsEarned
  <2>1. SuccessIsVerified
    BY <1>1 DEF IndInv, DecidedLast, SuccessIsVerified
  <2>2. PromptStays
    BY <1>1 DEF IndInv, DecidedLast, PromptInTurn, PromptStays, TypeOK
  <2>3. ApprovalCounts
    BY <1>1 DEF IndInv, ApprovalSeen, AskInPlace, ApprovalCounts, Final, Helpers
  <2>. QED
    BY <2>1, <2>2, <2>3 DEF ResultIsEarned
<1>. QED
  BY <1>1, Inductive, PTL

\* Whatever way authenticate leaves its loop: no helper outlives it, and no typed
\* line stays in memory but the one that was sent and never received.
THEOREM NothingStays == Spec => []NothingLeft
<1>1. ASSUME IndInv
      PROVE  NothingLeft
  <2>1. NoHelperLeft
    BY <1>1 DEF IndInv, OneAlive, AskInPlace, NoHelperLeft, Helpers
  <2>2. AnswerWiped
    BY <1>1 DEF IndInv, PromptInTurn, AnswerWiped
  <2>. QED
    BY <2>1, <2>2 DEF NothingLeft
<1>. QED
  BY <1>1, Inductive, PTL

-----------------------------------------------------------------------------
(* The text of a service file.                                             *)

\* A set of numbers has a least one.
LEMMA LeastNumber ==
    ASSUME NEW T, T \subseteq Nat, T # {}
    PROVE  \E x \in T : \A y \in T : x <= y
<1>1. PICK x \in T : \A y \in T : ~ (<<y, x>> \in OpToRel(<, Nat))
  BY NatLessThanWellFounded, WFMin
<1>2. ASSUME NEW y \in T
      PROVE  x <= y
  <2>1. <<y, x>> \in Nat \X Nat
    OBVIOUS
  <2>2. y < x => <<y, x>> \in OpToRel(<, Nat)
    BY <2>1 DEF OpToRel
  <2>3. ~ (<<y, x>> \in OpToRel(<, Nat))
    BY <1>1
  <2>4. ~ (y < x)
    BY <2>2, <2>3
  <2>. QED
    BY <2>1, <2>4
<1>. QED
  BY <1>2

\* Induction up to n, about the members of a set.
LEMMA UpTo ==
    ASSUME NEW T, NEW n \in Nat, 0 \in T, \A i \in 0 .. n - 1 : i \in T => i + 1 \in T
    PROVE  n \in T
<1>. SUFFICES ASSUME n \notin T
              PROVE  FALSE
  OBVIOUS
<1>. DEFINE M == {i \in 0 .. n : i \notin T}
<1>1. PICK m \in M : \A y \in M : m <= y
  <2>1. M \subseteq Nat /\ n \in M
    OBVIOUS
  <2>. QED
    BY <2>1, LeastNumber
<1>2. m \in 1 .. n
  OBVIOUS
<1>3. m - 1 \in T
  BY <1>1, <1>2
<1>. QED
  BY <1>2, <1>3

\* What holds of the empty file and goes on from line to line holds of every file.
LEMMA LineByLine ==
    ASSUME NEW T, <<>> \in T,
           \A t \in Seq(LineKinds) : \A x \in LineKinds : t \in T => Append(t, x) \in T
    PROVE  Seq(LineKinds) \subseteq T
<1>. SUFFICES ASSUME NEW t \in Seq(LineKinds)
              PROVE  t \in T
  OBVIOUS
<1>. DEFINE n == Len(t)
            P(i) == SubSeq(t, 1, i) \in T
            U == {i \in 0 .. n : P(i)}
<1>1. n \in Nat
  BY LenProperties
<1>2. P(0)
  <2>1. SubSeq(t, 1, 0) = <<>>
    BY SubSeqEmpty
  <2>. QED
    BY <2>1
<1>3. ASSUME NEW i \in 0 .. n - 1, P(i)
      PROVE  P(i + 1)
  <2>1. t[i + 1] \in LineKinds
    BY <1>1, ElementOfSeq
  <2>2. SubSeq(t, 1, i) \in Seq(LineKinds)
    BY <1>1
  <2>3. SubSeq(t, 1, i + 1) = Append(SubSeq(t, 1, i), t[i + 1])
    <3>1. SubSeq(t, 1, i + 1) = SubSeq(t, 1, (i + 1) - 1) \o <<t[i + 1]>>
      BY <1>1, SubSeqRecursiveSecond
    <3>2. (i + 1) - 1 = i
      OBVIOUS
    <3>3. \A s \in Seq(LineKinds) : \A x \in LineKinds : s \o <<x>> = Append(s, x)
      OBVIOUS
    <3>. QED
      BY <2>1, <2>2, <3>1, <3>2, <3>3
  <2>4. Append(SubSeq(t, 1, i), t[i + 1]) \in T
    BY <1>3, <2>1, <2>2
  <2>. QED
    BY <2>3, <2>4
<1>4. P(n)
  <2>. HIDE DEF P, n
  <2>1. 0 \in U /\ \A i \in 0 .. n - 1 : i \in U => i + 1 \in U
    BY <1>1, <1>2, <1>3
  <2>2. n \in U
    <3>. HIDE DEF U
    <3>. QED
      BY <1>1, <2>1, UpTo
  <2>. QED
    BY <2>2
<1>5. SubSeq(t, 1, Len(t)) = t
  BY SubSeqFull
<1>. QED
  BY <1>4, <1>5

\* What Among's function gives at i, from what it gives before.
Picks(t, S, f, i) ==
    IF i = 0 THEN <<>> ELSE IF t[i] \in S THEN Append(f[i - 1], t[i]) ELSE f[i - 1]

\* f solves the recursion up to line n.
Filter(t, S, n, f) == f = [i \in 0 .. n |-> Picks(t, S, f, i)]

\* The recursion holds at every line.
LEMMA FilterAt ==
    ASSUME NEW t, NEW S, NEW n, NEW f, Filter(t, S, n, f), NEW i \in 0 .. n
    PROVE  f[i] = Picks(t, S, f, i)
<1>. DEFINE e == [j \in 0 .. n |-> Picks(t, S, f, j)]
<1>1. f = e
  BY DEF Filter
<1>2. e[i] = Picks(t, S, f, i)
  OBVIOUS
<1>. HIDE DEF e
<1>. QED
  BY <1>1, <1>2

\* The recursion has a solution as far as one goes.
LEMMA FilterExists ==
    ASSUME NEW t, NEW S, NEW n \in Nat
    PROVE  \E f : Filter(t, S, n, f)
<1>. DEFINE T == {k \in Nat : \E f : Filter(t, S, k, f)}
<1>1. 0 \in T
  <2>. DEFINE f0 == [i \in 0 .. 0 |-> <<>>]
  <2>1. Filter(t, S, 0, f0)
    BY DEF Filter, Picks
  <2>. QED
    BY <2>1
<1>2. ASSUME NEW k \in 0 .. n - 1, k \in T
      PROVE  k + 1 \in T
  <2>1. PICK f : Filter(t, S, k, f)
    BY <1>2
  <2>. DEFINE g == [i \in 0 .. k + 1 |-> IF i = k + 1 THEN Picks(t, S, f, i) ELSE f[i]]
  <2>2. \A i \in 0 .. k : g[i] = f[i]
    OBVIOUS
  <2>3. \A i \in 1 .. k + 1 : g[i - 1] = f[i - 1]
    BY <2>2
  <2>4. ASSUME NEW i \in 0 .. k + 1
        PROVE  g[i] = Picks(t, S, g, i)
    <3>1. Picks(t, S, g, i) = Picks(t, S, f, i)
      BY <2>3 DEF Picks
    <3>2. CASE i = k + 1
      BY <3>1, <3>2
    <3>3. CASE i \in 0 .. k
      <4>1. f[i] = Picks(t, S, f, i)
        BY <2>1, <3>3, FilterAt
      <4>. QED
        BY <2>2, <3>1, <3>3, <4>1
    <3>. QED
      BY <3>2, <3>3
  <2>5. g = [i \in 0 .. k + 1 |-> g[i]]
    OBVIOUS
  <2>6. Filter(t, S, k + 1, g)
    <3>. HIDE DEF g
    <3>. QED
      BY <2>4, <2>5 DEF Filter
  <2>. QED
    BY <2>6
<1>3. n \in T
  <2>. HIDE DEF T
  <2>. QED
    BY <1>1, <1>2, UpTo
<1>. QED
  BY <1>3

\* Among is the last value of any solution.
LEMMA AmongIs ==
    ASSUME NEW t \in Seq(LineKinds), NEW S
    PROVE  \E f : Filter(t, S, Len(t), f) /\ Among(t, S) = f[Len(t)]
<1>. DEFINE F == CHOOSE f : Filter(t, S, Len(t), f)
<1>1. Len(t) \in Nat
  BY LenProperties
<1>2. Filter(t, S, Len(t), F)
  BY <1>1, FilterExists
<1>3. Among(t, S) = F[Len(t)]
  BY Zenon DEF Among, Filter, Picks
<1>. HIDE DEF F
<1>. QED
  BY <1>2, <1>3

\* A filter goes through the file line by line.
LEMMA AmongGrows ==
    ASSUME NEW t \in Seq(LineKinds), NEW x \in LineKinds, NEW S
    PROVE  Among(Append(t, x), S) =
             IF x \in S THEN Append(Among(t, S), x) ELSE Among(t, S)
<1>. DEFINE more == Append(t, x)
            n == Len(t)
<1>1. /\ more \in Seq(LineKinds) /\ Len(more) = n + 1 /\ more[n + 1] = x /\ n \in Nat
      /\ \A i \in 1 .. n : more[i] = t[i]
  BY AppendProperties
<1>. HIDE DEF more, n
<1>2. PICK f : Filter(t, S, n, f) /\ Among(t, S) = f[n]
  BY AmongIs DEF n
<1>3. PICK g : Filter(more, S, n + 1, g) /\ Among(more, S) = g[n + 1]
  BY <1>1, AmongIs
<1>. DEFINE T == {i \in 0 .. n : g[i] = f[i]}
<1>4. 0 \in T
  BY <1>1, <1>2, <1>3, FilterAt DEF Picks
<1>5. ASSUME NEW i \in 0 .. n - 1, i \in T
      PROVE  i + 1 \in T
  <2>1. f[i + 1] = Picks(t, S, f, i + 1) /\ g[i + 1] = Picks(more, S, g, i + 1)
    BY <1>1, <1>2, <1>3, FilterAt
  <2>2. more[i + 1] = t[i + 1] /\ (i + 1) - 1 = i /\ i + 1 # 0
    BY <1>1
  <2>. QED
    BY <1>1, <1>5, <2>1, <2>2 DEF Picks
<1>6. n \in T
  <2>. HIDE DEF T
  <2>. QED
    BY <1>1, <1>4, <1>5, UpTo
<1>7. g[n + 1] = Picks(more, S, g, n + 1)
  BY <1>1, <1>3, FilterAt
<1>8. (n + 1) - 1 = n /\ n + 1 # 0
  BY <1>1
<1>. QED
  BY <1>1, <1>2, <1>3, <1>6, <1>7, <1>8 DEF Picks, more

\* Nothing is left of nothing.
LEMMA AmongEmpty == \A S : Among(<<>>, S) = <<>>
<1>. TAKE S
<1>1. <<>> \in Seq(LineKinds) /\ Len(<<>>) = 0
  OBVIOUS
<1>2. PICK f : Filter(<<>>, S, 0, f) /\ Among(<<>>, S) = f[0]
  BY <1>1, AmongIs
<1>. QED
  BY <1>2, FilterAt DEF Picks

\* One line more.
LEMMA OneMore ==
    ASSUME NEW t \in Seq(LineKinds), NEW x \in LineKinds
    PROVE  /\ Append(t, x) \in Seq(LineKinds) /\ Append(t, x) # <<>> /\ Len(t) \in Nat
           /\ Len(Append(t, x)) = Len(t) + 1 /\ Append(t, x)[Len(t) + 1] = x
           /\ \A i \in 1 .. Len(t) : Append(t, x)[i] = t[i]
           /\ \A i \in 1 .. Len(t) + 1 : i \in 1 .. Len(t) \/ i = Len(t) + 1
           /\ \A A : Has(Append(t, x), A) <=> Has(t, A) \/ x \in A
<1>. DEFINE more == Append(t, x)
            n == Len(t)
<1>1. /\ more \in Seq(LineKinds) /\ Len(more) = n + 1 /\ more[n + 1] = x /\ n \in Nat
      /\ more # <<>> /\ \A i \in 1 .. n : more[i] = t[i]
  BY AppendProperties
<1>. HIDE DEF more, n
<1>2. \A i : i \in 1 .. n + 1 <=> i \in 1 .. n \/ i = n + 1
  BY <1>1
<1>3. \A A : (\E i \in 1 .. n + 1 : more[i] \in A) <=> (\E i \in 1 .. n : t[i] \in A) \/ x \in A
  BY <1>1, <1>2
<1>4. \A A : Has(more, A) <=> Has(t, A) \/ x \in A
  BY <1>1, <1>3 DEF Has, n
<1>. QED
  BY <1>1, <1>2, <1>4 DEF more, n

\* The empty file.
LEMMA NoLines == <<>> \in Seq(LineKinds) /\ \A A : ~Has(<<>>, A)
  BY DEF Has

\* A filter keeps the lines of its kinds.
LEMMA AmongHas ==
    ASSUME NEW S, NEW t \in Seq(LineKinds)
    PROVE  /\ Among(t, S) \in Seq(LineKinds)
           /\ \A A : Has(Among(t, S), A) <=> Has(t, A \cap S)
<1>. DEFINE P(s) == /\ Among(s, S) \in Seq(LineKinds)
                    /\ \A A : Has(Among(s, S), A) <=> Has(s, A \cap S)
            T == {s \in Seq(LineKinds) : P(s)}
<1>1. P(<<>>)
  BY NoLines, AmongEmpty
<1>2. ASSUME NEW s \in Seq(LineKinds), NEW x \in LineKinds, P(s)
      PROVE  P(Append(s, x))
  <2>1. Among(Append(s, x), S) = IF x \in S THEN Append(Among(s, S), x) ELSE Among(s, S)
    BY AmongGrows
  <2>2. \A A : Has(Append(s, x), A \cap S) <=> Has(s, A \cap S) \/ x \in A \cap S
    BY OneMore
  <2>3. CASE x \in S
    <3>1. /\ Append(Among(s, S), x) \in Seq(LineKinds)
          /\ \A A : Has(Append(Among(s, S), x), A) <=> Has(Among(s, S), A) \/ x \in A
      BY <1>2, OneMore
    <3>. QED
      BY <1>2, <2>1, <2>2, <2>3, <3>1
  <2>4. CASE x \notin S
    BY <1>2, <2>1, <2>2, <2>4
  <2>. QED
    BY <2>3, <2>4
<1>3. Seq(LineKinds) \subseteq T
  <2>. HIDE DEF P
  <2>1. <<>> \in T /\ \A s \in Seq(LineKinds) : \A x \in LineKinds : s \in T => Append(s, x) \in T
    BY <1>1, <1>2, NoLines, OneMore
  <2>. HIDE DEF T
  <2>. QED
    BY <2>1, LineByLine
<1>. QED
  BY <1>3

\* It leaves a file alone that has no other.
LEMMA AmongAll ==
    ASSUME NEW S, NEW t \in Seq(LineKinds), ~Has(t, LineKinds \ S)
    PROVE  Among(t, S) = t
<1>. DEFINE P(s) == ~Has(s, LineKinds \ S) => Among(s, S) = s
            T == {s \in Seq(LineKinds) : P(s)}
<1>1. P(<<>>)
  BY AmongEmpty
<1>2. ASSUME NEW s \in Seq(LineKinds), NEW x \in LineKinds, P(s)
      PROVE  P(Append(s, x))
  BY <1>2, AmongGrows, OneMore
<1>3. Seq(LineKinds) \subseteq T
  <2>. HIDE DEF P
  <2>1. <<>> \in T /\ \A s \in Seq(LineKinds) : \A x \in LineKinds : s \in T => Append(s, x) \in T
    BY <1>1, <1>2, NoLines, OneMore
  <2>. HIDE DEF T
  <2>. QED
    BY <2>1, LineByLine
<1>. QED
  BY <1>3

\* A second filter that is no wider alone decides.
LEMMA AmongTwice ==
    ASSUME NEW S, NEW R, R \subseteq S, NEW t \in Seq(LineKinds)
    PROVE  Among(Among(t, S), R) = Among(t, R)
<1>. DEFINE P(s) == Among(Among(s, S), R) = Among(s, R)
            T == {s \in Seq(LineKinds) : P(s)}
<1>1. P(<<>>)
  BY AmongEmpty
<1>2. ASSUME NEW s \in Seq(LineKinds), NEW x \in LineKinds, P(s)
      PROVE  P(Append(s, x))
  <2>1. Among(s, S) \in Seq(LineKinds)
    BY AmongHas
  <2>2. /\ Among(Append(s, x), S) = IF x \in S THEN Append(Among(s, S), x) ELSE Among(s, S)
        /\ Among(Append(s, x), R) = IF x \in R THEN Append(Among(s, R), x) ELSE Among(s, R)
        /\ Among(Append(Among(s, S), x), R) = IF x \in R THEN Append(Among(Among(s, S), R), x)
                                              ELSE Among(Among(s, S), R)
    BY <2>1, AmongGrows
  <2>. QED
    BY <1>2, <2>2
<1>3. Seq(LineKinds) \subseteq T
  <2>. HIDE DEF P
  <2>1. <<>> \in T /\ \A s \in Seq(LineKinds) : \A x \in LineKinds : s \in T => Append(s, x) \in T
    BY <1>1, <1>2, NoLines, OneMore
  <2>. HIDE DEF T
  <2>. QED
    BY <2>1, LineByLine
<1>. QED
  BY <1>3

\* What it makes of two parts it makes of both.
LEMMA AmongConcat ==
    ASSUME NEW S, NEW a \in Seq(LineKinds), NEW t \in Seq(LineKinds)
    PROVE  Among(a \o t, S) = Among(a, S) \o Among(t, S)
<1>. DEFINE P(s) == Among(a \o s, S) = Among(a, S) \o Among(s, S)
            T == {s \in Seq(LineKinds) : P(s)}
<1>1. P(<<>>)
  <2>1. a \o <<>> = a /\ Among(a, S) \o <<>> = Among(a, S)
    BY AmongHas, ConcatEmptySeq
  <2>. QED
    BY <2>1, AmongEmpty
<1>2. ASSUME NEW s \in Seq(LineKinds), NEW x \in LineKinds, P(s)
      PROVE  P(Append(s, x))
  <2>1. Among(s, S) \in Seq(LineKinds) /\ Among(a, S) \in Seq(LineKinds) /\ a \o s \in Seq(LineKinds)
    BY AmongHas
  <2>2. \A c, d \in Seq(LineKinds) : c \o Append(d, x) = Append(c \o d, x)
    OBVIOUS
  <2>3. /\ Among(Append(s, x), S) = IF x \in S THEN Append(Among(s, S), x) ELSE Among(s, S)
        /\ Among(Append(a \o s, x), S) = IF x \in S THEN Append(Among(a \o s, S), x)
                                         ELSE Among(a \o s, S)
    BY <2>1, AmongGrows
  <2>4. a \o Append(s, x) = Append(a \o s, x)
    BY <2>2
  <2>5. x \in S => Among(a, S) \o Append(Among(s, S), x) = Append(Among(a, S) \o Among(s, S), x)
    BY <2>1, <2>2
  <2>. HIDE DEF P
  <2>6. Among(a \o s, S) = Among(a, S) \o Among(s, S)
    BY <1>2 DEF P
  <2>7. Among(a \o Append(s, x), S) = Among(a, S) \o Among(Append(s, x), S)
    BY <2>3, <2>4, <2>5, <2>6
  <2>. QED
    BY <2>7 DEF P
<1>3. Seq(LineKinds) \subseteq T
  <2>. HIDE DEF P
  <2>1. <<>> \in T /\ \A s \in Seq(LineKinds) : \A x \in LineKinds : s \in T => Append(s, x) \in T
    BY <1>1, <1>2, NoLines, OneMore
  <2>. HIDE DEF T
  <2>. QED
    BY <2>1, LineByLine
<1>. QED
  BY <1>3

\* Every guard comes after an auth line.
Sheltered(t) ==
    \A j \in 1 .. Len(t) : t[j] = "guard" => \E m \in 1 .. j - 1 : t[m] = "auth"

\* One line more.
LEMMA ShelteredMore ==
    ASSUME NEW t \in Seq(LineKinds), NEW x \in LineKinds
    PROVE  Sheltered(Append(t, x)) <=> Sheltered(t) /\ (x = "guard" => Has(t, {"auth"}))
<1>. DEFINE more == Append(t, x)
            n == Len(t)
<1>1. /\ Len(more) = n + 1 /\ more[n + 1] = x /\ n \in Nat
      /\ \A i \in 1 .. n : more[i] = t[i]
      /\ \A i \in 1 .. n + 1 : i \in 1 .. n \/ i = n + 1
  BY OneMore
<1>. HIDE DEF more, n
<1>2. (n + 1) - 1 = n /\ n + 1 \in 1 .. n + 1 /\ \A i \in 1 .. n : i \in 1 .. n + 1
  BY <1>1
<1>3. \A j \in 1 .. n + 1 : \A m \in 1 .. j - 1 : m \in 1 .. n
  BY <1>1
<1>4. \A j \in 1 .. n + 1 :
        (\E m \in 1 .. j - 1 : more[m] = "auth") <=> (\E m \in 1 .. j - 1 : t[m] = "auth")
  BY <1>1, <1>3
<1>5. Sheltered(more) <=> \A j \in 1 .. n + 1 : more[j] = "guard" => \E m \in 1 .. j - 1 : t[m] = "auth"
  BY <1>1, <1>4 DEF Sheltered
<1>6. Sheltered(t) <=> \A j \in 1 .. n : t[j] = "guard" => \E m \in 1 .. j - 1 : t[m] = "auth"
  BY DEF Sheltered, n
<1>7. Has(t, {"auth"}) <=> \E m \in 1 .. n : t[m] = "auth"
  BY DEF Has, n
<1>8. Sheltered(more) <=> Sheltered(t) /\ (x = "guard" => Has(t, {"auth"}))
  BY <1>1, <1>2, <1>5, <1>6, <1>7
<1>. QED
  BY <1>8 DEF more

\* A filter for guards and auth lines keeps it so.
LEMMA AmongSheltered ==
    ASSUME NEW S, {"auth", "guard"} \subseteq S, NEW t \in Seq(LineKinds), Sheltered(t)
    PROVE  Sheltered(Among(t, S))
<1>. DEFINE P(s) == Sheltered(s) => Sheltered(Among(s, S))
            T == {s \in Seq(LineKinds) : P(s)}
<1>1. P(<<>>)
  BY AmongEmpty
<1>2. ASSUME NEW s \in Seq(LineKinds), NEW x \in LineKinds, P(s)
      PROVE  P(Append(s, x))
  <2>. SUFFICES ASSUME Sheltered(Append(s, x))
                PROVE  Sheltered(Among(Append(s, x), S))
    OBVIOUS
  <2>1. Sheltered(s) /\ (x = "guard" => Has(s, {"auth"}))
    BY ShelteredMore
  <2>2. Among(s, S) \in Seq(LineKinds) /\ (Has(Among(s, S), {"auth"}) <=> Has(s, {"auth"}))
    <3>1. {"auth"} \cap S = {"auth"}
      OBVIOUS
    <3>. QED
      BY <3>1, AmongHas
  <2>3. Sheltered(Append(Among(s, S), x))
    BY <1>2, <2>1, <2>2, ShelteredMore
  <2>. QED
    BY <1>2, <2>1, <2>3, AmongGrows
<1>3. Seq(LineKinds) \subseteq T
  <2>. HIDE DEF P
  <2>1. <<>> \in T /\ \A s \in Seq(LineKinds) : \A x \in LineKinds : s \in T => Append(s, x) \in T
    BY <1>1, <1>2, NoLines, OneMore
  <2>. HIDE DEF T
  <2>. QED
    BY <2>1, LineByLine
<1>. QED
  BY <1>3

\* A file of two parts has the lines of both.
LEMMA ConcatHas ==
    ASSUME NEW a \in Seq(LineKinds), NEW b \in Seq(LineKinds)
    PROVE  /\ a \o b \in Seq(LineKinds)
           /\ \A A : Has(a \o b, A) <=> Has(a, A) \/ Has(b, A)
<1>. DEFINE c == a \o b
            p == Len(a)
            q == Len(b)
<1>1. /\ c \in Seq(LineKinds) /\ Len(c) = p + q /\ p \in Nat /\ q \in Nat
      /\ \A i \in 1 .. p + q : c[i] = IF i <= p THEN a[i] ELSE b[i - p]
  BY ConcatProperties, LenProperties
<1>. HIDE DEF c, p, q
<1>2. \A i \in 1 .. p + q : i \in 1 .. p \/ i - p \in 1 .. q
  BY <1>1
<1>3. \A i \in 1 .. p : i \in 1 .. p + q /\ c[i] = a[i]
  BY <1>1
<1>4. \A i \in 1 .. q : p + i \in 1 .. p + q /\ c[p + i] = b[i]
  BY <1>1
<1>5. \A i \in 1 .. p + q : i \in 1 .. p \/ (i - p \in 1 .. q /\ c[i] = b[i - p])
  BY <1>1
<1>6. \A A : (\E i \in 1 .. p + q : c[i] \in A) <=>
             (\E i \in 1 .. p : a[i] \in A) \/ (\E i \in 1 .. q : b[i] \in A)
  BY <1>3, <1>4, <1>5
<1>7. \A A : Has(c, A) <=> Has(a, A) \/ Has(b, A)
  BY <1>1, <1>6 DEF Has, p, q
<1>. QED
  BY <1>1, <1>7 DEF c

\* A file is what is before a line, the line and what follows.
LEMMA CutAt ==
    ASSUME NEW t \in Seq(LineKinds), NEW i \in 1 .. Len(t)
    PROVE  /\ SubSeq(t, 1, i - 1) \in Seq(LineKinds) /\ SubSeq(t, i + 1, Len(t)) \in Seq(LineKinds)
           /\ Len(SubSeq(t, 1, i - 1)) = i - 1 /\ Len(SubSeq(t, i + 1, Len(t))) = Len(t) - i
           /\ \A j \in 1 .. i - 1 : SubSeq(t, 1, i - 1)[j] = t[j]
           /\ \A j \in 1 .. Len(t) - i : SubSeq(t, i + 1, Len(t))[j] = t[i + j]
           /\ t[i] \in LineKinds
           /\ t = SubSeq(t, 1, i - 1) \o (<<t[i]>> \o SubSeq(t, i + 1, Len(t)))
<1>. DEFINE n == Len(t)
            a == SubSeq(t, 1, i - 1)
            b == SubSeq(t, i + 1, n)
<1>1. n \in Nat /\ t[i] \in LineKinds /\ i \in 1 .. n
  BY LenProperties, ElementOfSeq
<1>2. \A j \in 1 .. n : t[j] \in LineKinds
  BY ElementOfSeq
<1>3. /\ a \in Seq(LineKinds)
      /\ Len(a) = IF 1 <= i - 1 THEN (i - 1) - 1 + 1 ELSE 0
      /\ \A j \in 1 .. (i - 1) - 1 + 1 : a[j] = t[1 + j - 1]
  <2>1. i - 1 \in Int /\ \A j \in 1 .. i - 1 : t[j] \in LineKinds
    BY <1>1, <1>2
  <2>. QED
    BY <2>1, SubSeqProperties
<1>4. /\ b \in Seq(LineKinds)
      /\ Len(b) = IF i + 1 <= n THEN n - (i + 1) + 1 ELSE 0
      /\ \A j \in 1 .. n - (i + 1) + 1 : b[j] = t[i + 1 + j - 1]
  <2>1. i + 1 \in Int /\ n \in Int /\ \A j \in i + 1 .. n : t[j] \in LineKinds
    BY <1>1, <1>2
  <2>. QED
    BY <2>1, SubSeqProperties
<1>5. t = a \o (<<t[i]>> \o b)
  <2>. DEFINE c == SubSeq(t, i, n)
  <2>1. SubSeq(t, 1, n) = t
    BY SubSeqFull
  <2>2. c = <<t[i]>> \o b
    BY <1>1, SubSeqRecursiveFirst
  <2>3. (i - 1) + 1 = i
    BY <1>1
  <2>4. a \o c = SubSeq(t, 1, n)
    <3>1. 1 \in 1 .. n + 1 /\ i - 1 \in 1 - 1 .. n /\ n \in i - 1 .. n
      BY <1>1
    <3>2. a \o SubSeq(t, (i - 1) + 1, n) = SubSeq(t, 1, n)
      BY <3>1, ConcatAdjacentSubSeq
    <3>. QED
      BY <2>3, <3>2, Zenon
  <2>. HIDE DEF a, b, c, n
  <2>. QED
    BY <2>1, <2>2, <2>4, Zenon
<1>6. /\ (IF 1 <= i - 1 THEN (i - 1) - 1 + 1 ELSE 0) = i - 1
      /\ (IF i + 1 <= n THEN n - (i + 1) + 1 ELSE 0) = n - i
      /\ (i - 1) - 1 + 1 = i - 1 /\ n - (i + 1) + 1 = n - i
      /\ \A j \in Int : 1 + j - 1 = j /\ i + 1 + j - 1 = i + j
  BY <1>1
<1>. HIDE DEF a, b, n
<1>7. Len(a) = i - 1 /\ \A j \in 1 .. i - 1 : a[j] = t[j]
  BY <1>1, <1>3, <1>6
<1>8. Len(b) = n - i /\ \A j \in 1 .. n - i : b[j] = t[i + j]
  BY <1>1, <1>4, <1>6
<1>. QED
  BY <1>1, <1>3, <1>4, <1>5, <1>7, <1>8, Zenon DEF a, b, n

\* There is a first anchor.
LEMMA PlaceFirst ==
    ASSUME NEW t \in Seq(LineKinds), Has(t, Anchors)
    PROVE  /\ Place(t) \in 1 .. Len(t) /\ t[Place(t)] \in Anchors
           /\ \A j \in 1 .. Place(t) - 1 : t[j] \notin Anchors
<1>. DEFINE n == Len(t)
            T == {j \in 1 .. n : t[j] \in Anchors}
<1>1. n \in Nat /\ T # {} /\ T \subseteq Nat
  BY LenProperties DEF Has
<1>2. PICK i \in T : \A j \in T : i <= j
  <2>. HIDE DEF T
  <2>. QED
    BY <1>1, LeastNumber
<1>3. \A j \in 1 .. i - 1 : j \in 1 .. n /\ ~(i <= j)
  BY <1>1
<1>4. i \in 1 .. n /\ t[i] \in Anchors /\ \A j \in 1 .. i - 1 : t[j] \notin Anchors
  BY <1>2, <1>3
<1>. QED
  BY <1>4 DEF Place

\* Our line between two parts of a file is in front, if they allow it.
LEMMA Around ==
    ASSUME NEW a \in Seq(LineKinds), ~Has(a, {"auth", "ours", "old"}),
           NEW b \in Seq(LineKinds), ~Has(b, {"ours", "old"}), Sheltered(b),
           NEW t, t = a \o (<<"ours">> \o b)
    PROVE  t \in Seq(LineKinds) /\ Has(t, {"ours"}) /\ Placed(t)
<1>. DEFINE p == Len(a)
            q == Len(b)
<1>1. <<"ours">> \in Seq(LineKinds) /\ Len(<<"ours">>) = 1 /\ <<"ours">>[1] = "ours"
  BY DEF LineKinds
<1>2. p \in Nat /\ q \in Nat
  BY LenProperties
<1>3. /\ <<"ours">> \o b \in Seq(LineKinds) /\ Len(<<"ours">> \o b) = 1 + q
      /\ \A i \in 1 .. 1 + q : (<<"ours">> \o b)[i] = IF i <= 1 THEN <<"ours">>[i] ELSE b[i - 1]
  BY <1>1, ConcatProperties
<1>. DEFINE c == <<"ours">> \o b
<1>4. /\ t \in Seq(LineKinds) /\ Len(t) = p + Len(c)
      /\ \A i \in 1 .. p + Len(c) : t[i] = IF i <= p THEN a[i] ELSE c[i - p]
  BY <1>3, ConcatProperties
<1>5. Has(t, {"ours"})
  <2>1. Has(<<"ours">>, {"ours"})
    BY <1>1 DEF Has
  <2>. QED
    BY <1>1, <1>3, <2>1, ConcatHas
<1>. HIDE DEF p, q, c
<1>6. /\ Len(t) = (p + 1) + q /\ t[p + 1] = "ours" /\ p + 1 \in 1 .. Len(t)
      /\ \A i \in 1 .. p : t[i] = a[i]
      /\ \A i \in 1 .. q : t[(p + 1) + i] = b[i]
  <2>1. /\ Len(c) = 1 + q /\ c[1] = "ours" /\ \A i \in 1 .. q : c[i + 1] = b[i]
    <3>1. \A i \in 1 .. q : i + 1 \in 1 .. 1 + q /\ ~(i + 1 <= 1) /\ (i + 1) - 1 = i
      BY <1>2
    <3>2. 1 \in 1 .. 1 + q
      BY <1>2
    <3>. QED
      BY <1>1, <1>3, <3>1, <3>2 DEF c
  <2>2. /\ (p + 1) - p = 1 /\ p + 1 \in 1 .. p + (1 + q) /\ ~(p + 1 <= p)
        /\ p + (1 + q) = (p + 1) + q
    BY <1>2
  <2>3. \A i \in 1 .. q : /\ (p + 1) + i \in 1 .. p + (1 + q) /\ ~((p + 1) + i <= p)
                          /\ ((p + 1) + i) - p = i + 1
    BY <1>2
  <2>4. \A i \in 1 .. p : i \in 1 .. p + (1 + q) /\ i <= p
    BY <1>2
  <2>. QED
    BY <1>4, <2>1, <2>2, <2>3, <2>4
<1>. DEFINE k == p + 1
<1>7. /\ k \in Nat /\ Len(t) = k + q /\ t[k] = "ours" /\ k \in 1 .. Len(t)
      /\ \A i \in 1 .. k - 1 : t[i] = a[i] /\ i \in 1 .. p
      /\ \A i \in 1 .. q : t[k + i] = b[i]
  BY <1>2, <1>6
<1>8. /\ \A i \in 1 .. p : a[i] \notin {"auth", "ours", "old"}
      /\ \A i \in 1 .. q : b[i] \notin {"ours", "old"}
  BY DEF Has, p, q
<1>. HIDE DEF k
<1>9. \A j \in 1 .. Len(t) : j \in 1 .. k - 1 \/ j = k \/ \E i \in 1 .. q : j = k + i
  <2>1. \A j \in 1 .. Len(t) : j \in 1 .. k - 1 \/ j = k \/ (j - k \in 1 .. q /\ j = k + (j - k))
    BY <1>2, <1>7
  <2>. QED
    BY <2>1
<1>10. \A j \in 1 .. Len(t) : t[j] \in {"ours", "old"} <=> j = k
  <2>. SUFFICES ASSUME NEW j \in 1 .. Len(t)
                PROVE  t[j] \in {"ours", "old"} <=> j = k
    OBVIOUS
  <2>1. CASE j \in 1 .. k - 1
    BY <1>7, <1>8, <2>1
  <2>2. CASE j = k
    BY <1>7, <2>2
  <2>3. ASSUME NEW i \in 1 .. q, j = k + i
        PROVE  t[j] \in {"ours", "old"} <=> j = k
    BY <1>7, <1>8, <2>3
  <2>. QED
    BY <1>9, <2>1, <2>2, <2>3
<1>11. InFront(t, k)
  <2>1. \A j \in 1 .. k - 1 : t[j] # "auth"
    BY <1>7, <1>8
  <2>2. ASSUME NEW j \in k + 1 .. Len(t), t[j] = "guard"
        PROVE  \E m \in k + 1 .. j - 1 : t[m] = "auth"
    <3>1. j - k \in 1 .. q /\ k + (j - k) = j
      BY <1>2, <1>7
    <3>2. b[j - k] = "guard"
      BY <1>7, <2>2, <3>1
    <3>3. PICK i \in 1 .. (j - k) - 1 : b[i] = "auth"
      BY <3>1, <3>2 DEF Sheltered, q
    <3>4. i \in 1 .. q /\ k + i \in k + 1 .. j - 1
      BY <1>2, <1>7, <3>1
    <3>5. t[k + i] = "auth"
      BY <1>7, <3>3, <3>4
    <3>. QED
      BY <3>4, <3>5
  <2>. QED
    BY <2>1, <2>2 DEF InFront
<1>12. OnceInFront(t)
  BY <1>7, <1>10, <1>11 DEF OnceInFront
<1>13. \A j \in 1 .. Len(t) : t[j] # "old"
  BY <1>7, <1>10
<1>. QED
  BY <1>4, <1>5, <1>12, <1>13 DEF Placed

\* A mark is no part of what InFront and Anchors are about, so a head may lose one.
LEMMA LastMark ==
    ASSUME NEW a \in Seq(LineKinds)
    PROVE  /\ WithoutLastMark(a) \in Seq(LineKinds)
           /\ \A A : "mark" \notin A => (Has(WithoutLastMark(a), A) <=> Has(a, A))
           /\ Restored(WithoutLastMark(a)) = Restored(a)
<1>1. CASE ~(a # <<>> /\ a[Len(a)] = "mark")
  <2>1. WithoutLastMark(a) = a
    BY <1>1 DEF WithoutLastMark
  <2>. QED
    BY <2>1
<1>2. CASE a # <<>> /\ a[Len(a)] = "mark"
  <2>. DEFINE s == SubSeq(a, 1, Len(a) - 1)
  <2>1. WithoutLastMark(a) = s
    BY <1>2 DEF WithoutLastMark
  <2>2. s \in Seq(LineKinds) /\ a = Append(s, "mark")
    BY <1>2
  <2>3. "mark" \in LineKinds /\ "mark" \notin LineKinds \ Ours
    BY DEF LineKinds, Ours
  <2>. HIDE DEF s
  <2>4. \A A : Has(a, A) <=> Has(s, A) \/ "mark" \in A
    BY <2>2, <2>3, OneMore
  <2>5. Restored(a) = Restored(s)
    BY <2>2, <2>3, AmongGrows DEF Restored
  <2>. QED
    BY <2>1, <2>2, <2>4, <2>5
<1>. QED
  BY <1>1, <1>2

\* What a file of one line is.
LEMMA SingleLine ==
    ASSUME NEW x \in LineKinds
    PROVE  /\ <<x>> \in Seq(LineKinds) /\ Len(<<x>>) = 1 /\ <<x>>[1] = x
           /\ \A A : Has(<<x>>, A) <=> x \in A
           /\ \A S : Among(<<x>>, S) = IF x \in S THEN <<x>> ELSE <<>>
<1>. DEFINE e == <<>>
            w == <<x>>
<1>1. Append(e, x) = w /\ w \in Seq(LineKinds) /\ Len(w) = 1 /\ w[1] = x
  OBVIOUS
<1>2. e \in Seq(LineKinds) /\ (\A A : ~Has(e, A)) /\ (\A S : Among(e, S) = e)
  BY NoLines, AmongEmpty
<1>3. \A S : (IF x \in S THEN Append(e, x) ELSE e) = (IF x \in S THEN w ELSE e)
  BY <1>1
<1>. HIDE DEF e, w
<1>4. \A A : Has(w, A) <=> x \in A
  BY <1>1, <1>2, OneMore
<1>5. \A S : Among(w, S) = IF x \in S THEN w ELSE e
  BY <1>1, <1>2, <1>3, AmongGrows
<1>. QED
  BY <1>1, <1>4, <1>5 DEF e, w

\* What is behind a line that is in front shelters its guards.
LEMMA TailSheltered ==
    ASSUME NEW t \in Seq(LineKinds), NEW k \in 1 .. Len(t), InFront(t, k)
    PROVE  Sheltered(SubSeq(t, k + 1, Len(t)))
<1>. DEFINE b == SubSeq(t, k + 1, Len(t))
            n == Len(t)
<1>1. n \in Nat /\ Len(b) = n - k /\ \A j \in 1 .. n - k : b[j] = t[k + j]
  BY CutAt, LenProperties
<1>2. \A j \in k + 1 .. n : t[j] = "guard" => \E m \in k + 1 .. j - 1 : t[m] = "auth"
  BY DEF InFront
<1>. HIDE DEF b, n
<1>3. ASSUME NEW j \in 1 .. n - k, b[j] = "guard"
      PROVE  \E m \in 1 .. j - 1 : b[m] = "auth"
  <2>1. k + j \in k + 1 .. n
    BY <1>1
  <2>2. PICK m \in k + 1 .. (k + j) - 1 : t[m] = "auth"
    BY <1>1, <1>2, <1>3, <2>1
  <2>3. m - k \in 1 .. j - 1 /\ m - k \in 1 .. n - k /\ k + (m - k) = m
    BY <1>1, <2>1
  <2>. QED
    BY <1>1, <2>2, <2>3
<1>. QED
  BY <1>1, <1>3 DEF Sheltered, b

\* An auth line in front shelters everything.
LEMMA AuthShelters ==
    ASSUME NEW b \in Seq(LineKinds)
    PROVE  Sheltered(<<"auth">> \o b)
<1>. DEFINE c == <<"auth">> \o b
            q == Len(b)
<1>1. "auth" \in LineKinds /\ q \in Nat
  BY LenProperties DEF LineKinds
<1>2. <<"auth">> \in Seq(LineKinds) /\ Len(<<"auth">>) = 1 /\ <<"auth">>[1] = "auth"
  BY <1>1, SingleLine
<1>3. Len(c) = 1 + q /\ \A i \in 1 .. 1 + q : c[i] = IF i <= 1 THEN <<"auth">>[i] ELSE b[i - 1]
  BY <1>2, ConcatProperties
<1>. HIDE DEF c, q
<1>4. c[1] = "auth" /\ Len(c) = 1 + q
  BY <1>1, <1>2, <1>3
<1>5. \A j \in 1 .. 1 + q : j # 1 => 1 \in 1 .. j - 1
  BY <1>1
<1>6. \A j \in 1 .. Len(c) : c[j] = "guard" => \E m \in 1 .. j - 1 : c[m] = "auth"
  BY <1>4, <1>5
<1>. QED
  BY <1>6 DEF Sheltered, c

\* How the parts of a file are put together does not matter.
LEMMA Regroup ==
    ASSUME NEW a \in Seq(LineKinds), NEW b \in Seq(LineKinds), NEW c \in Seq(LineKinds)
    PROVE  (a \o b) \o c = a \o (b \o c)
  BY ConcatAssociative

\* The same under a name of its own, which keeps the provers to these laws.
Joined(a, b) == a \o b

LEMMA Regroup4 ==
    ASSUME NEW h \in Seq(LineKinds), NEW m \in Seq(LineKinds), NEW o \in Seq(LineKinds),
           NEW g \in Seq(LineKinds), NEW b \in Seq(LineKinds)
    PROVE  Joined(Joined(h, Joined(m, Joined(o, g))), b) =
             Joined(Joined(h, m), Joined(o, Joined(g, b)))
<1>. DEFINE F == Seq(LineKinds)
<1>1. \A u, v, w \in F : Joined(Joined(u, v), w) = Joined(u, Joined(v, w))
  BY Regroup DEF Joined
<1>2. \A u, v \in F : Joined(u, v) \in F
  BY ConcatHas DEF Joined
<1>3. h \in F /\ m \in F /\ o \in F /\ g \in F /\ b \in F
  OBVIOUS
<1>. HIDE DEF F
<1>4. Joined(Joined(h, Joined(m, Joined(o, g))), b) = Joined(h, Joined(m, Joined(o, Joined(g, b))))
  BY <1>1, <1>2, <1>3
<1>5. Joined(Joined(h, m), Joined(o, Joined(g, b))) = Joined(h, Joined(m, Joined(o, Joined(g, b))))
  BY <1>1, <1>2, <1>3
<1>. QED
  BY <1>4, <1>5

\* pam_remove leaves no line of ours.
LEMMA RestoredSeq ==
    ASSUME NEW t \in Seq(LineKinds)
    PROVE  Restored(t) \in Seq(LineKinds) /\ ~HasOurs(Restored(t))
<1>1. Ours \cap (LineKinds \ Ours) = {} /\ ~Has(t, {})
  BY DEF Has
<1>. QED
  BY <1>1, AmongHas DEF Restored, HasOurs

\* The parts a file falls into at the first anchor, when today's line is not in it.
LEMMA AtPlace ==
    ASSUME NEW t \in Seq(LineKinds), Placed(t), ~Has(t, {"ours"}), Has(t, Anchors)
    PROVE  \E a, r \in Seq(LineKinds) :
              /\ a = SubSeq(t, 1, Place(t) - 1) /\ r = SubSeq(t, Place(t) + 1, Len(t))
              /\ t[Place(t)] \in Anchors
              /\ ~Has(a, {"auth", "ours", "old"}) /\ ~Has(r, {"ours"})
              /\ t[Place(t)] = "old" => Sheltered(r)
              /\ Restored(t) = Restored(a) \o (Restored(<<t[Place(t)]>>) \o Restored(r))
<1>. DEFINE i == Place(t)
            a == SubSeq(t, 1, i - 1)
            r == SubSeq(t, i + 1, Len(t))
            x == t[i]
            y == <<x>>
            z == y \o r
<1>1. i \in 1 .. Len(t) /\ x \in Anchors /\ \A j \in 1 .. i - 1 : t[j] \notin Anchors
  BY PlaceFirst
<1>2. InFront(t, i) => Sheltered(r)
  BY <1>1, TailSheltered
<1>3. x = "old" => InFront(t, i)
  BY <1>1 DEF Placed, Anchors
<1>. HIDE DEF i
<1>4. /\ a \in Seq(LineKinds) /\ r \in Seq(LineKinds) /\ Len(a) = i - 1 /\ x \in LineKinds
      /\ \A j \in 1 .. i - 1 : a[j] = t[j]
      /\ t = a \o z
  BY <1>1, CutAt
<1>. HIDE DEF a, r, x
<1>5. y \in Seq(LineKinds)
  BY <1>4, SingleLine
<1>. HIDE DEF y
<1>6. z \in Seq(LineKinds) /\ \A A : Has(z, A) <=> Has(y, A) \/ Has(r, A)
  BY <1>4, <1>5, ConcatHas
<1>7. Restored(z) = Restored(y) \o Restored(r)
  BY <1>4, <1>5, AmongConcat DEF Restored
<1>. HIDE DEF z
<1>8. \A A : Has(t, A) <=> Has(a, A) \/ Has(z, A)
  BY <1>4, <1>6, ConcatHas
<1>9. Restored(t) = Restored(a) \o Restored(z)
  BY <1>4, <1>6, AmongConcat DEF Restored
<1>10. ~Has(a, {"ours"}) /\ ~Has(r, {"ours"})
  BY <1>6, <1>8
<1>11. ~Has(a, {"auth", "ours", "old"})
  <2>1. \A j \in 1 .. i - 1 : a[j] \notin {"auth", "old"} /\ a[j] # "ours"
    BY <1>1, <1>4, <1>10 DEF Has, Anchors
  <2>. QED
    BY <1>4, <2>1 DEF Has
<1>12. a = SubSeq(t, 1, i - 1) /\ r = SubSeq(t, i + 1, Len(t))
  BY DEF a, r
<1>13. Restored(t) = Restored(a) \o (Restored(<<x>>) \o Restored(r))
  BY <1>7, <1>9 DEF y
<1>. QED
  BY <1>1, <1>2, <1>3, <1>4, <1>10, <1>11, <1>12, <1>13, Zenon DEF i, x

\* pam_add puts its line in front and changes nothing else.
LEMMA InsertedText ==
    ASSUME NEW t \in Seq(LineKinds), Placed(t), ~Has(t, {"ours"}), Has(t, Anchors)
    PROVE  /\ Inserted(t) \in Seq(LineKinds) /\ Has(Inserted(t), {"ours"}) /\ Placed(Inserted(t))
           /\ Restored(Inserted(t)) = Restored(t)
<1>. DEFINE x == t[Place(t)]
<1>1. PICK a \in Seq(LineKinds), r \in Seq(LineKinds) :
        /\ a = SubSeq(t, 1, Place(t) - 1) /\ r = SubSeq(t, Place(t) + 1, Len(t))
        /\ x \in Anchors
        /\ ~Has(a, {"auth", "ours", "old"}) /\ ~Has(r, {"ours"})
        /\ x = "old" => Sheltered(r)
        /\ Restored(t) = Restored(a) \o (Restored(<<x>>) \o Restored(r))
  BY AtPlace
<1>. DEFINE b == DropOld(r)
<1>2. /\ b \in Seq(LineKinds) /\ ~Has(b, {"ours", "old"}) /\ Restored(b) = Restored(r)
      /\ x = "old" => Sheltered(b)
  <2>. DEFINE S == LineKinds \ {"old"}
  <2>1. {"ours", "old"} \cap S = {"ours"} /\ {"auth", "guard"} \subseteq S /\ LineKinds \ Ours \subseteq S
    BY DEF LineKinds, Ours
  <2>. HIDE DEF S
  <2>2. b = Among(r, S)
    BY DEF DropOld, S
  <2>3. b \in Seq(LineKinds) /\ (Has(b, {"ours", "old"}) <=> Has(r, {"ours"}))
    BY <2>1, <2>2, AmongHas
  <2>4. Restored(b) = Restored(r)
    BY <2>1, <2>2, AmongTwice DEF Restored
  <2>5. x = "old" => Sheltered(b)
    BY <1>1, <2>1, <2>2, AmongSheltered
  <2>. QED
    BY <1>1, <2>3, <2>4, <2>5
<1>3. Inserted(t) = IF x = "old" THEN a \o <<"ours">> \o b
                    ELSE WithoutLastMark(a) \o <<"mark", "ours", x>> \o b
  BY <1>1 DEF Inserted
<1>. HIDE DEF x, b
<1>4. /\ {"ours", "mark", "auth", "old"} \subseteq LineKinds
      /\ "ours" \notin LineKinds \ Ours /\ "mark" \notin LineKinds \ Ours
      /\ "old" \notin LineKinds \ Ours /\ "auth" \in LineKinds \ Ours
  BY DEF LineKinds, Ours
<1>5. /\ \A y \in {"ours", "mark", "old"} : <<y>> \in Seq(LineKinds) /\ Restored(<<y>>) = <<>>
      /\ <<"auth">> \in Seq(LineKinds)
  BY <1>4, SingleLine DEF Restored
<1>6. /\ Restored(a) \in Seq(LineKinds) /\ Restored(b) \in Seq(LineKinds)
      /\ Restored(<<x>>) \o Restored(r) \in Seq(LineKinds) /\ Restored(<<"auth">>) \in Seq(LineKinds)
  <2>1. <<x>> \in Seq(LineKinds)
    BY <1>1, <1>4, SingleLine DEF Anchors
  <2>2. Restored(<<x>>) \in Seq(LineKinds) /\ Restored(r) \in Seq(LineKinds)
    BY <1>1, <2>1, RestoredSeq
  <2>3. Restored(<<x>>) \o Restored(r) \in Seq(LineKinds)
    BY <2>2, ConcatHas
  <2>4. Restored(<<"auth">>) \in Seq(LineKinds)
    BY <1>5, RestoredSeq
  <2>5. Restored(a) \in Seq(LineKinds) /\ Restored(b) \in Seq(LineKinds)
    BY <1>2, RestoredSeq
  <2>. QED
    BY <2>3, <2>4, <2>5
<1>. DEFINE c == <<"ours">> \o b
<1>7. c \in Seq(LineKinds) /\ Restored(c) = Restored(b)
  <2>1. c \in Seq(LineKinds)
    BY <1>2, <1>5, ConcatHas
  <2>2. Restored(c) = Restored(<<"ours">>) \o Restored(b)
    BY <1>2, <1>5, AmongConcat DEF Restored
  <2>3. Restored(<<"ours">>) = <<>> /\ <<>> \o Restored(b) = Restored(b)
    BY <1>5, <1>6, ConcatEmptySeq
  <2>. QED
    BY <2>1, <2>2, <2>3
<1>8. CASE x = "old"
  <2>1. Inserted(t) = a \o c
    BY <1>2, <1>3, <1>5, <1>8, ConcatAssociative
  <2>2. a \o c \in Seq(LineKinds) /\ Has(a \o c, {"ours"}) /\ Placed(a \o c)
    BY <1>1, <1>2, <1>8, Around
  <2>3. Restored(a \o c) = Restored(a) \o Restored(c)
    BY <1>7, AmongConcat DEF Restored
  <2>4. Restored(<<x>>) \o Restored(r) = Restored(r)
    BY <1>2, <1>5, <1>6, <1>8, ConcatEmptySeq
  <2>. HIDE DEF c
  <2>5. Restored(a \o c) = Restored(t)
    BY <1>1, <1>2, <1>7, <2>3, <2>4
  <2>. QED
    BY <2>1, <2>2, <2>5
<1>9. CASE x = "auth"
  <2>. DEFINE h == WithoutLastMark(a)
              m == <<"mark">>
              a1 == h \o m
              g == <<"auth">>
              b1 == g \o b
              o == <<"ours">>
              c1 == o \o b1
  <2>1. h \in Seq(LineKinds) /\ ~Has(h, {"auth", "ours", "old"}) /\ Restored(h) = Restored(a)
    BY <1>1, LastMark
  <2>. HIDE DEF h
  <2>2. m \in Seq(LineKinds) /\ ~Has(m, {"auth", "ours", "old"}) /\ Restored(m) = <<>>
    BY <1>4, <1>5, SingleLine
  <2>3. g \in Seq(LineKinds) /\ ~Has(g, {"ours", "old"})
    BY <1>4, <1>5, SingleLine
  <2>4. Sheltered(b1)
    BY <1>2, AuthShelters
  <2>5. o \in Seq(LineKinds) /\ Restored(o) = <<>>
    BY <1>5
  <2>6. Inserted(t) = a1 \o c1
    <3>1. <<"mark", "ours", "auth">> = m \o (o \o g)
      OBVIOUS
    <3>2. Inserted(t) = (h \o (m \o (o \o g))) \o b
      BY <1>3, <1>9, <3>1 DEF h
    <3>. HIDE DEF m, o, g
    <3>3. b \in Seq(LineKinds) /\ m \in Seq(LineKinds) /\ o \in Seq(LineKinds)
      BY <1>2, <2>2, <2>5
    <3>4. Joined(Joined(h, Joined(m, Joined(o, g))), b) = Joined(Joined(h, m), Joined(o, Joined(g, b)))
      BY <2>1, <2>3, <3>3, Regroup4
    <3>. QED
      BY <3>2, <3>4, Zenon DEF Joined
  <2>. HIDE DEF m, g
  <2>7. a1 \in Seq(LineKinds) /\ ~Has(a1, {"auth", "ours", "old"}) /\ Restored(a1) = Restored(a)
    <3>1. a1 \in Seq(LineKinds) /\ ~Has(a1, {"auth", "ours", "old"})
      BY <2>1, <2>2, ConcatHas
    <3>2. Restored(a1) = Restored(h) \o Restored(m)
      BY <2>1, <2>2, AmongConcat DEF Restored
    <3>3. Restored(a) \o <<>> = Restored(a)
      BY <1>6, ConcatEmptySeq
    <3>. QED
      BY <2>1, <2>2, <3>1, <3>2, <3>3
  <2>8. b1 \in Seq(LineKinds) /\ ~Has(b1, {"ours", "old"}) /\ Restored(b1) = Restored(g) \o Restored(b)
    <3>1. b1 \in Seq(LineKinds) /\ ~Has(b1, {"ours", "old"})
      BY <1>2, <2>3, ConcatHas
    <3>2. Restored(b1) = Restored(g) \o Restored(b)
      BY <1>2, <2>3, AmongConcat DEF Restored
    <3>. QED
      BY <3>1, <3>2
  <2>. HIDE DEF a1, b1
  <2>9. c1 \in Seq(LineKinds) /\ Restored(c1) = Restored(b1)
    <3>1. c1 \in Seq(LineKinds) /\ Restored(c1) = Restored(o) \o Restored(b1)
      <4>. HIDE DEF o
      <4>1. c1 \in Seq(LineKinds)
        BY <2>5, <2>8, ConcatHas
      <4>2. Restored(c1) = Restored(o) \o Restored(b1)
        BY <2>5, <2>8, AmongConcat DEF Restored
      <4>. QED
        BY <4>1, <4>2
    <3>2. Restored(b1) \in Seq(LineKinds)
      BY <2>8, AmongHas DEF Restored
    <3>3. <<>> \o Restored(b1) = Restored(b1)
      BY <3>2, ConcatEmptySeq
    <3>. QED
      BY <2>5, <3>1, <3>3
  <2>10. a1 \o c1 \in Seq(LineKinds) /\ Has(a1 \o c1, {"ours"}) /\ Placed(a1 \o c1)
    BY <2>4, <2>7, <2>8, Around
  <2>. HIDE DEF c1
  <2>11. Restored(a1 \o c1) = Restored(a1) \o Restored(c1)
    BY <2>7, <2>9, AmongConcat DEF Restored
  <2>12. Restored(t) = Restored(a) \o (Restored(g) \o Restored(b))
    BY <1>1, <1>2, <1>9 DEF g
  <2>. QED
    BY <2>6, <2>7, <2>8, <2>9, <2>10, <2>11, <2>12
<1>. QED
  BY <1>1, <1>8, <1>9 DEF Anchors

\* A file without a line of ours.
LEMMA NothingOurs ==
    ASSUME NEW t \in Seq(LineKinds), ~HasOurs(t)
    PROVE  Restored(t) = t /\ Placed(t) /\ ~Has(t, {"ours"})
<1>1. LineKinds \ (LineKinds \ Ours) = Ours
  BY DEF LineKinds, Ours
<1>2. Restored(t) = t
  BY <1>1, AmongAll DEF Restored, HasOurs
<1>3. ~Has(t, {"ours"}) /\ \A i \in 1 .. Len(t) : t[i] # "old"
  BY DEF HasOurs, Has, Ours
<1>. QED
  BY <1>2, <1>3 DEF Placed

\* A line at the end of a file that is none of ours changes nothing for ours.
LEMMA Appended ==
    ASSUME NEW t \in Seq(LineKinds)
    PROVE  /\ Append(t, "other") \in Seq(LineKinds) /\ Len(Append(t, "other")) = Len(t) + 1
           /\ Restored(Append(t, "other")) = Append(Restored(t), "other")
           /\ HasOurs(Append(t, "other")) <=> HasOurs(t)
           /\ Placed(t) => Placed(Append(t, "other"))
<1>. DEFINE x == "other"
            s == Append(t, x)
            n == Len(t)
<1>1. x \in LineKinds \ Ours
  BY DEF LineKinds, Ours
<1>2. /\ s \in Seq(LineKinds) /\ Len(s) = n + 1 /\ n \in Nat /\ s[n + 1] = x
      /\ \A i \in 1 .. n : s[i] = t[i]
      /\ \A i \in 1 .. n + 1 : i \in 1 .. n \/ i = n + 1
      /\ \A A : Has(s, A) <=> Has(t, A) \/ x \in A
  BY <1>1, OneMore
<1>3. Restored(s) = Append(Restored(t), x)
  BY <1>1, AmongGrows DEF Restored
<1>4. HasOurs(s) <=> HasOurs(t)
  BY <1>1, <1>2 DEF HasOurs
<1>. HIDE DEF s, n
<1>5. ASSUME NEW k \in 1 .. n, InFront(t, k)
      PROVE  InFront(s, k)
  <2>1. \A j \in 1 .. k - 1 : j \in 1 .. n
    BY <1>2
  <2>2. \A j \in 1 .. k - 1 : s[j] # "auth"
    BY <1>2, <1>5, <2>1 DEF InFront
  <2>3. ASSUME NEW j \in k + 1 .. n + 1, s[j] = "guard"
        PROVE  \E m \in k + 1 .. j - 1 : s[m] = "auth"
    <3>1. j # n + 1
      BY <1>2, <2>3
    <3>2. j \in k + 1 .. n /\ j \in 1 .. n
      BY <1>2, <3>1
    <3>3. PICK m \in k + 1 .. j - 1 : t[m] = "auth"
      BY <1>2, <1>5, <2>3, <3>2 DEF InFront, n
    <3>4. m \in 1 .. n
      BY <3>2, <1>2
    <3>. QED
      BY <1>2, <3>3, <3>4
  <2>. QED
    BY <1>2, <2>2, <2>3 DEF InFront
<1>6. \A i \in 1 .. n : i \in 1 .. n + 1
  BY <1>2
<1>7. ASSUME Placed(t), Has(s, {"ours"})
      PROVE  OnceInFront(s)
  <2>1. Has(t, {"ours"})
    BY <1>2, <1>7
  <2>2. PICK k \in 1 .. n : (\A j \in 1 .. n : t[j] \in {"ours", "old"} <=> j = k) /\ InFront(t, k)
    BY <1>7, <2>1 DEF Placed, OnceInFront, n
  <2>3. n + 1 # k /\ k \in 1 .. n + 1
    BY <1>2
  <2>4. \A j \in 1 .. n + 1 : s[j] \in {"ours", "old"} <=> j = k
    BY <1>2, <2>2, <2>3
  <2>. QED
    BY <1>2, <1>5, <2>2, <2>3, <2>4 DEF OnceInFront
<1>8. ASSUME Placed(t), NEW k \in 1 .. n + 1, s[k] = "old",
             \A j \in 1 .. k - 1 : s[j] \notin {"auth", "old"}
      PROVE  InFront(s, k)
  <2>1. k \in 1 .. n
    BY <1>2, <1>8
  <2>2. \A j \in 1 .. k - 1 : j \in 1 .. n
    BY <1>2
  <2>3. t[k] = "old" /\ \A j \in 1 .. k - 1 : t[j] \notin {"auth", "old"}
    BY <1>2, <1>8, <2>1, <2>2
  <2>4. InFront(t, k)
    BY <1>8, <2>1, <2>3 DEF Placed, n
  <2>. QED
    BY <1>5, <2>1, <2>4
<1>9. Placed(t) => Placed(s)
  BY <1>2, <1>7, <1>8 DEF Placed
<1>. QED
  BY <1>2, <1>3, <1>4, <1>9 DEF s, n

-----------------------------------------------------------------------------
(* The service files.                                                      *)

Stack == INSTANCE PamStack

\* What PamStack makes of a text is what PamFiles makes of it.
LEMMA SameText ==
    /\ Stack!Files = Files /\ Stack!Anchors = Anchors /\ Stack!Numbers = Numbers
    /\ \A t, S : Stack!Has(t, S) <=> Has(t, S)
    /\ \A t : /\ Stack!HasOurs(t) <=> HasOurs(t)
              /\ Stack!Restored(t) = Restored(t)
              /\ Stack!Inserted(t) = Inserted(t)
<1>1. /\ Stack!LineKinds = LineKinds /\ Stack!Ours = Ours /\ Stack!Anchors = Anchors
      /\ Stack!Files = Files /\ Stack!Numbers = Numbers
  BY DEF LineKinds, Ours, Anchors, Files, Stack!LineKinds, Stack!Ours, Stack!Anchors,
         Stack!Files, Numbers, Stack!Numbers
<1>2. \A t, S : Stack!Has(t, S) <=> Has(t, S)
  BY DEF Has, Stack!Has
<1>3. \A t, S : Stack!Among(t, S) = Among(t, S)
  BY Zenon DEF Among, Stack!Among
<1>4. \A t : Stack!Place(t) = Place(t)
  BY <1>1, Zenon DEF Place, Stack!Place
<1>5. \A t : Stack!DropOld(t) = DropOld(t)
  BY <1>1, <1>3 DEF DropOld, Stack!DropOld
<1>6. \A t : Stack!WithoutLastMark(t) = WithoutLastMark(t)
  BY DEF WithoutLastMark, Stack!WithoutLastMark
<1>7. \A t : Stack!Inserted(t) = Inserted(t)
  BY <1>1, <1>2, <1>4, <1>5, <1>6, Zenon DEF Inserted, Stack!Inserted
<1>8. \A t : Stack!Restored(t) = Restored(t)
  BY <1>1, <1>3 DEF Restored, Stack!Restored
<1>9. \A t : Stack!HasOurs(t) <=> HasOurs(t)
  BY <1>1, <1>2 DEF HasOurs, Stack!HasOurs
<1>. QED
  BY <1>1, <1>2, <1>7, <1>8, <1>9

\* Between a command's look at a service and its last write to it.
Busy(p) == place[p] \in {"write", "mark", "unmark"}

\* Two commands are there at the same service only where they are said to have raced,
\* and only an add writes a marker.
OneByOne ==
    /\ \A p, q \in Procs :
         p # q /\ Busy(p) /\ Busy(q) /\ at[p] = at[q] => at[p] \in raced
    /\ \A p \in Procs : place[p] = "mark" => op[p] = "add"

\* Wherever passkey's line is, it is where pam_add puts it, in the files and in what a
\* command is about to write; a package brings none.
LinesPlaced ==
    /\ \A i \in Numbers :
         /\ etc[i] # None => Placed(etc[i])
         /\ vendor[i] # None => ~HasOurs(vendor[i])
    /\ \A p \in Procs : text[p] # None => Placed(text[p])

\* The services StackRestored makes an exception for.
Excused == replaced \cup raced \cup cut

\* The marker says that /etc has a copy, or is about to.
IsCopy(i) == i \in copied \/ \E p \in Procs : place[p] = "mark" /\ at[p] = i

\* A file is the administrator's with passkey's lines, or the vendor's with them and not
\* the administrator's; he made a copy his own by making it longer than the vendor's.
Known(i) ==
    /\ etc[i] = None => own[i] = None
    /\ etc[i] # None =>
         \/ Restored(etc[i]) = own[i]
         \/ own[i] = None /\ IsCopy(i) /\ HasOurs(etc[i]) /\ Restored(etc[i]) = vendor[i]
    /\ own[i] # None /\ IsCopy(i) /\ vendor[i] # None => Len(own[i]) > Len(vendor[i])

\* A text that lacks the line and has a place for it.
Wants(t) == t # None /\ ~Has(t, {"ours"}) /\ Has(t, Anchors)

\* What a command is about to write is still what it would compute now.
Ready(p) ==
    /\ place[p] = "write" /\ op[p] = "add" /\ copying[p] =>
         etc[at[p]] = None /\ Wants(vendor[at[p]]) /\ text[p] = Inserted(vendor[at[p]])
    /\ place[p] = "write" /\ op[p] = "add" /\ ~copying[p] =>
         Wants(etc[at[p]]) /\ text[p] = Inserted(etc[at[p]])
    /\ place[p] = "write" /\ op[p] = "uninstall" =>
         /\ etc[at[p]] # None
         /\ text[p] = IF at[p] \in copied /\ vendor[at[p]] = Restored(etc[at[p]]) THEN None
                      ELSE Restored(etc[at[p]])
    /\ place[p] = "unmark" => etc[at[p]] = None \/ ~HasOurs(etc[at[p]])

\* Nothing of the administrator's is lost, save where something excuses it.
NothingLost ==
    /\ \A i \in Numbers \ Excused : Known(i)
    /\ \A p \in Procs : at[p] \notin Excused => Ready(p)

StackInv == StackTypeOK /\ OneByOne /\ LinesPlaced /\ NothingLost

\* A file that is there is a text.
LEMMA IsText ==
    ASSUME NEW f \in Files, f # None
    PROVE  f \in Seq(LineKinds)
  BY DEF Files

\* A text is a file that is there.
LEMMA NoneIsNoText ==
    ASSUME NEW t \in Seq(LineKinds)
    PROVE  t # None /\ t \in Files
  BY PamFilesAssumption DEF Files

\* The files a computer has at first are in order.
LEMMA StackInit == Stack!Init => StackInv
<1>. SUFFICES ASSUME Stack!Init
              PROVE  StackInv
  OBVIOUS
<1>. DEFINE N == Stack!Numbers
<1>1. PICK s \in [N -> Stacks] :
        /\ etc = [i \in N |-> s[i].etc] /\ vendor = [i \in N |-> s[i].vendor]
        /\ own = [i \in N |-> IF s[i].etc = None THEN None ELSE Stack!Restored(s[i].etc)]
  BY DEF Stack!Init
<1>. HIDE DEF N
<1>2. /\ copied = {} /\ op \in [Procs -> {"add", "uninstall"}]
      /\ place = [p \in Procs |-> "new"] /\ at = [p \in Procs |-> 1]
      /\ text = [p \in Procs |-> None] /\ copying = [p \in Procs |-> FALSE]
      /\ faults = 0 /\ edits = 0 /\ replaced = {} /\ raced = {} /\ cut = {}
  BY DEF Stack!Init
<1>3. \A i \in N :
        /\ etc[i] \in Files /\ vendor[i] \in Files
        /\ etc[i] # None => Placed(etc[i])
        /\ vendor[i] # None => ~HasOurs(vendor[i])
        /\ own[i] = IF etc[i] = None THEN None ELSE Restored(etc[i])
  BY <1>1, PamFilesAssumption, SameText
<1>4. \A i \in N : own[i] \in Files
  <2>1. None \in Files
    BY DEF Files
  <2>. QED
    BY <1>3, <2>1, IsText, NoneIsNoText, RestoredSeq
<1>5. N = Numbers
  BY SameText DEF N
<1>6. StackTypeOK
  <2>1. etc \in [N -> Files] /\ vendor \in [N -> Files] /\ own \in [N -> Files]
    BY <1>1, <1>3, <1>4
  <2>2. /\ 1 \in Numbers /\ None \in Files
        /\ 0 \in 0 .. MaxFaults /\ 0 \in 0 .. MaxEdits
    BY PamFilesAssumption DEF Files, Numbers
  <2>. QED
    BY <1>2, <1>5, <2>1, <2>2 DEF StackTypeOK, Places
<1>7. \A p \in Procs : place[p] = "new" /\ text[p] = None
  BY <1>2
<1>8. OneByOne /\ LinesPlaced
  BY <1>3, <1>7, <1>5 DEF OneByOne, LinesPlaced, Busy
<1>9. \A i \in Numbers : ~IsCopy(i)
  BY <1>2, <1>7 DEF IsCopy
<1>10. NothingLost
  BY <1>3, <1>7, <1>9, <1>5 DEF NothingLost, Known, Ready
<1>. QED
  BY <1>6, <1>8, <1>10 DEF StackInv

\* A step of command p: it works on one service, changes files only while it is busy
\* there, and leaves the service, itself and what it writes in order.
StepOf(p) ==
    /\ vendor' = vendor /\ own' = own /\ op' = op
    /\ replaced' = replaced /\ raced \subseteq raced' /\ cut \subseteq cut'
    /\ \A j \in Numbers \ {at[p]} :
         etc'[j] = etc[j] /\ (j \in copied' <=> j \in copied)
    /\ \A q \in Procs \ {p} :
         place'[q] = place[q] /\ at'[q] = at[q] /\ text'[q] = text[q] /\ copying'[q] = copying[q]
    /\ ~Busy(p) => etc' = etc /\ copied' = copied

\* It gets to a service alone, or is noted.
OneWorks(p) ==
    /\ Busy(p)' => at'[p] = at[p]
    /\ Busy(p)' /\ ~Busy(p) =>
         \A q \in Procs \ {p} : Busy(q) /\ at[q] = at[p] => at[p] \in raced'
    /\ place'[p] = "mark" => op[p] = "add"

\* Then every other service and every other command is in order, too.
LEMMA StepKeeps ==
    ASSUME StackInv, StackTypeOK', NEW CONSTANT p \in Procs, StepOf(p), OneWorks(p),
           NEW CONSTANT i, i = at[p],
           etc'[i] # None => Placed(etc'[i]),
           text'[p] # None => Placed(text'[p]),
           i \notin Excused' => Known(i)',
           at'[p] \notin Excused' => Ready(p)'
    PROVE  StackInv'
<1>1. /\ at \in [Procs -> Numbers] /\ i \in Numbers /\ OneByOne /\ LinesPlaced
      /\ NothingLost
  BY DEF StackInv, StackTypeOK
<1>2. \A j : j \notin Excused' => j \notin Excused /\ j \notin raced
  BY DEF Excused, StepOf
<1>3. \A q \in Procs \ {p} : (Busy(q)' <=> Busy(q)) /\ at'[q] = at[q]
  BY DEF Busy, StepOf
<1>4. OneByOne'
  <2>1. ASSUME NEW q \in Procs \ {p}, Busy(p)', Busy(q)', at'[p] = at'[q]
        PROVE  at'[p] \in raced'
    <3>1. at'[p] = i /\ Busy(q) /\ at[q] = i
      BY <1>3, <2>1 DEF OneWorks
    <3>2. CASE Busy(p)
      BY <1>1, <3>1, <3>2 DEF OneByOne, StepOf
    <3>3. CASE ~Busy(p)
      BY <2>1, <3>1, <3>3 DEF OneWorks
    <3>. QED
      BY <3>2, <3>3
  <2>2. ASSUME NEW q \in Procs \ {p}, NEW r \in Procs \ {p}, q # r,
               Busy(q)', Busy(r)', at'[q] = at'[r]
        PROVE  at'[q] \in raced'
    <3>1. Busy(q) /\ Busy(r) /\ at[q] = at[r] /\ at'[q] = at[q]
      BY <1>3, <2>2
    <3>. QED
      BY <1>1, <2>2, <3>1 DEF OneByOne, StepOf
  <2>3. \A q \in Procs : place'[q] = "mark" => op'[q] = "add"
    BY <1>1 DEF OneByOne, StepOf, OneWorks
  <2>4. \A q, r \in Procs : q # r /\ Busy(q)' /\ Busy(r)' /\ at'[q] = at'[r] => at'[q] \in raced'
    BY <2>1, <2>2
  <2>. QED
    BY <2>3, <2>4 DEF OneByOne
<1>5. LinesPlaced'
  BY <1>1 DEF LinesPlaced, StepOf
<1>6. ASSUME NEW j \in Numbers, j \notin Excused', j # i
      PROVE  Known(j)'
  <2>1. IsCopy(j)' <=> IsCopy(j)
    <3>1. place'[p] = "mark" => at'[p] # j
      BY <1>6 DEF OneWorks, Busy
    <3>. QED
      BY <1>6, <3>1 DEF IsCopy, StepOf
  <2>2. Known(j)
    BY <1>1, <1>2, <1>6 DEF NothingLost
  <2>. QED
    BY <1>6, <2>1, <2>2 DEF Known, StepOf
<1>7. ASSUME NEW q \in Procs \ {p}, at'[q] \notin Excused'
      PROVE  Ready(q)'
  <2>1. at'[q] = at[q] /\ at[q] \in Numbers /\ at[q] \notin Excused /\ at[q] \notin raced
    BY <1>1, <1>2, <1>3, <1>7
  <2>2. Ready(q)
    BY <1>1, <2>1 DEF NothingLost
  <2>3. CASE ~Busy(q)
    BY <1>3, <2>3 DEF Ready, Busy
  <2>4. CASE Busy(q)
    <3>1. etc'[at[q]] = etc[at[q]] /\ (at[q] \in copied' <=> at[q] \in copied)
      <4>1. CASE at[q] # i
        BY <2>1, <4>1 DEF StepOf
      <4>2. CASE at[q] = i
        <5>1. ~Busy(p)
          BY <1>1, <2>1, <2>4, <4>2 DEF OneByOne
        <5>. QED
          BY <5>1 DEF StepOf
      <4>. QED
        BY <4>1, <4>2
    <3>. QED
      BY <2>1, <2>2, <3>1 DEF Ready, StepOf
  <2>. QED
    BY <2>3, <2>4
<1>8. NothingLost'
  <2>1. \A j \in Numbers : j \notin Excused' => Known(j)'
    BY <1>6
  <2>2. \A q \in Procs : at'[q] \notin Excused' => Ready(q)'
    BY <1>7
  <2>. QED
    BY <2>1, <2>2 DEF NothingLost
<1>. QED
  BY <1>4, <1>5, <1>8 DEF StackInv

\* A command that is through with a service is busy with none.
LEMMA ServiceOver ==
    ASSUME StackTypeOK, NEW p \in Procs, Stack!AfterService(p)
    PROVE  /\ place' \in [Procs -> Places]
           /\ at' \in [Procs -> Numbers]
           /\ place'[p] \in {"look", "wipe", "done"}
           /\ \A q \in Procs \ {p} : place'[q] = place[q] /\ at'[q] = at[q]
<1>1. /\ place \in [Procs -> Places]
      /\ at \in [Procs -> Numbers] /\ at[p] \in Numbers
  BY DEF StackTypeOK
<1>2. CASE at[p] < Services
  <2>1. place' = [place EXCEPT ![p] = "look"] /\ at' = [at EXCEPT ![p] = @ + 1]
    BY <1>2 DEF Stack!AfterService, Stack!More
  <2>2. at[p] + 1 \in Numbers
    BY <1>1, <1>2, PamFilesAssumption DEF Numbers
  <2>. QED
    BY <1>1, <2>1, <2>2 DEF Places
<1>3. CASE ~(at[p] < Services)
  <2>1. PICK x \in {"done", "wipe"} : place' = [place EXCEPT ![p] = x] /\ at' = at
    BY <1>3 DEF Stack!AfterService, Stack!More
  <2>. QED
    BY <1>1, <2>1 DEF Places
<1>. QED
  BY <1>2, <1>3

\* What is known of the service a command works on, if nothing excuses it.
LEMMA StepFrom ==
    ASSUME StackInv, NEW CONSTANT p \in Procs, NEW CONSTANT i, i = at[p]
    PROVE  /\ i \in Numbers /\ StackTypeOK
           /\ etc[i] \in Files /\ vendor[i] \in Files /\ own[i] \in Files /\ text[p] \in Files
           /\ etc[i] # None => Placed(etc[i]) /\ etc[i] \in Seq(LineKinds)
           /\ vendor[i] # None => ~HasOurs(vendor[i]) /\ Placed(vendor[i])
                                  /\ vendor[i] \in Seq(LineKinds)
           /\ text[p] # None => Placed(text[p]) /\ text[p] \in Seq(LineKinds)
           /\ place[p] = "mark" => op[p] = "add"
           /\ i \notin Excused => Known(i) /\ Ready(p)
           /\ i \notin Excused /\ Busy(p) => \A q \in Procs \ {p} : at[q] = i => ~Busy(q)
<1>1. /\ StackTypeOK /\ OneByOne /\ LinesPlaced /\ NothingLost
  BY DEF StackInv
<1>2. /\ i \in Numbers /\ etc[i] \in Files /\ vendor[i] \in Files /\ own[i] \in Files
      /\ text[p] \in Files
  BY <1>1 DEF StackTypeOK
<1>3. /\ etc[i] # None => Placed(etc[i]) /\ etc[i] \in Seq(LineKinds)
      /\ vendor[i] # None => ~HasOurs(vendor[i]) /\ vendor[i] \in Seq(LineKinds)
      /\ text[p] # None => Placed(text[p]) /\ text[p] \in Seq(LineKinds)
  BY <1>1, <1>2, IsText DEF LinesPlaced
<1>4. vendor[i] # None => Placed(vendor[i])
  BY <1>3, NothingOurs
<1>5. i \notin Excused => Known(i) /\ Ready(p)
  BY <1>1, <1>2 DEF NothingLost
<1>6. i \notin Excused /\ Busy(p) => \A q \in Procs \ {p} : at[q] = i => ~Busy(q)
  BY <1>1 DEF OneByOne, Excused
<1>7. place[p] = "mark" => op[p] = "add"
  BY <1>1 DEF OneByOne
<1>. QED
  BY <1>1, <1>2, <1>3, <1>4, <1>5, <1>6, <1>7

\* A step that changes no file: what is known of them stays.
LEMMA SameFiles ==
    ASSUME StackInv, NEW CONSTANT p \in Procs, NEW CONSTANT i, i = at[p],
           etc' = etc, copied' = copied, StepOf(p),
           place[p] # "mark", place'[p] # "mark", i \notin Excused'
    PROVE  Known(i)'
<1>1. IsCopy(i)' <=> IsCopy(i)
  BY DEF IsCopy, StepOf
<1>2. Known(i)
  <2>1. i \notin Excused
    BY DEF Excused, StepOf
  <2>. QED
    BY <2>1, StepFrom
<1>. QED
  BY <1>1, <1>2 DEF Known, StepOf

\* A command begins with the first service.
LEMMA StartStep ==
    ASSUME StackInv, NEW CONSTANT p \in Procs, Stack!Start(p)
    PROVE  StackInv'
<1>1. PICK i : i = at[p]
  OBVIOUS
<1>2. /\ place[p] = "new" /\ place' = [place EXCEPT ![p] = "look"]
      /\ etc' = etc /\ vendor' = vendor /\ copied' = copied /\ op' = op /\ at' = at
      /\ text' = text /\ copying' = copying /\ faults' = faults /\ edits' = edits
      /\ own' = own /\ replaced' = replaced /\ raced' = raced /\ cut' = cut
  BY DEF Stack!Start, Stack!fileVars, Stack!history
<1>3. StackTypeOK /\ (etc[i] # None => Placed(etc[i])) /\ (text[p] # None => Placed(text[p]))
  BY <1>1, StepFrom
<1>4. StackTypeOK' /\ place'[p] = "look"
  BY <1>2, <1>3 DEF StackTypeOK, Places
<1>5. StepOf(p) /\ OneWorks(p)
  BY <1>2, <1>3, <1>4 DEF StepOf, OneWorks, Busy, StackTypeOK
<1>6. i \notin Excused' => Known(i)'
  BY <1>1, <1>2, <1>4, <1>5, SameFiles
<1>7. Ready(p)'
  BY <1>4 DEF Ready
<1>. QED
  BY <1>1, <1>2, <1>3, <1>4, <1>5, <1>6, <1>7, StepKeeps

\* What Overlap notes.
LEMMA Noted ==
    ASSUME NEW p \in Procs, Stack!Overlap(p)
    PROVE  /\ raced \subseteq raced' /\ raced' \subseteq raced \cup {at[p]}
           /\ \A q \in Procs \ {p} : Busy(q) /\ at[q] = at[p] => at[p] \in raced'
  BY DEF Stack!Overlap, Busy

\* pam_add reads the file and computes its text.
LEMMA AddLookStep ==
    ASSUME StackInv, NEW CONSTANT p \in Procs, Stack!AddLook(p)
    PROVE  StackInv'
<1>1. PICK i : i = at[p]
  OBVIOUS
<1>. DEFINE source == IF etc[i] # None THEN etc[i] ELSE vendor[i]
<1>2. /\ op[p] = "add" /\ place[p] = "look"
      /\ etc' = etc /\ vendor' = vendor /\ copied' = copied /\ op' = op
      /\ faults' = faults /\ edits' = edits
      /\ own' = own /\ replaced' = replaced /\ cut' = cut
  BY DEF Stack!AddLook, Stack!fileVars
<1>3. \/ /\ Wants(source) /\ text' = [text EXCEPT ![p] = Inserted(source)]
         /\ copying' = [copying EXCEPT ![p] = (etc[i] = None)]
         /\ place' = [place EXCEPT ![p] = "write"] /\ at' = at /\ Stack!Overlap(p)
      \/ /\ Stack!AfterService(p) /\ text' = text /\ copying' = copying /\ raced' = raced
  BY <1>1, SameText DEF Stack!AddLook, Stack!Wanted, Wants
<1>4. /\ StackTypeOK /\ (etc[i] # None => Placed(etc[i])) /\ (text[p] # None => Placed(text[p]))
      /\ i \in Numbers
  BY <1>1, StepFrom
<1>5. CASE Stack!AfterService(p) /\ text' = text /\ copying' = copying /\ raced' = raced
  <2>1. /\ place' \in [Procs -> Places]
        /\ at' \in [Procs -> Numbers]
        /\ place'[p] \in {"look", "wipe", "done"}
        /\ \A q \in Procs \ {p} : place'[q] = place[q] /\ at'[q] = at[q]
    BY <1>4, <1>5, ServiceOver
  <2>2. StackTypeOK'
    BY <1>2, <1>4, <1>5, <2>1 DEF StackTypeOK, Places
  <2>3. StepOf(p) /\ OneWorks(p)
    BY <1>2, <1>5, <2>1 DEF StepOf, OneWorks, Busy
  <2>4. i \notin Excused' => Known(i)'
    BY <1>1, <1>2, <2>1, <2>3, SameFiles
  <2>5. Ready(p)'
    BY <2>1 DEF Ready
  <2>. QED
    BY <1>1, <1>2, <1>4, <1>5, <2>2, <2>3, <2>4, <2>5, StepKeeps
<1>6. CASE /\ Wants(source) /\ text' = [text EXCEPT ![p] = Inserted(source)]
           /\ copying' = [copying EXCEPT ![p] = (etc[i] = None)]
           /\ place' = [place EXCEPT ![p] = "write"] /\ at' = at /\ Stack!Overlap(p)
  <2>1. source \in Seq(LineKinds) /\ Placed(source)
    BY <1>1, <1>6, StepFrom DEF Wants
  <2>2. Inserted(source) \in Files /\ Placed(Inserted(source))
    BY <1>6, <2>1, InsertedText, NoneIsNoText DEF Wants
  <2>3. /\ raced \subseteq raced' /\ raced' \subseteq raced \cup {i}
        /\ \A q \in Procs \ {p} : Busy(q) /\ at[q] = i => i \in raced'
    BY <1>1, <1>6, Noted
  <2>. HIDE DEF source
  <2>4. /\ place'[p] = "write" /\ text'[p] = Inserted(source) /\ (copying'[p] <=> etc[i] = None)
        /\ \A q \in Procs \ {p} : place'[q] = place[q] /\ at'[q] = at[q] /\ text'[q] = text[q]
                                   /\ copying'[q] = copying[q]
    BY <1>4, <1>6 DEF StackTypeOK
  <2>5. StackTypeOK'
    BY <1>2, <1>4, <1>6, <2>2, <2>3 DEF StackTypeOK, Places
  <2>6. StepOf(p) /\ OneWorks(p)
    BY <1>1, <1>2, <1>6, <2>3, <2>4 DEF StepOf, OneWorks, Busy
  <2>7. i \notin Excused' => Known(i)'
    BY <1>1, <1>2, <2>4, <2>6, SameFiles
  <2>8. Ready(p)'
    BY <1>1, <1>2, <1>6, <2>4 DEF Ready, Wants, source
  <2>. QED
    BY <1>1, <1>2, <1>4, <2>2, <2>4, <2>5, <2>6, <2>7, <2>8, StepKeeps
<1>. QED
  BY <1>3, <1>5, <1>6

\* What pam_add writes: a text with its line, the rest as it was.
LEMMA WrittenText ==
    ASSUME NEW t \in Files, t # None => Placed(t), Wants(t)
    PROVE  /\ t \in Seq(LineKinds) /\ Inserted(t) \in Seq(LineKinds) /\ Inserted(t) # None
           /\ HasOurs(Inserted(t)) /\ Restored(Inserted(t)) = Restored(t)
<1>1. t \in Seq(LineKinds) /\ Placed(t) /\ ~Has(t, {"ours"}) /\ Has(t, Anchors)
  BY IsText DEF Wants
<1>2. /\ Inserted(t) \in Seq(LineKinds) /\ Has(Inserted(t), {"ours"})
      /\ Restored(Inserted(t)) = Restored(t)
  BY <1>1, InsertedText
<1>3. HasOurs(Inserted(t))
  BY <1>2 DEF HasOurs, Has, Ours
<1>. QED
  BY <1>1, <1>2, <1>3, NoneIsNoText

\* pam_add writes it: the file is the administrator's still, or a copy under way.
LEMMA AddWriteStep ==
    ASSUME StackInv, NEW CONSTANT p \in Procs, Stack!AddWrite(p)
    PROVE  StackInv'
<1>1. PICK i : i = at[p]
  OBVIOUS
<1>2. /\ op[p] = "add" /\ place[p] = "write" /\ vendor' = vendor /\ copied' = copied /\ op' = op
      /\ text' = text /\ copying' = copying /\ faults' = faults /\ edits' = edits
      /\ own' = own /\ replaced' = replaced /\ raced' = raced /\ cut' = cut
  BY DEF Stack!AddWrite, Stack!history
<1>3. \/ /\ copying[p] /\ etc' = [etc EXCEPT ![i] = text[p]]
         /\ place' = [place EXCEPT ![p] = "mark"] /\ at' = at
      \/ /\ ~copying[p] /\ etc' = [etc EXCEPT ![i] = text[p]] /\ Stack!AfterService(p)
      \/ /\ place' = [place EXCEPT ![p] = "done"] /\ etc' = etc /\ at' = at
  BY <1>1 DEF Stack!AddWrite
<1>4. /\ StackTypeOK /\ (etc[i] # None => Placed(etc[i])) /\ (text[p] # None => Placed(text[p]))
      /\ i \in Numbers /\ text[p] \in Files /\ etc[i] \in Files /\ vendor[i] \in Files
      /\ own[i] \in Files
      /\ vendor[i] # None => Placed(vendor[i]) /\ ~HasOurs(vendor[i])
  BY <1>1, StepFrom
<1>5. i \notin Excused' => i \notin Excused /\ Known(i) /\ Ready(p)
  <2>1. i \notin Excused' => i \notin Excused
    BY <1>2 DEF Excused
  <2>. QED
    BY <1>1, <2>1, StepFrom
<1>6. CASE /\ copying[p] /\ etc' = [etc EXCEPT ![i] = text[p]]
           /\ place' = [place EXCEPT ![p] = "mark"] /\ at' = at
  <2>1. /\ place'[p] = "mark" /\ etc'[i] = text[p]
        /\ \A j \in Numbers \ {i} : etc'[j] = etc[j]
        /\ \A q \in Procs \ {p} : place'[q] = place[q]
    BY <1>4, <1>6 DEF StackTypeOK
  <2>2. StackTypeOK'
    BY <1>2, <1>4, <1>6 DEF StackTypeOK, Places
  <2>3. StepOf(p) /\ OneWorks(p)
    BY <1>1, <1>2, <1>6, <2>1 DEF StepOf, OneWorks, Busy
  <2>4. ASSUME i \notin Excused'
        PROVE  Known(i)'
    <3>1. /\ own[i] = None /\ Wants(vendor[i]) /\ text[p] = Inserted(vendor[i])
      BY <1>1, <1>2, <1>5, <1>6, <2>4 DEF Known, Ready
    <3>2. /\ text[p] # None /\ HasOurs(text[p]) /\ vendor[i] \in Seq(LineKinds)
          /\ Restored(text[p]) = Restored(vendor[i])
      BY <1>4, <3>1, WrittenText
    <3>3. Restored(vendor[i]) = vendor[i]
      BY <1>4, <3>1, <3>2, NothingOurs DEF Wants
    <3>4. IsCopy(i)'
      BY <1>1, <1>6, <2>1 DEF IsCopy
    <3>. QED
      BY <1>2, <2>1, <3>1, <3>2, <3>3, <3>4 DEF Known
  <2>5. Ready(p)'
    BY <2>1 DEF Ready
  <2>. QED
    BY <1>1, <1>2, <1>4, <2>1, <2>2, <2>3, <2>4, <2>5, StepKeeps
<1>7. CASE ~copying[p] /\ etc' = [etc EXCEPT ![i] = text[p]] /\ Stack!AfterService(p)
  <2>1. /\ place' \in [Procs -> Places]
        /\ at' \in [Procs -> Numbers]
        /\ place'[p] \in {"look", "wipe", "done"}
        /\ \A q \in Procs \ {p} : place'[q] = place[q] /\ at'[q] = at[q]
    BY <1>4, <1>7, ServiceOver
  <2>2. etc'[i] = text[p] /\ \A j \in Numbers \ {i} : etc'[j] = etc[j]
    BY <1>4, <1>7 DEF StackTypeOK
  <2>3. StackTypeOK'
    BY <1>2, <1>4, <1>7, <2>1 DEF StackTypeOK, Places
  <2>4. StepOf(p) /\ OneWorks(p)
    BY <1>1, <1>2, <2>1, <2>2 DEF StepOf, OneWorks, Busy
  <2>5. ASSUME i \notin Excused'
        PROVE  Known(i)'
    <3>1. Known(i) /\ Wants(etc[i]) /\ text[p] = Inserted(etc[i])
      BY <1>1, <1>2, <1>5, <1>7, <2>5 DEF Ready
    <3>2. text[p] # None /\ HasOurs(text[p]) /\ Restored(text[p]) = Restored(etc[i])
      BY <1>4, <3>1, WrittenText
    <3>3. IsCopy(i)' <=> IsCopy(i)
      BY <1>2, <2>1 DEF IsCopy
    <3>. QED
      BY <1>2, <2>2, <3>1, <3>2, <3>3 DEF Known, Wants
  <2>6. Ready(p)'
    BY <2>1 DEF Ready
  <2>. QED
    BY <1>1, <1>2, <1>4, <2>2, <2>3, <2>4, <2>5, <2>6, StepKeeps
<1>8. CASE place' = [place EXCEPT ![p] = "done"] /\ etc' = etc /\ at' = at
  <2>1. place'[p] = "done" /\ \A q \in Procs \ {p} : place'[q] = place[q]
    BY <1>4, <1>8 DEF StackTypeOK
  <2>2. StackTypeOK'
    BY <1>2, <1>4, <1>8 DEF StackTypeOK, Places
  <2>3. StepOf(p) /\ OneWorks(p)
    BY <1>2, <1>8, <2>1 DEF StepOf, OneWorks, Busy
  <2>4. i \notin Excused' => Known(i)'
    BY <1>1, <1>2, <1>8, <2>1, <2>3, SameFiles
  <2>5. Ready(p)'
    BY <2>1 DEF Ready
  <2>. QED
    BY <1>1, <1>2, <1>4, <1>8, <2>2, <2>3, <2>4, <2>5, StepKeeps
<1>. QED
  BY <1>3, <1>6, <1>7, <1>8

\* The marker makes it a copy.
LEMMA AddMarkStep ==
    ASSUME StackInv, NEW CONSTANT p \in Procs, Stack!AddMark(p)
    PROVE  StackInv'
<1>1. PICK i : i = at[p]
  OBVIOUS
<1>2. /\ place[p] = "mark" /\ copied' = copied \cup {i} /\ Stack!AfterService(p)
      /\ etc' = etc /\ vendor' = vendor /\ op' = op
      /\ text' = text /\ copying' = copying /\ faults' = faults /\ edits' = edits
      /\ own' = own /\ replaced' = replaced /\ raced' = raced /\ cut' = cut
  BY <1>1 DEF Stack!AddMark, Stack!history
<1>3. /\ StackTypeOK /\ (etc[i] # None => Placed(etc[i])) /\ (text[p] # None => Placed(text[p]))
      /\ i \in Numbers
  BY <1>1, StepFrom
<1>4. /\ place' \in [Procs -> Places]
      /\ at' \in [Procs -> Numbers]
      /\ place'[p] \in {"look", "wipe", "done"}
      /\ \A q \in Procs \ {p} : place'[q] = place[q] /\ at'[q] = at[q]
  BY <1>2, <1>3, ServiceOver
<1>5. StackTypeOK'
  BY <1>2, <1>3, <1>4 DEF StackTypeOK, Places
<1>6. StepOf(p) /\ OneWorks(p)
  BY <1>1, <1>2, <1>4 DEF StepOf, OneWorks, Busy
<1>7. ASSUME i \notin Excused'
      PROVE  Known(i)'
  <2>1. Known(i)
    <3>1. i \notin Excused
      BY <1>2, <1>7 DEF Excused
    <3>. QED
      BY <1>1, <3>1, StepFrom
  <2>2. IsCopy(i) /\ IsCopy(i)'
    BY <1>1, <1>2 DEF IsCopy
  <2>. QED
    BY <1>2, <2>1, <2>2 DEF Known
<1>8. Ready(p)'
  BY <1>4 DEF Ready
<1>. QED
  BY <1>1, <1>2, <1>3, <1>5, <1>6, <1>7, <1>8, StepKeeps

\* pam_remove reads the file, the marker and the vendor's file.
LEMMA UninstallLookStep ==
    ASSUME StackInv, NEW CONSTANT p \in Procs, Stack!UninstallLook(p)
    PROVE  StackInv'
<1>1. PICK i : i = at[p]
  OBVIOUS
<1>. DEFINE left == IF i \in copied /\ vendor[i] = Restored(etc[i]) THEN None ELSE Restored(etc[i])
<1>2. /\ op[p] = "uninstall" /\ place[p] = "look"
      /\ etc' = etc /\ vendor' = vendor /\ copied' = copied /\ op' = op /\ copying' = copying
      /\ faults' = faults /\ edits' = edits
      /\ own' = own /\ replaced' = replaced /\ cut' = cut
  BY DEF Stack!UninstallLook, Stack!fileVars
<1>3. \/ /\ etc[i] # None /\ text' = [text EXCEPT ![p] = left]
         /\ place' = [place EXCEPT ![p] = "write"] /\ at' = at /\ Stack!Overlap(p)
      \/ /\ Stack!AfterService(p) /\ text' = text /\ raced' = raced
  BY <1>1, SameText DEF Stack!UninstallLook, Stack!Leftover
<1>4. /\ StackTypeOK /\ (etc[i] # None => Placed(etc[i])) /\ (text[p] # None => Placed(text[p]))
      /\ i \in Numbers /\ (etc[i] # None => etc[i] \in Seq(LineKinds))
  BY <1>1, StepFrom
<1>5. CASE Stack!AfterService(p) /\ text' = text /\ raced' = raced
  <2>1. /\ place' \in [Procs -> Places]
        /\ at' \in [Procs -> Numbers]
        /\ place'[p] \in {"look", "wipe", "done"}
        /\ \A q \in Procs \ {p} : place'[q] = place[q] /\ at'[q] = at[q]
    BY <1>4, <1>5, ServiceOver
  <2>2. StackTypeOK'
    BY <1>2, <1>4, <1>5, <2>1 DEF StackTypeOK, Places
  <2>3. StepOf(p) /\ OneWorks(p)
    BY <1>2, <1>5, <2>1 DEF StepOf, OneWorks, Busy
  <2>4. i \notin Excused' => Known(i)'
    BY <1>1, <1>2, <2>1, <2>3, SameFiles
  <2>5. Ready(p)'
    BY <2>1 DEF Ready
  <2>. QED
    BY <1>1, <1>2, <1>4, <1>5, <2>2, <2>3, <2>4, <2>5, StepKeeps
<1>6. CASE /\ etc[i] # None /\ text' = [text EXCEPT ![p] = left]
           /\ place' = [place EXCEPT ![p] = "write"] /\ at' = at /\ Stack!Overlap(p)
  <2>1. Restored(etc[i]) \in Seq(LineKinds) /\ ~HasOurs(Restored(etc[i]))
    BY <1>4, <1>6, RestoredSeq
  <2>2. None \in Files /\ Restored(etc[i]) \in Files /\ Placed(Restored(etc[i]))
    BY <2>1, NothingOurs DEF Files
  <2>3. left \in Files /\ (left # None => Placed(left))
    BY <2>2
  <2>4. /\ raced \subseteq raced' /\ raced' \subseteq raced \cup {i}
        /\ \A q \in Procs \ {p} : Busy(q) /\ at[q] = i => i \in raced'
    BY <1>1, <1>6, Noted
  <2>. HIDE DEF left
  <2>5. /\ place'[p] = "write" /\ text'[p] = left
        /\ \A q \in Procs \ {p} : place'[q] = place[q] /\ at'[q] = at[q] /\ text'[q] = text[q]
    BY <1>4, <1>6 DEF StackTypeOK
  <2>6. StackTypeOK'
    BY <1>2, <1>4, <1>6, <2>3, <2>4 DEF StackTypeOK, Places
  <2>7. StepOf(p) /\ OneWorks(p)
    BY <1>1, <1>2, <1>6, <2>4, <2>5 DEF StepOf, OneWorks, Busy
  <2>8. i \notin Excused' => Known(i)'
    BY <1>1, <1>2, <2>5, <2>7, SameFiles
  <2>9. Ready(p)'
    BY <1>1, <1>2, <1>6, <2>5 DEF Ready, left
  <2>. QED
    BY <1>1, <1>2, <1>4, <2>3, <2>5, <2>6, <2>7, <2>8, <2>9, StepKeeps
<1>. QED
  BY <1>3, <1>5, <1>6

\* pam_remove deletes what is a copy and not the administrator's, and only that.
LEMMA UninstallWriteStep ==
    ASSUME StackInv, NEW CONSTANT p \in Procs, Stack!UninstallWrite(p)
    PROVE  StackInv'
<1>1. PICK i : i = at[p]
  OBVIOUS
<1>2. /\ op[p] = "uninstall" /\ place[p] = "write"
      /\ vendor' = vendor /\ copied' = copied /\ op' = op /\ at' = at
      /\ text' = text /\ copying' = copying /\ faults' = faults /\ edits' = edits
      /\ own' = own /\ replaced' = replaced /\ raced' = raced /\ cut' = cut
  BY DEF Stack!UninstallWrite, Stack!history
<1>3. \/ etc' = [etc EXCEPT ![i] = text[p]] /\ place' = [place EXCEPT ![p] = "unmark"]
      \/ place' = [place EXCEPT ![p] = "done"] /\ etc' = etc
  BY <1>1 DEF Stack!UninstallWrite
<1>4. /\ StackTypeOK /\ (etc[i] # None => Placed(etc[i])) /\ (text[p] # None => Placed(text[p]))
      /\ i \in Numbers /\ text[p] \in Files /\ own[i] \in Files
      /\ etc[i] # None => etc[i] \in Seq(LineKinds)
  BY <1>1, StepFrom
<1>5. CASE etc' = [etc EXCEPT ![i] = text[p]] /\ place' = [place EXCEPT ![p] = "unmark"]
  <2>1. /\ place'[p] = "unmark" /\ etc'[i] = text[p]
        /\ \A j \in Numbers \ {i} : etc'[j] = etc[j]
        /\ \A q \in Procs \ {p} : place'[q] = place[q]
    BY <1>4, <1>5 DEF StackTypeOK
  <2>2. StackTypeOK'
    BY <1>2, <1>4, <1>5 DEF StackTypeOK, Places
  <2>3. StepOf(p) /\ OneWorks(p)
    BY <1>1, <1>2, <2>1 DEF StepOf, OneWorks, Busy
  <2>4. ASSUME i \notin Excused'
        PROVE  Known(i)' /\ Ready(p)'
    <3>1. i \notin Excused
      BY <1>2, <2>4 DEF Excused
    <3>2. /\ Known(i) /\ Ready(p)
          /\ \A q \in Procs \ {p} : at[q] = i => ~Busy(q)
      <4>1. Busy(p)
        BY <1>2 DEF Busy
      <4>. QED
        BY <1>1, <3>1, <4>1, StepFrom
    <3>3. /\ etc[i] # None
          /\ text[p] = IF i \in copied /\ vendor[i] = Restored(etc[i]) THEN None ELSE Restored(etc[i])
      BY <1>1, <1>2, <3>2 DEF Ready
    <3>. DEFINE bare == Restored(etc[i])
    <3>4. bare \in Seq(LineKinds) /\ ~HasOurs(bare) /\ bare # None /\ Restored(bare) = bare
      BY <1>4, <3>3, RestoredSeq, NoneIsNoText, NothingOurs
    <3>5. \A q \in Procs : ~(place[q] = "mark" /\ at[q] = i) /\ ~(place'[q] = "mark" /\ at'[q] = i)
      BY <1>2, <2>1, <3>2 DEF Busy
    <3>6. (IsCopy(i) <=> i \in copied) /\ (IsCopy(i)' <=> i \in copied)
      BY <1>2, <3>5 DEF IsCopy
    <3>. HIDE DEF bare
    <3>7. bare = own[i] \/ (own[i] = None /\ i \in copied /\ bare = vendor[i])
      BY <3>2, <3>3, <3>6 DEF Known, bare
    <3>8. i \in copied /\ vendor[i] = bare => own[i] = None
      <4>. SUFFICES ASSUME i \in copied, vendor[i] = bare, own[i] # None
                    PROVE  FALSE
        OBVIOUS
      <4>1. bare = own[i] /\ Len(own[i]) > Len(vendor[i])
        BY <3>2, <3>4, <3>6, <3>7 DEF Known
      <4>2. Len(bare) \in Nat
        BY <3>4, LenProperties
      <4>. QED
        BY <4>1, <4>2
    <3>9. CASE i \in copied /\ vendor[i] = bare
      <4>1. etc'[i] = None /\ own'[i] = None
        BY <1>2, <2>1, <3>3, <3>8, <3>9 DEF bare
      <4>. QED
        BY <1>1, <1>2, <2>1, <4>1 DEF Known, Ready
    <3>10. CASE ~(i \in copied /\ vendor[i] = bare)
      <4>1. etc'[i] = bare /\ own'[i] = bare /\ bare = own[i]
        BY <1>2, <2>1, <3>3, <3>7, <3>10 DEF bare
      <4>2. own[i] # None /\ IsCopy(i) /\ vendor[i] # None => Len(own[i]) > Len(vendor[i])
        BY <3>2 DEF Known
      <4>. QED
        BY <1>1, <1>2, <2>1, <3>4, <3>6, <4>1, <4>2 DEF Known, Ready
    <3>. QED
      BY <3>9, <3>10
  <2>. QED
    BY <1>1, <1>2, <1>4, <2>1, <2>2, <2>3, <2>4, StepKeeps
<1>6. CASE place' = [place EXCEPT ![p] = "done"] /\ etc' = etc
  <2>1. place'[p] = "done" /\ \A q \in Procs \ {p} : place'[q] = place[q]
    BY <1>4, <1>6 DEF StackTypeOK
  <2>2. StackTypeOK'
    BY <1>2, <1>4, <1>6 DEF StackTypeOK, Places
  <2>3. StepOf(p) /\ OneWorks(p)
    BY <1>2, <1>6, <2>1 DEF StepOf, OneWorks, Busy
  <2>4. i \notin Excused' => Known(i)'
    BY <1>1, <1>2, <1>6, <2>1, <2>3, SameFiles
  <2>5. Ready(p)'
    BY <2>1 DEF Ready
  <2>. QED
    BY <1>1, <1>2, <1>4, <1>6, <2>2, <2>3, <2>4, <2>5, StepKeeps
<1>. QED
  BY <1>3, <1>5, <1>6

\* A marker goes only after the lines are out.
LEMMA UnmarkStep ==
    ASSUME StackInv, NEW CONSTANT p \in Procs, Stack!Unmark(p)
    PROVE  StackInv'
<1>1. PICK i : i = at[p]
  OBVIOUS
<1>2. /\ place[p] = "unmark" /\ copied' = copied \ {i} /\ Stack!AfterService(p)
      /\ etc' = etc /\ vendor' = vendor /\ op' = op
      /\ text' = text /\ copying' = copying /\ faults' = faults /\ edits' = edits
      /\ own' = own /\ replaced' = replaced /\ raced' = raced /\ cut' = cut
  BY <1>1 DEF Stack!Unmark, Stack!history
<1>3. /\ StackTypeOK /\ (etc[i] # None => Placed(etc[i])) /\ (text[p] # None => Placed(text[p]))
      /\ i \in Numbers
  BY <1>1, StepFrom
<1>4. /\ place' \in [Procs -> Places]
      /\ at' \in [Procs -> Numbers]
      /\ place'[p] \in {"look", "wipe", "done"}
      /\ \A q \in Procs \ {p} : place'[q] = place[q] /\ at'[q] = at[q]
  BY <1>2, <1>3, ServiceOver
<1>5. StackTypeOK'
  BY <1>2, <1>3, <1>4 DEF StackTypeOK, Places
<1>6. StepOf(p) /\ OneWorks(p)
  BY <1>1, <1>2, <1>4 DEF StepOf, OneWorks, Busy
<1>7. ASSUME i \notin Excused'
      PROVE  Known(i)'
  <2>1. i \notin Excused
    BY <1>2, <1>7 DEF Excused
  <2>2. Known(i) /\ Ready(p)
    BY <1>1, <2>1, StepFrom
  <2>3. etc[i] = None \/ ~HasOurs(etc[i])
    BY <1>1, <1>2, <2>2 DEF Ready
  <2>4. IsCopy(i)' => IsCopy(i)
    BY <1>2, <1>4 DEF IsCopy
  <2>. QED
    BY <1>2, <2>2, <2>3, <2>4 DEF Known
<1>8. Ready(p)'
  BY <1>4 DEF Ready
<1>. QED
  BY <1>1, <1>2, <1>3, <1>5, <1>6, <1>7, <1>8, StepKeeps

\* A command that ends before its marker is written leaves an excuse.
LEMMA FailStep ==
    ASSUME StackInv, NEW CONSTANT p \in Procs, Stack!Fail(p)
    PROVE  StackInv'
<1>1. PICK i : i = at[p]
  OBVIOUS
<1>2. /\ faults < MaxFaults /\ faults' = faults + 1
      /\ cut' = IF place[p] = "mark" THEN cut \cup {i} ELSE cut
      /\ place' = [place EXCEPT ![p] = "done"]
      /\ etc' = etc /\ vendor' = vendor /\ copied' = copied /\ op' = op /\ at' = at
      /\ text' = text /\ copying' = copying /\ edits' = edits
      /\ own' = own /\ replaced' = replaced /\ raced' = raced
  BY <1>1 DEF Stack!Fail, Stack!fileVars
<1>3. /\ StackTypeOK /\ (etc[i] # None => Placed(etc[i])) /\ (text[p] # None => Placed(text[p]))
      /\ i \in Numbers
  BY <1>1, StepFrom
<1>4. place'[p] = "done" /\ \A q \in Procs \ {p} : place'[q] = place[q]
  BY <1>2, <1>3 DEF StackTypeOK
<1>5. StackTypeOK'
  <2>1. faults' \in 0 .. MaxFaults
    BY <1>2, <1>3, PamFilesAssumption DEF StackTypeOK
  <2>. QED
    BY <1>2, <1>3, <2>1 DEF StackTypeOK, Places
<1>6. StepOf(p) /\ OneWorks(p)
  BY <1>2, <1>4 DEF StepOf, OneWorks, Busy
<1>7. ASSUME i \notin Excused'
      PROVE  Known(i)'
  <2>1. place[p] # "mark"
    BY <1>2, <1>7 DEF Excused
  <2>. QED
    BY <1>1, <1>2, <1>4, <1>6, <1>7, <2>1, SameFiles
<1>8. Ready(p)'
  BY <1>4 DEF Ready
<1>. QED
  BY <1>1, <1>2, <1>3, <1>5, <1>6, <1>7, <1>8, StepKeeps

\* With the markers goes what relied on them: the services of the markers and of the
\* copies under way have raced.
LEMMA WipeStep ==
    ASSUME StackInv, NEW CONSTANT p \in Procs, Stack!Wipe(p)
    PROVE  StackInv'
<1>1. /\ place[p] = "wipe" /\ copied' = {} /\ place' = [place EXCEPT ![p] = "done"]
      /\ etc' = etc /\ vendor' = vendor /\ op' = op /\ at' = at
      /\ text' = text /\ copying' = copying /\ faults' = faults /\ edits' = edits
      /\ own' = own /\ replaced' = replaced /\ cut' = cut
  BY DEF Stack!Wipe
<1>2. raced' = raced \cup copied \cup {at[q] : q \in {q \in Procs \ {p} :
                                          op[q] = "add" /\ place[q] \in {"write", "mark"}}}
  BY DEF Stack!Wipe
<1>3. StackTypeOK /\ OneByOne /\ LinesPlaced /\ NothingLost
  BY DEF StackInv
<1>4. place'[p] = "done" /\ \A q \in Procs \ {p} : place'[q] = place[q]
  BY <1>1, <1>3 DEF StackTypeOK
<1>5. StackTypeOK'
  <2>1. raced' \subseteq Numbers
    BY <1>2, <1>3 DEF StackTypeOK
  <2>. QED
    BY <1>1, <1>3, <2>1 DEF StackTypeOK, Places
<1>6. OneByOne' /\ LinesPlaced'
  BY <1>1, <1>2, <1>3, <1>4 DEF OneByOne, LinesPlaced, Busy
<1>7. \A i : i \notin Excused' =>
        /\ i \notin Excused /\ i \notin copied
        /\ \A q \in Procs : ~(place[q] = "mark" /\ at[q] = i)
  BY <1>1, <1>2, <1>3 DEF Excused, OneByOne
<1>8. ASSUME NEW i \in Numbers, i \notin Excused'
      PROVE  Known(i)'
  <2>1. Known(i)
    BY <1>3, <1>7, <1>8 DEF NothingLost
  <2>2. ~IsCopy(i) /\ ~IsCopy(i)'
    BY <1>1, <1>4, <1>7, <1>8 DEF IsCopy
  <2>. QED
    BY <1>1, <2>1, <2>2 DEF Known
<1>9. ASSUME NEW q \in Procs, at'[q] \notin Excused'
      PROVE  Ready(q)'
  <2>1. Ready(q) /\ at[q] \notin copied
    BY <1>1, <1>3, <1>7, <1>9 DEF NothingLost
  <2>2. CASE q = p
    BY <1>4, <2>2 DEF Ready
  <2>3. CASE q # p
    BY <1>1, <1>4, <2>1, <2>3 DEF Ready
  <2>. QED
    BY <2>2, <2>3
<1>10. NothingLost'
  BY <1>8, <1>9 DEF NothingLost
<1>. QED
  BY <1>5, <1>6, <1>10 DEF StackInv

\* The administrator's line is in what would be there without passkey, too; a copy that
\* he edits is longer than the vendor's from then on.
LEMMA EditStep ==
    ASSUME StackInv, NEW CONSTANT i \in Numbers, Stack!Edit(i)
    PROVE  StackInv'
<1>. DEFINE t == Append(etc[i], "other")
<1>1. /\ edits < MaxEdits /\ edits' = edits + 1 /\ etc[i] # None
      /\ etc' = [etc EXCEPT ![i] = t] /\ own' = [own EXCEPT ![i] = Restored(t)]
      /\ vendor' = vendor /\ copied' = copied /\ op' = op /\ place' = place /\ at' = at
      /\ text' = text /\ copying' = copying /\ faults' = faults
      /\ replaced' = replaced /\ cut' = cut
  BY SameText DEF Stack!Edit, Stack!procVars
<1>2. raced' = raced \cup {i : p \in {p \in Procs : at[p] = i /\ place[p] = "write"}}
  BY DEF Stack!Edit
<1>3. StackTypeOK /\ OneByOne /\ LinesPlaced /\ NothingLost
  BY DEF StackInv
<1>4. etc[i] \in Seq(LineKinds) /\ Placed(etc[i])
  BY <1>1, <1>3, IsText DEF StackTypeOK, LinesPlaced
<1>5. /\ t \in Seq(LineKinds) /\ (HasOurs(t) <=> HasOurs(etc[i])) /\ Placed(t)
      /\ Restored(t) = Append(Restored(etc[i]), "other")
  BY <1>4, Appended
<1>6. Restored(etc[i]) \in Seq(LineKinds) /\ Restored(t) \in Seq(LineKinds)
  BY <1>4, <1>5, RestoredSeq
<1>7. t \in Files /\ t # None /\ Restored(t) \in Files
  BY <1>5, <1>6, NoneIsNoText
<1>8. /\ Len(Restored(etc[i])) \in Nat /\ Len(Restored(t)) = Len(Restored(etc[i])) + 1
  BY <1>5, <1>6, Appended, LenProperties
<1>. HIDE DEF t
<1>9. /\ etc'[i] = t /\ own'[i] = Restored(t)
      /\ \A j \in Numbers \ {i} : etc'[j] = etc[j] /\ own'[j] = own[j]
  BY <1>1, <1>3 DEF StackTypeOK
<1>10. StackTypeOK'
  <2>1. edits' \in 0 .. MaxEdits
    <3>1. edits \in 0 .. MaxEdits
      BY <1>3 DEF StackTypeOK
    <3>. QED
      BY <1>1, <3>1, PamFilesAssumption
  <2>2. raced' \subseteq Numbers
    BY <1>2, <1>3 DEF StackTypeOK
  <2>. QED
    BY <1>1, <1>3, <1>7, <2>1, <2>2 DEF StackTypeOK, Places
<1>11. OneByOne'
  BY <1>1, <1>2, <1>3 DEF OneByOne, Busy
<1>12. LinesPlaced'
  BY <1>1, <1>3, <1>5, <1>9 DEF LinesPlaced
<1>13. \A j : j \notin Excused' => j \notin Excused
  BY <1>1, <1>2 DEF Excused
<1>14. ASSUME NEW j \in Numbers, j \notin Excused'
       PROVE  Known(j)'
  <2>1. Known(j) /\ (IsCopy(j)' <=> IsCopy(j))
    BY <1>1, <1>3, <1>13, <1>14 DEF NothingLost, IsCopy
  <2>2. CASE j # i
    BY <1>1, <1>9, <2>1, <2>2 DEF Known
  <2>3. CASE j = i
    <3>1. ASSUME IsCopy(i), vendor[i] # None
          PROVE  Len(Restored(t)) > Len(vendor[i])
      <4>1. vendor[i] \in Seq(LineKinds)
        BY <1>3, <3>1, IsText DEF StackTypeOK
      <4>2. Len(vendor[i]) \in Nat
        BY <4>1, LenProperties
      <4>3. CASE own[i] = None
        <5>1. Restored(etc[i]) = vendor[i]
          BY <1>1, <1>6, <2>1, <2>3, <4>3, NoneIsNoText DEF Known
        <5>. QED
          BY <1>8, <4>2, <5>1
      <4>4. CASE own[i] # None
        <5>1. Restored(etc[i]) = own[i] /\ Len(own[i]) > Len(vendor[i])
          BY <1>1, <2>1, <2>3, <3>1, <4>4 DEF Known
        <5>. QED
          BY <1>8, <4>2, <5>1
      <4>. QED
        BY <4>3, <4>4
    <3>. QED
      BY <1>1, <1>7, <1>9, <2>1, <2>3, <3>1 DEF Known
  <2>. QED
    BY <2>2, <2>3
<1>15. ASSUME NEW q \in Procs, at'[q] \notin Excused'
       PROVE  Ready(q)'
  <2>1. Ready(q) /\ at[q] \in Numbers
    BY <1>1, <1>3, <1>13, <1>15 DEF NothingLost, StackTypeOK
  <2>2. CASE at[q] # i
    BY <1>1, <1>9, <2>1, <2>2 DEF Ready
  <2>3. CASE at[q] = i
    <3>1. place[q] # "write"
      BY <1>1, <1>2, <1>15, <2>3 DEF Excused
    <3>. QED
      BY <1>1, <1>5, <1>9, <2>1, <2>3, <3>1 DEF Ready
  <2>. QED
    BY <2>2, <2>3
<1>16. NothingLost'
  BY <1>14, <1>15 DEF NothingLost
<1>. QED
  BY <1>10, <1>11, <1>12, <1>16 DEF StackInv

\* A vendor's file that changes under one in /etc is an excuse.
LEMMA UpgradeStep ==
    ASSUME StackInv, NEW CONSTANT i \in Numbers, Stack!Upgrade(i)
    PROVE  StackInv'
<1>. DEFINE t == Append(vendor[i], "other")
<1>1. /\ edits < MaxEdits /\ edits' = edits + 1 /\ vendor[i] # None
      /\ vendor' = [vendor EXCEPT ![i] = t]
      /\ etc' = etc /\ own' = own /\ copied' = copied /\ op' = op /\ place' = place /\ at' = at
      /\ text' = text /\ copying' = copying /\ faults' = faults /\ cut' = cut
  BY DEF Stack!Upgrade, Stack!procVars
<1>2. /\ raced' = raced \cup {i : p \in {p \in Procs : at[p] = i /\ place[p] = "write"}}
      /\ replaced' = replaced \cup {i : f \in {etc[i]} \ {None}}
  BY DEF Stack!Upgrade
<1>3. StackTypeOK /\ OneByOne /\ LinesPlaced /\ NothingLost
  BY DEF StackInv
<1>4. vendor[i] \in Seq(LineKinds) /\ ~HasOurs(vendor[i])
  BY <1>1, <1>3, IsText DEF StackTypeOK, LinesPlaced
<1>5. t \in Files /\ ~HasOurs(t)
  BY <1>4, Appended, NoneIsNoText
<1>. HIDE DEF t
<1>6. vendor'[i] = t /\ \A j \in Numbers \ {i} : vendor'[j] = vendor[j]
  BY <1>1, <1>3 DEF StackTypeOK
<1>7. StackTypeOK'
  <2>1. edits' \in 0 .. MaxEdits
    <3>1. edits \in 0 .. MaxEdits
      BY <1>3 DEF StackTypeOK
    <3>. QED
      BY <1>1, <3>1, PamFilesAssumption
  <2>2. raced' \subseteq Numbers /\ replaced' \subseteq Numbers
    BY <1>2, <1>3 DEF StackTypeOK
  <2>. QED
    BY <1>1, <1>3, <1>5, <2>1, <2>2 DEF StackTypeOK, Places
<1>8. OneByOne'
  BY <1>1, <1>2, <1>3 DEF OneByOne, Busy
<1>9. LinesPlaced'
  BY <1>1, <1>3, <1>5, <1>6 DEF LinesPlaced
<1>10. \A j : j \notin Excused' => j \notin Excused
  BY <1>1, <1>2 DEF Excused
<1>11. ASSUME NEW j \in Numbers, j \notin Excused'
       PROVE  Known(j)'
  <2>1. Known(j) /\ (IsCopy(j)' <=> IsCopy(j))
    BY <1>1, <1>3, <1>10, <1>11 DEF NothingLost, IsCopy
  <2>2. CASE j # i
    BY <1>1, <1>6, <2>1, <2>2 DEF Known
  <2>3. CASE j = i
    <3>1. etc[i] = None
      BY <1>2, <1>11, <2>3 DEF Excused
    <3>. QED
      BY <1>1, <2>1, <2>3, <3>1 DEF Known
  <2>. QED
    BY <2>2, <2>3
<1>12. ASSUME NEW q \in Procs, at'[q] \notin Excused'
       PROVE  Ready(q)'
  <2>1. Ready(q) /\ at[q] \in Numbers
    BY <1>1, <1>3, <1>10, <1>12 DEF NothingLost, StackTypeOK
  <2>2. CASE at[q] # i
    BY <1>1, <1>6, <2>1, <2>2 DEF Ready
  <2>3. CASE at[q] = i
    <3>1. place[q] # "write"
      BY <1>1, <1>2, <1>12, <2>3 DEF Excused
    <3>. QED
      BY <1>1, <2>1, <3>1 DEF Ready
  <2>. QED
    BY <2>2, <2>3
<1>13. NothingLost'
  BY <1>11, <1>12 DEF NothingLost
<1>. QED
  BY <1>7, <1>8, <1>9, <1>13 DEF StackInv

\* Every step of every command, the administrator and the packages keeps it so.
LEMMA StackInductive == Stack!Spec => []StackInv
<1>1. Stack!Init => StackInv
  BY StackInit
<1>2. StackInv /\ [Stack!Next]_Stack!vars => StackInv'
  <2>. SUFFICES ASSUME StackInv, [Stack!Next]_Stack!vars
                PROVE  StackInv'
    OBVIOUS
  <2>1. ASSUME NEW CONSTANT p \in Procs, Stack!Command(p)
        PROVE  StackInv'
    BY <2>1, StartStep, AddLookStep, AddWriteStep, AddMarkStep, UninstallLookStep,
       UninstallWriteStep, UnmarkStep, WipeStep, FailStep DEF Stack!Command
  <2>2. ASSUME NEW CONSTANT i \in Numbers, Stack!Edit(i) \/ Stack!Upgrade(i)
        PROVE  StackInv'
    BY <2>2, EditStep, UpgradeStep
  <2>3. ASSUME UNCHANGED Stack!vars
        PROVE  StackInv'
    <3>1. /\ etc' = etc /\ vendor' = vendor /\ copied' = copied /\ op' = op /\ place' = place
          /\ at' = at /\ text' = text /\ copying' = copying /\ faults' = faults /\ edits' = edits
          /\ own' = own /\ replaced' = replaced /\ raced' = raced /\ cut' = cut
      BY <2>3 DEF Stack!vars, Stack!fileVars, Stack!procVars, Stack!history
    <3>2. StackTypeOK' <=> StackTypeOK
      BY <3>1 DEF StackTypeOK, Places
    <3>3. \A i : Known(i)' <=> Known(i)
      BY <3>1 DEF Known, IsCopy
    <3>4. \A p : Ready(p)' <=> Ready(p)
      BY <3>1 DEF Ready
    <3>. QED
      BY <3>1, <3>2, <3>3, <3>4 DEF StackInv, OneByOne, LinesPlaced, NothingLost, Busy, Excused
  <2>. QED
    BY <2>1, <2>2, <2>3, SameText DEF Stack!Next
<1>. QED
  BY <1>1, <1>2, PTL DEF Stack!Spec

\* The files are texts of known lines and every command is at one of the services, for any
\* number of services, commands, failures and edits (cli.rs: configure, uninstall).
THEOREM StackTypeCorrect == Stack!Spec => []StackTypeOK
<1>1. StackInv => StackTypeOK
  BY DEF StackInv
<1>. QED
  BY <1>1, StackInductive, PTL

\* Whatever commands ran, in any order, however they overlapped or failed: a service file
\* without a line of passkey is the administrator's to the letter, and is not there if
\* passkey made it, with the exceptions StackRestored names (cli.rs: pam_add, pam_remove).
THEOREM FilesRestored == Stack!Spec => []StackRestored
<1>1. StackInv => StackRestored
  <2>. SUFFICES ASSUME StackInv, NEW i \in Numbers, i \notin Excused,
                       ~(etc[i] # None /\ HasOurs(etc[i]))
                PROVE  etc[i] = own[i]
    BY DEF StackRestored, Excused
  <2>1. Known(i) /\ StackTypeOK
    BY DEF StackInv, NothingLost
  <2>2. CASE etc[i] = None
    BY <2>1, <2>2 DEF Known
  <2>3. CASE etc[i] # None
    <3>1. etc[i] \in Seq(LineKinds)
      BY <2>1, <2>3, IsText DEF StackTypeOK
    <3>2. Restored(etc[i]) = etc[i]
      BY <2>3, <3>1, NothingOurs
    <3>. QED
      BY <2>1, <2>3, <3>2 DEF Known
  <2>. QED
    BY <2>2, <2>3
<1>. QED
  BY <1>1, StackInductive, PTL

\* Where the wanted line is in a service file, it is there once, before every auth line
\* but the guards, whatever the file was (cli.rs: pam_add).
THEOREM LineFirst == Stack!Spec => []PasskeyFirst
<1>1. StackInv => PasskeyFirst
  BY DEF StackInv, LinesPlaced, Placed, PasskeyFirst
<1>. QED
  BY <1>1, StackInductive, PTL
=============================================================================
