----------------------------- MODULE PamSession -----------------------------
(***************************************************************************)
(* One call of the PAM module's authenticate: the password prompt runs on  *)
(* a thread of its own (mode=parallel) or comes first, on the caller's     *)
(* thread (mode=on-empty); the device is asked through a helper process    *)
(* (passkey pam-auth) that writes "y" to a pipe. The caller polls the      *)
(* prompt's channel and the pipe every 20 ms.                              *)
(*                                                                         *)
(* Abstracted: argument parsing, the text of the prompts, signal masks,    *)
(* and what libfido2 and the daemon do with the helper's two requests      *)
(* (they succeed or they do not; Broker has them as clients).              *)
(***************************************************************************)
EXTENDS Naturals

CONSTANTS MaxTries,   \* how many helpers one call may start: 3 in the code
          Modes       \* the configurations considered

ASSUME PamSessionAssumption ==
    /\ MaxTries \in Nat \ {0}
    /\ Modes \subseteq {"parallel", "on-empty"}

Helpers == 1 .. MaxTries
Phases  == {"unborn", "probe", "assert", "verify", "yes", "no"}
Typed   == {"nothing", "password", "empty", "null", "failed"}
Results == {"ignore", "success", "conv_err", "status"}
PcStates == {"check", "prompt", "loop", "poll", "waited", "linger", "leave", "returned"}

VARIABLES
    mode,       \* on_empty or not
    pc,         \* where the caller's thread stands
    ask,        \* the helper asked, 0 for None
    tries,
    prompting,  \* the caller has not taken the prompt's result yet
    result,     \* what authenticate returns
    authtok,    \* TRUE: pam_set_item(PAM_AUTHTOK) stored the password
    prompt,     \* pam_prompt: "none", "open", "typed" (it returned), "sent"
    typed,      \* what it returned with
    mail,       \* TRUE: the result waits in the channel
    memory,     \* the answer pam_prompt allocated: "none", "held", "wiped", "lost"
    helper,     \* phase of each helper process
    expired     \* helpers whose deadline is over

vars == <<mode, pc, ask, tries, prompting, result, authtok, prompt, typed, mail,
          memory, helper, expired>>

promptVars == <<prompt, typed, mail, memory>>
helperVars == <<helper, expired>>

Alive(h) == helper[h] \in {"probe", "assert", "verify"}

Init ==
    /\ mode \in Modes
    /\ pc = "check" /\ ask = 0 /\ tries = 0 /\ prompting = TRUE
    /\ result = "ignore" /\ authtok = FALSE
    /\ prompt = "none" /\ typed = "nothing" /\ mail = FALSE /\ memory = "none"
    /\ helper = [h \in Helpers |-> "unborn"] /\ expired = {}

-----------------------------------------------------------------------------
(* Starting and stopping a helper.                                         *)

\* Ask::start: `ok` tells whether the pipe and the process could be made.
StartAsk(ok) ==
    /\ ask' = IF ok THEN tries + 1 ELSE 0
    /\ tries' = IF ok THEN tries + 1 ELSE tries
    /\ helper' = IF ok THEN [helper EXCEPT ![tries + 1] = "probe"] ELSE helper

\* A plausible bug: the process is left to itself.
LetRun(h) == helper

\* Dropping an Ask kills the process and reaps it.
Killed(h) == IF h # 0 /\ Alive(h) THEN [helper EXCEPT ![h] = "no"] ELSE helper

-----------------------------------------------------------------------------
(* The caller's thread.                                                    *)

\* No device, no key of the user, no helper: the next module of the stack.
Ignore ==
    /\ pc = "check"
    /\ pc' = "returned"
    /\ UNCHANGED <<mode, ask, tries, prompting, result, authtok, promptVars, helperVars>>

Begin ==
    /\ pc = "check" /\ prompt' = "open"
    /\ \/ /\ mode = "parallel" /\ \E ok \in BOOLEAN : StartAsk(ok)
          /\ pc' = "loop"
       \/ /\ mode = "on-empty" /\ pc' = "prompt"
          /\ UNCHANGED <<ask, tries, helper>>
    /\ UNCHANGED <<mode, prompting, result, authtok, typed, mail, memory, expired>>

\* No password, but an empty line: ask the device, unless it is asked already.
AskAgain ==
    IF ask = 0 /\ tries < MaxTries
    THEN \E ok \in BOOLEAN : StartAsk(ok)
    ELSE UNCHANGED <<ask, tries, helper>>

\* What the prompt's result means: a status of PAM, a password, or Enter.
Judge ==
    \/ /\ typed = "failed" /\ result' = "status" /\ pc' = "leave"
       /\ UNCHANGED <<authtok, ask, tries, helper>>
    \/ /\ typed = "null" /\ result' = "conv_err" /\ pc' = "leave"
       /\ UNCHANGED <<authtok, ask, tries, helper>>
    \/ /\ typed = "password" /\ pc' = "leave"
       /\ \/ authtok' = TRUE /\ UNCHANGED result
          \/ result' = "status" /\ UNCHANGED authtok
       /\ UNCHANGED <<ask, tries, helper>>
    \/ /\ typed = "empty" /\ AskAgain
       /\ pc' = IF ask' = 0 THEN "leave" ELSE "poll"
       /\ UNCHANGED <<result, authtok>>

Wiped == IF memory = "held" THEN "wiped" ELSE memory

Receive ==
    /\ pc = "loop" /\ prompting /\ mail
    /\ mail' = FALSE /\ prompting' = FALSE /\ memory' = Wiped
    /\ Judge
    /\ UNCHANGED <<mode, prompt, typed, expired>>

\* try_recv finds nothing, or was done with before.
NothingTyped ==
    /\ pc = "loop" /\ (prompting => ~ mail)
    /\ pc' = "poll"
    /\ UNCHANGED <<mode, ask, tries, prompting, result, authtok, promptVars, helperVars>>

\* Plausible bugs: any end of the helper is taken for an approval; an
\* approval is only looked at once the prompt is answered.
Ends(h)         == helper[h] \in {"yes", "no"}
ApprovesLate(h) == helper[h] = "yes" /\ ~ prompting

\* Ask::answer: "y" in the pipe, or the pipe closed without it.
Approves(h) == helper[h] = "yes"
Denies(h)   == helper[h] = "no"

Approved ==
    /\ pc = "poll" /\ ask # 0 /\ Approves(ask)
    /\ ask' = 0 /\ result' = "success"
    /\ pc' = IF prompting THEN "linger" ELSE "leave"
    /\ UNCHANGED <<mode, tries, prompting, authtok, promptVars, helperVars>>

\* With the prompt still open the user may type a password instead.
NextOf == IF prompting THEN "loop" ELSE "leave"

\* A plausible bug: a refusal starts the next helper at once.
AskAfterDenial ==
    /\ pc = "poll" /\ ask # 0 /\ Denies(ask)
    /\ StartAsk(TRUE) /\ pc' = "loop"
    /\ UNCHANGED <<mode, prompting, result, authtok, promptVars, expired>>

Denied ==
    /\ pc = "poll" /\ ask # 0 /\ Denies(ask)
    /\ ask' = 0 /\ pc' = NextOf
    /\ UNCHANGED <<mode, tries, prompting, result, authtok, promptVars, helperVars>>

NoAsk ==
    /\ pc = "poll" /\ ask = 0 /\ pc' = NextOf
    /\ UNCHANGED <<mode, ask, tries, prompting, result, authtok, promptVars, helperVars>>

\* No answer yet: the deadline is looked at next.
NoAnswer ==
    /\ pc = "poll" /\ ask # 0 /\ ~ Approves(ask) /\ ~ Denies(ask)
    /\ pc' = "waited"
    /\ UNCHANGED <<mode, ask, tries, prompting, result, authtok, promptVars, helperVars>>

Again ==
    /\ pc = "waited" /\ ask \notin expired /\ pc' = "loop"
    /\ UNCHANGED <<mode, ask, tries, prompting, result, authtok, promptVars, helperVars>>

TimeOut ==
    /\ pc = "waited" /\ ask \in expired
    /\ ask' = 0 /\ helper' = Killed(ask) /\ pc' = NextOf
    /\ UNCHANGED <<mode, tries, prompting, result, authtok, promptVars, expired>>

\* recv_timeout after end_tty_prompt: one second for the prompt's thread.
Linger ==
    /\ pc = "linger" /\ pc' = "leave"
    /\ \/ mail /\ mail' = FALSE /\ memory' = Wiped
       \/ ~ mail /\ UNCHANGED <<mail, memory>>
    /\ UNCHANGED <<mode, ask, tries, prompting, result, authtok, prompt, typed, helperVars>>

\* authenticate returns; the channel goes with what is still in it.
Return ==
    /\ pc = "leave" /\ pc' = "returned"
    /\ helper' = Killed(ask) /\ ask' = 0
    /\ mail' = FALSE
    /\ memory' = IF mail /\ memory = "held" THEN "lost" ELSE memory
    /\ UNCHANGED <<mode, tries, prompting, result, authtok, prompt, typed, expired>>

-----------------------------------------------------------------------------
(* The prompt: a conversation with the user, on whichever thread.          *)

\* pam_prompt returns: a line, nothing, or an error. While the caller
\* lingers the line may be the newline end_tty_prompt put there.
TypeIn(line) ==
    /\ prompt = "open" /\ prompt' = "typed" /\ typed' = line
    /\ memory' = IF line \in {"password", "empty"} THEN "held" ELSE "none"
    /\ UNCHANGED <<mode, pc, ask, tries, prompting, result, authtok, mail, helperVars>>

\* sender.send: an error means that the receiver is gone.
SendTyped ==
    /\ prompt = "typed" /\ prompt' = "sent"
    /\ IF pc = "returned"
       THEN memory' = Wiped /\ UNCHANGED mail
       ELSE mail' = TRUE /\ UNCHANGED memory
    /\ pc' = IF pc = "prompt" THEN "loop" ELSE pc
    /\ UNCHANGED <<mode, ask, tries, prompting, result, authtok, typed, helperVars>>

-----------------------------------------------------------------------------
(* The helper process: passkey pam-auth.                                   *)

\* The request without presence; whatever comes of it, the next one follows.
Probe(h) ==
    /\ helper[h] = "probe" /\ helper' = [helper EXCEPT ![h] = "assert"]
    /\ UNCHANGED <<mode, pc, ask, tries, prompting, result, authtok, promptVars, expired>>

\* A phone approved, and libfido2 has the assertion.
Assert(h) ==
    /\ helper[h] = "assert" /\ helper' = [helper EXCEPT ![h] = "verify"]
    /\ UNCHANGED <<mode, pc, ask, tries, prompting, result, authtok, promptVars, expired>>

\* The signature verifies with a key of the user: "y", and the process ends.
Verify(h) ==
    /\ helper[h] = "verify" /\ helper' = [helper EXCEPT ![h] = "yes"]
    /\ UNCHANGED <<mode, pc, ask, tries, prompting, result, authtok, promptVars, expired>>

\* No key, no device, a refusal, a wrong signature, or it was killed.
GiveUp(h) ==
    /\ Alive(h) /\ helper' = [helper EXCEPT ![h] = "no"]
    /\ UNCHANGED <<mode, pc, ask, tries, prompting, result, authtok, promptVars, expired>>

\* 600 s in parallel mode, 45 s after Enter.
Expire(h) ==
    /\ h = ask /\ h \notin expired /\ expired' = expired \cup {h}
    /\ UNCHANGED <<mode, pc, ask, tries, prompting, result, authtok, promptVars, helper>>

-----------------------------------------------------------------------------
Caller == \/ Begin \/ Receive \/ NothingTyped \/ Approved \/ Denied \/ NoAsk
          \/ NoAnswer \/ Again \/ TimeOut \/ Linger \/ Return

Next ==
    \/ Ignore
    \/ Caller
    \/ \E line \in Typed \ {"nothing"} : TypeIn(line)
    \/ SendTyped
    \/ \E h \in Helpers : Probe(h) \/ Assert(h) \/ Verify(h) \/ GiveUp(h) \/ Expire(h)

Spec == Init /\ [][Next]_vars

\* The caller's thread and the prompt's thread run, and the deadline of a helper
\* that stays at work passes. Nothing is assumed of the user, the phone or the
\* helper.
FairSpec ==
    /\ Spec
    /\ WF_vars(Caller) /\ WF_vars(SendTyped)
    /\ \A h \in Helpers : WF_vars(Alive(h) /\ Expire(h))

-----------------------------------------------------------------------------
(* Types and properties.                                                   *)

\* The types of the variables of authenticate; 0 stands for "no helper".
TypeOK ==
    /\ mode \in Modes /\ pc \in PcStates
    /\ ask \in Helpers \cup {0} /\ tries \in 0 .. MaxTries
    /\ prompting \in BOOLEAN /\ result \in Results /\ authtok \in BOOLEAN
    /\ prompt \in {"none", "open", "typed", "sent"} /\ typed \in Typed
    /\ mail \in BOOLEAN /\ memory \in {"none", "held", "wiped", "lost"}
    /\ helper \in [Helpers -> Phases] /\ expired \subseteq Helpers

\* Ask::answer and the loop: PAM_SUCCESS is returned only after a helper
\* verified an assertion, never because one ended, and never next to a
\* password that was handed to the next module.
SuccessIsVerified ==
    result = "success" => (\E h \in Helpers : helper[h] = "yes") /\ ~ authtok

\* Drop for Ask, on every way out of the loop: at most one helper runs, the
\* one the caller polls, and none is left when authenticate returns.
NoHelperLeft ==
    \A h \in Helpers : Alive(h) => h = ask /\ pc # "returned"

\* "Your password keeps working either way" (README.md:5): refusals, helpers
\* that fail and deadlines never end the call while the password prompt is
\* open. Only an approval does, and then the prompt's thread may be left
\* behind (drop(prompt_thread)), still using the PAM handle.
PromptStays ==
    pc = "returned" /\ prompt \in {"open", "typed"} => result = "success"

\* The order of polling in the loop: an approval written to the pipe is what
\* authenticate returns, unless the user typed a password or ended the
\* prompt, or the helper's deadline passed as it wrote.
ApprovalCounts ==
    \A h \in Helpers :
        pc = "returned" /\ helper[h] = "yes" =>
            \/ result = "success"
            \/ typed \in {"password", "null", "failed"}
            \/ h \in expired

\* What authenticate returns is earned, whichever of the prompt's thread and the
\* helper comes first: success by a verified assertion and not next to a password,
\* an approval never lost to an empty line, a password never to a refusal.
ResultIsEarned == SuccessIsVerified /\ PromptStays /\ ApprovalCounts

\* wipe: a typed line is given back by the caller or, when the receiver is
\* gone, by the prompt's thread. The exception is a line sent after
\* recv_timeout gave up and before the receiver is dropped.
AnswerWiped ==
    /\ pc = "returned" /\ prompt = "sent" => memory # "held"
    /\ memory = "lost" => result = "success"

\* Nothing is left behind by any way out of the loop: no helper process, and no
\* typed line in memory (Drop for Ask, wipe).
NothingLeft == NoHelperLeft /\ AnswerWiped

\* Whatever the helper does, authenticate returns once the user has answered
\* the prompt: at once, or when the device answers or its deadline is over.
PromptEndsCall == prompt = "sent" ~> pc = "returned"

\* With the prompt open and untouched, an approval still ends the call.
ApprovalEndsCall ==
    \A h \in Helpers :
        (ask = h /\ helper[h] = "yes") ~> (pc = "returned" \/ h \in expired)

\* The call ends, by the user or by the phone: authenticate's loop waits for no
\* third event.
CallEnds == PromptEndsCall /\ ApprovalEndsCall
=============================================================================
