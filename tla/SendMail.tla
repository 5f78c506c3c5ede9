----------------------------- MODULE SendMail -----------------------------
(***************************************************************************)
(* Sending with a grace period: the messages of one customer in            *)
(* _pending_sends, the requests that send, undo, hurry and retry them      *)
(* (app/modules/mail/controllers/compose.py) and the _send_worker threads  *)
(* (helpers.py) that deliver them.                                         *)
(*                                                                         *)
(* What runs under _pending_sends_lock is one action. A thread's delay is  *)
(* not modelled: it may claim its message at any time, before a Send now   *)
(* too. Everything here is in the memory of one process and ends with it.  *)
(*                                                                         *)
(* A definition named Slip... is the definition after it with one mistake. *)
(***************************************************************************)
EXTENDS Naturals, FiniteSets

CONSTANTS
  Tokens,    \* the messages
  Threads,   \* thread ids, the bound on workers alive at once
  MaxTries,  \* the bound on attempts to deliver one message
  NoMail

ASSUME SendAssumption == NoMail \notin Tokens \union Threads /\ MaxTries \in Nat \ {0}

Finished == {"sent", "failed", "cancelled"}
Claimable == {"countdown", "queued"}

VARIABLES
  status,    \* token |-> status in _pending_sends, "none" when it has no entry
  thread,    \* the _send_worker threads: the token, and how far it got
  notice,    \* _send_failure_notice of the customer
  tries,     \* token |-> attempts to deliver it
  accepted,  \* token |-> how often the SMTP server took the message
  unheard,   \* token |-> how often its answer to that was lost
  draft,     \* tokens whose draft is in Drafts
  shown      \* failed tokens whose failure the customer has seen

sendVars == <<status, thread, notice, tries, accepted, unheard, draft, shown>>

Spare == [token |-> NoMail, at |-> "free"]

SendInit ==
  /\ status = [t \in Tokens |-> "none"]
  /\ thread = [w \in Threads |-> Spare]
  /\ notice = NoMail
  /\ tries = [t \in Tokens |-> 0]
  /\ accepted = [t \in Tokens |-> 0]
  /\ unheard = [t \in Tokens |-> 0]
  /\ draft \in SUBSET Tokens
  /\ shown = {}

-----------------------------------------------------------------------------
\* _start_send_worker, of one of the free ids.
StartWorker(t) ==
  /\ \E w \in Threads : thread[w].at = "free"
  /\ LET w == CHOOSE x \in Threads : thread[x].at = "free"
     IN  thread' = [thread EXCEPT ![w] = [token |-> t, at |-> "waiting"]]

\* _cleanup_pending_sends after a handler left the statuses at s and the
\* notice at n: finished entries that are past their time go, and a notice
\* about an entry that went.
Cleaned(s, n) ==
  \E gone \in SUBSET {t \in Tokens : s[t] \in Finished} :
    /\ status' = [t \in Tokens |-> IF t \in gone THEN "none" ELSE s[t]]
    /\ notice' = IF n \in gone THEN NoMail ELSE n

\* send_mail: a new token, in its countdown.
Send(t) ==
  /\ status[t] = "none" /\ tries[t] = 0
  /\ \A w \in Threads : thread[w].token # t
  /\ Cleaned([status EXCEPT ![t] = "countdown"], notice)
  /\ StartWorker(t)
  /\ tries' = [tries EXCEPT ![t] = 1]
  /\ UNCHANGED <<accepted, unheard, draft, shown>>

\* send_now: one more worker, that does not wait.
SendNow(t) ==
  /\ status[t] \in Claimable
  /\ status' = [status EXCEPT ![t] = "queued"]
  /\ StartWorker(t)
  /\ UNCHANGED <<notice, tries, accepted, unheard, draft, shown>>

\* retry_send
Retry(t) ==
  /\ status[t] = "failed" /\ tries[t] < MaxTries
  /\ status' = [status EXCEPT ![t] = "queued"]
  /\ notice' = IF notice = t THEN NoMail ELSE notice
  /\ StartWorker(t)
  /\ tries' = [tries EXCEPT ![t] = @ + 1]
  /\ shown' = shown \ {t}
  /\ UNCHANGED <<accepted, unheard, draft>>

SlipUndo(t) ==
  /\ status[t] \in Claimable \union {"sending"}
  /\ status' = [status EXCEPT ![t] = "cancelled"]
  /\ UNCHANGED <<thread, notice, tries, accepted, unheard, draft, shown>>

\* undo_send
Undo(t) ==
  /\ status[t] \in Claimable
  /\ status' = [status EXCEPT ![t] = "cancelled"]
  /\ UNCHANGED <<thread, notice, tries, accepted, unheard, draft, shown>>

\* send_status, which cleans up first: the customer sees the state of a message.
Status(t) ==
  /\ status[t] # "none"
  /\ Cleaned(status, notice)
  /\ shown' = IF status'[t] = "failed" THEN shown \union {t} ELSE shown
  /\ UNCHANGED <<thread, tries, accepted, unheard, draft>>

\* A mailbox page consumes the notice and shows it in a banner.
Mailbox ==
  /\ notice # NoMail
  /\ shown' = IF status[notice] = "failed" THEN shown \union {notice} ELSE shown
  /\ notice' = NoMail
  /\ UNCHANGED <<status, thread, tries, accepted, unheard, draft>>

-----------------------------------------------------------------------------
(* _send_worker *)

Reaches(w, at) == thread' = [thread EXCEPT ![w].at = at]
Ends(w) == thread' = [thread EXCEPT ![w] = Spare]

SlipClaim(w) ==
  /\ thread[w].at = "waiting"
  /\ LET t == thread[w].token
     IN  IF status[t] \in Claimable \union {"sending"}
         THEN Reaches(w, "smtp") /\ status' = [status EXCEPT ![t] = "sending"]
         ELSE Ends(w) /\ UNCHANGED status
  /\ UNCHANGED <<notice, tries, accepted, unheard, draft, shown>>

\* The wait is over: the worker claims the message unless another one did,
\* or it was cancelled, delivered or forgotten.
Claim(w) ==
  /\ thread[w].at = "waiting"
  /\ LET t == thread[w].token
     IN  IF status[t] \in Claimable
         THEN Reaches(w, "smtp") /\ status' = [status EXCEPT ![t] = "sending"]
         ELSE Ends(w) /\ UNCHANGED status
  /\ UNCHANGED <<notice, tries, accepted, unheard, draft, shown>>

\* smtp_send returns: the server took the message.
Accept(w) ==
  /\ thread[w].at = "smtp"
  /\ Reaches(w, "draft")
  /\ accepted' = [accepted EXCEPT ![thread[w].token] = @ + 1]
  /\ UNCHANGED <<status, notice, tries, unheard, draft, shown>>

SlipRefuse(w) ==
  /\ thread[w].at = "smtp"
  /\ Reaches(w, "failing")
  /\ draft' = draft \ {thread[w].token}
  /\ UNCHANGED <<status, notice, tries, accepted, unheard, shown>>

\* It raises: the account, the domain or the recipients are not there, the
\* server refused or was not reached,
Refuse(w) ==
  /\ thread[w].at = "smtp"
  /\ Reaches(w, "failing")
  /\ UNCHANGED <<status, notice, tries, accepted, unheard, draft, shown>>

\* or it took the message and the connection went before its answer came.
LoseAnswer(w) ==
  /\ thread[w].at = "smtp"
  /\ Reaches(w, "failing")
  /\ accepted' = [accepted EXCEPT ![thread[w].token] = @ + 1]
  /\ unheard' = [unheard EXCEPT ![thread[w].token] = @ + 1]
  /\ UNCHANGED <<status, notice, tries, draft, shown>>

\* The copy is appended to Sent, as well as may be, and the draft deleted
\* if the server lets it.
DropDraft(w) ==
  /\ thread[w].at = "draft"
  /\ Reaches(w, "done")
  /\ draft' \in {draft, draft \ {thread[w].token}}
  /\ UNCHANGED <<status, notice, tries, accepted, unheard, shown>>

\* The entry becomes "sent", if there still is one, and is cleaned up.
Finish(w) ==
  /\ thread[w].at = "done"
  /\ LET t == thread[w].token
     IN  IF status[t] = "none" THEN Cleaned(status, notice)
         ELSE Cleaned([status EXCEPT ![t] = "sent"], IF notice = t THEN NoMail ELSE notice)
  /\ Ends(w)
  /\ UNCHANGED <<tries, accepted, unheard, draft, shown>>

SlipFails(w) ==
  /\ thread[w].at = "failing"
  /\ notice' = thread[w].token
  /\ Ends(w)
  /\ UNCHANGED <<status, tries, accepted, unheard, draft, shown>>

\* The entry becomes "failed", and the customer's notice names it.
Fails(w) ==
  /\ thread[w].at = "failing"
  /\ LET t == thread[w].token
     IN  IF status[t] = "none" THEN Cleaned(status, notice)
         ELSE Cleaned([status EXCEPT ![t] = "failed"], t)
  /\ Ends(w)
  /\ UNCHANGED <<tries, accepted, unheard, draft, shown>>

\* The process ends and another one starts.
Crash ==
  /\ \E t \in Tokens : status[t] # "none"
  /\ status' = [t \in Tokens |-> "none"]
  /\ thread' = [w \in Threads |-> Spare]
  /\ notice' = NoMail
  /\ UNCHANGED <<tries, accepted, unheard, draft, shown>>

-----------------------------------------------------------------------------
Work(w) == Claim(w) \/ Accept(w) \/ Refuse(w) \/ LoseAnswer(w)
           \/ DropDraft(w) \/ Finish(w) \/ Fails(w)

SendNext ==
  \/ \E t \in Tokens : Send(t) \/ SendNow(t) \/ Retry(t) \/ Undo(t) \/ Status(t)
  \/ \E w \in Threads : Work(w)
  \/ Mailbox
  \/ Crash

\* A worker that is not ended with its process goes on; the SMTP server
\* answers or the connection ends.
SendSpec == SendInit /\ [][SendNext]_sendVars /\ \A w \in Threads : WF_sendVars(Work(w))

-----------------------------------------------------------------------------
Working(t) == {w \in Threads : thread[w].token = t /\ thread[w].at # "waiting"}

\* Type invariant.
TypeOK ==
  /\ status \in [Tokens -> Finished \union Claimable \union {"sending", "none"}]
  /\ thread \in [Threads ->
       [token : Tokens, at : {"waiting", "smtp", "draft", "done", "failing"}] \union {Spare}]
  /\ notice \in Tokens \union {NoMail}
  /\ tries \in [Tokens -> 0..MaxTries]
  /\ accepted \in [Tokens -> 0..MaxTries] /\ unheard \in [Tokens -> 0..MaxTries]
  /\ draft \subseteq Tokens /\ shown \subseteq Tokens

\* A message is being delivered by one worker exactly while it is "sending",
\* whatever mix of countdowns, Send now, retries and undos led there.
OneSender ==
  \A t \in Tokens : Cardinality(Working(t)) = IF status[t] = "sending" THEN 1 ELSE 0

Confirmed(t) == accepted[t] - unheard[t]

\* The customer is told the truth: what the server confirmed was sent once,
\* a cancelled or failed message was never confirmed, and a sent one was.
\* Only a retry after an answer was lost delivers a message twice.
TruthTold ==
  \A t \in Tokens :
    /\ accepted[t] <= unheard[t] + 1
    /\ status[t] \in {"cancelled", "failed"} => accepted[t] = unheard[t]
    /\ status[t] = "sent" => accepted[t] = unheard[t] + 1

\* The draft goes only after the server confirmed the message, so a failed,
\* cancelled or interrupted send leaves it.
DraftOutlivesDoubt ==
  [][\A t \in Tokens : t \in draft /\ t \notin draft' => Confirmed(t) = 1]_sendVars

\* A message that is counting down, queued or being sent comes to an end, of
\* its own or with the process.
SendEnds ==
  \A t \in Tokens :
    status[t] \in Claimable \union {"sending"} ~> status[t] \in Finished \union {"none"}

=============================================================================
