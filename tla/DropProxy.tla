----------------------------- MODULE DropProxy -----------------------------
(***************************************************************************)
(* internal/engine/proxy.go with the half of runLostResponse that uses it: *)
(* the listener that stands between the client and the service, forwards   *)
(* one operation and drops the connection instead of answering.            *)
(*                                                                         *)
(* Every connection has a handler goroutine of its own. Beside the one the *)
(* runner opens, other local programs may connect, before or after it, and *)
(* may send the same operation, another one, or stall. `used`, `once` and  *)
(* the one-slot channel are what the handlers and the runner share.        *)
(***************************************************************************)
EXTENDS Integers, Sequences

CONSTANTS
  Conns,      \* the connections made to the proxy
  Own,        \* the one the runner makes
  Statuses,   \* what the service may answer
  Lost,       \* a client error, no reply
  Failed,     \* a proxyResult with err set
  Nil

\* What the proxy itself may answer: 200 without a body is what net/http
\* sends for a handler that returns silently.
Notices == {200, 400, 429, 500, 502}

\* make(chan proxyResult, 1)
Capacity == 1

ASSUME ProxyAssumption ==
  /\ Own \in Conns /\ Statuses \subseteq 200 .. 599
  /\ Lost \notin Int /\ Failed \notin Int /\ Nil \notin Int
  /\ Lost # Nil /\ Failed # Nil

VARIABLES
  pc,        \* runLostResponse: send, wait, select, retry, failed, closed
  client,    \* what send returned: Nil, Lost or a status code
  fault,     \* r.FaultInjected
  at,        \* each handler: none, claim, busy, body, forward, asked, hijack,
             \* post, reply, end
  result,    \* the proxyResult a handler is about to post
  code,      \* the status it will then write, Nil to drop the connection
  heard,     \* what each connection carried back: Nil, Lost, a status code
  used,      \* p.used
  posted,    \* p.once is spent
  channel,   \* p.result
  asked,     \* how often the service was asked
  answer,    \* its last answer
  expired    \* the context of the experiment is over

handler == <<at, result, code, heard, used, posted>>
runner == <<pc, client, fault>>
vars == <<pc, client, fault, at, result, code, heard, used, posted, channel, asked, answer, expired>>

Go(c, where) == at' = [at EXCEPT ![c] = where]

-----------------------------------------------------------------------------
(* The runner. *)

\* send reaches the proxy.
Send ==
  /\ pc = "send" /\ ~expired
  /\ pc' = "wait"
  /\ Go(Own, "claim")
  /\ UNCHANGED <<client, fault, result, code, heard, used, posted, channel, asked, answer, expired>>

\* It returns: a reply, a dropped connection, or its own deadline.
Returned ==
  /\ pc = "wait" /\ heard[Own] # Nil
  /\ client' = heard[Own]
  /\ pc' = "select"
  /\ UNCHANGED <<fault, channel, asked, answer, expired>> /\ UNCHANGED handler

GaveUp ==
  /\ pc \in {"send", "wait"} /\ expired
  /\ client' = Lost
  /\ pc' = "select"
  /\ UNCHANGED <<fault, channel, asked, answer, expired>> /\ UNCHANGED handler

Accepted(r) == r # Failed /\ client = Lost /\ r \in 200 .. 299

TakeResult ==
  /\ pc = "select" /\ channel # <<>>
  /\ channel' = Tail(channel)
  /\ fault' = Accepted(Head(channel))
  /\ pc' = IF fault' THEN "retry" ELSE "failed"
  /\ UNCHANGED <<client, asked, answer, expired>> /\ UNCHANGED handler

SelectTimeout ==
  /\ pc = "select" /\ expired
  /\ pc' = "failed"
  /\ UNCHANGED <<client, fault, channel, asked, answer, expired>> /\ UNCHANGED handler

\* defer proxy.Close(), after the retry went straight to the service: every
\* connection that is not hijacked breaks.
Close ==
  /\ pc \in {"retry", "failed"}
  /\ pc' = "closed"
  /\ heard' = [c \in Conns |-> IF heard[c] = Nil /\ at[c] \notin {"none", "end"}
                                    THEN Lost ELSE heard[c]]
  /\ UNCHANGED <<client, fault, at, result, code, used, posted, channel, asked, answer, expired>>

-----------------------------------------------------------------------------
(* One handler. *)

\* Another program connects.
Connect(c) ==
  /\ c # Own /\ at[c] = "none" /\ pc # "closed"
  /\ Go(c, "claim")
  /\ UNCHANGED <<result, code, heard, used, posted, channel, asked, answer, expired>>
  /\ UNCHANGED runner

\* Mutant: Load and, later, Store instead of CompareAndSwap.
MutClaim(c) ==
  /\ at[c] = "claim"
  /\ Go(c, IF used THEN "busy" ELSE "body")
  /\ used' = (used \/ \E d \in Conns : at[d] = "body")
  /\ UNCHANGED <<result, code, heard, posted, channel, asked, answer, expired>>
  /\ UNCHANGED runner

Claim(c) ==
  /\ at[c] = "claim"
  /\ Go(c, IF used THEN "busy" ELSE "body")
  /\ used' = TRUE
  /\ UNCHANGED <<result, code, heard, posted, channel, asked, answer, expired>>
  /\ UNCHANGED runner

\* A connection says one thing; nothing once the listener is closed.
Says(c, what) == heard' = IF heard[c] = Nil THEN [heard EXCEPT ![c] = what] ELSE heard

Busy(c) ==
  /\ at[c] = "busy"
  /\ Says(c, 429)
  /\ Go(c, "end")
  /\ UNCHANGED <<result, code, used, posted, channel, asked, answer, expired>>
  /\ UNCHANGED runner

Settle(c, r, status) ==
  /\ result' = [result EXCEPT ![c] = r]
  /\ code' = [code EXCEPT ![c] = status]
  /\ Go(c, "post")

\* The method and the whole body are those of the operation.
BodyMatches(c) ==
  /\ at[c] = "body" /\ heard[c] = Nil
  /\ Go(c, "forward")
  /\ UNCHANGED <<result, code, heard, used, posted, channel, asked, answer, expired>>
  /\ UNCHANGED runner

\* They are not, or the connection broke before the end of the body.
BodyDiffers(c) ==
  /\ at[c] = "body"
  /\ c # Own \/ client # Nil \/ heard[c] # Nil
  /\ Settle(c, Failed, 400)
  /\ UNCHANGED <<heard, used, posted, channel, asked, answer, expired>>
  /\ UNCHANGED runner

\* sendWithBody, with the context of the experiment.
Forward(c) ==
  /\ at[c] = "forward" /\ ~expired
  /\ asked' = asked + 1
  /\ Go(c, "asked")
  /\ UNCHANGED <<result, code, heard, used, posted, channel, answer, expired>>
  /\ UNCHANGED runner

Answered(c) ==
  /\ at[c] = "asked"
  /\ \E status \in Statuses :
       /\ answer' = status
       /\ result' = [result EXCEPT ![c] = status]
  /\ Go(c, "hijack")
  /\ UNCHANGED <<code, heard, used, posted, channel, asked, expired>>
  /\ UNCHANGED runner

\* The service refused, broke off, or did not answer in time.
ForwardFails(c) ==
  /\ at[c] = "asked" \/ (at[c] = "forward" /\ expired)
  /\ Settle(c, Failed, 502)
  /\ UNCHANGED <<heard, used, posted, channel, asked, answer, expired>>
  /\ UNCHANGED runner

Hijack(c) ==
  /\ at[c] = "hijack"
  /\ Settle(c, result[c], Nil)
  /\ UNCHANGED <<heard, used, posted, channel, asked, answer, expired>>
  /\ UNCHANGED runner

\* The connection cannot be taken over: a 500, or a silent return.
HijackFails(c) ==
  /\ at[c] = "hijack"
  /\ \E status \in {200, 500} : Settle(c, Failed, status)
  /\ UNCHANGED <<heard, used, posted, channel, asked, answer, expired>>
  /\ UNCHANGED runner

\* Mutant: a channel without a buffer needs a runner that receives.
MutPost(c) ==
  /\ at[c] = "post"
  /\ posted \/ pc = "select"
  /\ channel' = IF posted THEN channel ELSE Append(channel, result[c])
  /\ posted' = TRUE
  /\ Go(c, "reply")
  /\ UNCHANGED <<result, code, heard, used, asked, answer, expired>>
  /\ UNCHANGED runner

\* p.once.Do(func() { p.result <- ... }): the send waits for a free slot.
Post(c) ==
  /\ at[c] = "post"
  /\ posted \/ Len(channel) < Capacity
  /\ channel' = IF posted THEN channel ELSE Append(channel, result[c])
  /\ posted' = TRUE
  /\ Go(c, "reply")
  /\ UNCHANGED <<result, code, heard, used, asked, answer, expired>>
  /\ UNCHANGED runner

\* Only then the connection is closed or answered.
Reply(c) ==
  /\ at[c] = "reply"
  /\ Says(c, IF code[c] = Nil THEN Lost ELSE code[c])
  /\ Go(c, "end")
  /\ UNCHANGED <<result, code, used, posted, channel, asked, answer, expired>>
  /\ UNCHANGED runner

-----------------------------------------------------------------------------
Expire ==
  /\ ~expired /\ pc # "closed"
  /\ expired' = TRUE
  /\ UNCHANGED <<channel, asked, answer>> /\ UNCHANGED handler /\ UNCHANGED runner

Runner == Send \/ Returned \/ GaveUp \/ TakeResult \/ SelectTimeout \/ Close

\* What a handler does by itself; BodyMatches, Answered and a body that
\* differs wait for somebody else.
Handler(c) ==
  \/ Claim(c) \/ Busy(c) \/ Forward(c) \/ ForwardFails(c)
  \/ (heard[c] # Nil /\ BodyDiffers(c))
  \/ Hijack(c) \/ HijackFails(c) \/ Post(c) \/ Reply(c)

Others(c) == Connect(c) \/ BodyMatches(c) \/ BodyDiffers(c) \/ Answered(c)

Terminated == pc = "closed" /\ UNCHANGED vars

Next == Runner \/ (\E c \in Conns : Handler(c) \/ Others(c)) \/ Expire \/ Terminated

Init ==
  /\ pc = "send" /\ client = Nil /\ fault = FALSE
  /\ at = [c \in Conns |-> "none"]
  /\ result = [c \in Conns |-> Nil] /\ code = [c \in Conns |-> Nil]
  /\ heard = [c \in Conns |-> Nil]
  /\ used = FALSE /\ posted = FALSE /\ channel = <<>>
  /\ asked = 0 /\ answer = Nil /\ expired = FALSE

Spec == Init /\ [][Next]_vars

\* Goroutines are scheduled and time passes; nothing is assumed of the
\* service or of other programs that connect.
FairSpec ==
  /\ Spec
  /\ WF_vars(Runner) /\ WF_vars(Expire)
  /\ \A c \in Conns : WF_vars(Handler(c))

-----------------------------------------------------------------------------
\* Every handler that was started ends, whoever connected, whether or not
\* the runner still waits for a result and however long the service or a
\* body takes: no goroutine is left behind a full channel.
HandlersEnd == \A c \in Conns : (at[c] = "claim") ~> (at[c] = "end")

\* What each client was told: the runner's by send, which may give up first,
\* another one by its connection.
Told == [c \in Conns |-> IF c = Own THEN client ELSE heard[c]]

\* The faults of lost-response are lost replies: the service is asked at
\* most once whoever connects, no connection is told its answer, and the
\* runner retries only behind an acknowledgement its client did not get.
LR == INSTANCE LostReply WITH
        Clients <- Conns,
        heard <- Told,
        verdict <- IF fault THEN "injected"
                   ELSE IF pc \in {"failed", "closed"} THEN "failed" ELSE "none"

LosesReply == LR!Spec
=============================================================================
