-------------------------- MODULE DropProxy_proofs --------------------------
(***************************************************************************)
(* DropProxy implements LostReply, for any number of connections, any      *)
(* statuses and any program that connects beside the runner. The argument  *)
(* is that `used` lets a single handler past the first line, so only that  *)
(* handler asks the service, holds its answer and fills the channel.       *)
(***************************************************************************)
EXTENDS DropProxy, TLAPS

Steps == {"none", "claim", "busy", "body", "forward", "asked", "hijack", "post", "reply", "end"}
Inside == {"body", "forward", "asked", "hijack", "post", "reply"}
Heard == {Nil, Lost} \cup Notices

Types ==
  /\ pc \in {"send", "wait", "select", "retry", "failed", "closed"}
  /\ client \in Heard
  /\ fault \in BOOLEAN
  /\ at \in [Conns -> Steps]
  /\ result \in [Conns -> {Nil, Failed} \cup Statuses]
  /\ code \in [Conns -> {Nil} \cup Notices]
  /\ heard \in [Conns -> Heard]
  /\ asked \in Nat
  /\ answer \in {Nil} \cup Statuses

\* One handler is past the first line, and none before `used` is set.
OneInside ==
  /\ \A c \in Conns : at[c] \in Inside => used
  /\ \A c, d \in Conns : at[c] \in Inside /\ at[d] \in Inside => c = d

\* Before anybody passed it, nothing happened.
Unused == ~used => asked = 0 /\ channel = <<>>

\* What has happened when a handler has come so far.
Progress ==
  /\ asked = 0 => answer = Nil
  /\ \A c \in Conns :
       /\ at[c] \in Inside \ {"reply"} => channel = <<>>
       /\ at[c] \in {"body", "forward"} => asked = 0
       /\ at[c] = "asked" => asked = 1 /\ answer = Nil
       /\ at[c] = "hijack" => result[c] = answer
       /\ at[c] = "post" => result[c] = Failed \/ result[c] = answer

\* The runner receives the answer of the service or an error.
Carries == channel = <<>> \/ channel = <<Failed>> \/ channel = <<answer>>

RunnerFacts ==
  /\ pc \in {"send", "wait"} => client = Nil
  /\ fault => pc \in {"retry", "closed"}
  /\ pc = "retry" => fault

Inv == Types /\ OneInside /\ Unused /\ Progress /\ Carries /\ RunnerFacts

-----------------------------------------------------------------------------
\* A channel of one slot.
LEMMA OneSlot ==
  \A x : Head(<<x>>) = x /\ Tail(<<x>>) = <<>> /\ Append(<<>>, x) = <<x>>
  OBVIOUS

LEMMA InitInv == Init => Inv
<1> SUFFICES ASSUME Init PROVE Inv
  OBVIOUS
<1> USE DEF Init
<1>1. Types
  BY DEF Types, Steps, Heard
<1>2. OneInside /\ Unused /\ Progress /\ Carries /\ RunnerFacts
  BY DEF OneInside, Unused, Progress, Carries, RunnerFacts, Inside
<1> QED
  BY <1>1, <1>2 DEF Inv

LEMMA TypesKept == Types /\ Carries /\ [Next]_vars => Types'
<1> SUFFICES ASSUME Types, Carries, [Next]_vars PROVE Types'
  OBVIOUS
<1> USE ProxyAssumption DEF Types, Carries, Steps, Heard, Notices, Go
<1>1. CASE Runner
  <2>1. CASE Send
    BY <2>1 DEF Send
  <2>2. CASE Returned
    BY <2>2 DEF Returned, handler
  <2>3. CASE GaveUp
    BY <2>3 DEF GaveUp, handler
  <2>4. CASE TakeResult
    <3>1. Accepted(Head(channel)) \in BOOLEAN
      BY DEF Accepted
    <3> QED
      BY <2>4, <3>1 DEF TakeResult, handler
  <2>5. CASE SelectTimeout
    BY <2>5 DEF SelectTimeout, handler
  <2>6. CASE Close
    <3>1. heard' \in [Conns -> Heard]
      BY <2>6 DEF Close
    <3> QED
      BY <2>6, <3>1 DEF Close
  <2> QED
    BY <1>1, <2>1, <2>2, <2>3, <2>4, <2>5, <2>6 DEF Runner
<1>2. ASSUME NEW c \in Conns, Handler(c) \/ Others(c) PROVE Types'
  <2>1. CASE Claim(c)
    BY <2>1 DEF Claim, runner
  <2>2. CASE Busy(c)
    BY <2>2 DEF Busy, Says, runner
  <2>3. CASE Forward(c)
    BY <2>3 DEF Forward, runner
  <2>4. CASE ForwardFails(c)
    BY <2>4 DEF ForwardFails, Settle, runner
  <2>5. CASE BodyDiffers(c)
    BY <2>5 DEF BodyDiffers, Settle, runner
  <2>6. CASE Hijack(c)
    BY <2>6 DEF Hijack, Settle, runner
  <2>7. CASE HijackFails(c)
    BY <2>7 DEF HijackFails, Settle, runner
  <2>8. CASE Post(c)
    BY <2>8 DEF Post, runner
  <2>9. CASE Reply(c)
    <3>1. (IF code[c] = Nil THEN Lost ELSE code[c]) \in Heard
      OBVIOUS
    <3> QED
      BY <2>9, <3>1 DEF Reply, Says, runner
  <2>10. CASE Connect(c)
    BY <2>10 DEF Connect, runner
  <2>11. CASE BodyMatches(c)
    BY <2>11 DEF BodyMatches, runner
  <2>12. CASE Answered(c)
    BY <2>12 DEF Answered, runner
  <2> QED
    BY <1>2, <2>1, <2>2, <2>3, <2>4, <2>5, <2>6, <2>7, <2>8, <2>9, <2>10, <2>11, <2>12
       DEF Handler, Others
<1>3. CASE Expire \/ Terminated \/ UNCHANGED vars
  BY <1>3 DEF Expire, Terminated, vars, handler, runner
<1> QED
  BY <1>1, <1>2, <1>3 DEF Next

\* No step of the runner moves a handler, except that it starts its own.
LEMMA RunnerKeeps == Inv /\ Runner => OneInside' /\ Unused' /\ Progress' /\ Carries' /\ RunnerFacts'
<1> SUFFICES ASSUME Inv, Runner
             PROVE  OneInside' /\ Unused' /\ Progress' /\ Carries' /\ RunnerFacts'
  OBVIOUS
<1> USE ProxyAssumption DEF Inv, Types, OneInside, Unused, Progress, Carries, RunnerFacts,
                            Steps, Inside
<1>1. CASE Send
  BY <1>1 DEF Send, Go
<1>2. CASE Returned
  BY <1>2 DEF Returned, handler
<1>3. CASE GaveUp
  BY <1>3 DEF GaveUp, handler
<1>4. CASE TakeResult
  <2>1. channel' = <<>>
    <3>1. Tail(<<Failed>>) = <<>> /\ Tail(<<answer>>) = <<>>
      BY OneSlot
    <3>2. channel' = Tail(channel) /\ channel # <<>>
      BY <1>4 DEF TakeResult
    <3>3. channel = <<Failed>> \/ channel = <<answer>>
      BY <3>2
    <3> HIDE DEF Inv, Types, OneInside, Unused, Progress, Carries, RunnerFacts
    <3> QED
      BY <3>1, <3>2, <3>3
  <2>2. Accepted(Head(channel)) \in BOOLEAN
    BY DEF Accepted
  <2> QED
    BY <1>4, <2>1, <2>2 DEF TakeResult, handler
<1>5. CASE SelectTimeout
  BY <1>5 DEF SelectTimeout, handler
<1>6. CASE Close
  BY <1>6 DEF Close
<1> QED
  BY <1>1, <1>2, <1>3, <1>4, <1>5, <1>6 DEF Runner

LEMMA HandlerKeeps ==
  ASSUME Inv, NEW c \in Conns, Handler(c) \/ Others(c)
  PROVE  OneInside' /\ Unused' /\ Progress' /\ Carries' /\ RunnerFacts'
<1> USE ProxyAssumption DEF Inv, Types, OneInside, Unused, Progress, Carries, RunnerFacts,
                            Steps, Inside, Go, Capacity
<1>1. CASE Claim(c)
  BY <1>1 DEF Claim, runner
<1>2. CASE Busy(c)
  BY <1>2 DEF Busy, runner
<1>3. CASE Forward(c)
  BY <1>3 DEF Forward, runner
<1>4. CASE ForwardFails(c)
  BY <1>4 DEF ForwardFails, Settle, runner
<1>5. CASE BodyDiffers(c)
  BY <1>5 DEF BodyDiffers, Settle, runner
<1>6. CASE Hijack(c)
  BY <1>6 DEF Hijack, Settle, runner
<1>7. CASE HijackFails(c)
  BY <1>7 DEF HijackFails, Settle, runner
<1>8. CASE Post(c)
  <2>1. channel = <<>> /\ Append(channel, result[c]) = <<result[c]>>
    BY <1>8, OneSlot DEF Post
  <2> QED
    BY <1>8, <2>1 DEF Post, runner
<1>9. CASE Reply(c)
  BY <1>9 DEF Reply, runner
<1>10. CASE Connect(c)
  BY <1>10 DEF Connect, runner
<1>11. CASE BodyMatches(c)
  BY <1>11 DEF BodyMatches, runner
<1>12. CASE Answered(c)
  BY <1>12 DEF Answered, runner
<1> QED
  BY <1>1, <1>2, <1>3, <1>4, <1>5, <1>6, <1>7, <1>8, <1>9, <1>10, <1>11, <1>12
     DEF Handler, Others

\* Any step keeps the invariant.
LEMMA NextInv == Inv /\ [Next]_vars => Inv'
<1> SUFFICES ASSUME Inv, [Next]_vars PROVE Inv'
  OBVIOUS
<1>1. Types'
  BY TypesKept DEF Inv
<1>2. OneInside' /\ Unused' /\ Progress' /\ Carries' /\ RunnerFacts'
  <2>1. CASE Runner
    BY <2>1, RunnerKeeps
  <2>2. CASE \E c \in Conns : Handler(c) \/ Others(c)
    BY <2>2, HandlerKeeps
  <2>3. CASE Expire \/ Terminated \/ UNCHANGED vars
    BY <2>3 DEF Expire, Terminated, vars, handler, runner, Inv, Types, OneInside, Unused,
                Progress, Carries, RunnerFacts
  <2> QED
    BY <2>1, <2>2, <2>3 DEF Next
<1> QED
  BY <1>1, <1>2 DEF Inv

-----------------------------------------------------------------------------
(* The refinement *)

LEMMA MappedInit == Init => LR!Init
  BY DEF Init, LR!Init, Told

\* Who has been told something is not told again.
LEMMA ToldOnce ==
  ASSUME Inv, Types', UNCHANGED <<asked, answer, fault>>,
         fault \/ (pc \in {"failed", "closed"} <=> pc' \in {"failed", "closed"}),
         \A c \in Conns : heard[c] # Nil => heard'[c] = heard[c],
         client # Nil => client' = client
  PROVE  LR!Hear
<1>1. Told' \in [Conns -> {Nil, Lost} \cup Notices]
  BY DEF Types, Heard, Told
<1>2. \A c \in Conns : Told[c] # Nil => Told'[c] = Told[c]
  BY DEF Told
<1> QED
  BY <1>1, <1>2 DEF LR!Hear

\* What the runner does is to hear and to conclude.
LEMMA RunnerMapped == Inv /\ Runner => [LR!Next]_LR!vars
<1> SUFFICES ASSUME Inv, Runner PROVE [LR!Next]_LR!vars
  OBVIOUS
<1> USE ProxyAssumption DEF LR!vars
<1>0. Types'
  BY TypesKept DEF Inv, Next
<1>1. CASE Send
  BY <1>1 DEF Send, Inv, RunnerFacts, Told
<1>2. CASE Returned
  <2>1. LR!Hear
    BY <1>0, <1>2, ToldOnce DEF Returned, handler, Inv, RunnerFacts
  <2> QED
    BY <2>1 DEF LR!Next
<1>3. CASE GaveUp
  <2>1. LR!Hear
    BY <1>0, <1>3, ToldOnce DEF GaveUp, handler, Inv, RunnerFacts
  <2> QED
    BY <2>1 DEF LR!Next
<1>4. CASE TakeResult
  <2>1. fault = FALSE
    BY <1>4 DEF TakeResult, Inv, Types, RunnerFacts
  <2>2. CASE Accepted(Head(channel))
    <3>1. answer \in 200 .. 299 /\ client = Lost
      <4>1. Head(<<Failed>>) = Failed /\ Head(<<answer>>) = answer
        BY OneSlot
      <4>2. channel = <<Failed>> \/ channel = <<answer>>
        BY <1>4 DEF TakeResult, Inv, Carries
      <4>3. Head(channel) # Failed /\ client = Lost /\ Head(channel) \in 200 .. 299
        BY <2>2 DEF Accepted
      <4> QED
        BY <4>1, <4>2, <4>3
    <3>2. fault' = TRUE /\ UNCHANGED <<asked, answer, Told>>
      BY <1>4, <2>2 DEF TakeResult, handler, Told
    <3>3. LR!Inject
      BY <1>4, <2>1, <3>1, <3>2, ProxyAssumption DEF TakeResult, LR!Inject, Told
    <3> QED
      BY <3>3 DEF LR!Next
  <2>3. CASE ~Accepted(Head(channel))
    <3>1. fault' = FALSE /\ pc' = "failed" /\ UNCHANGED <<asked, answer, Told>>
      BY <1>4, <2>3 DEF TakeResult, handler, Told
    <3>2. LR!Fail
      BY <1>4, <2>1, <3>1 DEF TakeResult, LR!Fail
    <3> QED
      BY <3>2 DEF LR!Next
  <2> QED
    BY <2>2, <2>3
<1>5. CASE SelectTimeout
  <2>1. LR!Fail
    BY <1>5 DEF SelectTimeout, handler, Inv, RunnerFacts, Told, LR!Fail
  <2> QED
    BY <2>1 DEF LR!Next
<1>6. CASE Close
  <2>1. fault => pc = "retry"
    BY <1>6 DEF Close, Inv, RunnerFacts
  <2>2. UNCHANGED <<asked, answer, client, fault>> /\ pc' = "closed"
    BY <1>6 DEF Close
  <2>3. pc \in {"retry", "failed"} /\ (pc = "retry" => fault)
    BY <1>6 DEF Close, Inv, RunnerFacts
  <2>4. \A c \in Conns : heard[c] # Nil => heard'[c] = heard[c]
    BY <1>6 DEF Close
  <2>5. LR!Hear
    BY <1>0, <2>1, <2>2, <2>3, <2>4, ToldOnce
  <2> QED
    BY <2>5 DEF LR!Next
<1> QED
  BY <1>1, <1>2, <1>3, <1>4, <1>5, <1>6 DEF Runner

\* What a handler does is to ask, to take the answer, and to tell its
\* connection something else.
LEMMA HandlerMapped ==
  ASSUME Inv, NEW c \in Conns, Handler(c) \/ Others(c)
  PROVE  [LR!Next]_LR!vars
<1> USE ProxyAssumption DEF LR!vars
<1>1. CASE Forward(c)
  <2>1. LR!Ask
    BY <1>1 DEF Forward, runner, Inv, Progress, Told, LR!Ask
  <2> QED
    BY <2>1 DEF LR!Next
<1>2. CASE Answered(c)
  <2>1. LR!Answer
    BY <1>2 DEF Answered, runner, Inv, Progress, Told, LR!Answer
  <2> QED
    BY <2>1 DEF LR!Next
<1>3. CASE Busy(c) \/ Reply(c)
  <2>1. Types'
    BY TypesKept DEF Inv, Next
  <2>2. \A d \in Conns : heard[d] # Nil => heard'[d] = heard[d]
    BY <1>3 DEF Busy, Reply, Says, Inv, Types
  <2>3. LR!Hear
    BY <1>3, <2>1, <2>2, ToldOnce DEF Busy, Reply, runner
  <2> QED
    BY <2>3 DEF LR!Next
<1>4. ASSUME ~Forward(c), ~Answered(c), ~Busy(c), ~Reply(c) PROVE UNCHANGED LR!vars
  BY <1>4 DEF Handler, Others, Claim, ForwardFails, BodyDiffers, Hijack, HijackFails, Post,
              Connect, BodyMatches, Settle, runner, Told
<1> QED
  BY <1>1, <1>2, <1>3, <1>4

\* newDropProxy as a whole loses the reply of one operation: it asks the
\* service once at most, no connection is told the answer, and the runner
\* counts the fault only behind an acknowledgement its client did not get.
THEOREM ProxyLosesReply == Spec => LosesReply
<1>1. Inv /\ [Next]_vars => [LR!Next]_LR!vars
  <2> SUFFICES ASSUME Inv, [Next]_vars PROVE [LR!Next]_LR!vars
    OBVIOUS
  <2>1. CASE Runner
    BY <2>1, RunnerMapped
  <2>2. CASE \E c \in Conns : Handler(c) \/ Others(c)
    BY <2>2, HandlerMapped
  <2>3. CASE Expire \/ Terminated \/ UNCHANGED vars
    BY <2>3 DEF Expire, Terminated, vars, runner, handler, Told, LR!vars
  <2> QED
    BY <2>1, <2>2, <2>3 DEF Next
<1> QED
  BY InitInv, NextInv, MappedInit, <1>1, PTL DEF Spec, LosesReply, LR!Spec
=============================================================================
