--------------------------- MODULE PollingProofs ---------------------------
(***************************************************************************)
(* The safety of the two kinds of loop of duplosdk that call the API until *)
(* something is so.                                                        *)
(*                                                                         *)
(* Waiter, for every retry budget, interval, timeout and set of resource   *)
(* views: each property is one conjunct of the inductive invariant IInv    *)
(* with what it needs to know about the other program points: the counters *)
(* of the code against the history of the wait, and the clock against the  *)
(* deadline at each point of the loop.                                     *)
(*                                                                         *)
(* ReadRetry, for every window, backoff, http_timeout, set of statuses and *)
(* notFoundResponses: when a read gives up, why, and what it tells the     *)
(* user.  RetryInv relates the program point to the clock, to the last     *)
(* reply and to the history of the cancellation.                           *)
(***************************************************************************)
EXTENDS Waiter, ReadRetry, TLAPS


(* The clock: a pause starts in time, so the next call starts within one   *)
(* pause of the deadline and is over within one call of that.              *)
ClockInv ==
    /\ pc = "sleep" => elapsed <= Timeout
    /\ pc = "fetch" => elapsed <= Timeout + LongestPause
    /\ elapsed <= Timeout + LongestPause + CallTimeout

(* failCount counts the failing objects read since the last healthy one. *)
FailureInv ==
    /\ pc \in {"fetch", "sleep"} => failCount = reads - lastGood
    /\ pc = "check" => NewFailCount = reads - lastGood
    /\ outcome = "failureState" => reads - lastGood > FailureRetries

(* fetchFailCount counts the calls since the last that returned an object. *)
FetchInv ==
    /\ kind = "Wait" /\ pc \in {"fetch", "sleep"} => fetchFailCount = polls - lastRead
    /\ kind = "Wait" /\ pc = "check" => NewFetchFailCount = polls - lastRead
    /\ kind = "Wait" /\ outcome = "fetchError" =>
         polls - lastRead > FetchRetries \/ Late

(* A reply in the target state was the resource's own state. *)
SuccessInv ==
    /\ Target(kind, gone, resource) => attained
    /\ pc = "check" /\ Reached(kind, err, obj) => attained
    /\ outcome = "ok" => attained

CancelInv ==
    /\ cancelled /\ pc \in {"fetch", "sleep"} => polls <= cancelPolls
    /\ cancelled => polls <= cancelPolls + 1

(* The loop returns once. *)
OutcomeInv == outcome # "none" <=> pc = "done"

IInv ==
    /\ TypeOK
    /\ ClockInv
    /\ FailureInv
    /\ FetchInv
    /\ SuccessInv
    /\ CancelInv
    /\ OutcomeInv

-----------------------------------------------------------------------------
(* The counters stay numbers, and a pause is positive and never longer     *)
(* than the longest interval.                                              *)
LEMMA CountersTyped ==
    ASSUME TypeOK
    PROVE  NewFailCount \in Nat /\ NewFetchFailCount \in Nat
  BY DEF TypeOK, NewFailCount, NewFetchFailCount, FailCount, FetchFailCount, Errors

LEMMA IntervalBounded ==
    /\ Interval \in Nat
    /\ LongestPause \in Nat
    /\ Interval <= LongestPause
  BY ClockAssumption DEF Interval, LongestPause

(* Every variable keeps its type. *)
LEMMA TypeInit == Init => TypeOK
<1> SUFFICES ASSUME Init PROVE TypeOK
  OBVIOUS
<1>1. attained \in BOOLEAN
  BY Zenon DEF Init, Target
<1> QED
  BY <1>1 DEF Init, TypeOK, Errors, Outcomes

LEMMA TypeStep == TypeOK /\ [Next]_vars => TypeOK'
<1> SUFFICES ASSUME TypeOK, [Next]_vars PROVE TypeOK'
  OBVIOUS
<1> USE CountersTyped, IntervalBounded
<1>1. CASE Fetch
  BY <1>1, ClockAssumption DEF Fetch, TypeOK, world, Errors
<1>2. CASE Succeed
  BY <1>2 DEF Succeed, Return, TypeOK, world, history, Outcomes
<1>3. CASE GiveUpFetching
  BY <1>3 DEF GiveUpFetching, Return, TypeOK, world, history, Outcomes
<1>4. CASE FailTerminally
  BY <1>4 DEF FailTerminally, Return, TypeOK, world, history, Outcomes
<1>5. CASE TimeOut
  BY <1>5 DEF TimeOut, Return, TypeOK, world, history, Outcomes
<1>6. CASE KeepPolling \/ StopPolling
  BY <1>6 DEF KeepPolling, StopPolling, Return, TypeOK, world, history, Outcomes
<1>7. CASE Wake
  BY <1>7 DEF Wake, TypeOK, world, history
<1>8. CASE Interrupted
  BY <1>8 DEF Interrupted, Return, TypeOK, world, history, Outcomes
<1>9. CASE Change
  BY <1>9 DEF Change, TypeOK, code
<1>10. CASE Cancel
  BY <1>10 DEF Cancel, TypeOK, code
<1>11. CASE UNCHANGED vars
  BY <1>11 DEF vars, code, world, history, TypeOK
<1> QED
  BY <1>1, <1>2, <1>3, <1>4, <1>5, <1>6, <1>7, <1>8, <1>9, <1>10, <1>11
  DEF Next, Loop

(* The variables of a wait have their types. *)
THEOREM WaiterTypeCorrect == Spec => []TypeOK
  BY TypeInit, TypeStep, PTL DEF Spec

-----------------------------------------------------------------------------
LEMMA InvInit == Init => IInv
<1> SUFFICES ASSUME Init PROVE IInv
  OBVIOUS
<1>1. TypeOK
  BY TypeInit
<1>2. ClockInv
  BY IntervalBounded, ClockAssumption DEF Init, ClockInv
<1>3. FailureInv
  BY DEF Init, FailureInv
<1>4. FetchInv
  BY DEF Init, FetchInv
<1>5. SuccessInv
  BY DEF Init, SuccessInv
<1>6. CancelInv /\ OutcomeInv
  BY DEF Init, CancelInv, OutcomeInv
<1> QED
  BY <1>1, <1>2, <1>3, <1>4, <1>5, <1>6 DEF IInv

(* A call takes at most CallTimeout and a pause starts in time. *)
LEMMA ClockStep == IInv /\ [Next]_vars => ClockInv'
<1> SUFFICES ASSUME IInv, [Next]_vars PROVE ClockInv'
  OBVIOUS
<1> USE IntervalBounded, ClockAssumption DEF IInv, ClockInv, TypeOK
<1>1. CASE Fetch
  BY <1>1 DEF Fetch
<1>2. CASE Succeed \/ GiveUpFetching \/ FailTerminally \/ TimeOut \/ Interrupted \/ StopPolling
  BY <1>2 DEF Succeed, GiveUpFetching, FailTerminally, TimeOut, Interrupted, StopPolling, Return
<1>3. CASE KeepPolling
  <2>1. elapsed <= Timeout
    BY <1>3 DEF KeepPolling, PollAgain, FetchAbort, Late, Errors
  <2> QED
    BY <2>1, <1>3 DEF KeepPolling
<1>4. CASE Wake
  BY <1>4 DEF Wake
<1>5. CASE Change \/ Cancel \/ UNCHANGED vars
  BY <1>5 DEF Change, Cancel, vars, code
<1> QED
  BY <1>1, <1>2, <1>3, <1>4, <1>5 DEF Next, Loop

(* The code's counter of failing objects is the distance to the last       *)
(* healthy one: reading an object moves both the same way, and a failed    *)
(* fetch moves neither.                                                    *)
LEMMA FailureStep == IInv /\ [Next]_vars => FailureInv'
<1> SUFFICES ASSUME IInv, [Next]_vars PROVE FailureInv'
  OBVIOUS
<1> USE DEF IInv, FailureInv, TypeOK
<1>1. CASE Fetch
  BY <1>1 DEF Fetch, NewFailCount, FailCount, Errors, OutcomeInv
<1>2. CASE Succeed \/ GiveUpFetching \/ TimeOut \/ Interrupted \/ StopPolling
  BY <1>2 DEF Succeed, GiveUpFetching, TimeOut, Interrupted, StopPolling, Return, history
<1>3. CASE FailTerminally
  BY <1>3 DEF FailTerminally, Return, history, FailureAbort
<1>4. CASE KeepPolling
  BY <1>4 DEF KeepPolling, history, OutcomeInv
<1>5. CASE Wake
  BY <1>5 DEF Wake, history, OutcomeInv
<1>6. CASE Change \/ Cancel \/ UNCHANGED vars
  BY <1>6 DEF Change, Cancel, vars, code, history, NewFailCount
<1> QED
  BY <1>1, <1>2, <1>3, <1>4, <1>5, <1>6 DEF Next, Loop

(* Likewise for the calls that returned no object. *)
LEMMA FetchStep == IInv /\ [Next]_vars => FetchInv'
<1> SUFFICES ASSUME IInv, [Next]_vars PROVE FetchInv'
  OBVIOUS
<1> USE DEF IInv, FetchInv, TypeOK
<1>1. CASE Fetch
  BY <1>1 DEF Fetch, NewFetchFailCount, FetchFailCount, Errors, OutcomeInv
<1>2. CASE Succeed \/ FailTerminally \/ TimeOut \/ Interrupted \/ StopPolling
  BY <1>2 DEF Succeed, FailTerminally, TimeOut, Interrupted, StopPolling, Return, history
<1>3. CASE GiveUpFetching
  BY <1>3 DEF GiveUpFetching, Return, history, FetchAbort, Late
<1>4. CASE KeepPolling
  BY <1>4 DEF KeepPolling, history, OutcomeInv
<1>5. CASE Wake
  BY <1>5 DEF Wake, history, OutcomeInv
<1>6. CASE Change \/ Cancel \/ UNCHANGED vars
  BY <1>6 DEF Change, Cancel, vars, code, history, NewFetchFailCount, Late
<1> QED
  BY <1>1, <1>2, <1>3, <1>4, <1>5, <1>6 DEF Next, Loop

(* A reply that ends the loop with success shows the resource as it is at  *)
(* the moment of the fetch.                                                *)
LEMMA SuccessStep == IInv /\ [Next]_vars => SuccessInv'
<1> SUFFICES ASSUME IInv, [Next]_vars PROVE SuccessInv'
  OBVIOUS
<1> USE DEF IInv, SuccessInv
<1>1. CASE Fetch
  <2>1. UNCHANGED <<kind, gone, resource, attained, outcome>>
    BY <1>1 DEF Fetch, world
  <2>2. ASSUME Reached(kind', err', obj') PROVE attained
    <3>1. CASE gone
      BY <1>1, <2>1, <2>2, <3>1 DEF Fetch, Reached, Target
    <3>2. CASE ~gone
      BY <1>1, <2>1, <2>2, <3>2 DEF Fetch, Reached, Target
    <3> QED
      BY <3>1, <3>2
  <2> QED
    BY <1>1, <2>1, <2>2 DEF Fetch
<1>2. CASE Succeed
  BY <1>2 DEF Succeed, Return, world, history
<1>3. CASE GiveUpFetching \/ FailTerminally \/ TimeOut \/ Interrupted \/ StopPolling
  BY <1>3 DEF GiveUpFetching, FailTerminally, TimeOut, Interrupted, StopPolling, Return, world, history
<1>4. CASE KeepPolling \/ Wake
  BY <1>4 DEF KeepPolling, Wake, world, history
<1>5. CASE Change
  BY <1>5 DEF Change, code
<1>6. CASE Cancel \/ UNCHANGED vars
  BY <1>6 DEF Cancel, vars, code, world, history
<1> QED
  BY <1>1, <1>2, <1>3, <1>4, <1>5, <1>6 DEF Next, Loop

(* A pause begins only while nobody has cancelled, and leads to one call. *)
LEMMA CancelStep == IInv /\ [Next]_vars => CancelInv' /\ OutcomeInv'
<1> SUFFICES ASSUME IInv, [Next]_vars PROVE CancelInv' /\ OutcomeInv'
  OBVIOUS
<1> USE DEF IInv, CancelInv, OutcomeInv, TypeOK
<1>1. CASE Fetch
  BY <1>1 DEF Fetch, world
<1>2. CASE Succeed \/ GiveUpFetching \/ FailTerminally \/ TimeOut \/ Interrupted \/ StopPolling
  BY <1>2 DEF Succeed, GiveUpFetching, FailTerminally, TimeOut, Interrupted,
              StopPolling,              Return, world, history
<1>3. CASE KeepPolling \/ Wake
  BY <1>3 DEF KeepPolling, Wake, world, history
<1>4. CASE Change
  BY <1>4 DEF Change, code
<1>5. CASE Cancel
  BY <1>5 DEF Cancel, code
<1>6. CASE UNCHANGED vars
  BY <1>6 DEF vars, code, world, history
<1> QED
  BY <1>1, <1>2, <1>3, <1>4, <1>5, <1>6 DEF Next, Loop

(* The invariant of a wait. *)
THEOREM WaiterInvariant == Spec => []IInv
<1>1. Init => IInv
  BY InvInit
<1>2. IInv /\ [Next]_vars => IInv'
  <2> SUFFICES ASSUME IInv, [Next]_vars PROVE IInv'
    OBVIOUS
  <2>1. TypeOK'
    BY TypeStep DEF IInv
  <2> QED
    BY <2>1, ClockStep, FailureStep, FetchStep, SuccessStep, CancelStep DEF IInv
<1> QED
  BY <1>1, <1>2, PTL DEF Spec

-----------------------------------------------------------------------------
(* The loop returns within one pause and one call of its deadline. *)
THEOREM WaitReturnsInTime == Spec => []ReturnsInTime
<1>1. IInv => ReturnsInTime
  BY DEF IInv, ClockInv, ReturnsInTime
<1> QED
  BY <1>1, WaiterInvariant, PTL

(* A failure status aborts the wait only after FailureRetries + 1 failing  *)
(* objects in a row.                                                       *)
THEOREM WaitFailureWasPersistent == Spec => []FailureWasPersistent
<1>1. IInv => FailureWasPersistent
  BY DEF IInv, FailureInv, FailureWasPersistent
<1> QED
  BY <1>1, WaiterInvariant, PTL

(* Fetch errors end a readiness wait only after FetchRetries + 1 in a row  *)
(* or past the deadline.                                                   *)
THEOREM WaitToleratesFetchErrors == Spec => []FetchErrorsTolerated
<1>1. IInv => FetchErrorsTolerated
  BY DEF IInv, FetchInv, FetchErrorsTolerated
<1> QED
  BY <1>1, WaiterInvariant, PTL

(* A wait that reports success saw the resource in the state it waits for. *)
THEOREM WaitSuccessWasReal == Spec => []SuccessWasReal
<1>1. IInv => SuccessWasReal
  BY DEF IInv, SuccessInv, SuccessWasReal
<1> QED
  BY <1>1, WaiterInvariant, PTL

(* After a cancellation at most one more call is made. *)
THEOREM WaitStopsWhenCancelled == Spec => []CancelStopsPolling
<1>1. IInv => CancelStopsPolling
  BY DEF IInv, CancelInv, CancelStopsPolling
<1> QED
  BY <1>1, WaiterInvariant, PTL

-----------------------------------------------------------------------------
(* The retried read. *)


(* A pause that was begun ends before the window does. *)
WindowInv ==
    /\ step = "read" => clock < Window
    /\ step = "pause" => clock + delay < Window
    /\ delay < 2 * RetryMaxDelay
    /\ EndsInTime

(* What the loop holds is what became of the last reply. *)
ReplyInv ==
    /\ step # "read" => result = Get(GoneRules, last)
    /\ step = "pause" => isRetryableRead(result)
    /\ refused <=> step = "done" /\ result \in Permanent
    /\ step = "done" =>
         \/ result = NoError
         \/ ~isRetryableRead(result)
         \/ clock + delay >= Window
         \/ interrupt

(* After a cancellation a read is under way only if it was already. *)
InterruptInv ==
    /\ ~interrupt => lateCalls = 0
    /\ step = "read" => lateCalls = 0
    /\ InterruptEndsIt

RetryInv == RetryTypeOK /\ WindowInv /\ ReplyInv /\ InterruptInv

-----------------------------------------------------------------------------
(* One call has a finite deadline. *)
LEMMA DeadlineTyped == RetryDeadline \in Nat
  BY RetryAssumption
  DEF RetryDeadline, CallDeadline, ClientTimeout, DefaultTimeout

(* Replies have a status in the range of HTTP, or none. *)
LEMMA ReplyTyped ==
    ASSUME NEW r \in Replies(HttpStatuses)
    PROVE  /\ r.status \in {0} \cup (100 .. 599)
           /\ r.body \in {"object", "list", "noData", "malformed", "cut", "gone", "other"}
           /\ r.status = 0 => r.body = "cut"
           /\ r.body = "gone" => r.status \notin 200 .. 299
  <1>1. CASE r = Lost
    BY <1>1 DEF Lost
  <1>2. CASE r \in [status : HttpStatuses \cap 200 .. 299,
                   body   : {"object", "list", "noData", "malformed", "cut"}]
    BY <1>2, RetryAssumption
  <1>3. CASE r \in [status : HttpStatuses \ 200 .. 299, body : {"gone", "other", "cut"}]
    <2>1. r.status \in HttpStatuses \ 200 .. 299 /\ r.body \in {"gone", "other", "cut"}
      BY <1>3
    <2>2. r.status \in 100 .. 599
      BY <2>1, RetryAssumption
    <2> QED
      BY <2>1, <2>2
  <1> QED
    BY <1>1, <1>2, <1>3 DEF Replies

(* What Get makes of a reply. *)
LEMMA GetTyped ==
    ASSUME NEW r \in Replies(HttpStatuses)
    PROVE  Get(GoneRules, r) \in {NoError, 0} \cup (100 .. 599)
  <1>1. callAPI(r, "object") \in {NoError, 0} \cup (100 .. 599)
    BY ReplyTyped DEF callAPI, NoError
  <1>2. decode(r) \in {NoError, 0} \cup (100 .. 599)
    BY <1>1 DEF decode, NoError
  <1> QED
    BY <1>2 DEF Get, asNotFound, NoError

(* Not found is said by the status or by a rule's text, never by default. *)
LEMMA GetNotFound ==
    ASSUME NEW r \in Replies(HttpStatuses), Get(GoneRules, r) = 404
    PROVE  \/ r.status = 404
           \/ r.status \in GoneRules /\ r.body = "gone"
  BY ReplyTyped DEF Get, asNotFound, decode, callAPI, NoError

(* Throttling, server errors and silence are retried. *)
LEMMA GetBlip ==
    ASSUME NEW r \in Replies(HttpStatuses),
           r.status \in {0, 429} \cup (500 .. 599)
    PROVE  Get(GoneRules, r) # NoError /\ isRetryableRead(Get(GoneRules, r))
  <1>1. callAPI(r, "object") = r.status
    BY ReplyTyped DEF callAPI
  <1>2. decode(r) = r.status
    BY <1>1, ReplyTyped DEF decode, NoError
  <1> QED
    BY <1>2, ReplyTyped DEF Get, asNotFound, isRetryableRead, NoError

(* The errors that end a read at once are those that time does not mend. *)
LEMMA RetryableIsNotPermanent ==
    ASSUME NEW s \in {NoError, 0} \cup (100 .. 599)
    PROVE  s = NoError \/ isRetryableRead(s) <=> s \notin Permanent
  BY DEF isRetryableRead, Permanent, NoError

-----------------------------------------------------------------------------
(* The invariant holds when the loop begins. *)
LEMMA RetryInitInv == RetryInit => RetryInv
  <1> SUFFICES ASSUME RetryInit PROVE RetryInv
    OBVIOUS
  <1>1. last \in Replies(HttpStatuses)
    BY DEF RetryInit, Replies
  <1>2. RetryTypeOK
    <2>1. delay \in Nat \ {0}
      BY RetryAssumption DEF RetryInit
    <2>2. result \in {NoError, 0} \cup (100 .. 599)
      BY DEF RetryInit
    <2>3. interrupt \in BOOLEAN /\ inView \in BOOLEAN /\ refused \in BOOLEAN
      BY Zenon DEF RetryInit
    <2>4. step \in {"read", "pause", "done"} /\ clock \in Nat /\ asked \in Nat /\ lateCalls \in 0 .. 2
      BY DEF RetryInit
    <2> QED
      BY <1>1, <2>1, <2>2, <2>3, <2>4, Zenon DEF RetryTypeOK
  <1>3. WindowInv
    BY RetryAssumption, DeadlineTyped DEF RetryInit, WindowInv, EndsInTime
  <1>4. ReplyInv /\ InterruptInv
    BY DEF RetryInit, ReplyInv, InterruptInv, InterruptEndsIt
  <1> QED
    BY <1>2, <1>3, <1>4 DEF RetryInv

(* A call and what its reply decides. *)
LEMMA AskKeepsRetryInv == RetryInv /\ Ask => RetryInv'
  <1> SUFFICES ASSUME RetryInv, Ask PROVE RetryInv'
    OBVIOUS
  <1>1. PICK d \in Durations, r \in Answers :
          /\ clock' = clock + d
          /\ last' = r
          /\ result' = Get(GoneRules, r)
          /\ step' = IF GivesUp(result', clock') THEN "done" ELSE "pause"
          /\ refused' = (refused \/ result' \in Permanent)
    BY DEF Ask
  <1>2. r \in Replies(HttpStatuses) /\ d \in 0 .. RetryDeadline /\ d \in Nat
    BY RetryAssumption, DeadlineTyped DEF Answers
  <1>3. result' \in {NoError, 0} \cup (100 .. 599)
    BY <1>1, <1>2, GetTyped
  <1>4. result' = NoError \/ isRetryableRead(result') <=> result' \notin Permanent
    BY <1>3, RetryableIsNotPermanent
  <1>5. RetryTypeOK'
    BY <1>1, <1>2, <1>3 DEF Ask, RetryInv, RetryTypeOK
  <1>6. WindowInv'
    BY <1>1, <1>2, RetryAssumption, DeadlineTyped
    DEF Ask, RetryInv, RetryTypeOK, WindowInv, EndsInTime, GivesUp
  <1>7. ReplyInv'
    BY <1>1, <1>3, <1>4 DEF Ask, RetryInv, RetryTypeOK, ReplyInv, GivesUp
  <1>8. InterruptInv'
    BY <1>1 DEF Ask, RetryInv, InterruptInv, InterruptEndsIt, GivesUp
  <1> QED
    BY <1>5, <1>6, <1>7, <1>8 DEF RetryInv

(* A pause that ends by its timer ends within the window. *)
LEMMA PauseKeepsRetryInv == RetryInv /\ Pause => RetryInv'
  <1> SUFFICES ASSUME RetryInv, Pause PROVE RetryInv'
    OBVIOUS
  <1>1. delay' \in Nat \ {0} /\ delay' < 2 * RetryMaxDelay
    BY RetryAssumption DEF Pause, NextDelay, RetryInv, RetryTypeOK, WindowInv
  <1>2. RetryTypeOK'
    BY <1>1 DEF Pause, RetryInv, RetryTypeOK
  <1>3. WindowInv'
    BY <1>1, RetryAssumption, DeadlineTyped
    DEF Pause, RetryInv, RetryTypeOK, WindowInv, EndsInTime
  <1>4. ReplyInv' /\ InterruptInv'
    BY DEF Pause, RetryInv, ReplyInv, InterruptInv, InterruptEndsIt
  <1> QED
    BY <1>2, <1>3, <1>4 DEF RetryInv

(* A pause that the caller ends. *)
LEMMA BreakOffKeepsRetryInv == RetryInv /\ BreakOff => RetryInv'
  <1> SUFFICES ASSUME RetryInv, BreakOff PROVE RetryInv'
    OBVIOUS
  <1>1. PICK d \in {0, delay} : clock' = clock + d
    BY DEF BreakOff
  <1>2. RetryTypeOK'
    BY <1>1 DEF BreakOff, RetryInv, RetryTypeOK
  <1>3. WindowInv'
    BY <1>1, DeadlineTyped, RetryAssumption
    DEF BreakOff, RetryInv, RetryTypeOK, WindowInv, EndsInTime
  <1>4. result \notin Permanent
    BY RetryableIsNotPermanent DEF BreakOff, RetryInv, RetryTypeOK, ReplyInv
  <1>5. ReplyInv'
    BY <1>4 DEF BreakOff, RetryInv, ReplyInv
  <1>6. InterruptInv'
    BY DEF BreakOff, RetryInv, InterruptInv, InterruptEndsIt
  <1> QED
    BY <1>2, <1>3, <1>5, <1>6 DEF RetryInv

(* The backend and the caller do not move the loop. *)
LEMMA OthersKeepRetryInv == RetryInv /\ (Show \/ Interrupt \/ UNCHANGED retryVars) => RetryInv'
  <1> SUFFICES ASSUME RetryInv, Show \/ Interrupt \/ UNCHANGED retryVars PROVE RetryInv'
    OBVIOUS
  <1>1. CASE Show
    BY <1>1 DEF Show, RetryInv, RetryTypeOK, WindowInv, EndsInTime, ReplyInv,
                InterruptInv, InterruptEndsIt
  <1>2. CASE Interrupt
    BY <1>2 DEF Interrupt, RetryInv, RetryTypeOK, WindowInv, EndsInTime, ReplyInv,
                InterruptInv, InterruptEndsIt
  <1>3. CASE UNCHANGED retryVars
    BY <1>3 DEF retryVars, RetryInv, RetryTypeOK, WindowInv, EndsInTime, ReplyInv,
                InterruptInv, InterruptEndsIt
  <1> QED
    BY <1>1, <1>2, <1>3

(* The invariant holds throughout. *)
LEMMA RetryInvHolds == RetrySpec => []RetryInv
  <1>1. RetryInv /\ [RetryNext]_retryVars => RetryInv'
    BY AskKeepsRetryInv, PauseKeepsRetryInv, BreakOffKeepsRetryInv, OthersKeepRetryInv
    DEF RetryNext, RetryLoop
  <1> QED
    BY <1>1, RetryInitInv, PTL DEF RetrySpec

-----------------------------------------------------------------------------
(* Every variable keeps its type. *)
THEOREM RetryTypeCorrect == RetrySpec => []RetryTypeOK
  <1>1. RetryInv => RetryTypeOK
    BY DEF RetryInv
  <1> QED
    BY <1>1, RetryInvHolds, PTL

(* A read never lasts longer than its window and one call, whatever the     *)
(* backoff and the replies.                                                 *)
THEOREM ReadEndsInTime == RetrySpec => []EndsInTime
  <1>1. RetryInv => EndsInTime
    BY DEF RetryInv, WindowInv
  <1> QED
    BY <1>1, RetryInvHolds, PTL

(* An answer that time does not change is the one reported. *)
THEOREM PermanentReported == RetrySpec => []PermanentIsReported
  <1>1. RetryInv => PermanentIsReported
    BY DEF RetryInv, ReplyInv, PermanentIsReported
  <1> QED
    BY <1>1, RetryInvHolds, PTL

(* Not found is what the backend last said, late in the window. *)
THEOREM NotFoundEarned == RetrySpec => []NotFoundIsEarned
  <1>1. RetryInv => NotFoundIsEarned
    <2> SUFFICES ASSUME RetryInv, step = "done", result = 404
                 PROVE  /\ \/ last.status = 404
                           \/ last.status \in GoneRules /\ last.body = "gone"
                        /\ interrupt \/ clock + RetryMaxDelay * 2 > Window
      BY DEF NotFoundIsEarned
    <2>1. last \in Replies(HttpStatuses) /\ Get(GoneRules, last) = 404
      BY DEF RetryInv, RetryTypeOK, ReplyInv
    <2>2. interrupt \/ clock + delay >= Window
      BY DEF RetryInv, ReplyInv, isRetryableRead, NoError
    <2>3. interrupt \/ clock + RetryMaxDelay * 2 > Window
      BY <2>2, RetryAssumption DEF RetryInv, RetryTypeOK, WindowInv
    <2> QED
      BY <2>1, <2>3, GetNotFound
  <1> QED
    BY <1>1, RetryInvHolds, PTL

(* Throttling, server errors and silence are not taken for an answer while  *)
(* there is time.                                                           *)
THEOREM BlipsWaitedOut == RetrySpec => []BlipsAreWaitedOut
  <1>1. RetryInv => BlipsAreWaitedOut
    <2> SUFFICES ASSUME RetryInv, step = "done", ~interrupt,
                        last.status \in {0, 429} \cup (500 .. 599)
                 PROVE  clock + RetryMaxDelay * 2 > Window
      BY DEF BlipsAreWaitedOut
    <2>1. last \in Replies(HttpStatuses) /\ result = Get(GoneRules, last)
      BY DEF RetryInv, RetryTypeOK, ReplyInv
    <2>2. clock + delay >= Window
      BY <2>1, GetBlip DEF RetryInv, ReplyInv
    <2> QED
      BY <2>2, RetryAssumption DEF RetryInv, RetryTypeOK, WindowInv
  <1> QED
    BY <1>1, RetryInvHolds, PTL

(* After the user cancels, the call in flight is the last. *)
THEOREM InterruptEndsTheRead == RetrySpec => []InterruptEndsIt
  <1>1. RetryInv => InterruptEndsIt
    BY DEF RetryInv, InterruptInv
  <1> QED
    BY <1>1, RetryInvHolds, PTL

(* No call is made after the window, and one at most after a cancellation,  *)
(* however slow calls and pauses add up.                                    *)
THEOREM ReadStopsInTime == RetrySpec => []StopsInTime
  <1>1. EndsInTime /\ InterruptEndsIt => StopsInTime
    BY DEF StopsInTime
  <1> QED
    BY <1>1, ReadEndsInTime, InterruptEndsTheRead, PTL

(* The read ends with what the backend means, for every order of replies.   *)
THEOREM ReadAnswerIsEarned == RetrySpec => []AnswerIsEarned
  <1>1. PermanentIsReported /\ NotFoundIsEarned /\ BlipsAreWaitedOut => AnswerIsEarned
    BY DEF AnswerIsEarned
  <1> QED
    BY <1>1, PermanentReported, NotFoundEarned, BlipsWaitedOut, PTL
=============================================================================
