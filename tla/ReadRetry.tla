----------------------------- MODULE ReadRetry -----------------------------
(***************************************************************************)
(* GetWithRetry of duplosdk/rest_resource.go: the read of a data source,   *)
(* of an ephemeral value and of the object an update starts from.  It asks *)
(* again, after growing pauses, until a window ends, because a backend may *)
(* lag behind its own create.  Beside the loop the object comes into view, *)
(* and the caller may cancel; a call in flight is never cut off, so        *)
(* cancelling only ends a pause.  Times are seconds.                       *)
(***************************************************************************)
EXTENDS ApiCalls

CONSTANTS
    Window,         \* maxWait, dsReadRetryWindow
    RetryBaseDelay, \* retryBaseDelay
    RetryMaxDelay,  \* retryMaxDelay
    HttpTimeout,    \* the http_timeout setting, 0 when unset
    GoneRules,      \* the statuses of the endpoint's notFoundResponses
    HttpStatuses,   \* the statuses a reply may have
    Durations       \* how long a call may take

RetryDeadline == CallDeadline(ClientTimeout(HttpTimeout), 0)

ASSUME RetryAssumption ==
    /\ Window \in Nat \ {0}
    /\ RetryBaseDelay \in Nat \ {0}
    /\ RetryMaxDelay \in Nat
    /\ RetryBaseDelay <= RetryMaxDelay
    /\ HttpTimeout \in Int
    /\ NotFoundRules(GoneRules)
    /\ HttpStatuses \subseteq 100 .. 599
    /\ Durations \subseteq 0 .. RetryDeadline

VARIABLES
    step,       \* "read", "pause" or "done"
    clock,      \* since the loop began
    delay,      \* the next pause
    result,     \* what the last Get returned
    interrupt   \* ctx is done

(* The backend, and what the properties remember of the replies. *)
VARIABLES
    inView,     \* the backend shows the object
    last,       \* the last reply
    asked,      \* when the last call was made
    refused,    \* some reply was an answer that time does not change
    lateCalls   \* calls made after the caller cancelled, counted up to two

retryVars == <<step, clock, delay, result, interrupt, inView, last, asked,
               refused, lateCalls>>

(* What the backend may answer now; a fault may replace any answer. *)
Answers ==
    {r \in Replies(HttpStatuses) :
       /\ r.status \in 200 .. 299 /\ r.body = "object" => inView
       /\ r.status = 404 \/ r.body = "gone" => ~inView}

(* The errors that waiting cannot mend: the request itself is at fault. *)
Permanent == (100 .. 499) \ {404, 429}

RetryInit ==
    /\ step = "read"
    /\ clock = 0
    /\ delay = RetryBaseDelay
    /\ result = NoError
    /\ interrupt = FALSE
    /\ inView \in BOOLEAN
    /\ last = Lost
    /\ asked = 0
    /\ refused = FALSE
    /\ lateCalls = 0

-----------------------------------------------------------------------------
(* Broken: the window is looked at before the call instead of after it. *)
GivesUpEarlyCheck(err, now) == err = NoError \/ ~isRetryableRead(err) \/ asked >= Window

(* The loop ends with this reply, received now. *)
GivesUp(err, now) ==
    \/ err = NoError
    \/ ~isRetryableRead(err)
    \/ now + delay >= Window

Ask ==
    /\ step = "read"
    /\ \E d \in Durations, r \in Answers :
         /\ clock' = clock + d
         /\ last' = r
         /\ result' = Get(GoneRules, r)
         /\ step' = IF GivesUp(result', clock') THEN "done" ELSE "pause"
         /\ refused' = (refused \/ result' \in Permanent)
    /\ asked' = clock
    /\ lateCalls' = IF interrupt /\ lateCalls < 2 THEN lateCalls + 1 ELSE lateCalls
    /\ UNCHANGED <<delay, interrupt, inView>>

NextDelay == IF delay < RetryMaxDelay THEN delay * 2 ELSE delay

(* The timer fires first. *)
Pause ==
    /\ step = "pause"
    /\ ~interrupt
    /\ clock' = clock + delay
    /\ delay' = NextDelay
    /\ step' = "read"
    /\ UNCHANGED <<result, interrupt, inView, last, asked, refused, lateCalls>>

(* Broken: the break leaves the select and not the loop. *)
BreakOffSelectOnly ==
    /\ step = "pause"
    /\ interrupt
    /\ \E d \in {0, delay} : clock' = clock + d
    /\ step' = "read"
    /\ UNCHANGED <<delay, result, interrupt, inView, last, asked, refused, lateCalls>>

(* ctx is done before or during the pause; the last error is returned. *)
BreakOff ==
    /\ step = "pause"
    /\ interrupt
    /\ \E d \in {0, delay} : clock' = clock + d
    /\ step' = "done"
    /\ UNCHANGED <<delay, result, interrupt, inView, last, asked, refused, lateCalls>>

RetryLoop == Ask \/ Pause \/ BreakOff

Show ==
    /\ step # "done"
    /\ ~inView
    /\ inView' = TRUE
    /\ UNCHANGED <<step, clock, delay, result, interrupt, last, asked, refused, lateCalls>>

Interrupt ==
    /\ step # "done"
    /\ ~interrupt
    /\ interrupt' = TRUE
    /\ UNCHANGED <<step, clock, delay, result, inView, last, asked, refused, lateCalls>>

RetryNext == RetryLoop \/ Show \/ Interrupt

(* The loop is always scheduled; the backend and the caller owe nothing. *)
RetrySpec == RetryInit /\ [][RetryNext]_retryVars /\ WF_retryVars(RetryLoop)

-----------------------------------------------------------------------------
RetryTypeOK ==
    /\ step \in {"read", "pause", "done"}
    /\ clock \in Nat
    /\ delay \in Nat \ {0}
    /\ result \in {NoError, 0} \cup (100 .. 599)
    /\ interrupt \in BOOLEAN
    /\ inView \in BOOLEAN
    /\ last \in Replies(HttpStatuses)
    /\ asked \in Nat
    /\ refused \in BOOLEAN
    /\ lateCalls \in 0 .. 2

(* However calls and pauses add up, the read ends within the window and    *)
(* one call: every pause ends before the window does, so a call may start  *)
(* just before its end, but none after it.                                 *)
EndsInTime ==
    /\ asked < Window
    /\ clock <= Window + RetryDeadline

(* An answer that waiting cannot change (no permission, a malformed        *)
(* request, a conflict) ends the read and is what the user is told; it is  *)
(* never buried under later attempts or turned into "does not exist".      *)
PermanentIsReported == refused => step = "done" /\ result \in Permanent

(* The user is told that the object does not exist only if the backend     *)
(* said so when last asked, and unless the user cancelled, only when the   *)
(* window is over but for one pause: a create's lag within it is waited    *)
(* for.                                                                    *)
NotFoundIsEarned ==
    step = "done" /\ result = 404 =>
        /\ \/ last.status = 404
           \/ last.status \in GoneRules /\ last.body = "gone"
        /\ interrupt \/ clock + RetryMaxDelay * 2 > Window

(* A throttled, failing or unanswered read is not given up while a pause   *)
(* of the longest length still fits into the window.                       *)
BlipsAreWaitedOut ==
    step = "done" /\ ~interrupt /\ last.status \in {0, 429} \cup (500 .. 599) =>
        clock + RetryMaxDelay * 2 > Window

(* What the comments of GetWithRetry and isRetryableRead promise: failures *)
(* of the transport are retried, a connection that breaks inside the body  *)
(* among them.                                                             *)
TransportFailureRetried ==
    step = "done" /\ ~interrupt /\ last.status \in 200 .. 299 /\ last.body = "cut" =>
        clock + RetryMaxDelay * 2 > Window

(* Once the user cancels, the call in flight is the last one. *)
InterruptEndsIt == lateCalls <= 1

(* No call is made that is not due: none after the window, and none but     *)
(* the one in flight once the user cancels.                                *)
StopsInTime == EndsInTime /\ InterruptEndsIt

(* What the read ends with is what the backend means: an answer that time   *)
(* does not change is reported, everything else was asked for again as     *)
(* long as the window allowed.                                             *)
AnswerIsEarned == PermanentIsReported /\ NotFoundIsEarned /\ BlipsAreWaitedOut

(* Every read ends. *)
ReadEnds == <>(step = "done")
=============================================================================
