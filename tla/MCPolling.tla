----------------------------- MODULE MCPolling -----------------------------
(* The two kinds of loop of duplosdk that call the API until something is   *)
(* so: a wait (Waiter) and a read that is tried again (ReadRetry).  Each    *)
(* behaviour runs one of them; the other is over from the start.            *)
EXTENDS Waiter, ReadRetry

View(s, r, f) == [status |-> s, ready |-> r, stalled |-> f]

MCResources ==
    {View("Processing", TRUE, FALSE), View("Complete", TRUE, FALSE),
     View("Complete", FALSE, FALSE), View("Complete", FALSE, TRUE),
     View("Failed", TRUE, FALSE), View("DeProvisioned", TRUE, FALSE)}

WaitIsOver ==
    /\ kind = "Wait" /\ pc = "done" /\ outcome = "ok" /\ err = "none"
    /\ resource = View("Complete", TRUE, FALSE) /\ obj = resource
    /\ gone = FALSE /\ cancelled = FALSE /\ attained = TRUE
    /\ failCount = 0 /\ fetchFailCount = 0 /\ elapsed = 0
    /\ polls = 1 /\ lastRead = 1 /\ reads = 1 /\ lastGood = 1 /\ cancelPolls = 0

ReadIsOver ==
    /\ step = "done" /\ result = NoError /\ last = [status |-> 200, body |-> "object"]
    /\ clock = 0 /\ delay = RetryBaseDelay /\ asked = 0
    /\ inView = TRUE /\ interrupt = FALSE /\ refused = FALSE /\ lateCalls = 0

PollingInit == (Init /\ ReadIsOver) \/ (WaitIsOver /\ RetryInit)

PollingNext ==
    \/ Next /\ UNCHANGED retryVars
    \/ RetryNext /\ UNCHANGED vars

PollingSpec ==
    /\ PollingInit
    /\ [][PollingNext]_<<vars, retryVars>>
    /\ WF_vars(Loop)
    /\ WF_retryVars(RetryLoop)

(* Whichever loop it is, it ends: by success, failure, deadline or          *)
(* cancellation.                                                            *)
PollingEnds == Terminates /\ ReadEnds
=============================================================================
