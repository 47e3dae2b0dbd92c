------------------------------ MODULE ApiCalls ------------------------------
(***************************************************************************)
(* One API call of duplosdk as its caller sees it (client.go, endpoint.go, *)
(* rest_resource.go): what becomes of a reply, and how long the call may   *)
(* take.  A call ends with NoError or with the status a ClientError        *)
(* carries: the HTTP status, or 0 when there was none to report.           *)
(*   reply.status   0 when no response arrived at all                      *)
(*   reply.body     "object" and "list": an envelope with data of that     *)
(*                  form; "noData": data null, missing or no envelope;     *)
(*                  "malformed": not JSON; "cut": the connection broke     *)
(*                  while the body was read; "gone" and "other": an error  *)
(*                  text that a notFoundResponses pattern matches, or not  *)
(***************************************************************************)
EXTENDS Integers

NoError == -1

Lost == [status |-> 0, body |-> "cut"]

Replies(statuses) ==
    {Lost} \cup
    [status : statuses \cap 200 .. 299,
     body   : {"object", "list", "noData", "malformed", "cut"}] \cup
    [status : statuses \ 200 .. 299, body : {"gone", "other", "cut"}]

(* doRequestWithTimeout, then the decoding of a body that is wanted.  A     *)
(* body that cannot be read fails with the status that came before it.      *)
callAPI(reply, want) ==
    IF reply.body = "cut" \/ reply.status \notin 200 .. 299 THEN reply.status
    ELSE IF want = "nothing" \/ reply.body \in {want, "noData"} THEN NoError
    ELSE 0

(* A single object must be there; a collection may be empty. *)
decode(reply) == IF reply.body = "noData" /\ callAPI(reply, "object") = NoError
                 THEN 0 ELSE callAPI(reply, "object")

CreateList(reply) == IF reply.body = "noData" /\ callAPI(reply, "list") = NoError
                     THEN 0 ELSE callAPI(reply, "list")

(* The collection is a bare list, or an object that holds it. *)
GetCollection(reply, listPath) ==
    callAPI(reply, IF listPath THEN "object" ELSE "list")

-----------------------------------------------------------------------------
(* The rules of an endpoint: statuses whose error text may say "gone".      *)

(* BuildEndpoint admits no other rules. *)
NotFoundRules(rules) == rules \subseteq (400 .. 499) \ {404}

(* Broken: the whole status counts as gone, whatever the text says. *)
asNotFoundByStatus(rules, reply, err) == IF err \in rules THEN 404 ELSE err

asNotFound(rules, reply, err) ==
    IF err \in rules /\ reply.body = "gone" THEN 404 ELSE err

Get(rules, reply) == asNotFound(rules, reply, decode(reply))

(* Delete and Deprovision: what is gone already was deleted. *)
Delete(rules, reply) ==
    LET err == asNotFound(rules, reply, callAPI(reply, "nothing"))
    IN  IF err = 404 THEN NoError ELSE err

(* Broken: every error is taken for one that may pass. *)
isRetryableAlways(err) == err # NoError

isRetryableRead(err) == err \in {0, 404, 429} \/ err >= 500

-----------------------------------------------------------------------------
(* Time, in seconds. *)

DefaultTimeout == 60

(* Configure and NewClient: http_timeout, where anything below one second   *)
(* means the default.                                                       *)
ClientTimeout(setting) == IF setting <= 0 THEN DefaultTimeout ELSE setting

(* A call may ask for more time than the client's default, never for less. *)
CallDeadline(clientTimeout, asked) ==
    IF asked < clientTimeout THEN clientTimeout ELSE asked
=============================================================================
