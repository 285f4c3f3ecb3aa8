------------------------------ MODULE Transport ------------------------------
(***************************************************************************)
(* transport.go: one POST as a value.                                      *)
(*                                                                         *)
(* The transport keeps no mutable state, so a request is a record that the *)
(* caller's module stores and steps: postRequestInternal makes it, and     *)
(* each turn of the loop in retry() is one Attempt.  The sleep between two *)
(* turns is the gap between two steps.  Headers, bodies and the length of  *)
(* the backoff are left out.                                               *)
(***************************************************************************)
EXTENDS Integers

CONSTANT StatusCodes    \* the HTTP status codes the server answers with

ASSUME StatusCodesAssumption == StatusCodes \subseteq 100..599

(***************************************************************************)
(* What http.Client.Do can come back with: a status with a body that does  *)
(* or does not decode, no response at all (timeout, refused connection),   *)
(* or both a response and an error, which net/http returns only when it    *)
(* gives up following redirects.                                           *)
(***************************************************************************)
Answers ==
    [kind : {"status"}, code : StatusCodes, decodes : BOOLEAN]
      \cup [kind : {"noResponse", "redirectError"}]

Requests ==
    [state : {"new", "trying", "done"},
     left  : Nat,       \* retries left
     tries : Nat,       \* requests put on the wire so far
     res   : BOOLEAN,   \* result: the *http.Response is not nil
     err   : BOOLEAN]   \* result: the error is not nil

shouldRetry(code) == code \in {408, 500, 502, 503, 504, 522, 524, 599}

Success(code) == code >= 200 /\ code < 300

\* A call whose goroutine has not entered postRequestInternal yet.
NewRequest(retries) ==
    [state |-> "new", left |-> retries, tries |-> 0, res |-> FALSE, err |-> FALSE]

Finish(req, res, err) ==
    [req EXCEPT !.state = "done", !.res = res, !.err = err]

(***************************************************************************)
(* Entering postRequestInternal: local mode answers (nil, nil) without a   *)
(* request, an input that does not marshal answers (nil, err).             *)
(***************************************************************************)
postRequestInternal(req, localMode, marshals) ==
    IF localMode      THEN Finish(req, FALSE, FALSE)
    ELSE IF ~marshals THEN Finish(req, FALSE, TRUE)
    ELSE [req EXCEPT !.state = "trying"]

\* The triple (response, retry, error) of the closure passed to retry().
Try(a) ==
    CASE a.kind = "noResponse"    -> [res |-> FALSE, retry |-> FALSE, err |-> TRUE]
      [] a.kind = "redirectError" -> [res |-> TRUE,  retry |-> TRUE,  err |-> TRUE]
      [] a.kind = "status" /\ Success(a.code) ->
           [res |-> TRUE, retry |-> FALSE, err |-> ~a.decodes]
      [] OTHER ->
           [res |-> TRUE, retry |-> shouldRetry(a.code), err |-> TRUE]

\* Mutant: the retries are not counted down.
AttemptUncounted(req, a) ==
    LET sent == [req EXCEPT !.tries = @ + 1]
    IN  IF Try(a).retry /\ req.left > 0
        THEN sent
        ELSE Finish(sent, Try(a).res, Try(a).err)

\* One turn of the loop in retry(), given what the server answered.
Attempt(req, a) ==
    LET sent == [req EXCEPT !.tries = @ + 1]
    IN  IF Try(a).retry /\ req.left > 0
        THEN [sent EXCEPT !.left = @ - 1]
        ELSE Finish(sent, Try(a).res, Try(a).err)

\* The test every caller makes on the result: res == nil || err != nil.
Failed(req) == ~req.res \/ req.err
=============================================================================
