------------------------------ MODULE ApiReply ------------------------------
(***************************************************************************)
(* What one HTTP exchange means to the code that asked for it.             *)
(*                                                                         *)
(* ApiClient.request (ApiClient.swift) hands the Alamofire response to a   *)
(* completion closure, which calls the Rx observer; the observer's sink    *)
(* (Create.swift of the vendored RxSwift) decides which of those calls the *)
(* subscriber sees.  Both are pure functions of the response, so they are  *)
(* operators here, shared by every component that makes a request.         *)
(***************************************************************************)
EXTENDS Integers, Sequences

CONSTANTS
    HttpStatus,     \* the status codes the server is taken to answer with
    NoStatus        \* no HTTP response at all: time-out, connection lost, ...

ASSUME StatusAssumption ==
    /\ HttpStatus \subseteq 100..599
    /\ NoStatus \notin HttpStatus

(***************************************************************************)
(* A response, reduced to what the closure looks at:                       *)
(*   offline  its description contains "-1009" (NSURLError's code for no   *)
(*            connection; a payload that mentions it counts as well)       *)
(*   result   "model":     a JSON body that decodes as the expected type   *)
(*            "otherJSON": a JSON body that does not                       *)
(*            "failure":   validate() or the JSON serializer failed        *)
(*   status   the HTTP status, when a response arrived                     *)
(* `response.data' is never nil: Alamofire leaves it nil only for requests *)
(* given a data stream, which request() does not do.                       *)
(***************************************************************************)
Response ==
    {r \in [offline : BOOLEAN,
            result  : {"model", "otherJSON", "failure"},
            status  : HttpStatus \cup {NoStatus}] :
        r.result # "failure" => r.status \in HttpStatus /\ r.status \in 200..299}

\* The raw values of ServiceError, the only codes with a case of their own.
ServiceErrorCode == {401, 404, 1009}

(***************************************************************************)
(* What an observer is told: "next" with the decoded model, "service" for  *)
(* an error that is a ServiceError, "other" for any other error.           *)
(***************************************************************************)
Event == {"next", "service", "other"}

\* The observer calls the completion closure makes for response r, in order.
ObserverCalls(r) ==
    CASE r.offline -> <<"service">>
      [] ~r.offline /\ r.result = "model" -> <<"next">>
      [] ~r.offline /\ r.result = "otherJSON" -> <<"other">>
      [] ~r.offline /\ r.result = "failure" /\ r.status = NoStatus -> <<"service">>
      [] ~r.offline /\ r.result = "failure" /\ r.status \in ServiceErrorCode ->
            <<"service", "other">>
      [] OTHER -> <<"other">>

\* Mutant: a sink without isStopped.
PassedUnchecked(calls) == calls

(***************************************************************************)
(* The calls the sink lets through: an error stops it, and it drops every  *)
(* call made after that.                                                   *)
(***************************************************************************)
ErrorAt(calls, n) == calls[n] \in {"service", "other"}

Passed(calls) ==
    IF \E n \in 1..Len(calls) : ErrorAt(calls, n)
    THEN SubSeq(calls, 1, CHOOSE n \in 1..Len(calls) :
                             /\ ErrorAt(calls, n)
                             /\ \A i \in 1..(n - 1) : ~ErrorAt(calls, i))
    ELSE calls

\* The event a subscriber gets for response r.
Outcome(r) == Head(ObserverCalls(r))
=============================================================================
