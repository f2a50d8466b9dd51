-------------------------------- MODULE Http --------------------------------
(***************************************************************************)
(* src/src/http_module.c and src/src/js/fetch.js: HTTP requests and the    *)
(* promises of fetch().  A response is the halves of its header and a      *)
(* body; a request ends when the server closes the connection.  fetch()    *)
(* may be called at any moment, in the callback of another request too.    *)
(***************************************************************************)
EXTENDS Integers, Sequences

CONSTANTS
    Reqs        \* requests, one per call of fetch()

VARIABLES
    req,        \* the HttpReqHandles
    server,     \* what the server has sent and not been read, per request
    promise     \* the promise fetch() returned, per request

vars == <<req, server, promise>>

None == "none"

\* What becomes of a call of fetch(): the request is out; its protocol is not
\* supported; or resolving or connecting fails.
Starts == {"live", "refused", "failed"}

\* calls: history, how often the callback was called.
NewReq(tls) == [st |-> "live", tls |-> tls, shaken |-> FALSE, unsent |-> 2,
                events |-> {"OUT"}, read |-> <<>>, calls |-> 0]

Init ==
    /\ req = [r \in Reqs |-> [NewReq(FALSE) EXCEPT !.st = None, !.events = {}]]
    /\ server = [r \in Reqs |-> [data |-> <<>>, sent |-> 0, end |-> "open"]]
    /\ promise = [r \in Reqs |-> [st |-> None, value |-> None]]

TypeOK ==
    \A r \in Reqs :
        /\ req[r].st \in {None, "calling", "freed"} \cup Starts
        /\ req[r].unsent \in 0..2 /\ req[r].calls \in 0..1
        /\ req[r].events \subseteq {"IN", "OUT"}
        /\ server[r].end \in {"open", "fin", "reset"}
        /\ promise[r].st \in {None, "pending", "fulfilled", "rejected"}

\* The three parts of a response: half of the header, the end of the header
\* with the status, the body.
Statuses == {"ok", "redirect", "garbage"}

ServerSends(r) ==
    /\ req[r].st = "live" /\ req[r].unsent = 0
    /\ server[r].end = "open" /\ server[r].sent < 3
    /\ \E s \in IF server[r].sent = 1 THEN Statuses ELSE {"bytes"} :
          server' = [server EXCEPT ![r].data = Append(@, s), ![r].sent = @ + 1]
    /\ UNCHANGED <<req, promise>>

ServerEnds(r) ==
    /\ req[r].st = "live" /\ server[r].end = "open"
    /\ \E e \in {"fin", "reset"} : server' = [server EXCEPT ![r].end = e]
    /\ UNCHANGED <<req, promise>>

\* The loop calls http_io_cb, no callback being on the stack.
Idle == \A r \in Reqs : req[r].st # "calling"
Connected(r) == req[r].st = "live" /\ (req[r].tls => req[r].shaken) /\ Idle

-----------------------------------------------------------------------------
\* fetch(url): the executor rejects a protocol it does not know, and makes the
\* request of any other.  If resolving or connecting fails, js_http_request
\* returns without calling back.
Started(tls, how) == [NewReq(tls) EXCEPT !.st = how]
Awaited(how) ==
    IF how = "refused" THEN [st |-> "rejected", value |-> "error"]
    ELSE [st |-> "pending", value |-> None]

Fetch(r) ==
    /\ req[r].st = None
    /\ \E tls \in BOOLEAN, how \in Starts :
          /\ req' = [req EXCEPT ![r] = Started(tls, how)]
          /\ promise' = [promise EXCEPT ![r] = Awaited(how)]
    /\ UNCHANGED server

\* The callback of fetch.js.  A redirect fulfils the promise with the promise
\* of a second fetch(): resolve() does not adopt it.
Deliver(r, outcome) ==
    \/ /\ outcome = "error"
       /\ req' = [req EXCEPT ![r].st = "calling", ![r].calls = @ + 1]
       /\ promise' = [promise EXCEPT ![r] = [st |-> "rejected", value |-> "error"]]
    \/ /\ outcome = "ok"
       /\ req' = [req EXCEPT ![r].st = "calling", ![r].calls = @ + 1]
       /\ promise' = [promise EXCEPT ![r] = [st |-> "fulfilled", value |-> "response"]]
    \/ /\ outcome = "redirect"
       /\ \E n \in Reqs, tls \in BOOLEAN, how \in Starts :
             /\ req[n].st = None
             /\ req' = [req EXCEPT ![r].st = "calling", ![r].calls = @ + 1,
                                   ![n] = Started(tls, how)]
             /\ promise' = [promise EXCEPT
                              ![r] = [st |-> "fulfilled", value |-> n],
                              ![n] = Awaited(how)]

\* Mutant: what was read so far is taken for the response.
ParseAnything(r) == "ok"

\* http_parse_response_and_call: no data or no end of header is an error.
Parse(r) ==
    IF Len(req[r].read) < 2 \/ req[r].read[2] = "garbage" THEN "error"
    ELSE req[r].read[2]

\* The response was the last the bound on requests allows: a redirect is then
\* not followed.
ParseAndCall(r) ==
    IF Parse(r) = "redirect" /\ \A n \in Reqs : req[n].st # None
    THEN Deliver(r, "ok") ELSE Deliver(r, Parse(r))

TlsHandshake(r) ==
    /\ req[r].st = "live" /\ req[r].tls /\ ~req[r].shaken /\ Idle
    /\ \/ /\ \E e \in {"IN", "OUT"}, done \in BOOLEAN :
                req' = [req EXCEPT ![r].shaken = done,
                                   ![r].events = IF done THEN {"OUT"} ELSE {e}]
          /\ UNCHANGED promise
       \/ Deliver(r, "error")
    /\ UNCHANGED server

\* http_io_cb with POLLERR or POLLHUP alone, as poll() may report a reset.
Hangup(r) ==
    /\ Connected(r) /\ server[r].end = "reset"
    /\ IF req[r].read # <<>> THEN ParseAndCall(r) ELSE Deliver(r, "error")
    /\ UNCHANGED server

\* Mutant: the handle goes on asking for POLLOUT.
SendRequestDeaf(r) ==
    /\ Connected(r) /\ "OUT" \in req[r].events
    /\ \/ server[r].end = "reset" /\ Deliver(r, "error")
       \/ /\ req' = [req EXCEPT ![r].unsent = 0]
          /\ UNCHANGED promise
    /\ UNCHANGED server

\* POLLOUT: send() takes part of the request, all of it, or fails.
SendRequest(r) ==
    /\ Connected(r) /\ "OUT" \in req[r].events
    /\ \/ server[r].end = "reset" /\ Deliver(r, "error")
       \/ /\ req[r].unsent = 2
          /\ req' = [req EXCEPT ![r].unsent = 1]
          /\ UNCHANGED promise
       \/ /\ req' = [req EXCEPT ![r].unsent = 0, ![r].events = {"IN"}]
          /\ UNCHANGED promise
    /\ UNCHANGED server

\* POLLIN: data is collected, the end of the stream completes the request.
Receive(r) ==
    /\ Connected(r) /\ req[r].events = {"IN"}
    /\ \/ /\ server[r].data # <<>>
          /\ \E n \in 1..Len(server[r].data) :
                /\ req' = [req EXCEPT ![r].read = @ \o SubSeq(server[r].data, 1, n)]
                /\ server' = [server EXCEPT
                                ![r].data = SubSeq(@, n + 1, Len(@))]
          /\ UNCHANGED promise
       \/ /\ server[r].data = <<>> /\ server[r].end = "fin"
          /\ ParseAndCall(r)
          /\ UNCHANGED server
       \/ /\ server[r].end = "reset" /\ Deliver(r, "error")
          /\ UNCHANGED server

\* The callback returns: http_free_req.
Return(r) ==
    /\ req[r].st = "calling"
    /\ req' = [req EXCEPT ![r].st = "freed", ![r].events = {}]
    /\ UNCHANGED <<server, promise>>

System(r) == SendRequest(r) \/ Receive(r) \/ Return(r)

Next ==
    \E r \in Reqs :
        \/ Fetch(r) \/ TlsHandshake(r) \/ Hangup(r)
        \/ System(r) \/ ServerSends(r) \/ ServerEnds(r)

\* Callbacks are made and return; every server closes in the end.
Fairness == \A r \in Reqs : WF_vars(System(r)) /\ WF_vars(ServerEnds(r))

Spec == Init /\ [][Next]_vars /\ Fairness

-----------------------------------------------------------------------------
(* Properties *)

\* A promise is settled by the callback of its request, which is called once
\* and before the handle is freed; by fetch() itself if the protocol is not
\* supported; and never if the connection could not be set up.  It is fulfilled
\* only by a response whose header arrived whole.
CalledBackOnce ==
    \A r \in Reqs :
        /\ promise[r].st \in {"fulfilled", "rejected"}
              <=> req[r].calls = 1 \/ req[r].st = "refused"
        /\ req[r].st \in {"calling", "freed"} <=> req[r].calls = 1
        /\ req[r].st = "refused" => promise[r].st = "rejected"
        /\ req[r].st \in {"live", "failed"} => promise[r].st = "pending"
        /\ promise[r].st = "fulfilled" => Len(req[r].read) >= 2

=============================================================================
