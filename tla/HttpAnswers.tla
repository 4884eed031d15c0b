---------------------------- MODULE HttpAnswers ----------------------------
(***************************************************************************)
(* How an answer leaves the services: libs/httpx writes status and JSON    *)
(* body through the response writer that ChiMiddleware wraps, and          *)
(* ChiMiddleware logs the status that the wrapper saw.                     *)
(***************************************************************************)
CONSTANTS Goroutines, Statuses, None

VARIABLES
    pc,
    answer,    \* answer[g]: the status that g's handler decides to send
    seen,      \* seen[g]: ww.Status(), None (0 in the code) before a header
    sent,      \* sent[g]: the status the client gets
    body,      \* body[g]: "none", "json" or "cut"
    logged     \* logged[g]: the status in the line of the request

vars == <<pc, answer, seen, sent, body, logged>>

All(x) == [g \in Goroutines |-> x]

Init ==
    /\ pc = All("idle")
    /\ answer = All(None) /\ seen = All(None) /\ sent = All(None)
    /\ body = All("none")
    /\ logged = All(None)

Goto(g, here, there) == pc[g] = here /\ pc' = [pc EXCEPT ![g] = there]

\* ServeHTTP of ChiMiddleware: a new wrapper around a new response writer; the
\* handler decides what to answer, 204 without a body.
Begin(g) ==
    /\ \E s \in Statuses :
         /\ Goto(g, "idle", IF s = 204 THEN "no content" ELSE "json")
         /\ answer' = [answer EXCEPT ![g] = s]
    /\ seen' = [seen EXCEPT ![g] = None]
    /\ sent' = [sent EXCEPT ![g] = None]
    /\ body' = [body EXCEPT ![g] = "none"]
    /\ logged' = [logged EXCEPT ![g] = None]

\* WriteHeader: net/http keeps the first status, and so does the wrapper.
WriteHeader(g, s) ==
    /\ sent' = IF sent[g] = None THEN [sent EXCEPT ![g] = s] ELSE sent
    /\ seen' = IF seen[g] = None THEN [seen EXCEPT ![g] = s] ELSE seen

\* httpx.WriteNoContent.
WriteNoContent(g) ==
    /\ Goto(g, "no content", "log")
    /\ WriteHeader(g, 204)
    /\ UNCHANGED <<answer, body, logged>>

\* Mutant: the body is written first, which sends status 200.
BodyFirst(g) ==
    /\ Goto(g, "json", "encode")
    /\ WriteHeader(g, 200)
    /\ UNCHANGED <<answer, body, logged>>

\* httpx.WriteJSON: the header is written ...
WriteJSON(g) ==
    /\ Goto(g, "json", "encode")
    /\ WriteHeader(g, answer[g])
    /\ UNCHANGED <<answer, body, logged>>

\* ... before the payload is encoded, which may fail; the error is logged.
Encode(g) ==
    /\ Goto(g, "encode", "log")
    /\ \E b \in {"json", "cut"} : body' = [body EXCEPT ![g] = b]
    /\ UNCHANGED <<answer, seen, sent, logged>>

\* The handler panics: net/http drops the connection, nothing is logged.
Panic(g) ==
    /\ pc[g] \in {"json", "no content"}
    /\ pc' = [pc EXCEPT ![g] = "idle"]
    /\ UNCHANGED <<answer, seen, sent, body, logged>>

LogStatus(g) ==
    /\ Goto(g, "log", "idle")
    /\ logged' = [logged EXCEPT ![g] = seen[g]]
    /\ UNCHANGED <<answer, seen, sent, body>>

Next ==
    \E g \in Goroutines :
        \/ Begin(g) \/ WriteNoContent(g) \/ WriteJSON(g) \/ Encode(g)
        \/ Panic(g) \/ LogStatus(g)

Spec == Init /\ [][Next]_vars

-----------------------------------------------------------------------------
(* Properties.                                                             *)

\* The log tells what the client was told: the status in a request's line is
\* the one that was sent and the one the handler decided on.
LoggedAsSent ==
    \A g \in Goroutines :
        logged[g] # None => logged[g] = sent[g] /\ sent[g] = answer[g]

\* httpx.go on WriteJSON: "If encoding fails it logs and sends a generic 500 error
\* JSON".  The status has left by then.
FailedEncodingSends500 == \A g \in Goroutines : body[g] = "cut" => sent[g] = 500

=============================================================================
