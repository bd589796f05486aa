------------------------------- MODULE ApiCall -------------------------------
(***************************************************************************)
(* Calls of the Intersight API: a request is built, digested and signed,   *)
(* then sent; the answer's status decides how its body is read and what    *)
(* the caller is told.  The network and the server are free: they may      *)
(* refuse, stall at any point, break off, answer with any status and body. *)
(* Only the client's timers bound a call, and only the caller can drop it. *)
(*                                                                         *)
(* Building and signing take no time; timers are prompt.  A redirect the   *)
(* client follows is part of waiting for the head of the answer.           *)
(***************************************************************************)
EXTENDS Integers

CONSTANTS
    Callers,          \* the tasks that call, each one call at a time
    BodyTexts,        \* the request bodies, as text
    Statuses,         \* the HTTP statuses a server may answer with
    ConnectTimeout,   \* connect_timeout
    Timeout,          \* timeout: from the start of execute to the end of the body
    None              \* no body, request, response or result

ASSUME ApiCallAssumption ==
    /\ Statuses \subseteq 100 .. 599
    /\ ConnectTimeout \in Nat \ {0} /\ Timeout \in Nat /\ ConnectTimeout <= Timeout
    /\ None \notin BodyTexts

VARIABLES
    phase,      \* caller -> where its call is
    request,    \* caller -> its request
    response,   \* caller -> what the server has answered so far
    age,        \* caller -> the time since execute started
    result      \* caller -> what the last call returned

vars == <<phase, request, response, age, result>>

Method == {"GET", "POST", "PATCH", "DELETE"}
Active(c) == phase[c] # "idle"
IsSuccess(status) == status \in 200 .. 299

Init ==
    /\ phase = [c \in Callers |-> "idle"]
    /\ request = [c \in Callers |-> None] /\ response = [c \in Callers |-> None]
    /\ age = [c \in Callers |-> 0] /\ result = [c \in Callers |-> None]

Goto(c, l) == phase' = [phase EXCEPT ![c] = l]

\* get, post, patch or delete: only two of them carry a body, which may be null.
Call(c) ==
    /\ ~Active(c)
    /\ \E m \in Method, b \in BodyTexts \cup {None} :
          /\ b # None <=> m \in {"POST", "PATCH"}
          /\ request' = [request EXCEPT ![c] = [method |-> m, body |-> b]]
    /\ response' = [response EXCEPT ![c] = None]
    /\ result' = [result EXCEPT ![c] = None]
    /\ Goto(c, "building")
    /\ UNCHANGED age

\* A hash is as good as the text it is of.
Hash(text) == [sha256 |-> text]

\* body_str: the text of the body, or the empty text.
BodyText(b) == IF b = None THEN "" ELSE b

\* The text is the content if there is a body, and is digested in any case; the digest
\* is a header before the headers are signed.
Signed(r) ==
    LET d == Hash(BodyText(r.body)) IN
    [method |-> r.method, content |-> IF r.body = None THEN None ELSE BodyText(r.body),
     digest |-> d, signature |-> [method |-> r.method, digest |-> d]]

Build(c) ==
    /\ phase[c] = "building"
    /\ request' = [request EXCEPT ![c] = Signed(@)]
    /\ Goto(c, "connecting")
    /\ UNCHANGED <<response, age, result>>

\* Mutant of Return: the request is kept.
ReturnKeepsRequest(c, res) ==
    /\ Goto(c, "idle")
    /\ age' = [age EXCEPT ![c] = 0]
    /\ result' = [result EXCEPT ![c] = res]
    /\ UNCHANGED request

\* The caller has its result.
Return(c, res) ==
    /\ Goto(c, "idle")
    /\ request' = [request EXCEPT ![c] = None]
    /\ age' = [age EXCEPT ![c] = 0]
    /\ result' = [result EXCEPT ![c] = res]

Error(kind) == [ok |-> FALSE, kind |-> kind, status |-> 0]
ApiError(status) == [ok |-> FALSE, kind |-> "ApiError", status |-> status]
Value == [ok |-> TRUE, kind |-> "Value", status |-> 0]

\* The URL, a header or the signing fails; nothing is sent.
BuildFails(c) ==
    /\ phase[c] = "building"
    /\ \E kind \in {"SendRequest", "Convert", "Sign"} : Return(c, Error(kind))
    /\ UNCHANGED response

\* A new connection, or a pooled one.
Connect(c) ==
    /\ phase[c] = "connecting"
    /\ Goto(c, "head")
    /\ UNCHANGED <<request, response, age, result>>

\* The head of the answer is in; its body, JSON or not, may never come.
Head(c) ==
    /\ phase[c] = "head"
    /\ \E s \in Statuses, json \in BOOLEAN :
          response' = [response EXCEPT ![c] = [status |-> s, json |-> json, complete |-> FALSE]]
    /\ Goto(c, "body")
    /\ UNCHANGED <<request, age, result>>

\* The body is complete.  That of an error is read only to be logged.
Body(c) ==
    /\ phase[c] = "body"
    /\ response' = [response EXCEPT ![c].complete = TRUE]
    /\ Return(c, IF ~IsSuccess(response[c].status) THEN ApiError(response[c].status)
                 ELSE IF response[c].json THEN Value ELSE Error("ResponseError"))

\* Mutant of Failure: an error's body that cannot be read hides its status.
FailureOfBody(c) == Error(IF phase[c] = "body" THEN "Body" ELSE "SendRequest")

\* What the caller is told when the connection or a timer fails the call.
Failure(c) ==
    IF phase[c] # "body" THEN Error("SendRequest")
    ELSE IF IsSuccess(response[c].status) THEN Error("Body")
    ELSE ApiError(response[c].status)

Break(c) ==
    /\ phase[c] \in {"connecting", "head", "body"}
    /\ Return(c, Failure(c))
    /\ UNCHANGED response

\* Mutant of Expired: the time for a call ends with the head of the answer.
ExpiredBeforeBody(c) ==
    \/ phase[c] \in {"connecting", "head"} /\ age[c] >= Timeout
    \/ phase[c] = "connecting" /\ age[c] >= ConnectTimeout

\* One of the client's timers is up.
Expired(c) ==
    \/ phase[c] \in {"connecting", "head", "body"} /\ age[c] >= Timeout
    \/ phase[c] = "connecting" /\ age[c] >= ConnectTimeout

TimesOut(c) == Expired(c) /\ Break(c)

\* The caller drops the call, as an enrichment that runs out of time does.
Drop(c) ==
    /\ Active(c)
    /\ Return(c, None)
    /\ UNCHANGED response

Tick ==
    /\ \A c \in Callers : phase[c] # "building" /\ ~Expired(c)
    /\ age' = [c \in Callers |-> IF Active(c) THEN age[c] + 1 ELSE 0]
    /\ UNCHANGED <<phase, request, response, result>>

Next ==
    \/ Tick
    \/ \E c \in Callers :
          \/ Call(c) \/ Build(c) \/ BuildFails(c) \/ Connect(c) \/ Head(c) \/ Body(c)
          \/ Break(c) \/ Drop(c)

Spec == Init /\ [][Next]_vars

\* Time passes and the client does its own work; nothing is asked of network and server.
FairSpec ==
    /\ Spec
    /\ SF_vars(Tick)
    /\ \A c \in Callers : WF_vars(Build(c) \/ BuildFails(c)) /\ WF_vars(TimesOut(c))

-----------------------------------------------------------------------------
(* Properties.                                                             *)

PlainRequest == [method : Method, body : BodyTexts \cup {None}]
SignedRequest == {Signed(r) : r \in PlainRequest}
Response == [status : Statuses, json : BOOLEAN, complete : BOOLEAN]
Result ==
    {Value} \cup {ApiError(s) : s \in Statuses}
            \cup {Error(k) : k \in {"SendRequest", "Convert", "Sign", "ResponseError", "Body"}}

ASSUME NoneAssumption ==
    None \notin PlainRequest \cup SignedRequest \cup Response \cup Result

TypeOK ==
    /\ phase \in [Callers -> {"idle", "building", "connecting", "head", "body"}]
    /\ request \in [Callers -> PlainRequest \cup SignedRequest \cup {None}]
    /\ \A c \in Callers :
          /\ Active(c) <=> request[c] # None
          /\ phase[c] \in {"connecting", "head", "body"} => request[c] \in SignedRequest
          /\ phase[c] = "body" => response[c] # None
    /\ response \in [Callers -> Response \cup {None}]
    /\ age \in [Callers -> 0 .. Timeout]
    /\ result \in [Callers -> Result \cup {None}]

\* What the caller is told is what the server said: a value for a complete JSON body with
\* a success status and for nothing else, and an error status if and only if that very
\* status has arrived, even if the body of the error breaks off or the time is up while
\* it is read (lib.rs 184-196).
ToldAsAnswered ==
    \A c \in Callers : ~Active(c) /\ result[c] # None =>
        LET a == response[c] IN
        /\ result[c].ok <=> a # None /\ IsSuccess(a.status) /\ a.json /\ a.complete
        /\ result[c].kind = "ApiError" <=> a # None /\ ~IsSuccess(a.status)
        /\ result[c].kind = "ApiError" => result[c].status = a.status

\* Whatever network and server do, a call keeps to what its callers rely on: it ends, and
\* within Timeout (lib.rs 56-62), connecting and reading the body included.
Promise == INSTANCE Answering
           WITH Limit <- Timeout, pending <- {c \in Callers : Active(c)}, waited <- age
ImplementsAnswering == Promise!FairSpec
=============================================================================
