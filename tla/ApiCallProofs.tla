--------------------------- MODULE ApiCallProofs ---------------------------
(***************************************************************************)
(* Proofs about ApiCall, for any callers, request bodies, statuses and     *)
(* timeouts.                                                               *)
(***************************************************************************)
EXTENDS ApiCall, TLAPS

-----------------------------------------------------------------------------
(* The inductive invariant, caller by caller.  Told compares the result    *)
(* with the answer when the call is over; while it is on, what matters is  *)
(* that there is no answer before its head is in, and none is complete     *)
(* while its body is read (NoAnswerYet).                                   *)

Ranges ==
    /\ phase \in [Callers -> {"idle", "building", "connecting", "head", "body"}]
    /\ request \in [Callers -> PlainRequest \cup SignedRequest \cup {None}]
    /\ response \in [Callers -> Response \cup {None}]
    /\ age \in [Callers -> Nat]
    /\ result \in [Callers -> Result \cup {None}]

HasRequest(c) == Active(c) <=> request[c] # None

\* What is being built is a plain request, what has been sent a signed one.
RequestAsPhase(c) ==
    /\ phase[c] = "building" => request[c] \in PlainRequest
    /\ phase[c] \in {"connecting", "head", "body"} => request[c] \in SignedRequest

NoAnswerYet(c) ==
    /\ phase[c] \in {"building", "connecting", "head"} => response[c] = None
    /\ phase[c] = "body" => response[c] # None /\ response[c].complete = FALSE

\* A call that has not been sent has no age, and none gets older than Timeout.
AgeBounded(c) ==
    /\ age[c] <= Timeout
    /\ phase[c] \in {"idle", "building"} => age[c] = 0

\* Does the result say what the answer said?
Says(res, a) ==
    /\ res.ok <=> a # None /\ IsSuccess(a.status) /\ a.json /\ a.complete
    /\ res.kind = "ApiError" <=> a # None /\ ~IsSuccess(a.status)
    /\ res.kind = "ApiError" => res.status = a.status

Told(c) == ~Active(c) /\ result[c] # None => Says(result[c], response[c])

CallerInv(c) ==
    /\ HasRequest(c) /\ RequestAsPhase(c) /\ NoAnswerYet(c)
    /\ AgeBounded(c) /\ Told(c)

AInv == Ranges /\ \A c \in Callers : CallerInv(c)

-----------------------------------------------------------------------------
(* Lemmas about the operators.                                             *)

\* What a call can return: a value, an error of the client's own, or the API's.
LEMMA Results ==
    /\ \A k \in {"SendRequest", "Convert", "Sign", "ResponseError", "Body"} :
          /\ Error(k) \in Result /\ Error(k) # None
          /\ Error(k).ok = FALSE /\ Error(k).kind # "ApiError"
    /\ \A s \in Statuses :
          /\ ApiError(s) \in Result /\ ApiError(s) # None
          /\ ApiError(s).ok = FALSE /\ ApiError(s).kind = "ApiError" /\ ApiError(s).status = s
    /\ Value \in Result /\ Value # None /\ Value.ok = TRUE /\ Value.kind # "ApiError"
  <1>1. \A k \in {"SendRequest", "Convert", "Sign", "ResponseError", "Body"} :
           Error(k) \in Result /\ Error(k).ok = FALSE /\ Error(k).kind = k
    BY DEF Result, Error
  <1>2. \A s : /\ ApiError(s).kind = "ApiError" /\ ApiError(s).ok = FALSE
               /\ ApiError(s).status = s
    BY DEF ApiError
  <1>3. Value \in Result /\ Value.ok = TRUE /\ Value.kind = "Value"
    BY DEF Result, Value
  <1>4. \A s \in Statuses : ApiError(s) \in Result
    BY DEF Result
  <1>5. None \notin Result
    BY NoneAssumption
  <1> QED
    BY <1>1, <1>2, <1>3, <1>4, <1>5

\* A response tells status, form and completeness.
LEMMA ResponseFacts ==
    ASSUME NEW a \in Response
    PROVE  a # None /\ a.status \in Statuses /\ a.json \in BOOLEAN /\ a.complete \in BOOLEAN
  BY NoneAssumption DEF Response

-----------------------------------------------------------------------------
(* Init and the steps.                                                     *)

\* No call has been made.
LEMMA ApiCallInit == Init => AInv
  <1> USE ApiCallAssumption
  <1> SUFFICES ASSUME Init PROVE AInv
    OBVIOUS
  <1>1. Ranges
    BY DEF Init, Ranges
  <1>2. ASSUME NEW c \in Callers PROVE CallerInv(c)
    BY DEF Init, CallerInv, HasRequest, Active, RequestAsPhase, NoAnswerYet,
           AgeBounded, Told
  <1> QED
    BY <1>1, <1>2 DEF AInv

\* A step of one caller does not touch the others.
LEMMA OneCaller ==
    ASSUME AInv, NEW c \in Callers, Ranges', CallerInv(c)',
           \A q \in Callers : q # c =>
              /\ phase'[q] = phase[q] /\ request'[q] = request[q] /\ response'[q] = response[q]
              /\ age'[q] = age[q] /\ result'[q] = result[q]
    PROVE  AInv'
  <1>1. ASSUME NEW q \in Callers, q # c PROVE CallerInv(q)'
    BY <1>1 DEF AInv, CallerInv, HasRequest, Active, RequestAsPhase, NoAnswerYet,
                AgeBounded, Told
  <1> QED
    BY <1>1 DEF AInv

LEMMA CallKeeps == ASSUME AInv, NEW c \in Callers, Call(c) PROVE AInv'
  <1>1. PICK m \in Method, b \in BodyTexts \cup {None} :
           /\ b # None <=> m \in {"POST", "PATCH"}
           /\ request' = [request EXCEPT ![c] = [method |-> m, body |-> b]]
    BY DEF Call
  <1> DEFINE r == [method |-> m, body |-> b]
  <1>2. r \in PlainRequest /\ r # None /\ r.method = m /\ r.body = b
    BY NoneAssumption DEF PlainRequest
  <1> HIDE DEF r
  <1>3. /\ phase[c] = "idle" /\ phase' = [phase EXCEPT ![c] = "building"]
        /\ request' = [request EXCEPT ![c] = r]
        /\ response' = [response EXCEPT ![c] = None] /\ result' = [result EXCEPT ![c] = None]
        /\ age' = age
    BY <1>1 DEF Call, Goto, Active, r
  <1>4. Ranges'
    BY <1>2, <1>3 DEF AInv, Ranges
  <1>5. /\ phase'[c] = "building" /\ request'[c] = r /\ response'[c] = None /\ result'[c] = None
        /\ \A q \in Callers : q # c =>
              /\ phase'[q] = phase[q] /\ request'[q] = request[q] /\ response'[q] = response[q]
              /\ result'[q] = result[q]
    BY <1>3 DEF AInv, Ranges
  <1>6. AgeBounded(c)'
    BY <1>3 DEF AInv, CallerInv, AgeBounded
  <1>7. CallerInv(c)'
    BY <1>1, <1>2, <1>5, <1>6 DEF CallerInv, HasRequest, Active, RequestAsPhase,
                                  NoAnswerYet, Told
  <1> QED
    BY <1>3, <1>4, <1>5, <1>7, OneCaller

\* A plain request becomes a signed one.
LEMMA BuildKeeps == ASSUME AInv, NEW c \in Callers, Build(c) PROVE AInv'
  <1> DEFINE r == Signed(request[c])
  <1>1. /\ phase[c] = "building" /\ phase' = [phase EXCEPT ![c] = "connecting"]
        /\ request' = [request EXCEPT ![c] = r]
        /\ UNCHANGED <<response, age, result>>
    BY DEF Build, Goto
  <1>2. r \in SignedRequest /\ r # None
    BY <1>1, NoneAssumption DEF AInv, CallerInv, RequestAsPhase, SignedRequest
  <1> HIDE DEF r
  <1>3. Ranges'
    BY <1>1, <1>2 DEF AInv, Ranges
  <1>4. /\ phase'[c] = "connecting" /\ request'[c] = r
        /\ \A q \in Callers : q # c => phase'[q] = phase[q] /\ request'[q] = request[q]
    BY <1>1 DEF AInv, Ranges
  <1>5. AgeBounded(c)' /\ NoAnswerYet(c)'
    BY <1>1, <1>4 DEF AInv, CallerInv, AgeBounded, NoAnswerYet
  <1>6. CallerInv(c)'
    BY <1>2, <1>4, <1>5 DEF CallerInv, HasRequest, Active, RequestAsPhase, Told
  <1> QED
    BY <1>1, <1>3, <1>4, <1>6, OneCaller

\* The way back: the caller is told what fits the answer so far.
LEMMA ReturnKeeps ==
    ASSUME AInv, NEW c \in Callers, NEW res \in Result \cup {None}, Return(c, res),
           response' \in [Callers -> Response \cup {None}],
           \A q \in Callers : q # c => response'[q] = response[q],
           res # None => Says(res, response'[c])
    PROVE  AInv'
  <1>1. /\ phase' = [phase EXCEPT ![c] = "idle"] /\ request' = [request EXCEPT ![c] = None]
        /\ age' = [age EXCEPT ![c] = 0] /\ result' = [result EXCEPT ![c] = res]
    BY DEF Return, Goto
  <1>2. Ranges'
    BY <1>1 DEF AInv, Ranges
  <1>3. /\ phase'[c] = "idle" /\ request'[c] = None /\ age'[c] = 0 /\ result'[c] = res
        /\ \A q \in Callers : q # c =>
              /\ phase'[q] = phase[q] /\ request'[q] = request[q]
              /\ age'[q] = age[q] /\ result'[q] = result[q]
    BY <1>1 DEF AInv, Ranges
  <1>4. CallerInv(c)'
    BY <1>3, ApiCallAssumption
       DEF CallerInv, HasRequest, Active, RequestAsPhase, NoAnswerYet, AgeBounded,
           Told
  <1> QED
    BY <1>2, <1>3, <1>4, OneCaller

\* Nothing has come back, and the result is an error of the client's own.
LEMMA BuildFailsKeeps == ASSUME AInv, NEW c \in Callers, BuildFails(c) PROVE AInv'
  <1>1. PICK k \in {"SendRequest", "Convert", "Sign"} : Return(c, Error(k))
    BY DEF BuildFails
  <1>2. response' = response /\ response[c] = None /\ response \in [Callers -> Response \cup {None}]
    BY DEF BuildFails, AInv, Ranges, CallerInv, NoAnswerYet
  <1>3. Error(k) \in Result /\ Says(Error(k), response'[c])
    BY <1>2, Results DEF Says
  <1> QED
    BY <1>1, <1>2, <1>3, ReturnKeeps

\* Connecting changes nothing but the phase.
LEMMA ConnectKeeps == ASSUME AInv, NEW c \in Callers, Connect(c) PROVE AInv'
  <1>1. /\ phase[c] = "connecting" /\ phase' = [phase EXCEPT ![c] = "head"]
        /\ UNCHANGED <<request, response, age, result>>
    BY DEF Connect, Goto
  <1>2. Ranges'
    BY <1>1 DEF AInv, Ranges
  <1>3. phase'[c] = "head" /\ \A q \in Callers : q # c => phase'[q] = phase[q]
    BY <1>1 DEF AInv, Ranges
  <1>4. CallerInv(c)'
    BY <1>1, <1>3 DEF AInv, CallerInv, HasRequest, Active, RequestAsPhase,
                      NoAnswerYet, AgeBounded, Told
  <1> QED
    BY <1>1, <1>2, <1>3, <1>4, OneCaller

\* Now there is an answer.
LEMMA HeadKeeps == ASSUME AInv, NEW c \in Callers, Head(c) PROVE AInv'
  <1>1. PICK s \in Statuses, json \in BOOLEAN :
           response' = [response EXCEPT
                           ![c] = [status |-> s, json |-> json, complete |-> FALSE]]
    BY DEF Head
  <1> DEFINE a == [status |-> s, json |-> json, complete |-> FALSE]
  <1>2. a \in Response /\ a # None /\ a.complete = FALSE
    <2>1. a \in Response /\ a.complete = FALSE
      BY DEF Response
    <2> HIDE DEF a
    <2> QED
      BY <2>1, ResponseFacts
  <1>3. response' = [response EXCEPT ![c] = a]
    BY <1>1
  <1> HIDE DEF a
  <1>4. /\ phase[c] = "head" /\ phase' = [phase EXCEPT ![c] = "body"]
        /\ UNCHANGED <<request, age, result>>
    BY DEF Head, Goto
  <1>5. Ranges'
    BY <1>2, <1>3, <1>4 DEF AInv, Ranges
  <1>6. /\ phase'[c] = "body" /\ response'[c] = a
        /\ \A q \in Callers : q # c => phase'[q] = phase[q] /\ response'[q] = response[q]
    BY <1>3, <1>4 DEF AInv, Ranges
  <1>7. CallerInv(c)'
    BY <1>2, <1>4, <1>6 DEF AInv, CallerInv, HasRequest, Active, RequestAsPhase,
                            NoAnswerYet, AgeBounded, Told
  <1> QED
    BY <1>4, <1>5, <1>6, <1>7, OneCaller

\* A value if the status is a success and the body is JSON, an error that fits it if not.
LEMMA BodyKeeps == ASSUME AInv, NEW c \in Callers, Body(c) PROVE AInv'
  <1> DEFINE a == response[c]
             b == [a EXCEPT !.complete = TRUE]
             res == IF ~IsSuccess(a.status) THEN ApiError(a.status)
                    ELSE IF a.json THEN Value ELSE Error("ResponseError")
  <1>1. a \in Response
    BY DEF AInv, Ranges, CallerInv, NoAnswerYet, Body
  <1>2. /\ b \in Response /\ b # None
        /\ b.status = a.status /\ b.json = a.json /\ b.complete = TRUE
    BY <1>1, NoneAssumption DEF Response
  <1>3. response' = [response EXCEPT ![c] = b] /\ Return(c, res)
    BY DEF Body
  <1>4. /\ response' \in [Callers -> Response \cup {None}] /\ response'[c] = b
        /\ \A q \in Callers : q # c => response'[q] = response[q]
    <2> HIDE DEF b
    <2> QED
      BY <1>2, <1>3 DEF AInv, Ranges
  <1>5. res \in Result /\ Says(res, b)
    <2> HIDE DEF b
    <2>0. a.status \in Statuses /\ a.json \in BOOLEAN
      BY <1>1, ResponseFacts
    <2>1. CASE ~IsSuccess(a.status)
      BY <1>2, <2>0, <2>1, Results DEF Says
    <2>2. CASE IsSuccess(a.status) /\ a.json
      BY <1>2, <2>0, <2>2, Results DEF Says
    <2>3. CASE IsSuccess(a.status) /\ ~a.json
      BY <1>2, <2>0, <2>3, Results DEF Says
    <2> QED
      BY <2>1, <2>2, <2>3
  <1> HIDE DEF res, b
  <1> QED
    BY <1>3, <1>4, <1>5, ReturnKeeps

\* The status of an error is told even if its body breaks off.
LEMMA FailureSays ==
    ASSUME AInv, NEW c \in Callers, phase[c] \in {"connecting", "head", "body"}
    PROVE  Failure(c) \in Result /\ Says(Failure(c), response[c])
  <1>1. CASE phase[c] # "body"
    <2>1. response[c] = None /\ Failure(c) = Error("SendRequest")
      BY <1>1 DEF AInv, CallerInv, NoAnswerYet, Failure
    <2> QED
      BY <2>1, Results DEF Says
  <1>2. CASE phase[c] = "body"
    <2>1. response[c] \in Response /\ response[c].complete = FALSE
      BY <1>2 DEF AInv, Ranges, CallerInv, NoAnswerYet
    <2>2. response[c] # None /\ response[c].status \in Statuses
      BY <2>1, ResponseFacts
    <2>3. CASE IsSuccess(response[c].status)
      <3>1. Failure(c) = Error("Body")
        BY <1>2, <2>3 DEF Failure
      <3> QED
        BY <2>1, <2>3, <3>1, Results DEF Says
    <2>4. CASE ~IsSuccess(response[c].status)
      <3>1. Failure(c) = ApiError(response[c].status)
        BY <1>2, <2>4 DEF Failure
      <3> QED
        BY <2>2, <2>4, <3>1, Results DEF Says
    <2> QED
      BY <2>3, <2>4
  <1> QED
    BY <1>1, <1>2

\* The call fails; the answer stays as far as it was read.
LEMMA BreakKeeps == ASSUME AInv, NEW c \in Callers, Break(c) PROVE AInv'
  <1>1. /\ Return(c, Failure(c)) /\ response' = response
        /\ phase[c] \in {"connecting", "head", "body"}
        /\ response \in [Callers -> Response \cup {None}]
    BY DEF Break, AInv, Ranges
  <1>2. Failure(c) \in Result /\ Says(Failure(c), response[c])
    BY <1>1, FailureSays
  <1> QED
    BY <1>1, <1>2, ReturnKeeps

\* The caller no longer listens.
LEMMA DropKeeps == ASSUME AInv, NEW c \in Callers, Drop(c) PROVE AInv'
  <1>1. /\ Return(c, None) /\ response' = response
        /\ response \in [Callers -> Response \cup {None}]
    BY DEF Drop, AInv, Ranges
  <1> QED
    BY <1>1, ReturnKeeps

\* No call gets older than Timeout, and only those under way get older at all.
LEMMA TickKeeps == ASSUME AInv, Tick PROVE AInv'
  <1>1. /\ \A c \in Callers : phase[c] # "building" /\ ~Expired(c)
        /\ age' = [c \in Callers |-> IF Active(c) THEN age[c] + 1 ELSE 0]
        /\ UNCHANGED <<phase, request, response, result>>
    BY DEF Tick
  <1>2. Ranges'
    <2>1. age' \in [Callers -> Nat]
      BY <1>1 DEF AInv, Ranges
    <2> QED
      BY <1>1, <2>1 DEF AInv, Ranges
  <1>3. ASSUME NEW c \in Callers PROVE CallerInv(c)'
    <2>1. AgeBounded(c)'
      <3>0. age[c] \in Nat /\ Timeout \in Nat
        BY ApiCallAssumption DEF AInv, Ranges
      <3>1. CASE phase[c] = "idle"
        <4>1. age'[c] = 0
          BY <1>1, <3>1 DEF Active
        <4> QED
          BY <1>1, <3>0, <4>1 DEF AgeBounded
      <3>2. CASE phase[c] \in {"connecting", "head", "body"}
        <4>1. age'[c] = age[c] + 1
          BY <1>1, <3>2 DEF Active
        <4>2. ~(age[c] >= Timeout)
          BY <1>1, <3>2 DEF Expired
        <4> QED
          BY <1>1, <3>0, <3>2, <4>1, <4>2 DEF AgeBounded
      <3> QED
        BY <1>1, <3>1, <3>2 DEF AInv, Ranges
    <2> QED
      BY <1>1, <2>1 DEF AInv, CallerInv, HasRequest, Active, RequestAsPhase,
                        NoAnswerYet, Told
  <1> QED
    BY <1>2, <1>3 DEF AInv

\* Every step preserves the invariant.
LEMMA ApiCallNext == ASSUME AInv, [Next]_vars PROVE AInv'
  <1>1. CASE Tick
    BY <1>1, TickKeeps
  <1>2. ASSUME NEW c \in Callers, Call(c) PROVE AInv'
    BY <1>2, CallKeeps
  <1>3. ASSUME NEW c \in Callers, Build(c) PROVE AInv'
    BY <1>3, BuildKeeps
  <1>4. ASSUME NEW c \in Callers, BuildFails(c) PROVE AInv'
    BY <1>4, BuildFailsKeeps
  <1>5. ASSUME NEW c \in Callers, Connect(c) PROVE AInv'
    BY <1>5, ConnectKeeps
  <1>6. ASSUME NEW c \in Callers, Head(c) PROVE AInv'
    BY <1>6, HeadKeeps
  <1>7. ASSUME NEW c \in Callers, Body(c) PROVE AInv'
    BY <1>7, BodyKeeps
  <1>8. ASSUME NEW c \in Callers, Break(c) PROVE AInv'
    BY <1>8, BreakKeeps
  <1>9. ASSUME NEW c \in Callers, Drop(c) PROVE AInv'
    BY <1>9, DropKeeps
  <1>10. CASE UNCHANGED vars
    <2>1. Ranges'
      BY <1>10 DEF AInv, Ranges, vars
    <2>2. \A c \in Callers : CallerInv(c)'
      BY <1>10 DEF AInv, CallerInv, HasRequest, Active, RequestAsPhase,
                   NoAnswerYet, AgeBounded, Told, vars
    <2> QED
      BY <2>1, <2>2 DEF AInv
  <1> QED
    BY <1>1, <1>2, <1>3, <1>4, <1>5, <1>6, <1>7, <1>8, <1>9, <1>10 DEF Next

-----------------------------------------------------------------------------
(* Theorems.                                                               *)

\* The invariant holds in every reachable state (lib.rs 56-199).
THEOREM ApiCallInvariance == Spec => []AInv
  <1> QED
    BY ApiCallInit, ApiCallNext, PTL DEF Spec

\* Types; a call has a request as long as it is under way, signed before it leaves the
\* host, an answer while its body is read, and is never older than Timeout (lib.rs 56-62).
THEOREM ApiCallTypeCorrect == Spec => []TypeOK
  <1>1. AInv => TypeOK
    <2> SUFFICES ASSUME AInv PROVE TypeOK
      OBVIOUS
    <2>1. age \in [Callers -> 0 .. Timeout]
      BY ApiCallAssumption DEF AInv, Ranges, CallerInv, AgeBounded
    <2> QED
      BY <2>1 DEF AInv, Ranges, CallerInv, HasRequest, RequestAsPhase, NoAnswerYet, TypeOK
  <1> QED
    BY <1>1, ApiCallInvariance, PTL

\* What a caller is told is what the server answered, on every path out of a call
\* (lib.rs 184-196).
THEOREM AlwaysToldAsAnswered == Spec => []ToldAsAnswered
  <1>1. AInv => ToldAsAnswered
    BY DEF AInv, CallerInv, Told, Says, ToldAsAnswered
  <1> QED
    BY <1>1, ApiCallInvariance, PTL

-----------------------------------------------------------------------------
(* ApiCall implements Answering: a call that has begun ends when its       *)
(* caller has the result, and it never waits for longer than Timeout.      *)

\* The callers that are in a call; what the refinement maps pending to.
InCall == {c \in Callers : Active(c)}

\* Whoever returns leaves the callers in a call, all others stay as they are.
LEMMA ReturnEnds ==
    ASSUME AInv, NEW c \in Callers, NEW res, Active(c), Return(c, res)
    PROVE  Promise!End(c)
  <1>1. /\ phase' = [phase EXCEPT ![c] = "idle"] /\ age' = [age EXCEPT ![c] = 0]
        /\ phase \in [Callers -> {"idle", "building", "connecting", "head", "body"}]
    BY DEF Return, Goto, AInv, Ranges
  <1>2. InCall' = InCall \ {c}
    BY <1>1 DEF InCall, Active
  <1>3. c \in InCall
    BY DEF InCall
  <1> QED
    BY <1>1, <1>2, <1>3 DEF Promise!End, InCall

\* A step between two phases of a call changes nothing of what is promised.
LEMMA WithinCall ==
    ASSUME AInv, NEW c \in Callers, NEW l, phase[c] # "idle", l # "idle",
           phase' = [phase EXCEPT ![c] = l], age' = age
    PROVE  UNCHANGED Promise!vars
  <1>1. phase \in [Callers -> {"idle", "building", "connecting", "head", "body"}]
    BY DEF AInv, Ranges
  <1>2. InCall' = InCall
    BY <1>1 DEF InCall, Active
  <1> QED
    BY <1>2 DEF Promise!vars, InCall

\* A call begins with no time spent on it.
LEMMA CallBegins == ASSUME AInv, NEW c \in Callers, Call(c) PROVE Promise!Begin(c)
  <1>1. /\ ~Active(c) /\ phase' = [phase EXCEPT ![c] = "building"] /\ age' = age
        /\ phase \in [Callers -> {"idle", "building", "connecting", "head", "body"}]
        /\ age \in [Callers -> Nat] /\ age[c] = 0
    BY DEF Call, Goto, AInv, Ranges, CallerInv, AgeBounded, Active
  <1>2. InCall' = InCall \cup {c} /\ c \notin InCall
    BY <1>1 DEF InCall, Active
  <1>3. age' = [age EXCEPT ![c] = 0]
    BY <1>1
  <1> QED
    BY <1>2, <1>3 DEF Promise!Begin, InCall

\* Time passes only if no call is at its limit: a call in its body or before is stopped
\* by the timer first, and one being built takes no time.
LEMMA TickElapses == ASSUME AInv, Tick PROVE Promise!Elapse
  <1>1. /\ \A c \in Callers : phase[c] # "building" /\ ~Expired(c)
        /\ age' = [c \in Callers |-> IF Active(c) THEN age[c] + 1 ELSE 0]
        /\ phase' = phase
    BY DEF Tick
  <1>2. ASSUME NEW c \in InCall PROVE age[c] < Timeout
    <2>1. c \in Callers /\ phase[c] \in {"connecting", "head", "body"}
      BY <1>1, <1>2 DEF InCall, Active, AInv, Ranges
    <2>2. ~(age[c] >= Timeout)
      BY <1>1, <2>1 DEF Expired
    <2>3. age[c] \in Nat /\ Timeout \in Nat
      BY <2>1, ApiCallAssumption DEF AInv, Ranges
    <2> QED
      BY <2>2, <2>3
  <1>3. age' = [c \in Callers |-> IF c \in InCall THEN age[c] + 1 ELSE 0]
    BY <1>1 DEF InCall
  <1>4. InCall' = InCall
    BY <1>1 DEF InCall, Active
  <1> QED
    BY <1>2, <1>3, <1>4 DEF Promise!Elapse, InCall

\* Every step of a call is one of those promised, or none to the caller.
LEMMA StepAsPromised == ASSUME AInv, [Next]_vars PROVE [Promise!Next]_(Promise!vars)
  <1>1. CASE Tick
    BY <1>1, TickElapses DEF Promise!Next
  <1>2. ASSUME NEW c \in Callers, Call(c) PROVE Promise!Next
    BY <1>2, CallBegins DEF Promise!Next
  <1>3. ASSUME NEW c \in Callers, Build(c) PROVE UNCHANGED Promise!vars
    <2>1. /\ phase[c] # "idle" /\ phase' = [phase EXCEPT ![c] = "connecting"] /\ age' = age
      BY <1>3 DEF Build, Goto
    <2> QED
      BY <2>1, WithinCall
  <1>4. ASSUME NEW c \in Callers, BuildFails(c) PROVE Promise!Next
    <2>1. PICK k \in {"SendRequest", "Convert", "Sign"} : Return(c, Error(k))
      BY <1>4 DEF BuildFails
    <2>2. Active(c)
      BY <1>4 DEF BuildFails, Active
    <2> QED
      BY <2>1, <2>2, ReturnEnds DEF Promise!Next
  <1>5. ASSUME NEW c \in Callers, Connect(c) PROVE UNCHANGED Promise!vars
    <2>1. /\ phase[c] # "idle" /\ phase' = [phase EXCEPT ![c] = "head"] /\ age' = age
      BY <1>5 DEF Connect, Goto
    <2> QED
      BY <2>1, WithinCall
  <1>6. ASSUME NEW c \in Callers, Head(c) PROVE UNCHANGED Promise!vars
    <2>1. /\ phase[c] # "idle" /\ phase' = [phase EXCEPT ![c] = "body"] /\ age' = age
      BY <1>6 DEF Head, Goto
    <2> QED
      BY <2>1, WithinCall
  <1>7. ASSUME NEW c \in Callers, Body(c) PROVE Promise!Next
    <2> DEFINE res == IF ~IsSuccess(response[c].status) THEN ApiError(response[c].status)
                      ELSE IF response[c].json THEN Value ELSE Error("ResponseError")
    <2>1. Active(c) /\ Return(c, res)
      BY <1>7 DEF Body, Active
    <2> HIDE DEF res
    <2> QED
      BY <2>1, ReturnEnds DEF Promise!Next
  <1>8. ASSUME NEW c \in Callers, Break(c) PROVE Promise!Next
    <2>1. Active(c) /\ Return(c, Failure(c))
      BY <1>8 DEF Break, Active
    <2> QED
      BY <2>1, ReturnEnds DEF Promise!Next
  <1>9. ASSUME NEW c \in Callers, Drop(c) PROVE Promise!Next
    <2>1. Active(c) /\ Return(c, None)
      BY <1>9 DEF Drop
    <2> QED
      BY <2>1, ReturnEnds DEF Promise!Next
  <1>10. CASE UNCHANGED vars
    BY <1>10 DEF vars, Promise!vars, Active
  <1> QED
    BY <1>1, <1>2, <1>3, <1>4, <1>5, <1>6, <1>7, <1>8, <1>9, <1>10 DEF Next

\* ApiCall does what Answering allows and nothing else: no call is answered twice or while
\* it is not under way, and time never passes beyond its limit (lib.rs 56-62).
THEOREM AnswersAsPromised == Spec => Promise!Spec
  <1>1. Init => Promise!Init
    BY DEF Init, Promise!Init, Active
  <1> QED
    BY <1>1, ApiCallInvariance, StepAsPromised, PTL DEF Spec, Promise!Spec
=============================================================================
